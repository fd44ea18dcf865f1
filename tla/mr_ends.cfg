CONSTANTS
  w1 = w1
  w2 = w2
  Worker = {w1, w2}
  NMap = 2
  NReduce = 2
  Inputs <- MCInputs
  BufferSize = 2
  MaxCrashes = 1
  MaxSlow = 0
  Nil = Nil
SPECIFICATION FairSpec
PROPERTIES JobEnds
CHECK_DEADLOCK FALSE
