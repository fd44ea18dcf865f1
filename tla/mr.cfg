CONSTANTS
  w1 = w1
  w2 = w2
  Worker = {w1, w2}
  NMap = 2
  NReduce = 2
  Inputs <- MCInputs
  BufferSize = 2
  MaxCrashes = 1
  MaxSlow = 2
  Nil = Nil
SPECIFICATION FairSpec
INVARIANTS OutputsRight OneNodePerTask MergesRight
PROPERTIES EndsUnlessOrphaned
CHECK_DEADLOCK FALSE
