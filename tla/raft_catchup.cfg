CONSTANTS
  pa = pa
  pb = pb
  pc = pc
  c1 = c1
  Server = {pa, pb, pc}
  Command = {c1}
  Nil = Nil
  maxBatchSize = 2
  MaxTerm = 3
  MaxIndex = 4
  MaxSnapIndex = 1
  MaxRestarts = 0
  MaxVotes = 1
  MaxInFlight = 1
SPECIFICATION BehindSpec
PROPERTY CatchUp
CHECK_DEADLOCK FALSE
