CONSTANTS
  s1 = s1
  s2 = s2
  s3 = s3
  c1 = c1
  Server = {s1, s2, s3}
  Command = {c1}
  Nil = Nil
  maxBatchSize = 2
  MaxTerm = 4
  MaxIndex = 2
  MaxSnapIndex = 0
  MaxRestarts = 0
  MaxVotes = 1
  MaxInFlight = 1
SYMMETRY Symmetry
SPECIFICATION DivergedSpec
CONSTRAINT NoApply
INVARIANTS ElectionSafety LeaderCompleteness LogMatching MatchIndexTruthful NextIndexInRange
CHECK_DEADLOCK FALSE
