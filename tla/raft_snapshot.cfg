CONSTANTS
  s1 = s1
  s2 = s2
  c1 = c1
  Server = {s1, s2}
  Command = {c1}
  Nil = Nil
  maxBatchSize = 1
  MaxTerm = 2
  MaxIndex = 2
  MaxSnapIndex = 2
  MaxRestarts = 0
  MaxVotes = 1
  MaxInFlight = 2
SYMMETRY Symmetry
SPECIFICATION Spec
INVARIANTS TypeOK SnapshotChain CommitInLog ApplyInOrder
PROPERTIES CommittedKept AppliedGrows
CHECK_DEADLOCK FALSE
