CONSTANTS
  s1 = s1
  s2 = s2
  c1 = c1
  c2 = c2
  Server = {s1, s2}
  Command = {c1, c2}
  Nil = Nil
  maxBatchSize = 1
  MaxTerm = 2
  MaxIndex = 2
  MaxSnapIndex = 2
  MaxRestarts = 1
  MaxVotes = 1
  MaxInFlight = 1
SYMMETRY Symmetry
SPECIFICATION Spec
INVARIANTS AppliedAgree PersistComplete ApplyInOrder
PROPERTIES CommittedKept VoteStable
CHECK_DEADLOCK FALSE
