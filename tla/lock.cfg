CONSTANTS
  d1 = d1
  d2 = d2
  d3 = d3
  k1 = k1
  e0 = e0
  Clerk = {d1, d2, d3}
  Key = {k1}
  Value = {e0, d1, d2, d3}
  Empty = e0
  Nil = Nil
  name = k1
  MaxVersion = 4
SPECIFICATION FairSpec
INVARIANTS MutualExclusion HolderKnowsVersion ReleaseNotRefused
PROPERTIES Progress
CHECK_DEADLOCK FALSE
