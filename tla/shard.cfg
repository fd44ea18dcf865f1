CONSTANTS
  c1 = c1
  c2 = c2
  o1 = o1
  o2 = o2
  e0 = e0
  Ctrler = {c1, c2}
  Gid = {1, 2}
  NShards = 2
  Op = {o1, o2}
  Key = {1}
  Value = {e0}
  Empty = e0
  Nil = Nil
  MaxVersion = 1
  MaxRequests = 2
  MaxNum = 3
  MaxLate = 1
SYMMETRY Symmetry
SPECIFICATION SpecRecoversNext
INVARIANTS OneServer PublishedServes DataKept
PROPERTIES Linearizable
CHECK_DEADLOCK FALSE
