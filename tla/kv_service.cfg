CONSTANTS
  o1 = o1
  o2 = o2
  o3 = o3
  k1 = k1
  e0 = e0
  v1 = v1
  Op = {o1, o2, o3}
  Key = {k1}
  Value = {e0, v1}
  Empty = e0
  Nil = Nil
  Blind = FALSE
  MaxVersion = 2
  MaxAttempts = 2
SYMMETRY Symmetry
SPECIFICATION Spec
INVARIANTS PutTruthful
PROPERTIES Linearizable
CHECK_DEADLOCK FALSE
