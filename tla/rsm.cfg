CONSTANTS
  s1 = s1
  s2 = s2
  o1 = o1
  o2 = o2
  k1 = k1
  e0 = e0
  Server = {s1, s2}
  Op = {o1, o2}
  Key = {k1}
  Value = {e0}
  Empty = e0
  Nil = Nil
  MaxVersion = 1
  MaxEvents = 3
  MaxTerm = 2
  MaxSnapIndex = 1
SYMMETRY Symmetry
SPECIFICATION Spec
INVARIANTS StateIsPrefix WaiterNotLost NamedUntilRestart
PROPERTIES Linearizable
CHECK_DEADLOCK FALSE
