SPECIFICATION Spec
CONSTANTS
  Publishers = {p1, p2}
  Subscribers = {s1}
  Capacity = 2
SYMMETRY Sym
CHECK_DEADLOCK FALSE
INVARIANT IdsIncrease
