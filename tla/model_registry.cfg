SPECIFICATION Spec
CONSTANTS
  None = None
  Tasks = {t1, t2, t3}
  Paths = {p1, p2}
  Contents = {m1, m2}
  MaxStamp = 3
SYMMETRY Sym
CHECK_DEADLOCK FALSE
INVARIANTS IInv CacheSound OneRowPerContent
PROPERTY TrustIsEarned
