SPECIFICATION RunSpec
CONSTANTS
  None = None
  Tasks = {t1, t2}
  Paths = {p1}
  Contents = {m1, m2}
  MaxStamp = 2
  Runs = {r1}
SYMMETRY Sym
CHECK_DEADLOCK FALSE
INVARIANT RunsKeepTheirModel
