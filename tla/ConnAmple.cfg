CONSTANTS
  Threads = {t1, t2, t3}
  Main = main
  Conns = {c1, c2, c3}
  NoConn = null
  Nobody = nobody
  UIntMax = 7
  SignalsHit = TRUE
  MayDestroy = TRUE
SPECIFICATION Spec
INVARIANTS NeverStarved UnitsConserved NoClosedInUse
SYMMETRY Symmetric
CHECK_DEADLOCK FALSE
