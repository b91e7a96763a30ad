CONSTANTS
  Threads = {t1, t2, t3}
  Main = main
  Conns = {c1, c2}
  NoConn = null
  Nobody = nobody
  UIntMax = 7
  SignalsHit = TRUE
  MayDestroy = FALSE
SPECIFICATION FairSpec
INVARIANTS TypeOK OneHolder
PROPERTIES IsResourcePool GetsConnection
CHECK_DEADLOCK FALSE
