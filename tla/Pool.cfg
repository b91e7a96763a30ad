CONSTANTS
  Main = main
  Workers = {w1, w2}
  Requests = {r1, r2}
  NoRequest = none
  Nobody = nobody
  MaxRequests = 2
  SignalsHitWorkers = TRUE
  MayStop = TRUE
SPECIFICATION FairSpec
INVARIANTS TypeOK NoLostWakeup
PROPERTY HandsOver
CHECK_DEADLOCK FALSE
