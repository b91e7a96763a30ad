CONSTANTS
  Fds = {5, 6, 7}
  Workers = {w1, w2}
  NoJob = none
  MaxConns = 3
  MaxFd = 3
  MaxRequests = 1
  MaxEvents = 2
  LowestFirst = TRUE
  MayStop = TRUE
  Patient = TRUE
  BadRequests = FALSE
SPECIFICATION FairSpec
INVARIANTS TypeOK OneParty CountsConnections AlarmAlive
PROPERTIES IsConnectionCycle StopsOnTerm
