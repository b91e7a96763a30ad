CONSTANTS
  Fds = {5}
  Workers = {w1, w2}
  NoJob = none
  MaxConns = 2
  MaxFd = 2
  MaxRequests = 1
  MaxEvents = 2
  LowestFirst = TRUE
  MayStop = FALSE
  Patient = FALSE
  BadRequests = FALSE
SPECIFICATION Spec
INVARIANT OneThreadPerSocket
