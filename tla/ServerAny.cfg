CONSTANTS
  Fds = {5, 6}
  Workers = {w1, w2}
  NoJob = none
  MaxConns = 3
  MaxFd = 2
  MaxRequests = 1
  MaxEvents = 2
  LowestFirst = FALSE
  MayStop = TRUE
  Patient = FALSE
  BadRequests = TRUE
SPECIFICATION Spec
INVARIANTS OpenHasTimer NoDanglingTimer
SYMMETRY Symmetric
