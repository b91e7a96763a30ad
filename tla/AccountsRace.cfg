CONSTANTS
  Workers = {w1, w2}
  Names = {n1}
  Passwords = {p1, p2}
  None = null
  NoJob = none
  Nobody = nobody
  MaxRequests = 4
  MaxRestarts = 0
  MayFail = FALSE
SPECIFICATION Spec
INVARIANT RegistersOnce
CHECK_DEADLOCK FALSE
