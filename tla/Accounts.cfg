CONSTANTS
  Workers = {w1, w2}
  Names = {n1, n2}
  Passwords = {p1, p2}
  None = null
  NoJob = none
  Nobody = nobody
  MaxRequests = 4
  MaxRestarts = 2
  MayFail = TRUE
SPECIFICATION Spec
INVARIANTS TypeOK OneRowPerName ConfirmedLogsIn LoginIsBacked
SYMMETRY Symmetric
CHECK_DEADLOCK FALSE
