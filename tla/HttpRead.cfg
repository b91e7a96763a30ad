CONSTANTS
  Path <- MCPath
  HostOnly <- MCHostOnly
  Lengths <- MCLengths
  Requests <- MCRequests
  READ_BUFFER_SIZE = 16
  INT_MAX = 40
  MaxSent = 3
SPECIFICATION FairSpec
INVARIANTS TypeOK AnswerMatches
PROPERTY GetsAnswer
CHECK_DEADLOCK FALSE
