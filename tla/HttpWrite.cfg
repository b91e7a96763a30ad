CONSTANTS
  Path <- MCPath
  HostOnly <- MCHostOnly
  Lengths <- MCLengths
  Requests <- MCRequests
  READ_BUFFER_SIZE = 15
  INT_MAX = 40
  MaxSent = 2
  AccountSize = 0
  HeadSizes = {4}
  Flag <- MCFlag
  Size <- MCSize
  Unreadable = {"picture"}
SPECIFICATION FairSpec
INVARIANTS TypeOK SendsInOrder MappingsAccounted AnswersAsked
PROPERTIES Completes IsConnectionCycle
