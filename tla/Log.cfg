CONSTANTS
  Threads = {t1, t2}
  Flushers = {t1}
  Nothing = nothing
  NoLine = null
  MaxLines = 2
  MaxDays = 2
  m_split_lines = 2
  m_max_size = 2
SPECIFICATION FairSpec
INVARIANTS TypeOK NothingLost InOrder RightFile FlushedIsDurable
PROPERTY EverythingWritten
CHECK_DEADLOCK FALSE
