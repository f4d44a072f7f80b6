SPECIFICATION FairSpec
CONSTANTS
  Closer = {k1, k2}
  Caller = {}
  CloseFrom = {}
  WriteFrom = {}
  QueueCap = 1
  SendLimit = 0
  HeartCheck = TRUE
  Protocol = FALSE
  MaxUse = 2
  MaxStats = 1
PROPERTY IdleConnectionIsClosed
CHECK_DEADLOCK FALSE
