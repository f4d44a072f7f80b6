SPECIFICATION FairSpec
CONSTANTS
  Closer = {k1, k2}
  Caller = {}
  CloseFrom = {"handler"}
  WriteFrom = {}
  QueueCap = 1
  SendLimit = 0
  HeartCheck = TRUE
  Protocol = FALSE
  MaxUse = 1
  MaxStats = 1
PROPERTY HandlerMayClose
CHECK_DEADLOCK FALSE
