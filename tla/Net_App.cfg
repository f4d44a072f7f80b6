SPECIFICATION FairSpec
CONSTANTS
  Closer = {k1, k2}
  Caller = {a1}
  CloseFrom = {"caller", "handler"}
  WriteFrom = {"caller"}
  QueueCap = 1
  SendLimit = 0
  HeartCheck = FALSE
  Protocol = TRUE
  MaxUse = 1
  MaxStats = 0
PROPERTY CloseTakesEffect
CHECK_DEADLOCK FALSE
