SPECIFICATION FairSpec
CONSTANTS
  Closer = {k1, k2}
  Caller = {}
  CloseFrom = {}
  WriteFrom = {"handler"}
  QueueCap = 1
  SendLimit = 1
  HeartCheck = FALSE
  Protocol = FALSE
  MaxUse = 1
  MaxStats = 0
INVARIANT RequestedCloseIsPending
PROPERTIES CloseRequestIsServed TeardownCompletes ServerCloseDrains
CHECK_DEADLOCK FALSE
