SPECIFICATION Spec
CONSTANTS
  Closer = {k1, k2}
  Caller = {}
  CloseFrom = {}
  WriteFrom = {"handler"}
  QueueCap = 1
  SendLimit = 0
  HeartCheck = TRUE
  Protocol = FALSE
  MaxUse = 2
  MaxStats = 1
SYMMETRY Symmetry
INVARIANTS TypeOK OneTeardown ReaderSparedByClear ServerCountsClients
PROPERTY ImplementsSession
CHECK_DEADLOCK FALSE
