\* Two loggers, small channels, a file of two records.
SPECIFICATION LiveSpec
CONSTANTS
  Loggers = {l1, l2}
  DataCap = 1
  BufferCap = 1
  FileCap = 2
  MaxWrites = 3
INVARIANTS
  BuffersExclusive
  LogIsWhatWasSent
PROPERTIES
  QuitReturns
  WriteReturns
CHECK_DEADLOCK FALSE
