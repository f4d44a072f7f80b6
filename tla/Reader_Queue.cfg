SPECIFICATION Spec
CONSTANTS
  bufsize = 3
  Byte = {a, b, delim}
  Delim = delim
  Zero = zero
  MaxStream = 6
INVARIANTS OneChunk InOrder FullOnlyWhenPending
CHECK_DEADLOCK FALSE
