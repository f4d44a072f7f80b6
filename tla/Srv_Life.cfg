\* A server that is opened twice, with one client after the other.
SPECIFICATION LiveSpec
CONSTANTS
  Conns = {c1}
  MaxOpens = 2
INVARIANTS
  ListedAreCounted
  ClosedIsDeaf
PROPERTIES
  CloseReturns
  LateClientLeaves
CHECK_DEADLOCK FALSE
