SPECIFICATION FairSpec
CONSTANTS
  Con = {r1}
  Caller = {a, h}
  InHandler = {h}
  MaxPkg = 3
  MaxCall = 3
INVARIANTS WrongResultIsALateOne PackagesAreExclusive WaitersChannelIsOpen EntriesAreInUse HandlerCallGetsNoResult OnlyLateOnesBlock
PROPERTIES ReceiverGetsOn CallReturns
CHECK_DEADLOCK FALSE
