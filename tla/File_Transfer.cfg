\* One file client and one other connection, two files of up to two blocks.
SPECIFICATION TransferSpec
CONSTANTS
  me = me
  peer = peer
  f1 = f1
  f2 = f2
  p1 = p1
  p2 = p2
  NoCon = NoCon
  NoFile = NoFile
  Cons = {me, peer}
  Files = {f1, f2}
  MaxBlocks = 2
  Me = me
  PeerFiles = {f1}
  Parsers = {p1, p2}
  MaxCalls = 2
  MaxTimeouts = 1
INVARIANTS
  WriteLockExcludes
  LeftLocksSlipped
  DownLoadHoldsLock
  BlocksInOrder
  QueueIsServed
SYMMETRY ParserSymmetry
CONSTRAINT Followed
