SPECIFICATION FairSpec
CONSTANTS
  c1 = c1
  c2 = c2
  c3 = c3
  NoConn = NoConn
  Conns = {c1}
  SlotCount = 1
  Lengths = {2}
  Chunk = 1
  ReplyLength = 1
  Cygwin = FALSE
  MaxRequests = 1
PROPERTY DisconnectsAreNoticed
