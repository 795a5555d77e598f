SPECIFICATION FairSpec
CONSTANTS
  c1 = c1
  c2 = c2
  c3 = c3
  NoConn = NoConn
  Conns = {c1, c2}
  SlotCount = 2
  Lengths = {2}
  Chunk = 1
  ReplyLength = 1
  Cygwin = FALSE
  MaxRequests = 1
INVARIANT WritesToLiveConnection
PROPERTIES RequestsAreAnswered ExitStops
