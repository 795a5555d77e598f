SPECIFICATION Spec
CONSTANTS
  c1 = c1
  c2 = c2
  c3 = c3
  NoConn = NoConn
  Conns = {c1, c2}
  SlotCount = 1
  Lengths = {2}
  Chunk = 1
  ReplyLength = 2
  Cygwin = TRUE
  MaxRequests = 2
INVARIANTS RoomAndTypes SlotsAreConnections AnswersInStep
PROPERTY ImplementsPort
