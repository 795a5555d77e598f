SPECIFICATION RemotesSpec
CONSTANTS
  Callers = {c1, c2}
  Nothing = Nothing
  None = None
  Junk = Junk
  MaxChunks = 2
  MaxCalls = 2
  MaxDrops = 1
  Users = {u1}
  Devices = {d1, d2}
  Garbled = Garbled
  TooLong = TooLong
  Size = 2
  MaxAsked = 2
  MaxLinks = 2
  MaxCuts = 1
INVARIANT WorkerReads
CHECK_DEADLOCK FALSE
