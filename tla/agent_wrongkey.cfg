SPECIFICATION Spec
CONSTANTS
  t1 = t1
  t2 = t2
  k1 = k1
  k2 = k2
  Main = main
  NoReq = NoReq
  NoKey = NoKey
  Threads = {t1, t2}
  Ids = {k1, k2}
  Requests <- StoreRequests
  GuiOps = {}
  InitInfo <- AllAccepted
  InitStartup <- NoStartup
  Timeout = 1
  MaxTime = 1
  MaxNesting = 1
  ListCapacity = 1
  Remote = {}
  PuttyInfo <- NoInfo
INVARIANT SignsWithRequestedKey
