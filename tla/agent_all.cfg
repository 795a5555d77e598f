SPECIFICATION Spec
CONSTANTS
  t1 = t1
  t2 = t2
  k1 = k1
  k2 = k2
  Main = main
  NoReq = NoReq
  NoKey = NoKey
  Threads = {t1}
  Ids = {k1}
  Requests <- AllRequests
  GuiOps = {"add", "remove", "view", "lock", "kill"}
  InitInfo <- AllAccepted
  InitStartup <- EmptyOrAll
  Timeout = 1
  MaxTime = 3
  MaxNesting = 2
  ListCapacity = 0
  Remote = {k1}
  PuttyInfo <- NoInfo
INVARIANTS TypeOK ViewFaithful ForgottenStaysForgotten
