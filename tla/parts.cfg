SPECIFICATION Spec
CONSTANTS
  PipeClients = {c1, c2}
  Nobody = Nobody
  RequestLength = 2
  DataRoom = 3
  PipeRequests = 2
  PipeStarts = 2
  f1 = f1
  f2 = f2
  f3 = f3
  f4 = f4
  f5 = f5
  p1 = p1
  p2 = p2
  p3 = p3
  Files = {f1, f2, f3, f4, f5}
  Putty = {f1, f4}
  NewFormat = {f5}
  PassOf <- EncryptedWith
  NoPass = NoPass
  Unreadable = {f4}
  Altered = {f3}
  Passphrases = {p1, p2, p3}
  PuttySaved = {p3}
  StartupFiles <- FilesInSettings
  MaxLoads = 2
  MaxFileEvents = 6
  Signers = {s1, s2}
  Certs = {k1, k2}
  Pins = {p1, p2}
  Torn = Torn
  NoPin = NoPin
  SlotList <- TwoSlots
  CardSlot = 2
  MaxSessions = 3
  MaxSignatures = 3
  MaxCardEvents = 2
INVARIANTS PartsTypeOK PipeAnswersInStep RememberedAsTicked PinsWereRight
PROPERTIES ComputesExactly SignaturesValid KeysKeptAsWritten SignsUnlessDisturbed PipeServes PipeImplementsPort
CHECK_DEADLOCK FALSE
