---------------------------- MODULE RemotesSafe ----------------------------
(***************************************************************************)
(* What modules Relay and BtProxy promise, proved for any callers,         *)
(* devices, sizes of messages and numbers of calls.                        *)
(***************************************************************************)
EXTENDS MCRemotes, SequenceTheorems, TLAPS

-----------------------------------------------------------------------------
(* The relay's inductive invariant.                                         *)

\* What is owed to somebody who waits: a request left, a request in work, or a
\* notification.
Debts ==
  {d \in {"end", "busy", "notify"} : \/ d # "busy" /\ d \in events
                                     \/ d = "busy" /\ relay \in {"write", "read"}}

\* Who waits for what.  Not when the thread is told to end: nobody is left then,
\* and the last request may be sent again.
Owed(f) ==
  /\ \A d \in Debts : call[f[d]].at = "waiting"
  /\ \A d, e \in Debts : f[d] = f[e] => d = e

EveryDebtOwed == ~exiting => \E f \in [Debts -> Callers] : Owed(f)

Ended ==
  /\ relay = "none" \/ exiting => Idle
  /\ relay = "ended" => exiting
  /\ relay = "wait" /\ exiting => "end" \in events
  /\ relay \in {"none", "ended"} \/ (exiting /\ relay # "wait") => channel = "null"
  /\ ~sendFlag /\ ~exiting => "end" \notin events

\* Until the thread closes the channel, the handle or an event tells of the session.
ChannelTold ==
  /\ channel = "open" => session
  /\ ~overtaken /\ relay \in {"wait", "write", "read"} /\ (exiting => relay = "wait") =>
       IF session THEN "disconnect" \notin events /\ ("reconnect" \in events \/ channel = "open")
                  ELSE channel = "null" \/ "disconnect" \in events

\* Calls come one at a time, and sendPtr_ is the request of the one under way.
OneCall ==
  /\ \A c, d \in Callers : call[c].at # "idle" /\ call[d].at # "idle" => c = d
  /\ \A c \in Callers : call[c].at \in {"waiting", "notified"} => sendPtr.of = call[c].of

AtAgent == worker.at \in {"query", "asking", "writing"}

Nowhere == down = <<>> /\ up = <<>> /\ ~alert /\ ~AtAgent

\* While every message is one chunk, there is at most one, in one place on its way to
\* the agent and back, and none unless the thread waits for it on an open channel.
\* An answer that was sent is told of before the next request.
InOnePlace ==
  /\ sendPtr.len = 1 /\ \A c \in Callers : call[c].len = 1
  /\ relay # "read" \/ channel # "open" => Nowhere
  /\ down # <<>> => Len(down) = 1 /\ up = <<>> /\ ~alert /\ ~AtAgent
  /\ up # <<>> => Len(up) = 1 /\ ~alert /\ ~AtAgent
  /\ alert => ~AtAgent
  /\ worker.at # "racing"
  /\ worker.at = "sent" => callback = "free"

\* It is the request that sendPtr_ points to, or what is sent for an answer to it.
ItsOwn ==
  /\ down # <<>> => Head(down) = sendPtr
  /\ up # <<>> => Head(up).of \in {sendPtr.of, Junk}
  /\ alert \/ worker.at = "query" => received = sendPtr
  /\ worker.at \in {"asking", "writing"} => worker.what = sendPtr

AnswerKept ==
  "notify" \in events \/ (\E c \in Callers : call[c].at = "notified") =>
    receiveBuf.of \in {sendPtr.of, Junk, Nothing}

NumbersDiffer ==
  /\ \A c \in Callers : call[c].at # "idle" => call[c].of \in 1..made
  /\ \A c, d \in Callers : call[c].at # "idle" /\ call[d].at # "idle" /\ call[c].of = call[d].of => c = d

CallbackWaits == callback = "waiting" /\ ~sync => alert

RelayInv ==
  /\ TypeOK /\ Ended /\ EveryDebtOwed /\ ChannelTold /\ NumbersDiffer /\ CallbackWaits
  /\ chunked => muddled
  /\ ~chunked => InOnePlace
  /\ ~muddled => OneCall /\ ItsOwn /\ AnswerKept

-----------------------------------------------------------------------------
(* The Bluetooth proxy's inductive invariant.                               *)

CountBounded ==
  /\ count \in Int /\ count <= links /\ count + cuts >= 0
  /\ disconnReq => cuts > 0 /\ count + cuts > 0
  /\ links \in 0..MaxLinks /\ cuts \in 0..MaxCuts /\ asks \in 0..MaxAsked

AsksDiffer ==
  /\ \A u \in Users : calling[u].at # "idle" => calling[u].r \in 1..asks
  /\ \A u, v \in Users : calling[u].at # "idle" /\ calling[v].at # "idle" /\ calling[u].r = calling[v].r => u = v

OneAsks == \A u, v \in Users : calling[u].at # "idle" /\ calling[v].at # "idle" => u = v

\* What is under way while the one caller waits is its own.
OwnAnswer(u) ==
  LET p == Pieces(calling[u].r)
  IN /\ out \in {<<>>, p} /\ in \in {<<>>, p} /\ (out = <<>> \/ in = <<>>)
     /\ thread = "notify" \/ arrived => buffer \in {calling[u].r, TooLong}

ProxyInv ==
  /\ BtTypeOK /\ CountBounded /\ OneClient /\ AsksDiffer
  /\ ~confused => OneAsks /\ \A u \in Users : calling[u].at = "waiting" => OwnAnswer(u)

-----------------------------------------------------------------------------
(* The relay.                                                               *)

\* One caller goes on.
LEMMA CallMoves ==
  ASSUME TypeOK, NEW c \in Callers, NEW at \in {"idle", "checked", "waiting", "notified"},
         call' = [call EXCEPT ![c].at = at]
  PROVE  /\ call' \in [Callers -> [at : {"idle", "checked", "waiting", "notified"},
                                   of : Requests \cup {Nothing}, len : 1..MaxChunks]]
         /\ \A d \in Callers : /\ call'[d].at = IF d = c THEN at ELSE call[d].at
                               /\ call'[d].of = call[d].of /\ call'[d].len = call[d].len
BY ZenonT(60) DEF TypeOK

LEMMA NoChunkTyped == NoChunk \in ChunkType /\ NoChunk.of = Nothing
BY RelayAssumption DEF NoChunk, Chunk, ChunkType

\* What is written is a request or an answer in chunks.
LEMMA ChunksTyped ==
  ASSUME NEW r \in Requests \cup {Nothing, Junk}, NEW len \in 1..MaxChunks
  PROVE  /\ Chunks(r, len) \in Seq(ChunkType)
         /\ len = 1 => Chunks(r, len) = <<Chunk(r, 1)>>
<1>1. len \in Nat /\ Chunk(r, len) \in ChunkType
  BY RelayAssumption DEF Chunk, ChunkType
<1>2. Chunks(r, len) \in [1..len -> ChunkType]
  BY <1>1 DEF Chunks
<1>3. ASSUME len = 1 PROVE Chunks(r, len) = <<Chunk(r, 1)>>
  BY <1>3 DEF Chunks
<1> QED BY <1>1, <1>2, <1>3

\* A chunk that is alone leaves nothing behind it.
LEMMA LoneChunk ==
  ASSUME NEW s \in Seq(ChunkType), Len(s) = 1
  PROVE  s # <<>> /\ Tail(s) = <<>>
<1>1. s # <<>>
  BY EmptySeq
<1>2. Tail(s) \in Seq(ChunkType) /\ Len(Tail(s)) = 0
  BY <1>1, HeadTailProperties
<1> QED BY <1>1, <1>2, EmptySeq

LEMMA WorkerMoves ==
  ASSUME TypeOK, NEW at \in WorkerStates,
         worker' = [worker EXCEPT !.at = at]
  PROVE  /\ worker' \in [at : WorkerStates, what : ChunkType]
         /\ worker'.at = at /\ worker'.what = worker.what
BY DEF TypeOK, WorkerStates

LEMMA RelayInit == Init => RelayInv
<1> SUFFICES ASSUME Init PROVE RelayInv
  OBVIOUS
<1>1. TypeOK
  <2>1. /\ call \in [Callers -> [at : {"idle", "checked", "waiting", "notified"}, of : Requests \cup {Nothing},
                           len : 1..MaxChunks]]
        /\ worker \in [at : WorkerStates, what : ChunkType]
        /\ last \in [to : Requests \cup {Nothing}, with : Requests \cup {Nothing, Junk}]
        /\ made \in 0..MaxCalls /\ drops \in 0..MaxDrops
    BY NoChunkTyped, RelayAssumption DEF Init, WorkerStates
  <2>2. down \in Seq(ChunkType) /\ up \in Seq(ChunkType)
    BY DEF Init
  <2> QED BY <2>1, <2>2, NoChunkTyped DEF Init, TypeOK
<1>2. /\ Ended /\ ChannelTold /\ NumbersDiffer /\ CallbackWaits /\ OneCall /\ InOnePlace /\ ItsOwn /\ AnswerKept
      /\ ~chunked
  BY DEF Init, Ended, Idle, ChannelTold, NumbersDiffer, CallbackWaits, OneCall, InOnePlace, ItsOwn, AnswerKept, Nowhere,
         AtAgent, NoChunk, Chunk
<1>3. EveryDebtOwed
  <2>1. Debts = {}
    BY DEF Init, Debts
  <2>2. [d \in Debts |-> CHOOSE c \in Callers : TRUE] \in [Debts -> Callers]
    BY <2>1
  <2> QED BY <2>1, <2>2 DEF EveryDebtOwed, Owed
<1> QED BY <1>1, <1>2, <1>3 DEF RelayInv

LEMMA RelayTyped ==
  ASSUME TypeOK, [Next]_vars
  PROVE  TypeOK'
<1> USE DEF server, client, calls, wire, history
<1>1. CASE UNCHANGED vars
  BY <1>1 DEF vars, TypeOK
<1>2. CASE SessionDown
  <2>1. drops + 1 \in 0..MaxDrops /\ NoChunk \in ChunkType
    BY <1>2, NoChunkTyped, RelayAssumption DEF SessionDown, TypeOK
  <2>2. channel' \in {"null", "open", "dead"} /\ events' \subseteq {"reconnect", "disconnect", "end", "notify"}
    BY <1>2 DEF SessionDown, TypeOK
  <2>3. down' \in Seq(ChunkType) /\ up' \in Seq(ChunkType)
    BY <1>2 DEF SessionDown, Emptied
  <2> QED BY <1>2, <2>1, <2>2, <2>3 DEF SessionDown, TypeOK, WorkerStates
<1>3. CASE SessionUp \/ ServerStart \/ RequestStop \/ Join \/ Reconnect \/ Disconnect
  <2>1. down' \in Seq(ChunkType) /\ up' \in Seq(ChunkType)
    <3>1. Emptied \/ UNCHANGED wire
      BY <1>3 DEF SessionUp, ServerStart, RequestStop, Join, Reconnect, Disconnect
    <3>2. CASE Emptied
      BY <3>2 DEF Emptied
    <3>3. CASE down' = down /\ up' = up
      BY <3>3 DEF TypeOK
    <3> QED BY <3>1, <3>2, <3>3
  <2>2. channel' \in {"null", "open", "dead"} /\ events' \subseteq {"reconnect", "disconnect", "end", "notify"}
    BY <1>3 DEF SessionUp, ServerStart, RequestStop, Join, Reconnect, Disconnect, Opened, TypeOK
  <2>3. session' \in BOOLEAN /\ exiting' \in BOOLEAN /\ sendFlag' \in BOOLEAN /\ overtaken' \in BOOLEAN
    BY <1>3 DEF SessionUp, ServerStart, RequestStop, Join, Reconnect, Disconnect, TypeOK
  <2> QED BY <1>3, <2>1, <2>2, <2>3
          DEF SessionUp, ServerStart, RequestStop, Join, Reconnect, Disconnect, TypeOK
<1>4. CASE Wake
  BY <1>4 DEF Wake, After, TypeOK
<1>5. CASE Write
  <2>1. sendPtr.of \in Requests \cup {Nothing, Junk} /\ sendPtr.len \in 1..MaxChunks
    BY DEF TypeOK, ChunkType
  <2>2. Chunks(sendPtr.of, sendPtr.len) \in Seq(ChunkType)
    BY <2>1, ChunksTyped
  <2>3. down' \in Seq(ChunkType)
    <3>1. down \in Seq(ChunkType)
      BY DEF TypeOK
    <3>2. down \o Chunks(sendPtr.of, sendPtr.len) \in Seq(ChunkType)
      BY <2>2, <3>1, ConcatProperties
    <3> QED BY <1>5, <3>1, <3>2 DEF Write
  <2>4. receiveBuf' \in ChunkType /\ relay' \in {"none", "wait", "write", "read", "ended"}
        /\ events' \subseteq {"reconnect", "disconnect", "end", "notify"}
    BY <1>5, NoChunkTyped DEF Write, NoAnswer, After, TypeOK
  <2> QED BY <1>5, <2>3, <2>4 DEF Write, TypeOK
<1>6. CASE Read
  <2>1. up # <<>> => Head(up) \in ChunkType /\ Tail(up) \in Seq(ChunkType)
    BY DEF TypeOK
  <2>2. receiveBuf' \in ChunkType /\ relay' \in {"none", "wait", "write", "read", "ended"}
        /\ events' \subseteq {"reconnect", "disconnect", "end", "notify"} /\ up' \in Seq(ChunkType)
    BY <1>6, <2>1, NoChunkTyped DEF Read, NoAnswer, After, TypeOK
  <2> QED BY <1>6, <2>2 DEF Read, TypeOK
<1>7. ASSUME NEW c \in Callers, NEW len \in 1..MaxChunks, Check(c, len)
      PROVE  TypeOK'
  <2>1. made' = made + 1 /\ made' \in Requests /\ made' \in 0..MaxCalls
    BY <1>7, RelayAssumption DEF Check, TypeOK, Requests
  <2> QED BY <1>7, <2>1 DEF Check, TypeOK
<1>8. ASSUME NEW c \in Callers, Put(c)
      PROVE  TypeOK'
  <2>1. sendPtr' \in ChunkType
    BY <1>8 DEF Put, TypeOK, Chunk, ChunkType
  <2> QED BY <1>8, <2>1, CallMoves DEF Put, TypeOK
<1>9. ASSUME NEW c \in Callers, Notified(c)
      PROVE  TypeOK'
  <2>1. call' \in [Callers -> [at : {"idle", "checked", "waiting", "notified"},
                               of : Requests \cup {Nothing}, len : 1..MaxChunks]]
    BY <1>9, CallMoves DEF Notified
  <2> QED BY <1>9, <2>1 DEF Notified, TypeOK
<1>10. ASSUME NEW c \in Callers, Copy(c)
       PROVE  TypeOK'
  <2>1. call[c].of \in Requests \cup {Nothing} /\ receiveBuf.of \in Requests \cup {Nothing, Junk}
    BY DEF TypeOK, ChunkType
  <2>2. call' \in [Callers -> [at : {"idle", "checked", "waiting", "notified"},
                               of : Requests \cup {Nothing}, len : 1..MaxChunks]]
    BY <1>10, CallMoves DEF Copy
  <2>3. last' \in [to : Requests \cup {Nothing}, with : Requests \cup {Nothing, Junk}]
    BY <1>10, <2>1 DEF Copy
  <2> QED BY <1>10, <2>2, <2>3 DEF Copy, TypeOK
<1>11. CASE DllConnect \/ CallbackReturns \/ WorkerWakes \/ Query \/ Reply
  <2>1. worker' \in [at : WorkerStates, what : ChunkType]
    <3>1. CASE Query
      BY <3>1 DEF Query, TypeOK, WorkerStates
    <3>2. CASE CallbackReturns
      BY <3>2 DEF CallbackReturns, TypeOK
    <3>3. CASE DllConnect \/ WorkerWakes \/ Reply
      BY <3>3, WorkerMoves DEF DllConnect, WorkerWakes, Reply, WorkerStates
    <3> QED BY <1>11, <3>1, <3>2, <3>3
  <2>2. callback' \in {"free", "waiting"} /\ alert' \in BOOLEAN /\ sync' \in BOOLEAN
    BY <1>11 DEF DllConnect, CallbackReturns, WorkerWakes, Query, Reply, TypeOK
  <2>3. UNCHANGED <<session, drops, server, calls, wire, received, history>>
    BY <1>11 DEF DllConnect, CallbackReturns, WorkerWakes, Query, Reply
  <2> QED BY <2>1, <2>2, <2>3 DEF TypeOK
<1>12. CASE DataReceived
  <2>1. down # <<>> => Head(down) \in ChunkType /\ Tail(down) \in Seq(ChunkType)
    BY DEF TypeOK
  <2> QED BY <1>12, <2>1 DEF DataReceived, TypeOK
<1>13. ASSUME NEW len \in 1..MaxChunks, Deliver(len)
       PROVE  TypeOK'
  <2>1. PICK r \in Answers(worker.what) : up' = IF channel = "open" THEN up \o Chunks(r, len) ELSE up
    BY <1>13 DEF Deliver
  <2>2. r \in Requests \cup {Nothing, Junk}
    BY DEF Answers, TypeOK, ChunkType
  <2>3. Chunks(r, len) \in Seq(ChunkType)
    BY <2>2, ChunksTyped
  <2>4. up' \in Seq(ChunkType)
    BY <2>1, <2>3 DEF TypeOK
  <2>5. worker' \in [at : WorkerStates, what : ChunkType]
    BY <1>13, WorkerMoves DEF Deliver, WorkerStates
  <2> QED BY <1>13, <2>4, <2>5 DEF Deliver, TypeOK
<1>14. CASE WriteComplete
  BY <1>14, NoChunkTyped DEF WriteComplete, TypeOK, WorkerStates
<1> QED BY <1>1, <1>2, <1>3, <1>4, <1>5, <1>6, <1>7, <1>8, <1>9, <1>10, <1>11, <1>12, <1>13, <1>14
        DEF Next, Server, Dll, Caller

\* Every debt that is left is still owed to who it was.
LEMMA DebtsStay ==
  ASSUME NEW f \in [Debts -> Callers], Owed(f), Debts' \subseteq Debts,
         \A c \in Callers : call[c].at = "waiting" => call'[c].at = "waiting"
  PROVE  EveryDebtOwed'
<1> DEFINE g == [d \in Debts' |-> f[d]]
<1>1. g \in [Debts' -> Callers] /\ \A d \in Debts' : g[d] = f[d]
  OBVIOUS
<1> HIDE DEF g
<1>2. \A d \in Debts' : call'[g[d]].at = "waiting"
  BY <1>1 DEF Owed
<1>3. \A d, e \in Debts' : g[d] = g[e] => d = e
  BY <1>1 DEF Owed
<1> QED BY <1>1, <1>2, <1>3 DEF EveryDebtOwed, Owed

\* One debt becomes another.
LEMMA DebtMoves ==
  ASSUME NEW f \in [Debts -> Callers], Owed(f), NEW a \in Debts, NEW b,
         Debts' \subseteq (Debts \ {a}) \cup {b}, UNCHANGED call
  PROVE  EveryDebtOwed'
<1> DEFINE g == [d \in Debts' |-> IF d = b THEN f[a] ELSE f[d]]
<1>1. \A d \in Debts' : g[d] = (IF d = b THEN f[a] ELSE f[d]) /\ (d # b => d \in Debts /\ d # a)
  OBVIOUS
<1>2. g \in [Debts' -> Callers]
  OBVIOUS
<1> HIDE DEF g
<1>3. \A d \in Debts' : call'[g[d]].at = "waiting"
  BY <1>1 DEF Owed
<1>4. \A d, e \in Debts' : g[d] = g[e] => d = e
  BY <1>1 DEF Owed
<1> QED BY <1>2, <1>3, <1>4 DEF EveryDebtOwed, Owed

LEMMA DebtsKept ==
  ASSUME TypeOK, Ended, EveryDebtOwed, [Next]_vars, ~exiting'
  PROVE  EveryDebtOwed'
<1> USE DEF server, client, calls, wire, history
<1>1. CASE ServerStart
  <2>1. Debts' = {}
    BY <1>1 DEF ServerStart, Debts
  <2>2. [d \in Debts' |-> CHOOSE c \in Callers : TRUE] \in [Debts' -> Callers]
    BY <2>1
  <2> QED BY <2>1, <2>2 DEF EveryDebtOwed, Owed
<1>2. CASE ~ServerStart
  <2>1. ~exiting
    BY <1>2 DEF Next, vars, SessionDown, SessionUp, RequestStop, Server, Reconnect, Disconnect, Wake, Write,
           Read, Join, Dll, DllConnect, DataReceived, CallbackReturns, WorkerWakes, Query, Reply, Deliver, WriteComplete,
           Caller, Put, Notified, Copy, Check
  <2>2. PICK f \in [Debts -> Callers] : Owed(f)
    BY <2>1 DEF EveryDebtOwed
  <2>3. CASE UNCHANGED vars \/ Dll \/ SessionDown \/ SessionUp \/ Reconnect \/ Disconnect
    <3>1. UNCHANGED call /\ Debts' = Debts
      BY <2>3 DEF vars, Debts, SessionDown, SessionUp, Reconnect, Disconnect, Dll, DllConnect, DataReceived,
             CallbackReturns, WorkerWakes, Query, Reply, Deliver, WriteComplete
    <3> QED BY <2>2, <3>1, DebtsStay
  <2>4. CASE RequestStop \/ Join
    BY <2>1, <2>4 DEF RequestStop, Join, Ended
  <2>5. CASE Wake
    <3>1. "end" \in Debts
      BY <2>5 DEF Wake, Debts
    <3>2. UNCHANGED call /\ Debts' \subseteq (Debts \ {"end"}) \cup {"busy"}
      BY <2>1, <2>5 DEF Wake, Debts, Ended
    <3> QED BY <2>2, <3>1, <3>2, DebtMoves
  <2>6. CASE Write \/ Read
    <3>1. "busy" \in Debts /\ UNCHANGED call
      BY <2>6 DEF Write, Read, Debts
    <3>2. Debts' = Debts \/ Debts' \subseteq (Debts \ {"busy"}) \cup {"notify"}
      BY <2>1, <2>6 DEF Write, Read, NoAnswer, After, Debts
    <3> QED BY <2>2, <3>1, <3>2, DebtMoves, DebtsStay
  <2>7. ASSUME NEW c \in Callers, NEW len \in 1..MaxChunks, Check(c, len)
        PROVE  EveryDebtOwed'
    <3>1. Debts' = Debts
      BY <2>7 DEF Check, Debts
    <3>2. \A d \in Callers : call[d].at = "waiting" => call'[d].at = "waiting"
      BY <2>7 DEF Check, TypeOK
    <3> QED BY <2>2, <3>1, <3>2, DebtsStay
  <2>8. ASSUME NEW c \in Callers, Copy(c)
        PROVE  EveryDebtOwed'
    <3>1. Debts' = Debts
      BY <2>8 DEF Copy, Debts
    <3>2. \A d \in Callers : call[d].at = "waiting" => call'[d].at = "waiting"
      BY <2>8, CallMoves DEF Copy
    <3> QED BY <2>2, <3>1, <3>2, DebtsStay
  <2>9. ASSUME NEW c \in Callers, Put(c)
        PROVE  EveryDebtOwed'
    <3> DEFINE g == [d \in Debts' |-> IF d = "end" THEN c ELSE f[d]]
    <3>1. \A d \in Debts' : d # "end" => d \in Debts
      BY <2>9 DEF Put, Debts
    <3>2. call[c].at = "checked" /\ call'[c].at = "waiting" /\ \A d \in Callers : d # c => call'[d].at = call[d].at
      <4>1. call[c].at = "checked" /\ call' = [call EXCEPT ![c].at = "waiting"]
        BY <2>9 DEF Put
      <4>2. \A d \in Callers : call'[d].at = IF d = c THEN "waiting" ELSE call[d].at
        BY <4>1, CallMoves
      <4> QED BY <4>1, <4>2
    <3>3. g \in [Debts' -> Callers] /\ \A d \in Debts' : g[d] = IF d = "end" THEN c ELSE f[d]
      BY <3>1
    <3> HIDE DEF g
    <3>4. \A d \in Debts : f[d] \in Callers /\ f[d] # c /\ call[f[d]].at = "waiting"
      BY <2>2, <3>2 DEF Owed
    <3>5. \A d \in Debts' : call'[g[d]].at = "waiting"
      BY <3>1, <3>2, <3>3, <3>4
    <3>6. \A d, e \in Debts' : g[d] = g[e] => d = e
      BY <2>2, <3>1, <3>3, <3>4 DEF Owed
    <3> QED BY <3>3, <3>5, <3>6 DEF EveryDebtOwed, Owed
  <2>10. ASSUME NEW c \in Callers, Notified(c)
         PROVE  EveryDebtOwed'
    <3> DEFINE g == [d \in Debts' |-> IF f[d] = c THEN f["notify"] ELSE f[d]]
    <3>1. "notify" \in Debts /\ \A d \in Debts' : d \in Debts /\ d # "notify"
      BY <2>10 DEF Notified, Debts
    <3>2. \A d \in Callers : d # c => call'[d].at = call[d].at
      BY <2>10, CallMoves DEF Notified
    <3>3. g \in [Debts' -> Callers] /\ \A d \in Debts' : g[d] = IF f[d] = c THEN f["notify"] ELSE f[d]
      BY <3>1
    <3> HIDE DEF g
    <3>4. \A d \in Debts : f[d] \in Callers /\ call[f[d]].at = "waiting"
      BY <2>2 DEF Owed
    <3>5. \A d \in Debts' : g[d] # c /\ g[d] \in {f[e] : e \in Debts}
      BY <2>2, <3>1, <3>3 DEF Owed
    <3>6. \A d \in Debts' : call'[g[d]].at = "waiting"
      BY <3>2, <3>4, <3>5
    <3>7. \A d, e \in Debts' : g[d] = g[e] => d = e
      BY <2>2, <3>1, <3>3 DEF Owed
    <3> QED BY <3>3, <3>6, <3>7 DEF EveryDebtOwed, Owed
  <2> QED BY <1>2, <2>3, <2>4, <2>5, <2>6, <2>7, <2>8, <2>9, <2>10 DEF Next, Server, Caller
<1> QED BY <1>1, <1>2

\* A request in work is somebody's, unless the thread has been told to end.
LEMMA DebtOf ==
  ASSUME EveryDebtOwed, ~exiting, NEW d \in Debts
  PROVE  \E c \in Callers : call[c].at = "waiting"
BY DEF EveryDebtOwed, Owed

LEMMA EndedKept ==
  ASSUME TypeOK, Ended, EveryDebtOwed, [Next]_vars
  PROVE  Ended'
<1> USE DEF server, client, calls, wire, history
<1>1. CASE UNCHANGED vars \/ Dll
  BY <1>1 DEF vars, Dll, DllConnect, DataReceived, CallbackReturns, WorkerWakes, Query, Reply, Deliver, WriteComplete,
         Ended, Idle
<1>2. CASE SessionDown \/ SessionUp \/ ServerStart \/ Join \/ Reconnect \/ Disconnect \/ Wake
  BY <1>2 DEF SessionDown, SessionUp, ServerStart, Join, Reconnect, Disconnect, Wake, After, Ended, Idle
<1>3. CASE Write \/ Read
  BY <1>3 DEF Write, Read, NoAnswer, After, Ended, Idle
<1>4. CASE RequestStop
  <2>1. relay \notin {"write", "read"}
    <3>1. Idle /\ ~exiting
      BY <1>4 DEF RequestStop
    <3>2. relay \in {"write", "read"} => "busy" \in Debts
      BY DEF Debts
    <3> QED BY <3>1, <3>2, DebtOf DEF Idle
  <2> QED BY <1>4, <2>1 DEF RequestStop, Ended, Idle, TypeOK
<1>5. ASSUME NEW c \in Callers, NEW len \in 1..MaxChunks, Check(c, len)
      PROVE  Ended'
  BY <1>5 DEF Check, Ended
<1>6. ASSUME NEW c \in Callers, Caller(c)
      PROVE  Ended'
  <2>1. ~Idle
    BY <1>6 DEF Caller, Put, Notified, Copy, Idle
  <2> QED BY <1>6, <2>1 DEF Caller, Put, Notified, Copy, Ended
<1> QED BY <1>1, <1>2, <1>3, <1>4, <1>5, <1>6 DEF Next, Server

LEMMA ChannelKept ==
  ASSUME TypeOK, Ended, ChannelTold, [Next]_vars
  PROVE  ChannelTold'
<1> USE DEF server, client, calls, wire, history
<1>1. CASE UNCHANGED vars \/ Dll
  BY <1>1 DEF vars, Dll, DllConnect, DataReceived, CallbackReturns, WorkerWakes, Query, Reply, Deliver, WriteComplete,
         ChannelTold
<1>2. CASE SessionDown
  BY <1>2 DEF SessionDown, ChannelTold, TypeOK
<1>3. CASE SessionUp
  BY <1>3 DEF SessionUp, ChannelTold, TypeOK
<1>4. CASE ServerStart
  BY <1>4 DEF ServerStart, Opened, ChannelTold, Ended
<1>5. CASE RequestStop \/ Join
  BY <1>5 DEF RequestStop, Join, ChannelTold
<1>6. CASE Reconnect \/ Disconnect
  BY <1>6 DEF Reconnect, Disconnect, Opened, ChannelTold
<1>7. CASE Wake
  BY <1>7 DEF Wake, After, ChannelTold
<1>8. CASE Write \/ Read
  BY <1>8 DEF Write, Read, NoAnswer, After, ChannelTold
<1>9. ASSUME NEW c \in Callers, Caller(c) \/ \E len \in 1..MaxChunks : Check(c, len)
      PROVE  ChannelTold'
  BY <1>9 DEF Caller, Put, Notified, Copy, Check, ChannelTold
<1> QED BY <1>1, <1>2, <1>3, <1>4, <1>5, <1>6, <1>7, <1>8, <1>9 DEF Next, Server

LEMMA NumbersKept ==
  ASSUME TypeOK, NumbersDiffer, [Next]_vars
  PROVE  NumbersDiffer'
<1> USE DEF server, client, calls, wire, history
<1>1. CASE UNCHANGED calls
  BY <1>1 DEF NumbersDiffer
<1>2. ASSUME NEW c \in Callers, NEW len \in 1..MaxChunks, Check(c, len)
      PROVE  NumbersDiffer'
  <2>1. made \in Nat /\ made' = made + 1
    BY <1>2 DEF Check, TypeOK
  <2>2. \A d \in Callers : call'[d] = IF d = c THEN [at |-> "checked", of |-> made', len |-> len] ELSE call[d]
    BY <1>2 DEF Check, TypeOK
  <2>3. \A d \in Callers : d # c /\ call'[d].at # "idle" => call'[d].of \in 1..made /\ call'[d] = call[d]
    BY <2>2 DEF NumbersDiffer
  <2>4. call'[c].of = made'
    BY <2>2
  <2>5. \A d \in Callers : call'[d].at # "idle" => call'[d].of \in 1..made'
    BY <2>1, <2>3, <2>4
  <2>6. \A d, e \in Callers : call'[d].at # "idle" /\ call'[e].at # "idle" /\ call'[d].of = call'[e].of => d = e
    <3>1. \A d \in Callers : d # c /\ call'[d].at # "idle" => call'[d].of # made'
      BY <2>1, <2>3
    <3> QED BY <2>3, <2>4, <3>1 DEF NumbersDiffer
  <2> QED BY <2>5, <2>6 DEF NumbersDiffer
<1>3. ASSUME NEW c \in Callers, Caller(c)
      PROVE  NumbersDiffer'
  <2>1. PICK at \in {"idle", "waiting", "notified"} :
          call' = [call EXCEPT ![c].at = at] /\ made' = made /\ call[c].at # "idle"
    BY <1>3 DEF Caller, Put, Notified, Copy
  <2>2. \A d \in Callers : call'[d].of = call[d].of /\ (call'[d].at # "idle" => call[d].at # "idle")
    BY <2>1, CallMoves
  <2> QED BY <2>1, <2>2 DEF NumbersDiffer
<1>4. CASE \/ UNCHANGED vars \/ SessionDown \/ SessionUp \/ ServerStart \/ RequestStop \/ Server \/ Dll
  <2>1. UNCHANGED calls
    BY <1>4 DEF vars, SessionDown, SessionUp, ServerStart, RequestStop, Server, Reconnect, Disconnect, Wake, Write,
           Read, Join, Dll, DllConnect, DataReceived, CallbackReturns, WorkerWakes, Query, Reply, Deliver, WriteComplete
  <2> QED BY <1>1, <2>1
<1> QED BY <1>2, <1>3, <1>4 DEF Next

LEMMA CallbackKept ==
  ASSUME CallbackWaits, [Next]_vars
  PROVE  CallbackWaits'
BY DEF CallbackWaits, server, client, calls, wire, history, vars, Next, SessionDown, SessionUp, ServerStart,
       RequestStop, Server, Reconnect, Disconnect, Wake, Write, Read, Join, Dll, DllConnect, DataReceived,
       CallbackReturns, WorkerWakes, Query, Reply, Deliver, WriteComplete, Caller, Put, Notified, Copy, Check

LEMMA OneCallKept ==
  ASSUME TypeOK, OneCall, [Next]_vars, ~muddled'
  PROVE  OneCall'
<1> USE DEF server, client, calls, wire, history
<1>1. ASSUME NEW c \in Callers, NEW len \in 1..MaxChunks, Check(c, len)
      PROVE  OneCall'
  <2>1. Idle
    BY <1>1, Zenon DEF Check
  <2>2. \A d \in Callers : call'[d] = IF d = c THEN [at |-> "checked", of |-> made', len |-> len] ELSE call[d]
    BY <1>1 DEF Check, TypeOK
  <2>3. (\A d \in Callers : d # c => call'[d].at = "idle") /\ call'[c].at = "checked"
    BY <2>1, <2>2 DEF Idle
  <2> QED BY <2>3 DEF OneCall
<1>2. ASSUME NEW c \in Callers, Put(c)
      PROVE  OneCall'
  <2>1. /\ call[c].at = "checked" /\ call' = [call EXCEPT ![c].at = "waiting"]
        /\ sendPtr' = Chunk(call[c].of, call[c].len)
    BY <1>2 DEF Put
  <2>2. \A d \in Callers : /\ call'[d].at = IF d = c THEN "waiting" ELSE call[d].at
                           /\ call'[d].of = call[d].of /\ call'[d].len = call[d].len
    BY <2>1, CallMoves
  <2>3. \A d \in Callers : d # c => call[d].at = "idle"
    BY <2>1 DEF OneCall
  <2> QED BY <2>1, <2>2, <2>3 DEF OneCall, Chunk
<1>3. ASSUME NEW c \in Callers, Notified(c) \/ Copy(c)
      PROVE  OneCall'
  <2>1. PICK at \in {"idle", "notified"} :
          call' = [call EXCEPT ![c].at = at] /\ sendPtr' = sendPtr /\ call[c].at \in {"waiting", "notified"}
    BY <1>3 DEF Notified, Copy
  <2>2. \A d \in Callers : /\ call'[d].at = IF d = c THEN at ELSE call[d].at
                           /\ call'[d].of = call[d].of /\ call'[d].len = call[d].len
    <3>1. at \in {"idle", "checked", "waiting", "notified"}
      OBVIOUS
    <3>2. call' = [call EXCEPT ![c].at = at]
      BY <2>1
    <3>3. \A d \in Callers : call'[d].at = (IF d = c THEN at ELSE call[d].at)
      BY <3>1, <3>2, CallMoves
    <3>4. \A d \in Callers : call'[d].of = call[d].of /\ call'[d].len = call[d].len
      BY <3>1, <3>2, CallMoves
    <3> QED BY <3>3, <3>4
  <2> QED BY <2>1, <2>2 DEF OneCall
<1>4. CASE \/ UNCHANGED vars \/ SessionDown \/ SessionUp \/ ServerStart \/ RequestStop \/ Server \/ Dll
  <2>1. UNCHANGED <<calls, sendPtr>>
    BY <1>4 DEF vars, SessionDown, SessionUp, ServerStart, RequestStop, Server, Reconnect, Disconnect, Wake, Write,
           Read, Join, Dll, DllConnect, DataReceived, CallbackReturns, WorkerWakes, Query, Reply, Deliver, WriteComplete
  <2> QED BY <2>1 DEF OneCall
<1> QED BY <1>1, <1>2, <1>3, <1>4 DEF Next, Caller

\* While calls do not overlap, a request is left when there is none in work, and no
\* notification either.
LEMMA PutFindsNothing ==
  ASSUME TypeOK, Ended, EveryDebtOwed, OneCall, InOnePlace, NEW c \in Callers, Put(c)
  PROVE  Nowhere /\ "notify" \notin events /\ relay \notin {"write", "read"}
         /\ \A d \in Callers : call[d].at # "notified"
<1>1. call[c].at = "checked" /\ ~exiting
  BY DEF Put, Ended, Idle
<1>2. \A d \in Callers : call[d].at \notin {"waiting", "notified"}
  BY <1>1 DEF OneCall
<1>3. Debts = {} \/ Debts = {"end"}
  BY <1>1, <1>2, DebtOf
<1>4. "notify" \notin events /\ relay \notin {"write", "read"}
  BY <1>3 DEF Debts
<1> QED BY <1>2, <1>4 DEF InOnePlace

LEMMA InOnePlaceKept ==
  ASSUME TypeOK, Ended, InOnePlace, [Next]_vars, ~chunked'
  PROVE  InOnePlace'
<1> USE DEF server, client, calls, wire, history
<1>1. CASE UNCHANGED vars \/ SessionUp \/ RequestStop \/ Join \/ Disconnect \/ Wake
  <2>1. UNCHANGED <<down, up, alert, worker, callback, sendPtr, call>>
        /\ (relay' # "read" \/ channel' # "open" => relay # "read" \/ channel # "open")
    BY <1>1 DEF vars, SessionUp, RequestStop, Join, Disconnect, Wake
  <2> QED BY <2>1 DEF InOnePlace, Nowhere, AtAgent
<1>2. CASE SessionDown
  BY <1>2 DEF SessionDown, Emptied, InOnePlace, Nowhere, AtAgent
<1>3. CASE ServerStart \/ Reconnect
  <2>1. relay # "read" /\ Nowhere
    BY <1>3 DEF ServerStart, Reconnect, InOnePlace
  <2>2. Nowhere' /\ UNCHANGED <<worker, callback, sendPtr, call>>
    BY <1>3, <2>1 DEF ServerStart, Reconnect, Emptied, Nowhere, AtAgent
  <2> QED BY <2>2 DEF InOnePlace, Nowhere, AtAgent
<1>4. CASE Write
  <2>1. relay = "write" /\ Nowhere /\ UNCHANGED <<worker, callback, sendPtr, call>>
    BY <1>4 DEF Write, InOnePlace
  <2>2. CASE channel # "open"
    <3>1. Nowhere'
      BY <1>4, <2>1, <2>2 DEF Write, Nowhere, AtAgent
    <3> QED BY <2>1, <3>1 DEF InOnePlace, Nowhere, AtAgent
  <2>3. CASE channel = "open"
    <3>1. sendPtr.len = 1 /\ sendPtr.of \in Requests \cup {Nothing, Junk}
      BY DEF InOnePlace, TypeOK, ChunkType
    <3>2. Chunks(sendPtr.of, sendPtr.len) = <<Chunk(sendPtr.of, 1)>>
      BY <3>1, ChunksTyped, RelayAssumption
    <3>3. down' = <<Chunk(sendPtr.of, 1)>> /\ UNCHANGED <<up, alert, channel>> /\ relay' = "read"
      BY <1>4, <2>1, <2>3, <3>2 DEF Write, Nowhere
    <3> QED BY <2>1, <2>3, <3>3 DEF InOnePlace, Nowhere, AtAgent
  <2> QED BY <2>2, <2>3
<1>5. CASE Read
  <2>1. Nowhere' /\ UNCHANGED <<worker, callback, sendPtr, call>>
    <3>1. CASE channel = "open"
      <4>1. up # <<>> /\ up' = Tail(up) /\ UNCHANGED <<down, alert, worker, callback, sendPtr, call>>
        BY <1>5, <3>1 DEF Read
      <4>2. Tail(up) = <<>> /\ down = <<>> /\ ~alert /\ ~AtAgent
        <5>1. up \in Seq(ChunkType) /\ Len(up) = 1 /\ down = <<>> /\ ~alert /\ ~AtAgent
          BY <4>1 DEF InOnePlace, TypeOK
        <5> QED BY <5>1, LoneChunk
      <4> QED BY <4>1, <4>2 DEF Nowhere, AtAgent
    <3>2. CASE channel # "open"
      BY <1>5, <3>2 DEF Read, InOnePlace, Nowhere, AtAgent
    <3> QED BY <3>1, <3>2
  <2> QED BY <2>1 DEF InOnePlace, Nowhere, AtAgent
<1>6. ASSUME NEW c \in Callers, Put(c) \/ Notified(c) \/ Copy(c) \/ \E len \in 1..MaxChunks : Check(c, len)
      PROVE  InOnePlace'
  <2>1. UNCHANGED <<down, up, alert, worker, callback, relay, channel>>
    BY <1>6 DEF Put, Notified, Copy, Check
  <2>2. sendPtr'.len = 1
    BY <1>6 DEF Put, Notified, Copy, Check, Chunk, InOnePlace
  <2>3. \A d \in Callers : call'[d].len = 1
    <3>1. ASSUME NEW at \in {"idle", "checked", "waiting", "notified"}, call' = [call EXCEPT ![c].at = at]
          PROVE  \A d \in Callers : call'[d].len = 1
      BY <3>1, CallMoves DEF InOnePlace
    <3>2. CASE Put(c) \/ Notified(c) \/ Copy(c)
      BY <3>1, <3>2 DEF Put, Notified, Copy
    <3>3. ASSUME NEW len \in 1..MaxChunks, Check(c, len)
          PROVE  \A d \in Callers : call'[d].len = 1
      <4>1. ~(len > 1)
        BY <3>3, Zenon DEF Check
      <4>2. \A d \in Callers : call'[d] = IF d = c THEN [at |-> "checked", of |-> made', len |-> len] ELSE call[d]
        BY <3>3 DEF Check, TypeOK
      <4>3. len = 1
        BY <4>1, RelayAssumption
      <4>4. \A d \in Callers : d # c => call'[d] = call[d]
        BY <4>2
      <4>5. call'[c].len = 1
        BY <4>2, <4>3
      <4> QED BY <4>4, <4>5 DEF InOnePlace
    <3> QED BY <1>6, <3>2, <3>3
  <2> QED BY <2>1, <2>2, <2>3 DEF InOnePlace, Nowhere, AtAgent
<1>7. CASE DllConnect \/ CallbackReturns
  <2>1. UNCHANGED <<down, up, alert, sendPtr, call, relay, channel>>
        /\ (worker' = worker \/ (worker.at = "none" /\ worker'.at = "wait"))
        /\ (callback' = callback \/ callback' = "free")
    <3>1. CASE DllConnect
      BY <3>1, WorkerMoves DEF DllConnect, WorkerStates
    <3>2. CASE CallbackReturns
      BY <3>2 DEF CallbackReturns
    <3> QED BY <1>7, <3>1, <3>2
  <2>2. AtAgent' <=> AtAgent
    BY <2>1 DEF AtAgent
  <2> QED BY <2>1, <2>2 DEF InOnePlace, Nowhere
<1>8. CASE DataReceived
  <2>1. down # <<>> /\ down' = Tail(down) /\ alert' = TRUE /\ worker.at # "sent"
        /\ UNCHANGED <<up, worker, sendPtr, call, relay, channel>>
    BY <1>8 DEF DataReceived
  <2>2. relay = "read" /\ channel = "open" /\ Len(down) = 1 /\ up = <<>> /\ ~AtAgent
    BY <2>1 DEF InOnePlace, Nowhere
  <2>3. down' = <<>>
    BY <2>1, <2>2 DEF TypeOK
  <2> QED BY <2>1, <2>2, <2>3 DEF InOnePlace, AtAgent
<1>9. CASE WorkerWakes
  <2>1. alert /\ alert' = FALSE /\ worker'.at = "query" /\ UNCHANGED <<down, up, callback, sendPtr, call, relay, channel>>
    BY <1>9, WorkerMoves DEF WorkerWakes, WorkerStates
  <2>2. relay = "read" /\ channel = "open" /\ down = <<>> /\ up = <<>>
    BY <2>1 DEF InOnePlace, Nowhere
  <2> QED BY <2>1, <2>2 DEF InOnePlace
<1>10. CASE Query \/ Reply
  <2>1. /\ AtAgent /\ worker'.at \in {"asking", "writing"}
        /\ UNCHANGED <<down, up, alert, callback, sendPtr, call, relay, channel>>
    <3>1. CASE Query
      BY <3>1 DEF Query, AtAgent
    <3>2. CASE Reply
      BY <3>2, WorkerMoves DEF Reply, AtAgent, WorkerStates
    <3> QED BY <1>10, <3>1, <3>2
  <2>2. AtAgent'
    BY <2>1 DEF AtAgent
  <2> QED BY <2>1, <2>2 DEF InOnePlace, Nowhere
<1>11. ASSUME NEW len \in 1..MaxChunks, Deliver(len)
       PROVE  InOnePlace'
  <2>1. /\ worker.at = "writing" /\ callback' = "free" /\ UNCHANGED <<down, alert, sendPtr, call, relay, channel>>
        /\ worker' = [worker EXCEPT !.at = IF down = <<>> THEN "sent" ELSE "racing"]
    BY <1>11 DEF Deliver
  <2>2. len = 1
    <3>1. ~(len > 1)
      BY <1>11, Zenon DEF Deliver
    <3> QED BY <3>1, RelayAssumption
  <2>3. relay = "read" /\ channel = "open" /\ up = <<>> /\ down = <<>> /\ ~alert
    BY <2>1 DEF InOnePlace, Nowhere, AtAgent
  <2>4. worker'.at = "sent"
    BY <2>1, <2>3, WorkerMoves DEF WorkerStates
  <2>5. PICK r \in Answers(worker.what) : up' = up \o Chunks(r, len)
    BY <1>11, <2>3 DEF Deliver
  <2>6. r \in Requests \cup {Nothing, Junk}
    BY DEF Answers, TypeOK, ChunkType
  <2>7. up' = <<Chunk(r, 1)>>
    BY <2>2, <2>3, <2>5, <2>6, ChunksTyped
  <2> QED BY <2>1, <2>3, <2>4, <2>7 DEF InOnePlace, AtAgent
<1>12. CASE WriteComplete
  <2>1. ~AtAgent /\ worker'.at = "wait" /\ UNCHANGED <<down, up, alert, sendPtr, call, relay, channel>>
    BY <1>12 DEF WriteComplete, AtAgent
  <2> QED BY <2>1 DEF InOnePlace, Nowhere, AtAgent
<1> QED BY <1>1, <1>2, <1>3, <1>4, <1>5, <1>6, <1>7, <1>8, <1>9, <1>10, <1>11, <1>12 DEF Next, Server, Dll, Caller

LEMMA ItsOwnKept ==
  ASSUME TypeOK, Ended, EveryDebtOwed, OneCall, InOnePlace, InOnePlace', ItsOwn, [Next]_vars
  PROVE  ItsOwn'
<1> USE DEF server, client, calls, wire, history
<1>1. CASE Nowhere'
  BY <1>1 DEF Nowhere, AtAgent, ItsOwn
<1>2. CASE \/ UNCHANGED vars \/ SessionUp \/ RequestStop \/ Join \/ Disconnect \/ Wake \/ CallbackReturns
           \/ \E c \in Callers : Notified(c) \/ Copy(c) \/ \E len \in 1..MaxChunks : Check(c, len)
  <2>1. UNCHANGED <<down, up, alert, worker, received, sendPtr>>
    BY <1>2 DEF vars, SessionUp, RequestStop, Join, Disconnect, Wake, CallbackReturns, Notified, Copy, Check
  <2> QED BY <2>1 DEF ItsOwn
<1>3. CASE SessionDown \/ ServerStart \/ Reconnect \/ Read
  <2>1. relay' # "read" \/ channel' # "open"
    BY <1>3 DEF SessionDown, ServerStart, Reconnect, Read, NoAnswer, After
  <2> QED BY <1>1, <2>1 DEF InOnePlace
<1>4. CASE Write
  <2>1. relay = "write" /\ Nowhere /\ UNCHANGED <<up, alert, worker, received, sendPtr>>
    BY <1>4 DEF Write, InOnePlace
  <2>2. sendPtr \in ChunkType /\ sendPtr.len = 1
    BY DEF InOnePlace, TypeOK
  <2>3. sendPtr = Chunk(sendPtr.of, 1) /\ Chunks(sendPtr.of, sendPtr.len) = <<Chunk(sendPtr.of, 1)>>
    BY <2>2, ChunksTyped, RelayAssumption DEF ChunkType, Chunk
  <2>4. down' = <<sendPtr>> \/ down' = <<>>
    BY <1>4, <2>1, <2>3 DEF Write, Nowhere
  <2> QED BY <2>1, <2>4 DEF ItsOwn, Nowhere, AtAgent
<1>5. ASSUME NEW c \in Callers, Put(c)
      PROVE  ItsOwn'
  <2>1. Nowhere'
    BY <1>5, PutFindsNothing DEF Put, Nowhere, AtAgent
  <2> QED BY <1>1, <2>1
<1>6. CASE DllConnect
  <2>1. worker'.at = "wait" /\ UNCHANGED <<down, up, alert, received, sendPtr>>
    BY <1>6, WorkerMoves DEF DllConnect, WorkerStates
  <2> QED BY <2>1 DEF ItsOwn
<1>7. CASE DataReceived
  <2>1. down # <<>> /\ received' = Head(down) /\ down' = Tail(down) /\ UNCHANGED <<up, worker, sendPtr>>
    BY <1>7 DEF DataReceived
  <2>2. Len(down) = 1 /\ up = <<>> /\ ~AtAgent
    BY <2>1 DEF InOnePlace
  <2>3. down' = <<>> /\ received' = sendPtr
    BY <2>1, <2>2 DEF TypeOK, ItsOwn
  <2> QED BY <2>1, <2>2, <2>3 DEF ItsOwn, AtAgent
<1>8. CASE WorkerWakes
  <2>1. alert /\ alert' = FALSE /\ worker'.at = "query" /\ UNCHANGED <<down, up, received, sendPtr>>
    BY <1>8, WorkerMoves DEF WorkerWakes, WorkerStates
  <2> QED BY <2>1 DEF ItsOwn
<1>9. CASE Query \/ Reply
  <2>1. /\ worker.at \in {"query", "asking"} /\ worker'.at \in {"asking", "writing"}
        /\ worker'.what = IF worker.at = "query" THEN received ELSE worker.what
        /\ UNCHANGED <<down, up, alert, received, sendPtr>>
    <3>1. CASE Query
      BY <3>1 DEF Query
    <3>2. CASE Reply
      BY <3>2, WorkerMoves DEF Reply, WorkerStates
    <3> QED BY <1>9, <3>1, <3>2
  <2> QED BY <2>1 DEF ItsOwn
<1>10. ASSUME NEW len \in 1..MaxChunks, Deliver(len)
       PROVE  ItsOwn'
  <2>1. worker.at = "writing" /\ UNCHANGED <<down, alert, received, sendPtr>> /\ worker'.at \in {"sent", "racing"}
    BY <1>10, WorkerMoves DEF Deliver, WorkerStates
  <2>2. channel = "open" /\ up = <<>> /\ down = <<>> /\ ~alert /\ worker.what = sendPtr
    BY <2>1 DEF InOnePlace, Nowhere, AtAgent, ItsOwn
  <2>3. PICK r \in {sendPtr.of, Junk} : up' = Chunks(r, len)
    <3>1. PICK r \in Answers(sendPtr) : up' = up \o Chunks(r, len)
      BY <1>10, <2>2 DEF Deliver
    <3>2. r \in {sendPtr.of, Junk}
      BY DEF Answers
    <3>3. r \in Requests \cup {Nothing, Junk}
      BY <3>2 DEF TypeOK, ChunkType
    <3>4. up' = Chunks(r, len)
      BY <2>2, <3>1, <3>3, ChunksTyped
    <3> QED BY <3>2, <3>4
  <2>4. up' # <<>> => Head(up').of = r
    <3>1. len \in Nat \ {0}
      BY RelayAssumption
    <3>2. Head(Chunks(r, len)) = Chunk(r, len)
      BY <3>1 DEF Chunks
    <3> QED BY <2>3, <3>2 DEF Chunk
  <2> QED BY <2>1, <2>2, <2>4 DEF ItsOwn
<1>11. CASE WriteComplete
  <2>1. worker'.at = "wait" /\ UNCHANGED <<down, up, alert, received, sendPtr>>
    BY <1>11 DEF WriteComplete
  <2> QED BY <2>1 DEF ItsOwn
<1> QED BY <1>2, <1>3, <1>4, <1>5, <1>6, <1>7, <1>8, <1>9, <1>10, <1>11 DEF Next, Server, Dll, Caller

LEMMA AnswerKeptKept ==
  ASSUME TypeOK, Ended, EveryDebtOwed, OneCall, InOnePlace, ItsOwn, AnswerKept, [Next]_vars
  PROVE  AnswerKept'
<1> USE DEF server, client, calls, wire, history
<1>1. CASE UNCHANGED vars \/ Dll \/ SessionDown \/ SessionUp \/ ServerStart \/ RequestStop \/ Join \/ Reconnect
           \/ Disconnect \/ Wake
  <2>1. UNCHANGED <<call, sendPtr, receiveBuf>> /\ ("notify" \in events' => "notify" \in events)
    BY <1>1 DEF vars, SessionDown, SessionUp, ServerStart, RequestStop, Reconnect, Disconnect, Wake,
           Join, Dll, DllConnect, DataReceived, CallbackReturns, WorkerWakes, Query, Reply, Deliver, WriteComplete
  <2> QED BY <2>1 DEF AnswerKept
<1>2. CASE Write
  BY <1>2, NoChunkTyped DEF Write, NoAnswer, AnswerKept
<1>3. CASE Read
  <2>1. CASE channel = "open"
    <3>1. up # <<>> /\ receiveBuf' = Head(up) /\ sendPtr' = sendPtr
      BY <1>3, <2>1 DEF Read
    <3>2. Head(up).of \in {sendPtr.of, Junk}
      BY <3>1 DEF ItsOwn
    <3> QED BY <3>1, <3>2 DEF AnswerKept
  <2>2. CASE channel # "open"
    BY <1>3, <2>2, NoChunkTyped DEF Read, NoAnswer, AnswerKept
  <2> QED BY <2>1, <2>2
<1>4. ASSUME NEW c \in Callers, Put(c)
      PROVE  AnswerKept'
  <2>1. "notify" \notin events /\ \A d \in Callers : call[d].at # "notified"
    BY <1>4, PutFindsNothing
  <2>2. "notify" \notin events' /\ call' = [call EXCEPT ![c].at = "waiting"]
    BY <1>4, <2>1 DEF Put
  <2>3. \A d \in Callers : call'[d].at # "notified"
    BY <2>1, <2>2, CallMoves
  <2> QED BY <2>2, <2>3 DEF AnswerKept
<1>5. ASSUME NEW c \in Callers, Notified(c)
      PROVE  AnswerKept'
  BY <1>5 DEF Notified, AnswerKept
<1>6. ASSUME NEW c \in Callers, Copy(c) \/ \E len \in 1..MaxChunks : Check(c, len)
      PROVE  AnswerKept'
  <2>1. UNCHANGED <<events, sendPtr, receiveBuf>>
    BY <1>6 DEF Copy, Check
  <2>2. \A d \in Callers : call'[d].at = "notified" => call[d].at = "notified"
    <3>1. CASE Copy(c)
      <4>1. call' = [call EXCEPT ![c].at = "idle"]
        BY <3>1 DEF Copy
      <4> QED BY <4>1, CallMoves
    <3>2. CASE \E len \in 1..MaxChunks : Check(c, len)
      BY <3>2 DEF Check, TypeOK
    <3> QED BY <1>6, <3>1, <3>2
  <2> QED BY <2>1, <2>2 DEF AnswerKept
<1> QED BY <1>1, <1>2, <1>3, <1>4, <1>5, <1>6 DEF Next, Server, Caller

LEMMA RelayStep ==
  ASSUME RelayInv, [Next]_vars
  PROVE  RelayInv'
<1>1. TypeOK' /\ Ended' /\ ChannelTold' /\ NumbersDiffer' /\ CallbackWaits'
  BY RelayTyped, EndedKept, ChannelKept, NumbersKept, CallbackKept DEF RelayInv
<1>2. EveryDebtOwed'
  BY DebtsKept DEF RelayInv, EveryDebtOwed
<1>3. /\ chunked => chunked' /\ muddled'
      /\ muddled => muddled'
      /\ chunked' => chunked \/ muddled'
  <2>1. \/ UNCHANGED <<chunked, muddled>>
        \/ \E len \in 1..MaxChunks : Deliver(len) \/ \E c \in Callers : Check(c, len)
    BY DEF Next, vars, SessionDown, SessionUp, RequestStop, ServerStart, Server, Reconnect, Disconnect, Wake,
         Write, Read, Join, Dll, DllConnect, DataReceived, CallbackReturns, WorkerWakes, Query, Reply,
         WriteComplete, Caller, Put, Notified, Copy, history
  <2>2. chunked => muddled
    BY DEF RelayInv
  <2>3. CASE UNCHANGED <<chunked, muddled>>
    BY <2>2, <2>3
  <2>4. ASSUME NEW len \in 1..MaxChunks, Deliver(len) \/ \E c \in Callers : Check(c, len)
        PROVE  /\ chunked => chunked' /\ muddled'
               /\ muddled => muddled'
               /\ chunked' => chunked \/ muddled'
    BY <2>2, <2>4, Zenon DEF Deliver, Check
  <2> QED BY <2>1, <2>3, <2>4
<1>4. ASSUME ~chunked' PROVE InOnePlace'
  BY <1>3, <1>4, InOnePlaceKept DEF RelayInv
<1>5. ASSUME ~muddled' PROVE OneCall' /\ ItsOwn' /\ AnswerKept'
  <2>1. ~muddled /\ ~chunked /\ ~chunked'
    BY <1>3, <1>5 DEF RelayInv
  <2>2. InOnePlace'
    BY <1>4, <2>1
  <2> QED BY <1>5, <2>1, <2>2, OneCallKept, ItsOwnKept, AnswerKeptKept DEF RelayInv
<1> QED BY <1>1, <1>2, <1>3, <1>4, <1>5 DEF RelayInv

\* The relay's call is a call to a remote signer.
LEMMA RelayCalls ==
  ASSUME RelayInv, RelayInv', [Next]_vars
  PROVE  [Remote!Next]_Remote!vars
<1> USE DEF server, client, calls, wire, history
<1>1. TypeOK /\ NumbersDiffer /\ muddled \in BOOLEAN /\ muddled' \in {muddled, TRUE}
  <2>1. muddled \in BOOLEAN /\ muddled' \in BOOLEAN
    BY DEF RelayInv, TypeOK
  <2>2. muddled => muddled'
    BY DEF Next, vars, SessionDown, SessionUp, RequestStop, ServerStart, Server, Reconnect, Disconnect, Wake, Write,
           Read, Join, Dll, DllConnect, DataReceived, CallbackReturns, WorkerWakes, Query, Reply, Deliver, WriteComplete,
           Caller, Put, Notified, Copy, Check
  <2> QED BY <2>1, <2>2 DEF RelayInv
<1>2. ASSUME UNCHANGED last, UnderWay' = UnderWay
      PROVE  [Remote!Next]_Remote!vars
  BY <1>1, <1>2 DEF Remote!Next, Remote!LoseStep, Remote!Muddle, Remote!vars
<1>3. ASSUME NEW c \in Callers, NEW len \in 1..MaxChunks, Check(c, len)
      PROVE  [Remote!Next]_Remote!vars
  <2>1. call[c].at = "idle" /\ last' = last /\ made' = made + 1 /\ made \in Nat /\ made' \in Requests
    BY <1>1, <1>3, RelayAssumption DEF Check, TypeOK, Requests
  <2>2. \A d \in Callers : call'[d] = IF d = c THEN [at |-> "checked", of |-> made', len |-> len] ELSE call[d]
    BY <1>1, <1>3 DEF Check, TypeOK
  <2>3. made' \notin UnderWay
    BY <1>1, <2>1 DEF NumbersDiffer, UnderWay
  <2>4. UnderWay' = UnderWay \cup {made'}
    <3>1. call'[c].at = "checked" /\ call'[c].of = made'
      BY <2>2
    <3>2. \A d \in Callers : d # c => call'[d] = call[d]
      BY <2>2
    <3> QED BY <2>1, <3>1, <3>2 DEF UnderWay
  <2>5. Remote!Call(made')
    BY <1>1, <2>1, <2>3, <2>4 DEF Remote!Call, Remote!Muddle
  <2> QED BY <2>1, <2>5 DEF Remote!Next
<1>4. ASSUME NEW c \in Callers, Put(c) \/ Notified(c)
      PROVE  [Remote!Next]_Remote!vars
  <2>1. PICK at \in {"waiting", "notified"} :
          call' = [call EXCEPT ![c].at = at] /\ last' = last /\ call[c].at # "idle"
    BY <1>4 DEF Put, Notified
  <2>2. at \in {"idle", "checked", "waiting", "notified"}
    OBVIOUS
  <2>3. \A d \in Callers : call'[d].of = call[d].of /\ (call'[d].at # "idle" <=> call[d].at # "idle")
    BY <1>1, <2>1, <2>2, CallMoves
  <2>4. UnderWay' = UnderWay
    BY <2>3 DEF UnderWay
  <2> QED BY <1>2, <2>1, <2>4
<1>5. ASSUME NEW c \in Callers, Copy(c)
      PROVE  [Remote!Next]_Remote!vars
  <2>1. /\ call[c].at = "notified" /\ call' = [call EXCEPT ![c].at = "idle"]
        /\ last' = [to |-> call[c].of, with |-> receiveBuf.of]
    BY <1>5 DEF Copy
  <2>2. call[c].of \in Requests /\ receiveBuf.of \in Requests \cup {Nothing, Junk}
    <3>1. call[c].of \in 1..made /\ made \in 0..MaxCalls
      BY <1>1, <2>1 DEF NumbersDiffer, TypeOK
    <3> QED BY <1>1, <3>1, RelayAssumption DEF TypeOK, ChunkType, Requests
  <2>3. PICK r \in Requests : r = call[c].of
    BY <2>2
  <2>4. PICK answer \in Requests \cup {Nothing, Junk} : answer = receiveBuf.of
    BY <2>2
  <2>5. \A d \in Callers : call'[d].of = call[d].of /\ (call'[d].at # "idle" <=> call[d].at # "idle" /\ d # c)
    BY ZenonT(60), <1>1, <2>1, CallMoves
  <2>6. r \in UnderWay /\ UnderWay' = UnderWay \ {r}
    BY <1>1, <2>1, <2>3, <2>5 DEF UnderWay, NumbersDiffer
  <2>7. last' = [to |-> r, with |-> answer]
    BY <2>1, <2>3, <2>4
  <2>8. ~muddled => answer \in {r, Nothing, Junk}
    <3>1. ASSUME ~muddled PROVE receiveBuf.of \in {sendPtr.of, Junk, Nothing} /\ sendPtr.of = call[c].of
      BY <2>1, <3>1 DEF RelayInv, AnswerKept, OneCall
    <3> QED BY <2>3, <2>4, <3>1
  <2>9. Remote!Return(r, answer)
    BY <1>1, <2>6, <2>7, <2>8 DEF Remote!Return, Remote!Muddle
  <2> QED BY <2>9 DEF Remote!Next
<1>6. CASE \/ UNCHANGED vars \/ SessionDown \/ SessionUp \/ ServerStart \/ RequestStop \/ Server \/ Dll
  <2>1. UNCHANGED <<call, last>>
    BY <1>6 DEF vars, SessionDown, SessionUp, ServerStart, RequestStop, Server, Reconnect, Disconnect, Wake, Write,
           Read, Join, Dll, DllConnect, DataReceived, CallbackReturns, WorkerWakes, Query, Reply, Deliver, WriteComplete
  <2> QED BY <1>2, <2>1 DEF UnderWay
<1> QED BY <1>3, <1>4, <1>5, <1>6 DEF Next, Caller

-----------------------------------------------------------------------------
(* The Bluetooth proxy.                                                     *)

LEMMA PiecesAre ==
  ASSUME NEW r \in Asked
  PROVE  /\ Pieces(r) \in Seq(Bytes) /\ Len(Pieces(r)) = Size /\ Pieces(r) # <<>>
         /\ Meaning(Pieces(r)) = r
<1>1. Pieces(r) \in [1..Size -> Bytes] /\ Size \in Nat /\ Size > 0
  BY BtAssumption DEF Pieces, Bytes
<1>2. Pieces(r) \in Seq(Bytes) /\ Len(Pieces(r)) = Size /\ Pieces(r) # <<>>
  BY <1>1
<1>3. Head(Pieces(r)) = Pieces(r)[1] /\ Pieces(r)[1].of = r
  BY <1>1, <1>2 DEF Pieces
<1> QED BY <1>2, <1>3 DEF Meaning

LEMMA MeaningTyped ==
  ASSUME NEW bytes
  PROVE  Meaning(bytes) \in Asked \cup {Garbled}
<1>1. CASE \E r \in Asked : bytes = Pieces(r)
  BY <1>1, PiecesAre
<1> QED BY <1>1 DEF Meaning

LEMMA UserMoves ==
  ASSUME BtTypeOK, NEW u \in Users, NEW at \in {"idle", "connecting", "looking", "ready", "waiting"}, Goes(u, at)
  PROVE  /\ calling' \in [Users -> [at : {"idle", "connecting", "looking", "ready", "waiting"},
                                    r : Asked \cup {None}]]
         /\ \A v \in Users : calling'[v].at = (IF v = u THEN at ELSE calling[v].at) /\ calling'[v].r = calling[v].r
BY DEF BtTypeOK, Goes

LEMMA ProxyInit == BtInit => ProxyInv
<1> SUFFICES ASSUME BtInit PROVE ProxyInv
  OBVIOUS
<1>1. BtTypeOK
  <2>1. calling \in [Users -> [at : {"idle", "connecting", "looking", "ready", "waiting"}, r : Asked \cup {None}]]
        /\ answered \in [to : Asked \cup {None}, with : Asked \cup {None, Garbled}]
        /\ count \in -MaxCuts..MaxLinks
    BY BtAssumption DEF BtInit
  <2>2. {exitReq, exitEvent, disconnReq, finished, result, cut, arrived, writable, hungUp,
         closing, aborted, confused, crossed} \subseteq BOOLEAN
    BY DEF BtInit
  <2>3. pool \in Seq(Bytes) /\ out \in Seq(Bytes) /\ in \in Seq(Bytes) /\ top \in Nat
    BY DEF BtInit
  <2> QED BY <2>1, <2>2, <2>3 DEF BtInit, BtTypeOK
<1>2. CountBounded
  BY BtAssumption DEF BtInit, CountBounded
<1>3. OneClient /\ AsksDiffer /\ OneAsks /\ \A u \in Users : calling[u].at # "waiting"
  BY DEF BtInit, OneClient, AsksDiffer, OneAsks
<1> QED BY <1>1, <1>2, <1>3 DEF ProxyInv

LEMMA OneClientKept ==
  ASSUME BtTypeOK, OneClient, [BtNext]_btVars
  PROVE  OneClient'
<1> USE DEF flags, conn, sending, requests, receiving, bounds, callers
<1>0. CASE UNCHANGED <<socket, addr, count, crossed>>
  BY <1>0 DEF OneClient
<1>1. CASE Start
  BY <1>1 DEF Start, OneClient
<1>2. CASE ObeyFlags \/ Forget
  BY <1>2, BtAssumption DEF ObeyFlags, Forget, Disconnected, Drop, OneClient, BtTypeOK
<1>3. CASE ConnectReturns
  <2>1. \/ UNCHANGED <<socket, addr, count, crossed>>
        \/ /\ connectReq # None /\ socket' = trying /\ addr' = connectReq /\ count' = count + 1
           /\ crossed' = (crossed \/ count # 0 \/ connectReq # trying)
    BY <1>3 DEF ConnectReturns, Take
  <2>2. ASSUME ~crossed', crossed' = (crossed \/ count # 0 \/ connectReq # trying)
        PROVE  ~crossed /\ count = 0 /\ connectReq = trying
    BY <2>2, Zenon
  <2> QED BY <1>0, <2>1, <2>2 DEF OneClient
<1>4. ASSUME NEW d \in Devices, Accept(d)
      PROVE  OneClient'
  BY <1>4, BtAssumption DEF Accept, Take, Notify, OneClient, BtTypeOK
<1>5. CASE Client
  BY <1>5, BtAssumption DEF Client, Drop, OneClient, BtTypeOK
<1>7. CASE \/ UNCHANGED btVars \/ RequestExit \/ JoinThread \/ Arrive \/ DeviceAnswers \/ HangUp
           \/ UserDisconnects \/ Closed
  BY <1>0, <1>7 DEF btVars, RequestExit, JoinThread, Arrive, DeviceAnswers, HangUp, UserDisconnects, Closed
<1>8. ASSUME NEW u \in Users, User(u) \/ Call(u) \/ \E d \in Devices : Connect(u, d)
      PROVE  OneClient'
  BY <1>0, <1>8 DEF User, Finished, TimeUp, Look, Send, Answered, GiveUp, Call, Connect
<1> QED BY <1>1, <1>2, <1>3, <1>4, <1>5, <1>7, <1>8 DEF BtNext, Worker

LEMMA SumOfNats == ASSUME NEW a \in Nat, NEW b \in Nat PROVE a + b \in Nat
OBVIOUS

\* One link less, and not less than the disconnections.
LEMMA OneLinkLess ==
  ASSUME NEW n \in Int, NEW m \in Int, NEW b \in Nat, m = n - 1, n > 0
  PROVE  m + b >= 0 /\ (b > 0 => m + b > 0)
OBVIOUS

LEMMA NotBelow ==
  ASSUME NEW n \in Int, NEW b \in Nat, NEW m \in Nat, b <= m, n + b >= 0
  PROVE  n >= -m
OBVIOUS

LEMMA CountKept ==
  ASSUME BtTypeOK, CountBounded, [BtNext]_btVars
  PROVE  CountBounded'
<1> USE DEF flags, conn, sending, requests, receiving, bounds, callers
<1>0. count \in Int /\ links \in Nat /\ cuts \in Nat /\ asks \in Nat /\ disconnReq \in BOOLEAN
  BY BtAssumption DEF BtTypeOK, CountBounded
<1>1. CASE Start
  BY <1>0, <1>1 DEF Start, CountBounded
<1>2. CASE ObeyFlags \/ Forget
  BY <1>0, <1>2 DEF ObeyFlags, Forget, Disconnected, Drop, CountBounded
<1>3. CASE ConnectReturns
  BY <1>0, <1>3, BtAssumption DEF ConnectReturns, Take, Notify, CountBounded
<1>4. ASSUME NEW d \in Devices, Accept(d)
      PROVE  CountBounded'
  BY <1>0, <1>4, BtAssumption DEF Accept, Take, Notify, CountBounded
<1>5. CASE Client
  <2>1. count > 0 /\ UNCHANGED <<links, cuts, asks, disconnReq>> /\ count' \in {count, count - 1}
    BY <1>5 DEF Client, Drop
  <2>2. CASE count' = count
    BY <2>1, <2>2 DEF CountBounded
  <2>3. CASE count' = count - 1
    <3>1. count' \in Int /\ count' <= links /\ count' >= 0
      BY <1>0, <2>1, <2>3 DEF CountBounded
    <3>2. count' + cuts >= 0 /\ (cuts > 0 => count' + cuts > 0)
      BY <1>0, <2>1, <2>3, <3>1, OneLinkLess
    <3>3. disconnReq => cuts > 0
      BY DEF CountBounded
    <3> QED BY <2>1, <3>1, <3>2, <3>3 DEF CountBounded
  <2> QED BY <2>1, <2>2, <2>3
<1>6. CASE UNCHANGED <<count, links, cuts, asks, disconnReq>>
  BY <1>6 DEF CountBounded
<1>7. CASE \/ UNCHANGED btVars \/ RequestExit \/ JoinThread \/ Arrive \/ DeviceAnswers \/ HangUp \/ Closed
  BY <1>6, <1>7 DEF btVars, RequestExit, JoinThread, Arrive, DeviceAnswers, HangUp, Closed
<1>8. CASE UserDisconnects
  BY <1>0, <1>8, BtAssumption DEF UserDisconnects, CountBounded
<1>9. ASSUME NEW u \in Users, User(u)
      PROVE  CountBounded'
  BY <1>6, <1>9 DEF User, Finished, TimeUp, Look, Send, Answered, GiveUp
<1>10. ASSUME NEW u \in Users, Call(u) \/ \E d \in Devices : Connect(u, d)
       PROVE  CountBounded'
  BY <1>0, <1>10, BtAssumption DEF Call, Connect, CountBounded
<1> QED BY <1>1, <1>2, <1>3, <1>4, <1>5, <1>7, <1>8, <1>9, <1>10 DEF BtNext, Worker
LEMMA BtTyped ==
  ASSUME BtTypeOK, CountBounded, CountBounded', AsksDiffer, [BtNext]_btVars
  PROVE  BtTypeOK'
<1> USE DEF flags, conn, sending, requests, receiving, bounds, callers
<1> DEFINE Flags == {exitReq, exitEvent, disconnReq, finished, result, cut, arrived, writable, hungUp,
                     closing, aborted, confused, crossed}
           Wanted == {connectReq, trying, socket, addr}
           Queues == pool \in Seq(Bytes) /\ out \in Seq(Bytes) /\ in \in Seq(Bytes) /\ top \in Nat
           CallingOK == calling \in [Users -> [at : {"idle", "connecting", "looking", "ready", "waiting"},
                                                r : Asked \cup {None}]]
           AnsweredOK == answered \in [to : Asked \cup {None}, with : Asked \cup {None, Garbled}]
<1>0. count' \in -MaxCuts..MaxLinks
  <2>1. /\ count' \in Int /\ count' <= links' /\ links' \in 0..MaxLinks /\ cuts' \in 0..MaxCuts
        /\ count' + cuts' >= 0
    BY DEF CountBounded
  <2>2. MaxCuts \in Nat /\ MaxLinks \in Nat
    BY BtAssumption
  <2>3. count' <= MaxLinks /\ cuts' \in Nat /\ cuts' <= MaxCuts
    BY <2>1, <2>2
  <2>4. count' >= -MaxCuts
    <3>1. count' \in Int /\ count' + cuts' >= 0
      BY <2>1
    <3> QED BY <2>2, <2>3, <3>1, NotBelow
  <2> QED BY <2>1, <2>2, <2>3, <2>4
<1>1. thread' \in {"none", "loop", "connect", "connected", "notify", "gone"}
  BY ZenonT(60) DEF btVars, BtTypeOK, BtNext, Start, RequestExit, JoinThread, Worker, ObeyFlags, ConnectReturns, Forget, Client, Arrive,
         Accept, DeviceAnswers, HangUp, UserDisconnects, Closed, User, Finished, TimeUp, Look, Send, Answered, GiveUp,
         Call, Connect
<1>2. Flags' \subseteq BOOLEAN
  <2>1. Flags \subseteq BOOLEAN
    BY DEF BtTypeOK
  <2>2. exitReq' \in BOOLEAN /\ exitEvent' \in BOOLEAN /\ disconnReq' \in BOOLEAN /\ cut' \in BOOLEAN
    BY <2>1 DEF btVars, BtNext, Start, RequestExit, JoinThread, Worker, ObeyFlags, ConnectReturns, Forget, Client, Arrive,
           Accept, DeviceAnswers, HangUp, UserDisconnects, Closed, User, Finished, TimeUp, Look, Send, Answered, GiveUp,
           Call, Connect, Disconnected
  <2>3. finished' \in BOOLEAN /\ result' \in BOOLEAN /\ arrived' \in BOOLEAN
    BY <2>1 DEF btVars, BtNext, Start, RequestExit, JoinThread, Worker, ObeyFlags, ConnectReturns, Forget, Client, Arrive,
           Accept, DeviceAnswers, HangUp, UserDisconnects, Closed, User, Finished, TimeUp, Look, Send, Answered, GiveUp,
           Call, Connect, Notify
  <2>4. writable' \in BOOLEAN /\ hungUp' \in BOOLEAN
    BY <2>1 DEF btVars, BtNext, Start, RequestExit, JoinThread, Worker, ObeyFlags, ConnectReturns, Forget, Client, Arrive,
           Accept, DeviceAnswers, HangUp, UserDisconnects, Closed, User, Finished, TimeUp, Look, Send, Answered, GiveUp,
           Call, Connect, Disconnected, Drop, Take
  <2>5. closing' \in BOOLEAN /\ aborted' \in BOOLEAN
    BY <2>1 DEF btVars, BtNext, Start, RequestExit, JoinThread, Worker, ObeyFlags, ConnectReturns, Forget, Client, Arrive,
           Accept, DeviceAnswers, HangUp, UserDisconnects, Closed, User, Finished, TimeUp, Look, Send, Answered, GiveUp,
           Call, Connect
  <2>6. confused' \in BOOLEAN
    BY <2>1 DEF btVars, BtNext, Start, RequestExit, JoinThread, Worker, ObeyFlags, ConnectReturns, Forget, Client, Arrive,
           Accept, DeviceAnswers, HangUp, UserDisconnects, Closed, User, Finished, TimeUp, Look, Send, Answered, GiveUp,
           Call, Connect
  <2>7. crossed' \in BOOLEAN
    BY <2>1 DEF btVars, BtNext, Start, RequestExit, JoinThread, Worker, ObeyFlags, ConnectReturns, Forget, Client, Arrive,
           Accept, DeviceAnswers, HangUp, UserDisconnects, Closed, User, Finished, TimeUp, Look, Send, Answered, GiveUp,
           Call, Connect, Disconnected
  <2> QED BY <2>2, <2>3, <2>4, <2>5, <2>6, <2>7
<1>3. Wanted' \subseteq Devices \cup {None}
  <2>1. Wanted \subseteq Devices \cup {None}
    BY DEF BtTypeOK
  <2>2. connectReq' \in Devices \cup {None} /\ trying' \in Devices \cup {None}
    BY <2>1 DEF btVars, BtNext, Start, RequestExit, JoinThread, Worker, ObeyFlags, ConnectReturns, Forget, Client, Arrive,
           Accept, DeviceAnswers, HangUp, UserDisconnects, Closed, User, Finished, TimeUp, Look, Send, Answered, GiveUp,
           Call, Connect
  <2>3. socket' \in Devices \cup {None} /\ addr' \in Devices \cup {None}
    BY <2>1 DEF btVars, BtNext, Start, RequestExit, JoinThread, Worker, ObeyFlags, ConnectReturns, Forget, Client, Arrive,
           Accept, DeviceAnswers, HangUp, UserDisconnects, Closed, User, Finished, TimeUp, Look, Send, Answered, GiveUp,
           Call, Connect, Disconnected, Drop, Take
  <2> QED BY <2>2, <2>3
<1>4. Queues'
  <2>0. Queues /\ <<>> \in Seq(Bytes)
    BY DEF BtTypeOK
  <2>1. CASE UNCHANGED <<pool, out, in, top>>
    BY <2>0, <2>1
  <2>2. CASE Start
    BY <2>2 DEF Start
  <2>3. CASE ObeyFlags \/ Forget \/ HangUp
    BY <2>0, <2>3 DEF ObeyFlags, Forget, HangUp, Disconnected, Drop
  <2>4. CASE ConnectReturns \/ \E d \in Devices : Accept(d)
    BY <2>0, <2>4 DEF ConnectReturns, Accept, Take
  <2>5. CASE Client
    <3>1. pool' \in Seq(Bytes) /\ out' \in Seq(Bytes) /\ top' = top
      BY <2>0, <2>5 DEF Client, Drop
    <3>2. in' \in Seq(Bytes)
      <4>1. CASE \E n \in 1..Len(in) : in' = SubSeq(in, n + 1, Len(in))
        BY <2>0, <4>1
      <4>2. CASE in' = in \/ in' = <<>>
        BY <2>0, <4>2
      <4> QED BY <2>5, <4>1, <4>2 DEF Client
    <3> QED BY <2>0, <3>1, <3>2
  <2>6. CASE DeviceAnswers
    <3>1. PICK r \in Asked : Len(out) >= Size /\ in' = in \o Pieces(r)
      BY <2>6 DEF DeviceAnswers
    <3>2. in' \in Seq(Bytes)
      BY <2>0, <3>1, PiecesAre
    <3>3. SubSeq(out, Size + 1, Len(out)) \in Seq(Bytes)
      BY <2>0, BtAssumption
    <3> QED BY <2>0, <2>6, <3>2, <3>3 DEF DeviceAnswers
  <2>7. ASSUME NEW u \in Users, Send(u)
        PROVE  Queues'
    <3>1. calling[u].r \in Asked
      BY <2>7, BtAssumption DEF Send, AsksDiffer, CountBounded, Asked
    <3>2. in' = in
      BY <2>7 DEF Send
    <3>3. PICK pooled \in Seq(Bytes) : pooled = pool \o Pieces(calling[u].r)
      <4>1. Pieces(calling[u].r) \in Seq(Bytes) /\ pool \in Seq(Bytes)
        BY <2>0, <3>1, PiecesAre
      <4>2. pool \o Pieces(calling[u].r) \in Seq(Bytes)
        BY <4>1, ConcatProperties
      <4> QED BY <4>2
    <3>4. CASE pool' = pooled /\ UNCHANGED <<top, out>>
      BY <2>0, <3>3, <3>4, <3>2
    <3>5. ASSUME top <= Len(pooled),
                 NEW n \in (IF top = Len(pooled) THEN {0} ELSE 1..(Len(pooled) - top)),
                 out' = IF hungUp THEN out ELSE out \o SubSeq(pooled, top + 1, top + n),
                 IF top + n = Len(pooled) THEN pool' = <<>> /\ top' = 0 ELSE pool' = pooled /\ top' = top + n
          PROVE  pool' \in Seq(Bytes) /\ out' \in Seq(Bytes) /\ top' \in Nat
      <4>0. top \in Nat /\ Len(pooled) \in Nat
        BY <2>0, <3>3
      <4>1. top \in Nat /\ n \in Nat /\ Len(pooled) \in Nat /\ top + n <= Len(pooled)
        <5>1. CASE top = Len(pooled)
          BY <4>0, <3>5, <5>1
        <5>2. CASE top # Len(pooled)
          BY <4>0, <3>5, <5>2
        <5> QED BY <5>1, <5>2
      <4>2. SubSeq(pooled, top + 1, top + n) \in Seq(Bytes)
        <5>1. top + 1 >= 1 /\ top + n <= Len(pooled)
          BY <4>1
        <5> QED BY <3>3, <4>1, <5>1
      <4>3. out' \in Seq(Bytes)
        <5>1. out \o SubSeq(pooled, top + 1, top + n) \in Seq(Bytes)
          BY <2>0, <4>2, ConcatProperties
        <5> QED BY <2>0, <3>5, <5>1
      <4>4. pool' \in Seq(Bytes) /\ top' \in Nat
        <5>1. CASE top + n = Len(pooled)
          BY <2>0, <3>5, <5>1
        <5>2. CASE top + n # Len(pooled)
          <6>1. pool' = pooled /\ top' = top + n
            BY <3>5, <5>2
          <6>2. top + n \in Nat
            BY <4>1, SumOfNats
          <6> QED BY <3>3, <6>1, <6>2
        <5> QED BY <5>1, <5>2
      <4> QED BY <4>3, <4>4
    <3> QED BY <2>0, <2>7, <3>3, <3>4, <3>5, <3>2 DEF Send
  <2>8. CASE RequestExit \/ JoinThread \/ Arrive \/ UserDisconnects \/ Closed \/ UNCHANGED btVars
    BY <2>1, <2>8 DEF btVars, RequestExit, JoinThread, Arrive, UserDisconnects, Closed
  <2>9. ASSUME NEW u \in Users, \/ Finished(u) \/ TimeUp(u) \/ Look(u) \/ Answered(u) \/ GiveUp(u)
                                \/ Call(u) \/ \E d \in Devices : Connect(u, d)
        PROVE  Queues'
    BY <2>1, <2>9 DEF Finished, TimeUp, Look, Answered, GiveUp, Call, Connect
  <2> QED BY <2>2, <2>3, <2>4, <2>5, <2>6, <2>7, <2>8, <2>9 DEF BtNext, Worker, User
<1>5. buffer' \in Asked \cup {None, Garbled, TooLong}
  <2>1. CASE Client
    BY <2>1, MeaningTyped DEF Client, BtTypeOK
  <2>2. CASE ~Client
    BY <2>2 DEF btVars, BtTypeOK, BtNext, Start, RequestExit, JoinThread, Worker, ObeyFlags, ConnectReturns, Forget, Arrive,
         Accept, DeviceAnswers, HangUp, UserDisconnects, Closed, User, Finished, TimeUp, Look, Send, Answered, GiveUp,
         Call, Connect
  <2> QED BY <2>1, <2>2
<1>6. CallingOK' /\ AnsweredOK'
  <2>0. CallingOK /\ AnsweredOK
    BY DEF BtTypeOK
  <2>1. CASE UNCHANGED <<calling, answered>>
    BY <2>0, <2>1
  <2>2. ASSUME NEW u \in Users, NEW at \in {"idle", "looking", "ready", "waiting"}, Goes(u, at)
        PROVE  CallingOK'
    BY <2>2, UserMoves
  <2>3. ASSUME NEW u \in Users, NEW a \in Asked \cup {None, Garbled}, Returns(u, a)
        PROVE  CallingOK' /\ AnsweredOK'
    <3>1. answered' = [to |-> calling[u].r, with |-> a] /\ calling[u].r \in Asked \cup {None}
      BY <2>0, <2>3 DEF Returns
    <3> QED BY <2>2, <2>3, <3>1 DEF Returns
  <2>4. ASSUME NEW u \in Users, Finished(u) \/ TimeUp(u)
        PROVE  CallingOK' /\ AnsweredOK'
    BY <2>0, <2>2, <2>4 DEF Finished, TimeUp
  <2>5. ASSUME NEW u \in Users, Look(u) \/ Send(u) \/ GiveUp(u)
        PROVE  CallingOK' /\ AnsweredOK'
    BY <2>0, <2>2, <2>3, <2>5 DEF Look, Send, GiveUp
  <2>6. ASSUME NEW u \in Users, Answered(u)
        PROVE  CallingOK' /\ AnsweredOK'
    BY <2>0, <2>3, <2>6 DEF Answered, BtTypeOK
  <2>7. ASSUME NEW u \in Users, Call(u) \/ \E d \in Devices : Connect(u, d)
        PROVE  CallingOK' /\ AnsweredOK'
    <3>1. asks' \in Asked /\ UNCHANGED answered
      BY <2>7, BtAssumption DEF Call, Connect, CountBounded, Asked
    <3>2. PICK at \in {"ready", "connecting"} :
            calling' = [calling EXCEPT ![u] = [at |-> at, r |-> asks']]
      BY <2>7 DEF Call, Connect
    <3> QED BY <2>0, <3>1, <3>2
  <2>8. CASE \/ Start \/ RequestExit \/ JoinThread \/ Worker \/ (\E d \in Devices : Accept(d)) \/ DeviceAnswers
             \/ HangUp \/ UserDisconnects \/ Closed \/ UNCHANGED btVars
    BY <2>1, <2>8 DEF btVars, Start, RequestExit, JoinThread, Worker, ObeyFlags, ConnectReturns, Forget, Client, Arrive,
           Accept, DeviceAnswers, HangUp, UserDisconnects, Closed
  <2> QED BY <2>4, <2>5, <2>6, <2>7, <2>8 DEF BtNext, User
<1> QED BY <1>0, <1>1, <1>2, <1>3, <1>4, <1>5, <1>6 DEF BtTypeOK

\* A caller under way goes on with its request, or is done.
LEMMA UserGoesOn ==
  ASSUME BtTypeOK, NEW u \in Users, User(u)
  PROVE  /\ asks' = asks /\ calling[u].at # "idle"
         /\ \A v \in Users : /\ calling'[v].r = calling[v].r
                             /\ calling'[v].at # "idle" => calling[v].at # "idle"
                             /\ v # u => calling'[v].at = calling[v].at
         /\ calling'[u].at = "waiting" => Send(u) \/ (Answered(u) /\ calling' = calling)
<1>1. asks' = asks /\ calling[u].at # "idle"
  BY DEF User, Finished, TimeUp, Look, Send, Answered, GiveUp, bounds
<1>2. CASE calling' = calling /\ Answered(u)
  BY <1>1, <1>2
<1>3. ASSUME NEW at \in {"idle", "looking", "ready", "waiting"}, Goes(u, at), at = "waiting" => Send(u)
      PROVE  /\ \A v \in Users : /\ calling'[v].r = calling[v].r
                                 /\ calling'[v].at # "idle" => calling[v].at # "idle"
                                 /\ v # u => calling'[v].at = calling[v].at
             /\ calling'[u].at = "waiting" => Send(u)
  <2>1. \A v \in Users : calling'[v].at = (IF v = u THEN at ELSE calling[v].at) /\ calling'[v].r = calling[v].r
    BY <1>3, UserMoves
  <2> QED BY <1>1, <1>3, <2>1
<1>4. CASE Finished(u) \/ TimeUp(u)
  BY <1>1, <1>3, <1>4 DEF Finished, TimeUp
<1>5. CASE Look(u) \/ Answered(u) \/ GiveUp(u)
  <2>1. (calling' = calling /\ Answered(u)) \/ Goes(u, "idle") \/ Goes(u, "ready")
    BY <1>5 DEF Look, Answered, GiveUp, Returns
  <2> QED BY <1>1, <1>2, <1>3, <2>1
<1>6. CASE Send(u)
  <2>1. Goes(u, "idle") \/ Goes(u, "waiting")
    BY <1>6 DEF Send, Returns
  <2> QED BY <1>1, <1>3, <1>6, <2>1
<1> QED BY <1>4, <1>5, <1>6 DEF User

\* Whoever calls was idle, and its request is a new one.
LEMMA NewRequest ==
  ASSUME BtTypeOK, CountBounded, NEW u \in Users, Call(u) \/ \E d \in Devices : Connect(u, d)
  PROVE  /\ asks' \in Asked /\ asks' > asks /\ calling[u].at = "idle"
         /\ confused' = ~Resting /\ answered' = answered
         /\ calling'[u].at \in {"ready", "connecting"} /\ calling'[u].r = asks'
         /\ \A v \in Users : v # u => calling'[v] = calling[v]
<1>1. asks \in Nat /\ asks < MaxAsked /\ asks' = asks + 1 /\ calling[u].at = "idle" /\ answered' = answered
  BY BtAssumption DEF CountBounded, Call, Connect
<1>2. asks' \in Asked /\ asks' > asks
  BY <1>1, BtAssumption DEF Asked
<1>3. confused' = ~Resting
  BY Zenon DEF Call, Connect
<1>4. PICK at \in {"ready", "connecting"} :
        calling' = [calling EXCEPT ![u] = [at |-> at, r |-> asks']]
  BY DEF Call, Connect
<1>5. /\ calling'[u].at \in {"ready", "connecting"} /\ calling'[u].r = asks'
      /\ \A v \in Users : v # u => calling'[v] = calling[v]
  BY <1>4 DEF BtTypeOK
<1> QED BY <1>1, <1>2, <1>3, <1>5

LEMMA AsksDifferKept ==
  ASSUME BtTypeOK, CountBounded, AsksDiffer, [BtNext]_btVars
  PROVE  AsksDiffer'
<1> USE DEF flags, conn, sending, requests, receiving, bounds, callers
<1>1. CASE UNCHANGED <<calling, asks>>
  BY <1>1 DEF AsksDiffer
<1>2. ASSUME NEW u \in Users, User(u)
      PROVE  AsksDiffer'
  BY <1>2, UserGoesOn DEF AsksDiffer
<1>3. ASSUME NEW u \in Users, Call(u) \/ \E d \in Devices : Connect(u, d)
      PROVE  AsksDiffer'
  <2>1. /\ asks' \in Asked /\ asks' > asks /\ calling'[u].r = asks' /\ asks \in Nat
        /\ \A v \in Users : v # u => calling'[v] = calling[v]
    BY <1>3, NewRequest DEF CountBounded
  <2>2. \A v \in Users : v # u /\ calling'[v].at # "idle" => calling'[v].r \in 1..asks
    BY <2>1 DEF AsksDiffer
  <2>3. asks' \in 1..asks' /\ 1..asks \subseteq 1..asks' /\ asks' \notin 1..asks
    BY <2>1 DEF Asked
  <2>4. \A v \in Users : calling'[v].at # "idle" => calling'[v].r \in 1..asks'
    BY <2>1, <2>2, <2>3
  <2>5. \A v, w \in Users : calling'[v].at # "idle" /\ calling'[w].at # "idle" /\ calling'[v].r = calling'[w].r => v = w
    BY <2>1, <2>2, <2>3 DEF AsksDiffer
  <2> QED BY <2>4, <2>5 DEF AsksDiffer
<1>4. CASE \/ Start \/ RequestExit \/ JoinThread \/ Worker \/ (\E d \in Devices : Accept(d)) \/ DeviceAnswers
           \/ HangUp \/ UserDisconnects \/ Closed \/ UNCHANGED btVars
  BY <1>1, <1>4 DEF btVars, Start, RequestExit, JoinThread, Worker, ObeyFlags, ConnectReturns, Forget, Client, Arrive,
         Accept, DeviceAnswers, HangUp, UserDisconnects, Closed
<1> QED BY <1>2, <1>3, <1>4 DEF BtNext

\* Once confused, the proxy stays so, unless a call finds it at rest.
LEMMA StaysConfused ==
  ASSUME BtTypeOK, [BtNext]_btVars, \A u \in Users : ~Call(u) /\ \A d \in Devices : ~Connect(u, d)
  PROVE  confused' \in {confused, TRUE}
<1> USE DEF flags, conn, sending, requests, receiving, bounds, callers
<1>0. confused \in BOOLEAN
  BY DEF BtTypeOK
<1>1. CASE Client
  BY <1>0, <1>1 DEF Client
<1>2. ASSUME NEW u \in Users, User(u)
      PROVE  confused' \in {confused, TRUE}
  BY <1>0, <1>2 DEF User, Finished, TimeUp, Look, Send, Answered, GiveUp
<1>3. CASE \/ Start \/ RequestExit \/ JoinThread \/ ObeyFlags \/ ConnectReturns \/ Forget \/ Arrive
           \/ (\E d \in Devices : Accept(d)) \/ DeviceAnswers
           \/ HangUp \/ UserDisconnects \/ Closed \/ UNCHANGED btVars
  BY <1>3 DEF btVars, Start, RequestExit, JoinThread, ObeyFlags, ConnectReturns, Forget, Arrive,
         Accept, DeviceAnswers, HangUp, UserDisconnects, Closed
<1> QED BY <1>1, <1>2, <1>3 DEF BtNext, Worker

LEMMA OneAsksKept ==
  ASSUME BtTypeOK, CountBounded, ~confused => OneAsks, [BtNext]_btVars, ~confused'
  PROVE  OneAsks'
<1> USE DEF flags, conn, sending, requests, receiving, bounds, callers
<1>1. ASSUME NEW u \in Users, Call(u) \/ \E d \in Devices : Connect(u, d)
      PROVE  OneAsks'
  <2>1. Resting /\ \A v \in Users : v # u => calling'[v] = calling[v]
    BY <1>1, NewRequest
  <2> QED BY <2>1 DEF Resting, OneAsks
<1>2. CASE \A u \in Users : ~Call(u) /\ \A d \in Devices : ~Connect(u, d)
  <2>1. OneAsks
    BY <1>2, StaysConfused
  <2>2. ASSUME NEW u \in Users, User(u)
        PROVE  OneAsks'
    BY <2>1, <2>2, UserGoesOn DEF OneAsks
  <2>3. CASE \/ Start \/ RequestExit \/ JoinThread \/ Worker \/ (\E d \in Devices : Accept(d)) \/ DeviceAnswers
             \/ HangUp \/ UserDisconnects \/ Closed \/ UNCHANGED btVars
    <3>1. calling' = calling
      BY <2>3 DEF btVars, Start, RequestExit, JoinThread, Worker, ObeyFlags, ConnectReturns, Forget, Client, Arrive,
         Accept, DeviceAnswers, HangUp, UserDisconnects, Closed
    <3> QED BY <2>1, <3>1 DEF OneAsks
  <2> QED BY <1>2, <2>2, <2>3 DEF BtNext
<1> QED BY <1>1, <1>2

LEMMA OwnAnswerKept ==
  ASSUME BtTypeOK, CountBounded, AsksDiffer, OneAsks, \A u \in Users : calling[u].at = "waiting" => OwnAnswer(u),
         [BtNext]_btVars, ~confused', \A u \in Users : ~Call(u) /\ \A d \in Devices : ~Connect(u, d),
         NEW u \in Users, calling'[u].at = "waiting"
  PROVE  OwnAnswer(u)'
<1> USE DEF flags, conn, sending, requests, receiving, bounds, callers
<1> DEFINE p == Pieces(calling[u].r)
           r == calling[u].r
<1>1. r \in Asked /\ calling'[u].r = r
  <2>1. calling[u].at # "idle" /\ calling'[u].r = r
    <3>1. CASE \E v \in Users : User(v)
      BY <3>1, UserGoesOn
    <3>2. CASE calling' = calling
      BY <3>2
    <3> QED BY <3>1, <3>2 DEF btVars, BtNext, Start, RequestExit, JoinThread, Worker, ObeyFlags, ConnectReturns, Forget,
               Client, Arrive, Accept, DeviceAnswers, HangUp, UserDisconnects, Closed
  <2> QED BY <2>1, BtAssumption DEF AsksDiffer, CountBounded, Asked
<1>2. p \in Seq(Bytes) /\ Len(p) = Size /\ p # <<>> /\ Meaning(p) = r /\ Size \in Nat /\ Size > 0
  BY <1>1, PiecesAre, BtAssumption
<1> HIDE DEF p
<1>3. SUFFICES /\ out' \in {<<>>, p} /\ in' \in {<<>>, p} /\ (out' = <<>> \/ in' = <<>>)
               /\ thread' = "notify" \/ arrived' => buffer' \in {r, TooLong}
  BY <1>1 DEF OwnAnswer, p
<1>4. CASE Send(u)
  <2>1. calling[u].at = "ready" /\ thread' = thread /\ arrived' = FALSE /\ in' = in
    BY <1>4 DEF Send
  <2>2. Goes(u, "waiting")
    <3>1. CASE Goes(u, "idle")
      <4>1. calling'[u].at = "idle"
        BY <3>1, UserMoves
      <4> QED BY <4>1
    <3> QED BY <1>4, <3>1 DEF Send, Returns
  <2>3. PICK n \in (IF top = Len(pool \o p) THEN {0} ELSE 1..(Len(pool \o p) - top)) :
          /\ out' = IF hungUp THEN out ELSE out \o SubSeq(pool \o p, top + 1, top + n)
          /\ confused' = (confused \/ Stale \/ top + n < Len(pool \o p))
    <3>1. ~Returns(u, None)
      <4>1. CASE Goes(u, "idle")
        <5>1. calling'[u].at = "idle"
          BY <4>1, UserMoves
        <5> QED BY <5>1
      <4> QED BY <4>1 DEF Returns
    <3> QED BY <1>4, <3>1 DEF Send, p
  <2>4. ~Stale /\ ~(top + n < Len(pool \o p))
    BY <2>3, Zenon
  <2>5. pool = <<>> /\ out = <<>> /\ in = <<>> /\ top = 0 /\ thread # "notify"
    BY <2>4 DEF Stale
  <2>6. pool \o p = p
    BY <1>2, <2>5, ConcatEmptySeq
  <2>7. n = Size
    BY <1>2, <2>3, <2>4, <2>5, <2>6
  <2>8. SubSeq(pool \o p, top + 1, top + n) = p
    <3>1. top + 1 = 1 /\ top + n = Len(p)
      BY <1>2, <2>5, <2>7
    <3> QED BY <1>2, <2>6, <3>1
  <2>9. out' \in {<<>>, p}
    BY <1>2, <2>3, <2>5, <2>8, ConcatEmptySeq
  <2> QED BY <2>1, <2>5, <2>9
<1>5. CASE ~Send(u)
  <2>1. calling[u].at = "waiting" /\ (\A v \in Users : User(v) => UNCHANGED <<out, in, thread, arrived, buffer>>)
    <3>1. ASSUME NEW v \in Users, User(v)
          PROVE  calling[u].at = "waiting" /\ UNCHANGED <<out, in, thread, arrived, buffer>>
      <4>1. u = v
        <5>1. calling[v].at # "idle" /\ calling[u].at # "idle"
          BY <3>1, UserGoesOn
        <5> QED BY <5>1 DEF OneAsks
      <4>2. Answered(u) /\ calling' = calling
        BY <1>5, <3>1, <4>1, UserGoesOn
      <4> QED BY <4>2 DEF Answered
    <3>2. CASE calling' = calling
      BY <3>1, <3>2
    <3> QED BY <3>1, <3>2 DEF btVars, BtNext, Start, RequestExit, JoinThread, Worker, ObeyFlags, ConnectReturns, Forget,
               Client, Arrive, Accept, DeviceAnswers, HangUp, UserDisconnects, Closed
  <2>2. /\ out \in {<<>>, p} /\ in \in {<<>>, p} /\ (out = <<>> \/ in = <<>>)
        /\ thread = "notify" \/ arrived => buffer \in {r, TooLong}
    BY <2>1 DEF OwnAnswer, p
  <2>3. CASE UNCHANGED <<out, in, thread, arrived, buffer>>
    BY <2>2, <2>3
  <2>4. CASE Start
    BY <2>2, <2>4 DEF Start
  <2>5. CASE ObeyFlags \/ Forget
    <3>1. UNCHANGED <<out, in, arrived, buffer>> \/ (out' = <<>> /\ in' = <<>> /\ UNCHANGED <<arrived, buffer>>)
      BY <2>5 DEF ObeyFlags, Forget, Disconnected, Drop
    <3>2. thread' # "notify"
      BY <2>5 DEF ObeyFlags, Forget
    <3> QED BY <2>2, <3>1, <3>2
  <2>6. CASE ConnectReturns \/ \E d \in Devices : Accept(d)
    <3>1. UNCHANGED <<out, in, arrived, buffer>> \/ (out' = <<>> /\ in' = <<>> /\ UNCHANGED <<arrived, buffer>>)
      BY <2>6 DEF ConnectReturns, Accept, Take
    <3>2. thread' # "notify"
      BY <2>6 DEF ConnectReturns, Accept
    <3> QED BY <2>2, <3>1, <3>2
  <2>7. CASE Client
    <3>1. out' \in {out, <<>>} /\ arrived' = arrived
      BY <2>7 DEF Client, Drop
    <3>2. CASE UNCHANGED <<in, thread, buffer>>
      BY <2>2, <3>1, <3>2
    <3>3. CASE in' = <<>> /\ buffer' = TooLong
      BY <2>2, <3>1, <3>3
    <3>4. ASSUME NEW n \in 1..Len(in), in # <<>>, in' = SubSeq(in, n + 1, Len(in)), buffer' = Meaning(SubSeq(in, 1, n)),
                 confused' = (confused \/ n < Size)
          PROVE  in' = <<>> /\ buffer' = r
      <4>1. in = p
        BY <2>2, <3>4
      <4>2. ~(n < Size)
        BY <3>4, Zenon
      <4>3. n = Size /\ Len(in) = Size
        BY <1>2, <3>4, <4>1, <4>2
      <4>4. SubSeq(in, 1, n) = p
        BY <1>2, <4>1, <4>3
      <4>5. SubSeq(in, n + 1, Len(in)) = <<>>
        BY <1>2, <4>1, <4>3
      <4> QED BY <1>2, <3>4, <4>4, <4>5
    <3> QED BY <2>2, <2>7, <3>1, <3>2, <3>3, <3>4 DEF Client
  <2>8. CASE DeviceAnswers
    <3>1. PICK q \in Asked : Len(out) >= Size /\ SubSeq(out, 1, Size) = Pieces(q) /\ in' = in \o Pieces(q)
      BY <2>8 DEF DeviceAnswers
    <3>2. out' = SubSeq(out, Size + 1, Len(out)) /\ UNCHANGED <<thread, arrived, buffer>>
      BY <2>8 DEF DeviceAnswers
    <3>3. out = p /\ in = <<>>
      <4>1. out # <<>>
        BY <1>2, <3>1
      <4> QED BY <1>2, <2>2, <4>1
    <3>4. Pieces(q) = p
      BY <1>2, <3>1, <3>3
    <3>5. in' = p
      BY <1>2, <3>1, <3>3, <3>4, ConcatEmptySeq
    <3>6. out' = <<>>
      BY <1>2, <3>2, <3>3
    <3> QED BY <2>2, <3>2, <3>5, <3>6
  <2>9. CASE Arrive
    BY <2>2, <2>9 DEF Arrive
  <2>10. CASE HangUp
    BY <2>2, <2>10 DEF HangUp
  <2>11. CASE RequestExit \/ UserDisconnects \/ Closed \/ UNCHANGED btVars
    BY <2>3, <2>11 DEF btVars, RequestExit, UserDisconnects, Closed
  <2>12. CASE JoinThread
    BY <2>2, <2>12 DEF JoinThread
  <2> QED BY <2>1, <2>3, <2>4, <2>5, <2>6, <2>7, <2>8, <2>9, <2>10, <2>11, <2>12 DEF BtNext, Worker
<1> QED BY <1>4, <1>5

LEMMA ProxyStep ==
  ASSUME ProxyInv, [BtNext]_btVars
  PROVE  ProxyInv'
<1>1. BtTypeOK /\ CountBounded /\ OneClient /\ AsksDiffer
  BY DEF ProxyInv
<1>2. CountBounded' /\ OneClient' /\ AsksDiffer'
  BY <1>1, CountKept, OneClientKept, AsksDifferKept
<1>3. BtTypeOK'
  BY <1>1, <1>2, BtTyped
<1>4. ASSUME ~confused'
      PROVE  OneAsks' /\ \A u \in Users : calling'[u].at = "waiting" => OwnAnswer(u)'
  <2>1. OneAsks'
    BY <1>1, <1>4, OneAsksKept DEF ProxyInv
  <2>2. CASE \A u \in Users : ~Call(u) /\ \A d \in Devices : ~Connect(u, d)
    <3>1. ~confused
      BY <1>1, <1>4, <2>2, StaysConfused
    <3>2. OneAsks /\ \A u \in Users : calling[u].at = "waiting" => OwnAnswer(u)
      BY <3>1 DEF ProxyInv
    <3>3. ASSUME NEW u \in Users, calling'[u].at = "waiting"
          PROVE  OwnAnswer(u)'
      BY <1>1, <1>4, <2>2, <3>2, <3>3, OwnAnswerKept
    <3> QED BY <2>1, <3>3
  <2>3. ASSUME NEW u \in Users, Call(u) \/ \E d \in Devices : Connect(u, d)
        PROVE  \A v \in Users : calling'[v].at # "waiting"
    <3>1. /\ Resting /\ calling'[u].at \in {"ready", "connecting"}
          /\ \A v \in Users : v # u => calling'[v] = calling[v]
      BY <1>1, <1>4, <2>3, NewRequest
    <3> QED BY <3>1 DEF Resting
  <2> QED BY <2>1, <2>2, <2>3
<1> QED BY <1>2, <1>3, <1>4 DEF ProxyInv

\* A call that ends: its request is no longer under way, and its answer is what is told.
LEMMA CallEnds ==
  ASSUME ProxyInv, NEW u \in Users, NEW a \in Asked \cup {None, Garbled}, calling[u].at # "idle",
         Returns(u, a), confused' \in {confused, TRUE}, ~confused => a \in {calling[u].r, None}
  PROVE  BtRemote!Next
<1>1. BtTypeOK /\ AsksDiffer /\ CountBounded
  BY DEF ProxyInv
<1>2. PICK r \in Asked : r = calling[u].r
  BY <1>1, BtAssumption DEF AsksDiffer, CountBounded, Asked
<1>4. \A v \in Users : calling'[v].r = calling[v].r /\ (calling'[v].at # "idle" <=> calling[v].at # "idle" /\ v # u)
  <2>1. Goes(u, "idle")
    BY DEF Returns
  <2> QED BY <1>1, <2>1, UserMoves
<1>5. r \in BtUnderWay /\ BtUnderWay' = BtUnderWay \ {r}
  BY <1>1, <1>2, <1>4 DEF BtUnderWay, AsksDiffer
<1>6. answered' = [to |-> r, with |-> a]
  BY <1>2 DEF Returns
<1>7. a \in {r, None} \/ confused
  <2>1. confused \in BOOLEAN
    BY <1>1 DEF BtTypeOK
  <2> QED BY <1>2, <2>1
<1>8. BtRemote!Return(r, a)
  BY <1>5, <1>6, <1>7 DEF BtRemote!Return, BtRemote!Muddle
<1> QED BY <1>8 DEF BtRemote!Next

\* A call to the proxy is a call to a remote signer.
LEMMA BtCalls ==
  ASSUME ProxyInv, [BtNext]_btVars
  PROVE  [BtRemote!Next]_BtRemote!vars
<1> USE DEF flags, conn, sending, requests, receiving, bounds, callers
<1>1. BtTypeOK /\ AsksDiffer /\ CountBounded
  BY DEF ProxyInv
<1>2. ASSUME UNCHANGED answered, BtUnderWay' = BtUnderWay, confused' \in {confused, TRUE}
      PROVE  [BtRemote!Next]_BtRemote!vars
  BY <1>2 DEF BtRemote!Next, BtRemote!LoseStep, BtRemote!Muddle, BtRemote!vars
<1>3. ASSUME NEW u \in Users, Call(u) \/ \E d \in Devices : Connect(u, d)
      PROVE  [BtRemote!Next]_BtRemote!vars
  <2>1. /\ asks' \in Asked /\ asks' > asks /\ asks \in Nat /\ calling[u].at = "idle" /\ answered' = answered
        /\ confused' = ~Resting
        /\ calling'[u].at \in {"ready", "connecting"} /\ calling'[u].r = asks'
        /\ \A v \in Users : v # u => calling'[v] = calling[v]
    BY <1>1, <1>3, NewRequest DEF CountBounded
  <2>2. asks' \notin BtUnderWay
    <3>1. asks' \notin 1..asks
      BY <2>1 DEF Asked
    <3> QED BY <1>1, <3>1 DEF BtUnderWay, AsksDiffer
  <2>3. BtUnderWay' = BtUnderWay \cup {asks'}
    <3>1. calling'[u].at # "idle"
      BY <2>1
    <3> QED BY <2>1, <3>1 DEF BtUnderWay
  <2>4. confused' \in {confused, TRUE} \/ (BtUnderWay = {} /\ ~confused')
    <3>1. CASE Resting
      <4>1. ~confused'
        BY <2>1, <3>1, Zenon
      <4>2. BtUnderWay = {}
        BY <3>1 DEF Resting, BtUnderWay
      <4> QED BY <4>1, <4>2
    <3>2. CASE ~Resting
      <4>1. confused' = TRUE
        BY <2>1, <3>2, Zenon
      <4> QED BY <4>1
    <3> QED BY <3>1, <3>2
  <2>5. BtRemote!Call(asks')
    BY <2>1, <2>2, <2>3, <2>4 DEF BtRemote!Call, BtRemote!Muddle
  <2> QED BY <2>1, <2>5 DEF BtRemote!Next
<1>4. CASE \A u \in Users : ~Call(u) /\ \A d \in Devices : ~Connect(u, d)
  <2>1. confused' \in {confused, TRUE}
    BY <1>1, <1>4, StaysConfused
  <2>2. ASSUME NEW u \in Users, NEW at \in {"looking", "ready", "waiting"}, Goes(u, at), UNCHANGED answered,
               calling[u].at # "idle"
        PROVE  [BtRemote!Next]_BtRemote!vars
    <3>1. \A v \in Users : calling'[v].r = calling[v].r /\ (calling'[v].at # "idle" <=> calling[v].at # "idle")
      BY <1>1, <2>2, UserMoves
    <3>2. BtUnderWay' = BtUnderWay
      BY <3>1 DEF BtUnderWay
    <3> QED BY <1>2, <2>1, <2>2, <3>2
  <2>3. CASE UNCHANGED <<calling, answered>>
    <3>1. BtUnderWay' = BtUnderWay
      BY <2>3 DEF BtUnderWay
    <3> QED BY <1>2, <2>1, <2>3, <3>1
  <2>4. ASSUME NEW u \in Users, Finished(u) \/ TimeUp(u)
        PROVE  [BtRemote!Next]_BtRemote!vars
    BY <2>2, <2>4 DEF Finished, TimeUp
  <2>5. ASSUME NEW u \in Users, Look(u) \/ Send(u) \/ GiveUp(u)
        PROVE  [BtRemote!Next]_BtRemote!vars
    <3>1. calling[u].at # "idle"
      BY <2>5 DEF Look, Send, GiveUp
    <3>2. CASE Returns(u, None)
      BY <2>1, <3>1, <3>2, CallEnds
    <3> QED BY <2>2, <2>5, <3>1, <3>2 DEF Look, Send, GiveUp
  <2>6. ASSUME NEW u \in Users, Answered(u)
        PROVE  [BtRemote!Next]_BtRemote!vars
    <3>1. calling[u].at = "waiting" /\ arrived
      BY <2>6 DEF Answered
    <3>2. CASE buffer = TooLong
      BY <2>3, <2>6, <3>2 DEF Answered
    <3>3. CASE buffer # TooLong
      <4>1. Returns(u, buffer) /\ buffer \in Asked \cup {None, Garbled}
        BY <1>1, <2>6, <3>3 DEF Answered, BtTypeOK
      <4>2. ~confused => buffer = calling[u].r
        BY <3>1, <3>3 DEF ProxyInv, OwnAnswer
      <4> QED BY <2>1, <3>1, <4>1, <4>2, CallEnds
    <3> QED BY <3>2, <3>3
  <2>7. CASE \/ Start \/ RequestExit \/ JoinThread \/ Worker \/ (\E d \in Devices : Accept(d)) \/ DeviceAnswers
             \/ HangUp \/ UserDisconnects \/ Closed \/ UNCHANGED btVars
    BY <2>3, <2>7 DEF btVars, Start, RequestExit, JoinThread, Worker, ObeyFlags, ConnectReturns, Forget, Client, Arrive,
         Accept, DeviceAnswers, HangUp, UserDisconnects, Closed
  <2> QED BY <1>4, <2>4, <2>5, <2>6, <2>7 DEF BtNext, User
<1> QED BY <1>3, <1>4

-----------------------------------------------------------------------------
(* The one and the other.                                                   *)

Inv == RelayInv /\ ProxyInv

LEMMA RemotesInvariant == RemotesSpec => []Inv
<1>1. RemotesInit => Inv
  BY RelayInit, ProxyInit DEF RemotesInit, Inv
<1>2. Inv /\ [RemotesNext]_all => Inv'
  <2> SUFFICES ASSUME Inv, [RemotesNext]_all
               PROVE  Inv'
    OBVIOUS
  <2>1. [Next]_vars /\ [BtNext]_btVars
    BY DEF RemotesNext, Rdp, Bluetooth, all
  <2> QED BY <2>1, RelayStep, ProxyStep DEF Inv
<1> QED BY <1>1, <1>2, PTL DEF RemotesSpec

\* Values keep their types: no chunk of the channel, event, flag, piece of a Bluetooth
\* message or number of a connection is ever something else (rdp_ssh_relay.cpp,
\* pageant+_rdp_client.cpp, bt_agent_proxy.cpp).
THEOREM RemotesTyped == RemotesSpec => []RemotesTypeOK
<1>1. Inv => RemotesTypeOK
  BY DEF Inv, RelayInv, ProxyInv, RemotesTypeOK
<1> QED BY <1>1, RemotesInvariant, PTL

\* Once rdp_ssh_relay_main() has served the events of the session's ends and returns,
\* its channel is that of the session there is (rdp_ssh_relay.cpp), whatever the order
\* they came in, unless the session came back before its end was noticed.
THEOREM ChannelFollowsSessionHolds == RemotesSpec => []ChannelFollowsSession
<1>1. Inv => ChannelFollowsSession
  BY DEF Inv, RelayInv, TypeOK, ChannelTold, ChannelFollowsSession
<1> QED BY <1>1, RemotesInvariant, PTL

\* What the relay's thread writes to an open channel is the request of a caller that
\* still waits (sendReceive() in rdp_ssh_relay.cpp), although sendFlag_ is never cleared.
THEOREM SendsLiveRequestHolds == RemotesSpec => []SendsLiveRequest
<1>1. Inv => SendsLiveRequest
  <2> SUFFICES ASSUME Inv, relay = "write", channel = "open", ~muddled
               PROVE  \E c \in Callers : call[c].at = "waiting" /\ sendPtr.of = call[c].of
    BY DEF SendsLiveRequest
  <2>1. TypeOK /\ Ended /\ EveryDebtOwed /\ OneCall
    BY DEF Inv, RelayInv
  <2>2. ~exiting
    BY <2>1 DEF Ended, TypeOK
  <2>3. PICK f \in [Debts -> Callers] : Owed(f)
    BY <2>1, <2>2 DEF EveryDebtOwed
  <2>4. "busy" \in Debts
    BY DEF Debts
  <2>5. f["busy"] \in Callers /\ call[f["busy"]].at = "waiting"
    BY <2>3, <2>4 DEF Owed
  <2>6. sendPtr.of = call[f["busy"]].of
    BY <2>1, <2>5 DEF OneCall
  <2> QED BY <2>5, <2>6
<1> QED BY <1>1, RemotesInvariant, PTL

\* While requests and answers are one chunk each, the RDP client's thread does not wait in
\* VirtualChannelOpenEvent() for a worker that waits for a callback of that thread
\* (pageant+_rdp_client.cpp), however many callers overlap; with longer ones it may.
THEOREM ClientNotFrozenHolds == RemotesSpec => []ClientNotFrozen
<1>1. Inv => ClientNotFrozen
  BY DEF Inv, RelayInv, CallbackWaits, InOnePlace, AtAgent, ClientNotFrozen, Frozen
<1> QED BY <1>1, RemotesInvariant, PTL

\* connectedCount_ counts the one connection there is, and clientAddr_ is its device
\* (bt_agent_proxy.cpp), unless one was made over another.
THEOREM OneClientHolds == RemotesSpec => []OneClient
<1>1. Inv => OneClient
  BY DEF Inv, ProxyInv
<1> QED BY <1>1, RemotesInvariant, PTL

\* A call through the relay, and one through the Bluetooth proxy, is a call to the
\* abstract signer of module RemoteCall: it returns the answer to its own request or
\* none, or over RDP the garbage of a freed buffer.  Calls that overlap, messages of
\* several chunks or pieces, and what an earlier call left under way are exempt, and
\* which device answers is not said (rdp_ssh_relay.cpp, bt_agent_proxy_main.cpp).
THEOREM SignersAnswerTheirCalls == RemotesSpec => ImplementRemoteCall
<1>1. RemotesInit => Remote!Init /\ BtRemote!Init
  <2> SUFFICES ASSUME RemotesInit PROVE Remote!Init /\ BtRemote!Init
    OBVIOUS
  <2>1. Remote!Init
    BY RelayAssumption DEF RemotesInit, Init, Remote!Init, UnderWay
  <2>2. BtRemote!Init
    BY BtAssumption DEF RemotesInit, BtInit, BtRemote!Init, BtUnderWay
  <2> QED BY <2>1, <2>2
<1>2. Inv /\ Inv' /\ [RemotesNext]_all => [Remote!Next]_Remote!vars /\ [BtRemote!Next]_BtRemote!vars
  <2> SUFFICES ASSUME Inv, Inv', [RemotesNext]_all
               PROVE  [Remote!Next]_Remote!vars /\ [BtRemote!Next]_BtRemote!vars
    OBVIOUS
  <2>1. [Next]_vars /\ [BtNext]_btVars
    BY DEF RemotesNext, Rdp, Bluetooth, all
  <2> QED BY <2>1, RelayCalls, BtCalls DEF Inv
<1> QED BY <1>1, <1>2, RemotesInvariant, PTL
     DEF RemotesSpec, ImplementRemoteCall, ImplementsRemoteCall, BtImplementsRemoteCall, Remote!Spec, BtRemote!Spec
=============================================================================
