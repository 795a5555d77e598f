------------------------------- MODULE Relay -------------------------------
(***************************************************************************)
(* The RDP relay of pageant+: keys that are in the agent of the machine    *)
(* the user sits at, used on the machine she is logged in to.              *)
(*                                                                         *)
(* On the server (rdp_ssh_relay.cpp) a thread owns the virtual channel;    *)
(* whoever has a request leaves it in global variables, signals the thread *)
(* and waits for its notification.  In the remote desktop client a DLL     *)
(* (pageant+_rdp_client.cpp) gets the data in a callback, and a worker     *)
(* thread hands it to the agent there and writes the answer back.          *)
(*                                                                         *)
(* The channel cuts what is long into chunks.  The client, whose thread    *)
(* sends what it is given and makes the callbacks, makes them one at a     *)
(* time and in the order in which what they tell of happened.              *)
(***************************************************************************)
EXTENDS Naturals, Sequences

CONSTANTS
  Callers,     \* the threads that sign for remote keys, or list them
  Nothing,     \* no request, no answer
  Junk,        \* an answer to no request that was made
  MaxChunks,   \* how many chunks a request or an answer may have
  MaxCalls,    \* bound of the model: the calls there are in all
  MaxDrops     \* bound of the model: how often the session is interrupted

Requests == 1..MaxCalls

ASSUME RelayAssumption ==
  /\ MaxChunks \in Nat \ {0} /\ MaxCalls \in Nat /\ MaxDrops \in Nat
  /\ {Nothing, Junk} \cap Requests = {} /\ Nothing # Junk

VARIABLES
  session,      \* the remote session is connected
  drops,        \* how often it was interrupted
  channel,      \* hVirtChannel_: NULL, or a handle that is good or not
  events,       \* the events of the server that are set
  exiting,      \* exitFlag_
  sendFlag,     \* sendFlag_
  sendPtr,      \* the request sendPtr_ points to, and its chunks
  receiveBuf,   \* receiveBuf_
  relay,        \* where rdp_ssh_relay_main() is
  made,         \* how many calls there have been
  call,         \* where each caller is, with its request
  last,         \* the call that returned last
  down,         \* chunks on their way to the client
  up,           \* chunks on their way to the server
  callback,     \* the client's thread that calls the DLL
  received,     \* receiveData_ of the DLL
  worker,       \* where WorkerThread() is, with what it has asked the agent
  alert,        \* ghAlertThread
  sync,         \* ghSynchCodeEvent
  chunked,      \* history: a request or an answer had two chunks
  muddled,      \* history: calls overlapped, or something had two chunks
  overtaken     \* history: the session was back before its end was noticed

server == <<channel, events, exiting, sendFlag, sendPtr, receiveBuf, relay>>
client == <<callback, received, worker, alert, sync>>
calls == <<made, call, last>>
wire == <<down, up>>
history == <<chunked, muddled, overtaken>>
vars == <<session, drops, server, calls, wire, client, history>>

Chunk(r, len) == [of |-> r, len |-> len]

\* Mutant of Chunks: there is always one more.
ChunksAndOne(r, len) == [k \in 1..(len + 1) |-> Chunk(r, len + 1)]

\* A request or an answer on the channel.
Chunks(r, len) == [k \in 1..len |-> Chunk(r, len)]

NoChunk == Chunk(Nothing, 1)

-----------------------------------------------------------------------------
(* The channel.                                                             *)

\* vcOpen(): a handle replaces the old one, if there is a session to open a
\* channel of.
Opened == IF session THEN "open" ELSE channel

Emptied == down' = <<>> /\ up' = <<>>

\* Logging off, or a lost connection.  The client's DLL stops its worker, and
\* terminates it if it does not end within five seconds (channelInitEventProc,
\* CHANNEL_EVENT_DISCONNECTED).
SessionDown ==
  /\ session /\ drops < MaxDrops
  /\ session' = FALSE /\ drops' = drops + 1
  /\ channel' = IF channel = "open" THEN "dead" ELSE channel
  /\ events' = IF relay = "none" THEN events ELSE events \cup {"disconnect"}
  /\ Emptied
  /\ callback' = "free" /\ worker' = [at |-> "none", what |-> NoChunk]
  /\ alert' = FALSE /\ sync' = FALSE
  /\ UNCHANGED <<exiting, sendFlag, sendPtr, receiveBuf, relay, calls, received, history>>

SessionUp ==
  /\ ~session
  /\ session' = TRUE
  /\ events' = IF relay = "none" THEN events ELSE events \cup {"reconnect"}
  /\ overtaken' = (overtaken \/ "disconnect" \in events)
  /\ UNCHANGED <<drops, channel, exiting, sendFlag, sendPtr, receiveBuf, relay, calls,
                 wire, client, chunked, muddled>>

-----------------------------------------------------------------------------
(* The server's thread.                                                     *)

Idle == \A c \in Callers : call[c].at = "idle"

\* rdpSshRelayServerStart(): new events; receiveBuf_ keeps what it has.
ServerStart ==
  /\ relay = "none"
  /\ relay' = "wait" /\ events' = {} /\ exiting' = FALSE /\ sendFlag' = FALSE
  /\ channel' = Opened
  /\ Emptied
  /\ overtaken' = FALSE
  /\ UNCHANGED <<session, drops, sendPtr, receiveBuf, calls, client, chunked, muddled>>

\* rdpSshRelayServerStop(), after the threads that call the relay are joined.
RequestStop ==
  /\ relay # "none" /\ ~exiting /\ Idle
  /\ exiting' = TRUE /\ events' = events \cup {"end"}
  /\ UNCHANGED <<session, drops, channel, sendFlag, sendPtr, receiveBuf, relay, calls,
                 wire, client, history>>

Join ==
  /\ relay = "ended"
  /\ relay' = "none" /\ events' = {}
  /\ UNCHANGED <<session, drops, channel, exiting, sendFlag, sendPtr, receiveBuf, calls,
                 wire, client, history>>

\* WaitForMultipleObjects() returns the first of the events that are set, in the
\* order reconnect, disconnect, end.
Reconnect ==
  /\ relay = "wait" /\ "reconnect" \in events
  /\ events' = events \ {"reconnect"}
  /\ channel' = Opened
  /\ IF session THEN Emptied ELSE UNCHANGED wire
  /\ UNCHANGED <<session, drops, exiting, sendFlag, sendPtr, receiveBuf, relay, calls,
                 client, history>>

\* Mutant of Disconnect: hVirtChannel_ is not cleared.
DisconnectKeepsHandle ==
  /\ relay = "wait" /\ "disconnect" \in events /\ "reconnect" \notin events
  /\ events' = events \ {"disconnect"}
  /\ UNCHANGED <<session, drops, channel, exiting, sendFlag, sendPtr, receiveBuf, relay, calls,
                 wire, client, history>>

\* The session's end is noticed: vcClose().
Disconnect ==
  /\ relay = "wait" /\ "disconnect" \in events /\ "reconnect" \notin events
  /\ events' = events \ {"disconnect"}
  /\ channel' = "null"
  /\ UNCHANGED <<session, drops, exiting, sendFlag, sendPtr, receiveBuf, relay, calls,
                 wire, client, history>>

\* What follows a request: the next round of the loop, or its end.
After == IF exiting THEN "ended" ELSE "wait"

\* Mutant of Wake: the channel is left open.
WakeAndSend ==
  /\ relay = "wait" /\ "end" \in events /\ events \cap {"reconnect", "disconnect"} = {}
  /\ events' = events \ {"end"}
  /\ relay' = IF sendFlag THEN "write" ELSE After
  /\ UNCHANGED <<session, drops, channel, exiting, sendFlag, sendPtr, receiveBuf, calls,
                 wire, client, history>>

\* One event stands for "stop" and for "send"; nothing clears sendFlag_, so a
\* stop sends the last request again, on the channel it has just closed.
Wake ==
  /\ relay = "wait" /\ "end" \in events /\ events \cap {"reconnect", "disconnect"} = {}
  /\ events' = events \ {"end"}
  /\ channel' = IF exiting THEN "null" ELSE channel
  /\ relay' = IF sendFlag THEN "write" ELSE After
  /\ UNCHANGED <<session, drops, exiting, sendFlag, sendPtr, receiveBuf, calls,
                 wire, client, history>>

\* The request has failed: no answer, and the caller is told.
NoAnswer ==
  /\ receiveBuf' = NoChunk
  /\ events' = events \cup {"notify"}
  /\ relay' = After

\* Mutant of Write: a request that cannot be written is dropped.
WriteOrDrop ==
  /\ relay = "write"
  /\ IF channel = "open"
     THEN /\ down' = down \o Chunks(sendPtr.of, sendPtr.len)
          /\ relay' = "read"
          /\ UNCHANGED <<receiveBuf, events>>
     ELSE relay' = After /\ UNCHANGED <<down, receiveBuf, events>>
  /\ UNCHANGED <<session, drops, channel, exiting, sendFlag, sendPtr, calls, up,
                 client, history>>

\* sendReceive(), WTSVirtualChannelWrite()
Write ==
  /\ relay = "write"
  /\ IF channel = "open"
     THEN /\ down' = down \o Chunks(sendPtr.of, sendPtr.len)
          /\ relay' = "read"
          /\ UNCHANGED <<receiveBuf, events>>
     ELSE NoAnswer /\ UNCHANGED down
  /\ UNCHANGED <<session, drops, channel, exiting, sendFlag, sendPtr, calls, up,
                 client, history>>

\* sendReceive(), WTSVirtualChannelRead() without a time-out: whatever comes.
Read ==
  /\ relay = "read"
  /\ \/ /\ channel = "open" /\ up # <<>>
        /\ receiveBuf' = Head(up) /\ up' = Tail(up)
        /\ events' = events \cup {"notify"}
        /\ relay' = After
     \/ channel # "open" /\ NoAnswer /\ UNCHANGED up
  /\ UNCHANGED <<session, drops, channel, exiting, sendFlag, sendPtr, calls, down,
                 client, history>>

-----------------------------------------------------------------------------
(* The callers: signer() and RdpKeyDlg.                                     *)

\* Two looks: is there a thread, is there a channel?
Check(c, len) ==
  /\ call[c].at = "idle" /\ made < MaxCalls
  /\ relay # "none" /\ ~exiting /\ channel # "null"
  /\ made' = made + 1
  /\ call' = [call EXCEPT ![c] = [at |-> "checked", of |-> made', len |-> len]]
  /\ chunked' = (chunked \/ len > 1)
  /\ muddled' = (muddled \/ ~Idle \/ len > 1)
  /\ UNCHANGED <<session, drops, server, last, wire, client, overtaken>>

\* The request is left where every other caller leaves its own.
Put(c) ==
  /\ call[c].at = "checked"
  /\ sendPtr' = Chunk(call[c].of, call[c].len)
  /\ sendFlag' = TRUE
  /\ events' = events \cup {"end"}
  /\ call' = [call EXCEPT ![c].at = "waiting"]
  /\ UNCHANGED <<session, drops, channel, exiting, receiveBuf, relay, made, last, wire, client, history>>

\* Mutant of Notified: the notification stays set.
NotifiedAgain(c) ==
  /\ call[c].at = "waiting" /\ "notify" \in events
  /\ call' = [call EXCEPT ![c].at = "notified"]
  /\ UNCHANGED <<session, drops, server, made, last, wire, client, history>>

\* WaitForSingleObject(eventNotify_): any of those who wait.
Notified(c) ==
  /\ call[c].at = "waiting" /\ "notify" \in events
  /\ events' = events \ {"notify"}
  /\ call' = [call EXCEPT ![c].at = "notified"]
  /\ UNCHANGED <<session, drops, channel, exiting, sendFlag, sendPtr, receiveBuf, relay, made, last,
                 wire, client, history>>

\* receive = receiveBuf_
Copy(c) ==
  /\ call[c].at = "notified"
  /\ call' = [call EXCEPT ![c].at = "idle"]
  /\ last' = [to |-> call[c].of, with |-> receiveBuf.of]
  /\ UNCHANGED <<session, drops, server, made, wire, client, history>>

-----------------------------------------------------------------------------
(* The DLL in the remote desktop client.                                    *)

\* CHANNEL_EVENT_CONNECTED, once in a session.
DllConnect ==
  /\ session /\ worker.at = "none" /\ callback = "free"
  /\ worker' = [worker EXCEPT !.at = "wait"]
  /\ UNCHANGED <<session, drops, server, calls, wire, callback, received, alert, sync,
                 history>>

\* CHANNEL_EVENT_DATA_RECEIVED: a chunk is taken for a request.  The callback
\* returns when the worker has been woken, not when it has the data.  What came
\* after an answer was sent is told after WriteComplete.
DataReceived ==
  /\ callback = "free" /\ worker.at \notin {"none", "sent"} /\ down # <<>>
  /\ received' = Head(down) /\ down' = Tail(down)
  /\ alert' = TRUE
  /\ callback' = "waiting"
  /\ UNCHANGED <<session, drops, server, calls, up, worker, sync, history>>

CallbackReturns ==
  /\ callback = "waiting" /\ sync
  /\ sync' = FALSE /\ callback' = "free"
  /\ UNCHANGED <<session, drops, server, calls, wire, received, worker, alert, history>>

\* Mutant of WorkerWakes: the callback is let go when the answer is written.
WorkerWakesLater ==
  /\ worker.at = "wait" /\ alert
  /\ alert' = FALSE
  /\ worker' = [worker EXCEPT !.at = "query"]
  /\ UNCHANGED <<session, drops, server, calls, wire, callback, received, sync, history>>

WorkerWakes ==
  /\ worker.at = "wait" /\ alert
  /\ alert' = FALSE /\ sync' = TRUE
  /\ worker' = [worker EXCEPT !.at = "query"]
  /\ UNCHANGED <<session, drops, server, calls, wire, callback, received, history>>

\* agent_query() copies receiveData_ and asks the agent.
Query ==
  /\ worker.at = "query"
  /\ worker' = [at |-> "asking", what |-> received]
  /\ UNCHANGED <<session, drops, server, calls, wire, callback, received, alert, sync,
                 history>>

\* The agent's answer, or that there is no agent, is given to the client to send,
\* and the buffer it is in is freed.
Reply ==
  /\ worker.at = "asking"
  /\ worker' = [worker EXCEPT !.at = "writing"]
  /\ UNCHANGED <<session, drops, server, calls, wire, callback, received, alert, sync,
                 history>>

\* Junk for a part of a request, and whenever the freed buffer is used again.
Answers(what) == IF what.len = 1 THEN {what.of, Junk} ELSE {Junk}

\* The client's thread sends what is in the buffer by now.
Deliver(len) ==
  /\ worker.at = "writing" /\ callback = "free"
  /\ \E r \in Answers(worker.what) :
       up' = IF channel = "open" THEN up \o Chunks(r, len) ELSE up
  /\ worker' = [worker EXCEPT !.at = IF down = <<>> THEN "sent" ELSE "racing"]
  /\ chunked' = (chunked \/ len > 1) /\ muddled' = (muddled \/ len > 1)
  /\ UNCHANGED <<session, drops, server, calls, down, callback, received, alert, sync,
                 overtaken>>

\* It calls back: CHANNEL_EVENT_WRITE_COMPLETE, for which the worker waits.
WriteComplete ==
  /\ worker.at \in {"sent", "racing"} /\ callback = "free"
  /\ worker' = [at |-> "wait", what |-> NoChunk]
  /\ UNCHANGED <<session, drops, server, calls, wire, callback, received, alert, sync, history>>

-----------------------------------------------------------------------------

Init ==
  /\ session \in BOOLEAN /\ drops = 0
  /\ channel = "null" /\ events = {} /\ exiting = FALSE /\ sendFlag = FALSE
  /\ sendPtr = NoChunk /\ receiveBuf = NoChunk /\ relay = "none"
  /\ call = [c \in Callers |-> [at |-> "idle", of |-> Nothing, len |-> 1]]
  /\ made = 0 /\ last = [to |-> Nothing, with |-> Nothing]
  /\ down = <<>> /\ up = <<>>
  /\ callback = "free" /\ received = NoChunk
  /\ worker = [at |-> "none", what |-> NoChunk] /\ alert = FALSE /\ sync = FALSE
  /\ chunked = FALSE /\ muddled = FALSE /\ overtaken = FALSE

Server == Reconnect \/ Disconnect \/ Wake \/ Write \/ Read \/ Join

Dll ==
  \/ DllConnect \/ DataReceived \/ CallbackReturns \/ WorkerWakes \/ Query \/ Reply
  \/ WriteComplete \/ \E len \in 1..MaxChunks : Deliver(len)

Caller(c) == Put(c) \/ Notified(c) \/ Copy(c)

Next ==
  \/ SessionDown \/ SessionUp
  \/ ServerStart \/ RequestStop
  \/ Server \/ Dll
  \/ \E c \in Callers : Caller(c) \/ \E len \in 1..MaxChunks : Check(c, len)

Spec == Init /\ [][Next]_vars

\* The threads run, and the agent at the other end answers.
Fairness == WF_vars(Server) /\ WF_vars(Dll) /\ WF_vars(\E c \in Callers : Caller(c))

FairSpec == Spec /\ Fairness

-----------------------------------------------------------------------------
(* What the relay promises.                                                 *)

WorkerStates == {"none", "wait", "query", "asking", "writing", "sent", "racing"}

ChunkType == [of : Requests \cup {Nothing, Junk}, len : 1..MaxChunks]

\* The type invariant.
TypeOK ==
  /\ session \in BOOLEAN /\ drops \in 0..MaxDrops
  /\ channel \in {"null", "open", "dead"}
  /\ events \subseteq {"reconnect", "disconnect", "end", "notify"}
  /\ exiting \in BOOLEAN /\ sendFlag \in BOOLEAN
  /\ sendPtr \in ChunkType /\ receiveBuf \in ChunkType
  /\ relay \in {"none", "wait", "write", "read", "ended"}
  /\ made \in 0..MaxCalls
  /\ call \in [Callers -> [at : {"idle", "checked", "waiting", "notified"}, of : Requests \cup {Nothing},
                           len : 1..MaxChunks]]
  /\ last \in [to : Requests \cup {Nothing}, with : Requests \cup {Nothing, Junk}]
  /\ down \in Seq(ChunkType) /\ up \in Seq(ChunkType)
  /\ callback \in {"free", "waiting"} /\ received \in ChunkType
  /\ worker \in [at : WorkerStates, what : ChunkType]
  /\ alert \in BOOLEAN /\ sync \in BOOLEAN
  /\ chunked \in BOOLEAN /\ muddled \in BOOLEAN /\ overtaken \in BOOLEAN

\* rdp_ssh_relay_main(): the two events say that something changed, not in which
\* order.  Once they are served the handle is that of the session there is,
\* unless the session came back before its end was noticed: then the new channel
\* is the one that is closed.
ChannelFollowsSession ==
  /\ relay = "wait" /\ events \cap {"reconnect", "disconnect"} = {} /\ ~overtaken
  => channel = IF session THEN "open" ELSE "null"

\* sendReceive(): sendPtr_ points into a vector of the caller.  What goes out on
\* a channel belongs to a caller that still waits, although sendFlag_ is never
\* cleared.
SendsLiveRequest ==
  /\ relay = "write" /\ channel = "open" /\ ~muddled
  => \E c \in Callers : call[c].at = "waiting" /\ sendPtr.of = call[c].of

\* The client's thread waits in its callback for the worker, which waits for
\* another callback of that thread: neither goes on before the session ends.
Frozen ==
  callback = "waiting" /\ ~sync /\ worker.at \in {"writing", "sent", "racing"}

\* VirtualChannelOpenEvent(): as long as every request and every answer is one
\* chunk, the client never stands still for its DLL, also when requests are left
\* while others are in work and sessions end in the midst of them.
ClientNotFrozen == ~chunked => ~Frozen

\* "wait for worker thread to read control", says VirtualChannelOpenEvent() of
\* its wait: a worker that gets there.  The second chunk of a request comes
\* while the worker answers the first one, and then it never does.
WorkerReads == ~Frozen

\* WaitForSingleObject(eventNotify_, INFINITE): a caller that is alone is told,
\* however the session ends, comes back or loses data.
CallsReturn ==
  \A c \in Callers : call[c].at = "waiting" ~> call[c].at = "idle" \/ muddled

(* The abstract signer, implemented.                                        *)

UnderWay == {call[c].of : c \in {d \in Callers : call[d].at # "idle"}}

Remote == INSTANCE RemoteCall WITH
  Garbage <- Junk, Spoilt <- TRUE,
  asked <- UnderWay,
  returned <- last

\* While calls come one at a time and every message is one chunk, a call returns
\* its own answer, or none, or what is in the buffer that was freed before it was
\* sent: whatever the session, the server and the client do meanwhile leaves no
\* answer behind for the next call.  Of calls that overlap, and of longer
\* messages, it says nothing.
ImplementsRemoteCall == Remote!Spec
=============================================================================
