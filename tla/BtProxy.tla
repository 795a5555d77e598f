------------------------------ MODULE BtProxy ------------------------------
(***************************************************************************)
(* The Bluetooth proxy: keys that are in an agent on a phone.              *)
(*                                                                         *)
(* A thread (bta_main() in bt_agent_proxy.cpp) owns the listening socket   *)
(* and the one connection.  It connects and disconnects when flags tell it *)
(* to, and hands what it receives to notify_func(), which leaves it in     *)
(* global variables.  The callers (bt_agent_proxy_main.cpp) set the flags, *)
(* send by themselves, and look at the global variables until they find    *)
(* what they wait for or the time is up.                                   *)
(*                                                                         *)
(* Requests and answers are cut into pieces: what one send() takes or one  *)
(* recv() gives is any number of them.                                     *)
(***************************************************************************)
EXTENDS Naturals, Integers, Sequences, SequencesExt

CONSTANTS
  Users,       \* the threads that sign for remote keys, or list them
  Devices,     \* the phones
  None,        \* no device, no request, no answer
  Garbled,     \* the pieces of no one answer
  TooLong,     \* the error of recv(), as a size
  Size,        \* how many pieces a request and an answer have
  MaxAsked,    \* bound of the model: the requests
  MaxLinks,    \* bound of the model: the connections
  MaxCuts      \* bound of the model: the user's disconnections

VARIABLES
  thread,      \* where bta_main() is: none, loop, connect, connected, notify, gone
  exitReq,     \* threadExitRequest_
  exitEvent,   \* hEventExit_
  connectReq,  \* connect_req_
  disconnReq,  \* disconnect_req_
  trying,      \* the device connect() is called for
  socket,      \* clientSocket_, by the device at its other end
  addr,        \* clientAddr_
  count,       \* connectedCount_
  pool,        \* send_pool_
  top,         \* send_top_
  finished,    \* connect_finish_flag
  result,      \* connect_result_flag
  cut,         \* disconnect_finish_flag
  arrived,    \* receive_event
  buffer,      \* receive_buf and receive_size
  writable,    \* FD_WRITE is due
  hungUp,      \* the device has closed the connection
  out, in,     \* pieces on their way to the device, and back
  calling,       \* where each caller is, and with what
  closing,     \* the main thread waits for a disconnection
  asks, links, cuts,  \* how many requests, connections, disconnections there were
  answered,    \* the call that returned last
  aborted,     \* the process has died of an exception
  confused,    \* history: see Stale
  crossed      \* history: the one connection was not handled as the one

flags == <<finished, result, cut>>
conn == <<socket, addr, count, writable, hungUp, out, in>>
sending == <<pool, top>>
requests == <<exitReq, exitEvent, connectReq, disconnReq>>
receiving == <<arrived, buffer>>
bounds == <<asks, links, cuts>>
callers == <<calling, answered, closing>>
btVars == <<thread, requests, trying, conn, sending, flags, receiving, callers, bounds,
          aborted, confused, crossed>>

Asked == 1..MaxAsked

ASSUME BtAssumption ==
  /\ Size \in Nat \ {0} /\ MaxAsked \in Nat /\ MaxLinks \in Nat /\ MaxCuts \in Nat
  /\ None \notin Asked \cup Devices /\ {Garbled, TooLong} \cap (Asked \cup {None}) = {}
  /\ Garbled # TooLong

Pieces(r) == [k \in 1..Size |-> [of |-> r, k |-> k]]

\* What the bytes of a receive are an answer to.
Meaning(bytes) ==
  IF \E r \in Asked : bytes = Pieces(r) THEN Head(bytes).of ELSE Garbled

Running == thread \notin {"none", "gone"} /\ ~aborted

Resting == \A u \in Users : calling[u].at = "idle"

-----------------------------------------------------------------------------
(* bt_agent_proxy_main_init(), bt_agent_proxy_main_exit().                   *)

\* A new bt_agent_proxy_impl_t; the global variables keep what they had, but for
\* connect_finish_flag.
Start ==
  /\ thread = "none"
  /\ thread' = "loop"
  /\ exitReq' = FALSE /\ exitEvent' = FALSE /\ connectReq' = None /\ disconnReq' = FALSE
  /\ socket' = None /\ addr' = None /\ count' = 0 /\ writable' = FALSE
  /\ hungUp' = FALSE /\ out' = <<>> /\ in' = <<>>
  /\ pool' = <<>> /\ top' = 0
  /\ finished' = FALSE
  /\ crossed' = FALSE
  /\ UNCHANGED <<trying, result, cut, receiving, callers, bounds, aborted, confused>>

\* agents_stop(): nobody uses the proxy any more.
RequestExit ==
  /\ Running /\ ~exitReq /\ Resting /\ ~closing
  /\ exitReq' = TRUE /\ exitEvent' = TRUE
  /\ UNCHANGED <<thread, connectReq, disconnReq, trying, conn, sending, flags, receiving,
                 callers, bounds, aborted, confused, crossed>>

JoinThread ==
  /\ thread = "gone"
  /\ thread' = "none"
  /\ UNCHANGED <<requests, trying, conn, sending, flags, receiving, callers, bounds,
                 aborted, confused, crossed>>

-----------------------------------------------------------------------------
(* bta_main()                                                               *)

\* Mutant of Drop: the connection still counts.
DropSocket ==
  /\ socket' = None /\ out' = <<>> /\ hungUp' = FALSE
  /\ UNCHANGED count

\* closesocket(), and one connection less.
Drop ==
  /\ socket' = None /\ out' = <<>> /\ hungUp' = FALSE
  /\ count' = count - 1

\* A new connection takes the place of whatever was there; FD_WRITE comes at once.
Take(d, a) ==
  /\ socket' = d /\ addr' = a /\ count' = count + 1
  /\ writable' = TRUE /\ hungUp' = FALSE /\ out' = <<>> /\ in' = <<>>
  /\ links' = links + 1

\* connect_i(): the result, whoever waits for one.
Notify(ok) == finished' = TRUE /\ result' = ok

\* disconnect_req_: what there is is closed, and also what there is not.
Disconnected ==
  IF disconnReq
  THEN /\ Drop /\ in' = <<>> /\ writable' = FALSE
       /\ disconnReq' = FALSE /\ cut' = TRUE
       /\ crossed' = (crossed \/ socket = None)
       /\ UNCHANGED addr
  ELSE UNCHANGED <<conn, disconnReq, cut, crossed>>

\* hEventExit_ is set: threadExitRequest_, connect_req_, disconnect_req_.
ObeyFlags ==
  /\ thread = "loop" /\ exitEvent /\ ~aborted
  /\ exitEvent' = FALSE
  /\ \/ exitReq /\ thread' = "gone" /\ UNCHANGED <<trying, conn, disconnReq, cut, crossed>>
     \/ /\ ~exitReq /\ connectReq # None
        /\ thread' = "connect" /\ trying' = connectReq
        /\ UNCHANGED <<conn, disconnReq, cut, crossed>>
     \/ /\ ~exitReq /\ connectReq = None
        /\ Disconnected
        /\ UNCHANGED <<thread, trying>>
  /\ UNCHANGED <<exitReq, connectReq, sending, finished, result, receiving, callers, bounds,
                 aborted, confused>>

\* connect() has returned.  The request may have been cancelled meanwhile, or
\* another one made.
ConnectReturns ==
  /\ thread = "connect" /\ ~aborted
  /\ thread' = "connected"
  /\ \/ connectReq = None /\ UNCHANGED <<conn, finished, result, links, crossed>>
     \/ /\ connectReq # None
        /\ Notify(FALSE) /\ UNCHANGED <<conn, links, crossed>>
     \/ /\ connectReq # None /\ links < MaxLinks
        /\ Take(trying, connectReq) /\ Notify(TRUE)
        /\ crossed' = (crossed \/ count # 0 \/ connectReq # trying)
  /\ UNCHANGED <<requests, trying, sending, cut, receiving, callers, asks, cuts, aborted,
                 confused>>

\* connect_req_ = 0, and with it a request made since; then disconnect_req_.
Forget ==
  /\ thread = "connected" /\ ~aborted
  /\ thread' = "loop" /\ connectReq' = None /\ trying' = None
  /\ Disconnected
  /\ UNCHANGED <<exitReq, exitEvent, sending, finished, result, receiving, callers, bounds,
                 aborted, confused>>

\* A device connects to us; one is enough.
Accept(d) ==
  /\ thread = "loop" /\ ~exitEvent /\ ~aborted
  /\ IF count > 0
     THEN Notify(FALSE) /\ UNCHANGED <<conn, links>>
     ELSE links < MaxLinks /\ Take(d, d) /\ Notify(TRUE)
  /\ UNCHANGED <<thread, requests, trying, sending, cut, receiving, callers, asks, cuts,
                 aborted, confused, crossed>>

\* What the connection has to tell: FD_CLOSE, FD_READ, FD_WRITE, in this order.
\* After a close, recv() fails, and -1 is taken for a size.
Client ==
  /\ thread = "loop" /\ ~exitEvent /\ ~aborted
  /\ count > 0 /\ socket # None
  /\ hungUp \/ in # <<>> \/ writable
  /\ IF hungUp
     THEN Drop /\ addr' = None ELSE UNCHANGED <<socket, addr, count, out, hungUp>>
  /\ \/ in = <<>> /\ UNCHANGED <<thread, buffer, confused, in>>
     \/ /\ in # <<>> /\ hungUp
        /\ buffer' = TooLong /\ in' = <<>> /\ thread' = "notify" /\ UNCHANGED confused
     \/ /\ in # <<>> /\ ~hungUp
        /\ \E n \in 1..Len(in) :
             /\ in' = SubSeq(in, n + 1, Len(in))
             /\ buffer' = Meaning(SubSeq(in, 1, n))
             /\ confused' = (confused \/ n < Size)
        /\ thread' = "notify"
  /\ writable' = FALSE
  /\ pool' = IF writable THEN <<>> ELSE pool
  /\ UNCHANGED <<requests, trying, top, flags, arrived, callers, bounds, aborted, crossed>>

\* notify_func(), for what was received.
Arrive ==
  /\ thread = "notify" /\ ~aborted
  /\ arrived' = TRUE /\ thread' = "loop"
  /\ UNCHANGED <<requests, trying, conn, sending, flags, buffer, callers, bounds, aborted,
                 confused, crossed>>

-----------------------------------------------------------------------------
(* The devices.                                                             *)

\* A request that is there in full is answered.
DeviceAnswers ==
  /\ socket # None /\ ~hungUp
  /\ \E r \in Asked :
       /\ Len(out) >= Size /\ SubSeq(out, 1, Size) = Pieces(r)
       /\ in' = in \o Pieces(r)
  /\ out' = SubSeq(out, Size + 1, Len(out))
  /\ UNCHANGED <<thread, requests, trying, socket, addr, count, writable, hungUp, sending,
                 flags, receiving, callers, bounds, aborted, confused, crossed>>

\* A device goes away, whatever it has still sent.
HangUp ==
  /\ socket # None /\ ~hungUp
  /\ hungUp' = TRUE /\ out' = <<>>
  /\ UNCHANGED <<thread, requests, trying, socket, addr, count, writable, in, sending,
                 flags, receiving, callers, bounds, aborted, confused, crossed>>

-----------------------------------------------------------------------------
(* The callers: signer(), bt_agent_proxy_main_get_key().                     *)

\* Something of an earlier request may still be taken for a part of this one, or
\* of its answer.
Stale == pool # <<>> \/ out # <<>> \/ in # <<>> \/ top # 0 \/ thread = "notify"

Goes(u, at) == calling' = [calling EXCEPT ![u].at = at]

\* bt_agent_proxy_main_connect(): a device that the last inquiry found connected,
\* to whatever, is left as it is, so that it makes no difference here which one the
\* request is for; one that it found is connected to.
Call(u) ==
  /\ Running /\ ~exitReq /\ calling[u].at = "idle" /\ asks < MaxAsked
  /\ asks' = asks + 1
  /\ calling' = [calling EXCEPT ![u] = [at |-> "ready", r |-> asks']]
  /\ confused' = ~Resting
  /\ UNCHANGED <<thread, requests, trying, conn, sending, flags, receiving, answered, closing,
                 links, cuts, aborted, crossed>>

Connect(u, d) ==
  /\ Running /\ ~exitReq /\ calling[u].at = "idle" /\ asks < MaxAsked
  /\ asks' = asks + 1
  /\ calling' = [calling EXCEPT ![u] = [at |-> "connecting", r |-> asks']]
  /\ connectReq' = d /\ exitEvent' = TRUE
  /\ confused' = ~Resting
  /\ UNCHANGED <<thread, exitReq, disconnReq, trying, conn, sending, flags, receiving,
                 answered, closing, links, cuts, aborted, crossed>>

\* connect_finish_flag, whoever's it is.
Finished(u) ==
  /\ calling[u].at = "connecting" /\ finished /\ ~aborted
  /\ finished' = FALSE
  /\ Goes(u, "looking")
  /\ UNCHANGED <<thread, requests, trying, conn, sending, result, cut, receiving, answered,
                 closing, bounds, aborted, confused, crossed>>

\* bta_connect_request_cancel()
TimeUp(u) ==
  /\ calling[u].at = "connecting" /\ ~aborted
  /\ connectReq' = None /\ result' = FALSE
  /\ Goes(u, "looking")
  /\ UNCHANGED <<thread, exitReq, exitEvent, disconnReq, trying, conn, sending, finished, cut,
                 receiving, answered, closing, bounds, aborted, confused, crossed>>

Returns(u, answer) ==
  /\ Goes(u, "idle")
  /\ answered' = [to |-> calling[u].r, with |-> answer]

\* connect_result_flag is looked at after the wait for it.
Look(u) ==
  /\ calling[u].at = "looking" /\ ~aborted
  /\ IF result THEN Goes(u, "ready") /\ UNCHANGED answered ELSE Returns(u, None)
  /\ UNCHANGED <<thread, requests, trying, conn, sending, flags, receiving, closing, bounds,
                 aborted, confused, crossed>>

\* bta_send(): the request joins the pool, and send() takes what it can of it.
\* Nothing sends the rest.  When send() fails, the request stays.  send_top_ may be
\* that of a pool that is gone: then it may be at the end, and there is nothing to
\* send.
Send(u) ==
  LET all == pool \o Pieces(calling[u].r)
  IN /\ calling[u].at = "ready" /\ ~aborted
     /\ arrived' = FALSE
     /\ \/ /\ pool' = all
           /\ Returns(u, None)
           /\ UNCHANGED <<top, out, confused>>
        \/ /\ socket # None /\ top <= Len(all)
           /\ \E n \in (IF top = Len(all) THEN {0} ELSE 1..(Len(all) - top)) :
                /\ out' = IF hungUp THEN out ELSE out \o SubSeq(all, top + 1, top + n)
                /\ IF top + n = Len(all) THEN pool' = <<>> /\ top' = 0
                                         ELSE pool' = all /\ top' = top + n
                /\ confused' = (confused \/ Stale \/ top + n < Len(all))
           /\ Goes(u, "waiting") /\ UNCHANGED answered
     /\ UNCHANGED <<thread, requests, trying, socket, addr, count, writable, hungUp, in, flags,
                    buffer, closing, bounds, aborted, crossed>>

\* bt_agent_proxy_main_handle_msg(): the answer.  A vector of size -1 cannot be.
Answered(u) ==
  /\ calling[u].at = "waiting" /\ arrived /\ ~aborted
  /\ IF buffer = TooLong
     THEN aborted' = TRUE /\ UNCHANGED <<calling, answered>>
     ELSE Returns(u, buffer) /\ UNCHANGED aborted
  /\ UNCHANGED <<thread, requests, trying, conn, sending, flags, receiving, closing, bounds,
                 confused, crossed>>

\* The time-out; the answer may still come.
GiveUp(u) ==
  /\ calling[u].at = "waiting" /\ ~arrived /\ ~aborted
  /\ Returns(u, None)
  /\ UNCHANGED <<thread, requests, trying, conn, sending, flags, receiving, closing, bounds,
                 aborted, confused, crossed>>

\* The user disconnects a device that the last inquiry found connected; the main
\* thread waits for it without a time-out.
UserDisconnects ==
  /\ Running /\ ~exitReq /\ ~closing /\ cuts < MaxCuts
  /\ cut' = FALSE /\ disconnReq' = TRUE /\ exitEvent' = TRUE
  /\ closing' = TRUE /\ cuts' = cuts + 1
  /\ UNCHANGED <<thread, exitReq, connectReq, trying, conn, sending, finished, result,
                 receiving, calling, answered, asks, links, aborted, confused, crossed>>

Closed ==
  /\ closing /\ cut /\ ~aborted
  /\ closing' = FALSE
  /\ UNCHANGED <<thread, requests, trying, conn, sending, flags, receiving, calling, answered,
                 bounds, aborted, confused, crossed>>

-----------------------------------------------------------------------------

BtInit ==
  /\ thread = "none" /\ exitReq = FALSE /\ exitEvent = FALSE
  /\ connectReq = None /\ disconnReq = FALSE /\ trying = None
  /\ socket = None /\ addr = None /\ count = 0 /\ pool = <<>> /\ top = 0
  /\ finished = FALSE /\ result = FALSE /\ cut = FALSE
  /\ arrived = FALSE /\ buffer = None
  /\ writable = FALSE /\ hungUp = FALSE /\ out = <<>> /\ in = <<>>
  /\ calling = [u \in Users |-> [at |-> "idle", r |-> None]]
  /\ closing = FALSE /\ asks = 0 /\ links = 0 /\ cuts = 0
  /\ answered = [to |-> None, with |-> None]
  /\ aborted = FALSE /\ confused = FALSE /\ crossed = FALSE

Worker == ObeyFlags \/ ConnectReturns \/ Forget \/ Client \/ Arrive

User(u) == Finished(u) \/ TimeUp(u) \/ Look(u) \/ Send(u) \/ Answered(u) \/ GiveUp(u)

BtNext ==
  \/ Start \/ RequestExit \/ JoinThread
  \/ Worker
  \/ \E d \in Devices : Accept(d)
  \/ DeviceAnswers \/ HangUp
  \/ UserDisconnects \/ Closed
  \/ \E u \in Users : User(u) \/ Call(u) \/ \E d \in Devices : Connect(u, d)

\* bta_main() runs, and connect() returns.
BtFairSpec == BtInit /\ [][BtNext]_btVars /\ WF_btVars(Worker) /\ WF_btVars(Closed)

-----------------------------------------------------------------------------

(* What the proxy promises.                                                 *)

Bytes == [of : Asked, k : 1..Size]

\* The type invariant.
BtTypeOK ==
  /\ thread \in {"none", "loop", "connect", "connected", "notify", "gone"}
  /\ {exitReq, exitEvent, disconnReq, finished, result, cut, arrived, writable, hungUp,
      closing, aborted, confused, crossed} \subseteq BOOLEAN
  /\ {connectReq, trying, socket, addr} \subseteq Devices \cup {None}
  /\ count \in -MaxCuts..MaxLinks
  /\ pool \in Seq(Bytes) /\ out \in Seq(Bytes) /\ in \in Seq(Bytes) /\ top \in Nat
  /\ buffer \in Asked \cup {None, Garbled, TooLong}
  /\ calling \in [Users -> [at : {"idle", "connecting", "looking", "ready", "waiting"},
                          r : Asked \cup {None}]]
  /\ answered \in [to : Asked \cup {None}, with : Asked \cup {None, Garbled}]

\* "One client for now" (bt_agent_proxy.cpp:631): connectedCount_ decides whether
\* bta_main() listens to the connection at all, and whether it takes another.  It
\* counts the one there is, and clientAddr_ is its device, whoever connected and
\* whoever hung up; but not if a connection was made over another, or for a
\* request that was cancelled and replaced, or if there was none to disconnect.
OneClient ==
  ~crossed => /\ count = IF socket = None THEN 0 ELSE 1
              /\ socket # None => addr = socket

\* bt_agent_proxy_main_disconnect() has no time-out and blocks the main thread:
\* the worker always answers it, also with a connect() or a request under way.
DisconnectionEnds == closing ~> ~closing \/ aborted

(* The abstract signer, implemented.                                        *)

BtUnderWay == {calling[u].r : u \in {v \in Users : calling[v].at # "idle"}}

BtRemote == INSTANCE RemoteCall WITH
  Requests <- Asked, Nothing <- None,
  Garbage <- Garbled, Spoilt <- FALSE,
  muddled <- confused,
  asked <- BtUnderWay,
  returned <- answered

\* A call returns the answer to its own request or none, unless something of an
\* earlier one was under way or left in a buffer when it was sent, or the answer
\* came in pieces, or another call overlapped it.  It may come after the time-out,
\* with its connection gone and another in its place; and it is that of the device
\* at the other end, which need not be the one the call is for: what an inquiry found
\* connected is connected to Windows, and the one socket may be another's (Call).
BtImplementsRemoteCall == BtRemote!Spec
=============================================================================
