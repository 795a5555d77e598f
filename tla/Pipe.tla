-------------------------------- MODULE Pipe --------------------------------
(***************************************************************************)
(* The agent on a named pipe, for the ssh of Windows: the thread of        *)
(* ssh-agent_ms.cpp, the one instance of its pipe, and the main thread     *)
(* that starts and stops it.                                               *)
(*                                                                         *)
(* Bytes are counted in pieces, as in SockServer: the first piece of a     *)
(* request holds its length.  The pipe is external: a client takes the     *)
(* instance when it listens, what a client has sent can be read after it   *)
(* left, and FlushFileBuffers() returns when the client has read all or    *)
(* left.                                                                   *)
(***************************************************************************)
EXTENDS Integers, Sequences

CONSTANTS
  PipeClients,     \* the connections that clients try to make
  Nobody,
  RequestLength,   \* in pieces
  DataRoom,        \* szData, in pieces
  PipeRequests,    \* bound: the requests of one client
  PipeStarts       \* bound: how often the pipe is started

ASSUME PipeAssumption ==
  /\ RequestLength \in Nat \ {0} /\ DataRoom \in Nat /\ DataRoom >= RequestLength
  /\ PipeRequests \in Nat /\ PipeStarts \in Nat /\ Nobody \notin PipeClients

VARIABLES
  instance,        \* hPipe: none, listening, taken by a client, or disconnected
  taker,           \* the client that has it
  early,           \* it came before ConnectNamedPipe() waited for it
  thread,          \* what pipe_main() is at
  control,         \* hEventControl
  szData,          \* what has been read of a request
  owed,            \* the request whose answer is being written
  client,          \* the other end of each connection
  sent,            \* what it has sent and nobody has read
  lastSent,        \* the last piece of it
  hasty,           \* history: clients that did not wait for an answer
  answers,         \* the requests whose answers were written to each
  starts

clientEnd == <<client, sent, lastSent, hasty>>
pipeVars == <<instance, taker, early, thread, control, szData, owed, client, sent, lastSent, hasty,
              answers, starts>>

NothingSent == [n |-> 0, k |-> RequestLength]

PipeInit ==
  /\ instance = "none" /\ taker = Nobody /\ early = FALSE /\ thread = "none" /\ control = FALSE
  /\ szData = <<>> /\ owed = 0 /\ starts = 0
  /\ client = [c \in PipeClients |-> "away"] /\ sent = [c \in PipeClients |-> <<>>]
  /\ lastSent = [c \in PipeClients |-> NothingSent]
  /\ hasty = {} /\ answers = [c \in PipeClients |-> <<>>]

-----------------------------------------------------------------------------
(* The clients.                                                             *)

\* As soon as the instance is made, whether or not ConnectNamedPipe() was called.
OpenPipe(c) ==
  /\ client[c] = "away" /\ instance = "listening"
  /\ client' = [client EXCEPT ![c] = "open"]
  /\ instance' = "taken" /\ taker' = c /\ early' = (thread = "connect")
  /\ UNCHANGED <<thread, control, szData, owed, sent, lastSent, hasty, answers, starts>>

\* The next piece of a request, or the first of another.
WritePiece(c) ==
  /\ client[c] = "open"
  /\ LET new == lastSent[c].k = RequestLength
         piece == IF new THEN [n |-> lastSent[c].n + 1, k |-> 1] ELSE [lastSent[c] EXCEPT !.k = @ + 1]
     IN /\ piece.n <= PipeRequests
        /\ lastSent' = [lastSent EXCEPT ![c] = piece]
        /\ sent' = [sent EXCEPT ![c] = Append(@, piece)]
        /\ hasty' = IF new /\ Len(answers[c]) < lastSent[c].n THEN hasty \cup {c} ELSE hasty
  /\ UNCHANGED <<instance, taker, early, thread, control, szData, owed, client, answers, starts>>

LeavePipe(c) ==
  /\ client[c] = "open"
  /\ client' = [client EXCEPT ![c] = "left"]
  /\ UNCHANGED <<instance, taker, early, thread, control, szData, owed, sent, lastSent, hasty, answers,
                 starts>>

-----------------------------------------------------------------------------
(* pipe_main().                                                             *)

\* A client that is there already makes the call return, and nobody sets the event
\* that it is waited for with.
ConnectNamedPipe ==
  /\ thread = "connect"
  /\ thread' = "waiting"
  /\ instance' = IF instance = "taken" THEN "taken" ELSE "listening"
  /\ UNCHANGED <<taker, early, control, szData, owed, clientEnd, answers, starts>>

Connected ==
  /\ thread = "waiting" /\ instance = "taken" /\ ~early /\ ~control
  /\ thread' = "read"
  /\ UNCHANGED <<instance, taker, early, control, szData, owed, clientEnd, answers, starts>>

\* Is what was read a request?  What starts in the middle of one may say anything.
Whole(data) == IF data[1].k = 1 THEN {Len(data) >= RequestLength} ELSE BOOLEAN
RequestRead == IF szData[1].k = 1 THEN szData[1].n ELSE 0

\* Mutant of ReadSome: one more byte than the request has is waited for.
ReadSomeMore(size) ==
  /\ thread = "read" /\ size <= Len(sent[taker]) /\ Len(szData) + size <= DataRoom
  /\ LET data == szData \o SubSeq(sent[taker], 1, size)
     IN /\ szData' = data
        /\ \E whole \in Whole(data) :
             thread' = IF whole /\ Len(data) > RequestLength THEN "handle" ELSE "read"
  /\ sent' = [sent EXCEPT ![taker] = SubSeq(@, size + 1, Len(@))]
  /\ UNCHANGED <<instance, taker, early, control, owed, client, lastSent, hasty, answers, starts>>

\* Mutant of ReadSome: as much is read as the whole buffer has room for.
ReadSomeBeyond(size) ==
  /\ thread = "read" /\ size <= Len(sent[taker])
  /\ LET data == szData \o SubSeq(sent[taker], 1, size)
     IN /\ szData' = data
        /\ \E whole \in Whole(data) : thread' = IF whole THEN "handle" ELSE "read"
  /\ sent' = [sent EXCEPT ![taker] = SubSeq(@, size + 1, Len(@))]
  /\ UNCHANGED <<instance, taker, early, control, owed, client, lastSent, hasty, answers, starts>>

ReadSome(size) ==
  /\ thread = "read" /\ size <= Len(sent[taker]) /\ Len(szData) + size <= DataRoom
  /\ LET data == szData \o SubSeq(sent[taker], 1, size)
     IN /\ szData' = data
        /\ \E whole \in Whole(data) : thread' = IF whole THEN "handle" ELSE "read"
  /\ sent' = [sent EXCEPT ![taker] = SubSeq(@, size + 1, Len(@))]
  /\ UNCHANGED <<instance, taker, early, control, owed, client, lastSent, hasty, answers, starts>>

\* Mutant of Disconnect: the client of before leaves its bytes to the next.
DisconnectKeepingData ==
  /\ instance' = "disconnected" /\ taker' = Nobody /\ thread' = "connect"
  /\ client' = [client EXCEPT ![taker] = "closed"] /\ sent' = [sent EXCEPT ![taker] = <<>>]
  /\ UNCHANGED <<early, control, szData, owed, lastSent, hasty, answers, starts>>

\* cleanup: the client goes, and what it had sent.
Disconnect ==
  /\ instance' = "disconnected" /\ taker' = Nobody /\ thread' = "connect"
  /\ client' = [client EXCEPT ![taker] = "closed"] /\ sent' = [sent EXCEPT ![taker] = <<>>]
  /\ szData' = <<>>
  /\ UNCHANGED <<early, control, owed, lastSent, hasty, answers, starts>>

\* Half a second without a byte; or the end of the stream; or no room for more.
TimeOut == thread = "read" /\ sent[taker] = <<>> /\ client[taker] = "open" /\ Disconnect
Broken == thread = "read" /\ sent[taker] = <<>> /\ client[taker] = "left" /\ Disconnect
NoRoom == thread = "read" /\ Len(szData) = DataRoom /\ Disconnect

\* pageant_handle_msg() gets all that was read; what follows the request is lost.
Handle ==
  /\ thread = "handle"
  /\ thread' = "length" /\ owed' = RequestRead /\ szData' = <<>>
  /\ UNCHANGED <<instance, taker, early, control, clientEnd, answers, starts>>

\* Four bytes, and then the rest: each is waited for until the client has read it,
\* or left.  Nobody looks at what became of it.
WriteLength ==
  /\ thread = "length"
  /\ thread' = "rest"
  /\ UNCHANGED <<instance, taker, early, control, szData, owed, clientEnd, answers, starts>>

WriteRest ==
  /\ thread = "rest"
  /\ answers' = [answers EXCEPT ![taker] = Append(@, owed)]
  /\ thread' = "read" /\ owed' = 0
  /\ UNCHANGED <<instance, taker, early, control, szData, clientEnd, starts>>

\* The event is looked at whenever the thread waits.  GetLastError() may still say
\* that the read before this was pending: then it waits for one that is done.
SeeControl ==
  /\ thread \in {"waiting", "read"} /\ control
  /\ thread' = "off"
  /\ UNCHANGED <<instance, taker, early, control, szData, owed, clientEnd, answers, starts>>

-----------------------------------------------------------------------------
(* The main thread.                                                         *)

pipe_th_start ==
  /\ thread = "none" /\ starts < PipeStarts
  /\ instance' = "listening" /\ thread' = "connect" /\ control' = FALSE /\ starts' = starts + 1
  /\ UNCHANGED <<taker, early, szData, owed, clientEnd, answers>>

pipe_th_stop ==
  /\ thread # "none" /\ ~control
  /\ control' = TRUE
  /\ UNCHANGED <<instance, taker, early, thread, szData, owed, clientEnd, answers, starts>>

\* Mutant of Stopped: the thread is not joined.
StoppedUnjoined ==
  /\ thread # "none" /\ control
  /\ thread' = "none" /\ instance' = "none" /\ taker' = Nobody /\ early' = FALSE /\ szData' = <<>>
  /\ client' = [c \in PipeClients |-> IF c = taker THEN "closed" ELSE client[c]]
  /\ sent' = [c \in PipeClients |-> IF c = taker THEN <<>> ELSE sent[c]]
  /\ UNCHANGED <<control, owed, lastSent, hasty, answers, starts>>

\* It has joined the thread, and closes the pipe.
Stopped ==
  /\ thread = "off"
  /\ thread' = "none" /\ instance' = "none" /\ taker' = Nobody /\ early' = FALSE /\ szData' = <<>>
  /\ client' = [c \in PipeClients |-> IF c = taker THEN "closed" ELSE client[c]]
  /\ sent' = [c \in PipeClients |-> IF c = taker THEN <<>> ELSE sent[c]]
  /\ UNCHANGED <<control, owed, lastSent, hasty, answers, starts>>

PipeThread ==
  \/ ConnectNamedPipe \/ Connected \/ (\E size \in 1..DataRoom : ReadSome(size)) \/ Broken \/ NoRoom
  \/ Handle \/ SeeControl \/ Stopped

PipeNext ==
  \/ \E c \in PipeClients : OpenPipe(c) \/ WritePiece(c) \/ LeavePipe(c)
  \/ PipeThread \/ TimeOut \/ WriteLength \/ WriteRest
  \/ pipe_th_start \/ pipe_th_stop

\* The thread runs, and the request handler returns.  Nobody makes a client read,
\* or a clock tick.
PipeOwes == PipeThread \/ (taker # Nobody /\ client[taker] = "left" /\ (WriteLength \/ WriteRest))

PipeSpec == PipeInit /\ [][PipeNext]_pipeVars /\ WF_pipeVars(PipeOwes)

-----------------------------------------------------------------------------
(* What the transport promises.                                             *)

\* Values keep their types, and the thread works for a client as long as it is
\* connected.
PipeTypeOK ==
  LET pieces == Seq([n : 1..PipeRequests, k : 1..RequestLength])
  IN /\ instance \in {"none", "listening", "taken", "disconnected"}
     /\ taker \in PipeClients \cup {Nobody} /\ (taker # Nobody <=> instance = "taken")
     /\ thread \in {"none", "connect", "waiting", "read", "handle", "length", "rest", "off"}
     /\ thread \in {"read", "handle", "length", "rest"} => taker # Nobody
     /\ early \in BOOLEAN /\ control \in BOOLEAN
     /\ szData \in pieces /\ Len(szData) <= DataRoom /\ owed \in 0..PipeRequests
     /\ client \in [PipeClients -> {"away", "open", "left", "closed"}]
     /\ sent \in [PipeClients -> pieces]
     /\ hasty \subseteq PipeClients /\ answers \in [PipeClients -> Seq(0..PipeRequests)]

\* A client that waits for each answer before it asks again gets the answer of its
\* n-th request as the n-th, whatever was split, dropped or left over of another's.
PipeAnswersInStep ==
  \A c \in PipeClients \ hasty : answers[c] = [n \in DOMAIN answers[c] |-> n]

\* A request that has arrived in full is answered, for as long as its client
\* listens: neither the time-out nor a stop that is not asked for is in the way,
\* only a connection made before the thread waited for it, which keeps the one
\* instance from all who come later, too, until a stop.
ArrivedInPipe(c, n) ==
  /\ taker = c /\ c \notin hasty
  /\ LET all == szData \o sent[c]
     IN all # <<>> /\ all[1].n = n /\ Len(all) = RequestLength

PipeServes ==
  \A c \in PipeClients, n \in 1..PipeRequests :
    ArrivedInPipe(c, n) ~> \/ n \in {answers[c][i] : i \in DOMAIN answers[c]}
                           \/ taker = c /\ owed = n
                           \/ client[c] = "left" \/ c \in hasty \/ early \/ control

\* The abstract transport that SockServer implements is implemented here too.
PipePhase(c) ==
  CASE client[c] = "away" -> [at |-> "away", n |-> 0]
    [] taker = c /\ thread = "handle" -> [at |-> "busy", n |-> RequestRead]
    [] taker = c /\ thread \in {"length", "rest"} -> [at |-> "owed", n |-> owed]
    [] client[c] = "closed" -> [at |-> "gone", n |-> 0]
    [] OTHER -> [at |-> "idle", n |-> 0]

PipePort == INSTANCE AgentPort WITH Conns <- PipeClients, MaxRequests <- PipeRequests,
              phase <- [c \in PipeClients |-> PipePhase(c)], got <- answers

\* One request at a time is with the handler, its answer goes once and only to the
\* client that asked, and no client is given up while the handler works for it, not
\* even by the stop of the pipe.
PipeImplementsPort == PipePort!Spec
=============================================================================
