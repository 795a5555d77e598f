----------------------------- MODULE SockServer -----------------------------
(***************************************************************************)
(* The socket transports of pageant+: the select() loop of sock_server.c,  *)
(* the agent's handler of its notifications (ssh-agent_emu.cpp) and the    *)
(* handshake of cygwin's unix domain sockets (ud_socket.c).                *)
(*                                                                         *)
(* One thread runs the loop.  It waits in select() for the sockets it      *)
(* watches, works through what was ready, a slot at a time, and runs the   *)
(* request handler (module Agent) in the middle of it.  The clients go on  *)
(* meanwhile.  Bytes are counted in pieces: the first piece of a request   *)
(* holds its length.                                                       *)
(***************************************************************************)
EXTENDS Integers, Sequences, FiniteSets

CONSTANTS
  Conns,        \* the connections clients make
  NoConn,       \* "no connection"
  SlotCount,    \* accept_count, the size of server_list
  Lengths,      \* how many pieces a request may have
  Chunk,        \* RECV_BUF_SIZE, in pieces
  ReplyLength,  \* how many pieces an answer has
  Cygwin,       \* SOCK_SERVER_TYPE_UNIXDOMAIN: a connection starts with a handshake
  MaxRequests   \* bound of the model: the requests of one connection

Slots == 1..SlotCount

ASSUME SizeAssumption ==
  /\ SlotCount \in Nat \ {0} /\ Chunk \in Nat \ {0} /\ ReplyLength \in Nat \ {0}
  /\ Lengths \subseteq Nat \ {0} /\ MaxRequests \in Nat
  /\ Cygwin \in BOOLEAN /\ NoConn \notin Conns

VARIABLES
  peer,      \* the client's end of each connection
  greeted,   \* what the client has sent of the handshake
  stream,    \* what it has sent since, and the server has not received
  last,      \* the last piece it has sent
  eager,     \* history: it sent a request without waiting for an answer
  stalled,   \* clients that do not read
  got,       \* the answers each client has received in full
  backlog,   \* connections waiting for accept()
  slot,      \* server_list, with the handler's data of each connection
  loop,      \* where the loop is, and what select() found ready
  exit       \* exit_requet_flag

clientVars == <<peer, greeted, stream, last, eager, stalled>>
vars == <<peer, greeted, stream, last, eager, stalled, got, backlog, slot, loop, exit>>

\* A piece of the n-th request of a connection, the k-th of len.
Piece == [n : 1..MaxRequests, k : Nat, len : Lengths]
NoPiece == [n |-> 0, k |-> 0, len |-> 0]

-----------------------------------------------------------------------------
(* The clients.                                                             *)

InSlot(c) == \E i \in Slots : slot[i].avail /\ slot[i].conn = c

Connect(c) ==
  /\ peer[c] = "away" /\ loop.at # "stopped"
  /\ peer' = [peer EXCEPT ![c] = "open"]
  /\ backlog' = Append(backlog, c)
  /\ UNCHANGED <<greeted, stream, last, eager, stalled, got, slot, loop, exit>>

\* The 16 bytes of the socket file, or others; then, once they came back, 12
\* more, or another number of them.
Greet(c) ==
  /\ Cygwin /\ peer[c] = "open"
  /\ \/ greeted[c] = "none" /\ \E g \in {"guid", "other"} : greeted' = [greeted EXCEPT ![c] = g]
     \/ /\ greeted[c] = "guid" /\ loop.at = "ids" /\ loop.new = c
        /\ \E g \in {"ids", "other"} : greeted' = [greeted EXCEPT ![c] = g]
  /\ UNCHANGED <<peer, stream, last, eager, stalled, got, backlog, slot, loop, exit>>

\* The next piece of a request, or the first of the next one.
SendPiece(c, len) ==
  /\ peer[c] = "open" /\ (Cygwin => InSlot(c))
  /\ LET new == last[c].k = last[c].len
         p   == IF new THEN [n |-> last[c].n + 1, k |-> 1, len |-> len]
                       ELSE [last[c] EXCEPT !.k = @ + 1]
     IN /\ p.n <= MaxRequests /\ p.len = len
        /\ last' = [last EXCEPT ![c] = p]
        /\ stream' = [stream EXCEPT ![c] = Append(@, p)]
        /\ eager' = IF new /\ Len(got[c]) < last[c].n THEN eager \cup {c} ELSE eager
  /\ UNCHANGED <<peer, greeted, stalled, got, backlog, slot, loop, exit>>

Leave(c, how) ==
  /\ peer[c] = "open"
  /\ peer' = [peer EXCEPT ![c] = how]
  /\ stream' = IF how = "reset" THEN [stream EXCEPT ![c] = <<>>] ELSE stream
  /\ UNCHANGED <<greeted, last, eager, stalled, got, backlog, slot, loop, exit>>

\* The client stops reading what it is sent, or goes on.
Stall(c) ==
  /\ peer[c] = "open"
  /\ \/ /\ \E i \in Slots : slot[i].conn = c /\ slot[i].send > 0
        /\ stalled' = stalled \cup {c}
     \/ c \in stalled /\ stalled' = stalled \ {c}
  /\ UNCHANGED <<peer, greeted, stream, last, eager, got, backlog, slot, loop, exit>>

-----------------------------------------------------------------------------
(* The slots, and what the agent's handler makes of a notification.         *)

FreeSlot ==
  [ avail |-> FALSE, conn |-> NoConn, room |-> 0, send |-> 0, timer |-> "off",
    buf |-> <<>>, size |-> 0, left |-> 0, n |-> 0 ]

\* SS_NOTIFY_CONNECT
Connected(c) ==
  [ avail |-> TRUE, conn |-> c, room |-> Chunk, send |-> 0, timer |-> "set",
    buf |-> <<>>, size |-> Chunk, left |-> Chunk, n |-> 0 ]

\* Is the request in the buffer complete?  A buffer that starts in the middle
\* of a request may say anything.
Complete(buf) ==
  IF buf[1].k = 1 THEN {Len(buf) >= buf[1].len} ELSE BOOLEAN

\* The request a buffer holds, 0 if it is none the client ever sent.
RequestIn(buf) == IF buf[1].k = 1 THEN buf[1].n ELSE 0

\* Mutant of Received: the next bytes may come while the handler's answer is
\* still being sent.
ReceivedAndReceiving(s, pieces, whole) ==
  LET full == s.left = Len(pieces)
      left == IF full THEN Chunk ELSE s.left - Len(pieces)
      buf  == s.buf \o pieces
  IN [s EXCEPT !.buf = buf, !.left = left, !.size = IF full THEN @ + Chunk ELSE @,
               !.room = left, !.timer = "set", !.n = IF whole THEN RequestIn(buf) ELSE @]

\* SS_NOTIFY_RECV: the buffer grows when it is full, and nothing is received
\* while a request is with the handler or its answer on the way.
Received(s, pieces, whole) ==
  LET full == s.left = Len(pieces)
      left == IF full THEN Chunk ELSE s.left - Len(pieces)
      buf  == s.buf \o pieces
  IN [s EXCEPT !.buf = buf, !.left = left, !.size = IF full THEN @ + Chunk ELSE @,
               !.room = IF whole THEN 0 ELSE left, !.timer = "set",
               !.n = IF whole THEN RequestIn(buf) ELSE @]

\* Mutant of Sent: left_size is not reset.
SentKeepsCount(s) ==
  [s EXCEPT !.buf = <<>>, !.room = s.size, !.send = 0, !.n = 0]

\* SS_NOTIFY_SEND: the buffer is used from its start again.
Sent(s) ==
  [s EXCEPT !.buf = <<>>, !.left = s.size, !.room = s.size, !.send = 0, !.n = 0]

\* Mutant of Flushed: receiving goes on at the start of the buffer.
FlushedAndReceiving(s) ==
  [s EXCEPT !.buf = <<>>, !.left = s.size, !.room = s.size, !.timer = "set"]

\* SS_NOTIFY_TIMEOUT with something received: the data goes.  call_server()
\* hands the handler no receive buffer, and takes it that there is none.
Flushed(s) == [s EXCEPT !.buf = <<>>, !.left = s.size, !.room = 0, !.timer = "set"]

\* close_server(): the slot keeps the number of the socket.
Closed(s) == [s EXCEPT !.avail = FALSE, !.room = 0, !.send = 0, !.timer = "off",
                       !.buf = <<>>, !.size = 0, !.left = 0, !.n = 0]

-----------------------------------------------------------------------------
(* sock_server_main()                                                       *)

At(l) == loop.at = l

Waiting == [at |-> "select", i |-> 0, rd |-> {}, wr |-> {}, new |-> NoConn]

\* Mutant of Turn: one slot, and then select() again.
TurnOfOne(i, rd, wr, s) ==
  LET due == {j \in i+1..SlotCount : s[j].avail /\ s[j].conn \in rd \cup wr}
      j   == CHOOSE j \in due : \A k \in due : j <= k
  IN IF due = {} \/ i # 0 THEN Waiting
     ELSE [at |-> IF s[j].conn \in rd THEN "read" ELSE "write",
           i |-> j, rd |-> rd, wr |-> wr, new |-> NoConn]

\* The for loop goes on behind slot i.
Turn(i, rd, wr, s) ==
  LET due == {j \in i+1..SlotCount : s[j].avail /\ s[j].conn \in rd \cup wr}
      j   == CHOOSE j \in due : \A k \in due : j <= k
  IN IF due = {} THEN Waiting
     ELSE [at |-> IF s[j].conn \in rd THEN "read" ELSE "write",
           i |-> j, rd |-> rd, wr |-> wr, new |-> NoConn]

Readable == {c \in Conns : InSlot(c) /\ (stream[c] # <<>> \/ peer[c] \in {"shut", "reset"})}
Writable == {slot[i].conn : i \in {j \in Slots : /\ slot[j].avail /\ slot[j].send > 0
                                                 /\ \/ slot[j].conn \notin stalled
                                                    \/ peer[slot[j].conn] # "open"}}
Ready == Readable \cup Writable # {} \/ backlog # <<>>

\* Mutant of Leaves: the flag counts only when select() timed out.
LeavesWhenIdle == exit /\ ~Ready

\* The flag is looked at after every call of select().
Leaves == exit

\* select() found something.  (An error of select() only sends the loop round again.)
Select ==
  /\ At("select") /\ ~Leaves
  /\ Ready
  /\ loop' = IF backlog # <<>>
             THEN [at |-> "accept", i |-> 0, rd |-> Readable, wr |-> Writable, new |-> NoConn]
             ELSE Turn(0, Readable, Writable, slot)
  /\ UNCHANGED <<clientVars, got, backlog, slot, exit>>

\* Mutant of Expire: the slot of an idle connection is freed, its socket not closed.
ExpireWithoutClosing ==
  /\ At("select") /\ ~Leaves
  /\ ~Ready
  /\ LET due == {i \in Slots : slot[i].avail /\ slot[i].timer = "due"}
     IN /\ due # {}
        /\ slot' = [i \in Slots |-> IF i \in due THEN FreeSlot ELSE slot[i]]
  /\ UNCHANGED <<peer, greeted, stream, last, eager, stalled, got, backlog, loop, exit>>

\* select() timed out, the only time at which the loop looks at its clock: a
\* connection that has sent something is flushed, any other closed.
Expire ==
  /\ At("select") /\ ~Leaves
  /\ ~Ready
  /\ LET due  == {i \in Slots : slot[i].avail /\ slot[i].timer = "due"}
         idle == {i \in due : slot[i].buf = <<>>}
     IN /\ due # {}
        /\ slot' = [i \in Slots |-> IF i \in idle THEN Closed(slot[i])
                                    ELSE IF i \in due THEN Flushed(slot[i]) ELSE slot[i]]
        /\ peer' = [c \in Conns |-> IF \E i \in idle : slot[i].conn = c
                                    THEN "closed" ELSE peer[c]]
  /\ UNCHANGED <<greeted, stream, last, eager, stalled, got, backlog, loop, exit>>

Elapse(i) ==
  /\ slot[i].timer = "set"
  /\ slot' = [slot EXCEPT ![i].timer = "due"]
  /\ UNCHANGED <<clientVars, got, backlog, loop, exit>>

\* The connection gets the first free slot, or is closed.
Place(c) ==
  LET free == {i \in Slots : ~slot[i].avail}
      i    == CHOOSE i \in free : \A j \in free : i <= j
  IN /\ slot' = IF free = {} THEN slot ELSE [slot EXCEPT ![i] = Connected(c)]
     /\ peer' = IF free = {} THEN [peer EXCEPT ![c] = "closed"] ELSE peer
     /\ loop' = Turn(0, loop.rd, loop.wr, slot)

Refuse(c) ==
  /\ peer' = [peer EXCEPT ![c] = "closed"]
  /\ loop' = Turn(0, loop.rd, loop.wr, slot)
  /\ UNCHANGED slot

Accept ==
  /\ At("accept")
  /\ backlog' = Tail(backlog)
  /\ IF Cygwin
     THEN /\ loop' = [loop EXCEPT !.at = "guid", !.new = Head(backlog)]
          /\ UNCHANGED <<peer, slot>>
     ELSE Place(Head(backlog))
  /\ UNCHANGED <<greeted, stream, last, eager, stalled, got, exit>>

\* ud_accept(): two blocking calls of recv(), without a time-out.
Handshake ==
  /\ LET c == loop.new
     IN \/ /\ At("guid") /\ greeted[c] = "guid"
           /\ loop' = [loop EXCEPT !.at = "ids"]
           /\ UNCHANGED <<peer, slot>>
        \/ At("ids") /\ greeted[c] = "ids" /\ Place(c)
        \/ (At("guid") \/ At("ids")) /\ greeted[c] = "other" /\ Refuse(c)
        \/ At("guid") /\ greeted[c] = "none" /\ peer[c] # "open" /\ Refuse(c)
        \/ At("ids") /\ greeted[c] = "guid" /\ peer[c] # "open" /\ Refuse(c)
  /\ UNCHANGED <<greeted, stream, last, eager, stalled, got, backlog, exit>>

\* The read half of a slot's turn is over: the write half, or the next slot.
AfterRead(i, s) ==
  IF slot[i].conn \in loop.wr
  THEN [loop EXCEPT !.at = "write", !.rd = @ \ {slot[i].conn}]
  ELSE Turn(i, loop.rd, loop.wr, s)

\* No receive buffer: what is ready stays so.
SkipRead ==
  /\ At("read") /\ slot[loop.i].room = 0
  /\ loop' = AfterRead(loop.i, slot)
  /\ UNCHANGED <<clientVars, got, backlog, slot, exit>>

Receive ==
  /\ At("read")
  /\ LET i      == loop.i
         c      == slot[i].conn
         r      == IF Len(stream[c]) < slot[i].room THEN Len(stream[c]) ELSE slot[i].room
         pieces == SubSeq(stream[c], 1, r)
     IN /\ r > 0
        /\ stream' = [stream EXCEPT ![c] = SubSeq(@, r + 1, Len(@))]
        /\ \E whole \in Complete(slot[i].buf \o pieces) :
             /\ slot' = [slot EXCEPT ![i] = Received(@, pieces, whole)]
             /\ loop' = IF whole THEN [loop EXCEPT !.at = "handle"] ELSE AfterRead(i, slot)
  /\ UNCHANGED <<peer, greeted, last, eager, stalled, got, backlog, exit>>

\* recv() returns 0, or an error: the handler deletes its data and the slot is
\* closed, after an error twice.
Hangup ==
  /\ At("read")
  /\ LET i == loop.i
         c == slot[i].conn
     IN /\ slot[i].room > 0 /\ stream[c] = <<>> /\ peer[c] \in {"shut", "reset"}
        /\ slot' = [slot EXCEPT ![i] = Closed(@)]
        /\ peer' = [peer EXCEPT ![c] = "closed"]
        /\ loop' = AfterRead(i, slot')
  /\ UNCHANGED <<greeted, stream, last, eager, stalled, got, backlog, exit>>

\* pageant_handle_msg() returns, whenever it does.
Handled ==
  /\ At("handle")
  /\ slot' = [slot EXCEPT ![loop.i].send = ReplyLength, ![loop.i].timer = "set"]
  /\ loop' = AfterRead(loop.i, slot)
  /\ UNCHANGED <<clientVars, got, backlog, exit>>

Write ==
  /\ At("write")
  /\ LET i == loop.i
         c == slot[i].conn
     IN /\ \/ /\ peer[c] # "reset"
              /\ \E r \in 1..slot[i].send :
                   IF r = slot[i].send
                   THEN /\ slot' = [slot EXCEPT ![i] = Sent(@)]
                        /\ got' = [got EXCEPT ![c] = Append(@, slot[i].n)]
                   ELSE /\ slot' = [slot EXCEPT ![i].send = @ - r]
                        /\ UNCHANGED got
              /\ UNCHANGED peer
           \/ /\ peer[c] = "reset"
              /\ slot' = [slot EXCEPT ![i] = Closed(@)]
              /\ peer' = [peer EXCEPT ![c] = "closed"]
              /\ UNCHANGED got
        /\ loop' = Turn(i, loop.rd, loop.wr, slot')
  /\ UNCHANGED <<greeted, stream, last, eager, stalled, backlog, exit>>

\* sock_server_reqest_exit(), from the main thread.
RequestExit ==
  /\ ~exit /\ ~At("stopped")
  /\ exit' = TRUE
  /\ UNCHANGED <<clientVars, got, backlog, slot, loop>>

\* The end of sock_server_main(): no notification, every socket closed.
Finish ==
  /\ At("select") /\ Leaves
  /\ slot' = [i \in Slots |-> FreeSlot]
  /\ peer' = [c \in Conns |-> IF peer[c] = "away" THEN "away" ELSE "closed"]
  /\ backlog' = <<>>
  /\ loop' = [Waiting EXCEPT !.at = "stopped"]
  /\ UNCHANGED <<greeted, stream, last, eager, stalled, got, exit>>

\* agents_start(), once the setting dialog is closed.
Start ==
  /\ At("stopped")
  /\ loop' = Waiting
  /\ exit' = FALSE
  /\ UNCHANGED <<clientVars, got, backlog, slot>>

-----------------------------------------------------------------------------

Init ==
  /\ peer = [c \in Conns |-> "away"]
  /\ greeted = [c \in Conns |-> "none"]
  /\ stream = [c \in Conns |-> <<>>]
  /\ last = [c \in Conns |-> NoPiece]
  /\ eager = {} /\ stalled = {}
  /\ got = [c \in Conns |-> <<>>]
  /\ backlog = <<>>
  /\ slot = [i \in Slots |-> FreeSlot]
  /\ loop = Waiting
  /\ exit = FALSE

Client(c) ==
  \/ Connect(c) \/ Greet(c) \/ Stall(c)
  \/ \E len \in Lengths : SendPiece(c, len)
  \/ \E how \in {"shut", "reset"} : Leave(c, how)

\* What the loop does without waiting for anybody.
Server ==
  \/ Select \/ Expire \/ Accept \/ Handshake
  \/ SkipRead \/ Receive \/ Hangup \/ Handled \/ Write \/ Finish

Next ==
  \/ \E c \in Conns : Client(c)
  \/ \E i \in Slots : Elapse(i)
  \/ Server \/ RequestExit \/ Start

Spec == Init /\ [][Next]_vars

\* The thread runs, and the request handler returns (module Agent).
FairSpec == Spec /\ WF_vars(Server)

-----------------------------------------------------------------------------
(* What the transport promises.                                             *)

SlotRecord ==
  [ avail : BOOLEAN, conn : Conns \cup {NoConn}, room : Nat, send : 0..ReplyLength,
    timer : {"off", "set", "due"}, buf : Seq(Piece), size : Nat, left : Nat,
    n : 0..MaxRequests ]

LoopRecord ==
  [ at : {"select", "accept", "guid", "ids", "read", "write", "handle", "stopped"},
    i : 0..SlotCount, rd : SUBSET Conns, wr : SUBSET Conns, new : Conns \cup {NoConn} ]

\* The type invariant.
TypeOK ==
  /\ peer \in [Conns -> {"away", "open", "shut", "reset", "closed"}]
  /\ greeted \in [Conns -> {"none", "guid", "other", "ids"}]
  /\ stream \in [Conns -> Seq(Piece)]
  /\ last \in [Conns -> Piece \cup {NoPiece}]
  /\ eager \in SUBSET Conns /\ stalled \in SUBSET Conns
  /\ got \in [Conns -> Seq(0..MaxRequests)]
  /\ backlog \in Seq(Conns)
  /\ slot \in [Slots -> SlotRecord]
  /\ loop \in LoopRecord
  /\ exit \in BOOLEAN

\* sock_server.c:563: the write half of a turn works on what select() saw before
\* the read half ran, so the read half may not have closed the connection, or
\* the handler's data would be used after it was deleted.
WritesToLiveConnection ==
  At("write") => slot[loop.i].avail /\ slot[loop.i].send > 0

\* ssh-agent_emu.cpp, SS_NOTIFY_RECV, SEND and TIMEOUT: recv() never gets more
\* room than the handler's buffer has behind what is in it, although the two
\* sides keep separate counts that growing, flushing and answering change.
RoomFitsBuffer ==
  \A i \in Slots : slot[i].avail => /\ slot[i].left = slot[i].size - Len(slot[i].buf)
                                    /\ slot[i].room \in {0, slot[i].left}

\* Values keep their types, and the two counts of a buffer's room agree.
RoomAndTypes == TypeOK /\ RoomFitsBuffer

\* Every connection accepted and not closed has one slot, so none is forgotten
\* open, and no slot outlives its connection.
SlotsAreConnections ==
  \A c \in Conns :
    /\ Cardinality({i \in Slots : slot[i].avail /\ slot[i].conn = c}) <= 1
    /\ InSlot(c) => peer[c] \in {"open", "shut", "reset"}
    /\ peer[c] = "open" => \/ InSlot(c) \/ loop.new = c
                           \/ \E n \in DOMAIN backlog : backlog[n] = c

\* A client that waits for each answer before it asks again gets the answer of
\* its n-th request as the n-th, whatever was split, flushed or timed out.
AnswersInStep ==
  \A c \in Conns \ eager : got[c] = [n \in DOMAIN got[c] |-> n]

\* sock_server_main() serves every slot in every round: a request that has
\* arrived in full is answered, whatever the other connections do or leave
\* undone, unless its client stops reading or the connection ends.
Arrived(c, n) ==
  \E i \in Slots :
    /\ slot[i].avail /\ slot[i].conn = c
    /\ LET all == slot[i].buf \o stream[c]
       IN all # <<>> /\ all[1].n = n /\ all[1].k = 1 /\ Len(all) >= all[1].len

RequestsAreAnswered ==
  \A c \in Conns, n \in 1..MaxRequests :
    Arrived(c, n) ~> \/ \E m \in DOMAIN got[c] : got[c][m] = n
                     \/ c \in stalled \/ peer[c] # "open"

\* sock_server_reqest_exit(): the loop ends, however busy its sockets are; the
\* main thread waits for it.
ExitStops == exit ~> At("stopped")

(* The abstract transport, implemented.                                     *)

Phase(c) ==
  IF peer[c] = "closed" THEN [at |-> "gone", n |-> 0]
  ELSE IF ~InSlot(c) THEN [at |-> "away", n |-> 0]
  ELSE LET i == CHOOSE i \in Slots : slot[i].avail /\ slot[i].conn = c
       IN [ at |-> IF At("handle") /\ loop.i = i THEN "busy"
                   ELSE IF slot[i].send > 0 THEN "owed" ELSE "idle",
            n  |-> slot[i].n ]

Port == INSTANCE AgentPort WITH phase <- [c \in Conns |-> Phase(c)]

\* One request at a time is with the handler, and its answer goes once and
\* only to the connection that asked; a connection is never given up while the
\* handler works for it.
ImplementsPort == Port!Spec

(* What the comments say, and the code does not do.                         *)

\* sock_server.h:26: SS_NOTIFY_DISCONNECT, "disconnect from client".
DisconnectsAreNoticed ==
  \A c \in Conns : InSlot(c) /\ peer[c] = "shut" ~> ~InSlot(c)

=============================================================================
