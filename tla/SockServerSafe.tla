--------------------------- MODULE SockServerSafe ---------------------------
(***************************************************************************)
(* What module SockServer promises, proved for any connections, slots,     *)
(* lengths of requests and buffer sizes.                                   *)
(***************************************************************************)
EXTENDS SockServer, FiniteSetTheorems, SequenceTheorems, WellFoundedInduction, TLAPS

-----------------------------------------------------------------------------
(* The inductive invariant.                                                 *)

Alive == {"open", "shut", "reset"}

Queued(c) == \E n \in DOMAIN backlog : backlog[n] = c

\* The handler works for the connection in slot i.
Handling(i) == At("handle") /\ loop.i = i

\* Where the loop is says what it has in hand.
LoopPlace ==
  /\ loop.at \in {"select", "stopped"} => loop.rd = {} /\ loop.wr = {}
  /\ loop.at \in {"read", "write", "handle"} <=> loop.i # 0
  /\ loop.i # 0 => slot[loop.i].avail
  /\ loop.at \in {"guid", "ids"} <=> loop.new # NoConn
  /\ At("write") => slot[loop.i].conn \in loop.wr
  /\ At("accept") => backlog # <<>>
  /\ At("handle") => slot[loop.i].send = 0 /\ slot[loop.i].room = 0

\* The counts of a slot in use agree; and while an answer is on its way, or with
\* the handler, nothing is received.
Counts(i) ==
  slot[i].avail =>
    /\ slot[i].conn \in Conns
    /\ slot[i].left = slot[i].size - Len(slot[i].buf) /\ slot[i].left > 0
    /\ slot[i].room \in {0, slot[i].left}
    /\ slot[i].send > 0 => slot[i].room = 0
    /\ slot[i].send = 0 /\ ~Handling(i) => slot[i].n = 0

\* A connection that is up is in one place: a slot, the backlog or the handshake.
OneSlot ==
  \A i, j \in Slots : slot[i].avail /\ slot[j].avail /\ slot[i].conn = slot[j].conn => i = j
OnePlace ==
  /\ \A c \in Conns : InSlot(c) => peer[c] \in Alive /\ ~Queued(c) /\ c # loop.new
  /\ \A c \in Conns : Queued(c) => peer[c] \in Alive /\ c # loop.new
  /\ loop.new \in Conns => peer[loop.new] \in Alive
  /\ \A c \in Conns : peer[c] = "open" => InSlot(c) \/ Queued(c) \/ c = loop.new
  /\ \A m, n \in DOMAIN backlog : backlog[m] = backlog[n] => m = n

\* What select() found writable is still so when its turn comes.
StillWritable ==
  /\ \A c \in loop.wr : peer[c] # "away" /\ ~Queued(c) /\ c # loop.new
  /\ \A i \in Slots : i >= loop.i /\ slot[i].avail /\ slot[i].conn \in loop.wr => slot[i].send > 0

Placed == LoopPlace /\ (\A i \in Slots : Counts(i)) /\ OneSlot /\ OnePlace /\ StillWritable

\* Nothing of the connection is under way.
Quiescent(c, buf) ==
  /\ last[c].n = Len(got[c]) /\ last[c].k = last[c].len
  /\ buf = <<>> /\ stream[c] = <<>>

\* Its next request has been received in part or not at all.
Arriving(c, buf) ==
  /\ last[c].n = Len(got[c]) + 1
  /\ Len(buf \o stream[c]) = last[c].k
  /\ \A k \in 1..last[c].k : (buf \o stream[c])[k] = [last[c] EXCEPT !.k = k]

\* Its next request is with the handler, or handled.
Served(c, i) ==
  /\ last[c].n = Len(got[c]) + 1 /\ last[c].k = last[c].len
  /\ stream[c] = <<>> /\ slot[i].n = last[c].n

\* Nothing more is received, for the connection was flushed.
Deaf(i) == slot[i].room = 0 /\ slot[i].send = 0 /\ ~Handling(i)

\* What the invariant says of one client: its answers are in step, and as long as it
\* may be sent another, so is what is under way.
Steady(c) ==
  /\ got[c] = [n \in DOMAIN got[c] |-> n]
  /\ peer[c] = "away" => last[c] = NoPiece /\ got[c] = <<>> /\ stream[c] = <<>>
  /\ peer[c] \in {"open", "shut"} /\ ~InSlot(c) => Quiescent(c, <<>>) \/ Arriving(c, <<>>)
  /\ peer[c] \in {"open", "shut"} =>
       \A i \in Slots : slot[i].avail /\ slot[i].conn = c =>
         \/ Deaf(i)
         \/ slot[i].room > 0 /\ (Quiescent(c, slot[i].buf) \/ Arriving(c, slot[i].buf))
         \/ slot[i].room = 0 /\ ~Deaf(i) /\ Served(c, i)

LastSent == \A c \in Conns : last[c].k <= last[c].len

InStep == LastSent /\ \A c \in Conns \ eager : Steady(c)

IInv == TypeOK /\ Placed /\ InStep

-----------------------------------------------------------------------------
(* Slots, and the turns of the loop.                                        *)

\* The first of some slots.
LEMMA FirstSlot ==
  ASSUME NEW T \in SUBSET Slots, T # {}
  PROVE  \E j \in T : \A k \in T : j <= k
<1>1. T \in SUBSET Nat
  BY SizeAssumption DEF Slots
<1>2. PICK j \in T : \A k \in T : <<k, j>> \notin OpToRel(<, Nat)
  BY <1>1, NatLessThanWellFounded, WFMin
<1>3. ASSUME NEW k \in T PROVE j <= k
  <2>1. j \in Nat /\ k \in Nat
    BY <1>1
  <2>2. ~(k < j)
    BY <1>2, <2>1, Zenon DEF OpToRel
  <2> QED BY <2>1, <2>2
<1> QED BY <1>3

\* The for loop waits again, or is at a later slot that is in use and was ready.
Turned(t, i, wr, s) ==
  \/ t = Waiting
  \/ /\ t.at \in {"read", "write"} /\ t.i \in i+1..SlotCount
     /\ t.rd \in SUBSET Conns /\ t.wr = wr /\ t.new = NoConn
     /\ s[t.i].avail /\ (t.at = "write" => s[t.i].conn \in wr)
     /\ t \in LoopRecord

LEMMA TurnGives ==
  ASSUME NEW i \in 0..SlotCount, NEW rd \in SUBSET Conns, NEW wr \in SUBSET Conns, NEW s
  PROVE  Turned(Turn(i, rd, wr, s), i, wr, s)
<1> DEFINE due == {j \in i+1..SlotCount : s[j].avail /\ s[j].conn \in rd \cup wr}
           j == CHOOSE j \in due : \A k \in due : j <= k
<1>1. CASE due = {}
  BY <1>1 DEF Turn, Turned
<1>2. CASE due # {}
  <2>1. due \in SUBSET Slots
    BY SizeAssumption DEF Slots
  <2>2. \E l \in due : \A k \in due : l <= k
    <3> HIDE DEF due
    <3> QED BY <1>2, <2>1, FirstSlot
  <2>3. j \in due
    <3> HIDE DEF due
    <3> QED BY <2>2
  <2>4. Turn(i, rd, wr, s) = [at |-> IF s[j].conn \in rd THEN "read" ELSE "write",
                              i |-> j, rd |-> rd, wr |-> wr, new |-> NoConn]
    BY <1>2 DEF Turn
  <2>5. j \in i+1..SlotCount /\ s[j].avail /\ s[j].conn \in rd \cup wr
    BY <2>3
  <2> HIDE DEF j, due
  <2>6. j \in 0..SlotCount
    BY <2>5, SizeAssumption
  <2> QED BY <2>4, <2>5, <2>6 DEF Turned, LoopRecord
<1> QED BY <1>1, <1>2

\* Where the loop is after a turn, when what has changed since select() did not take
\* a writable connection away.
LEMMA TurnPlaces ==
  ASSUME TypeOK, NEW i \in 0..SlotCount, NEW wr \in SUBSET Conns, NEW s, Turned(loop', i, wr, s),
         \A j \in Slots : j > i /\ s[j].avail => slot'[j].avail /\ slot'[j].conn = s[j].conn,
         \A c \in wr : peer'[c] # "away" /\ ~Queued(c)',
         \A j \in Slots : j > i /\ slot'[j].avail /\ slot'[j].conn \in wr => slot'[j].send > 0
  PROVE  /\ loop' \in LoopRecord /\ LoopPlace' /\ StillWritable' /\ loop'.new = NoConn
         /\ loop'.at \in {"select", "read", "write"} /\ (loop'.i = 0 \/ loop'.i > i)
<1>1. CASE loop' = Waiting
  BY <1>1, SizeAssumption DEF Waiting, LoopRecord, LoopPlace, StillWritable, At
<1>2. CASE loop' # Waiting
  <2>1. /\ loop'.at \in {"read", "write"} /\ loop'.i \in i+1..SlotCount /\ loop'.wr = wr
        /\ loop'.new = NoConn /\ s[loop'.i].avail
        /\ (loop'.at = "write" => s[loop'.i].conn \in wr) /\ loop' \in LoopRecord
    BY <1>2 DEF Turned
  <2>2. loop'.i \in Slots /\ loop'.i > i /\ loop'.i # 0
    BY <2>1, SizeAssumption DEF Slots
  <2>3. slot'[loop'.i].avail /\ slot'[loop'.i].conn = s[loop'.i].conn
    BY <2>1, <2>2
  <2>4. LoopPlace'
    BY <2>1, <2>2, <2>3 DEF LoopPlace, At
  <2>5. StillWritable'
    <3>1. \A c \in wr : c # NoConn
      BY SizeAssumption
    <3>2. \A j \in Slots : j >= loop'.i => j > i
      BY <2>1, SizeAssumption DEF Slots
    <3> QED BY <2>1, <3>1, <3>2 DEF StillWritable
  <2> QED BY <2>1, <2>2, <2>4, <2>5
<1> QED BY <1>1, <1>2

\* The write half of the same slot comes before the next turn.
LEMMA AfterReadGives ==
  ASSUME TypeOK, NEW i \in Slots, i = loop.i, loop.new = NoConn, slot[i].avail, NEW s,
         slot[i].conn \in loop.wr => s[i].avail /\ s[i].conn = slot[i].conn
  PROVE  /\ Turned(AfterRead(i, s), i - 1, loop.wr, s) /\ i - 1 \in 0..SlotCount
         /\ slot[i].conn \notin loop.wr => Turned(AfterRead(i, s), i, loop.wr, s)
<1>1. i \in 0..SlotCount /\ i - 1 \in 0..SlotCount /\ i \in (i - 1)+1..SlotCount
  BY SizeAssumption DEF Slots
<1>2. CASE slot[i].conn \in loop.wr
  <2>1. AfterRead(i, s) = [loop EXCEPT !.at = "write", !.rd = @ \ {slot[i].conn}]
    BY <1>2 DEF AfterRead
  <2>2. loop \in LoopRecord
    BY DEF TypeOK
  <2>3. [loop EXCEPT !.at = "write", !.rd = @ \ {slot[i].conn}] \in LoopRecord
    BY <2>2 DEF LoopRecord
  <2> QED BY <1>1, <1>2, <2>1, <2>2, <2>3 DEF Turned, LoopRecord
<1>3. CASE slot[i].conn \notin loop.wr
  <2>1. AfterRead(i, s) = Turn(i, loop.rd, loop.wr, s) /\ loop.rd \in SUBSET Conns /\ loop.wr \in SUBSET Conns
    BY <1>3 DEF AfterRead, TypeOK, LoopRecord
  <2>2. Turned(AfterRead(i, s), i, loop.wr, s)
    BY <1>1, <2>1, TurnGives
  <2> QED BY <1>1, <2>2, SizeAssumption DEF Turned
<1> QED BY <1>2, <1>3

LEMMA SlotValues ==
  /\ FreeSlot \in SlotRecord
  /\ \A c \in Conns : Connected(c) \in SlotRecord
BY SizeAssumption DEF FreeSlot, Connected, SlotRecord

LEMMA PieceNumber ==
  \A p \in Piece : p.n \in 0..MaxRequests
BY SizeAssumption DEF Piece

\* What a slot is after SS_NOTIFY_RECV, and what of it is as before.
ReceivedFrom(s, pieces, whole, t) ==
  /\ t \in SlotRecord /\ t.avail = s.avail /\ t.conn = s.conn /\ t.send = s.send
  /\ t.left > 0 /\ t.left = t.size - Len(t.buf) /\ t.buf = s.buf \o pieces
  /\ t.room = IF whole THEN 0 ELSE t.left
  /\ t.n = IF whole THEN RequestIn(s.buf \o pieces) ELSE s.n

LEMMA ReceivedSlot ==
  ASSUME NEW s \in SlotRecord, NEW pieces \in Seq(Piece), NEW whole \in BOOLEAN,
         s.left = s.size - Len(s.buf), Len(pieces) \in 1..s.left, whole \in Complete(s.buf \o pieces),
         NEW t, t = Received(s, pieces, whole)
  PROVE  ReceivedFrom(s, pieces, whole, t)
<1> DEFINE full == s.left = Len(pieces)
           left == IF full THEN Chunk ELSE s.left - Len(pieces)
           buf  == s.buf \o pieces
           size == IF full THEN s.size + Chunk ELSE s.size
           n    == IF whole THEN RequestIn(buf) ELSE s.n
<1>1. s.left \in Nat /\ s.size \in Nat /\ s.buf \in Seq(Piece) /\ s.n \in 0..MaxRequests
  BY DEF SlotRecord
<1>2. buf \in Seq(Piece) /\ Len(buf) = Len(s.buf) + Len(pieces) /\ buf[1] \in Piece
  BY <1>1
<1>3. left \in Nat \ {0} /\ size \in Nat /\ left = size - Len(buf)
  <2>1. Len(s.buf) \in Nat /\ Len(pieces) \in Nat
    BY <1>1
  <2> HIDE DEF buf
  <2>2. Chunk \in Nat /\ Chunk > 0
    BY SizeAssumption
  <2>3. CASE full
    <3>1. left = Chunk /\ size = s.size + Chunk /\ s.size = Len(s.buf) + Len(pieces)
      BY <1>1, <2>1, <2>3
    <3>2. Len(buf) = s.size
      BY <1>2, <3>1
    <3> HIDE DEF left, size, full
    <3> QED BY <1>1, <2>2, <3>1, <3>2
  <2>4. CASE ~full
    <3>1. left = s.left - Len(pieces) /\ size = s.size /\ s.left > Len(pieces)
      BY <1>1, <2>1, <2>4
    <3> HIDE DEF left, size, full
    <3> QED BY <1>1, <1>2, <2>1, <3>1
  <2> QED BY <2>3, <2>4
<1>4. n \in 0..MaxRequests
  <2>1. buf[1].n \in 0..MaxRequests
    <3> HIDE DEF buf
    <3>1. buf[1] \in Piece
      BY <1>2
    <3> QED BY <3>1, PieceNumber
  <2>2. RequestIn(buf) \in 0..MaxRequests
    <3> HIDE DEF buf
    <3> QED BY <2>1, SizeAssumption DEF RequestIn
  <2> HIDE DEF buf
  <2> QED BY <1>1, <2>2
<1>5. t = [s EXCEPT !.buf = buf, !.left = left, !.size = size, !.room = IF whole THEN 0 ELSE left,
                     !.timer = "set", !.n = n]
  BY DEF Received
<1> HIDE DEF buf, left, size, n
<1>6. [s EXCEPT !.buf = buf, !.left = left, !.size = size, !.room = IF whole THEN 0 ELSE left,
                !.timer = "set", !.n = n] \in SlotRecord
  BY <1>2, <1>3, <1>4 DEF SlotRecord
<1> DEFINE r == [s EXCEPT !.buf = buf, !.left = left, !.size = size, !.room = IF whole THEN 0 ELSE left,
                          !.timer = "set", !.n = n]
<1>7. /\ r.avail = s.avail /\ r.conn = s.conn /\ r.send = s.send /\ r.left = left /\ r.size = size
      /\ r.buf = buf /\ r.room = (IF whole THEN 0 ELSE left) /\ r.n = n
  BY DEF SlotRecord
<1> HIDE DEF r
<1> QED BY <1>3, <1>5, <1>6, <1>7 DEF buf, n, r, ReceivedFrom

LEMMA OtherSlots ==
  ASSUME NEW s \in SlotRecord, s.left = s.size - Len(s.buf)
  PROVE  /\ LET r == Sent(s)
            IN /\ r \in SlotRecord /\ r.avail = s.avail /\ r.conn = s.conn /\ r.send = 0
               /\ r.room = s.size /\ r.left = s.size /\ r.size = s.size /\ r.buf = <<>> /\ r.n = 0
         /\ LET r == Flushed(s)
            IN /\ r \in SlotRecord /\ r.avail = s.avail /\ r.conn = s.conn /\ r.send = s.send
               /\ r.room = 0 /\ r.left = s.size /\ r.size = s.size /\ r.buf = <<>> /\ r.n = s.n
         /\ Closed(s) \in SlotRecord /\ ~Closed(s).avail /\ Closed(s).conn = s.conn
<1> DEFINE sent == [s EXCEPT !.buf = <<>>, !.left = s.size, !.room = s.size, !.send = 0, !.n = 0]
           flushed == [s EXCEPT !.buf = <<>>, !.left = s.size, !.room = 0, !.timer = "set"]
           closed == [s EXCEPT !.avail = FALSE, !.room = 0, !.send = 0, !.timer = "off",
                               !.buf = <<>>, !.size = 0, !.left = 0, !.n = 0]
<1>1. s.size \in Nat /\ s.avail \in BOOLEAN /\ <<>> \in Seq(Piece) /\ 0 \in Nat
      /\ 0 \in 0..ReplyLength /\ 0 \in 0..MaxRequests
  BY SizeAssumption DEF SlotRecord
<1>2. sent \in SlotRecord
  BY <1>1 DEF SlotRecord
<1>3. flushed \in SlotRecord
  BY <1>1 DEF SlotRecord
<1>4. closed \in SlotRecord
  BY <1>1 DEF SlotRecord
<1>5. /\ sent.avail = s.avail /\ sent.conn = s.conn /\ sent.send = 0
      /\ sent.room = s.size /\ sent.left = s.size /\ sent.size = s.size /\ sent.buf = <<>> /\ sent.n = 0
  BY DEF SlotRecord
<1>6. /\ flushed.avail = s.avail /\ flushed.conn = s.conn /\ flushed.send = s.send
      /\ flushed.room = 0 /\ flushed.left = s.size /\ flushed.size = s.size /\ flushed.buf = <<>>
      /\ flushed.n = s.n
  BY DEF SlotRecord
<1>7. ~closed.avail /\ closed.conn = s.conn
  BY DEF SlotRecord
<1>8. Sent(s) = sent /\ Flushed(s) = flushed /\ Closed(s) = closed
  BY DEF Sent, Flushed, Closed
<1> HIDE DEF sent, flushed, closed
<1> QED BY <1>2, <1>3, <1>4, <1>5, <1>6, <1>7, <1>8

-----------------------------------------------------------------------------
(* Types and places: what the clients do.                                   *)

\* What does not touch the loop, the slots, the backlog and the ends of connections
\* leaves everything in its place.
LEMMA NothingMoves ==
  ASSUME Placed, UNCHANGED <<peer, backlog, slot, loop>>
  PROVE  Placed'
BY DEF Placed, LoopPlace, Counts, OneSlot, OnePlace, StillWritable, InSlot, Queued, Handling, At

LEMMA InitPlaced ==
  ASSUME Init
  PROVE  TypeOK /\ Placed /\ LastSent
<1>1. TypeOK
  <2>1. slot \in [Slots -> SlotRecord]
    BY SlotValues DEF Init
  <2>2. loop \in LoopRecord
    BY SizeAssumption DEF Init, Waiting, LoopRecord
  <2>3. stream \in [Conns -> Seq(Piece)] /\ got \in [Conns -> Seq(0..MaxRequests)] /\ backlog \in Seq(Conns)
    BY DEF Init
  <2> QED BY <2>1, <2>2, <2>3 DEF Init, TypeOK
<1>2. \A i \in Slots : ~slot[i].avail
  BY DEF Init, FreeSlot
<1>3. loop = Waiting /\ backlog = <<>> /\ \A c \in Conns : peer[c] = "away"
  BY DEF Init
<1>4. \A c \in Conns : ~InSlot(c) /\ ~Queued(c)
  BY <1>2, <1>3 DEF InSlot, Queued
<1>5. Placed
  <2>1. LoopPlace
    BY <1>3, SizeAssumption DEF LoopPlace, Waiting, At
  <2>2. (\A i \in Slots : Counts(i)) /\ OneSlot
    BY <1>2 DEF Counts, OneSlot
  <2>3. OnePlace
    BY <1>3, <1>4, SizeAssumption DEF OnePlace, Waiting
  <2>4. StillWritable
    BY <1>3 DEF StillWritable, Waiting
  <2> QED BY <2>1, <2>2, <2>3, <2>4 DEF Placed
<1>6. LastSent
  BY DEF Init, LastSent, NoPiece
<1> QED BY <1>1, <1>5, <1>6

LEMMA ConnectPlaced ==
  ASSUME TypeOK, Placed, NEW c \in Conns, Connect(c)
  PROVE  TypeOK' /\ Placed'
<1>1. backlog' = Append(backlog, c) /\ peer' = [peer EXCEPT ![c] = "open"] /\ peer[c] = "away"
      /\ UNCHANGED <<slot, loop>>
  BY DEF Connect
<1>2. backlog \in Seq(Conns) /\ backlog' \in Seq(Conns) /\ Len(backlog') = Len(backlog) + 1
      /\ (\A n \in 1..Len(backlog) : backlog'[n] = backlog[n]) /\ backlog'[Len(backlog) + 1] = c
  BY <1>1 DEF TypeOK
<1>3. TypeOK'
  BY <1>2 DEF Connect, TypeOK
<1>4. \A d \in Conns : (InSlot(d)' <=> InSlot(d)) /\ (Queued(d)' <=> Queued(d) \/ d = c)
  BY <1>1, <1>2 DEF InSlot, Queued
<1>5. ~InSlot(c) /\ ~Queued(c) /\ c # loop.new
  BY <1>1 DEF Placed, OnePlace, Alive
<1>6. \A d \in Conns : peer'[d] = IF d = c THEN "open" ELSE peer[d]
  BY <1>1 DEF TypeOK
<1>7. OnePlace'
  <2>1. \A m, n \in DOMAIN backlog' : backlog'[m] = backlog'[n] => m = n
    <3> SUFFICES ASSUME NEW m \in DOMAIN backlog', NEW n \in DOMAIN backlog', backlog'[m] = backlog'[n]
                 PROVE  m = n
      OBVIOUS
    <3>1. \A k \in 1..Len(backlog) : backlog[k] # c
      BY <1>2, <1>5 DEF Queued
    <3>2. m \in 1..Len(backlog) + 1 /\ n \in 1..Len(backlog) + 1
      BY <1>2
    <3> QED BY <1>2, <3>1, <3>2 DEF Placed, OnePlace
  <2> QED BY <1>1, <1>4, <1>5, <1>6, <2>1 DEF Placed, OnePlace, Alive
<1>8. StillWritable'
  BY <1>1, <1>4, <1>6 DEF Placed, StillWritable, TypeOK, LoopRecord
<1>9. LoopPlace' /\ (\A i \in Slots : Counts(i)') /\ OneSlot'
  BY <1>1, <1>2 DEF Placed, LoopPlace, Counts, OneSlot, Handling, At
<1> QED BY <1>3, <1>7, <1>8, <1>9 DEF Placed

\* The piece a client sends begins a request or goes on with one.
NextPiece(c, p) ==
  /\ p \in Piece /\ p.k <= p.len /\ last' = [last EXCEPT ![c] = p]
  /\ stream' = [stream EXCEPT ![c] = Append(@, p)] /\ eager' \in SUBSET Conns
  /\ \/ /\ last[c].k = last[c].len /\ p.n = last[c].n + 1 /\ p.k = 1
        /\ Len(got[c]) < last[c].n => c \in eager'
     \/ last[c].k < last[c].len /\ last[c] \in Piece /\ p = [last[c] EXCEPT !.k = @ + 1]

LEMMA SendGives ==
  ASSUME TypeOK, LastSent, NEW c \in Conns, NEW len \in Lengths, SendPiece(c, len)
  PROVE  \E p \in Piece : NextPiece(c, p)
<1> DEFINE new == last[c].k = last[c].len
           p   == IF new THEN [n |-> last[c].n + 1, k |-> 1, len |-> len]
                         ELSE [last[c] EXCEPT !.k = @ + 1]
<1>1. p.n <= MaxRequests /\ p.len = len /\ last' = [last EXCEPT ![c] = p]
      /\ stream' = [stream EXCEPT ![c] = Append(@, p)] /\ eager' \in SUBSET Conns
  BY DEF SendPiece, TypeOK
<1>2. new /\ Len(got[c]) < last[c].n => c \in eager'
  BY DEF SendPiece
<1>3. last[c] \in Piece \cup {NoPiece} /\ last[c].k <= last[c].len
  BY DEF TypeOK, LastSent
<1>4. len \in Nat /\ len > 0 /\ MaxRequests \in Nat
  BY SizeAssumption
<1>5. CASE new
  <2>1. p = [n |-> last[c].n + 1, k |-> 1, len |-> len]
    BY <1>5
  <2>2. last[c].n + 1 \in 1..MaxRequests
    BY <1>1, <1>3, <1>4, <1>5 DEF Piece, NoPiece
  <2>3. p \in Piece /\ p.n = last[c].n + 1 /\ p.k = 1 /\ p.k <= p.len
    BY <1>4, <2>1, <2>2 DEF Piece
  <2> HIDE DEF p
  <2> QED BY <1>1, <1>2, <1>5, <2>3 DEF NextPiece
<1>6. CASE ~new
  <2>1. p = [last[c] EXCEPT !.k = @ + 1]
    BY <1>6
  <2>2. last[c] \in Piece
    BY <1>3, <1>6 DEF NoPiece
  <2>3. last[c].len \in Nat /\ last[c].k \in Nat /\ last[c].k < last[c].len
    <3>1. last[c].len \in Nat /\ last[c].k \in Nat
      BY <2>2, SizeAssumption DEF Piece
    <3> QED BY <1>3, <1>6, <3>1
  <2>4. p \in Piece /\ p.k <= p.len
    BY <2>1, <2>2, <2>3 DEF Piece
  <2> HIDE DEF p
  <2> QED BY <1>1, <2>1, <2>2, <2>3, <2>4 DEF NextPiece
<1> QED BY <1>5, <1>6

LEMMA SendPlaced ==
  ASSUME TypeOK, Placed, LastSent, NEW c \in Conns, NEW len \in Lengths, SendPiece(c, len)
  PROVE  TypeOK' /\ Placed' /\ LastSent'
<1>1. PICK p \in Piece : NextPiece(c, p)
  BY SendGives
<1>2. /\ p.k <= p.len /\ last' = [last EXCEPT ![c] = p]
      /\ stream' = [stream EXCEPT ![c] = Append(@, p)] /\ eager' \in SUBSET Conns
  BY <1>1 DEF NextPiece
<1>3. stream' \in [Conns -> Seq(Piece)] /\ last' \in [Conns -> Piece \cup {NoPiece}]
  BY <1>2 DEF TypeOK
<1>4. TypeOK'
  BY <1>2, <1>3 DEF SendPiece, TypeOK
<1>5. Placed'
  BY NothingMoves DEF SendPiece
<1>6. LastSent'
  BY <1>2 DEF LastSent, TypeOK
<1> QED BY <1>4, <1>5, <1>6

LEMMA LeavePlaced ==
  ASSUME TypeOK, Placed, NEW c \in Conns, NEW how \in {"shut", "reset"}, Leave(c, how)
  PROVE  TypeOK' /\ Placed'
<1>1. UNCHANGED <<backlog, slot, loop>> /\ peer' = [peer EXCEPT ![c] = how] /\ peer[c] = "open"
  BY DEF Leave
<1>2. stream' \in [Conns -> Seq(Piece)]
  BY DEF Leave, TypeOK
<1>3. TypeOK'
  BY <1>1, <1>2 DEF Leave, TypeOK
<1>4. \A d \in Conns : (InSlot(d)' <=> InSlot(d)) /\ (Queued(d)' <=> Queued(d))
  BY <1>1 DEF InSlot, Queued
<1>5. \A d \in Conns : peer'[d] = IF d = c THEN how ELSE peer[d]
  BY <1>1 DEF TypeOK
<1>6. OnePlace' /\ StillWritable'
  BY <1>1, <1>4, <1>5 DEF Placed, OnePlace, StillWritable, Alive, TypeOK, LoopRecord
<1>7. LoopPlace' /\ (\A i \in Slots : Counts(i)') /\ OneSlot'
  BY <1>1 DEF Placed, LoopPlace, Counts, OneSlot, Handling, At
<1> QED BY <1>3, <1>6, <1>7 DEF Placed

LEMMA ElapsePlaced ==
  ASSUME TypeOK, Placed, NEW i \in Slots, Elapse(i)
  PROVE  TypeOK' /\ Placed'
<1>1. UNCHANGED <<peer, backlog, loop>> /\ slot' = [slot EXCEPT ![i].timer = "due"]
  BY DEF Elapse, clientVars
<1>2. slot' \in [Slots -> SlotRecord]
  <2>1. slot[i] \in SlotRecord /\ slot' = [slot EXCEPT ![i] = [slot[i] EXCEPT !.timer = "due"]]
    BY <1>1 DEF TypeOK
  <2>2. [slot[i] EXCEPT !.timer = "due"] \in SlotRecord
    BY <2>1 DEF SlotRecord
  <2> QED BY <2>1, <2>2 DEF TypeOK
<1>3. TypeOK'
  BY <1>2 DEF Elapse, clientVars, TypeOK
<1>4. \A j \in Slots : /\ slot'[j].avail = slot[j].avail /\ slot'[j].conn = slot[j].conn
                       /\ slot'[j].room = slot[j].room /\ slot'[j].send = slot[j].send
                       /\ slot'[j].left = slot[j].left /\ slot'[j].size = slot[j].size
                       /\ slot'[j].buf = slot[j].buf /\ slot'[j].n = slot[j].n
  BY <1>1 DEF TypeOK, SlotRecord
<1>5. loop.i \in 0..SlotCount
  BY DEF TypeOK, LoopRecord
<1>6. loop.i # 0 => loop.i \in Slots
  BY <1>5, SizeAssumption DEF Slots
<1> HIDE DEF Slots
<1>7. LoopPlace'
  BY <1>1, <1>4, <1>6 DEF Placed, LoopPlace, At
<1>8. (\A j \in Slots : Counts(j)') /\ OneSlot'
  BY <1>1, <1>4 DEF Placed, Counts, OneSlot, Handling, At
<1>9. \A d \in Conns : (InSlot(d)' <=> InSlot(d)) /\ (Queued(d)' <=> Queued(d))
  BY <1>1, <1>4 DEF InSlot, Queued
<1>10. OnePlace' /\ StillWritable'
  BY <1>1, <1>4, <1>9 DEF Placed, OnePlace, StillWritable, TypeOK, LoopRecord
<1> QED BY <1>3, <1>7, <1>8, <1>10 DEF Placed

-----------------------------------------------------------------------------
(* Types and places: the loop.                                              *)

LEMMA SlotSet ==
  ASSUME TypeOK, NEW i \in Slots, NEW s \in SlotRecord, slot' = [slot EXCEPT ![i] = s]
  PROVE  slot' \in [Slots -> SlotRecord] /\ \A j \in Slots : slot'[j] = IF j = i THEN s ELSE slot[j]
BY DEF TypeOK

\* The slot of a turn.
LEMMA SlotOfTurn ==
  ASSUME TypeOK, Placed, loop.at \in {"read", "write", "handle"}
  PROVE  /\ loop.i \in Slots /\ loop.i \in 0..SlotCount /\ slot[loop.i] \in SlotRecord /\ slot[loop.i].avail
         /\ slot[loop.i].conn \in Conns /\ loop.new = NoConn /\ loop.wr \in SUBSET Conns
         /\ Counts(loop.i) /\ peer[slot[loop.i].conn] \in Alive
<1>1. loop.i \in Slots /\ loop.i \in 0..SlotCount
  BY SizeAssumption DEF TypeOK, LoopRecord, Placed, LoopPlace, Slots
<1>2. slot[loop.i] \in SlotRecord /\ slot[loop.i].avail /\ loop.new = NoConn /\ loop.wr \in SUBSET Conns
  BY <1>1, SizeAssumption DEF TypeOK, LoopRecord, Placed, LoopPlace
<1>3. Counts(loop.i)
  BY <1>1 DEF Placed
<1>4. slot[loop.i].conn \in Conns
  BY <1>2, <1>3 DEF Counts
<1>5. InSlot(slot[loop.i].conn)
  BY <1>1, <1>2 DEF InSlot
<1> QED BY <1>1, <1>2, <1>3, <1>4, <1>5 DEF Placed, OnePlace

LEMMA SkipReadPlaced ==
  ASSUME TypeOK, Placed, SkipRead
  PROVE  TypeOK' /\ Placed'
<1>1. /\ loop' = AfterRead(loop.i, slot) /\ At("read") /\ UNCHANGED <<peer, backlog, slot>>
      /\ UNCHANGED <<greeted, stream, last, eager, stalled, got, exit>>
  BY DEF SkipRead, clientVars
<1>2. loop.i \in Slots /\ slot[loop.i].avail /\ loop.new = NoConn /\ loop.wr \in SUBSET Conns
  BY <1>1, SlotOfTurn DEF At
<1>3. Turned(loop', loop.i - 1, loop.wr, slot) /\ loop.i - 1 \in 0..SlotCount
  BY <1>1, <1>2, AfterReadGives
<1>4. \A c \in loop.wr : peer'[c] # "away" /\ ~Queued(c)'
  BY <1>1 DEF Placed, StillWritable, Queued
<1>5. \A j \in Slots : j > loop.i - 1 => j >= loop.i
  BY <1>2, SizeAssumption DEF Slots
<1>6. \A j \in Slots : j > loop.i - 1 /\ slot'[j].avail /\ slot'[j].conn \in loop.wr => slot'[j].send > 0
  BY <1>1, <1>5 DEF Placed, StillWritable
<1>7. loop' \in LoopRecord /\ LoopPlace' /\ StillWritable' /\ loop'.new = NoConn /\ loop'.at # "handle"
  BY <1>1, <1>2, <1>3, <1>4, <1>6, TurnPlaces
<1>8. TypeOK'
  BY <1>1, <1>7 DEF TypeOK
<1>9. (\A j \in Slots : Counts(j)') /\ OneSlot' /\ OnePlace'
  BY <1>1, <1>2, <1>7, SizeAssumption DEF Placed, Counts, OneSlot, OnePlace, InSlot, Queued, Handling, At
<1> QED BY <1>7, <1>8, <1>9 DEF Placed

LEMMA SelectPlaced ==
  ASSUME TypeOK, Placed, Select
  PROVE  TypeOK' /\ Placed'
<1>1. /\ At("select") /\ UNCHANGED <<peer, backlog, slot>>
      /\ UNCHANGED <<greeted, stream, last, eager, stalled, got, exit>>
      /\ loop' = IF backlog # <<>>
                 THEN [at |-> "accept", i |-> 0, rd |-> Readable, wr |-> Writable, new |-> NoConn]
                 ELSE Turn(0, Readable, Writable, slot)
  BY DEF Select, clientVars
<1>2. Readable \in SUBSET Conns
  BY DEF Readable
<1>3. \A i \in Slots : slot[i].avail => slot[i].conn \in Conns
  BY DEF Placed, Counts
<1>4. \A c \in Writable : c \in Conns /\ InSlot(c)
  BY <1>3 DEF Writable, InSlot
<1>5. \A c \in Writable : peer[c] # "away" /\ ~Queued(c)
  BY <1>4 DEF Placed, OnePlace, Alive
<1>6. \A j \in Slots : slot[j].avail /\ slot[j].conn \in Writable => slot[j].send > 0
  BY DEF Placed, OneSlot, Writable
<1>7. loop.new = NoConn
  BY <1>1 DEF Placed, LoopPlace, At
<1>8. loop' \in LoopRecord /\ LoopPlace' /\ StillWritable' /\ loop'.new = NoConn /\ loop'.at # "handle"
  <2>1. CASE backlog # <<>>
    <3>1. loop' = [at |-> "accept", i |-> 0, rd |-> Readable, wr |-> Writable, new |-> NoConn]
      BY <1>1, <2>1
    <3>2. loop' \in LoopRecord
      BY <1>2, <1>4, <3>1, SizeAssumption DEF LoopRecord
    <3>3. LoopPlace'
      BY <1>1, <2>1, <3>1 DEF LoopPlace, At
    <3>4. \A c \in Writable : c # NoConn
      BY <1>4, SizeAssumption
    <3>5. StillWritable'
      BY <1>1, <1>5, <1>6, <3>1, <3>4 DEF StillWritable, Queued
    <3> QED BY <3>1, <3>2, <3>3, <3>5
  <2>2. CASE backlog = <<>>
    <3>1. loop' = Turn(0, Readable, Writable, slot) /\ Writable \in SUBSET Conns /\ 0 \in 0..SlotCount
      BY <1>1, <1>4, <2>2, SizeAssumption
    <3>2. Turned(loop', 0, Writable, slot)
      BY <1>2, <3>1, TurnGives
    <3>3. \A c \in Writable : peer'[c] # "away" /\ ~Queued(c)'
      BY <1>1, <1>5 DEF Queued
    <3> QED BY <1>1, <1>6, <3>1, <3>2, <3>3, TurnPlaces
  <2> QED BY <2>1, <2>2
<1>9. TypeOK'
  BY <1>1, <1>8 DEF TypeOK
<1>10. (\A j \in Slots : Counts(j)') /\ OneSlot' /\ OnePlace'
  BY <1>1, <1>7, <1>8, SizeAssumption DEF Placed, Counts, OneSlot, OnePlace, InSlot, Queued, Handling, At
<1> QED BY <1>8, <1>9, <1>10 DEF Placed

\* The slot of the turn is changed and stays in use.
LEMMA SlotKept ==
  ASSUME TypeOK, Placed, loop.at \in {"read", "write", "handle"}, NEW i \in Slots, i = loop.i,
         NEW s \in SlotRecord, s.avail, s.conn = slot[i].conn,
         slot' = [slot EXCEPT ![i] = s], UNCHANGED <<peer, backlog>>,
         loop'.new = NoConn, Counts(i)'
  PROVE  /\ slot' \in [Slots -> SlotRecord]
         /\ \A j \in Slots : slot'[j] = IF j = i THEN s ELSE slot[j]
         /\ (\A j \in Slots : Counts(j)') /\ OneSlot' /\ OnePlace'
         /\ \A d \in Conns : InSlot(d)' <=> InSlot(d)
<1>1. i \in Slots /\ slot[i].avail /\ loop.new = NoConn
  BY SlotOfTurn
<1>2. slot' \in [Slots -> SlotRecord] /\ \A j \in Slots : slot'[j] = IF j = i THEN s ELSE slot[j]
  BY <1>1, SlotSet
<1>3. \A j \in Slots : slot'[j].avail = slot[j].avail /\ slot'[j].conn = slot[j].conn
  <2>1. ASSUME NEW j \in Slots PROVE slot'[j].avail = slot[j].avail /\ slot'[j].conn = slot[j].conn
    <3>1. CASE j = i
      <4>1. slot'[j] = s
        BY <1>2, <3>1
      <4> QED BY <1>1, <3>1, <4>1 DEF TypeOK, SlotRecord
    <3>2. CASE j # i
      BY <1>2, <3>2
    <3> QED BY <3>1, <3>2
  <2> QED BY <2>1
<1>4. \A d \in Conns : (InSlot(d)' <=> InSlot(d)) /\ (Queued(d)' <=> Queued(d))
  BY <1>3 DEF InSlot, Queued
<1>5. \A j \in Slots : Counts(j)'
  <2>1. ASSUME NEW j \in Slots, j # i PROVE Counts(j)'
    BY <1>2, <2>1 DEF Placed, Counts, Handling
  <2> QED BY <2>1
<1>6. OneSlot'
  BY <1>3 DEF Placed, OneSlot
<1>7. OnePlace'
  BY <1>1, <1>4, SizeAssumption DEF Placed, OnePlace
<1> QED BY <1>2, <1>4, <1>5, <1>6, <1>7

\* The slot of the turn is closed, and its connection with it.
LEMMA SlotClosed ==
  ASSUME TypeOK, Placed, loop.at \in {"read", "write", "handle"}, NEW i \in Slots, i = loop.i,
         NEW c, c = slot[i].conn,
         slot' = [slot EXCEPT ![i] = Closed(@)],
         peer' = [peer EXCEPT ![c] = "closed"], UNCHANGED backlog,
         loop'.new = NoConn
  PROVE  /\ slot' \in [Slots -> SlotRecord]
         /\ \A j \in Slots : slot'[j] = IF j = i THEN Closed(slot[j]) ELSE slot[j]
         /\ ~slot'[i].avail
         /\ (\A j \in Slots : Counts(j)') /\ OneSlot' /\ OnePlace'
         /\ \A d \in Conns : InSlot(d)' <=> InSlot(d) /\ d # c
<1>1. i \in Slots /\ slot[i] \in SlotRecord /\ slot[i].avail /\ loop.new = NoConn /\ c \in Conns /\ Counts(i)
      /\ peer[c] \in Alive
  BY SlotOfTurn
<1>2. Closed(slot[i]) \in SlotRecord /\ ~Closed(slot[i]).avail
  BY <1>1, OtherSlots DEF Counts
<1>3. /\ slot' \in [Slots -> SlotRecord]
      /\ \A j \in Slots : slot'[j] = IF j = i THEN Closed(slot[j]) ELSE slot[j]
  BY <1>1, <1>2, SlotSet
<1>4. ~slot'[i].avail /\ \A j \in Slots : j # i => slot'[j] = slot[j]
  BY <1>1, <1>2, <1>3
<1>5. \A d \in Conns : Queued(d)' <=> Queued(d)
  BY DEF Queued
<1>6. \A d \in Conns : InSlot(d)' <=> InSlot(d) /\ d # c
  BY <1>1, <1>4 DEF InSlot, Placed, OneSlot
<1>7. \A j \in Slots : Counts(j)'
  <2>1. ASSUME NEW j \in Slots, j # i PROVE Counts(j)'
    BY <1>4, <2>1 DEF Placed, Counts, Handling
  <2>2. Counts(i)'
    BY <1>4 DEF Counts
  <2> QED BY <2>1, <2>2
<1>8. OneSlot'
  BY <1>4 DEF Placed, OneSlot
<1>9. \A d \in Conns : peer'[d] = IF d = c THEN "closed" ELSE peer[d]
  BY <1>1 DEF TypeOK
<1>10. ~Queued(c) /\ InSlot(c)
  BY <1>1 DEF Placed, OnePlace, InSlot
<1>11. OnePlace'
  BY <1>1, <1>5, <1>6, <1>9, <1>10, SizeAssumption DEF Placed, OnePlace, Alive
<1> QED BY <1>3, <1>4, <1>6, <1>7, <1>8, <1>11

LEMMA HandledSlot ==
  ASSUME NEW s \in SlotRecord
  PROVE  LET r == [s EXCEPT !.send = ReplyLength, !.timer = "set"]
         IN /\ r \in SlotRecord /\ r.avail = s.avail /\ r.conn = s.conn /\ r.room = s.room
            /\ r.send = ReplyLength /\ r.send > 0 /\ r.left = s.left /\ r.size = s.size
            /\ r.buf = s.buf /\ r.n = s.n
<1>1. ReplyLength \in 0..ReplyLength /\ ReplyLength > 0
  BY SizeAssumption
<1> DEFINE r == [s EXCEPT !.send = ReplyLength, !.timer = "set"]
<1>2. r \in SlotRecord
  BY <1>1 DEF SlotRecord
<1>3. /\ r.avail = s.avail /\ r.conn = s.conn /\ r.room = s.room
      /\ r.send = ReplyLength /\ r.left = s.left /\ r.size = s.size /\ r.buf = s.buf /\ r.n = s.n
  BY DEF SlotRecord
<1> HIDE DEF r
<1> QED BY <1>1, <1>2, <1>3 DEF r

LEMMA HandledPlaced ==
  ASSUME TypeOK, Placed, Handled
  PROVE  TypeOK' /\ Placed'
<1>0. PICK i \in Slots : i = loop.i
  BY SlotOfTurn DEF Handled, At
<1> DEFINE s == [slot[i] EXCEPT !.send = ReplyLength, !.timer = "set"]
<1>1. /\ At("handle") /\ UNCHANGED <<peer, backlog, greeted, stream, last, eager, stalled, got, exit>>
      /\ slot' = [slot EXCEPT ![i].send = ReplyLength, ![i].timer = "set"]
      /\ loop' = AfterRead(i, slot)
  BY <1>0 DEF Handled, clientVars
<1>2. loop.i = i /\ i \in Slots /\ i \in 0..SlotCount /\ slot[i] \in SlotRecord /\ slot[i].avail /\ loop.new = NoConn
      /\ loop.wr \in SUBSET Conns /\ Counts(i)
  BY <1>0, <1>1, SlotOfTurn DEF At
<1>3. s \in SlotRecord /\ s.avail /\ s.conn = slot[i].conn /\ s.room = slot[i].room /\ s.send > 0
      /\ s.left = slot[i].left /\ s.size = slot[i].size /\ s.buf = slot[i].buf /\ s.n = slot[i].n
  BY <1>2, HandledSlot
<1>4. slot' = [slot EXCEPT ![i] = s]
  BY <1>1, <1>2 DEF TypeOK
<1> HIDE DEF s
<1>5. slot' \in [Slots -> SlotRecord] /\ \A j \in Slots : slot'[j] = IF j = i THEN s ELSE slot[j]
  BY <1>2, <1>3, <1>4, SlotSet
<1>6. slot[i].room = 0 /\ slot[i].send = 0
  BY <1>1, <1>2 DEF Placed, LoopPlace
<1>7. slot[i].conn \notin loop.wr
  <2>1. i >= loop.i
    BY <1>2
  <2> QED BY <1>2, <1>6, <2>1 DEF Placed, StillWritable
<1>8. Turned(loop', i, loop.wr, slot)
  BY <1>1, <1>2, <1>7, AfterReadGives
<1>9. \A c \in loop.wr : peer'[c] # "away" /\ ~Queued(c)'
  BY <1>1 DEF Placed, StillWritable, Queued
<1>10. \A j \in Slots : j > i => slot'[j] = slot[j] /\ j >= loop.i
  BY <1>2, <1>5, SizeAssumption DEF Slots
<1>11. \A j \in Slots : j > i /\ slot'[j].avail /\ slot'[j].conn \in loop.wr => slot'[j].send > 0
  BY <1>2, <1>10 DEF Placed, StillWritable
<1>12. loop' \in LoopRecord /\ LoopPlace' /\ StillWritable' /\ loop'.new = NoConn
  BY <1>2, <1>8, <1>9, <1>10, <1>11, TurnPlaces
<1>13. TypeOK'
  BY <1>1, <1>5, <1>12 DEF TypeOK
<1>14. slot'[i] = s
  BY <1>2, <1>5
<1>15. Counts(i)'
  BY <1>2, <1>3, <1>6, <1>14 DEF Counts
<1>16. (\A j \in Slots : Counts(j)') /\ OneSlot' /\ OnePlace'
  BY <1>1, <1>2, <1>3, <1>4, <1>12, <1>15, SlotKept DEF At
<1> QED BY <1>12, <1>13, <1>16 DEF Placed

\* What recv() takes off a stream and puts behind a buffer: the two together stay the same.
LEMMA Pieces ==
  ASSUME NEW st \in Seq(Piece), NEW buf \in Seq(Piece), NEW r \in 1..Len(st)
  PROVE  /\ SubSeq(st, 1, r) \in Seq(Piece) /\ Len(SubSeq(st, 1, r)) = r
         /\ SubSeq(st, r + 1, Len(st)) \in Seq(Piece) /\ Len(SubSeq(st, r + 1, Len(st))) = Len(st) - r
         /\ (buf \o SubSeq(st, 1, r)) \o SubSeq(st, r + 1, Len(st)) = buf \o st
<1> DEFINE a == SubSeq(st, 1, r)
           b == SubSeq(st, r + 1, Len(st))
<1>0. Len(st) \in Nat /\ r \in Int /\ 1 \in Int /\ r + 1 \in Int /\ Len(st) \in Int
  OBVIOUS
<1>1. a \in Seq(Piece) /\ Len(a) = r
  <2>1. \A k \in 1..r : st[k] \in Piece
    OBVIOUS
  <2> QED BY <1>0, <2>1, SubSeqProperties
<1>2. b \in Seq(Piece) /\ Len(b) = Len(st) - r
  <2>1. \A k \in r + 1 .. Len(st) : st[k] \in Piece
    OBVIOUS
  <2>2. b \in Seq(Piece) /\ Len(b) = IF r + 1 <= Len(st) THEN Len(st) - (r + 1) + 1 ELSE 0
    BY <1>0, <2>1, SubSeqProperties
  <2> HIDE DEF b
  <2> QED BY <1>0, <2>2
<1>3. a \o b = st
  <2>1. 1 \in 1..Len(st)+1 /\ r \in 1-1..Len(st) /\ Len(st) \in r..Len(st)
    OBVIOUS
  <2>2. a \o b = SubSeq(st, 1, Len(st))
    BY <2>1, ConcatAdjacentSubSeq
  <2> QED BY <2>2, SubSeqFull
<1> HIDE DEF a, b
<1>4. (buf \o a) \o b = buf \o st
  <2>1. (buf \o a) \o b = buf \o (a \o b)
    BY <1>1, <1>2
  <2> QED BY <1>3, <2>1
<1> QED BY <1>1, <1>2, <1>4 DEF a, b

\* A call of recv(): the slot had room, so no answer is on its way.
Took(i, c, r, pieces, whole) ==
  /\ i = loop.i /\ c = slot[i].conn /\ slot[i].avail /\ peer[c] \in Alive /\ slot[i] \in SlotRecord
  /\ slot[i].room = slot[i].left /\ slot[i].room > 0 /\ slot[i].send = 0 /\ slot[i].n = 0
  /\ slot[i].left = slot[i].size - Len(slot[i].buf) /\ c \notin loop.wr
  /\ r \in 1..Len(stream[c]) /\ pieces = SubSeq(stream[c], 1, r) /\ Len(pieces) \in 1..slot[i].left
  /\ stream' = [stream EXCEPT ![c] = SubSeq(@, r + 1, Len(@))]
  /\ whole \in Complete(slot[i].buf \o pieces)
  /\ slot' = [slot EXCEPT ![i] = Received(slot[i], pieces, whole)]
  /\ loop' = IF whole THEN [loop EXCEPT !.at = "handle"] ELSE AfterRead(i, slot)

LEMMA ReceiveGives ==
  ASSUME TypeOK, Placed, Receive
  PROVE  \E i \in Slots, c \in Conns, r \in Nat, pieces \in Seq(Piece), whole \in BOOLEAN :
           Took(i, c, r, pieces, whole)
<1>1. PICK i \in Slots : i = loop.i
  BY SlotOfTurn DEF Receive, At
<1> DEFINE c == slot[i].conn
           r == IF Len(stream[c]) < slot[i].room THEN Len(stream[c]) ELSE slot[i].room
           pieces == SubSeq(stream[c], 1, r)
<1>2. /\ At("read") /\ r > 0
      /\ stream' = [stream EXCEPT ![c] = SubSeq(@, r + 1, Len(@))]
      /\ \E whole \in Complete(slot[i].buf \o pieces) :
           /\ slot' = [slot EXCEPT ![i] = Received(@, pieces, whole)]
           /\ loop' = IF whole THEN [loop EXCEPT !.at = "handle"] ELSE AfterRead(i, slot)
  BY <1>1 DEF Receive
<1>3. PICK whole \in Complete(slot[i].buf \o pieces) :
           /\ slot' = [slot EXCEPT ![i] = Received(@, pieces, whole)]
           /\ loop' = IF whole THEN [loop EXCEPT !.at = "handle"] ELSE AfterRead(i, slot)
  BY <1>2
<1>4. whole \in BOOLEAN
  <2>1. ASSUME NEW b PROVE Complete(b) \subseteq BOOLEAN
    <3>1. CASE b[1].k = 1
      <4>1. (Len(b) >= b[1].len) \in BOOLEAN
        OBVIOUS
      <4>2. Complete(b) = {Len(b) >= b[1].len}
        BY <3>1, Zenon DEF Complete
      <4> QED BY <4>1, <4>2, Zenon
    <3>2. CASE b[1].k # 1
      BY <3>2, Zenon DEF Complete
    <3> QED BY <3>1, <3>2
  <2> QED BY <1>3, <2>1
<1>5. slot[i].avail /\ c \in Conns /\ peer[c] \in Alive /\ Counts(i) /\ slot[i] \in SlotRecord
  BY <1>1, <1>2, SlotOfTurn DEF At
<1>6. stream[c] \in Seq(Piece) /\ Len(stream[c]) \in Nat /\ slot[i].room \in Nat /\ slot[i].left \in Nat
      /\ slot[i].send \in 0..ReplyLength
  BY <1>5 DEF TypeOK, SlotRecord
<1>7. r \in Nat /\ r <= Len(stream[c]) /\ r <= slot[i].room /\ slot[i].room > 0
  BY <1>2, <1>6
<1> HIDE DEF r
<1>8. slot[i].room = slot[i].left /\ slot[i].send = 0
  BY <1>5, <1>6, <1>7, SizeAssumption DEF Counts
<1>9. slot[i].n = 0 /\ slot[i].left = slot[i].size - Len(slot[i].buf)
  BY <1>1, <1>2, <1>5, <1>8 DEF Counts, Handling, At
<1>10. c \notin loop.wr
  <2>1. i >= loop.i
    BY <1>1, SizeAssumption DEF Slots
  <2> QED BY <1>5, <1>8, <2>1 DEF Placed, StillWritable
<1>11. r \in 1..Len(stream[c])
  BY <1>2, <1>6, <1>7
<1>12. pieces \in Seq(Piece) /\ Len(pieces) = r
  <2>1. <<>> \in Seq(Piece)
    OBVIOUS
  <2> QED BY <1>6, <1>11, <2>1, Pieces
<1>13. Len(pieces) \in 1..slot[i].left
  BY <1>2, <1>6, <1>7, <1>8, <1>12
<1>14. slot' = [slot EXCEPT ![i] = Received(slot[i], pieces, whole)]
  BY <1>3 DEF TypeOK
<1>15. stream' = [stream EXCEPT ![c] = SubSeq(@, r + 1, Len(@))]
  BY <1>2
<1>16. pieces = SubSeq(stream[c], 1, r)
  OBVIOUS
<1> HIDE DEF pieces, c
<1>17. c = slot[i].conn
  BY DEF c
<1> /\ c \in Conns /\ r \in Nat
    /\ pieces \in Seq(Piece)
  BY <1>5, <1>7, <1>12
<1> WITNESS i \in Slots, c \in Conns, r \in Nat, pieces \in Seq(Piece), whole \in BOOLEAN
<1> QED BY <1>1, <1>3, <1>5, <1>7, <1>8, <1>9, <1>10, <1>11, <1>13, <1>14, <1>15, <1>16, <1>17, Zenon DEF Took

LEMMA ReceivePlaced ==
  ASSUME TypeOK, Placed, Receive
  PROVE  TypeOK' /\ Placed'
<1>1. PICK i \in Slots, c \in Conns, r \in Nat, pieces \in Seq(Piece), whole \in BOOLEAN :
             Took(i, c, r, pieces, whole)
  BY ReceiveGives
<1>0. /\ i = loop.i /\ c = slot[i].conn /\ slot[i].avail /\ slot[i] \in SlotRecord
      /\ slot[i].send = 0 /\ slot[i].n = 0 /\ c \notin loop.wr /\ r \in 1..Len(stream[c])
      /\ stream' = [stream EXCEPT ![c] = SubSeq(@, r + 1, Len(@))]
      /\ loop' = IF whole THEN [loop EXCEPT !.at = "handle"] ELSE AfterRead(i, slot)
  BY <1>1 DEF Took
<1> DEFINE s == Received(slot[i], pieces, whole)
<1>2. /\ At("read") /\ loop.at \in {"read", "write", "handle"}
      /\ UNCHANGED <<peer, backlog, greeted, last, eager, stalled, got, exit>>
  BY DEF Receive, At
<1>3. /\ s \in SlotRecord /\ s.avail /\ s.conn = slot[i].conn /\ s.send = 0
      /\ s.left > 0 /\ s.left = s.size - Len(s.buf)
      /\ s.room = IF whole THEN 0 ELSE s.left
      /\ ~whole => s.n = 0
  <2>1. s = Received(slot[i], pieces, whole)
    OBVIOUS
  <2> HIDE DEF s
  <2>2. slot[i] \in SlotRecord /\ slot[i].left = slot[i].size - Len(slot[i].buf)
        /\ Len(pieces) \in 1..slot[i].left /\ whole \in Complete(slot[i].buf \o pieces)
    BY <1>1 DEF Took
  <2>3. ReceivedFrom(slot[i], pieces, whole, s)
    BY <2>1, <2>2, ReceivedSlot, Zenon
  <2> QED BY <1>0, <2>3 DEF ReceivedFrom
<1> HIDE DEF s
<1>4. slot' = [slot EXCEPT ![i] = s]
  BY <1>1 DEF Took, s
<1>5. \A j \in Slots : slot'[j] = IF j = i THEN s ELSE slot[j]
  BY <1>3, <1>4, SlotSet
<1>6. loop.new = NoConn /\ loop.wr \in SUBSET Conns /\ i \in 0..SlotCount /\ loop \in LoopRecord /\ i # 0
  <2>1. i # 0
    BY SizeAssumption DEF Slots
  <2> QED BY <1>0, <1>2, <2>1, SlotOfTurn DEF TypeOK
<1>7. \A d \in loop.wr : peer'[d] # "away" /\ ~Queued(d)' /\ d # NoConn
  BY <1>2, <1>6, SizeAssumption DEF Placed, StillWritable, Queued
<1>8. \A j \in Slots : j >= i /\ slot'[j].avail /\ slot'[j].conn \in loop.wr => slot'[j].send > 0
  <2>1. \A j \in Slots : j # i => slot'[j] = slot[j]
    BY <1>5
  <2>2. slot'[i].conn \notin loop.wr
    BY <1>0, <1>3, <1>5
  <2> QED BY <1>0, <2>1, <2>2 DEF Placed, StillWritable
<1>9. loop' \in LoopRecord /\ LoopPlace' /\ StillWritable' /\ loop'.new = NoConn /\ (whole => Handling(i)')
  <2>1. CASE whole
    <3>1. loop' = [loop EXCEPT !.at = "handle"] /\ loop' \in LoopRecord
      BY <1>0, <1>6, <2>1 DEF LoopRecord
    <3>2. loop'.at = "handle" /\ loop'.i = i /\ loop'.wr = loop.wr /\ loop'.new = NoConn
      BY <1>0, <1>6, <3>1 DEF LoopRecord
    <3>3. slot'[i] = s /\ s.room = 0
      BY <1>3, <1>5, <2>1
    <3>4. LoopPlace'
      BY <1>3, <1>6, <3>2, <3>3 DEF LoopPlace, At
    <3>5. StillWritable'
      BY <1>7, <1>8, <3>2 DEF StillWritable
    <3> QED BY <3>1, <3>2, <3>4, <3>5 DEF Handling, At
  <2>2. CASE ~whole
    <3>1. loop' = AfterRead(i, slot)
      BY <1>0, <2>2
    <3>2. Turned(loop', i, loop.wr, slot)
      BY <1>0, <1>6, <3>1, AfterReadGives
    <3>3. \A j \in Slots : j > i => slot'[j] = slot[j] /\ j >= i
      BY <1>5, <1>6, SizeAssumption DEF Slots
    <3> QED BY <1>6, <1>7, <1>8, <2>2, <3>2, <3>3, TurnPlaces
  <2> QED BY <2>1, <2>2
<1>10. Counts(i)'
  <2>1. slot'[i] = s
    BY <1>5
  <2> QED BY <1>0, <1>3, <1>9, <2>1 DEF Counts
<1>11. slot' \in [Slots -> SlotRecord] /\ (\A j \in Slots : Counts(j)') /\ OneSlot' /\ OnePlace'
  BY <1>0, <1>2, <1>3, <1>4, <1>9, <1>10, SlotKept
<1>12. stream' \in [Conns -> Seq(Piece)]
  <2>1. stream[c] \in Seq(Piece) /\ <<>> \in Seq(Piece)
    BY DEF TypeOK
  <2>2. SubSeq(stream[c], r + 1, Len(stream[c])) \in Seq(Piece)
    BY <1>0, <2>1, Pieces
  <2> QED BY <1>0, <2>2 DEF TypeOK
<1>13. TypeOK'
  BY <1>2, <1>9, <1>11, <1>12 DEF TypeOK
<1> QED BY <1>9, <1>11, <1>13 DEF Placed

\* What a turn that ends a connection leaves.
LEMMA ClosedTurn ==
  ASSUME TypeOK, Placed, loop.at \in {"read", "write"}, NEW i \in Slots, i = loop.i,
         NEW c, c = slot[i].conn,
         slot' = [slot EXCEPT ![i] = Closed(@)],
         peer' = [peer EXCEPT ![c] = "closed"], UNCHANGED backlog,
         Turned(loop', i, loop.wr, slot')
  PROVE  /\ slot' \in [Slots -> SlotRecord] /\ loop' \in LoopRecord /\ Placed'
         /\ peer' \in [Conns -> {"away", "open", "shut", "reset", "closed"}]
<1>1. loop'.new = NoConn
  BY DEF Turned, Waiting
<1>2. /\ slot' \in [Slots -> SlotRecord]
      /\ \A j \in Slots : slot'[j] = IF j = i THEN Closed(slot[j]) ELSE slot[j]
      /\ (\A j \in Slots : Counts(j)') /\ OneSlot' /\ OnePlace'
  BY <1>1, SlotClosed
<1>3. loop.wr \in SUBSET Conns /\ i \in 0..SlotCount /\ \A j \in Slots : j > i => j >= i /\ j # i
  BY SlotOfTurn, SizeAssumption DEF Slots
<1>4. peer' \in [Conns -> {"away", "open", "shut", "reset", "closed"}]
      /\ \A d \in Conns : peer'[d] = IF d = c THEN "closed" ELSE peer[d]
  BY SlotOfTurn DEF TypeOK
<1>5. \A d \in loop.wr : peer'[d] # "away" /\ ~Queued(d)'
  BY <1>3, <1>4 DEF Placed, StillWritable, Queued
<1>6. \A j \in Slots : j > i /\ slot'[j].avail /\ slot'[j].conn \in loop.wr => slot'[j].send > 0
  BY <1>2, <1>3 DEF Placed, StillWritable
<1>7. loop' \in LoopRecord /\ LoopPlace' /\ StillWritable'
  BY <1>3, <1>5, <1>6, TurnPlaces
<1> QED BY <1>2, <1>4, <1>7 DEF Placed

LEMMA HangupPlaced ==
  ASSUME TypeOK, Placed, Hangup
  PROVE  TypeOK' /\ Placed'
<1>1. PICK i \in Slots : i = loop.i
  BY SlotOfTurn DEF Hangup, At
<1> DEFINE c == slot[i].conn
<1>2. /\ At("read") /\ slot[i].room > 0 /\ loop' = AfterRead(i, slot')
      /\ slot' = [slot EXCEPT ![i] = Closed(@)] /\ peer' = [peer EXCEPT ![c] = "closed"]
      /\ UNCHANGED <<greeted, stream, last, eager, stalled, got, backlog, exit>>
  BY <1>1 DEF Hangup
<1>3. slot[i].avail /\ Counts(i) /\ loop.new = NoConn /\ slot[i] \in SlotRecord /\ i >= i
  BY <1>1, <1>2, SlotOfTurn, SizeAssumption DEF At, Slots
<1>4. c \notin loop.wr
  <2>1. slot[i].send \in 0..ReplyLength
    BY <1>3 DEF SlotRecord
  <2>2. ~(slot[i].send > 0)
    BY <1>2, <1>3, SizeAssumption DEF Counts
  <2> QED BY <1>1, <1>3, <2>2 DEF Placed, StillWritable
<1>5. Turned(loop', i, loop.wr, slot')
  BY <1>1, <1>2, <1>3, <1>4, AfterReadGives
<1>6. /\ slot' \in [Slots -> SlotRecord] /\ loop' \in LoopRecord /\ Placed'
      /\ peer' \in [Conns -> {"away", "open", "shut", "reset", "closed"}]
  BY <1>1, <1>2, <1>5, ClosedTurn DEF At
<1> QED BY <1>2, <1>6 DEF TypeOK

\* A call of send(), of the write half of a turn: its slot is in use and has something to send.
SentAll(i, c) ==
  /\ slot' = [slot EXCEPT ![i] = Sent(slot[i])] /\ peer[c] # "reset"
  /\ got' = [got EXCEPT ![c] = Append(@, slot[i].n)] /\ UNCHANGED peer
SentSome(i) ==
  /\ UNCHANGED <<got, peer>>
  /\ \E r \in 1..slot[i].send - 1 : slot' = [slot EXCEPT ![i] = [slot[i] EXCEPT !.send = @ - r]]
SentNone(i, c) ==
  /\ slot' = [slot EXCEPT ![i] = Closed(@)] /\ peer' = [peer EXCEPT ![c] = "closed"]
  /\ peer[c] = "reset" /\ UNCHANGED got
Written(i, c) ==
  /\ i = loop.i /\ c = slot[i].conn /\ slot[i].avail /\ slot[i] \in SlotRecord /\ slot[i].send > 0
  /\ slot[i].left = slot[i].size - Len(slot[i].buf) /\ slot[i].left > 0 /\ slot[i].room = 0
  /\ Turned(loop', i, loop.wr, slot') /\ peer[c] \in Alive
  /\ UNCHANGED <<greeted, stream, last, eager, stalled, backlog, exit>>
  /\ \/ SentAll(i, c) \/ SentSome(i) \/ SentNone(i, c)

LEMMA WriteGives ==
  ASSUME TypeOK, Placed, Write
  PROVE  \E i \in Slots, c \in Conns : Written(i, c)
<1>1. PICK i \in Slots : i = loop.i
  BY SlotOfTurn DEF Write, At
<1>2. PICK c \in Conns : c = slot[i].conn
  BY <1>1, SlotOfTurn DEF Write, At
<1>3. /\ At("write") /\ loop' = Turn(i, loop.rd, loop.wr, slot')
      /\ UNCHANGED <<greeted, stream, last, eager, stalled, backlog, exit>>
      /\ \/ /\ peer[c] # "reset"
            /\ \E r \in 1..slot[i].send :
                   IF r = slot[i].send
                   THEN /\ slot' = [slot EXCEPT ![i] = Sent(@)]
                        /\ got' = [got EXCEPT ![c] = Append(@, slot[i].n)]
                   ELSE /\ slot' = [slot EXCEPT ![i].send = @ - r]
                        /\ UNCHANGED got
            /\ UNCHANGED peer
         \/ /\ peer[c] = "reset"
            /\ slot' = [slot EXCEPT ![i] = Closed(@)]
            /\ peer' = [peer EXCEPT ![c] = "closed"]
            /\ UNCHANGED got
  BY <1>1, <1>2 DEF Write
<1>4. slot[i].avail /\ slot[i] \in SlotRecord /\ peer[c] \in Alive /\ Counts(i) /\ slot[i].conn \in loop.wr
      /\ i \in 0..SlotCount /\ i >= i
  BY <1>1, <1>2, <1>3, SlotOfTurn, SizeAssumption DEF At, Slots, Placed, LoopPlace
<1>5. slot[i].send > 0 /\ slot[i].send \in 0..ReplyLength
  BY <1>1, <1>4 DEF Placed, StillWritable, SlotRecord
<1>6. Turned(loop', i, loop.wr, slot')
  <2>1. loop.rd \in SUBSET Conns /\ loop.wr \in SUBSET Conns
    BY DEF TypeOK, LoopRecord
  <2> QED BY <1>3, <1>4, <2>1, TurnGives
<1>7. slot[i].left = slot[i].size - Len(slot[i].buf) /\ slot[i].left > 0 /\ slot[i].room = 0
  BY <1>4, <1>5 DEF Counts
<1>8. SentAll(i, c) \/ SentSome(i) \/ SentNone(i, c)
  <2>1. CASE peer[c] = "reset"
    BY <1>3, <2>1 DEF SentNone
  <2>2. CASE peer[c] # "reset"
    <3>1. PICK r \in 1..slot[i].send :
                   IF r = slot[i].send
                   THEN /\ slot' = [slot EXCEPT ![i] = Sent(@)]
                        /\ got' = [got EXCEPT ![c] = Append(@, slot[i].n)]
                   ELSE /\ slot' = [slot EXCEPT ![i].send = @ - r]
                        /\ UNCHANGED got
      BY <1>3, <2>2
    <3>2. CASE r = slot[i].send
      BY <1>3, <2>2, <3>1, <3>2 DEF TypeOK, SentAll
    <3>3. CASE r # slot[i].send
      <4>1. r \in 1..slot[i].send - 1
        BY <1>5, <3>3, SizeAssumption
      <4>2. slot' = [slot EXCEPT ![i] = [slot[i] EXCEPT !.send = @ - r]]
        BY <3>1, <3>3 DEF TypeOK
      <4> QED BY <1>3, <2>2, <3>1, <3>3, <4>1, <4>2 DEF SentSome
    <3> QED BY <3>2, <3>3
  <2> QED BY <2>1, <2>2
<1> QED BY <1>1, <1>2, <1>3, <1>4, <1>5, <1>6, <1>7, <1>8 DEF Written

LEMMA WritePlaced ==
  ASSUME TypeOK, Placed, Write
  PROVE  TypeOK' /\ Placed'
<1>1. PICK i \in Slots, c \in Conns : Written(i, c)
  BY WriteGives
<1>0. /\ i = loop.i /\ c = slot[i].conn /\ slot[i].avail /\ slot[i] \in SlotRecord /\ slot[i].send > 0
      /\ slot[i].left = slot[i].size - Len(slot[i].buf) /\ slot[i].left > 0 /\ slot[i].room = 0
      /\ Turned(loop', i, loop.wr, slot') /\ UNCHANGED <<greeted, stream, last, eager, stalled, backlog, exit>>
  BY <1>1 DEF Written
<1>2. loop.at \in {"read", "write"} /\ loop.at \in {"read", "write", "handle"}
  BY DEF Write, At
<1>3. got' \in [Conns -> Seq(0..MaxRequests)]
  <2>1. slot[i].n \in 0..MaxRequests
    BY <1>0 DEF SlotRecord
  <2>2. got' = got \/ got' = [got EXCEPT ![c] = Append(@, slot[i].n)]
    BY <1>1 DEF Written, SentAll, SentSome, SentNone
  <2>3. got \in [Conns -> Seq(0..MaxRequests)] /\ got[c] \in Seq(0..MaxRequests)
    BY DEF TypeOK
  <2>4. Append(got[c], slot[i].n) \in Seq(0..MaxRequests)
    BY <2>1, <2>3, AppendProperties
  <2> QED BY <2>2, <2>3, <2>4
\* An answer, or a part of it, has gone.
<1>4. ASSUME NEW s \in SlotRecord, s.avail, s.conn = slot[i].conn, slot' = [slot EXCEPT ![i] = s],
             UNCHANGED peer, s.left = s.size - Len(s.buf), s.left > 0, s.room \in {0, s.left},
             s.send > 0 => s.room = 0, s.send = 0 => s.n = 0
      PROVE  /\ slot' \in [Slots -> SlotRecord] /\ loop' \in LoopRecord /\ Placed'
             /\ peer' \in [Conns -> {"away", "open", "shut", "reset", "closed"}]
  <2>1. slot' \in [Slots -> SlotRecord] /\ \A j \in Slots : slot'[j] = IF j = i THEN s ELSE slot[j]
    BY <1>4, SlotSet
  <2>2. Counts(i)'
    BY <1>0, <1>4, <2>1 DEF Counts
  <2>3. loop'.new = NoConn
    BY <1>0 DEF Turned, Waiting
  <2>4. (\A j \in Slots : Counts(j)') /\ OneSlot' /\ OnePlace'
    BY <1>0, <1>2, <1>4, <2>2, <2>3, SlotKept
  <2>5. loop.wr \in SUBSET Conns /\ i \in 0..SlotCount /\ \A j \in Slots : j > i => j >= i /\ j # i
    BY SlotOfTurn, SizeAssumption DEF Slots, TypeOK, LoopRecord
  <2>6. \A d \in loop.wr : peer'[d] # "away" /\ ~Queued(d)'
    BY <1>0, <1>4 DEF Placed, StillWritable, Queued
  <2>7. \A j \in Slots : j > i /\ slot'[j].avail /\ slot'[j].conn \in loop.wr => slot'[j].send > 0
    BY <1>0, <2>1, <2>5 DEF Placed, StillWritable
  <2>8. loop' \in LoopRecord /\ LoopPlace' /\ StillWritable'
    BY <1>0, <2>5, <2>6, <2>7, TurnPlaces
  <2> QED BY <1>4, <2>1, <2>4, <2>8 DEF Placed, TypeOK
<1>5. /\ slot' \in [Slots -> SlotRecord] /\ loop' \in LoopRecord /\ Placed'
      /\ peer' \in [Conns -> {"away", "open", "shut", "reset", "closed"}]
  <2>1. CASE SentAll(i, c)
    <3> DEFINE s == Sent(slot[i])
    <3>1. s \in SlotRecord /\ s.avail = slot[i].avail /\ s.conn = slot[i].conn /\ s.send = 0
          /\ s.room = slot[i].size /\ s.left = slot[i].size /\ s.size = slot[i].size /\ s.buf = <<>> /\ s.n = 0
      BY <1>0, OtherSlots
    <3>2. slot[i].size \in Nat /\ slot[i].size > 0
      <4>1. Len(slot[i].buf) \in Nat /\ slot[i].size \in Nat
        BY <1>0 DEF SlotRecord
      <4> QED BY <1>0, <4>1
    <3> HIDE DEF s
    <3>3. s.left = s.size - Len(s.buf) /\ s.left > 0 /\ s.room \in {0, s.left} /\ (s.send > 0 => s.room = 0)
      BY <3>1, <3>2
    <3>4. slot' = [slot EXCEPT ![i] = s]
      BY <2>1 DEF s, SentAll
    <3>5. UNCHANGED peer
      BY <2>1 DEF SentAll
    <3> QED BY <1>0, <1>4, <3>1, <3>3, <3>4, <3>5
  <2>2. CASE SentSome(i)
    <3>1. PICK r \in 1..slot[i].send - 1 : slot' = [slot EXCEPT ![i] = [slot[i] EXCEPT !.send = @ - r]]
      BY <2>2 DEF SentSome
    <3> DEFINE s == [slot[i] EXCEPT !.send = @ - r]
    <3>2. slot[i].send - r \in 0..ReplyLength /\ slot[i].send - r > 0
      <4>1. slot[i].send \in 0..ReplyLength
        BY <1>0 DEF SlotRecord
      <4> QED BY <3>1, <4>1, SizeAssumption
    <3>3. s \in SlotRecord
      BY <1>0, <3>2 DEF SlotRecord
    <3>4. s.avail = slot[i].avail /\ s.conn = slot[i].conn /\ s.send = slot[i].send - r
          /\ s.room = slot[i].room /\ s.left = slot[i].left /\ s.size = slot[i].size /\ s.buf = slot[i].buf
      BY <1>0 DEF SlotRecord
    <3> HIDE DEF s
    <3>5. slot' = [slot EXCEPT ![i] = s]
      BY <3>1 DEF s
    <3>6. /\ s.avail /\ s.conn = slot[i].conn /\ s.left = s.size - Len(s.buf) /\ s.left > 0
          /\ s.room \in {0, s.left} /\ (s.send > 0 => s.room = 0) /\ (s.send = 0 => s.n = 0)
      BY <1>0, <3>2, <3>4
    <3>7. UNCHANGED peer
      BY <2>2 DEF SentSome
    <3> QED BY <1>4, <3>3, <3>5, <3>6, <3>7
  <2>3. CASE SentNone(i, c)
    BY <1>0, <1>2, <2>3, ClosedTurn DEF SentNone
  <2> QED BY <1>1, <2>1, <2>2, <2>3 DEF Written
<1> QED BY <1>0, <1>3, <1>5 DEF TypeOK

LEMMA HeadLeaves ==
  ASSUME TypeOK, Placed, backlog # <<>>, backlog' = Tail(backlog)
  PROVE  /\ Head(backlog) \in Conns /\ Queued(Head(backlog)) /\ backlog' \in Seq(Conns)
         /\ \A d \in Conns : Queued(d)' <=> Queued(d) /\ d # Head(backlog)
         /\ \A m, n \in DOMAIN backlog' : backlog'[m] = backlog'[n] => m = n
<1>1. backlog \in Seq(Conns) /\ Len(backlog) \in Nat /\ Len(backlog) > 0
  BY DEF TypeOK
<1>2. /\ Head(backlog) = backlog[1] /\ backlog' \in Seq(Conns) /\ Len(backlog') = Len(backlog) - 1
      /\ \A n \in 1..Len(backlog) - 1 : backlog'[n] = backlog[n + 1]
  BY <1>1
<1>3. DOMAIN backlog = 1..Len(backlog) /\ DOMAIN backlog' = 1..Len(backlog) - 1 /\ 1 \in 1..Len(backlog)
  BY <1>1, <1>2
<1>4. Head(backlog) \in Conns /\ Queued(Head(backlog))
  BY <1>1, <1>2, <1>3 DEF Queued
<1>5. \A m, n \in 1..Len(backlog) : backlog[m] = backlog[n] => m = n
  BY <1>3 DEF Placed, OnePlace
<1>6. \A m, n \in DOMAIN backlog' : backlog'[m] = backlog'[n] => m = n
  <2> SUFFICES ASSUME NEW m \in 1..Len(backlog) - 1, NEW n \in 1..Len(backlog) - 1, backlog'[m] = backlog'[n]
               PROVE  m = n
    BY <1>3
  <2>1. backlog[m + 1] = backlog[n + 1] /\ m + 1 \in 1..Len(backlog) /\ n + 1 \in 1..Len(backlog)
    BY <1>1, <1>2
  <2> QED BY <1>5, <2>1
<1>7. ASSUME NEW d \in Conns PROVE Queued(d)' <=> Queued(d) /\ d # Head(backlog)
  <2>1. ASSUME Queued(d)' PROVE Queued(d) /\ d # Head(backlog)
    <3>1. PICK n \in 1..Len(backlog) - 1 : backlog'[n] = d
      BY <1>3, <2>1 DEF Queued
    <3>2. backlog[n + 1] = d /\ n + 1 \in 1..Len(backlog) /\ n + 1 # 1
      BY <1>1, <1>2, <3>1
    <3>3. d # backlog[1]
      BY <1>3, <1>5, <3>2
    <3> QED BY <1>2, <1>3, <3>2, <3>3 DEF Queued
  <2>2. ASSUME Queued(d), d # Head(backlog) PROVE Queued(d)'
    <3>1. PICK n \in 1..Len(backlog) : backlog[n] = d
      BY <1>3, <2>2 DEF Queued
    <3>2. n # 1
      BY <1>2, <2>2, <3>1
    <3>3. n - 1 \in 1..Len(backlog) - 1 /\ (n - 1) + 1 = n
      BY <1>1, <3>2
    <3>4. backlog'[n - 1] = d
      BY <1>2, <3>1, <3>3
    <3> QED BY <1>3, <3>3, <3>4 DEF Queued
  <2> QED BY <2>1, <2>2
<1> QED BY <1>2, <1>4, <1>6, <1>7

\* The connection the loop has in hand, in accept() or in the handshake.
InHand(c) ==
  /\ loop.i = 0 /\ loop.new \in {NoConn, c} /\ peer[c] \in Alive /\ ~InSlot(c) /\ c \notin loop.wr
  /\ backlog' \in Seq(Conns) /\ \A d \in Conns : Queued(d)' <=> Queued(d) /\ d # c
  /\ \A m, n \in DOMAIN backlog' : backlog'[m] = backlog'[n] => m = n

LEMMA RefusePlaced ==
  ASSUME TypeOK, Placed, NEW c \in Conns, InHand(c), Refuse(c)
  PROVE  /\ slot' \in [Slots -> SlotRecord] /\ loop' \in LoopRecord /\ Placed'
         /\ peer' \in [Conns -> {"away", "open", "shut", "reset", "closed"}]
<1>1. /\ peer' = [peer EXCEPT ![c] = "closed"] /\ slot' = slot
      /\ loop' = Turn(0, loop.rd, loop.wr, slot) /\ loop.i = 0
  BY DEF Refuse, InHand
<1>2. /\ loop.rd \in SUBSET Conns /\ loop.wr \in SUBSET Conns /\ 0 \in 0..SlotCount
      /\ slot \in [Slots -> SlotRecord] /\ peer' \in [Conns -> {"away", "open", "shut", "reset", "closed"}]
  BY <1>1, SizeAssumption DEF TypeOK, LoopRecord
<1>3. Turned(loop', 0, loop.wr, slot)
  BY <1>1, <1>2, TurnGives
<1>4. \A d \in Conns : peer'[d] = IF d = c THEN "closed" ELSE peer[d]
  BY <1>1 DEF TypeOK
<1>5. \A d \in loop.wr : peer'[d] # "away" /\ ~Queued(d)'
  BY <1>2, <1>4 DEF Placed, StillWritable, InHand
<1>6. \A j \in Slots : j > 0 /\ slot'[j].avail /\ slot'[j].conn \in loop.wr => slot'[j].send > 0
  BY <1>1 DEF Placed, StillWritable, Slots
<1>7. loop' \in LoopRecord /\ LoopPlace' /\ StillWritable' /\ loop'.new = NoConn /\ loop'.at # "handle"
  BY <1>1, <1>2, <1>3, <1>5, <1>6, TurnPlaces
<1>8. (\A j \in Slots : Counts(j)') /\ OneSlot'
  <2>1. ASSUME NEW j \in Slots PROVE Counts(j)'
    <3>1. j # 0
      BY DEF Slots
    <3> QED BY <1>1, <3>1 DEF Placed, Counts, Handling
  <2> QED BY <1>1, <2>1 DEF Placed, OneSlot
<1>9. \A d \in Conns : InSlot(d)' <=> InSlot(d)
  BY <1>1 DEF InSlot
<1>10. OnePlace'
  BY <1>4, <1>7, <1>9, SizeAssumption DEF Placed, OnePlace, InHand, Alive
<1> QED BY <1>1, <1>2, <1>7, <1>8, <1>10 DEF Placed

LEMMA PlacePlaced ==
  ASSUME TypeOK, Placed, NEW c \in Conns, InHand(c), Place(c)
  PROVE  /\ slot' \in [Slots -> SlotRecord] /\ loop' \in LoopRecord /\ Placed'
         /\ peer' \in [Conns -> {"away", "open", "shut", "reset", "closed"}]
<1> DEFINE free == {j \in Slots : ~slot[j].avail}
           i == CHOOSE j \in free : \A k \in free : j <= k
<1>1. CASE free = {}
  BY <1>1, RefusePlaced DEF Place, Refuse
<1>2. CASE free # {}
  <2>1. /\ slot' = [slot EXCEPT ![i] = Connected(c)] /\ peer' = peer
        /\ loop' = Turn(0, loop.rd, loop.wr, slot) /\ loop.i = 0
    BY <1>2 DEF Place, InHand
  <2>2. i \in free
    <3>1. free \in SUBSET Slots
      OBVIOUS
    <3> HIDE DEF free
    <3>2. \E j \in free : \A k \in free : j <= k
      BY <1>2, <3>1, FirstSlot
    <3> QED BY <3>2
  <2>3. i \in Slots /\ ~slot[i].avail
    BY <2>2
  <2>4. PICK s : s = Connected(c)
    OBVIOUS
  <2>5. s \in SlotRecord /\ s.avail /\ s.conn = c /\ s.send = 0 /\ s.room = s.left /\ s.left > 0
        /\ s.left = s.size - Len(s.buf) /\ s.n = 0
    <3>1. s.avail /\ s.conn = c /\ s.send = 0 /\ s.room = Chunk /\ s.left = Chunk
          /\ s.size = Chunk /\ s.buf = <<>> /\ s.n = 0
      BY <2>4 DEF Connected
    <3>2. s \in SlotRecord /\ Chunk \in Nat /\ Chunk > 0
      BY <2>4, SlotValues, SizeAssumption
    <3> QED BY <3>1, <3>2
  <2> HIDE DEF free, i
  <2>6. slot' \in [Slots -> SlotRecord] /\ \A j \in Slots : slot'[j] = IF j = i THEN s ELSE slot[j]
    BY <2>1, <2>3, <2>4, <2>5, SlotSet
  <2>7. loop.rd \in SUBSET Conns /\ loop.wr \in SUBSET Conns /\ 0 \in 0..SlotCount
    BY SizeAssumption DEF TypeOK, LoopRecord
  <2>8. Turned(loop', 0, loop.wr, slot)
    BY <2>1, <2>7, TurnGives
  <2>9. \A d \in loop.wr : peer'[d] # "away" /\ ~Queued(d)'
    BY <2>1, <2>7 DEF Placed, StillWritable, InHand
  <2>10. \A j \in Slots : slot[j].avail => slot'[j] = slot[j]
    BY <2>3, <2>6
  <2>11. \A j \in Slots : j > 0 /\ slot'[j].avail /\ slot'[j].conn \in loop.wr => slot'[j].send > 0
    BY <2>1, <2>5, <2>6 DEF Placed, StillWritable, Slots, InHand
  <2>12. loop' \in LoopRecord /\ LoopPlace' /\ StillWritable' /\ loop'.new = NoConn /\ loop'.at # "handle"
    BY <2>7, <2>8, <2>9, <2>10, <2>11, TurnPlaces
  <2>13. \A d \in Conns : InSlot(d)' <=> InSlot(d) \/ d = c
    <3>1. slot'[i].avail /\ slot'[i].conn = c
      BY <2>3, <2>5, <2>6
    <3>2. \A j \in Slots : j # i => slot'[j] = slot[j]
      BY <2>6
    <3> QED BY <2>3, <3>1, <3>2 DEF InSlot
  <2>14. OneSlot'
    BY <2>5, <2>6 DEF Placed, OneSlot, InHand, InSlot
  <2>15. ASSUME NEW j \in Slots PROVE Counts(j)'
    <3>1. CASE j = i
      BY <2>5, <2>6, <3>1 DEF Counts
    <3>2. CASE j # i
      <4>1. j # 0
        BY DEF Slots
      <4> QED BY <2>1, <2>6, <3>2, <4>1 DEF Placed, Counts, Handling
    <3> QED BY <3>1, <3>2
  <2>16. OnePlace'
    BY <2>1, <2>12, <2>13, SizeAssumption DEF Placed, OnePlace, InHand
  <2> QED BY <2>1, <2>6, <2>12, <2>14, <2>15, <2>16 DEF Placed, TypeOK
<1> QED BY <1>1, <1>2

LEMMA AcceptPlaced ==
  ASSUME TypeOK, Placed, Accept
  PROVE  TypeOK' /\ Placed'
<1> DEFINE c == Head(backlog)
<1>1. /\ At("accept") /\ backlog' = Tail(backlog) /\ backlog # <<>>
      /\ UNCHANGED <<greeted, stream, last, eager, stalled, got, exit>>
      /\ IF Cygwin
         THEN /\ loop' = [loop EXCEPT !.at = "guid", !.new = c]
              /\ UNCHANGED <<peer, slot>>
         ELSE Place(c)
  BY DEF Accept, Placed, LoopPlace
<1>2. c \in Conns /\ Queued(c) /\ backlog' \in Seq(Conns)
      /\ (\A d \in Conns : Queued(d)' <=> Queued(d) /\ d # c)
      /\ \A m, n \in DOMAIN backlog' : backlog'[m] = backlog'[n] => m = n
  BY <1>1, HeadLeaves
<1> HIDE DEF c
<1>3. loop.i = 0 /\ loop.new = NoConn /\ peer[c] \in Alive /\ ~InSlot(c) /\ c \notin loop.wr
  BY <1>1, <1>2 DEF Placed, LoopPlace, OnePlace, StillWritable, At
<1>4. CASE ~Cygwin
  <2>1. InHand(c)
    BY <1>2, <1>3 DEF InHand
  <2>2. /\ slot' \in [Slots -> SlotRecord] /\ loop' \in LoopRecord /\ Placed'
        /\ peer' \in [Conns -> {"away", "open", "shut", "reset", "closed"}]
    BY <1>1, <1>2, <1>4, <2>1, PlacePlaced
  <2> QED BY <1>1, <1>2, <2>2 DEF TypeOK
<1>5. CASE Cygwin
  <2>1. loop' = [loop EXCEPT !.at = "guid", !.new = c] /\ peer' = peer /\ slot' = slot /\ loop \in LoopRecord
    BY <1>1, <1>5 DEF TypeOK
  <2>2. loop' \in LoopRecord /\ loop'.at = "guid" /\ loop'.new = c /\ loop'.i = 0 /\ loop'.wr = loop.wr
    BY <1>2, <1>3, <2>1 DEF LoopRecord
  <2>3. TypeOK'
    BY <1>1, <1>2, <2>1, <2>2 DEF TypeOK
  <2>4. \A d \in Conns : InSlot(d)' <=> InSlot(d)
    BY <2>1 DEF InSlot
  <2>5. OnePlace'
    BY <1>2, <1>3, <2>1, <2>2, <2>4, SizeAssumption DEF Placed, OnePlace
  <2>6. LoopPlace'
    BY <1>2, <2>2, SizeAssumption DEF LoopPlace, At
  <2>7. StillWritable'
    BY <1>2, <1>3, <2>1, <2>2 DEF Placed, StillWritable, TypeOK, LoopRecord
  <2>8. (\A j \in Slots : Counts(j)') /\ OneSlot'
    BY <1>1, <2>1, <2>2 DEF Placed, Counts, OneSlot, Handling, At
  <2> QED BY <2>3, <2>5, <2>6, <2>7, <2>8 DEF Placed
<1> QED BY <1>4, <1>5, SizeAssumption

LEMMA HandshakePlaced ==
  ASSUME TypeOK, Placed, Handshake
  PROVE  TypeOK' /\ Placed'
<1> DEFINE c == loop.new
<1>1. /\ loop.at \in {"guid", "ids"} /\ UNCHANGED <<greeted, stream, last, eager, stalled, got, backlog, exit>>
      /\ \/ loop' = [loop EXCEPT !.at = "ids"] /\ UNCHANGED <<peer, slot>>
         \/ Place(c) \/ Refuse(c)
  BY DEF Handshake, At
<1>2. c \in Conns /\ loop.i = 0
  BY <1>1 DEF TypeOK, LoopRecord, Placed, LoopPlace
<1>3. PICK d \in Conns : d = c
  BY <1>2
<1>4. peer[d] \in Alive /\ ~InSlot(d) /\ ~Queued(d) /\ d \notin loop.wr
  BY <1>2, <1>3 DEF Placed, OnePlace, StillWritable
<1>5. InHand(d)
  BY <1>1, <1>2, <1>3, <1>4 DEF InHand, Queued, TypeOK, Placed, OnePlace
<1>6. CASE Place(c) \/ Refuse(c)
  <2>1. /\ slot' \in [Slots -> SlotRecord] /\ loop' \in LoopRecord /\ Placed'
        /\ peer' \in [Conns -> {"away", "open", "shut", "reset", "closed"}]
    BY <1>3, <1>5, <1>6, PlacePlaced, RefusePlaced
  <2> QED BY <1>1, <2>1 DEF TypeOK
<1>7. CASE loop' = [loop EXCEPT !.at = "ids"] /\ UNCHANGED <<peer, slot>>
  <2>1. loop \in LoopRecord
    BY DEF TypeOK
  <2>2. loop' \in LoopRecord /\ loop'.at = "ids" /\ loop'.new = loop.new /\ loop'.i = 0 /\ loop'.wr = loop.wr
    BY <1>2, <1>7, <2>1 DEF LoopRecord
  <2>3. TypeOK'
    BY <1>1, <1>7, <2>2 DEF TypeOK
  <2>4. OnePlace' /\ StillWritable' /\ OneSlot' /\ \A j \in Slots : Counts(j)'
    BY <1>1, <1>2, <1>7, <2>2
       DEF Placed, OnePlace, StillWritable, OneSlot, Counts, InSlot, Queued, Handling, At
  <2>5. LoopPlace'
    BY <1>2, <2>2, SizeAssumption DEF LoopPlace, At
  <2> QED BY <2>3, <2>4, <2>5 DEF Placed
<1> QED BY <1>1, <1>6, <1>7

\* Connections that were idle too long are closed, others flushed.
LEMMA ExpirePlaced ==
  ASSUME TypeOK, Placed, Expire
  PROVE  TypeOK' /\ Placed'
<1> DEFINE due  == {i \in Slots : slot[i].avail /\ slot[i].timer = "due"}
           idle == {i \in due : slot[i].buf = <<>>}
<1>1. /\ At("select") /\ UNCHANGED <<greeted, stream, last, eager, stalled, got, backlog, loop, exit>>
      /\ slot' = [i \in Slots |-> IF i \in idle THEN Closed(slot[i])
                                    ELSE IF i \in due THEN Flushed(slot[i]) ELSE slot[i]]
      /\ peer' = [c \in Conns |-> IF \E i \in idle : slot[i].conn = c
                                    THEN "closed" ELSE peer[c]]
  BY DEF Expire
<1>2. \A i \in idle : i \in due
  OBVIOUS
<1>3. \A i \in due : i \in Slots /\ slot[i].avail
  OBVIOUS
<1> HIDE DEF due, idle
<1>4. loop.i = 0 /\ loop.wr = {} /\ loop.new = NoConn
  BY <1>1 DEF Placed, LoopPlace, At
<1>5. \A i \in Slots : slot[i] \in SlotRecord
  BY DEF TypeOK
<1>6. \A i \in due : slot[i].left = slot[i].size - Len(slot[i].buf) /\ Counts(i)
  BY <1>3 DEF Placed, Counts
<1>7. \A i \in idle : slot'[i] \in SlotRecord /\ ~slot'[i].avail
  BY <1>1, <1>2, <1>3, <1>5, <1>6, OtherSlots
<1>8. ASSUME NEW i \in due, i \notin idle
      PROVE  /\ slot'[i] \in SlotRecord /\ slot'[i].avail /\ slot'[i].conn = slot[i].conn
             /\ slot'[i].send = slot[i].send /\ slot'[i].room = 0 /\ slot'[i].n = slot[i].n
             /\ slot'[i].left = slot[i].size /\ slot'[i].size = slot[i].size /\ slot'[i].buf = <<>>
  <2>1. slot'[i] = Flushed(slot[i]) /\ slot[i] \in SlotRecord /\ slot[i].avail
    BY <1>1, <1>3, <1>5, <1>8
  <2> QED BY <1>6, <2>1, OtherSlots
<1>9. \A i \in Slots : i \notin due => slot'[i] = slot[i]
  BY <1>1, <1>2
<1>10. slot' \in [Slots -> SlotRecord]
  <2>1. \A i \in Slots : slot'[i] \in SlotRecord
    BY <1>5, <1>7, <1>8, <1>9
  <2> QED BY <1>1, <2>1
<1>11. peer' \in [Conns -> {"away", "open", "shut", "reset", "closed"}]
  BY <1>1 DEF TypeOK
<1>12. TypeOK'
  BY <1>1, <1>10, <1>11 DEF TypeOK
<1>13. \A i \in Slots : i \notin idle => (slot'[i].avail <=> slot[i].avail) /\ slot'[i].conn = slot[i].conn
  BY <1>3, <1>8, <1>9
<1>14. ASSUME NEW i \in Slots PROVE Counts(i)'
  <2>1. CASE i \in idle
    BY <1>7, <2>1 DEF Counts
  <2>2. CASE i \in due /\ i \notin idle
    <3>1. slot[i].size > 0 /\ slot[i].size \in Nat
      <4>1. slot[i].size \in Nat /\ Len(slot[i].buf) \in Nat /\ slot[i].left > 0
        BY <1>3, <1>5, <1>6, <2>2 DEF Counts, SlotRecord
      <4> QED BY <1>6, <2>2, <4>1
    <3> QED BY <1>1, <1>3, <1>6, <1>8, <2>2, <3>1 DEF Counts, Handling, At
  <2>3. CASE i \notin due
    BY <1>1, <1>9, <2>3 DEF Placed, Counts, Handling, At
  <2> QED BY <1>2, <2>1, <2>2, <2>3
<1>15. OneSlot'
  BY <1>7, <1>13 DEF Placed, OneSlot
<1>16. \A d \in Conns : /\ InSlot(d)' => InSlot(d) /\ ~\E i \in idle : slot[i].conn = d
                        /\ InSlot(d) => InSlot(d)' \/ \E i \in idle : slot[i].conn = d
                        /\ (\E i \in idle : slot[i].conn = d) => InSlot(d)
                        /\ Queued(d)' <=> Queued(d)
  <2>1. \A i \in idle : i \in Slots /\ slot[i].avail
    BY <1>2, <1>3
  <2> SUFFICES ASSUME NEW d \in Conns
               PROVE  /\ InSlot(d)' => InSlot(d) /\ ~\E i \in idle : slot[i].conn = d
                      /\ InSlot(d) => InSlot(d)' \/ \E i \in idle : slot[i].conn = d
                      /\ (\E i \in idle : slot[i].conn = d) => InSlot(d)
                      /\ Queued(d)' <=> Queued(d)
    OBVIOUS
  <2>2. InSlot(d)' => InSlot(d) /\ ~\E i \in idle : slot[i].conn = d
    BY <1>7, <1>13, <2>1 DEF Placed, OneSlot, InSlot
  <2>3. InSlot(d) => InSlot(d)' \/ \E i \in idle : slot[i].conn = d
    BY <1>13 DEF InSlot
  <2>4. (\E i \in idle : slot[i].conn = d) => InSlot(d)
    BY <2>1 DEF InSlot
  <2>5. Queued(d)' <=> Queued(d)
    BY <1>1 DEF Queued
  <2> QED BY <2>2, <2>3, <2>4, <2>5
<1>17. OnePlace'
  BY <1>1, <1>4, <1>16, SizeAssumption DEF Placed, OnePlace, Alive
<1>18. LoopPlace' /\ StillWritable'
  BY <1>1, <1>4 DEF Placed, LoopPlace, StillWritable, At
<1> QED BY <1>12, <1>14, <1>15, <1>17, <1>18 DEF Placed

LEMMA FinishPlaced ==
  ASSUME TypeOK, Placed, Finish
  PROVE  TypeOK' /\ Placed'
<1>1. /\ slot' = [i \in Slots |-> FreeSlot] /\ backlog' = <<>> /\ loop' = [Waiting EXCEPT !.at = "stopped"]
      /\ peer' = [c \in Conns |-> IF peer[c] = "away" THEN "away" ELSE "closed"]
      /\ UNCHANGED <<greeted, stream, last, eager, stalled, got, exit>>
  BY DEF Finish
<1>2. \A i \in Slots : ~slot'[i].avail
  BY <1>1 DEF FreeSlot
<1>3. slot' \in [Slots -> SlotRecord]
  BY <1>1, SlotValues
<1>4. loop' = [at |-> "stopped", i |-> 0, rd |-> {}, wr |-> {}, new |-> NoConn]
  BY <1>1 DEF Waiting
<1>5. loop' \in LoopRecord /\ LoopPlace' /\ StillWritable'
  BY <1>4, SizeAssumption DEF LoopRecord, LoopPlace, StillWritable, At
<1>6. \A d \in Conns : ~InSlot(d)' /\ ~Queued(d)'
  BY <1>1, <1>2 DEF InSlot, Queued
<1>7. OnePlace' /\ OneSlot' /\ \A i \in Slots : Counts(i)'
  BY <1>1, <1>2, <1>4, <1>6, SizeAssumption DEF OnePlace, OneSlot, Counts
<1>8. TypeOK'
  BY <1>1, <1>3, <1>5 DEF TypeOK
<1> QED BY <1>5, <1>7, <1>8 DEF Placed

LEMMA StartPlaced ==
  ASSUME TypeOK, Placed, Start
  PROVE  TypeOK' /\ Placed'
<1>1. /\ At("stopped") /\ loop' = [at |-> "select", i |-> 0, rd |-> {}, wr |-> {}, new |-> NoConn]
      /\ UNCHANGED <<peer, backlog, slot>> /\ UNCHANGED <<clientVars, got>> /\ exit' = FALSE
  BY DEF Start, clientVars, Waiting
<1>2. loop' \in LoopRecord /\ LoopPlace' /\ StillWritable'
  BY <1>1, SizeAssumption DEF LoopRecord, LoopPlace, StillWritable, At
<1>3. loop.i = 0 /\ loop.new = NoConn
  BY <1>1 DEF Placed, LoopPlace, At
<1>4. OneSlot' /\ OnePlace' /\ \A j \in Slots : Counts(j)'
  BY <1>1, <1>3 DEF Placed, OnePlace, OneSlot, Counts, InSlot, Queued, Handling, At
<1>5. TypeOK'
  BY <1>1, <1>2 DEF TypeOK, clientVars
<1> QED BY <1>2, <1>4, <1>5 DEF Placed

\* Every step keeps the values' types and everything in its place.
LEMMA StepPlaced ==
  ASSUME TypeOK, Placed, LastSent, [Next]_vars
  PROVE  TypeOK' /\ Placed' /\ LastSent'
<1>1. CASE UNCHANGED vars
  <2>1. UNCHANGED <<peer, backlog, slot, loop>>
    BY <1>1 DEF vars
  <2> QED BY <1>1, <2>1, NothingMoves DEF vars, TypeOK, LastSent
<1>2. ASSUME NEW c \in Conns, Client(c)
      PROVE  TypeOK' /\ Placed' /\ LastSent'
  <2>1. CASE Connect(c)
    BY <2>1, ConnectPlaced DEF Connect, LastSent
  <2>2. CASE Greet(c)
    <3>1. greeted' \in [Conns -> {"none", "guid", "other", "ids"}]
      BY <2>2 DEF Greet, TypeOK
    <3> QED BY <2>2, <3>1, NothingMoves DEF Greet, TypeOK, LastSent
  <2>3. CASE Stall(c)
    <3>1. stalled' \in SUBSET Conns
      BY <2>3 DEF Stall, TypeOK
    <3> QED BY <2>3, <3>1, NothingMoves DEF Stall, TypeOK, LastSent
  <2>4. ASSUME NEW len \in Lengths, SendPiece(c, len)
        PROVE  TypeOK' /\ Placed' /\ LastSent'
    BY <2>4, SendPlaced
  <2>5. ASSUME NEW how \in {"shut", "reset"}, Leave(c, how)
        PROVE  TypeOK' /\ Placed' /\ LastSent'
    BY <2>5, LeavePlaced DEF Leave, LastSent
  <2> QED BY <1>2, <2>1, <2>2, <2>3, <2>4, <2>5 DEF Client
<1>3. ASSUME NEW i \in Slots, Elapse(i)
      PROVE  TypeOK' /\ Placed' /\ LastSent'
  BY <1>3, ElapsePlaced DEF Elapse, LastSent, clientVars
<1>4. CASE RequestExit
  BY <1>4, NothingMoves DEF RequestExit, TypeOK, LastSent, clientVars
<1>5. CASE Start
  BY <1>5, StartPlaced DEF Start, LastSent, clientVars
<1>6. CASE Server
  <2>1. UNCHANGED last
    BY <1>6 DEF Server, Select, Expire, Accept, Handshake, SkipRead, Receive, Hangup, Handled, Write, Finish,
                clientVars
  <2>2. LastSent'
    BY <2>1 DEF LastSent
  <2>3. TypeOK' /\ Placed'
    BY <1>6, SelectPlaced, ExpirePlaced, AcceptPlaced, HandshakePlaced, SkipReadPlaced, ReceivePlaced,
       HangupPlaced, HandledPlaced, WritePlaced, FinishPlaced DEF Server
  <2> QED BY <2>2, <2>3
<1> QED BY <1>1, <1>2, <1>3, <1>4, <1>5, <1>6 DEF Next

-----------------------------------------------------------------------------
(* One client's answers are in step.                                        *)

\* Nothing that Steady(c) speaks of changes.
Untouched(c) ==
  /\ got'[c] = got[c] /\ last'[c] = last[c] /\ stream'[c] = stream[c] /\ peer'[c] = peer[c]
  /\ \A i \in Slots : slot'[i].avail /\ slot'[i].conn = c <=> slot[i].avail /\ slot[i].conn = c
  /\ \A i \in Slots : slot[i].avail /\ slot[i].conn = c =>
       /\ slot'[i].room = slot[i].room /\ slot'[i].send = slot[i].send
       /\ slot'[i].buf = slot[i].buf /\ slot'[i].n = slot[i].n
       /\ Handling(i)' <=> Handling(i)

LEMMA UntouchedSteady ==
  ASSUME NEW c \in Conns, Steady(c), Untouched(c)
  PROVE  Steady(c)'
<1>1. InSlot(c)' <=> InSlot(c)
  BY DEF InSlot, Untouched
<1>2. \A b : (Quiescent(c, b) => Quiescent(c, b)') /\ (Arriving(c, b) => Arriving(c, b)')
  BY DEF Quiescent, Arriving, Untouched
<1>3. ASSUME NEW i \in Slots, slot'[i].avail, slot'[i].conn = c, peer'[c] \in {"open", "shut"}
      PROVE  (\/ Deaf(i)
              \/ slot[i].room > 0 /\ (Quiescent(c, slot[i].buf) \/ Arriving(c, slot[i].buf))
              \/ slot[i].room = 0 /\ ~Deaf(i) /\ Served(c, i))'
  <2>1. /\ slot[i].avail /\ slot[i].conn = c /\ peer[c] \in {"open", "shut"}
        /\ slot'[i].room = slot[i].room /\ slot'[i].send = slot[i].send
        /\ slot'[i].buf = slot[i].buf /\ slot'[i].n = slot[i].n
        /\ Handling(i)' <=> Handling(i)
    BY <1>3 DEF Untouched
  <2>2. \/ Deaf(i)
        \/ slot[i].room > 0 /\ (Quiescent(c, slot[i].buf) \/ Arriving(c, slot[i].buf))
        \/ slot[i].room = 0 /\ ~Deaf(i) /\ Served(c, i)
    BY <2>1 DEF Steady
  <2>3. Deaf(i)' <=> Deaf(i)
    BY <2>1 DEF Deaf
  <2>4. Served(c, i) => Served(c, i)'
    BY <2>1 DEF Served, Untouched
  <2>5. (Quiescent(c, slot[i].buf) => Quiescent(c, slot[i].buf)')
        /\ (Arriving(c, slot[i].buf) => Arriving(c, slot[i].buf)')
    <3>1. got'[c] = got[c] /\ last'[c] = last[c] /\ stream'[c] = stream[c]
      BY DEF Untouched
    <3>2. (slot[i].buf \o stream[c])' = slot[i].buf \o stream[c]
      BY <2>1, <3>1
    <3>3. Arriving(c, slot[i].buf) => Arriving(c, slot[i].buf)'
      BY <3>1, <3>2 DEF Arriving
    <3>4. Quiescent(c, slot[i].buf) => Quiescent(c, slot[i].buf)'
      BY <2>1, <3>1 DEF Quiescent
    <3> QED BY <3>3, <3>4
  <2> QED BY <2>1, <2>2, <2>3, <2>4, <2>5
<1>4. got'[c] = [n \in DOMAIN got'[c] |-> n]
  BY DEF Steady, Untouched
<1>5. peer'[c] = "away" => last'[c] = NoPiece /\ got'[c] = <<>> /\ stream'[c] = <<>>
  BY DEF Steady, Untouched
<1>6. peer'[c] \in {"open", "shut"} /\ ~InSlot(c)' => Quiescent(c, <<>>)' \/ Arriving(c, <<>>)'
  <2>1. (Quiescent(c, <<>>) => Quiescent(c, <<>>)') /\ (Arriving(c, <<>>) => Arriving(c, <<>>)')
    BY DEF Quiescent, Arriving, Untouched
  <2> QED BY <1>1, <2>1 DEF Steady, Untouched
<1> QED BY <1>3, <1>4, <1>5, <1>6 DEF Steady

\* No more is promised to a client whose connection is gone.
LEMMA EndedSteady ==
  ASSUME NEW c \in Conns, Steady(c), peer'[c] \in {"reset", "closed"}, got'[c] = got[c]
  PROVE  Steady(c)'
BY DEF Steady

\* The connection was in no slot and is in none: what is under way says all.
LEMMA OutsideSteady ==
  ASSUME NEW c \in Conns, Steady(c), got'[c] = got[c], peer'[c] \in {"open", "shut"}, ~InSlot(c)',
         Quiescent(c, <<>>)' \/ Arriving(c, <<>>)'
  PROVE  Steady(c)'
BY DEF Steady, InSlot

\* The connection is in slot i.
LEMMA InsideSteady ==
  ASSUME NEW c \in Conns, NEW i \in Slots, OneSlot', slot'[i].avail, slot'[i].conn = c,
         peer'[c] # "away", got'[c] = [n \in DOMAIN got'[c] |-> n], NEW b, b = slot'[i].buf,
         peer'[c] \in {"open", "shut"} =>
           \/ Deaf(i)'
           \/ slot'[i].room > 0 /\ (Quiescent(c, b)' \/ Arriving(c, b)')
           \/ slot'[i].room = 0 /\ ~Deaf(i)' /\ Served(c, i)'
  PROVE  Steady(c)'
<1>1. InSlot(c)'
  BY DEF InSlot
<1>2. \A j \in Slots : slot'[j].avail /\ slot'[j].conn = c => j = i
  BY DEF OneSlot
<1>3. Quiescent(c, b)' => Quiescent(c, slot[i].buf)'
  BY DEF Quiescent
<1>4. Arriving(c, b)' => Arriving(c, slot[i].buf)'
  BY DEF Arriving
<1>5. peer'[c] \in {"open", "shut"} =>
           \/ Deaf(i)'
           \/ slot'[i].room > 0 /\ (Quiescent(c, slot[i].buf)' \/ Arriving(c, slot[i].buf)')
           \/ slot'[i].room = 0 /\ ~Deaf(i)' /\ Served(c, i)'
  BY <1>3, <1>4
<1> QED BY <1>1, <1>2, <1>5 DEF Steady

LEMMA ConnectSteady ==
  ASSUME TypeOK, Placed, NEW d \in Conns, Connect(d), NEW c \in Conns, Steady(c)
  PROVE  Steady(c)'
<1>1. /\ UNCHANGED <<got, last, stream, slot, loop>> /\ peer[d] = "away"
      /\ \A e \in Conns : peer'[e] = IF e = d THEN "open" ELSE peer[e]
  BY DEF Connect, TypeOK
<1>2. CASE c # d
  BY <1>1, <1>2, UntouchedSteady DEF Untouched, Handling, At
<1>3. CASE c = d
  <2>1. ~InSlot(c) /\ ~InSlot(c)'
    BY <1>1, <1>3 DEF Placed, OnePlace, Alive, InSlot
  <2>2. last[c] = NoPiece /\ got[c] = <<>> /\ stream[c] = <<>>
    BY <1>1, <1>3 DEF Steady
  <2>3. Quiescent(c, <<>>)'
    BY <1>1, <2>2 DEF Quiescent, NoPiece
  <2> QED BY <1>1, <1>3, <2>1, <2>3, OutsideSteady
<1> QED BY <1>2, <1>3

LEMMA LeaveSteady ==
  ASSUME TypeOK, NEW d \in Conns, NEW how \in {"shut", "reset"}, Leave(d, how), NEW c \in Conns, Steady(c)
  PROVE  Steady(c)'
<1>1. /\ UNCHANGED <<got, last, slot, loop>> /\ peer[d] = "open"
      /\ \A e \in Conns : peer'[e] = IF e = d THEN how ELSE peer[e]
      /\ \A e \in Conns : e # d => stream'[e] = stream[e]
      /\ how = "shut" => stream' = stream
  BY DEF Leave, TypeOK
<1>2. CASE c # d
  BY <1>1, <1>2, UntouchedSteady DEF Untouched, Handling, At
<1>3. CASE c = d /\ how = "reset"
  BY <1>1, <1>3, EndedSteady
<1>4. CASE c = d /\ how = "shut"
  <2>1. peer[c] = "open" /\ peer'[c] = "shut" /\ UNCHANGED <<got, last, slot, loop, stream>>
    BY <1>1, <1>4
  <2> QED BY ZenonT(60), <2>1 DEF Steady, InSlot, Quiescent, Arriving, Served, Deaf, Handling, At
<1> QED BY <1>2, <1>3, <1>4

\* A request begins to arrive, and goes on arriving.
LEMMA ArrivingFirst ==
  ASSUME NEW c \in Conns, NEW p \in Piece, Quiescent(c, <<>>), p.n = last[c].n + 1, p.k = 1,
         last'[c] = p, stream'[c] = Append(stream[c], p), got'[c] = got[c]
  PROVE  Arriving(c, <<>>)'
<1>1. stream'[c] = <<p>> /\ last[c].n = Len(got[c])
  BY DEF Quiescent
<1>2. <<>> \o <<p>> = <<p>> /\ Len(<<p>>) = 1
  OBVIOUS
<1>3. \A k \in 1..1 : <<p>>[k] = [p EXCEPT !.k = k]
  BY DEF Piece
<1> QED BY <1>1, <1>2, <1>3 DEF Arriving

LEMMA ArrivingNext ==
  ASSUME NEW c \in Conns, NEW buf \in Seq(Piece), stream[c] \in Seq(Piece), last[c] \in Piece,
         Arriving(c, buf), NEW p \in Piece, p = [last[c] EXCEPT !.k = @ + 1],
         last'[c] = p, stream'[c] = Append(stream[c], p), got'[c] = got[c]
  PROVE  Arriving(c, buf)'
<1>1. p.n = last[c].n /\ p.k = last[c].k + 1 /\ last[c].k \in Nat
  BY DEF Piece
<1>8. \A k : [p EXCEPT !.k = k] = [last[c] EXCEPT !.k = k]
  BY DEF Piece
<1>2. buf \o stream'[c] = Append(buf \o stream[c], p) /\ buf \o stream[c] \in Seq(Piece)
  OBVIOUS
<1> DEFINE all == buf \o stream[c]
<1>3. Len(all) = last[c].k /\ \A k \in 1..last[c].k : all[k] = [last[c] EXCEPT !.k = k]
  BY DEF Arriving
<1>4. all \in Seq(Piece)
  BY <1>2
<1> HIDE DEF all
<1>5. Len(Append(all, p)) = p.k /\ \A k \in 1..p.k : Append(all, p)[k] = [p EXCEPT !.k = k]
  <2>1. Len(Append(all, p)) = p.k /\ Append(all, p)[p.k] = p /\ \A k \in 1..last[c].k : Append(all, p)[k] = all[k]
    BY <1>1, <1>3, <1>4, AppendProperties
  <2>2. p = [p EXCEPT !.k = p.k]
    BY DEF Piece
  <2>3. ASSUME NEW k \in 1..p.k PROVE Append(all, p)[k] = [p EXCEPT !.k = k]
    <3>1. CASE k = p.k
      BY <2>1, <2>2, <3>1
    <3>2. CASE k # p.k
      <4>1. k \in 1..last[c].k
        BY <1>1, <3>2
      <4> QED BY <1>3, <1>8, <2>1, <4>1
    <3> QED BY <3>1, <3>2
  <2> QED BY <2>1, <2>3
<1>6. buf \o stream'[c] = Append(all, p)
  BY <1>2 DEF all
<1>7. last'[c].n = Len(got'[c]) + 1
  BY <1>1 DEF Arriving
<1> QED BY <1>5, <1>6, <1>7 DEF Arriving

LEMMA SendSteady ==
  ASSUME TypeOK, Placed, LastSent, NEW d \in Conns, NEW len \in Lengths, SendPiece(d, len),
         NEW c \in Conns, c \notin eager', Steady(c)
  PROVE  Steady(c)'
<1>1. PICK p \in Piece : NextPiece(d, p)
  BY SendGives
<1>2. UNCHANGED <<peer, slot, loop, got>> /\ peer[d] = "open"
  BY DEF SendPiece
<1>3. \A e \in Conns : /\ last'[e] = IF e = d THEN p ELSE last[e]
                       /\ stream'[e] = IF e = d THEN Append(stream[e], p) ELSE stream[e]
  BY <1>1 DEF NextPiece, TypeOK
<1>4. CASE c # d
  BY <1>2, <1>3, <1>4, UntouchedSteady DEF Untouched, Handling, At
<1>5. CASE c = d
  <2>1. last'[c] = p /\ stream'[c] = Append(stream[c], p) /\ got'[c] = got[c] /\ peer'[c] = "open"
    BY <1>2, <1>3, <1>5
  <2>2. stream[c] \in Seq(Piece) /\ got[c] \in Seq(0..MaxRequests) /\ Len(got[c]) \in Nat
    BY DEF TypeOK
  <2>3. ASSUME NEW b \in Seq(Piece), Quiescent(c, b) \/ Arriving(c, b)
        PROVE  Arriving(c, b)'
    <3>1. CASE Quiescent(c, b)
      <4>1. p.n = last[c].n + 1 /\ p.k = 1 /\ b = <<>>
        BY <1>1, <1>5, <3>1 DEF NextPiece, Quiescent, Piece
      <4> QED BY <2>1, <3>1, <4>1, ArrivingFirst
    <3>2. CASE Arriving(c, b)
      <4>1. last[c].n > Len(got[c])
        BY <2>2, <3>2 DEF Arriving
      <4>2. last[c] \in Piece /\ p = [last[c] EXCEPT !.k = @ + 1]
        <5>1. ~(Len(got[c]) < last[c].n => c \in eager')
          BY <2>2, <3>2 DEF Arriving
        <5> QED BY <1>1, <1>5, <5>1 DEF NextPiece
      <4> QED BY <2>1, <2>2, <3>2, <4>2, ArrivingNext
    <3> QED BY <2>3, <3>1, <3>2
  <2>4. CASE ~InSlot(c)
    <3>1. <<>> \in Seq(Piece) /\ (Quiescent(c, <<>>) \/ Arriving(c, <<>>))
      BY <1>2, <1>5, <2>4 DEF Steady
    <3>2. Arriving(c, <<>>)'
      BY <2>3, <3>1
    <3>3. ~InSlot(c)'
      BY <1>2, <2>4 DEF InSlot
    <3> QED BY <2>1, <3>2, <3>3, OutsideSteady
  <2>5. ASSUME NEW i \in Slots, slot[i].avail, slot[i].conn = c
        PROVE  Steady(c)'
    <3>1. \/ Deaf(i)
          \/ slot[i].room > 0 /\ (Quiescent(c, slot[i].buf) \/ Arriving(c, slot[i].buf))
          \/ slot[i].room = 0 /\ ~Deaf(i) /\ Served(c, i)
      BY <1>2, <1>5, <2>5 DEF Steady
    <3>2. ~Served(c, i)
      <4>1. ASSUME Served(c, i) PROVE FALSE
        <5>1. last[c].k = last[c].len /\ ~(Len(got[c]) < last[c].n => c \in eager')
          BY <2>2, <4>1 DEF Served
        <5>2. ~(last[c].k < last[c].len)
          <6>1. last[c] \in Piece \cup {NoPiece}
            BY DEF TypeOK
          <6>2. last[c].k \in Nat
            BY <6>1 DEF Piece, NoPiece
          <6> QED BY <5>1, <6>2
        <5> QED BY <1>1, <1>5, <5>1, <5>2 DEF NextPiece
      <4> QED BY <4>1
    <3>3. PICK b \in Seq(Piece) : b = slot[i].buf
      BY DEF TypeOK, SlotRecord
    <3>4. OneSlot' /\ slot'[i] = slot[i] /\ (Deaf(i) => Deaf(i)')
      BY <1>2 DEF Placed, OneSlot, Deaf, Handling, At
    <3>5. got'[c] = [n \in DOMAIN got'[c] |-> n]
      BY <2>1 DEF Steady
    <3>6. Deaf(i)' \/ (slot'[i].room > 0 /\ Arriving(c, b)')
      <4>1. Quiescent(c, b) \/ Arriving(c, b) => Arriving(c, b)'
        BY <2>3, <3>3
      <4> QED BY <3>1, <3>2, <3>3, <3>4, <4>1
    <3> QED BY <2>1, <2>5, <3>3, <3>4, <3>5, <3>6, InsideSteady
  <2> QED BY <2>4, <2>5 DEF InSlot
<1> QED BY <1>4, <1>5

\* Nowhere but after Receive does the loop go to the handler.
LEMMA TurnAt ==
  /\ \A i, rd, wr, s : Turn(i, rd, wr, s).at # "handle"
  /\ TypeOK => \A i, s : AfterRead(i, s).at # "handle"
<1>1. \A i, rd, wr, s : Turn(i, rd, wr, s).at # "handle"
  BY DEF Turn, Waiting
<1>2. ASSUME TypeOK, NEW i, NEW s PROVE AfterRead(i, s).at # "handle"
  <2>1. loop \in LoopRecord
    BY <1>2 DEF TypeOK
  <2>2. [loop EXCEPT !.at = "write", !.rd = @ \ {slot[i].conn}].at = "write"
    BY <2>1 DEF LoopRecord
  <2> QED BY <1>1, <2>2 DEF AfterRead
<1> QED BY <1>1, <1>2

LEMMA ReceiveSteady ==
  ASSUME TypeOK, Placed, LastSent, Receive, OneSlot', NEW c \in Conns, Steady(c)
  PROVE  Steady(c)'
<1>1. PICK i \in Slots, d \in Conns, r \in Nat, pieces \in Seq(Piece), whole \in BOOLEAN :
             Took(i, d, r, pieces, whole)
  BY ReceiveGives
<1>2. /\ i = loop.i /\ d = slot[i].conn /\ slot[i].avail /\ slot[i] \in SlotRecord
      /\ slot[i].room > 0 /\ slot[i].send = 0 /\ r \in 1..Len(stream[d])
      /\ stream' = [stream EXCEPT ![d] = SubSeq(@, r + 1, Len(@))]
      /\ loop' = IF whole THEN [loop EXCEPT !.at = "handle"] ELSE AfterRead(i, slot)
  BY <1>1 DEF Took
<1>3. UNCHANGED <<peer, last, got>> /\ At("read")
  BY DEF Receive
<1>4. PICK s : s = Received(slot[i], pieces, whole)
  OBVIOUS
<1>5. slot[i].left = slot[i].size - Len(slot[i].buf) /\ Len(pieces) \in 1..slot[i].left
      /\ whole \in Complete(slot[i].buf \o pieces) /\ slot' = [slot EXCEPT ![i] = s]
      /\ pieces = SubSeq(stream[d], 1, r)
  BY <1>1, <1>4 DEF Took
<1>6. ReceivedFrom(slot[i], pieces, whole, s)
  BY <1>2, <1>4, <1>5, ReceivedSlot, Zenon
<1>7. slot' = [slot EXCEPT ![i] = s] /\ s \in SlotRecord /\ \A j \in Slots : slot'[j] = IF j = i THEN s ELSE slot[j]
  BY <1>5, <1>6, SlotSet DEF ReceivedFrom
<1>8. \A e \in Conns : e # d => stream'[e] = stream[e]
  BY <1>2 DEF TypeOK
<1>9. ~whole => loop'.at # "handle"
  BY <1>2, TurnAt
<1>10. whole => loop'.at = "handle" /\ loop'.i = i
  BY <1>2 DEF TypeOK, LoopRecord
<1>11. s.avail /\ s.conn = d
  BY <1>2, <1>6 DEF ReceivedFrom
<1>12. CASE c # d
  <2>1. \A j \in Slots : slot'[j].avail /\ slot'[j].conn = c <=> slot[j].avail /\ slot[j].conn = c
    BY <1>2, <1>7, <1>11, <1>12
  <2>2. \A j \in Slots : slot[j].avail /\ slot[j].conn = c => slot'[j] = slot[j] /\ j # i
    BY <1>2, <1>7, <1>12
  <2>3. \A j \in Slots : j # i => ~Handling(j) /\ ~Handling(j)'
    BY <1>3, <1>9, <1>10 DEF Handling, At
  <2> QED BY <1>3, <1>8, <1>12, <2>1, <2>2, <2>3, UntouchedSteady DEF Untouched
<1>13. CASE c = d
  <2>0. PICK b : b = slot[i].buf \o pieces
    OBVIOUS
  <2>1. s.buf = b /\ b \in Seq(Piece)
    BY <1>2, <1>6, <2>0 DEF ReceivedFrom, SlotRecord
  <2>2. stream[c] \in Seq(Piece) /\ Len(stream[c]) \in Nat /\ stream[c] # <<>> /\ slot[i].buf \in Seq(Piece)
    BY <1>2, <1>13 DEF TypeOK, SlotRecord
  <2>3. b \o stream'[c] = slot[i].buf \o stream[c] /\ stream'[c] \in Seq(Piece) /\ Len(b) > 0
    <3>1. stream'[c] = SubSeq(stream[c], r + 1, Len(stream[c])) /\ pieces = SubSeq(stream[c], 1, r)
      BY <1>2, <1>5, <1>13 DEF TypeOK
    <3>2. r \in 1..Len(stream[c])
      BY <1>2, <1>13
    <3>3. Len(pieces) = r /\ Len(b) = Len(slot[i].buf) + r /\ Len(slot[i].buf) \in Nat
      BY <2>0, <2>2, <3>1, <3>2, Pieces
    <3>4. /\ (slot[i].buf \o SubSeq(stream[c], 1, r)) \o SubSeq(stream[c], r + 1, Len(stream[c]))
             = slot[i].buf \o stream[c]
          /\ SubSeq(stream[c], r + 1, Len(stream[c])) \in Seq(Piece)
      BY <2>2, <3>2, Pieces
    <3>5. Len(b) > 0
      BY <3>2, <3>3
    <3> QED BY <2>0, <3>1, <3>4, <3>5
  <2>9. /\ Len(b \o stream'[c]) = Len(b) + Len(stream'[c]) /\ (b \o stream'[c])[1] = b[1]
        /\ Len(b) \in Nat /\ Len(b) > 0 /\ Len(stream'[c]) \in Nat
    <3>1. PICK t \in Seq(Piece) : t = stream'[c]
      BY <2>3
    <3>2. b \in Seq(Piece) /\ Len(b) > 0
      BY <2>1, <2>3
    <3>3. Len(b \o t) = Len(b) + Len(t) /\ (b \o t)[1] = b[1] /\ Len(b) \in Nat /\ Len(t) \in Nat
      BY <3>2, ConcatProperties
    <3> QED BY <3>1, <3>2, <3>3
  <2>4. ASSUME peer[c] \in {"open", "shut"}
        PROVE  \/ s.room > 0 /\ Arriving(c, b)'
               \/ s.room = 0 /\ Served(c, i)'
    <3>1. slot[i].room > 0 /\ Arriving(c, slot[i].buf)
      <4>1. \/ Deaf(i)
            \/ slot[i].room > 0 /\ (Quiescent(c, slot[i].buf) \/ Arriving(c, slot[i].buf))
            \/ slot[i].room = 0 /\ ~Deaf(i) /\ Served(c, i)
        BY <1>2, <1>13, <2>4 DEF Steady
      <4>2. ~Quiescent(c, slot[i].buf)
        BY <2>2 DEF Quiescent
      <4>3. slot[i].room # 0
        BY <1>2
      <4> QED BY <1>2, <4>1, <4>2, <4>3 DEF Deaf
    <3>2. Arriving(c, b)'
      BY <1>3, <2>3, <3>1 DEF Arriving
    <3>3. CASE ~whole
      BY <1>6, <3>2, <3>3 DEF ReceivedFrom
    <3>4. CASE whole
      <4>1. last[c] \in Piece /\ last[c].k \in Nat /\ last[c].len \in Nat /\ last[c].k <= last[c].len /\ last[c].k > 0
        <5>1. last[c].n = Len(got[c]) + 1 /\ Len(got[c]) \in Nat
          BY <3>1 DEF Arriving, TypeOK
        <5>2. last[c] \in Piece
          BY <5>1 DEF TypeOK, NoPiece
        <5>3. Len(b \o stream'[c]) = last[c].k /\ Len(b \o stream'[c]) > 0
          BY <1>3, <2>9, <3>2 DEF Arriving
        <5> QED BY <5>2, <5>3, SizeAssumption DEF LastSent, Piece
      <4>2. Len(b) + Len(stream'[c]) = last[c].k /\ Len(b) \in Nat /\ Len(stream'[c]) \in Nat
        BY <1>3, <2>9, <3>2 DEF Arriving
      <4>3. b[1] = [last[c] EXCEPT !.k = 1]
        <5>1. 1 \in 1..last[c].k
          BY <4>1
        <5>2. (b \o stream'[c])[1] = [last[c] EXCEPT !.k = 1]
          BY <1>3, <3>2, <5>1 DEF Arriving
        <5>3. (b \o stream'[c])[1] = b[1]
          BY <2>9
        <5> QED BY <5>2, <5>3
      <4>4. b[1].k = 1 /\ b[1].len = last[c].len /\ b[1].n = last[c].n
        BY <4>1, <4>3 DEF Piece
      <4>5. whole = (Len(b) >= last[c].len)
        BY <1>5, <4>4, <2>0, Zenon DEF Complete
      <4>6. Len(b) >= last[c].len
        BY <3>4, <4>5
      <4>7. Len(stream'[c]) = 0 /\ last[c].k = last[c].len
        BY <4>1, <4>2, <4>6
      <4>8. stream'[c] = <<>>
        BY <2>3, <4>7
      <4>9. s.n = last[c].n /\ s.room = 0
        BY <1>6, <2>0, <3>4, <4>4 DEF ReceivedFrom, RequestIn
      <4>10. slot'[i] = s
        BY <1>7
      <4>11. last[c].n = Len(got[c]) + 1
        BY <3>1 DEF Arriving
      <4> QED BY <1>3, <4>7, <4>8, <4>9, <4>10, <4>11 DEF Served
    <3> QED BY <3>3, <3>4
  <2>5. s.room = 0 => Handling(i)'
    <3>1. whole \/ s.room > 0
      BY <1>6 DEF ReceivedFrom
    <3>2. s.room > 0 => s.room # 0
      BY <1>7 DEF SlotRecord
    <3> QED BY <1>10, <3>1, <3>2 DEF Handling, At
  <2>6. slot'[i] = s
    BY <1>7
  <2>7. s.room = 0 => ~Deaf(i)'
    BY <2>5 DEF Deaf
  <2>8. peer[c] # "away" /\ peer'[c] = peer[c] /\ got'[c] = [n \in DOMAIN got'[c] |-> n]
    <3>1. InSlot(c)
      BY <1>2, <1>13 DEF InSlot
    <3> QED BY <1>3, <3>1 DEF Placed, OnePlace, Alive, Steady
  <2> QED BY <1>11, <1>13, <2>1, <2>4, <2>6, <2>7, <2>8, InsideSteady
<1> QED BY <1>12, <1>13

LEMMA HandledSteady ==
  ASSUME TypeOK, Placed, Handled, OneSlot', NEW c \in Conns, Steady(c)
  PROVE  Steady(c)'
<1>1. PICK i \in Slots : i = loop.i
  BY SlotOfTurn DEF Handled, At
<1>2. /\ At("handle") /\ UNCHANGED <<peer, stream, last, got>>
      /\ slot' = [slot EXCEPT ![i].send = ReplyLength, ![i].timer = "set"]
      /\ loop' = AfterRead(i, slot)
  BY <1>1 DEF Handled, clientVars
<1>3. slot[i] \in SlotRecord /\ slot[i].avail /\ slot[i].conn \in Conns /\ slot[i].room = 0 /\ slot[i].send = 0
  BY <1>1, <1>2, SlotOfTurn DEF At, Placed, LoopPlace
<1>4. PICK s : s = [slot[i] EXCEPT !.send = ReplyLength, !.timer = "set"]
  OBVIOUS
<1>5. s \in SlotRecord /\ s.avail = slot[i].avail /\ s.conn = slot[i].conn /\ s.room = slot[i].room
      /\ s.send > 0 /\ s.buf = slot[i].buf /\ s.n = slot[i].n
  BY <1>3, <1>4, HandledSlot
<1>6. \A j \in Slots : slot'[j] = IF j = i THEN s ELSE slot[j]
  BY <1>2, <1>4 DEF TypeOK
<1>7. \A j \in Slots : ~Handling(j)'
  BY <1>2, TurnAt DEF Handling, At
<1>8. CASE c # slot[i].conn
  <2>1. \A j \in Slots : slot'[j].avail /\ slot'[j].conn = c <=> slot[j].avail /\ slot[j].conn = c
    BY <1>3, <1>5, <1>6, <1>8
  <2>2. \A j \in Slots : slot[j].avail /\ slot[j].conn = c => slot'[j] = slot[j] /\ ~Handling(j)
    BY <1>1, <1>6, <1>8 DEF Handling
  <2> QED BY <1>2, <1>7, <2>1, <2>2, UntouchedSteady DEF Untouched
<1>9. CASE c = slot[i].conn
  <2>1. slot'[i] = s /\ InSlot(c) /\ peer'[c] = peer[c] /\ got'[c] = got[c]
    BY <1>2, <1>3, <1>6, <1>9 DEF InSlot
  <2>2. peer[c] \in {"open", "shut"} => Served(c, i)
    <3>1. ~Deaf(i) /\ ~(slot[i].room > 0)
      BY <1>1, <1>2, <1>3 DEF Deaf, Handling
    <3> QED BY <1>3, <1>9, <3>1 DEF Steady
  <2>3. Served(c, i) => Served(c, i)'
    BY <1>2, <1>5, <2>1 DEF Served
  <2>4. slot'[i].room = 0 /\ ~Deaf(i)'
    <3>1. s.send # 0
      BY <1>5
    <3> QED BY <1>3, <1>5, <2>1, <3>1 DEF Deaf
  <2>5. peer'[c] # "away" /\ got'[c] = [n \in DOMAIN got'[c] |-> n]
    BY <2>1 DEF Placed, OnePlace, Alive, Steady
  <2>6. PICK b : b = slot'[i].buf
    OBVIOUS
  <2> QED BY <1>3, <1>5, <1>9, <2>1, <2>2, <2>3, <2>4, <2>5, <2>6, InsideSteady
<1> QED BY <1>8, <1>9

LEMMA WriteSteady ==
  ASSUME TypeOK, Placed, Write, OneSlot', NEW c \in Conns, Steady(c)
  PROVE  Steady(c)'
<1>1. PICK i \in Slots, d \in Conns : Written(i, d)
  BY WriteGives
<1>2. /\ i = loop.i /\ d = slot[i].conn /\ slot[i].avail /\ slot[i] \in SlotRecord /\ slot[i].send > 0
      /\ slot[i].left = slot[i].size - Len(slot[i].buf) /\ slot[i].left > 0 /\ slot[i].room = 0
      /\ UNCHANGED <<stream, last>>
  BY <1>1 DEF Written
<1>3. \A j \in Slots : ~Handling(j) /\ ~Handling(j)'
  <2>1. loop'.at # "handle" /\ loop.at = "write"
    BY TurnAt DEF Write, At
  <2> QED BY <2>1 DEF Handling, At
<1>4. slot[i].size > 0
  <2>1. slot[i].size \in Nat /\ Len(slot[i].buf) \in Nat
    BY <1>2 DEF SlotRecord
  <2> QED BY <1>2, <2>1
<1>5. ASSUME c # d, NEW s \in SlotRecord, slot' = [slot EXCEPT ![i] = s], s.conn = d,
             got'[c] = got[c], peer'[c] = peer[c]
      PROVE  Steady(c)'
  <2>1. \A j \in Slots : slot'[j] = IF j = i THEN s ELSE slot[j]
    BY <1>5, SlotSet
  <2>2. \A j \in Slots : slot'[j].avail /\ slot'[j].conn = c <=> slot[j].avail /\ slot[j].conn = c
    BY <1>2, <1>5, <2>1
  <2>3. \A j \in Slots : slot[j].avail /\ slot[j].conn = c => slot'[j] = slot[j]
    BY <1>2, <1>5, <2>1
  <2> QED BY <1>2, <1>3, <1>5, <2>2, <2>3, UntouchedSteady DEF Untouched
<1>6. ASSUME c = d, NEW s \in SlotRecord, slot' = [slot EXCEPT ![i] = s], s.avail, s.conn = d, UNCHANGED peer,
             got'[c] = [n \in DOMAIN got'[c] |-> n], NEW b, b = s.buf,
             peer[c] \in {"open", "shut"} =>
               \/ s.room > 0 /\ Quiescent(c, b)'
               \/ s.room = 0 /\ s.send > 0 /\ s.n = slot[i].n /\ got'[c] = got[c]
      PROVE  Steady(c)'
  <2>1. slot'[i] = s
    BY <1>6, SlotSet
  <2>2. InSlot(c)
    BY <1>2, <1>6 DEF InSlot
  <2>3. peer'[c] # "away"
    BY <1>6, <2>2 DEF Placed, OnePlace, Alive
  <2>4. peer[c] \in {"open", "shut"} => Served(c, i)
    <3>1. slot[i].send # 0 /\ ~(slot[i].room > 0)
      BY <1>2
    <3> QED BY <1>2, <1>6, <3>1 DEF Steady, Deaf
  <2>5. Served(c, i) /\ s.n = slot[i].n /\ got'[c] = got[c] => Served(c, i)'
    BY <1>2, <2>1 DEF Served
  <2>6. s.send > 0 => ~Deaf(i)'
    <3>1. s.send > 0 => s.send # 0
      BY <1>6 DEF SlotRecord
    <3> QED BY <2>1, <3>1 DEF Deaf
  <2> QED BY <1>6, <2>1, <2>3, <2>4, <2>5, <2>6, InsideSteady
<1>7. CASE SentAll(i, d)
  <2>1. PICK s : s = Sent(slot[i])
    OBVIOUS
  <2>2. s \in SlotRecord /\ s.avail = slot[i].avail /\ s.conn = slot[i].conn
        /\ s.room = slot[i].size /\ s.buf = <<>>
    BY <1>2, <2>1, OtherSlots
  <2>3. slot' = [slot EXCEPT ![i] = s] /\ peer' = peer /\ peer[d] # "reset"
        /\ got' = [got EXCEPT ![d] = Append(@, slot[i].n)]
    BY <1>7, <2>1 DEF SentAll
  <2>4. CASE c # d
    BY <1>2, <1>5, <2>2, <2>3, <2>4 DEF TypeOK
  <2>5. CASE c = d
    <3>1. peer[c] \in {"open", "shut"}
      BY <1>1, <2>3, <2>5 DEF Written, Alive
    <3>2. Served(c, i)
      <4>1. slot[i].send # 0 /\ ~(slot[i].room > 0)
        BY <1>2
      <4> QED BY <1>2, <2>5, <3>1, <4>1 DEF Steady, Deaf
    <3>3. got'[c] = Append(got[c], Len(got[c]) + 1) /\ got[c] \in Seq(0..MaxRequests) /\ slot[i].n = Len(got[c]) + 1
          /\ slot[i].n \in 0..MaxRequests
      BY <1>2, <2>3, <2>5, <3>2 DEF Served, TypeOK, SlotRecord
    <3>4. got'[c] = [n \in DOMAIN got'[c] |-> n] /\ Len(got'[c]) = Len(got[c]) + 1
      <4>1. got[c] = [n \in 1..Len(got[c]) |-> n] /\ Len(got[c]) \in Nat
        BY <3>3 DEF Steady
      <4>2. got'[c] = [n \in 1..Len(got[c]) + 1 |-> IF n = Len(got[c]) + 1 THEN Len(got[c]) + 1 ELSE got[c][n]]
        BY <3>3
      <4>3. got'[c] = [n \in 1..Len(got[c]) + 1 |-> n]
        BY <4>1, <4>2
      <4>4. Len(got'[c]) = Len(got[c]) + 1
        BY <3>3
      <4> QED BY <4>3, <4>4
    <3>5. Quiescent(c, <<>>)'
      BY <1>2, <3>2, <3>4 DEF Quiescent, Served
    <3> QED BY <1>2, <1>4, <1>6, <2>2, <2>3, <2>5, <3>4, <3>5
  <2> QED BY <2>4, <2>5
<1>8. CASE SentSome(i)
  <2>1. PICK r \in 1..slot[i].send - 1 : slot' = [slot EXCEPT ![i] = [slot[i] EXCEPT !.send = @ - r]]
    BY <1>8 DEF SentSome
  <2>2. slot[i].send - r \in 0..ReplyLength /\ slot[i].send - r > 0
    <3>1. slot[i].send \in 0..ReplyLength
      BY <1>2 DEF SlotRecord
    <3> QED BY <2>1, <3>1, SizeAssumption
  <2>3. PICK s : s = [slot[i] EXCEPT !.send = @ - r]
    OBVIOUS
  <2>4. s \in SlotRecord
    BY <1>2, <2>2, <2>3 DEF SlotRecord
  <2>5. s.avail = slot[i].avail /\ s.conn = slot[i].conn /\ s.send > 0 /\ s.room = slot[i].room /\ s.n = slot[i].n
    BY <1>2, <2>2, <2>3 DEF SlotRecord
  <2>6. got' = got /\ peer' = peer /\ slot' = [slot EXCEPT ![i] = s] /\ got[c] = [n \in DOMAIN got[c] |-> n]
    BY <1>8, <2>1, <2>3 DEF SentSome, Steady
  <2>7. PICK b : b = s.buf
    OBVIOUS
  <2> QED BY <1>2, <1>5, <1>6, <2>4, <2>5, <2>6, <2>7
<1>9. CASE SentNone(i, d)
  <2>1. PICK s : s = Closed(slot[i])
    OBVIOUS
  <2>2. s \in SlotRecord /\ s.conn = d /\ slot' = [slot EXCEPT ![i] = s]
    BY <1>2, <1>9, <2>1, OtherSlots DEF SentNone, TypeOK
  <2>3. got' = got /\ peer'[c] = IF c = d THEN "closed" ELSE peer[c]
    BY <1>9 DEF SentNone, TypeOK
  <2> QED BY <1>5, <2>2, <2>3, EndedSteady
<1> QED BY <1>1, <1>7, <1>8, <1>9 DEF Written

LEMMA HangupSteady ==
  ASSUME TypeOK, Placed, Hangup, NEW c \in Conns, Steady(c)
  PROVE  Steady(c)'
<1>1. PICK i \in Slots : i = loop.i
  BY SlotOfTurn DEF Hangup, At
<1>2. PICK d : d = slot[i].conn
  OBVIOUS
<1>3. /\ At("read") /\ slot' = [slot EXCEPT ![i] = Closed(@)] /\ peer' = [peer EXCEPT ![d] = "closed"]
      /\ loop' = AfterRead(i, slot') /\ UNCHANGED <<stream, last, got>>
  BY <1>1, <1>2 DEF Hangup
<1>4. slot[i] \in SlotRecord /\ slot[i].avail /\ slot[i].left = slot[i].size - Len(slot[i].buf)
  BY <1>1, <1>3, SlotOfTurn DEF At, Counts
<1>5. PICK s : s = Closed(slot[i])
  OBVIOUS
<1>6. s.conn = d /\ ~s.avail /\ \A j \in Slots : slot'[j] = IF j = i THEN s ELSE slot[j]
  BY <1>2, <1>3, <1>4, <1>5, OtherSlots DEF TypeOK
<1>7. peer'[c] = IF c = d THEN "closed" ELSE peer[c]
  BY <1>3 DEF TypeOK
<1>8. CASE c = d
  BY <1>3, <1>7, <1>8, EndedSteady
<1>9. CASE c # d
  <2>1. \A j \in Slots : ~Handling(j) /\ ~Handling(j)'
    <3>1. loop.at = "read" /\ loop'.at # "handle"
      BY <1>3, TurnAt DEF At
    <3> QED BY <3>1 DEF Handling, At
  <2>2. \A j \in Slots : slot'[j].avail /\ slot'[j].conn = c <=> slot[j].avail /\ slot[j].conn = c
    BY <1>2, <1>6, <1>9
  <2>3. \A j \in Slots : slot[j].avail /\ slot[j].conn = c => slot'[j] = slot[j]
    BY <1>2, <1>6, <1>9
  <2> QED BY <1>3, <1>7, <1>9, <2>1, <2>2, <2>3, UntouchedSteady DEF Untouched
<1> QED BY <1>8, <1>9

\* A flushed connection is deaf, unless its answer is on the way.
LEMMA ExpireSteady ==
  ASSUME TypeOK, Placed, Expire, OneSlot', NEW c \in Conns, Steady(c)
  PROVE  Steady(c)'
<1> DEFINE due  == {i \in Slots : slot[i].avail /\ slot[i].timer = "due"}
           idle == {i \in due : slot[i].buf = <<>>}
<1>1. /\ At("select") /\ UNCHANGED <<stream, last, got, loop>>
      /\ slot' = [i \in Slots |-> IF i \in idle THEN Closed(slot[i])
                                    ELSE IF i \in due THEN Flushed(slot[i]) ELSE slot[i]]
      /\ peer' = [e \in Conns |-> IF \E i \in idle : slot[i].conn = e
                                    THEN "closed" ELSE peer[e]]
  BY DEF Expire
<1>2. (\A i \in idle : i \in due) /\ (\A i \in due : i \in Slots /\ slot[i].avail)
  OBVIOUS
<1>3. \A i \in due : i \notin idle => slot[i].buf # <<>>
  OBVIOUS
<1> HIDE DEF due, idle
<1>4. \A i \in Slots : slot[i] \in SlotRecord
  BY DEF TypeOK
<1>5. \A i \in due : slot[i].left = slot[i].size - Len(slot[i].buf)
  BY <1>2 DEF Placed, Counts
<1>6. \A j \in Slots : ~Handling(j) /\ ~Handling(j)'
  <2>1. loop'.at # "handle" /\ loop.at # "handle"
    BY <1>1 DEF At
  <2> QED BY <2>1 DEF Handling, At
<1>7. CASE \E i \in idle : slot[i].conn = c
  <2>1. peer'[c] = "closed"
    BY <1>1, <1>7
  <2> QED BY <1>1, <2>1, EndedSteady
<1>8. ASSUME ~\E i \in idle : slot[i].conn = c, NEW i \in due, i \notin idle, slot[i].conn = c
      PROVE  Steady(c)'
  <2>1. slot'[i] = Flushed(slot[i]) /\ i \in Slots /\ slot[i].avail /\ slot[i] \in SlotRecord
    BY <1>1, <1>2, <1>4, <1>8
  <2>2. PICK s : s = Flushed(slot[i])
    OBVIOUS
  <2>3. s.avail = slot[i].avail /\ s.conn = slot[i].conn /\ s.send = slot[i].send
        /\ s.room = 0 /\ s.buf = <<>> /\ s.n = slot[i].n /\ s \in SlotRecord
    BY <1>5, <2>1, <2>2, OtherSlots
  <2>4. peer'[c] = peer[c] /\ got'[c] = got[c]
    BY <1>1, <1>8
  <2>5. peer[c] # "away"
    <3>1. InSlot(c)
      BY <1>8, <2>1 DEF InSlot
    <3> QED BY <3>1 DEF Placed, OnePlace, Alive
  <2>6. ~Deaf(i)' => slot[i].send # 0
    BY <1>6, <2>1, <2>2, <2>3 DEF Deaf
  <2>7. slot[i].send # 0 => slot[i].room = 0 /\ ~Deaf(i) /\ ~(slot[i].room > 0)
    <3>1. slot[i].send \in Nat /\ slot[i].room \in Nat
      BY <2>1, SizeAssumption DEF SlotRecord
    <3> QED BY <2>1, <3>1 DEF Placed, Counts, Deaf
  <2>8. peer[c] \in {"open", "shut"} /\ slot[i].send # 0 => Served(c, i)
    BY <1>8, <2>1, <2>7 DEF Steady
  <2>9. Served(c, i) => Served(c, i)'
    BY <1>1, <2>1, <2>2, <2>3 DEF Served
  <2>10. got'[c] = [n \in DOMAIN got'[c] |-> n]
    BY <2>4 DEF Steady
  <2>11. slot'[i].avail /\ slot'[i].conn = c /\ slot'[i].room = 0 /\ slot'[i].buf = <<>>
    BY <1>8, <2>1, <2>2, <2>3
  <2> QED BY <2>1, <2>4, <2>5, <2>6, <2>8, <2>9, <2>10, <2>11, InsideSteady
<1>9. CASE \A i \in due : slot[i].conn # c
  <2>1. peer'[c] = peer[c]
    BY <1>1, <1>2, <1>9
  <2>2. \A i \in Slots : i \notin due => slot'[i] = slot[i]
    BY <1>1, <1>2
  <2>3. \A i \in due : slot'[i].conn = slot[i].conn
    BY <1>1, <1>2, <1>4, <1>5, OtherSlots
  <2>4. \A j \in Slots : slot'[j].avail /\ slot'[j].conn = c <=> slot[j].avail /\ slot[j].conn = c
    BY <1>9, <2>2, <2>3
  <2>5. \A j \in Slots : slot[j].avail /\ slot[j].conn = c => slot'[j] = slot[j]
    BY <1>9, <2>2
  <2> QED BY <1>1, <1>6, <2>1, <2>4, <2>5, UntouchedSteady DEF Untouched
<1> QED BY <1>2, <1>7, <1>8, <1>9

LEMMA PlaceSteady ==
  ASSUME TypeOK, Placed, NEW d \in Conns, InHand(d), Place(d) \/ Refuse(d), OneSlot',
         UNCHANGED <<stream, last, got>>, loop.at # "handle", NEW c \in Conns, Steady(c)
  PROVE  Steady(c)'
<1> DEFINE free == {j \in Slots : ~slot[j].avail}
           i == CHOOSE j \in free : \A k \in free : j <= k
<1>1. \A j \in Slots : ~Handling(j) /\ ~Handling(j)'
  <2>1. loop'.at # "handle"
    BY TurnAt DEF Place, Refuse
  <2> QED BY <2>1 DEF Handling, At
<1>2. CASE slot' = slot /\ peer' = [peer EXCEPT ![d] = "closed"]
  <2>1. peer'[c] = IF c = d THEN "closed" ELSE peer[c]
    BY <1>2 DEF TypeOK
  <2>2. c = d => Steady(c)'
    BY <2>1, EndedSteady
  <2>3. c # d => Steady(c)'
    BY <1>1, <1>2, <2>1, UntouchedSteady DEF Untouched
  <2> QED BY <2>2, <2>3
<1>3. CASE free # {} /\ Place(d)
  <2>1. slot' = [slot EXCEPT ![i] = Connected(d)] /\ peer' = peer
    BY <1>3 DEF Place
  <2>2. i \in Slots /\ ~slot[i].avail
    <3>1. free \in SUBSET Slots
      OBVIOUS
    <3>2. i \in free
      <4> HIDE DEF free
      <4>1. \E j \in free : \A k \in free : j <= k
        BY <1>3, <3>1, FirstSlot
      <4> QED BY <4>1
    <3> QED BY <3>2
  <2> HIDE DEF free, i
  <2>3. PICK k \in Slots : k = i
    BY <2>2
  <2>4. PICK s : s = Connected(d)
    OBVIOUS
  <2>5. s.avail /\ s.conn = d /\ s.send = 0 /\ s.room = Chunk /\ s.room > 0 /\ s.buf = <<>>
    BY <2>4, SizeAssumption DEF Connected
  <2>6. \A j \in Slots : slot'[j] = IF j = k THEN s ELSE slot[j]
    BY <2>1, <2>3, <2>4 DEF TypeOK
  <2>7. CASE c # d
    <3>1. \A j \in Slots : slot'[j].avail /\ slot'[j].conn = c <=> slot[j].avail /\ slot[j].conn = c
      BY <2>2, <2>3, <2>5, <2>6, <2>7
    <3>2. \A j \in Slots : slot[j].avail /\ slot[j].conn = c => slot'[j] = slot[j]
      BY <2>2, <2>3, <2>6
    <3> QED BY <1>1, <2>1, <3>1, <3>2, UntouchedSteady DEF Untouched
  <2>8. CASE c = d
    <3>1. peer'[c] \in Alive /\ ~InSlot(c) /\ peer'[c] = peer[c] /\ got'[c] = got[c]
      BY <2>1, <2>8 DEF InHand
    <3>2. peer[c] \in {"open", "shut"} => Quiescent(c, <<>>) \/ Arriving(c, <<>>)
      BY <3>1 DEF Steady
    <3>3. (Quiescent(c, <<>>) => Quiescent(c, <<>>)') /\ (Arriving(c, <<>>) => Arriving(c, <<>>)')
      BY <3>1 DEF Quiescent, Arriving
    <3>4. got'[c] = [n \in DOMAIN got'[c] |-> n] /\ peer'[c] # "away"
      BY <3>1 DEF Steady, Alive
    <3>5. slot'[k].avail /\ slot'[k].conn = c /\ slot'[k].room > 0 /\ slot'[k].buf = <<>>
      BY <2>5, <2>6, <2>8
    <3> QED BY <3>1, <3>2, <3>3, <3>4, <3>5, InsideSteady
  <2> QED BY <2>7, <2>8
<1> QED BY <1>2, <1>3 DEF Place, Refuse

\* A step that leaves the slots, the ends and what is under way leaves the clients in step.
LEMMA QuietSteady ==
  ASSUME UNCHANGED <<got, last, stream, peer, slot>>, NEW c \in Conns, Steady(c),
         \A j \in Slots : Handling(j)' <=> Handling(j)
  PROVE  Steady(c)'
BY UntouchedSteady DEF Untouched

LEMMA StepSteady ==
  ASSUME TypeOK, Placed, LastSent, [Next]_vars, NEW c \in Conns, c \notin eager', Steady(c)
  PROVE  Steady(c)'
<1>0. OneSlot'
  BY StepPlaced DEF Placed
<1>1. CASE UNCHANGED vars
  BY <1>1, QuietSteady DEF vars, Handling, At
<1>2. ASSUME NEW d \in Conns, Client(d)
      PROVE  Steady(c)'
  <2>1. CASE Connect(d)
    BY <2>1, ConnectSteady
  <2>2. CASE Greet(d) \/ Stall(d)
    BY <2>2, QuietSteady DEF Greet, Stall, Handling, At
  <2>3. ASSUME NEW len \in Lengths, SendPiece(d, len)
        PROVE  Steady(c)'
    BY <2>3, SendSteady
  <2>4. ASSUME NEW how \in {"shut", "reset"}, Leave(d, how)
        PROVE  Steady(c)'
    BY <2>4, LeaveSteady
  <2> QED BY <1>2, <2>1, <2>2, <2>3, <2>4 DEF Client
<1>3. ASSUME NEW i \in Slots, Elapse(i)
      PROVE  Steady(c)'
  <2>1. UNCHANGED <<got, last, stream, peer, loop>> /\ slot' = [slot EXCEPT ![i].timer = "due"]
    BY <1>3 DEF Elapse, clientVars
  <2>2. \A j \in Slots : /\ slot'[j].avail = slot[j].avail /\ slot'[j].conn = slot[j].conn
                         /\ slot'[j].room = slot[j].room /\ slot'[j].send = slot[j].send
                         /\ slot'[j].buf = slot[j].buf /\ slot'[j].n = slot[j].n
    BY <2>1 DEF TypeOK, SlotRecord
  <2> QED BY <2>1, <2>2, UntouchedSteady DEF Untouched, Handling, At
<1>4. CASE RequestExit
  BY <1>4, QuietSteady DEF RequestExit, clientVars, Handling, At
<1>5. CASE Start
  BY <1>5, QuietSteady DEF Start, clientVars, Handling, At, Waiting
<1>6. CASE Select \/ SkipRead
  <2>1. UNCHANGED <<got, last, stream, peer, slot>> /\ loop.at # "handle"
    BY <1>6 DEF Select, SkipRead, clientVars, At
  <2>2. loop'.at # "handle"
    BY <1>6, TurnAt DEF Select, SkipRead
  <2> QED BY <2>1, <2>2, QuietSteady DEF Handling, At
<1>7. CASE Expire
  BY <1>0, <1>7, ExpireSteady
<1>8. CASE Accept
  <2> DEFINE d == Head(backlog)
  <2>1. /\ loop.at = "accept" /\ backlog' = Tail(backlog) /\ backlog # <<>> /\ UNCHANGED <<stream, last, got>>
        /\ IF Cygwin
           THEN /\ loop' = [loop EXCEPT !.at = "guid", !.new = d]
                /\ UNCHANGED <<peer, slot>>
           ELSE Place(d)
    BY <1>8 DEF Accept, Placed, LoopPlace, At
  <2>2. d \in Conns /\ Queued(d) /\ backlog' \in Seq(Conns)
        /\ (\A e \in Conns : Queued(e)' <=> Queued(e) /\ e # d)
        /\ \A m, n \in DOMAIN backlog' : backlog'[m] = backlog'[n] => m = n
    BY <2>1, HeadLeaves
  <2> HIDE DEF d
  <2>3. PICK e \in Conns : e = d
    BY <2>2
  <2>4. loop.i = 0 /\ loop.new = NoConn /\ peer[e] \in Alive /\ ~InSlot(e) /\ e \notin loop.wr
    BY <2>1, <2>2, <2>3 DEF Placed, LoopPlace, OnePlace, StillWritable, At
  <2>5. CASE ~Cygwin
    <3>1. InHand(e)
      BY <2>2, <2>3, <2>4 DEF InHand
    <3> QED BY <1>0, <2>1, <2>3, <2>5, <3>1, PlaceSteady
  <2>6. CASE Cygwin
    <3>1. loop'.at # "handle"
      BY <2>1, <2>6 DEF TypeOK, LoopRecord
    <3> QED BY <2>1, <2>6, <3>1, QuietSteady DEF Handling, At
  <2> QED BY <2>5, <2>6, SizeAssumption
<1>9. CASE Handshake
  <2>1. /\ loop.at \in {"guid", "ids"} /\ UNCHANGED <<stream, last, got, backlog>>
        /\ \/ loop' = [loop EXCEPT !.at = "ids"] /\ UNCHANGED <<peer, slot>>
           \/ Place(loop.new) \/ Refuse(loop.new)
    BY <1>9 DEF Handshake, At
  <2>2. loop.new \in Conns /\ loop.i = 0
    BY <2>1 DEF TypeOK, LoopRecord, Placed, LoopPlace
  <2>3. PICK d \in Conns : d = loop.new
    BY <2>2
  <2>4. peer[d] \in Alive /\ ~InSlot(d) /\ ~Queued(d) /\ d \notin loop.wr
    BY <2>2, <2>3 DEF Placed, OnePlace, StillWritable
  <2>5. InHand(d)
    BY <2>1, <2>2, <2>3, <2>4 DEF InHand, Queued, TypeOK, Placed, OnePlace
  <2>6. CASE Place(loop.new) \/ Refuse(loop.new)
    BY <1>0, <2>1, <2>3, <2>5, <2>6, PlaceSteady
  <2>7. CASE loop' = [loop EXCEPT !.at = "ids"] /\ UNCHANGED <<peer, slot>>
    <3>1. loop'.at # "handle"
      BY <2>7 DEF TypeOK, LoopRecord
    <3> QED BY <2>1, <2>7, <3>1, QuietSteady DEF Handling, At
  <2> QED BY <2>1, <2>6, <2>7
<1>10. CASE Receive
  BY <1>0, <1>10, ReceiveSteady
<1>11. CASE Hangup
  BY <1>11, HangupSteady
<1>12. CASE Handled
  BY <1>0, <1>12, HandledSteady
<1>13. CASE Write
  BY <1>0, <1>13, WriteSteady
<1>14. CASE Finish
  <2>1. /\ peer'[c] = IF peer[c] = "away" THEN "away" ELSE "closed"
        /\ UNCHANGED <<stream, last, got>> /\ slot' = [i \in Slots |-> FreeSlot]
    BY <1>14 DEF Finish
  <2>2. ~InSlot(c)'
    BY <2>1 DEF InSlot, FreeSlot
  <2>3. CASE peer[c] = "away"
    BY <2>1, <2>2, <2>3 DEF Steady
  <2>4. CASE peer[c] # "away"
    BY <2>1, <2>4, EndedSteady
  <2> QED BY <2>3, <2>4
<1> QED BY <1>1, <1>2, <1>3, <1>4, <1>5, <1>6, <1>7, <1>8, <1>9, <1>10, <1>11, <1>12, <1>13, <1>14 DEF Next, Server

-----------------------------------------------------------------------------
(* The properties.                                                          *)

LEMMA Inductive == Spec => []IInv
<1>1. Init => IInv
  <2> SUFFICES ASSUME Init PROVE IInv
    OBVIOUS
  <2>1. TypeOK /\ Placed /\ LastSent
    BY InitPlaced
  <2>2. ASSUME NEW c \in Conns PROVE Steady(c)
    <3>1. peer[c] = "away" /\ last[c] = NoPiece /\ got[c] = <<>> /\ stream[c] = <<>>
      BY DEF Init
    <3> QED BY <3>1 DEF Steady
  <2> QED BY <2>1, <2>2 DEF IInv, InStep
<1>2. IInv /\ [Next]_vars => IInv'
  <2> SUFFICES ASSUME IInv, [Next]_vars PROVE IInv'
    OBVIOUS
  <2>1. TypeOK /\ Placed /\ LastSent /\ \A c \in Conns \ eager : Steady(c)
    BY DEF IInv, InStep
  <2>2. TypeOK' /\ Placed' /\ LastSent'
    BY <2>1, StepPlaced
  <2>3. eager \subseteq eager'
    BY DEF Next, vars, Client, Connect, Greet, Stall, SendPiece, Leave, Elapse, RequestExit, Start, Server,
           Select, Expire, Accept, Handshake, SkipRead, Receive, Hangup, Handled, Write, Finish, clientVars
  <2>4. ASSUME NEW c \in Conns, c \notin eager' PROVE Steady(c)'
    BY <2>1, <2>3, <2>4, StepSteady
  <2> QED BY <2>2, <2>4 DEF IInv, InStep
<1> QED BY <1>1, <1>2, PTL DEF Spec

\* ssh-agent_emu.cpp: values keep their types, and recv() never gets more room than
\* the handler's buffer has behind what is in it.
THEOREM RoomAndTypesHold == Spec => []RoomAndTypes
<1>1. IInv => RoomAndTypes
  BY DEF IInv, Placed, Counts, RoomAndTypes, RoomFitsBuffer
<1> QED BY <1>1, Inductive, PTL

\* sock_server.c: every connection accepted and not closed has one slot, and no slot
\* outlives its connection.
THEOREM SlotsAreConnectionsHolds == Spec => []SlotsAreConnections
<1>1. IInv => SlotsAreConnections
  <2> SUFFICES ASSUME IInv, NEW c \in Conns
               PROVE  /\ Cardinality({i \in Slots : slot[i].avail /\ slot[i].conn = c}) <= 1
                      /\ InSlot(c) => peer[c] \in {"open", "shut", "reset"}
                      /\ peer[c] = "open" => \/ InSlot(c) \/ loop.new = c
                                             \/ \E n \in DOMAIN backlog : backlog[n] = c
    BY DEF SlotsAreConnections
  <2>1. OneSlot /\ OnePlace
    BY DEF IInv, Placed
  <2> DEFINE mine == {i \in Slots : slot[i].avail /\ slot[i].conn = c}
  <2>2. Cardinality(mine) <= 1
    <3>1. CASE mine = {}
      BY <3>1, FS_EmptySet
    <3>2. CASE mine # {}
      <4>1. PICK i \in mine : TRUE
        BY <3>2
      <4>2. mine = {i}
        BY <2>1, <4>1 DEF OneSlot
      <4> HIDE DEF mine
      <4>3. Cardinality(mine) = 1
        BY <4>2, FS_Singleton
      <4> QED BY <4>3
    <3> QED BY <3>1, <3>2
  <2> QED BY <2>1, <2>2 DEF OnePlace, Alive, Queued
<1> QED BY <1>1, Inductive, PTL

\* sock_server.c:563: the read half of a turn has not closed the connection whose
\* write half comes.
THEOREM WritesToLiveConnectionHolds == Spec => []WritesToLiveConnection
<1>1. IInv => WritesToLiveConnection
  <2> SUFFICES ASSUME IInv, At("write") PROVE slot[loop.i].avail /\ slot[loop.i].send > 0
    BY DEF WritesToLiveConnection
  <2>1. loop.i \in Slots /\ slot[loop.i].avail /\ slot[loop.i].conn \in loop.wr /\ loop.i >= loop.i
    BY SlotOfTurn, SizeAssumption DEF IInv, At, Placed, LoopPlace, Slots
  <2> QED BY <2>1 DEF IInv, Placed, StillWritable
<1> QED BY <1>1, Inductive, PTL

\* A client that waits for each answer before it asks again gets the answer of its
\* n-th request as the n-th, whatever was split, flushed or timed out.
THEOREM AnswersInStepHolds == Spec => []AnswersInStep
<1>1. IInv => AnswersInStep
  BY DEF IInv, InStep, Steady, AnswersInStep
<1> QED BY <1>1, Inductive, PTL

-----------------------------------------------------------------------------
(* The abstract transport.                                                  *)

Phases == [c \in Conns |-> Phase(c)]

\* The phase of a connection, without a choice of its slot.
PhaseKnown(c) ==
  /\ peer[c] = "closed" => Phase(c) = [at |-> "gone", n |-> 0]
  /\ peer[c] # "closed" /\ ~InSlot(c) => Phase(c) = [at |-> "away", n |-> 0]
  /\ \A i \in Slots : peer[c] # "closed" /\ slot[i].avail /\ slot[i].conn = c =>
       Phase(c) = [ at |-> IF Handling(i) THEN "busy" ELSE IF slot[i].send > 0 THEN "owed" ELSE "idle",
                    n  |-> slot[i].n ]

LEMMA PhasesKnown ==
  ASSUME OneSlot
  PROVE  \A c \in Conns : PhaseKnown(c)
<1> SUFFICES ASSUME NEW c \in Conns PROVE PhaseKnown(c)
  OBVIOUS
<1>1. peer[c] = "closed" => Phase(c) = [at |-> "gone", n |-> 0]
  BY DEF Phase
<1>2. peer[c] # "closed" /\ ~InSlot(c) => Phase(c) = [at |-> "away", n |-> 0]
  BY DEF Phase
<1>3. ASSUME NEW i \in Slots, peer[c] # "closed", slot[i].avail, slot[i].conn = c
      PROVE  Phase(c) = [ at |-> IF Handling(i) THEN "busy" ELSE IF slot[i].send > 0 THEN "owed" ELSE "idle",
                          n  |-> slot[i].n ]
  <2>1. InSlot(c)
    BY <1>3 DEF InSlot
  <2>2. i = CHOOSE j \in Slots : slot[j].avail /\ slot[j].conn = c
    BY <1>3 DEF OneSlot
  <2> QED BY <1>3, <2>1, <2>2 DEF Phase, Handling
<1> QED BY <1>1, <1>2, <1>3 DEF PhaseKnown

LEMMA PhasesKnownNext ==
  ASSUME OneSlot'
  PROVE  \A c \in Conns : PhaseKnown(c)'
<1> SUFFICES ASSUME NEW c \in Conns PROVE PhaseKnown(c)'
  OBVIOUS
<1>1. peer'[c] = "closed" => Phase(c)' = [at |-> "gone", n |-> 0]
  BY DEF Phase
<1>2. peer'[c] # "closed" /\ ~InSlot(c)' => Phase(c)' = [at |-> "away", n |-> 0]
  BY DEF Phase
<1>3. ASSUME NEW i \in Slots, peer'[c] # "closed", slot'[i].avail, slot'[i].conn = c
      PROVE  Phase(c)' = [ at |-> IF Handling(i)' THEN "busy" ELSE IF slot'[i].send > 0 THEN "owed" ELSE "idle",
                           n  |-> slot'[i].n ]
  <2>1. InSlot(c)'
    BY <1>3 DEF InSlot
  <2>2. i = CHOOSE j \in Slots : slot'[j].avail /\ slot'[j].conn = c
    BY <1>3 DEF OneSlot
  <2> QED BY <1>3, <2>1, <2>2 DEF Phase, Handling
<1> QED BY <1>1, <1>2, <1>3 DEF PhaseKnown

\* What Phase(c) looks at stays.
PhaseKept(c) ==
  /\ peer'[c] = "closed" <=> peer[c] = "closed"
  /\ \A i \in Slots : slot'[i].avail /\ slot'[i].conn = c <=> slot[i].avail /\ slot[i].conn = c
  /\ \A i \in Slots : slot[i].avail /\ slot[i].conn = c =>
       /\ slot'[i].send > 0 <=> slot[i].send > 0
       /\ slot'[i].n = slot[i].n
       /\ Handling(i)' <=> Handling(i)

LEMMA PhaseStays ==
  ASSUME OneSlot, OneSlot', NEW c \in Conns, PhaseKept(c)
  PROVE  Phase(c)' = Phase(c)
<1>1. PhaseKnown(c) /\ PhaseKnown(c)'
  BY PhasesKnown, PhasesKnownNext
<1>2. CASE peer[c] = "closed"
  BY <1>1, <1>2 DEF PhaseKnown, PhaseKept
<1>3. CASE peer[c] # "closed" /\ ~InSlot(c)
  <2>1. peer'[c] # "closed" /\ ~InSlot(c)'
    BY <1>3 DEF InSlot, PhaseKept
  <2> QED BY <1>1, <1>3, <2>1 DEF PhaseKnown
<1>4. CASE peer[c] # "closed" /\ InSlot(c)
  <2>1. PICK i \in Slots : slot[i].avail /\ slot[i].conn = c
    BY <1>4 DEF InSlot
  <2>2. /\ peer'[c] # "closed" /\ slot'[i].avail /\ slot'[i].conn = c /\ slot'[i].n = slot[i].n
        /\ slot'[i].send > 0 <=> slot[i].send > 0
        /\ Handling(i)' <=> Handling(i)
    BY <1>4, <2>1 DEF PhaseKept
  <2>3. Phase(c)' = [ at |-> IF Handling(i)' THEN "busy" ELSE IF slot'[i].send > 0 THEN "owed" ELSE "idle",
                      n  |-> slot'[i].n ]
    BY <1>1, <2>2 DEF PhaseKnown
  <2>4. Phase(c) = [ at |-> IF Handling(i) THEN "busy" ELSE IF slot[i].send > 0 THEN "owed" ELSE "idle",
                     n  |-> slot[i].n ]
    BY <1>1, <1>4, <2>1 DEF PhaseKnown
  <2> QED BY <2>2, <2>3, <2>4
<1> QED BY <1>2, <1>3, <1>4

\* Nobody's request is with the handler unless the loop is there.
LEMMA NobodyBusy ==
  ASSUME OneSlot, \A j \in Slots : ~Handling(j)
  PROVE  \A c \in Conns : Phase(c).at # "busy"
<1> SUFFICES ASSUME NEW c \in Conns PROVE Phase(c).at # "busy"
  OBVIOUS
<1>1. PhaseKnown(c)
  BY PhasesKnown
<1>2. CASE peer[c] = "closed" \/ ~InSlot(c)
  BY <1>1, <1>2 DEF PhaseKnown
<1>3. CASE peer[c] # "closed" /\ InSlot(c)
  <2>1. PICK i \in Slots : slot[i].avail /\ slot[i].conn = c
    BY <1>3 DEF InSlot
  <2> QED BY <1>1, <1>3, <2>1 DEF PhaseKnown
<1> QED BY <1>2, <1>3

LEMMA PortUnseen ==
  ASSUME OneSlot, OneSlot', UNCHANGED got, \A c \in Conns : PhaseKept(c)
  PROVE  UNCHANGED Port!vars
<1>1. Phases' = Phases
  <2>1. \A c \in Conns : Phase(c)' = Phase(c)
    BY PhaseStays
  <2> QED BY <2>1 DEF Phases
<1> QED BY <1>1 DEF Port!vars, Phases

LEMMA PortGivesUp ==
  ASSUME OneSlot, OneSlot', UNCHANGED got, \A j \in Slots : ~Handling(j),
         \A c \in Conns : peer'[c] # "closed" => PhaseKept(c)
  PROVE  \E S \in SUBSET Conns : Port!GiveUp(S)
<1> DEFINE S == {c \in Conns : peer'[c] = "closed"}
<1>1. \A c \in Conns : Phases[c].at # "busy"
  BY NobodyBusy DEF Phases
<1>2. ASSUME NEW c \in Conns
      PROVE  Phases'[c] = IF c \in S THEN [at |-> "gone", n |-> 0] ELSE Phases[c]
  <2>1. CASE c \in S
    <3>1. PhaseKnown(c)'
      BY PhasesKnownNext
    <3> QED BY <2>1, <3>1 DEF PhaseKnown, Phases
  <2>2. CASE c \notin S
    BY <2>2, PhaseStays DEF Phases
  <2> QED BY <2>1, <2>2
<1>3. Phases' = [c \in Conns |-> IF c \in S THEN [at |-> "gone", n |-> 0] ELSE Phases[c]]
  BY <1>2 DEF Phases
<1>4. PICK T \in SUBSET Conns : T = S
  OBVIOUS
<1>5. Port!GiveUp(T)
  BY <1>1, <1>3, <1>4 DEF Port!GiveUp, Port!Quiet, Phases
<1> QED BY <1>5

\* One connection's phase changes.
LEMMA PortOneMoves ==
  ASSUME OneSlot, OneSlot', NEW d \in Conns, \A c \in Conns : c # d => PhaseKept(c)
  PROVE  Phases' = [Phases EXCEPT ![d] = Phase(d)']
<1>1. \A c \in Conns : c # d => Phase(c)' = Phase(c)
  BY PhaseStays
<1> QED BY <1>1 DEF Phases

\* Another connection's slot changes.
LEMMA ElsewhereKept ==
  ASSUME TypeOK, NEW i \in Slots, NEW s \in SlotRecord, slot' = [slot EXCEPT ![i] = s],
         NEW d, slot[i].avail => slot[i].conn = d, s.conn = d,
         \A j \in Slots : j # i => (Handling(j)' <=> Handling(j)),
         NEW c \in Conns, c # d, peer'[c] = peer[c]
  PROVE  PhaseKept(c)
<1>1. \A j \in Slots : slot'[j] = IF j = i THEN s ELSE slot[j]
  BY SlotSet
<1>2. \A j \in Slots : slot'[j].avail /\ slot'[j].conn = c <=> slot[j].avail /\ slot[j].conn = c
  BY <1>1
<1>3. \A j \in Slots : slot[j].avail /\ slot[j].conn = c => slot'[j] = slot[j] /\ j # i
  BY <1>1
<1> QED BY <1>2, <1>3 DEF PhaseKept

\* The slot of a connection is the only one.
LEMMA OnlySlot ==
  ASSUME OneSlot, OneSlot', NEW i \in Slots, slot[i].avail, slot'[i].avail, slot'[i].conn = slot[i].conn
  PROVE  /\ \A j \in Slots : slot[j].avail /\ slot[j].conn = slot[i].conn <=> j = i
         /\ \A j \in Slots : slot'[j].avail /\ slot'[j].conn = slot[i].conn <=> j = i
BY DEF OneSlot

LEMMA ReceiveImplements ==
  ASSUME TypeOK, Placed, OneSlot', Receive
  PROVE  Port!Next \/ UNCHANGED Port!vars
<1>1. PICK i \in Slots, d \in Conns, r \in Nat, pieces \in Seq(Piece), whole \in BOOLEAN :
             Took(i, d, r, pieces, whole)
  BY ReceiveGives
<1>2. /\ i = loop.i /\ d = slot[i].conn /\ slot[i].avail /\ slot[i] \in SlotRecord /\ peer[d] \in Alive
      /\ slot[i].send = 0 /\ slot[i].n = 0
      /\ loop' = IF whole THEN [loop EXCEPT !.at = "handle"] ELSE AfterRead(i, slot)
  BY <1>1 DEF Took
<1>3. UNCHANGED <<peer, got>> /\ At("read") /\ OneSlot
  BY DEF Receive, Placed
<1>4. PICK s : s = Received(slot[i], pieces, whole)
  OBVIOUS
<1>5. slot[i].left = slot[i].size - Len(slot[i].buf) /\ Len(pieces) \in 1..slot[i].left
      /\ whole \in Complete(slot[i].buf \o pieces) /\ slot' = [slot EXCEPT ![i] = s]
  BY <1>1, <1>4 DEF Took
<1>6. ReceivedFrom(slot[i], pieces, whole, s)
  BY <1>2, <1>4, <1>5, ReceivedSlot, Zenon
<1>7. s \in SlotRecord /\ s.avail /\ s.conn = d /\ s.send = 0 /\ (~whole => s.n = 0)
  BY <1>2, <1>6 DEF ReceivedFrom
<1>8. slot'[i] = s
  BY <1>5, <1>7, SlotSet
<1>9. ~whole => loop'.at # "handle"
  BY <1>2, TurnAt
<1>10. whole => loop'.at = "handle" /\ loop'.i = i
  BY <1>2 DEF TypeOK, LoopRecord
<1>11. (\A j \in Slots : ~Handling(j)) /\ (\A j \in Slots : j # i => ~Handling(j)') /\ (Handling(i)' <=> whole)
  BY <1>3, <1>9, <1>10 DEF Handling, At
<1>12. \A c \in Conns : c # d => PhaseKept(c)
  BY <1>2, <1>3, <1>5, <1>7, <1>11, ElsewhereKept
<1>13. CASE ~whole
  <2>1. PhaseKept(d)
    BY <1>2, <1>3, <1>7, <1>8, <1>11, <1>13, OnlySlot DEF PhaseKept
  <2> QED BY <1>3, <1>12, <2>1, PortUnseen
<1>14. CASE whole
  <2>1. Phase(d) = [at |-> "idle", n |-> 0]
    <3>1. PhaseKnown(d)
      BY <1>3, PhasesKnown
    <3> QED BY <1>2, <1>11, <3>1 DEF PhaseKnown, Alive
  <2>2. Phase(d)' = [at |-> "busy", n |-> s.n]
    <3>1. PhaseKnown(d)'
      BY PhasesKnownNext
    <3> QED BY <1>2, <1>3, <1>7, <1>8, <1>11, <1>14, <3>1 DEF PhaseKnown, Alive
  <2>3. s.n \in 0..MaxRequests
    BY <1>7 DEF SlotRecord
  <2>4. Phases' = [Phases EXCEPT ![d] = [at |-> "busy", n |-> s.n]]
    BY <1>3, <1>12, <2>2, PortOneMoves
  <2>5. \A c \in Conns : Phase(c).at # "busy"
    BY <1>3, <1>11, NobodyBusy
  <2>6. Port!Ask(d, s.n)
    BY <1>3, <2>1, <2>4, <2>5 DEF Port!Ask, Phases
  <2> QED BY <2>3, <2>6 DEF Port!Next
<1> QED BY <1>13, <1>14

LEMMA HandledImplements ==
  ASSUME TypeOK, Placed, OneSlot', Handled
  PROVE  Port!Next
<1>1. PICK i \in Slots : i = loop.i
  BY SlotOfTurn DEF Handled, At
<1>2. PICK d \in Conns : d = slot[i].conn
  BY <1>1, SlotOfTurn DEF Handled, At
<1>3. /\ At("handle") /\ UNCHANGED <<peer, got>> /\ OneSlot
      /\ slot' = [slot EXCEPT ![i].send = ReplyLength, ![i].timer = "set"]
      /\ loop' = AfterRead(i, slot)
  BY <1>1 DEF Handled, clientVars, Placed
<1>4. slot[i] \in SlotRecord /\ slot[i].avail /\ peer[d] \in Alive /\ Handling(i)
  BY <1>1, <1>2, <1>3, SlotOfTurn DEF At, Handling
<1>5. PICK s : s = [slot[i] EXCEPT !.send = ReplyLength, !.timer = "set"]
  OBVIOUS
<1>6. s \in SlotRecord /\ s.avail /\ s.conn = d /\ s.send > 0 /\ s.n = slot[i].n
  BY <1>2, <1>4, <1>5, HandledSlot
<1>7. slot' = [slot EXCEPT ![i] = s]
  BY <1>3, <1>5 DEF TypeOK
<1>8. slot'[i] = s
  BY <1>6, <1>7, SlotSet
<1>9. (\A j \in Slots : ~Handling(j)') /\ \A j \in Slots : j # i => ~Handling(j)
  BY <1>1, <1>3, TurnAt DEF Handling, At
<1>10. \A c \in Conns : c # d => PhaseKept(c)
  BY ZenonT(60), <1>2, <1>3, <1>6, <1>7, <1>9, ElsewhereKept
<1>11. Phase(d) = [at |-> "busy", n |-> slot[i].n]
  <2>1. PhaseKnown(d)
    BY <1>3, PhasesKnown
  <2> QED BY <1>2, <1>4, <2>1 DEF PhaseKnown, Alive
<1>12. Phase(d)' = [at |-> "owed", n |-> slot[i].n]
  <2>1. PhaseKnown(d)'
    BY PhasesKnownNext
  <2> QED BY <1>3, <1>4, <1>6, <1>8, <1>9, <2>1 DEF PhaseKnown, Alive
<1>13. Phases' = [Phases EXCEPT ![d].at = "owed"]
  <2>1. Phases' = [Phases EXCEPT ![d] = Phase(d)']
    BY <1>3, <1>10, PortOneMoves
  <2>2. Phases[d] = [at |-> "busy", n |-> slot[i].n]
    BY <1>11 DEF Phases
  <2>3. Phase(d)' = [Phases[d] EXCEPT !.at = "owed"]
    BY <1>12, <2>2
  <2> QED BY <2>1, <2>3 DEF Phases
<1>14. Port!Answer(d)
  BY <1>3, <1>11, <1>13 DEF Port!Answer, Phases
<1> QED BY <1>14 DEF Port!Next

LEMMA WriteImplements ==
  ASSUME TypeOK, Placed, OneSlot', Write
  PROVE  Port!Next \/ UNCHANGED Port!vars
<1>1. PICK i \in Slots, d \in Conns : Written(i, d)
  BY WriteGives
<1>2. /\ i = loop.i /\ d = slot[i].conn /\ slot[i].avail /\ slot[i] \in SlotRecord /\ slot[i].send > 0
      /\ slot[i].left = slot[i].size - Len(slot[i].buf) /\ peer[d] \in Alive /\ OneSlot
  BY <1>1 DEF Written, Placed
<1>3. \A j \in Slots : ~Handling(j) /\ ~Handling(j)'
  <2>1. loop'.at # "handle" /\ loop.at = "write"
    BY TurnAt DEF Write, At
  <2> QED BY <2>1 DEF Handling, At
<1>4. CASE SentAll(i, d)
  <2>1. PICK s : s = Sent(slot[i])
    OBVIOUS
  <2>2. s \in SlotRecord /\ s.avail /\ s.conn = d /\ s.send = 0 /\ s.n = 0
    BY <1>2, <2>1, OtherSlots
  <2>3. slot' = [slot EXCEPT ![i] = s] /\ peer' = peer /\ got' = [got EXCEPT ![d] = Append(@, slot[i].n)]
    BY <1>4, <2>1 DEF SentAll
  <2>4. slot'[i] = s
    BY <2>2, <2>3, SlotSet
  <2>5. \A c \in Conns : c # d => PhaseKept(c)
    BY <1>2, <1>3, <2>2, <2>3, ElsewhereKept
  <2>6. Phase(d) = [at |-> "owed", n |-> slot[i].n]
    <3>1. PhaseKnown(d)
      BY <1>2, PhasesKnown
    <3> QED BY <1>2, <1>3, <3>1 DEF PhaseKnown, Alive
  <2>7. Phase(d)' = [at |-> "idle", n |-> 0]
    <3>1. PhaseKnown(d)'
      BY PhasesKnownNext
    <3> QED BY <1>2, <1>3, <2>2, <2>3, <2>4, <3>1 DEF PhaseKnown, Alive
  <2>8. Phases' = [Phases EXCEPT ![d] = [at |-> "idle", n |-> 0]]
    BY <1>2, <2>5, <2>7, PortOneMoves
  <2>9. Port!Deliver(d)
    <3>1. Phases[d] = [at |-> "owed", n |-> slot[i].n]
      BY <2>6 DEF Phases
    <3>2. Phases[d].at = "owed" /\ Phases[d].n = slot[i].n
      BY <3>1
    <3>3. got' = [got EXCEPT ![d] = Append(@, Phases[d].n)]
      BY <2>3, <3>2
    <3> QED BY <2>8, <3>2, <3>3, Zenon DEF Port!Deliver, Port!Quiet, Phases
  <2> QED BY <2>9 DEF Port!Next
<1>5. CASE SentSome(i)
  <2>1. PICK r \in 1..slot[i].send - 1 : slot' = [slot EXCEPT ![i] = [slot[i] EXCEPT !.send = @ - r]]
    BY <1>5 DEF SentSome
  <2>2. slot[i].send - r \in 0..ReplyLength /\ slot[i].send - r > 0
    <3>1. slot[i].send \in 0..ReplyLength
      BY <1>2 DEF SlotRecord
    <3> QED BY <2>1, <3>1, SizeAssumption
  <2>3. PICK s : s = [slot[i] EXCEPT !.send = @ - r]
    OBVIOUS
  <2>4. s \in SlotRecord
    BY <1>2, <2>2, <2>3 DEF SlotRecord
  <2>5. s.avail /\ s.conn = d /\ s.send > 0 /\ s.n = slot[i].n
    BY <1>2, <2>2, <2>3 DEF SlotRecord
  <2>6. got' = got /\ peer' = peer /\ slot' = [slot EXCEPT ![i] = s]
    BY <1>5, <2>1, <2>3 DEF SentSome
  <2>7. slot'[i] = s
    BY <2>4, <2>6, SlotSet
  <2>8. \A c \in Conns : c # d => PhaseKept(c)
    BY <1>2, <1>3, <2>4, <2>5, <2>6, ElsewhereKept
  <2>9. PhaseKept(d)
    BY <1>2, <1>3, <2>5, <2>6, <2>7, OnlySlot DEF PhaseKept
  <2> QED BY <1>2, <2>6, <2>8, <2>9, PortUnseen
<1>6. CASE SentNone(i, d)
  <2>1. PICK s : s = Closed(slot[i])
    OBVIOUS
  <2>2. s \in SlotRecord /\ s.conn = d /\ slot' = [slot EXCEPT ![i] = s]
    BY <1>2, <1>6, <2>1, OtherSlots DEF SentNone, TypeOK
  <2>3. got' = got /\ \A c \in Conns : peer'[c] = IF c = d THEN "closed" ELSE peer[c]
    BY <1>6 DEF SentNone, TypeOK
  <2>4. \A c \in Conns : c # d => PhaseKept(c)
    BY ZenonT(60), <1>2, <1>3, <2>2, <2>3, ElsewhereKept
  <2>5. \E S \in SUBSET Conns : Port!GiveUp(S)
    BY <1>2, <1>3, <2>3, <2>4, PortGivesUp
  <2> QED BY <2>5 DEF Port!Next
<1> QED BY <1>1, <1>4, <1>5, <1>6 DEF Written

\* The slots stay, and so does what the loop does with them.
LEMMA QuietKept ==
  ASSUME UNCHANGED slot, \A j \in Slots : Handling(j)' <=> Handling(j),
         NEW c \in Conns, peer'[c] = "closed" <=> peer[c] = "closed"
  PROVE  PhaseKept(c)
BY DEF PhaseKept

LEMMA HangupImplements ==
  ASSUME TypeOK, Placed, OneSlot', Hangup
  PROVE  \E S \in SUBSET Conns : Port!GiveUp(S)
<1>1. PICK i \in Slots : i = loop.i
  BY SlotOfTurn DEF Hangup, At
<1>2. PICK d : d = slot[i].conn
  OBVIOUS
<1>3. /\ At("read") /\ slot' = [slot EXCEPT ![i] = Closed(@)] /\ peer' = [peer EXCEPT ![d] = "closed"]
      /\ loop' = AfterRead(i, slot') /\ UNCHANGED got
  BY <1>1, <1>2 DEF Hangup
<1>4. slot[i] \in SlotRecord /\ slot[i].avail /\ slot[i].left = slot[i].size - Len(slot[i].buf)
  BY <1>1, <1>3, SlotOfTurn DEF At, Counts
<1>5. PICK s : s = Closed(slot[i])
  OBVIOUS
<1>6. s \in SlotRecord /\ s.conn = d /\ slot' = [slot EXCEPT ![i] = s]
  BY <1>2, <1>3, <1>4, <1>5, OtherSlots DEF TypeOK
<1>7. \A j \in Slots : ~Handling(j) /\ ~Handling(j)'
  <2>1. loop.at = "read" /\ loop'.at # "handle"
    BY <1>3, TurnAt DEF At
  <2> QED BY <2>1 DEF Handling, At
<1>8. \A c \in Conns : peer'[c] = IF c = d THEN "closed" ELSE peer[c]
  BY <1>3 DEF TypeOK
<1>9. \A c \in Conns : c # d => PhaseKept(c)
  BY <1>2, <1>6, <1>7, <1>8, ElsewhereKept
<1> QED BY <1>3, <1>7, <1>8, <1>9, PortGivesUp DEF Placed

LEMMA ExpireImplements ==
  ASSUME TypeOK, Placed, OneSlot', Expire
  PROVE  \E S \in SUBSET Conns : Port!GiveUp(S)
<1> DEFINE due  == {i \in Slots : slot[i].avail /\ slot[i].timer = "due"}
           idle == {i \in due : slot[i].buf = <<>>}
<1>1. /\ At("select") /\ UNCHANGED <<got, loop>>
      /\ slot' = [i \in Slots |-> IF i \in idle THEN Closed(slot[i])
                                    ELSE IF i \in due THEN Flushed(slot[i]) ELSE slot[i]]
      /\ peer' = [e \in Conns |-> IF \E i \in idle : slot[i].conn = e
                                    THEN "closed" ELSE peer[e]]
  BY DEF Expire
<1>2. (\A i \in idle : i \in due) /\ (\A i \in due : i \in Slots /\ slot[i].avail)
  OBVIOUS
<1> HIDE DEF due, idle
<1>3. \A i \in due : slot[i] \in SlotRecord /\ slot[i].left = slot[i].size - Len(slot[i].buf)
  BY <1>2 DEF Placed, Counts, TypeOK
<1>4. \A j \in Slots : ~Handling(j) /\ ~Handling(j)'
  <2>1. loop'.at # "handle" /\ loop.at # "handle"
    BY <1>1 DEF At
  <2> QED BY <2>1 DEF Handling, At
<1>5. ASSUME NEW c \in Conns, peer'[c] # "closed" PROVE PhaseKept(c)
  <2>1. peer'[c] = peer[c] /\ ~\E i \in idle : slot[i].conn = c
    BY <1>1, <1>5
  <2>2. ASSUME NEW j \in Slots
        PROVE  /\ slot'[j].avail /\ slot'[j].conn = c <=> slot[j].avail /\ slot[j].conn = c
               /\ slot[j].avail /\ slot[j].conn = c => slot'[j].send = slot[j].send /\ slot'[j].n = slot[j].n
    <3>1. CASE j \in idle
      <4>1. slot'[j] = Closed(slot[j]) /\ slot[j].conn # c
        BY <1>1, <2>1, <3>1
      <4>2. slot'[j].conn = slot[j].conn
        BY <1>2, <1>3, <3>1, <4>1, OtherSlots
      <4> QED BY <4>1, <4>2
    <3>2. CASE j \in due /\ j \notin idle
      <4>1. slot'[j] = Flushed(slot[j])
        BY <1>1, <3>2
      <4> QED BY <1>3, <3>2, <4>1, OtherSlots
    <3>3. CASE j \notin due
      <4>1. slot'[j] = slot[j]
        BY <1>1, <1>2, <3>3
      <4> QED BY <4>1
    <3> QED BY <3>1, <3>2, <3>3
  <2> QED BY <1>4, <2>1, <2>2 DEF PhaseKept
<1> QED BY <1>1, <1>4, <1>5, PortGivesUp DEF Placed

LEMMA FinishImplements ==
  ASSUME Placed, OneSlot', Finish
  PROVE  \E S \in SUBSET Conns : Port!GiveUp(S)
<1>1. /\ loop.at = "select" /\ UNCHANGED got /\ slot' = [i \in Slots |-> FreeSlot]
      /\ peer' = [c \in Conns |-> IF peer[c] = "away" THEN "away" ELSE "closed"]
      /\ loop'.at = "stopped"
  BY DEF Finish, At, Waiting
<1>2. \A j \in Slots : ~Handling(j) /\ ~Handling(j)'
  BY <1>1 DEF Handling, At
<1>3. ASSUME NEW c \in Conns, peer'[c] # "closed" PROVE PhaseKept(c)
  <2>1. peer[c] = "away" /\ peer'[c] = "away"
    BY <1>1, <1>3
  <2>2. ~InSlot(c)
    BY <2>1 DEF Placed, OnePlace, Alive
  <2>3. \A j \in Slots : ~slot'[j].avail
    BY <1>1 DEF FreeSlot
  <2> QED BY <2>1, <2>2, <2>3 DEF PhaseKept, InSlot
<1> QED BY <1>1, <1>2, <1>3, PortGivesUp DEF Placed

LEMMA PlaceImplements ==
  ASSUME TypeOK, Placed, NEW d \in Conns, InHand(d), Place(d) \/ Refuse(d), OneSlot',
         UNCHANGED got, loop.at # "handle"
  PROVE  Port!Next
<1> DEFINE free == {j \in Slots : ~slot[j].avail}
           i == CHOOSE j \in free : \A k \in free : j <= k
<1>1. \A j \in Slots : ~Handling(j) /\ ~Handling(j)'
  <2>1. loop'.at # "handle"
    BY TurnAt DEF Place, Refuse
  <2> QED BY <2>1 DEF Handling, At
<1>2. CASE slot' = slot /\ peer' = [peer EXCEPT ![d] = "closed"]
  <2>1. \A c \in Conns : peer'[c] # "closed" => peer[c] = peer'[c]
    BY <1>2 DEF TypeOK
  <2>2. \A c \in Conns : peer'[c] # "closed" => PhaseKept(c)
    BY <1>1, <1>2, <2>1, QuietKept
  <2>3. \E S \in SUBSET Conns : Port!GiveUp(S)
    BY <1>1, <2>2, PortGivesUp DEF Placed
  <2> QED BY <2>3 DEF Port!Next
<1>3. CASE free # {} /\ Place(d)
  <2>1. slot' = [slot EXCEPT ![i] = Connected(d)] /\ peer' = peer
    BY <1>3 DEF Place
  <2>2. i \in Slots /\ ~slot[i].avail
    <3>1. free \in SUBSET Slots
      OBVIOUS
    <3>2. i \in free
      <4> HIDE DEF free
      <4>1. \E j \in free : \A k \in free : j <= k
        BY <1>3, <3>1, FirstSlot
      <4> QED BY <4>1
    <3> QED BY <3>2
  <2> HIDE DEF free, i
  <2>3. PICK k \in Slots : k = i
    BY <2>2
  <2>4. PICK s : s = Connected(d)
    OBVIOUS
  <2>5. s.avail /\ s.conn = d /\ s.send = 0 /\ s.n = 0
    BY <2>4 DEF Connected
  <2>6. \A j \in Slots : slot'[j] = IF j = k THEN s ELSE slot[j]
    BY <2>1, <2>3, <2>4 DEF TypeOK
  <2>7. ASSUME NEW c \in Conns, c # d PROVE PhaseKept(c)
    <3>1. \A j \in Slots : slot'[j].avail /\ slot'[j].conn = c <=> slot[j].avail /\ slot[j].conn = c
      BY <2>2, <2>3, <2>5, <2>6, <2>7
    <3>2. \A j \in Slots : slot[j].avail /\ slot[j].conn = c => slot'[j] = slot[j]
      BY <2>2, <2>3, <2>6
    <3> QED BY <1>1, <2>1, <3>1, <3>2 DEF PhaseKept
  <2>8. Phase(d) = [at |-> "away", n |-> 0]
    <3>1. PhaseKnown(d)
      BY PhasesKnown DEF Placed
    <3> QED BY <3>1 DEF PhaseKnown, InHand, Alive
  <2>9. Phase(d)' = [at |-> "idle", n |-> 0]
    <3>1. PhaseKnown(d)'
      BY PhasesKnownNext
    <3>2. peer'[d] # "closed" /\ slot'[k].avail /\ slot'[k].conn = d /\ slot'[k].send = 0 /\ slot'[k].n = 0
      BY <2>1, <2>5, <2>6 DEF InHand, Alive
    <3> QED BY <1>1, <3>1, <3>2 DEF PhaseKnown
  <2>10. Phases' = [Phases EXCEPT ![d] = [at |-> "idle", n |-> 0]]
    BY <2>7, <2>9, PortOneMoves DEF Placed
  <2>11. Port!Connect(d)
    <3>1. Phases[d].at = "away"
      BY <2>8 DEF Phases
    <3> QED BY <2>10, <3>1, Zenon DEF Port!Connect, Port!Quiet, Phases
  <2> QED BY <2>11 DEF Port!Next
<1> QED BY <1>2, <1>3 DEF Place, Refuse

LEMMA QuietImplements ==
  ASSUME Placed, OneSlot', UNCHANGED <<got, slot>>, \A j \in Slots : Handling(j)' <=> Handling(j),
         \A c \in Conns : peer'[c] = "closed" <=> peer[c] = "closed"
  PROVE  UNCHANGED Port!vars
BY QuietKept, PortUnseen DEF Placed

LEMMA StepImplements ==
  ASSUME TypeOK, Placed, OneSlot', [Next]_vars
  PROVE  Port!Next \/ UNCHANGED Port!vars
<1>1. CASE UNCHANGED vars
  BY <1>1, QuietImplements DEF vars, Handling, At
<1>2. ASSUME NEW d \in Conns, Client(d)
      PROVE  UNCHANGED Port!vars
  <2>1. UNCHANGED <<got, slot, loop>>
    BY <1>2 DEF Client, Connect, Greet, Stall, SendPiece, Leave
  <2>2. \A c \in Conns : peer'[c] = "closed" <=> peer[c] = "closed"
    BY <1>2 DEF Client, Connect, Greet, Stall, SendPiece, Leave, TypeOK
  <2> QED BY <2>1, <2>2, QuietImplements DEF Handling, At
<1>3. ASSUME NEW i \in Slots, Elapse(i)
      PROVE  UNCHANGED Port!vars
  <2>1. UNCHANGED <<got, peer, loop>> /\ slot' = [slot EXCEPT ![i].timer = "due"]
    BY <1>3 DEF Elapse, clientVars
  <2>2. \A j \in Slots : /\ slot'[j].avail = slot[j].avail /\ slot'[j].conn = slot[j].conn
                         /\ slot'[j].send = slot[j].send /\ slot'[j].n = slot[j].n
    BY <2>1 DEF TypeOK, SlotRecord
  <2>3. \A c \in Conns : PhaseKept(c)
    BY <2>1, <2>2 DEF PhaseKept, Handling, At
  <2> QED BY <2>1, <2>3, PortUnseen DEF Placed
<1>4. CASE RequestExit
  BY <1>4, QuietImplements DEF RequestExit, clientVars, Handling, At
<1>5. CASE Start
  BY <1>5, QuietImplements DEF Start, clientVars, Handling, At, Waiting
<1>6. CASE Select \/ SkipRead
  <2>1. UNCHANGED <<got, peer, slot>> /\ loop.at # "handle"
    BY <1>6 DEF Select, SkipRead, clientVars, At
  <2>2. loop'.at # "handle"
    BY <1>6, TurnAt DEF Select, SkipRead
  <2> QED BY <2>1, <2>2, QuietImplements DEF Handling, At
<1>7. CASE Expire
  BY <1>7, ExpireImplements DEF Port!Next
<1>8. CASE Accept
  <2> DEFINE d == Head(backlog)
  <2>1. /\ loop.at = "accept" /\ backlog' = Tail(backlog) /\ backlog # <<>> /\ UNCHANGED got
        /\ IF Cygwin
           THEN /\ loop' = [loop EXCEPT !.at = "guid", !.new = d]
                /\ UNCHANGED <<peer, slot>>
           ELSE Place(d)
    BY <1>8 DEF Accept, Placed, LoopPlace, At
  <2>2. d \in Conns /\ Queued(d) /\ backlog' \in Seq(Conns)
        /\ (\A e \in Conns : Queued(e)' <=> Queued(e) /\ e # d)
        /\ \A m, n \in DOMAIN backlog' : backlog'[m] = backlog'[n] => m = n
    BY <2>1, HeadLeaves
  <2> HIDE DEF d
  <2>3. PICK e \in Conns : e = d
    BY <2>2
  <2>4. loop.i = 0 /\ loop.new = NoConn /\ peer[e] \in Alive /\ ~InSlot(e) /\ e \notin loop.wr
    BY <2>1, <2>2, <2>3 DEF Placed, LoopPlace, OnePlace, StillWritable, At
  <2>5. CASE ~Cygwin
    <3>1. InHand(e)
      BY <2>2, <2>3, <2>4 DEF InHand
    <3> QED BY <2>1, <2>3, <2>5, <3>1, PlaceImplements
  <2>6. CASE Cygwin
    <3>1. loop'.at # "handle"
      BY <2>1, <2>6 DEF TypeOK, LoopRecord
    <3> QED BY <2>1, <2>6, <3>1, QuietImplements DEF Handling, At
  <2> QED BY <2>5, <2>6, SizeAssumption
<1>9. CASE Handshake
  <2>1. /\ loop.at \in {"guid", "ids"} /\ UNCHANGED <<got, backlog>>
        /\ \/ loop' = [loop EXCEPT !.at = "ids"] /\ UNCHANGED <<peer, slot>>
           \/ Place(loop.new) \/ Refuse(loop.new)
    BY <1>9 DEF Handshake, At
  <2>2. loop.new \in Conns /\ loop.i = 0
    BY <2>1 DEF TypeOK, LoopRecord, Placed, LoopPlace
  <2>3. PICK d \in Conns : d = loop.new
    BY <2>2
  <2>4. peer[d] \in Alive /\ ~InSlot(d) /\ ~Queued(d) /\ d \notin loop.wr
    BY <2>2, <2>3 DEF Placed, OnePlace, StillWritable
  <2>5. InHand(d)
    BY <2>1, <2>2, <2>3, <2>4 DEF InHand, Queued, TypeOK, Placed, OnePlace
  <2>6. CASE Place(loop.new) \/ Refuse(loop.new)
    BY <2>1, <2>3, <2>5, <2>6, PlaceImplements
  <2>7. CASE loop' = [loop EXCEPT !.at = "ids"] /\ UNCHANGED <<peer, slot>>
    <3>1. loop'.at # "handle"
      BY <2>7 DEF TypeOK, LoopRecord
    <3> QED BY <2>1, <2>7, <3>1, QuietImplements DEF Handling, At
  <2> QED BY <2>1, <2>6, <2>7
<1>10. CASE Receive
  BY <1>10, ReceiveImplements
<1>11. CASE Hangup
  BY <1>11, HangupImplements DEF Port!Next
<1>12. CASE Handled
  BY <1>12, HandledImplements
<1>13. CASE Write
  BY <1>13, WriteImplements
<1>14. CASE Finish
  BY <1>14, FinishImplements DEF Port!Next
<1> QED BY <1>1, <1>2, <1>3, <1>4, <1>5, <1>6, <1>7, <1>8, <1>9, <1>10, <1>11, <1>12, <1>13, <1>14 DEF Next, Server

\* sock_server.c: one request at a time is with the handler, its answer goes once
\* and only to the connection that asked, and a connection is never given up while
\* the handler works for it.
THEOREM SockImplementsPort == Spec => ImplementsPort
<1>1. Init => Port!Init
  <2> SUFFICES ASSUME Init PROVE Port!Init
    OBVIOUS
  <2>1. got = [c \in Conns |-> <<>>] /\ \A c \in Conns : peer[c] = "away" /\ ~InSlot(c)
    BY DEF Init, FreeSlot, InSlot
  <2>2. \A c \in Conns : Phase(c) = [at |-> "away", n |-> 0]
    BY <2>1 DEF Phase
  <2> QED BY <2>1, <2>2 DEF Port!Init, Port!Quiet
<1>2. IInv /\ IInv' /\ [Next]_vars => [Port!Next]_Port!vars
  <2> SUFFICES ASSUME IInv, IInv', [Next]_vars PROVE [Port!Next]_Port!vars
    OBVIOUS
  <2>1. TypeOK /\ Placed /\ OneSlot'
    BY DEF IInv, Placed
  <2> QED BY <2>1, StepImplements
<1> QED BY <1>1, <1>2, Inductive, PTL DEF Spec, ImplementsPort, Port!Spec
=============================================================================
