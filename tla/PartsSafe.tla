----------------------------- MODULE PartsSafe -----------------------------
(***************************************************************************)
(* What the parts promise that meet the rest of the program in one call:   *)
(* the named pipe, the loads of key files with what is remembered of their *)
(* passphrases, and the smart cards with their sessions and cache of PINs. *)
(***************************************************************************)
EXTENDS Parts, SequenceTheorems, FiniteSetTheorems,
        WellFoundedInduction, TLAPS

-----------------------------------------------------------------------------
(* The pipe, for any clients, any length of a request and any room that     *)
(* holds one.                                                               *)

Pieces == [n : 1..PipeRequests, k : 1..RequestLength]

-----------------------------------------------------------------------------
(* The inductive invariant.                                                 *)

\* Who is connected, who has sent nothing; and a thread that is not reading or answering has nothing of a
\* client in hand.
Places ==
  /\ \A c \in PipeClients : client[c] \in {"open", "left"} <=> taker = c
  /\ \A c \in PipeClients : client[c] \in {"away", "closed"} => sent[c] = <<>>
  /\ \A c \in PipeClients : lastSent[c].n = 0 => lastSent[c].k = RequestLength
  /\ thread = "none" <=> instance = "none"
  /\ taker = Nobody => szData = <<>>
  /\ thread \in {"length", "rest"} => szData = <<>>
  /\ thread = "handle" => szData # <<>>

\* Nothing of this client is under way.
Quiescent(c) ==
  /\ lastSent[c].n = Len(answers[c]) /\ lastSent[c].k = RequestLength
  /\ szData = <<>> /\ sent[c] = <<>> /\ thread \notin {"handle", "length", "rest"}

\* Of request n, the first k pieces.
UpTo(data, n, k) == Len(data) = k /\ \A i \in 1..k : data[i].n = n /\ data[i].k = i

\* Its next request has been read in part or in full.
Arriving(c) ==
  /\ lastSent[c].n = Len(answers[c]) + 1 /\ thread \notin {"length", "rest"}
  /\ UpTo(szData \o sent[c], lastSent[c].n, lastSent[c].k)
  /\ thread = "handle" => Len(szData) = RequestLength

\* Its next request has been handled.
Answered(c) ==
  /\ lastSent[c].n = Len(answers[c]) + 1 /\ lastSent[c].k = RequestLength
  /\ sent[c] = <<>> /\ thread \in {"length", "rest"} /\ owed = lastSent[c].n

\* What the invariant says of one client.
Steady(c) ==
  /\ answers[c] = [n \in DOMAIN answers[c] |-> n]
  /\ client[c] = "away" => lastSent[c] = NothingSent /\ answers[c] = <<>>
  /\ taker = c => Quiescent(c) \/ Arriving(c) \/ Answered(c)

InStep == \A c \in PipeClients \ hasty : Steady(c)

Typed ==
  /\ instance \in {"none", "listening", "taken", "disconnected"}
  /\ taker \in PipeClients \cup {Nobody} /\ (taker # Nobody <=> instance = "taken")
  /\ thread \in {"none", "connect", "waiting", "read", "handle", "length", "rest", "off"}
  /\ thread \in {"read", "handle", "length", "rest"} => taker # Nobody
  /\ early \in BOOLEAN /\ control \in BOOLEAN
  /\ szData \in Seq(Pieces) /\ Len(szData) <= DataRoom /\ owed \in 0..PipeRequests
  /\ client \in [PipeClients -> {"away", "open", "left", "closed"}]
  /\ sent \in [PipeClients -> Seq(Pieces)]
  /\ hasty \subseteq PipeClients /\ answers \in [PipeClients -> Seq(0..PipeRequests)]
  /\ lastSent \in [PipeClients -> [n : 0..PipeRequests, k : 1..RequestLength]]

IInv == Typed /\ Places /\ InStep

-----------------------------------------------------------------------------
(* Sequences.                                                               *)

LEMMA Cut ==
  ASSUME NEW S, NEW t \in Seq(S), NEW size \in 1..Len(t)
  PROVE  /\ SubSeq(t, 1, size) \in Seq(S) /\ SubSeq(t, size + 1, Len(t)) \in Seq(S)
         /\ Len(SubSeq(t, 1, size)) = size /\ SubSeq(t, 1, size) # <<>>
         /\ Len(SubSeq(t, size + 1, Len(t))) = Len(t) - size
         /\ SubSeq(t, 1, size) \o SubSeq(t, size + 1, Len(t)) = t
<1>1. SubSeq(t, 1, size) \in Seq(S) /\ Len(SubSeq(t, 1, size)) = size
  OBVIOUS
<1>2. SubSeq(t, size + 1, Len(t)) \in Seq(S) /\ Len(SubSeq(t, size + 1, Len(t))) = Len(t) - size
  OBVIOUS
<1>3. SubSeq(t, 1, size) \o SubSeq(t, size + 1, Len(t)) = SubSeq(t, 1, Len(t))
  BY ConcatAdjacentSubSeq
<1>4. SubSeq(t, 1, Len(t)) = t
  BY SubSeqFull
<1>5. SubSeq(t, 1, size) # <<>>
  <2>1. Len(SubSeq(t, 1, size)) # 0
    BY <1>1
  <2> QED BY <2>1
<1> QED BY <1>1, <1>2, <1>3, <1>4, <1>5, Zenon

\* What is read moves from the front of what was sent to the end of what was read.
Moved(s, t, size, d, r) ==
  /\ d \in Seq(Pieces) /\ r \in Seq(Pieces) /\ d # <<>>
  /\ Len(d) = Len(s) + size /\ Len(r) = Len(t) - size
  /\ d \o r = s \o t /\ d[1] = (s \o t)[1]

LEMMA Moves ==
  ASSUME NEW s \in Seq(Pieces), NEW t \in Seq(Pieces), NEW size \in 1..Len(t)
  PROVE  Moved(s, t, size, s \o SubSeq(t, 1, size), SubSeq(t, size + 1, Len(t)))
<1>1. /\ SubSeq(t, 1, size) \in Seq(Pieces) /\ SubSeq(t, size + 1, Len(t)) \in Seq(Pieces)
      /\ Len(SubSeq(t, 1, size)) = size /\ SubSeq(t, 1, size) # <<>>
      /\ Len(SubSeq(t, size + 1, Len(t))) = Len(t) - size
      /\ SubSeq(t, 1, size) \o SubSeq(t, size + 1, Len(t)) = t
  BY Cut, Zenon
<1>2. ASSUME NEW b \in Seq(Pieces), NEW r \in Seq(Pieces), Len(b) = size, b # <<>>,
             Len(r) = Len(t) - size, b \o r = t
      PROVE  Moved(s, t, size, s \o b, r)
  <2>1. (s \o b) \o r = s \o t
    <3>1. (s \o b) \o r = s \o (b \o r)
      OBVIOUS
    <3> QED BY <3>1, <1>2
  <2>2. s \o b \in Seq(Pieces) /\ Len(s \o b) = Len(s) + size
    <3>1. s \o b \in Seq(Pieces) /\ Len(s \o b) = Len(s) + Len(b)
      OBVIOUS
    <3>2. Len(b) = size
      BY <1>2
    <3> QED BY <3>1, <3>2
  <2>3. s \o b # <<>>
    <3>1. Len(s \o b) # 0
      BY <2>2
    <3> QED BY <3>1
  <2>4. (s \o b)[1] = ((s \o b) \o r)[1]
    BY <2>2, <2>3
  <2> QED BY <1>2, <2>1, <2>2, <2>3, <2>4 DEF Moved
<1> QED BY <1>1, <1>2, Zenon

-----------------------------------------------------------------------------
(* Types and places.                                                        *)

LEMMA InitTyped ==
  ASSUME PipeInit
  PROVE  Typed /\ Places
<1>1. NothingSent \in [n : 0..PipeRequests, k : 1..RequestLength]
  BY PipeAssumption DEF NothingSent
<1>2. szData \in Seq(Pieces) /\ Len(szData) <= DataRoom
  BY PipeAssumption DEF PipeInit
<1>3. sent \in [PipeClients -> Seq(Pieces)] /\ answers \in [PipeClients -> Seq(0..PipeRequests)]
  BY DEF PipeInit
<1>4. \A c \in PipeClients : lastSent[c].n = 0 => lastSent[c].k = RequestLength
  BY DEF PipeInit, NothingSent
<1>5. lastSent \in [PipeClients -> [n : 0..PipeRequests, k : 1..RequestLength]]
  BY <1>1 DEF PipeInit
<1>6. Places
  BY <1>4, PipeAssumption DEF PipeInit, Places
<1>7. Typed
  <2>1. owed \in 0..PipeRequests /\ hasty \subseteq PipeClients
    BY PipeAssumption DEF PipeInit
  <2> QED BY <1>2, <1>3, <1>5, <2>1, PipeAssumption DEF PipeInit, Typed
<1> QED BY <1>6, <1>7

\* The steps that end a connection, or all of them.
LEMMA DisconnectPlaced ==
  ASSUME Typed, Places, thread = "read", Disconnect
  PROVE  Typed' /\ Places'
<1>1. taker \in PipeClients /\ taker # Nobody
  BY PipeAssumption DEF Typed
<1>2. sent' \in [PipeClients -> Seq(Pieces)] /\ szData' \in Seq(Pieces) /\ Len(szData') <= DataRoom
  BY PipeAssumption DEF Disconnect, Typed
<1>3. client' \in [PipeClients -> {"away", "open", "left", "closed"}]
  BY DEF Disconnect, Typed
<1> QED BY <1>1, <1>2, <1>3, PipeAssumption DEF Disconnect, Typed, Places

LEMMA StoppedPlaced ==
  ASSUME Typed, Places, Stopped
  PROVE  Typed' /\ Places'
<1>1. sent' \in [PipeClients -> Seq(Pieces)] /\ szData' \in Seq(Pieces) /\ Len(szData') <= DataRoom
  BY PipeAssumption DEF Stopped, Typed
<1>2. client' \in [PipeClients -> {"away", "open", "left", "closed"}]
  BY DEF Stopped, Typed
<1> QED BY <1>1, <1>2, PipeAssumption DEF Stopped, Typed, Places

\* Values keep their types, and what is in hand keeps its place.
LEMMA StepPlaced ==
  ASSUME Typed, Places, PipeNext
  PROVE  Typed' /\ Places'
<1>1. ASSUME NEW c \in PipeClients, OpenPipe(c) PROVE Typed' /\ Places'
  BY <1>1, PipeAssumption DEF OpenPipe, Typed, Places
<1>2. ASSUME NEW c \in PipeClients, WritePiece(c) PROVE Typed' /\ Places'
  <2> DEFINE new == lastSent[c].k = RequestLength
             piece == IF new THEN [n |-> lastSent[c].n + 1, k |-> 1] ELSE [lastSent[c] EXCEPT !.k = @ + 1]
  <2>1. piece \in Pieces
    <3>1. lastSent[c] \in [n : 0..PipeRequests, k : 1..RequestLength] /\ piece.n <= PipeRequests
      BY <1>2 DEF WritePiece, Typed
    <3>2. CASE new
      BY <3>1, <3>2, PipeAssumption DEF Pieces
    <3>3. CASE ~new
      <4>1. lastSent[c].k + 1 \in 1..RequestLength
        BY <3>1, <3>3, PipeAssumption
      <4>2. lastSent[c].n # 0
        BY <3>3 DEF Places
      <4> QED BY <3>1, <3>3, <4>1, <4>2, PipeAssumption DEF Pieces
    <3> QED BY <3>2, <3>3
  <2>2. lastSent' = [lastSent EXCEPT ![c] = piece] /\ sent' = [sent EXCEPT ![c] = Append(@, piece)]
        /\ hasty' \subseteq PipeClients
    BY <1>2 DEF WritePiece, Typed
  <2> HIDE DEF piece
  <2>3. sent' \in [PipeClients -> Seq(Pieces)]
    BY <2>1, <2>2 DEF Typed
  <2>4. lastSent' \in [PipeClients -> [n : 0..PipeRequests, k : 1..RequestLength]]
    BY <2>1, <2>2, PipeAssumption DEF Typed, Pieces
  <2> QED BY SMTT(30), <1>2, <2>2, <2>3, <2>4 DEF WritePiece, Typed, Places
<1>3. ASSUME NEW c \in PipeClients, LeavePipe(c) PROVE Typed' /\ Places'
  BY <1>3 DEF LeavePipe, Typed, Places
<1>4. CASE ConnectNamedPipe
  BY <1>4 DEF ConnectNamedPipe, clientEnd, Typed, Places
<1>5. CASE Connected
  BY <1>5 DEF Connected, clientEnd, Typed, Places
<1>6. ASSUME NEW size \in 1..DataRoom, ReadSome(size) PROVE Typed' /\ Places'
  <2>1. taker \in PipeClients /\ size \in 1..Len(sent[taker])
    BY <1>6, PipeAssumption DEF ReadSome, Typed
  <2>2. /\ szData' = szData \o SubSeq(sent[taker], 1, size)
        /\ sent' = [sent EXCEPT ![taker] = SubSeq(@, size + 1, Len(@))]
        /\ Len(szData) + size <= DataRoom /\ thread' \in {"handle", "read"}
    BY <1>6 DEF ReadSome
  <2>3. szData \in Seq(Pieces) /\ sent[taker] \in Seq(Pieces)
    BY <2>1 DEF Typed
  <2>4. Moved(szData, sent[taker], size, szData', sent'[taker])
    <3>1. Moved(szData, sent[taker], size, szData \o SubSeq(sent[taker], 1, size),
                SubSeq(sent[taker], size + 1, Len(sent[taker])))
      BY <2>1, <2>3, Moves, Zenon
    <3>2. sent'[taker] = SubSeq(sent[taker], size + 1, Len(sent[taker]))
      BY <2>1, <2>2 DEF Typed
    <3> QED BY <2>2, <3>1, <3>2
  <2>5. szData' \in Seq(Pieces) /\ Len(szData') <= DataRoom /\ szData' # <<>>
    BY <2>2, <2>4 DEF Moved
  <2>6. sent' \in [PipeClients -> Seq(Pieces)]
    BY <2>1, <2>2, <2>4 DEF Typed, Moved
  <2> QED BY <1>6, <2>1, <2>2, <2>5, <2>6 DEF ReadSome, Typed, Places
<1>7. CASE Broken \/ NoRoom \/ TimeOut
  BY <1>7, DisconnectPlaced DEF Broken, NoRoom, TimeOut
<1>8. CASE Handle
  <2>1. szData # <<>> /\ szData[1] \in Pieces
    BY <1>8 DEF Handle, Typed, Places
  <2>2. RequestRead \in 0..PipeRequests
    BY <2>1, PipeAssumption DEF RequestRead, Pieces
  <2>3. szData' \in Seq(Pieces) /\ Len(szData') <= DataRoom
    BY <1>8, PipeAssumption DEF Handle
  <2>4. Typed'
    BY <1>8, <2>2, <2>3 DEF Handle, clientEnd, Typed
  <2>5. Places'
    BY <1>8 DEF Handle, clientEnd, Places, Typed
  <2> QED BY <2>4, <2>5
<1>9. CASE SeeControl
  BY <1>9 DEF SeeControl, clientEnd, Typed, Places
<1>10. CASE Stopped
  BY <1>10, StoppedPlaced
<1>11. CASE WriteLength
  BY <1>11 DEF WriteLength, clientEnd, Typed, Places
<1>12. CASE WriteRest
  BY <1>12, PipeAssumption DEF WriteRest, clientEnd, Typed, Places
<1>13. CASE pipe_th_start
  BY <1>13 DEF pipe_th_start, clientEnd, Typed, Places
<1>14. CASE pipe_th_stop
  BY <1>14 DEF pipe_th_stop, clientEnd, Typed, Places
<1> QED BY <1>1, <1>2, <1>3, <1>4, <1>5, <1>6, <1>7, <1>8, <1>9, <1>10, <1>11, <1>12, <1>13, <1>14
        DEF PipeNext, PipeThread

-----------------------------------------------------------------------------
(* Answers in step.                                                         *)

\* One more piece of the same request.
LEMMA OneMore ==
  ASSUME NEW s \in Seq(Pieces), NEW t \in Seq(Pieces), NEW p \in Pieces, NEW n, NEW k \in Nat,
         UpTo(s \o t, n, k), p.n = n, p.k = k + 1
  PROVE  UpTo(s \o Append(t, p), n, k + 1)
<1>1. s \o t \in Seq(Pieces) /\ Len(s \o t) = Len(s) + Len(t)
  OBVIOUS
<1>2. /\ Append(t, p) \in Seq(Pieces) /\ Len(Append(t, p)) = Len(t) + 1
      /\ \A i \in 1..Len(t) : Append(t, p)[i] = t[i]
      /\ Append(t, p)[Len(t) + 1] = p
  OBVIOUS
<1>3. Len(s \o Append(t, p)) = Len(s) + Len(t) + 1
  BY <1>2
<1>4. ASSUME NEW i \in 1..k
      PROVE  (s \o Append(t, p))[i] = (s \o t)[i]
  BY <1>1, <1>2 DEF UpTo
<1>5. (s \o Append(t, p))[k + 1] = p
  BY <1>1, <1>2 DEF UpTo
<1> QED BY <1>1, <1>3, <1>4, <1>5 DEF UpTo

LEMMA WriteSteady ==
  ASSUME Typed, Places, Typed', NEW w \in PipeClients, WritePiece(w),
         NEW c \in PipeClients, c \notin hasty', Steady(c)
  PROVE  Steady(c)'
<1>1. CASE w # c
  <2>1. taker # c
    BY <1>1 DEF WritePiece, Places
  <2> QED BY <1>1, <2>1 DEF WritePiece, Typed, Steady
<1>2. CASE w = c
  <2>1. taker = c /\ client[c] = "open" /\ client'[c] = "open"
    BY <1>2 DEF WritePiece, Places
  <2>2. c \notin hasty /\ answers' = answers /\ szData' = szData /\ thread' = thread /\ owed' = owed
        /\ taker' = taker
    BY <1>2 DEF WritePiece
  <2>3. lastSent[c] \in [n : 0..PipeRequests, k : 1..RequestLength] /\ Len(answers[c]) \in Nat
        /\ sent[c] \in Seq(Pieces) /\ szData \in Seq(Pieces)
    BY DEF Typed
  <2>4. PICK piece : /\ lastSent'[c] = piece /\ sent'[c] = Append(sent[c], piece)
                     /\ piece = IF lastSent[c].k = RequestLength
                                  THEN [n |-> lastSent[c].n + 1, k |-> 1]
                                  ELSE [lastSent[c] EXCEPT !.k = @ + 1]
    BY <1>2 DEF WritePiece, Typed
  <2>5. CASE lastSent[c].k = RequestLength
    <3>1. Len(answers[c]) >= lastSent[c].n
      <4>1. hasty' = IF lastSent[w].k = RequestLength /\ Len(answers[w]) < lastSent[w].n
                       THEN hasty \cup {w} ELSE hasty
        BY DEF WritePiece
      <4>2. ~(Len(answers[c]) < lastSent[c].n)
        BY <1>2, <2>5, <4>1
      <4> QED BY <2>3, <4>2
    <3>2. Quiescent(c)
      BY <2>1, <2>3, <3>1 DEF Steady, Arriving, Answered
    <3>3. szData = <<>> /\ sent'[c] = <<piece>>
      BY <2>4, <3>2 DEF Quiescent
    <3>4. piece.n = Len(answers[c]) + 1 /\ piece.k = 1
      BY <2>4, <2>5, <3>2 DEF Quiescent
    <3>5. UpTo(szData' \o sent'[c], piece.n, piece.k)
      <4>1. szData' \o sent'[c] = <<piece>>
        BY <2>2, <3>3
      <4> QED BY <3>4, <4>1 DEF UpTo
    <3>6. Arriving(c)'
      BY <2>2, <2>4, <3>2, <3>4, <3>5 DEF Arriving, Quiescent
    <3> QED BY <2>1, <2>2, <3>6 DEF Steady
  <2>6. CASE lastSent[c].k # RequestLength
    <3>1. Arriving(c)
      BY <2>1, <2>6 DEF Steady, Quiescent, Answered
    <3>2. piece.n = lastSent[c].n /\ piece.k = lastSent[c].k + 1
      BY <2>3, <2>4, <2>6
    <3>3. piece \in Pieces
      <4>1. piece \in [n : 0..PipeRequests, k : 1..RequestLength]
        <5>1. lastSent'[c] \in [n : 0..PipeRequests, k : 1..RequestLength]
          BY DEF Typed
        <5> QED BY <2>4, <5>1, Zenon
      <4>2. lastSent[c].n # 0
        BY <2>6 DEF Places
      <4>3. piece.n # 0 /\ piece.n \in 0..PipeRequests
        BY <3>2, <4>1, <4>2
      <4>4. piece.n \in 1..PipeRequests
        BY <4>3, PipeAssumption
      <4> QED BY <4>1, <4>4 DEF Pieces
    <3>4. UpTo(szData \o sent'[c], piece.n, piece.k)
      <4>1. UpTo(szData \o sent[c], lastSent[c].n, lastSent[c].k) /\ lastSent[c].k \in Nat
        BY <2>3, <3>1 DEF Arriving
      <4>2. UpTo(szData \o Append(sent[c], piece), lastSent[c].n, lastSent[c].k + 1)
        BY <2>3, <3>2, <3>3, <4>1, OneMore, Zenon
      <4> QED BY <2>4, <3>2, <4>2
    <3>5. Arriving(c)'
      BY <2>2, <2>4, <3>1, <3>2, <3>4 DEF Arriving
    <3> QED BY <2>1, <2>2, <3>5 DEF Steady
  <2> QED BY <2>5, <2>6
<1> QED BY <1>1, <1>2

LEMMA ReadSteady ==
  ASSUME Typed, Places, Typed', NEW size \in 1..DataRoom, ReadSome(size),
         NEW c \in PipeClients, Steady(c)
  PROVE  Steady(c)'
<1>1. taker \in PipeClients /\ size \in 1..Len(sent[taker])
      /\ szData \in Seq(Pieces) /\ sent[taker] \in Seq(Pieces)
  BY PipeAssumption DEF ReadSome, Typed
<1>2. /\ szData' = szData \o SubSeq(sent[taker], 1, size)
      /\ sent' = [sent EXCEPT ![taker] = SubSeq(@, size + 1, Len(@))]
      /\ thread = "read" /\ thread' \in {"handle", "read"}
      /\ taker' = taker /\ answers' = answers /\ client' = client /\ lastSent' = lastSent
  BY DEF ReadSome
<1>3. CASE taker # c
  BY <1>2, <1>3 DEF Steady
<1>4. CASE taker = c
  <2>1. Arriving(c)
    BY <1>1, <1>2, <1>4 DEF Steady, Quiescent, Answered
  <2>2. Moved(szData, sent[c], size, szData', sent'[c])
    <3>1. Moved(szData, sent[c], size, szData \o SubSeq(sent[c], 1, size),
                SubSeq(sent[c], size + 1, Len(sent[c])))
      BY <1>1, <1>4, Moves, Zenon
    <3>2. sent'[c] = SubSeq(sent[c], size + 1, Len(sent[c]))
      BY <1>2, <1>4 DEF Typed
    <3> QED BY <1>2, <1>4, <3>1, <3>2
  <2>3. UpTo(szData' \o sent'[c], lastSent[c].n, lastSent[c].k)
    BY <2>1, <2>2 DEF Arriving, Moved
  <2>4. lastSent[c].k \in 1..RequestLength
    BY DEF Typed
  <2>5. szData'[1].k = 1
    BY <2>1, <2>2, <2>4, PipeAssumption DEF Moved, Arriving, UpTo
  <2>6. thread' = "handle" => Len(szData') = RequestLength
    <3>1. thread' = "handle" => Len(szData') >= RequestLength
      BY <1>2, <2>5 DEF ReadSome, Whole
    <3>2. szData' \in Seq(Pieces) /\ sent'[c] \in Seq(Pieces)
      BY <2>2 DEF Moved
    <3>3. Len(szData') + Len(sent'[c]) = lastSent[c].k
      <4>1. Len(szData' \o sent'[c]) = Len(szData') + Len(sent'[c])
        BY <3>2
      <4> QED BY <2>3, <4>1 DEF UpTo
    <3> QED BY <2>4, <3>1, <3>2, <3>3, PipeAssumption
  <2>7. Arriving(c)'
    BY <1>2, <2>1, <2>3, <2>6 DEF Arriving
  <2> QED BY <1>2, <1>4, <2>7 DEF Steady
<1> QED BY <1>3, <1>4

LEMMA HandleSteady ==
  ASSUME Typed, Places, Handle, NEW c \in PipeClients, Steady(c)
  PROVE  Steady(c)'
<1>1. CASE taker # c
  BY <1>1 DEF Handle, clientEnd, Steady
<1>2. CASE taker = c
  <2>1. Arriving(c)
    BY <1>2 DEF Handle, Steady, Quiescent, Answered
  <2>2. szData \in Seq(Pieces) /\ sent[c] \in Seq(Pieces) /\ lastSent[c].k \in 1..RequestLength
    BY DEF Typed
  <2>3. Len(szData) = RequestLength /\ Len(szData \o sent[c]) = lastSent[c].k
    BY <2>1 DEF Handle, Arriving, UpTo
  <2>4. Len(szData \o sent[c]) = Len(szData) + Len(sent[c])
    BY <2>2
  <2>5. lastSent[c].k = RequestLength /\ Len(sent[c]) = 0
    BY <2>2, <2>3, <2>4, PipeAssumption
  <2>6. sent[c] = <<>>
    BY <2>2, <2>5
  <2>7. szData[1].n = lastSent[c].n /\ szData[1].k = 1
    <3>1. (szData \o sent[c])[1] = szData[1]
      BY <2>2, <2>3, PipeAssumption
    <3> QED BY <2>1, <2>5, <3>1, PipeAssumption DEF Arriving, UpTo
  <2>8. owed' = lastSent[c].n
    BY <2>7 DEF Handle, RequestRead
  <2>9. Answered(c)'
    BY <2>1, <2>5, <2>6, <2>8 DEF Handle, clientEnd, Arriving, Answered
  <2> QED BY <1>2, <2>9 DEF Handle, clientEnd, Steady
<1> QED BY <1>1, <1>2

LEMMA WriteRestSteady ==
  ASSUME Typed, Places, WriteRest, NEW c \in PipeClients, Steady(c)
  PROVE  Steady(c)'
<1>1. CASE taker # c
  BY <1>1 DEF WriteRest, clientEnd, Typed, Steady
<1>2. CASE taker = c
  <2>1. Answered(c)
    BY <1>2 DEF WriteRest, Steady, Quiescent, Arriving
  <2>2. answers[c] \in Seq(0..PipeRequests) /\ answers'[c] = Append(answers[c], owed)
        /\ owed = Len(answers[c]) + 1 /\ owed \in 0..PipeRequests
    BY <1>2, <2>1 DEF WriteRest, Typed, Answered
  <2>3. Len(answers'[c]) = Len(answers[c]) + 1 /\ answers'[c] \in Seq(0..PipeRequests)
    BY <2>2
  <2>4. answers'[c] = [n \in DOMAIN answers'[c] |-> n]
    <3>1. DOMAIN answers'[c] = 1..Len(answers[c]) + 1
      BY <2>2, <2>3
    <3>2. ASSUME NEW n \in 1..Len(answers[c]) + 1
          PROVE  answers'[c][n] = n
      BY <2>2 DEF Steady
    <3> QED BY <2>3, <3>1, <3>2
  <2>5. szData = <<>>
    BY DEF WriteRest, Places
  <2>6. Quiescent(c)'
    BY <2>1, <2>2, <2>3, <2>5 DEF WriteRest, clientEnd, Answered, Quiescent
  <2>7. client[c] # "away"
    BY <1>2 DEF Places
  <2> QED BY <1>2, <2>4, <2>6, <2>7 DEF WriteRest, clientEnd, Steady
<1> QED BY <1>1, <1>2

\* The steps after which nobody is connected.
LEMMA LeftSteady ==
  ASSUME Typed, Places, (thread = "read" /\ Disconnect) \/ Stopped, NEW c \in PipeClients, Steady(c)
  PROVE  Steady(c)'
<1>1. taker' = Nobody /\ answers' = answers /\ lastSent' = lastSent
      /\ client'[c] \in {client[c], "closed"}
  BY DEF Disconnect, Stopped, Typed
<1>2. taker' # c
  BY <1>1, PipeAssumption
<1> QED BY <1>1, <1>2 DEF Steady

LEMMA StepSteady ==
  ASSUME Typed, Places, InStep, PipeNext, Typed'
  PROVE  InStep'
<1> SUFFICES ASSUME NEW c \in PipeClients, c \notin hasty'
             PROVE  Steady(c)'
  BY DEF InStep
<1>0. c \notin hasty /\ Steady(c)
  <2>1. hasty \subseteq hasty'
    BY DEF PipeNext, PipeThread, OpenPipe, WritePiece, LeavePipe, ConnectNamedPipe, Connected, ReadSome,
           Broken, NoRoom, TimeOut, Disconnect, Handle, SeeControl, Stopped, WriteLength, WriteRest,
           pipe_th_start, pipe_th_stop, clientEnd
  <2> QED BY <2>1 DEF InStep
<1>1. ASSUME NEW o \in PipeClients, OpenPipe(o) PROVE Steady(c)'
  <2>1. taker = Nobody /\ szData = <<>> /\ thread \notin {"handle", "length", "rest"}
    BY <1>1, PipeAssumption DEF OpenPipe, Typed, Places
  <2>2. CASE o = c
    <3>1. sent[c] = <<>> /\ lastSent[c] = NothingSent /\ answers[c] = <<>>
      BY <1>0, <1>1, <2>2 DEF OpenPipe, Places, Steady
    <3>2. Quiescent(c)'
      BY <1>1, <2>1, <3>1 DEF OpenPipe, Quiescent, NothingSent
    <3> QED BY <1>0, <1>1, <2>2, <3>2 DEF OpenPipe, Typed, Steady
  <2>3. CASE o # c
    BY <1>0, <1>1, <2>3 DEF OpenPipe, Typed, Steady
  <2> QED BY <2>2, <2>3
<1>2. ASSUME NEW w \in PipeClients, WritePiece(w) PROVE Steady(c)'
  BY <1>0, <1>2, WriteSteady
<1>3. ASSUME NEW l \in PipeClients, LeavePipe(l) PROVE Steady(c)'
  BY <1>0, <1>3 DEF LeavePipe, Typed, Steady, Quiescent, Arriving, Answered
<1>4. CASE ConnectNamedPipe
  BY <1>0, <1>4 DEF ConnectNamedPipe, clientEnd, Steady, Quiescent, Arriving, Answered
<1>5. CASE Connected
  BY <1>0, <1>5 DEF Connected, clientEnd, Steady, Quiescent, Arriving, Answered
<1>6. ASSUME NEW size \in 1..DataRoom, ReadSome(size) PROVE Steady(c)'
  BY <1>0, <1>6, ReadSteady
<1>7. CASE Broken \/ NoRoom \/ TimeOut \/ Stopped
  BY <1>0, <1>7, LeftSteady DEF Broken, NoRoom, TimeOut
<1>8. CASE Handle
  BY <1>0, <1>8, HandleSteady
<1>9. CASE SeeControl
  BY <1>0, <1>9 DEF SeeControl, clientEnd, Steady, Quiescent, Arriving, Answered
<1>10. CASE WriteLength
  BY <1>0, <1>10 DEF WriteLength, clientEnd, Steady, Quiescent, Arriving, Answered
<1>11. CASE WriteRest
  BY <1>0, <1>11, WriteRestSteady
<1>12. CASE pipe_th_start
  <2>1. taker' # c
    BY <1>12, PipeAssumption DEF pipe_th_start, Typed, Places
  <2> QED BY <1>0, <1>12, <2>1 DEF pipe_th_start, clientEnd, Steady
<1>13. CASE pipe_th_stop
  BY <1>0, <1>13 DEF pipe_th_stop, clientEnd, Steady, Quiescent, Arriving, Answered
<1> QED BY <1>1, <1>2, <1>3, <1>4, <1>5, <1>6, <1>7, <1>8, <1>9, <1>10, <1>11, <1>12, <1>13
        DEF PipeNext, PipeThread

-----------------------------------------------------------------------------
(* The invariant, and what it gives.                                        *)

LEMMA Invariant == PipeSpec => []IInv
<1>1. PipeInit => IInv
  <2> SUFFICES ASSUME PipeInit PROVE IInv
    OBVIOUS
  <2>1. ASSUME NEW c \in PipeClients PROVE Steady(c)
    BY <2>1, PipeAssumption DEF PipeInit, Steady
  <2> QED BY <2>1, InitTyped DEF IInv, InStep
<1>2. IInv /\ [PipeNext]_pipeVars => IInv'
  <2> SUFFICES ASSUME IInv, [PipeNext]_pipeVars PROVE IInv'
    OBVIOUS
  <2>1. CASE PipeNext
    BY <2>1, StepPlaced, StepSteady DEF IInv
  <2>2. CASE UNCHANGED pipeVars
    BY <2>2 DEF pipeVars, IInv, Typed, Places, InStep, Steady, Quiescent, Arriving, Answered
  <2> QED BY <2>1, <2>2
<1> QED BY <1>1, <1>2, PTL DEF PipeSpec

\* Values keep their types, and the thread works for a client as long as it is
\* connected: pipe_main() never looks for bytes on a pipe that nobody has taken.
THEOREM PipeTyped == PipeSpec => []PipeTypeOK
<1>1. IInv => PipeTypeOK
  BY DEF IInv, Typed, PipeTypeOK, Pieces
<1> QED BY <1>1, Invariant, PTL

\* The n-th answer a client gets is that of its n-th request, if it waits for each,
\* wherever its bytes are split and whatever became of the clients before it.
THEOREM PipeKeepsStep == PipeSpec => []PipeAnswersInStep
<1>1. IInv => PipeAnswersInStep
  BY DEF IInv, InStep, Steady, PipeAnswersInStep
<1> QED BY <1>1, Invariant, PTL

-----------------------------------------------------------------------------
(* The transport of the sockets, on a pipe.                                 *)

\* What the abstract phase of a client is, told by who is connected.
PhaseKnown(c) ==
  /\ client[c] = "away" => PipePhase(c) = [at |-> "away", n |-> 0]
  /\ client[c] = "closed" => PipePhase(c) = [at |-> "gone", n |-> 0]
  /\ taker = c =>
       /\ thread = "handle" => PipePhase(c) = [at |-> "busy", n |-> RequestRead]
       /\ thread \in {"length", "rest"} => PipePhase(c) = [at |-> "owed", n |-> owed]
       /\ thread \notin {"handle", "length", "rest"} => PipePhase(c) = [at |-> "idle", n |-> 0]
  /\ client[c] = "away" \/ client[c] = "closed" \/ taker = c

LEMMA PhasesKnown ==
  ASSUME Typed, Places, NEW c \in PipeClients
  PROVE  PhaseKnown(c)
BY DEF Typed, Places, PhaseKnown, PipePhase

LEMMA PhasesKnownNext ==
  ASSUME Typed', Places', NEW c \in PipeClients
  PROVE  PhaseKnown(c)'
BY DEF Typed, Places, PhaseKnown, PipePhase

Phases == [c \in PipeClients |-> PipePhase(c)]

\* Nothing that the abstract transport sees.
LEMMA Unseen ==
  ASSUME answers' = answers, \A c \in PipeClients : PipePhase(c)' = PipePhase(c)
  PROVE  UNCHANGED PipePort!vars
<1>1. Phases' = Phases
  BY DEF Phases
<1> QED BY <1>1 DEF PipePort!vars, Phases

\* One connection moves.
LEMMA OneMoves ==
  ASSUME NEW o \in PipeClients, NEW p, PipePhase(o)' = p,
         \A c \in PipeClients \ {o} : PipePhase(c)' = PipePhase(c)
  PROVE  Phases' = [Phases EXCEPT ![o] = p]
BY DEF Phases

LEMMA StepImplements ==
  ASSUME IInv, IInv', PipeNext
  PROVE  PipePort!Next \/ UNCHANGED PipePort!vars
<1> USE DEF IInv
<1>a. \A c \in PipeClients : PhaseKnown(c) /\ PhaseKnown(c)' /\ c # Nobody
  BY PhasesKnown, PhasesKnownNext, PipeAssumption
<1>1. ASSUME NEW o \in PipeClients, OpenPipe(o) PROVE PipePort!Connect(o)
  <2>1. taker = Nobody /\ taker' = o /\ thread' \notin {"handle", "length", "rest"}
        /\ answers' = answers /\ client[o] = "away"
    BY <1>1, PipeAssumption DEF OpenPipe, Typed, Places
  <2>2. PipePhase(o) = [at |-> "away", n |-> 0] /\ PipePhase(o)' = [at |-> "idle", n |-> 0]
    BY <1>a, <2>1 DEF PhaseKnown
  <2>3. ASSUME NEW c \in PipeClients \ {o} PROVE PipePhase(c)' = PipePhase(c)
    <3>1. client'[c] = client[c] /\ taker # c /\ taker' # c
      BY <1>1, <1>a, <2>1, <2>3 DEF OpenPipe, Typed
    <3> QED BY <1>a, <2>3, <3>1 DEF PhaseKnown
  <2>4. Phases' = [Phases EXCEPT ![o] = [at |-> "idle", n |-> 0]]
    BY <2>2, <2>3, OneMoves
  <2> QED BY <2>1, <2>2, <2>4 DEF PipePort!Connect, PipePort!Quiet, Phases
<1>2. CASE \/ \E c \in PipeClients : WritePiece(c) \/ LeavePipe(c)
           \/ ConnectNamedPipe \/ Connected \/ SeeControl \/ WriteLength \/ pipe_th_start \/ pipe_th_stop
  <2>1. /\ taker' = taker /\ answers' = answers /\ szData' = szData /\ owed' = owed
        /\ \A c \in PipeClients : client'[c] = client[c] \/ (client[c] = "open" /\ client'[c] = "left")
        /\ taker # Nobody => \/ thread' = thread
                             \/ thread = "length" /\ thread' = "rest"
                             \/ /\ thread \notin {"handle", "length", "rest"}
                                /\ thread' \notin {"handle", "length", "rest"}
    <3>1. ASSUME NEW c \in PipeClients, WritePiece(c)
          PROVE  UNCHANGED <<taker, answers, szData, owed, client, thread>>
      BY <3>1 DEF WritePiece
    <3>2. CASE \E c \in PipeClients : WritePiece(c)
      BY <3>1, <3>2
    <3>3. CASE \E c \in PipeClients : LeavePipe(c)
      BY <3>3 DEF LeavePipe, Typed
    <3>4. CASE ConnectNamedPipe \/ Connected \/ SeeControl \/ WriteLength \/ pipe_th_stop
      BY <3>4 DEF ConnectNamedPipe, Connected, SeeControl, WriteLength, pipe_th_stop, clientEnd
    <3>5. CASE pipe_th_start
      BY <3>5 DEF pipe_th_start, clientEnd, Typed, Places
    <3> QED BY <1>2, <3>2, <3>3, <3>4, <3>5
  <2>2. RequestRead' = RequestRead
    BY <2>1 DEF RequestRead
  <2>3. ASSUME NEW c \in PipeClients PROVE PipePhase(c)' = PipePhase(c)
    <3>1. CASE taker = c
      BY <1>a, <2>1, <2>2, <3>1 DEF PhaseKnown, Typed
    <3>2. CASE taker # c
      BY <1>a, <2>1, <3>2 DEF PhaseKnown
    <3> QED BY <3>1, <3>2
  <2> QED BY <2>1, <2>3, Unseen
<1>3. ASSUME NEW size \in 1..DataRoom, ReadSome(size), thread' = "read" PROVE UNCHANGED PipePort!vars
  <2>1. taker' = taker /\ answers' = answers /\ client' = client /\ thread = "read"
    BY <1>3 DEF ReadSome
  <2>2. ASSUME NEW c \in PipeClients PROVE PipePhase(c)' = PipePhase(c)
    BY <1>3, <1>a, <2>1 DEF PhaseKnown
  <2> QED BY <2>1, <2>2, Unseen
<1>4. ASSUME NEW size \in 1..DataRoom, ReadSome(size), thread' = "handle"
      PROVE  PipePort!Ask(taker, RequestRead') /\ taker \in PipeClients /\ RequestRead' \in 0..PipeRequests
  <2>1. taker' = taker /\ answers' = answers /\ client' = client /\ thread = "read"
        /\ taker \in PipeClients
    BY <1>4 DEF ReadSome, Typed
  <2>2. PipePhase(taker) = [at |-> "idle", n |-> 0]
        /\ PipePhase(taker)' = [at |-> "busy", n |-> RequestRead']
    BY <1>4, <1>a, <2>1 DEF PhaseKnown
  <2>3. ASSUME NEW c \in PipeClients \ {taker}
        PROVE  PipePhase(c)' = PipePhase(c) /\ PipePhase(c).at # "busy"
    BY <1>a, <2>1, <2>3 DEF PhaseKnown
  <2>4. Phases' = [Phases EXCEPT ![taker] = [at |-> "busy", n |-> RequestRead']]
    BY <2>1, <2>2, <2>3, OneMoves
  <2>5. \A c \in PipeClients : Phases[c].at # "busy"
    BY <2>2, <2>3 DEF Phases
  <2>6. RequestRead' \in 0..PipeRequests
    <3>1. szData' # <<>> /\ szData' \in Seq(Pieces)
      BY <1>4 DEF Places, Typed
    <3>2. szData'[1] \in Pieces
      BY <3>1
    <3> QED BY <3>2, PipeAssumption DEF RequestRead, Pieces
  <2> QED BY <2>1, <2>2, <2>4, <2>5, <2>6 DEF PipePort!Ask, Phases
<1>5. CASE TimeOut \/ Broken \/ NoRoom \/ Stopped
  <2> DEFINE S == {c \in PipeClients : c = taker}
  <2>1. /\ taker' = Nobody /\ answers' = answers /\ thread \notin {"handle", "length", "rest"}
        /\ \A c \in PipeClients : client'[c] = IF c = taker THEN "closed" ELSE client[c]
    BY <1>5 DEF TimeOut, Broken, NoRoom, Disconnect, Stopped, Typed
  <2>2. ASSUME NEW c \in PipeClients
        PROVE  /\ PipePhase(c)' = IF c \in S THEN [at |-> "gone", n |-> 0] ELSE PipePhase(c)
               /\ c \in S => PipePhase(c).at # "busy"
    <3>1. CASE c = taker
      BY <1>a, <2>1, <3>1 DEF PhaseKnown
    <3>2. CASE c # taker
      BY <1>a, <2>1, <3>2 DEF PhaseKnown
    <3> QED BY <3>1, <3>2
  <2>3. PipePort!GiveUp(S)
    BY <2>1, <2>2 DEF PipePort!GiveUp, PipePort!Quiet
  <2> QED BY <2>3 DEF PipePort!Next
<1>6. CASE Handle
  <2>1. taker' = taker /\ answers' = answers /\ client' = client /\ thread = "handle" /\ thread' = "length"
        /\ taker \in PipeClients /\ owed' = RequestRead
    BY <1>6 DEF Handle, clientEnd, Typed
  <2>2. PipePhase(taker) = [at |-> "busy", n |-> RequestRead]
        /\ PipePhase(taker)' = [at |-> "owed", n |-> RequestRead]
    BY <1>a, <2>1 DEF PhaseKnown
  <2>3. ASSUME NEW c \in PipeClients \ {taker} PROVE PipePhase(c)' = PipePhase(c)
    BY <1>a, <2>1, <2>3 DEF PhaseKnown
  <2>4. Phases' = [Phases EXCEPT ![taker] = [at |-> "owed", n |-> RequestRead]]
    BY <2>1, <2>2, <2>3, OneMoves
  <2>5. Phases' = [Phases EXCEPT ![taker].at = "owed"]
    <3>1. Phases[taker] = [at |-> "busy", n |-> RequestRead]
      BY <2>1, <2>2 DEF Phases
    <3>2. [Phases[taker] EXCEPT !.at = "owed"] = [at |-> "owed", n |-> RequestRead]
      BY <3>1
    <3> QED BY <2>4, <3>2
  <2>6. Phases[taker].at = "busy"
    BY <2>1, <2>2 DEF Phases
  <2>7. PipePort!Answer(taker)
    BY <2>1, <2>5, <2>6, Zenon DEF PipePort!Answer, Phases
  <2> QED BY <2>1, <2>7 DEF PipePort!Next
<1>7. CASE WriteRest
  <2>1. taker' = taker /\ client' = client /\ thread = "rest" /\ thread' = "read"
        /\ taker \in PipeClients /\ answers' = [answers EXCEPT ![taker] = Append(@, owed)]
    BY <1>7 DEF WriteRest, clientEnd, Typed
  <2>2. PipePhase(taker) = [at |-> "owed", n |-> owed] /\ PipePhase(taker)' = [at |-> "idle", n |-> 0]
    BY <1>a, <2>1 DEF PhaseKnown
  <2>3. ASSUME NEW c \in PipeClients \ {taker} PROVE PipePhase(c)' = PipePhase(c)
    BY <1>a, <2>1, <2>3 DEF PhaseKnown
  <2>4. Phases' = [Phases EXCEPT ![taker] = [at |-> "idle", n |-> 0]]
    BY <2>1, <2>2, <2>3, OneMoves
  <2>5. Phases[taker].at = "owed" /\ Phases[taker].n = owed
    BY <2>1, <2>2 DEF Phases
  <2>6. answers' = [answers EXCEPT ![taker] = Append(@, Phases[taker].n)]
    BY <2>1, <2>5
  <2>7. PipePort!Deliver(taker)
    BY <2>4, <2>5, <2>6, Zenon DEF PipePort!Deliver, PipePort!Quiet, Phases
  <2> QED BY <2>1, <2>7 DEF PipePort!Next
<1>8. ASSUME NEW size \in 1..DataRoom, ReadSome(size) PROVE thread' \in {"read", "handle"}
  BY <1>8 DEF ReadSome
<1> QED BY <1>1, <1>2, <1>3, <1>4, <1>5, <1>6, <1>7, <1>8 DEF PipeNext, PipeThread, PipePort!Next

\* The pipe keeps the promise of the sockets: one request at a time is with the
\* handler, and its answer goes once, to the client that asked.
THEOREM PipeImplements == PipeSpec => PipeImplementsPort
<1>1. PipeInit => PipePort!Init
  BY DEF PipeInit, PipePort!Init, PipePort!Quiet, PipePhase
<1>2. IInv /\ IInv' /\ [PipeNext]_pipeVars => [PipePort!Next]_PipePort!vars
  <2> SUFFICES ASSUME IInv, IInv', [PipeNext]_pipeVars PROVE [PipePort!Next]_PipePort!vars
    OBVIOUS
  <2>1. CASE PipeNext
    BY <2>1, StepImplements
  <2>2. CASE UNCHANGED pipeVars
    <3>1. answers' = answers /\ \A c \in PipeClients : PipePhase(c)' = PipePhase(c)
      BY <2>2 DEF pipeVars, PipePhase, RequestRead
    <3> QED BY <3>1, Unseen
  <2> QED BY <2>1, <2>2
<1> QED BY <1>1, <1>2, Invariant, PTL DEF PipeSpec, PipeImplementsPort, PipePort!Spec

-----------------------------------------------------------------------------
(* Key files, for any files, any passphrases, and any number of loads and   *)
(* dialogs at a time.                                                       *)

FilesInv == FilesTypeOK /\ RememberedAsTicked

LoadType == [files : Seq(Files), file : Files \cup {NoPass}, box : BOOLEAN]

-----------------------------------------------------------------------------
(* Sequences and the sets of their elements.                                *)

LEMMA ToSetEmpty == ToSet(<<>>) = {}
BY DEF ToSet

LEMMA ToSetAppend ==
  ASSUME NEW S, NEW s \in Seq(S), NEW x \in S
  PROVE  ToSet(Append(s, x)) = ToSet(s) \cup {x}
<1>1. /\ DOMAIN Append(s, x) = 1..(Len(s) + 1) /\ DOMAIN s = 1..Len(s) /\ Len(s) \in Nat
      /\ \A i \in 1..Len(s) : Append(s, x)[i] = s[i]
      /\ Append(s, x)[Len(s) + 1] = x
  OBVIOUS
<1>2. \A y \in ToSet(Append(s, x)) : y \in ToSet(s) \cup {x}
  <2> SUFFICES ASSUME NEW i \in 1..(Len(s) + 1) PROVE Append(s, x)[i] \in ToSet(s) \cup {x}
    BY <1>1 DEF ToSet
  <2>1. CASE i = Len(s) + 1
    BY <1>1, <2>1
  <2>2. CASE i \in 1..Len(s)
    BY <1>1, <2>2 DEF ToSet
  <2> QED BY <1>1, <2>1, <2>2
<1>3. \A y \in ToSet(s) \cup {x} : y \in ToSet(Append(s, x))
  <2>1. x \in ToSet(Append(s, x))
    BY <1>1 DEF ToSet
  <2>2. ASSUME NEW i \in 1..Len(s) PROVE s[i] \in ToSet(Append(s, x))
    <3>1. i \in DOMAIN Append(s, x) /\ Append(s, x)[i] = s[i]
      BY <1>1
    <3> QED BY <3>1 DEF ToSet
  <2> QED BY <1>1, <2>1, <2>2 DEF ToSet
<1> QED BY <1>2, <1>3

LEMMA ToSetFinite ==
  ASSUME NEW S, NEW s \in Seq(S)
  PROVE  IsFiniteSet(ToSet(s)) /\ ToSet(s) \subseteq S
<1>1. s \in Surjection(1..Len(s), ToSet(s))
  BY DEF ToSet, Surjection
<1>2. IsFiniteSet(1..Len(s))
  BY FS_Interval
<1>3. ToSet(s) \subseteq S
  BY DEF ToSet
<1> QED BY <1>1, <1>2, <1>3, FS_Surjection

\* A finite set has a sequence of its elements.
LEMMA SetToSeqIs ==
  ASSUME NEW S, IsFiniteSet(S)
  PROVE  SetToSeq(S) \in Seq(S) /\ ToSet(SetToSeq(S)) \subseteq S
<1> DEFINE n == Cardinality(S)
<1>1. n \in Nat /\ ExistsBijection(1..n, S)
  BY FS_CardinalityType
<1>2. \E f \in [1..n -> S] : IsInjective(f)
  BY <1>1 DEF ExistsBijection, Bijection, Injection
<1>3. SetToSeq(S) \in [1..n -> S]
  BY <1>2 DEF SetToSeq
<1> HIDE DEF n
<1>4. SetToSeq(S) \in Seq(S)
  BY <1>1, <1>3
<1> QED BY <1>4, <1>3 DEF ToSet

\* The passphrases of the settings and of PuTTY.
LEMMA LoadedSettings ==
  ASSUME saved \in Seq(Passphrases)
  PROVE  /\ passphrase_load_setting \in Seq(Passphrases)
         /\ ToSet(passphrase_load_setting) \subseteq ToSet(saved) \cup PuttySaved
<1> DEFINE all == ToSet(saved) \cup PuttySaved
<1>1. IsFiniteSet(all) /\ all \subseteq Passphrases
  BY ToSetFinite, FS_Union, FilesAssumption
<1>2. SetToSeq(all) \in Seq(all) /\ ToSet(SetToSeq(all)) \subseteq all
  BY <1>1, SetToSeqIs
<1>3. SetToSeq(all) \in Seq(Passphrases)
  BY <1>1, <1>2, SeqMonotonic
<1> QED BY <1>2, <1>3 DEF passphrase_load_setting

-----------------------------------------------------------------------------
(* The loads.                                                               *)

LoadsTyped == /\ loads \in Seq(LoadType)
              /\ \A i \in 1..(Len(loads) - 1) : loads[i].file # NoPass

LEMMA TopTyped ==
  ASSUME LoadsTyped, loads # <<>>
  PROVE  Len(loads) \in 1..Len(loads) /\ Top \in LoadType
BY DEF LoadsTyped, Top

LEMMA Replaced ==
  ASSUME LoadsTyped, loads # <<>>, NEW load \in LoadType, Becomes(load)
  PROVE  LoadsTyped'
<1>1. Len(loads) \in 1..Len(loads) /\ loads' = [loads EXCEPT ![Len(loads)] = load]
  BY TopTyped DEF Becomes
<1>2. loads' \in Seq(LoadType) /\ Len(loads') = Len(loads)
  BY <1>1 DEF LoadsTyped
<1>3. ASSUME NEW i \in 1..(Len(loads) - 1) PROVE loads'[i] = loads[i]
  BY <1>1 DEF LoadsTyped
<1> QED BY <1>2, <1>3 DEF LoadsTyped

LEMMA LoadOf ==
  ASSUME NEW files \in Seq(Files)
  PROVE  Load(files) \in LoadType
BY DEF Load, LoadType

LEMMA Appended ==
  ASSUME LoadsTyped, AtDialog, NEW files \in Seq(Files), loads' = Append(loads, Load(files))
  PROVE  LoadsTyped'
<1>1. loads' \in Seq(LoadType) /\ Len(loads') = Len(loads) + 1
  BY LoadOf DEF LoadsTyped
<1>2. ASSUME NEW i \in 1..Len(loads) PROVE loads'[i] = loads[i] /\ loads[i].file # NoPass
  <2>1. loads'[i] = loads[i]
    BY DEF LoadsTyped
  <2>2. CASE i = Len(loads)
    BY <2>1, <2>2 DEF LoadsTyped, AtDialog, Top
  <2>3. CASE i # Len(loads)
    BY <2>1, <2>3 DEF LoadsTyped
  <2> QED BY <2>2, <2>3
<1> QED BY <1>1, <1>2 DEF LoadsTyped

LEMMA FrontTyped ==
  ASSUME LoadsTyped, loads # <<>>, loads' = Front(loads)
  PROVE  LoadsTyped'
BY DEF LoadsTyped, Front

-----------------------------------------------------------------------------
(* The steps.                                                               *)

Remembered == passphrases \in Seq(Passphrases) /\ saved \in Seq(Passphrases)
              /\ kept \subseteq Passphrases /\ RememberedAsTicked

Rest == save_enable \in BOOLEAN /\ running \in BOOLEAN /\ store \subseteq Files

LEMMA InvParts == FilesInv <=> Remembered /\ Rest /\ LoadsTyped
BY DEF FilesInv, FilesTypeOK, Remembered, Rest, LoadsTyped, LoadType

\* Passphrases that nobody touches, in a process that does not begin.
LEMMA Untouched ==
  ASSUME Remembered, UNCHANGED <<passphrases, saved, kept>>, running' => running
  PROVE  Remembered'
BY DEF Remembered, RememberedAsTicked

\* A dialog's passphrase, remembered or not.
LEMMA SaveRemembers ==
  ASSUME Remembered, running, NEW p \in Passphrases, NEW tick \in BOOLEAN, Save(p, tick)
  PROVE  Remembered'
<1>1. CASE ~tick
  BY <1>1, Untouched DEF Save
<1>2. CASE tick
  <2>1. /\ passphrases' = Append(passphrases, p) /\ kept' = kept \cup {p}
        /\ saved' = IF p \in ToSet(saved) THEN saved ELSE Append(saved, p)
    BY <1>2 DEF Save, passphrase_save_setting
  <2>2. passphrases' \in Seq(Passphrases) /\ saved' \in Seq(Passphrases) /\ kept' \subseteq Passphrases
    BY <2>1 DEF Remembered
  <2>3. ToSet(passphrases') = ToSet(passphrases) \cup {p}
    BY <2>1, ToSetAppend DEF Remembered
  <2>4. ToSet(saved') = ToSet(saved) \cup {p}
    BY <2>1, ToSetAppend DEF Remembered
  <2>5. \A i, j \in 1..Len(saved') : saved'[i] = saved'[j] => i = j
    <3>1. CASE p \in ToSet(saved)
      BY <2>1, <3>1 DEF Remembered, RememberedAsTicked
    <3>2. CASE p \notin ToSet(saved)
      <4>1. \A i \in 1..Len(saved) : saved[i] # p
        BY <3>2 DEF ToSet, Remembered
      <4>2. /\ Len(saved') = Len(saved) + 1 /\ Len(saved) \in Nat /\ saved'[Len(saved) + 1] = p
            /\ \A i \in 1..Len(saved) : saved'[i] = saved[i]
        BY <2>1, <3>2 DEF Remembered
      <4>3. \A i, j \in 1..Len(saved) : saved[i] = saved[j] => i = j
        BY DEF Remembered, RememberedAsTicked
      <4> QED BY <4>1, <4>2, <4>3
    <3> QED BY <3>1, <3>2
  <2> QED BY <2>1, <2>2, <2>3, <2>4, <2>5 DEF Remembered, RememberedAsTicked
<1> QED BY <1>1, <1>2

LEMMA StartRemembers ==
  ASSUME Remembered, Start
  PROVE  Remembered'
<1>1. saved' = saved /\ kept' = kept
      /\ (passphrases' = passphrase_load_setting \/ passphrases' = <<>>)
  BY DEF Start
<1>2. passphrases' \in Seq(Passphrases) /\ ToSet(passphrases') \subseteq ToSet(saved) \cup PuttySaved
  <2>1. CASE passphrases' = passphrase_load_setting
    BY <2>1, LoadedSettings DEF Remembered
  <2>2. CASE passphrases' = <<>>
    BY <2>2, ToSetEmpty
  <2> QED BY <1>1, <2>1, <2>2
<1> QED BY <1>1, <1>2 DEF Remembered, RememberedAsTicked

LEMMA ForgetRemembers ==
  ASSUME Remembered, Forget
  PROVE  Remembered'
<1>1. passphrases' = <<>> /\ saved' = <<>> /\ kept' = {}
  BY DEF Forget
<1>2. <<>> \in Seq(Passphrases) /\ Len(<<>>) = 0
  OBVIOUS
<1> QED BY <1>1, <1>2, ToSetEmpty DEF Remembered, RememberedAsTicked

LEMMA AddRest ==
  ASSUME Rest, running, NEW file \in Files, NEW result, Add(file, result), save_enable' = save_enable
  PROVE  Rest' /\ (running' => running)
BY DEF Rest, Add

LEMMA NextFileKeeps ==
  ASSUME Remembered, Rest, LoadsTyped, NextFile
  PROVE  Remembered' /\ Rest' /\ LoadsTyped'
<1> DEFINE file == Head(Top.files)
           rest == Load(Tail(Top.files))
<1>1. /\ running /\ loads # <<>> /\ Top.files # <<>> /\ save_enable' = save_enable
      /\ UNCHANGED <<passphrases, saved, kept>>
  BY DEF NextFile
<1>2. Top \in LoadType
  BY <1>1, TopTyped
<1>3. Top.files \in Seq(Files)
  BY <1>2 DEF LoadType
<1>4. file \in Files /\ Tail(Top.files) \in Seq(Files)
  BY <1>1, <1>3
<1>5. rest \in LoadType
  BY <1>4, LoadOf
<1>6. [rest EXCEPT !.file = file, !.box = save_enable] \in LoadType
  BY <1>4, <1>5 DEF LoadType, Rest
<1>7. \/ Becomes(rest) /\ UNCHANGED <<store, running>>
      \/ Becomes(rest) /\ Add(file, Head(Tried(file)))
      \/ Becomes([rest EXCEPT !.file = file, !.box = save_enable]) /\ UNCHANGED <<store, running>>
  BY DEF NextFile
<1> HIDE DEF file, rest
<1>8. LoadsTyped'
  BY <1>1, <1>5, <1>6, <1>7, Replaced
<1>9. Rest' /\ (running' => running)
  BY <1>1, <1>4, <1>7, AddRest DEF Rest
<1> QED BY <1>1, <1>8, <1>9, Untouched

LEMMA TypedKeeps ==
  ASSUME Remembered, Rest, LoadsTyped, PassphraseTyped
  PROVE  Remembered' /\ Rest' /\ LoadsTyped'
<1>1. running /\ loads # <<>> /\ Top.file # NoPass /\ save_enable' = save_enable
  BY DEF PassphraseTyped
<1>2. Top \in LoadType
  BY <1>1, TopTyped
<1>3. Top.files \in Seq(Files) /\ Top.file \in Files
  BY <1>1, <1>2 DEF LoadType
<1>4. [Top EXCEPT !.box = save_enable] \in LoadType /\ Load(Top.files) \in LoadType
  BY <1>2, <1>3, LoadOf DEF LoadType, Rest
<1>5. PICK p \in Passphrases, tick \in BOOLEAN :
        \/ /\ Becomes([Top EXCEPT !.box = save_enable])
           /\ UNCHANGED <<passphrases, saved, kept, store, running>>
        \/ Save(p, tick) /\ Becomes(Load(Top.files)) /\ Add(Top.file, Opened(Top.file, p))
  BY DEF PassphraseTyped
<1>6. LoadsTyped'
  BY <1>1, <1>4, <1>5, Replaced
<1>7. Rest' /\ (running' => running)
  BY <1>1, <1>3, <1>5, AddRest DEF Rest
<1>8. Remembered'
  BY <1>1, <1>5, <1>7, SaveRemembers, Untouched
<1> QED BY <1>6, <1>7, <1>8

LEMMA CancelledKeeps ==
  ASSUME Remembered, Rest, LoadsTyped, PassphraseCancelled
  PROVE  Remembered' /\ Rest' /\ LoadsTyped'
<1>1. /\ running /\ loads # <<>> /\ UNCHANGED <<passphrases, saved, kept, save_enable, store>>
      /\ running' \in BOOLEAN
      /\ Becomes([Top EXCEPT !.box = save_enable]) \/ Becomes(Load(Top.files))
  BY DEF PassphraseCancelled, Rest
<1>2. Top \in LoadType
  BY <1>1, TopTyped
<1>3. [Top EXCEPT !.box = save_enable] \in LoadType /\ Load(Top.files) \in LoadType
  BY <1>2, LoadOf DEF LoadType, Rest
<1> QED BY <1>1, <1>3, Replaced, Untouched DEF Rest

LEMMA StepKeeps ==
  ASSUME Remembered, Rest, LoadsTyped, FilesNext
  PROVE  Remembered' /\ Rest' /\ LoadsTyped'
<1>1. CASE NextFile
  BY <1>1, NextFileKeeps
<1>2. CASE PassphraseTyped
  BY <1>2, TypedKeeps
<1>3. CASE PassphraseCancelled
  BY <1>3, CancelledKeeps
<1>4. CASE LoadEnds
  <2>1. loads # <<>> /\ loads' = Front(loads)
        /\ UNCHANGED <<passphrases, saved, save_enable, store, running, kept>>
    BY <1>4 DEF LoadEnds
  <2> QED BY <2>1, FrontTyped, Untouched DEF Rest
<1>5. CASE Start
  <2>1. loads' = <<Load(StartupFiles)>> /\ Load(StartupFiles) \in LoadType
    BY <1>5, FilesAssumption, LoadOf DEF Start
  <2>2. LoadsTyped'
    <3>1. loads' \in Seq(LoadType) /\ Len(loads') = 1
      BY <2>1
    <3> QED BY <3>1 DEF LoadsTyped
  <2>3. Rest'
    BY <1>5 DEF Start, Rest
  <2> QED BY <1>5, <2>2, <2>3, StartRemembers
<1>6. CASE AddKey
  <2>1. PICK file \in Files : loads' = Append(loads, Load(<<file>>))
    BY <1>6 DEF AddKey
  <2>2. <<file>> \in Seq(Files) /\ AtDialog /\ UNCHANGED <<passphrases, saved, save_enable, store, running, kept>>
    BY <1>6 DEF AddKey
  <2> QED BY <2>1, <2>2, Appended, Untouched DEF Rest
<1>7. CASE Forget
  BY <1>7, ForgetRemembers DEF Forget, Rest, LoadsTyped
<1>8. CASE AllowSaving \/ ClientActs \/ ProcessEnds
  <2>1. UNCHANGED <<passphrases, saved, loads, kept>> /\ (running' => running)
    BY <1>8 DEF AllowSaving, ClientActs, ProcessEnds
  <2>2. Rest'
    BY <1>8 DEF AllowSaving, ClientActs, ProcessEnds, Rest
  <2> QED BY <2>1, <2>2, Untouched DEF LoadsTyped
<1> QED BY <1>1, <1>2, <1>3, <1>4, <1>5, <1>6, <1>7, <1>8 DEF FilesNext

-----------------------------------------------------------------------------

LEMMA FilesInvariant == FilesSpec => []FilesInv
<1>1. FilesInit => FilesInv
  <2> SUFFICES ASSUME FilesInit PROVE FilesInv
    OBVIOUS
  <2>1. LoadsTyped /\ Rest
    <3>1. <<>> \in Seq(LoadType) /\ Len(<<>>) = 0
      OBVIOUS
    <3>2. LoadsTyped
      BY <3>1 DEF FilesInit, LoadsTyped
    <3>3. Rest
      BY Zenon DEF FilesInit, Rest
    <3> QED BY <3>2, <3>3
  <2>2. <<>> \in Seq(Passphrases) /\ Len(<<>>) = 0
    OBVIOUS
  <2>3. Remembered
    BY <2>2, ToSetEmpty DEF FilesInit, Remembered, RememberedAsTicked
  <2> QED BY <2>1, <2>3, InvParts
<1>2. FilesInv /\ [FilesNext]_fileVars => FilesInv'
  <2> SUFFICES ASSUME FilesInv, [FilesNext]_fileVars PROVE FilesInv'
    OBVIOUS
  <2>1. CASE FilesNext
    <3>1. Remembered' /\ Rest' /\ LoadsTyped'
      BY <2>1, InvParts, StepKeeps
    <3> QED BY <3>1 DEF FilesInv, FilesTypeOK, Remembered, Rest, LoadsTyped, LoadType
  <2>2. CASE UNCHANGED fileVars
    BY <2>2 DEF fileVars, FilesInv, FilesTypeOK, RememberedAsTicked
  <2> QED BY <2>1, <2>2
<1> QED BY <1>1, <1>2, PTL DEF FilesSpec

\* Values keep their types, and every load but the last has its dialog open: a load
\* that has been overtaken waits in PassphraseEnumrator, nowhere else.
THEOREM FilesTyped == FilesSpec => []FilesTypeOK
<1>1. FilesInv => FilesTypeOK
  BY DEF FilesInv
<1> QED BY <1>1, FilesInvariant, PTL

\* What passphrase_save_setting(), passphrase_add() and the restarts keep is what
\* the user ticked since the last were forgotten.
THEOREM TickedRemembered == FilesSpec => []RememberedAsTicked
<1>1. FilesInv => RememberedAsTicked
  BY DEF FilesInv
<1> QED BY <1>1, FilesInvariant, PTL

-----------------------------------------------------------------------------
(* Smart cards, for any number of threads, certificates and PINs, and for   *)
(* whatever the library's sessions do.                                      *)

\* The steps from the login to the cache.
Saving == {"save", "tornSave", "link", "push"}

\* What a thread is at: with a certificate, if it signs, and about to keep a PIN only
\* if the card has taken it.
Sound(r, taken) ==
  /\ r = [pc |-> r.pc, cert |-> r.cert, handle |-> r.handle, pin |-> r.pin]
  /\ r.pc # "idle" => r.cert \in Certs
  /\ r.pc \in Saving => r.pin \in taken

\* What may be in the cache: freed memory, too, if the main thread forgets the PINs while
\* a thread puts an item in front of them.
KeptItems == [cert : Certs, pin : accepted] \cup {Freed}
CacheKept == PinCacheList \in Seq(KeptItems) /\ NextItem \in [Signers -> Seq(KeptItems)]

\* PinsWereRight is not inductive: between the login and the cache a PIN is in the
\* hands of a thread.
PinsKept ==
  /\ signer = [t \in Signers |-> signer[t]]
  /\ \A t \in Signers : Sound(signer[t], accepted)
  /\ CacheKept

\* One thread goes on, and no accepted PIN is forgotten.
LEMMA OneGoesOn ==
  ASSUME PinsKept, NEW t \in Signers, NEW r, Sound(r, accepted'), accepted \subseteq accepted',
         signer' = [signer EXCEPT ![t] = r],
         CacheKept'
  PROVE  PinsKept'
<1>1. signer' = [u \in Signers |-> signer'[u]]
  BY DEF PinsKept
<1>2. ASSUME NEW u \in Signers PROVE Sound(signer'[u], accepted')
  <2>1. CASE u = t
    BY <2>1 DEF PinsKept
  <2>2. CASE u # t
    BY <2>2 DEF PinsKept, Sound
  <2> QED BY <2>1, <2>2
<1> QED BY <1>1, <1>2 DEF PinsKept

LEMMA Returned ==
  ASSUME PinsKept, NEW t \in Signers, Return(t)
  PROVE  PinsKept'
<1>1. Sound(Idle, accepted')
  BY DEF Sound, Idle, Saving
<1>2. signer' = [signer EXCEPT ![t] = Idle] /\ accepted' = accepted /\ PinCacheList' = PinCacheList
  BY DEF Return
<1>3. CacheKept'
  BY <1>2 DEF PinsKept, CacheKept, KeptItems, Return
<1> QED BY <1>1, <1>2, <1>3, OneGoesOn

\* A thread at another step, with all it had.
LEMMA Gone ==
  ASSUME PinsKept, NEW t \in Signers, NEW pc, Goes(t, pc),
         signer[t].pc # "idle", pc \in Saving => signer[t].pin \in accepted',
         accepted \subseteq accepted', CacheKept'
  PROVE  PinsKept'
<1> DEFINE r == [pc |-> pc, cert |-> signer[t].cert, handle |-> signer[t].handle, pin |-> signer[t].pin]
<1>1. [signer[t] EXCEPT !.pc = pc] = r
  BY DEF PinsKept, Sound
<1>2. signer' = [signer EXCEPT ![t] = r]
  BY <1>1 DEF Goes
<1>3. Sound(r, accepted')
  BY DEF PinsKept, Sound
<1> HIDE DEF r
<1> QED BY <1>2, <1>3, OneGoesOn

LEMMA CacheStays ==
  ASSUME PinsKept, PinCacheList' = PinCacheList, NextItem' = NextItem, accepted \subseteq accepted'
  PROVE  CacheKept'
<1>1. KeptItems \subseteq KeptItems'
  BY DEF KeptItems
<1>2. Seq(KeptItems) \subseteq Seq(KeptItems')
  BY <1>1, SeqMonotonic
<1> HIDE DEF KeptItems
<1> QED BY <1>2 DEF PinsKept, CacheKept

LEMMA StepKeepsPins ==
  ASSUME PinsKept, CardsNext
  PROVE  PinsKept'
<1>1. ASSUME NEW t \in Signers, Begin(t) PROVE PinsKept'
  <2> DEFINE found == Lookup(Library)
             r(c) == IF found.handle = NoHandle THEN Idle
                     ELSE [pc |-> "found", cert |-> c, handle |-> found.handle, pin |-> NoPin]
  <2>0. PICK c \in Certs : signer' = [signer EXCEPT ![t] = r(c)]
    BY <1>1 DEF Begin
  <2>1. Sound(r(c), accepted')
    BY DEF Sound, Idle, Saving
  <2> HIDE DEF r
  <2>2. PICK s : s = r(c)
    OBVIOUS
  <2>3. accepted' = accepted /\ UNCHANGED <<PinCacheList, NextItem>>
    BY <1>1 DEF Begin
  <2>4. signer' = [signer EXCEPT ![t] = s] /\ Sound(s, accepted')
    BY <2>0, <2>1, <2>2
  <2> QED BY <2>3, <2>4, OneGoesOn, CacheStays
<1>2. ASSUME NEW t \in Signers, FindPrivate(t) PROVE PinsKept'
  <2>1. CASE Return(t)
    BY <2>1, Returned
  <2>2. CASE ~Return(t)
    <3>1. accepted' = accepted /\ UNCHANGED <<PinCacheList, NextItem>> /\ signer[t].pc = "found"
          /\ \E pc \in {"sign", "pin"} : Goes(t, pc)
      BY <1>2, <2>2 DEF FindPrivate
    <3> QED BY <3>1, CacheStays, Gone DEF Saving
  <2> QED BY <2>1, <2>2
<1>3. ASSUME NEW t \in Signers, ReadPin(t) \/ PinTyped(t) PROVE PinsKept'
  <2>1. \E pin, pc : pc \in {"asked", "login"}
                    /\ signer' = [signer EXCEPT ![t].pin = pin, ![t].pc = pc]
    <3>1. CASE PinTyped(t)
      BY <3>1, Zenon DEF PinTyped
    <3>2. CASE ReadPin(t)
      <4>1. PICK pin : signer' = [signer EXCEPT ![t].pin = pin,
                                                ![t].pc = IF pin = NoPin THEN "asked" ELSE "login"]
        BY <3>2, Zenon DEF ReadPin
      <4>2. PICK pc : pc = IF pin = NoPin THEN "asked" ELSE "login"
        OBVIOUS
      <4>3. signer' = [signer EXCEPT ![t].pin = pin, ![t].pc = pc] /\ pc \in {"asked", "login"}
        BY <4>1, <4>2
      <4> QED BY <4>3, Zenon
    <3> QED BY <1>3, <3>1, <3>2
  <2>1a. PICK pin, pc : pc \in {"asked", "login"}
                      /\ signer' = [signer EXCEPT ![t].pin = pin, ![t].pc = pc]
    BY <2>1, Zenon
  <2>2. accepted' = accepted /\ UNCHANGED <<PinCacheList, NextItem>> /\ signer[t].pc # "idle"
    BY <1>3 DEF ReadPin, PinTyped
  <2> DEFINE r == [pc |-> pc, cert |-> signer[t].cert, handle |-> signer[t].handle, pin |-> pin]
  <2>3. [[signer[t] EXCEPT !.pin = pin] EXCEPT !.pc = pc] = r
    <3>1. PICK q : q = signer[t]
      OBVIOUS
    <3>2. q = [pc |-> q.pc, cert |-> q.cert, handle |-> q.handle, pin |-> q.pin]
      BY <3>1 DEF PinsKept, Sound
    <3>3. PICK q1 : q1 = [q EXCEPT !.pin = pin]
      OBVIOUS
    <3>4. q1 = [pc |-> q.pc, cert |-> q.cert, handle |-> q.handle, pin |-> pin]
      BY <3>2, <3>3
    <3>5. [q1 EXCEPT !.pc = pc] = [pc |-> pc, cert |-> q.cert, handle |-> q.handle, pin |-> pin]
      BY <3>4
    <3> QED BY <3>1, <3>3, <3>5
  <2>4. signer' = [signer EXCEPT ![t] = r]
    <3>1. PICK s : s = [signer EXCEPT ![t] = [signer[t] EXCEPT !.pin = pin]]
      OBVIOUS
    <3>2. s = [u \in Signers |-> s[u]] /\ s[t] = [signer[t] EXCEPT !.pin = pin]
          /\ \A u \in Signers \ {t} : s[u] = signer[u]
      BY <3>1 DEF PinsKept
    <3>3. signer' = [s EXCEPT ![t] = [s[t] EXCEPT !.pc = pc]]
      BY <2>1a, <3>1
    <3>4. signer' = [s EXCEPT ![t] = r]
      BY <2>3, <3>2, <3>3
    <3> QED BY <3>2, <3>4 DEF PinsKept
  <2>5. Sound(r, accepted')
    BY <2>1a, <2>2 DEF PinsKept, Sound, Saving
  <2> HIDE DEF r
  <2> QED BY <2>2, <2>4, <2>5, OneGoesOn, CacheStays
<1>4. ASSUME NEW t \in Signers, PinCancelled(t) \/ Close(t) PROVE PinsKept'
  BY <1>4, Returned DEF PinCancelled, Close
<1>5. ASSUME NEW t \in Signers, Login(t) PROVE PinsKept'
  <2>1. CASE Succeeds(t)
    <3>1. Goes(t, "save") /\ accepted' = accepted \cup {cardPin} /\ UNCHANGED <<PinCacheList, NextItem>>
          /\ signer[t].pc = "login" /\ signer[t].pin = cardPin
      BY <1>5, <2>1 DEF Login, Succeeds
    <3> QED BY <3>1, CacheStays, Gone
  <2>2. CASE ~Succeeds(t)
    BY <1>5, <2>2, Returned DEF Login
  <2> QED BY <2>1, <2>2
<1>6. ASSUME NEW t \in Signers, SavePin(t) \/ LinkPin(t) \/ PushPin(t) PROVE PinsKept'
  <2>0. accepted' = accepted /\ signer[t].pc \in Saving /\ signer[t].pin \in accepted /\ signer[t].cert \in Certs
    BY <1>6 DEF SavePin, LinkPin, PushPin, PinsKept, Sound, Saving
  <2>1. \E pc \in {"link", "push", "again"} : Goes(t, pc)
    BY <1>6 DEF SavePin, LinkPin, PushPin
  <2>2. PICK items : items = KeptItems /\ KeptItems' = items
    BY <2>0 DEF KeptItems
  <2>3. PICK list : list = PinCacheList
    OBVIOUS
  <2>4. PICK next : next = NextItem
    OBVIOUS
  <2>5. list \in Seq(items) /\ next \in [Signers -> Seq(items)]
    BY <2>2, <2>3, <2>4 DEF PinsKept, CacheKept
  <2>6. PICK item : item = [cert |-> signer[t].cert, pin |-> signer[t].pin]
    OBVIOUS
  <2>7. item \in items
    BY <2>0, <2>2, <2>6 DEF KeptItems
  <2>8. <<item>> \o next[t] \in Seq(items) /\ <<>> \in Seq(items)
    BY <2>5, <2>7
  <2>9. /\ PinCacheList' = list \/ PinCacheList' = <<item>> \o next[t]
        /\ NextItem' = next \/ NextItem' = [next EXCEPT ![t] = list] \/ NextItem' = [next EXCEPT ![t] = <<>>]
    BY <1>6, <2>3, <2>4, <2>6 DEF SavePin, LinkPin, PushPin
  <2>10. PinCacheList' \in Seq(items) /\ NextItem' \in [Signers -> Seq(items)]
    BY <2>5, <2>8, <2>9
  <2>11. CacheKept'
    BY <2>2, <2>10 DEF CacheKept
  <2> QED BY <2>0, <2>1, <2>11, Gone DEF Saving
<1>7. ASSUME NEW t \in Signers, FindAgain(t) PROVE PinsKept'
  <2>1. CASE Return(t)
    BY <2>1, Returned
  <2>2. CASE ~Return(t)
    <3>1. accepted' = accepted /\ UNCHANGED <<PinCacheList, NextItem>> /\ signer[t].pc = "again" /\ Goes(t, "sign")
      BY <1>7, <2>2 DEF FindAgain
    <3> QED BY <3>1, CacheStays, Gone DEF Saving
  <2> QED BY <2>1, <2>2
<1>8. ASSUME NEW t \in Signers, Sign(t) PROVE PinsKept'
  <2>1. accepted' = accepted /\ UNCHANGED <<PinCacheList, NextItem>> /\ signer[t].pc = "sign"
        /\ \E pc \in {"done", "shown"} : Goes(t, pc)
    BY <1>8 DEF Sign
  <2> QED BY <2>1, CacheStays, Gone DEF Saving
<1>9. CASE LoadKey \/ Finalize \/ MoveCard \/ ChangePin
  <2>1. accepted' = accepted /\ UNCHANGED <<PinCacheList, NextItem>> /\ signer' = signer
    BY <1>9 DEF LoadKey, Finalize, MoveCard, ChangePin
  <2> QED BY <2>1 DEF PinsKept, CacheKept, KeptItems
<1>10. CASE ForgetPin
  <2>1. /\ accepted' = accepted /\ PinCacheList' = <<>>
        /\ NextItem' = [t \in Signers |-> IF NextItem[t] = <<>> THEN <<>> ELSE <<Freed>>]
    BY <1>10 DEF ForgetPin
  <2>2. ASSUME NEW t \in Signers PROVE Sound(signer'[t], accepted')
    <3>1. CASE signer'[t] = signer[t]
      BY <2>1, <3>1 DEF PinsKept
    <3>2. CASE signer'[t] # signer[t]
      <4>1. PICK pc : /\ signer'[t] = [signer[t] EXCEPT !.pc = pc]
                      /\ \/ signer[t].pc = "pin" /\ pc = "torn"
                         \/ signer[t].pc = "save" /\ pc = "tornSave"
        BY <1>10, <3>2 DEF ForgetPin
      <4>2. signer'[t] = [pc |-> pc, cert |-> signer[t].cert, handle |-> signer[t].handle,
                          pin |-> signer[t].pin]
        BY <4>1 DEF PinsKept, Sound
      <4> QED BY <2>1, <4>1, <4>2 DEF PinsKept, Sound, Saving
    <3> QED BY <3>1, <3>2
  <2>3. signer' = [t \in Signers |-> signer'[t]]
    BY <1>10 DEF ForgetPin
  <2>4. PICK items : items = KeptItems /\ KeptItems' = items
    BY <2>1 DEF KeptItems
  <2>5. <<>> \in Seq(items) /\ <<Freed>> \in Seq(items)
    BY <2>4 DEF KeptItems
  <2>6. PinCacheList' \in Seq(items) /\ NextItem' \in [Signers -> Seq(items)]
    BY <2>1, <2>5
  <2>7. CacheKept'
    BY <2>4, <2>6 DEF CacheKept
  <2> QED BY <2>2, <2>3, <2>7 DEF PinsKept
<1> QED BY <1>1, <1>2, <1>3, <1>4, <1>5, <1>6, <1>7, <1>8, <1>9, <1>10 DEF CardsNext

\* Every PIN in the cache of cert_pin() is one that the card took, whichever threads log
\* in and ask the user, and whenever the main thread forgets the PINs.  It is not said
\* that there are only PINs in the cache: if the main thread forgets them between the
\* two steps in which a thread puts an item in front of them, the item has freed memory
\* behind it.
THEOREM PinsAlwaysRight == CardsSpec => []PinsWereRight
<1>1. CardsInit => PinsKept
  <2> SUFFICES ASSUME CardsInit PROVE PinsKept
    OBVIOUS
  <2>1. ASSUME NEW t \in Signers PROVE Sound(signer[t], accepted)
    BY <2>1 DEF CardsInit, Sound, Idle, Saving
  <2>2. CacheKept
    BY DEF CardsInit, CacheKept
  <2> QED BY <2>1, <2>2 DEF CardsInit, PinsKept
<1>2. PinsKept /\ [CardsNext]_cardVars => PinsKept'
  <2> SUFFICES ASSUME PinsKept, [CardsNext]_cardVars PROVE PinsKept'
    OBVIOUS
  <2>1. CASE UNCHANGED cardVars
    BY <2>1 DEF cardVars, PinsKept, CacheKept, KeptItems
  <2> QED BY <2>1, StepKeepsPins
<1>3. PinsKept => PinsWereRight
  <2> SUFFICES ASSUME PinsKept, NEW i \in 1..Len(PinCacheList)
               PROVE  PinCacheList[i] = Freed \/ PinCacheList[i].pin \in accepted
    BY DEF PinsWereRight
  <2>1. PinCacheList[i] \in KeptItems
    BY ElementOfSeq DEF PinsKept, CacheKept
  <2> QED BY <2>1 DEF KeptItems
<1> QED BY <1>1, <1>2, <1>3, PTL DEF CardsSpec

-----------------------------------------------------------------------------
(* The loops over positions.  The library's theorems about induction take   *)
(* an operator; that every set of numbers has a least member takes a set.    *)

LEMMA LeastOf ==
  ASSUME NEW T \in SUBSET Nat, T # {}
  PROVE  \E n \in T : \A m \in T : n <= m
<1>1. PICK n \in T : \A m \in T : <<m, n>> \notin OpToRel(<, Nat)
  BY NatLessThanWellFounded, WFMin
<1>2. ASSUME NEW m \in T, m < n PROVE FALSE
  <2>1. PICK ss : ss = <<m, n>>
    OBVIOUS
  <2>2. ss \in Nat \X Nat /\ ss[1] < ss[2]
    BY <1>2, <2>1
  <2>3. <<m, n>> \in OpToRel(<, Nat)
    BY <2>1, <2>2 DEF OpToRel
  <2> QED BY <1>1, <2>3
<1> QED BY <1>2

\* Induction over 0..N, for a set of positions.
LEMMA EveryPosition ==
  ASSUME NEW N \in Nat, NEW T \in SUBSET (0..N), 0 \in T, \A n \in T : n < N => n + 1 \in T
  PROVE  T = 0..N
<1> DEFINE Missing == (0..N) \ T
<1>1. SUFFICES ASSUME Missing # {} PROVE FALSE
  OBVIOUS
<1>2. PICK n \in Missing : \A m \in Missing : n <= m
  <2>1. Missing \in SUBSET Nat
    OBVIOUS
  <2> HIDE DEF Missing
  <2> QED BY <1>1, <2>1, LeastOf
<1>3. n - 1 \in T /\ n - 1 < N
  BY <1>2
<1> QED BY <1>2, <1>3

\* The loop of pkcs_lookup_token_cert() over the slots.
LEMMA LookupLoop ==
  ASSUME NEW lib
  PROVE  \E f : /\ f = [n \in 0..Len(SlotList) |->
                          IF n = 0 THEN [lib |-> lib, handle |-> NoHandle]
                          ELSE TrySlot(f[n - 1], SlotList[n])]
                /\ Lookup(lib) = f[Len(SlotList)]
<1> DEFINE Loop(f, N) == f = [n \in 0..N |-> IF n = 0 THEN [lib |-> lib, handle |-> NoHandle]
                                             ELSE TrySlot(f[n - 1], SlotList[n])]
           T == {N \in 0..Len(SlotList) : \E f : Loop(f, N)}
<1>0. Len(SlotList) \in Nat
  BY CardsAssumption
<1>1. 0 \in T
  <2> DEFINE f == [n \in 0..0 |-> [lib |-> lib, handle |-> NoHandle]]
  <2>1. Loop(f, 0)
    OBVIOUS
  <2> HIDE DEF f, Loop
  <2> QED BY <1>0, <2>1
<1>2. ASSUME NEW N \in T, N < Len(SlotList) PROVE N + 1 \in T
  <2>0. N \in Nat
    BY <1>0
  <2>1. PICK f : Loop(f, N)
    OBVIOUS
  <2> DEFINE g == [n \in 0..N + 1 |-> IF n = N + 1 THEN TrySlot(f[N], SlotList[N + 1]) ELSE f[n]]
  <2>2. \A n \in 0..N : g[n] = f[n]
    BY <2>0
  <2>3. \A n \in 0..N : f[n] = IF n = 0 THEN [lib |-> lib, handle |-> NoHandle]
                               ELSE TrySlot(f[n - 1], SlotList[n])
    BY <2>0, <2>1
  <2>4. \A n \in 0..N + 1 : g[n] = IF n = 0 THEN [lib |-> lib, handle |-> NoHandle]
                                   ELSE TrySlot(g[n - 1], SlotList[n])
    <3> SUFFICES ASSUME NEW n \in 0..N + 1
                 PROVE  g[n] = IF n = 0 THEN [lib |-> lib, handle |-> NoHandle]
                               ELSE TrySlot(g[n - 1], SlotList[n])
      OBVIOUS
    <3>1. CASE n = N + 1
      BY <2>0, <2>2, <3>1
    <3>2. CASE n # N + 1
      BY <2>0, <2>2, <2>3, <3>2
    <3> QED BY <3>1, <3>2
  <2>5. g = [n \in 0..N + 1 |-> g[n]]
    OBVIOUS
  <2> HIDE DEF g
  <2>6. Loop(g, N + 1)
    BY <2>4, <2>5
  <2> HIDE DEF Loop
  <2> QED BY <1>0, <1>2, <2>0, <2>6
<1>3. \E f : Loop(f, Len(SlotList))
  <2>1. T = 0..Len(SlotList)
    <3> HIDE DEF Loop
    <3>1. T \in SUBSET (0..Len(SlotList))
      OBVIOUS
    <3> HIDE DEF T
    <3> QED BY <1>0, <1>1, <1>2, <3>1, EveryPosition
  <2> HIDE DEF Loop
  <2> QED BY <1>0, <2>1
<1> QED BY <1>3, Zenon DEF Lookup

\* What the tries of slots preserve holds of the search.
LEMMA LookupKeeps ==
  ASSUME NEW lib, NEW Good, [lib |-> lib, handle |-> NoHandle] \in Good,
         \A found \in Good, slot \in ToSet(SlotList) : TrySlot(found, slot) \in Good
  PROVE  Lookup(lib) \in Good
<1>1. PICK f : /\ f = [n \in 0..Len(SlotList) |->
                          IF n = 0 THEN [lib |-> lib, handle |-> NoHandle]
                          ELSE TrySlot(f[n - 1], SlotList[n])]
               /\ Lookup(lib) = f[Len(SlotList)]
  BY LookupLoop
<1> DEFINE T == {n \in 0..Len(SlotList) : f[n] \in Good}
<1>0. Len(SlotList) \in Nat /\ \A n \in 1..Len(SlotList) : SlotList[n] \in ToSet(SlotList)
  BY CardsAssumption DEF ToSet
<1>2. 0 \in T
  BY <1>0, <1>1
<1>3. ASSUME NEW n \in T, n < Len(SlotList) PROVE n + 1 \in T
  <2>1. f[n + 1] = TrySlot(f[n], SlotList[n + 1])
    BY <1>0, <1>1, <1>3
  <2> QED BY <1>0, <1>3, <2>1
<1>4. T = 0..Len(SlotList)
  <2>1. T \in SUBSET (0..Len(SlotList))
    OBVIOUS
  <2> HIDE DEF T
  <2> QED BY <1>0, <1>2, <1>3, <2>1, EveryPosition
<1>5. f[Len(SlotList)] \in Good
  BY <1>0, <1>4
<1> QED BY <1>1, <1>5

\* A library's sessions, and what the search has come to in them: sessions whose
\* handle was not closed are as they were, a session that was found is of the
\* card's slot, and the login is lost only with the last session on the card.
OpenSessions == UNION {[D -> ToSet(SlotList)] : D \in SUBSET (1..MaxSessions)}

Found(lib) ==
  {f \in [lib : [open : OpenSessions, in : BOOLEAN, closed : SUBSET Nat], handle : 0..MaxSessions] :
     /\ f.lib.in => lib.in /\ OnCard(f.lib.open) # {}
     /\ \A h \in DOMAIN lib.open : h \notin f.lib.closed =>
          h \in DOMAIN f.lib.open /\ f.lib.open[h] = lib.open[h]
     /\ f.handle # NoHandle => f.handle \in OnCard(f.lib.open)
     /\ lib.in /\ (\E h \in OnCard(lib.open) : h \notin f.lib.closed) => f.lib.in}

LEMMA OpenSessionsAre ==
  ASSUME NEW open
  PROVE  open \in OpenSessions <=> /\ open = [h \in DOMAIN open |-> open[h]]
                                   /\ DOMAIN open \in SUBSET (1..MaxSessions)
                                   /\ \A h \in DOMAIN open : open[h] \in ToSet(SlotList)
<1> HIDE DEF ToSet
<1>1. ASSUME open \in OpenSessions
      PROVE  /\ open = [h \in DOMAIN open |-> open[h]]
             /\ DOMAIN open \in SUBSET (1..MaxSessions)
             /\ \A h \in DOMAIN open : open[h] \in ToSet(SlotList)
  <2>1. PICK D \in SUBSET (1..MaxSessions) : open \in [D -> ToSet(SlotList)]
    BY <1>1 DEF OpenSessions
  <2> QED BY <2>1
<1>2. ASSUME open = [h \in DOMAIN open |-> open[h]], DOMAIN open \in SUBSET (1..MaxSessions),
             \A h \in DOMAIN open : open[h] \in ToSet(SlotList)
      PROVE  open \in OpenSessions
  <2>1. open \in [DOMAIN open -> ToSet(SlotList)]
    BY <1>2
  <2> QED BY <1>2, <2>1 DEF OpenSessions
<1> QED BY <1>1, <1>2

LEMMA NoneOpen == <<>> \in OpenSessions
<1>1. <<>> \in [{} -> ToSet(SlotList)]
  BY DEF ToSet
<1> QED BY <1>1 DEF OpenSessions

\* C_OpenSession() below the limit: the lowest handle that is free is not above it.
LEMMA FreeHandleIsFree ==
  ASSUME NEW open, DOMAIN open \in SUBSET (1..MaxSessions), Cardinality(DOMAIN open) # MaxSessions
  PROVE  FreeHandle(open) \in 1..MaxSessions /\ FreeHandle(open) \notin DOMAIN open
<1> DEFINE T == 1..MaxSessions \ DOMAIN open
<1>0. MaxSessions \in Nat
  BY CardsAssumption
<1>1. T # {} /\ T \in SUBSET Nat
  <2>1. Cardinality(1..MaxSessions) = MaxSessions
    BY <1>0, FS_Interval
  <2>2. 1..MaxSessions # DOMAIN open
    BY <2>1
  <2> QED BY <1>0, <2>2
<1>2. PICK n \in T : \A m \in T : n <= m
  <2> HIDE DEF T
  <2> QED BY <1>1, LeastOf
<1>3. n \in Handles /\ n \notin DOMAIN open /\ \A i \in 1..(n - 1) : i \in DOMAIN open
  BY <1>0, <1>2 DEF Handles
<1> DEFINE h == FreeHandle(open)
<1>4. h \in Handles /\ h \notin DOMAIN open /\ \A i \in 1..(h - 1) : i \in DOMAIN open
  BY <1>3 DEF FreeHandle
<1> HIDE DEF h
<1>5. h # MaxSessions + 1
  BY <1>0, <1>2, <1>4
<1>6. h \in 1..MaxSessions /\ h \notin DOMAIN open
  BY <1>0, <1>4, <1>5 DEF Handles
<1> QED BY <1>6 DEF h

LEMMA TrySlotKeeps ==
  ASSUME NEW lib, NEW f \in Found(lib), NEW slot \in ToSet(SlotList)
  PROVE  TrySlot(f, slot) \in Found(lib)
<1> HIDE DEF ToSet
<1>0. MaxSessions \in Nat /\ slot \in Nat
  <2>1. ToSet(SlotList) \subseteq Nat
    BY CardsAssumption DEF ToSet
  <2> QED BY <2>1, CardsAssumption
<1> DEFINE h == FreeHandle(f.lib.open)
           open == [i \in DOMAIN f.lib.open \cup {h} |-> IF i \in DOMAIN f.lib.open THEN f.lib.open[i] ELSE slot]
           opened == C_OpenSession(f.lib, slot)
<1>1. CASE f.handle # NoHandle \/ ~Present(slot) \/ Cardinality(DOMAIN f.lib.open) = MaxSessions
  BY <1>1 DEF TrySlot
<1>2. CASE ~(f.handle # NoHandle \/ ~Present(slot) \/ Cardinality(DOMAIN f.lib.open) = MaxSessions)
  <2>1. /\ f.lib.open \in OpenSessions /\ f.lib.in \in BOOLEAN /\ f.lib.closed \in SUBSET Nat
        /\ f.lib = [open |-> f.lib.open, in |-> f.lib.in, closed |-> f.lib.closed]
        /\ f.lib.in => lib.in /\ OnCard(f.lib.open) # {}
        /\ \A i \in DOMAIN lib.open : i \notin f.lib.closed =>
             i \in DOMAIN f.lib.open /\ f.lib.open[i] = lib.open[i]
        /\ lib.in /\ (\E i \in OnCard(lib.open) : i \notin f.lib.closed) => f.lib.in
    BY DEF Found
  <2>2. h \in 1..MaxSessions /\ h \notin DOMAIN f.lib.open
    BY <1>2, <2>1, OpenSessionsAre, FreeHandleIsFree
  <2>3. opened = [open |-> open, in |-> f.lib.in, closed |-> f.lib.closed]
    <3>1. PICK l : l = f.lib
      OBVIOUS
    <3>2. opened = [l EXCEPT !.open = open]
      BY <3>1 DEF C_OpenSession
    <3>3. PICK o : o = open
      OBVIOUS
    <3>4. [l EXCEPT !.open = o] = [open |-> o, in |-> l.in, closed |-> l.closed]
      <4>1. l = [open |-> l.open, in |-> l.in, closed |-> l.closed]
        BY <2>1, <3>1
      <4> QED BY <4>1
    <3> HIDE DEF open, opened
    <3> QED BY <3>1, <3>2, <3>3, <3>4
  <2>4. PICK o : o = open
    OBVIOUS
  <2>5. /\ DOMAIN o = DOMAIN f.lib.open \cup {h} /\ o[h] = slot /\ o = [i \in DOMAIN o |-> o[i]]
        /\ \A i \in DOMAIN f.lib.open : o[i] = f.lib.open[i]
    BY <2>2, <2>4
  <2>6. o \in OpenSessions
    <3>1. DOMAIN f.lib.open \in SUBSET (1..MaxSessions) /\ \A i \in DOMAIN f.lib.open : f.lib.open[i] \in ToSet(SlotList)
      BY <2>1, OpenSessionsAre
    <3> QED BY <2>2, <2>5, <3>1, OpenSessionsAre
  <2>7. \A i \in DOMAIN lib.open : i \notin f.lib.closed => i \in DOMAIN o /\ o[i] = lib.open[i]
    BY <2>1, <2>5
  <2> HIDE DEF h, open, opened
  <2>8. CASE slot = CardSlot
    <3>1. TrySlot(f, slot) = [lib |-> [open |-> o, in |-> f.lib.in, closed |-> f.lib.closed], handle |-> h]
      BY <1>2, <2>3, <2>4, <2>8 DEF TrySlot, h, opened
    <3>2. h \in OnCard(o)
      BY <2>5, <2>8 DEF OnCard
    <3> QED BY <1>0, <2>1, <2>2, <2>6, <2>7, <3>1, <3>2 DEF Found
  <2>9. CASE slot # CardSlot
    <3> DEFINE left == WithoutHandle(o, slot)
               closed == f.lib.closed \cup {slot}
               in == f.lib.in /\ OnCard(left) # {}
    <3>1. TrySlot(f, slot) = [lib |-> [open |-> left, in |-> in, closed |-> closed], handle |-> NoHandle]
      BY <1>2, <2>3, <2>4, <2>9 DEF TrySlot, h, opened, C_CloseSession
    <3>2. DOMAIN left = DOMAIN o \ {slot} /\ left = [i \in DOMAIN left |-> left[i]]
          /\ \A i \in DOMAIN left : left[i] = o[i]
      BY DEF WithoutHandle
    <3> HIDE DEF left
    <3>3. left \in OpenSessions
      BY <2>6, <3>2, OpenSessionsAre
    <3>4. \A i \in DOMAIN lib.open : i \notin closed => i \in DOMAIN left /\ left[i] = lib.open[i]
      BY <2>7, <3>2
    <3>5. lib.in /\ (\E i \in OnCard(lib.open) : i \notin closed) => in
      BY <2>1, <3>4 DEF OnCard
    <3>6. in \in BOOLEAN /\ (in => lib.in /\ OnCard(left) # {}) /\ closed \in SUBSET Nat
      BY <1>0, <2>1
    <3> HIDE DEF in, closed
    <3> QED BY <1>0, <3>1, <3>3, <3>4, <3>5, <3>6 DEF Found, NoHandle
  <2> QED BY <2>8, <2>9
<1> QED BY <1>1, <1>2

\* pkcs_lookup_token_cert(), from sessions of which none is logged in without one on
\* the card.
LEMMA LookupFinds ==
  ASSUME sessions \in OpenSessions, loggedIn \in BOOLEAN, loggedIn => OnCard(sessions) # {}
  PROVE  Lookup(Library) \in Found(Library)
<1>1. [lib |-> Library, handle |-> NoHandle] \in Found(Library)
  <2>1. MaxSessions \in Nat
    BY CardsAssumption
  <2>2. Library \in [open : OpenSessions, in : BOOLEAN, closed : SUBSET Nat]
        /\ Library.open = sessions /\ Library.in = loggedIn
    BY DEF Library
  <2> QED BY <2>1, <2>2 DEF Found, NoHandle
<1> QED BY <1>1, LookupKeeps, TrySlotKeeps

\* The types, with the sessions as functions.
Hands == [pc : Steps, cert : Certs \cup {NoPin}, handle : {NoHandle} \cup Handles,
          pin : Pins \cup {Torn, NoPin}]

CardsTyped ==
  /\ Initialized \in BOOLEAN /\ loggedIn \in BOOLEAN /\ inserted \in BOOLEAN
  /\ cardPin \in Pins /\ accepted \subseteq Pins /\ disturbed \subseteq Signers
  /\ sessions \in OpenSessions /\ (loggedIn => OnCard(sessions) # {})
  /\ signer \in [Signers -> Hands]

\* What a thread of cert_pkcs_sign() relies on between two of its calls, as long as
\* nothing has disturbed it: its session is open on the card, nobody is logged in
\* before it has a PIN, and it stays logged in until it has signed.
Fit(t) ==
  signer[t].pc # "idle" /\ t \notin disturbed =>
    /\ OnTheCard(t)
    /\ signer[t].pc \in {"pin", "torn", "asked", "login"} => ~loggedIn
    /\ signer[t].pc \in Saving \cup {"again", "sign", "done"} => loggedIn
    /\ signer[t].pc # "shown"

CardsInv == PinsKept /\ CardsTyped /\ \A t \in Signers : Fit(t)

LEMMA OneHand ==
  ASSUME CardsTyped, NEW t \in Signers, NEW r \in Hands, signer' = [signer EXCEPT ![t] = r]
  PROVE  /\ signer' \in [Signers -> Hands] /\ signer'[t] = r
         /\ \A u \in Signers \ {t} : signer'[u] = signer[u]
BY DEF CardsTyped

LEMMA GoesOn ==
  ASSUME CardsTyped, NEW t \in Signers, NEW pc \in Steps, Goes(t, pc)
  PROVE  /\ signer' \in [Signers -> Hands]
         /\ signer'[t].pc = pc /\ signer'[t].handle = signer[t].handle
         /\ \A u \in Signers \ {t} : signer'[u] = signer[u]
<1> DEFINE r == [pc |-> pc, cert |-> signer[t].cert, handle |-> signer[t].handle, pin |-> signer[t].pin]
<1>1. PICK q \in Hands : q = signer[t]
  BY DEF CardsTyped
<1>2. q = [pc |-> q.pc, cert |-> q.cert, handle |-> q.handle, pin |-> q.pin]
  BY DEF Hands
<1>3. [q EXCEPT !.pc = pc] = [pc |-> pc, cert |-> q.cert, handle |-> q.handle, pin |-> q.pin]
  BY <1>2
<1>4. r \in Hands
  BY <1>1 DEF Hands
<1>5. signer' = [signer EXCEPT ![t] = r]
  BY <1>1, <1>3 DEF Goes
<1>7. r.pc = pc /\ r.handle = signer[t].handle
  OBVIOUS
<1> HIDE DEF r
<1>6. signer' \in [Signers -> Hands] /\ signer'[t] = r /\ \A u \in Signers \ {t} : signer'[u] = signer[u]
  BY <1>4, <1>5, OneHand
<1> QED BY <1>6, <1>7

\* Of a thread that stands still, when the sessions change as a search, or the close
\* of a session, changes them.
LEMMA StillFits ==
  ASSUME NEW u \in Signers, Fit(u), NEW lib,
         lib.in \in BOOLEAN, loggedIn \in BOOLEAN, lib.in => loggedIn,
         \A h \in DOMAIN sessions : h \notin lib.closed => h \in DOMAIN lib.open /\ lib.open[h] = sessions[h],
         loggedIn /\ (\E h \in OnCard(sessions) : h \notin lib.closed) => lib.in,
         sessions' = lib.open, loggedIn' = lib.in, signer'[u] = signer[u],
         u \in disturbed \cup Touched(lib) => u \in disturbed'
  PROVE  Fit(u)'
<1> SUFFICES ASSUME signer[u].pc # "idle", u \notin disturbed', u \notin disturbed,
                    signer[u].handle \notin lib.closed
             PROVE  Fit(u)'
  BY DEF Fit, Touched
<1>1. signer[u].handle \in OnCard(sessions)
  BY DEF Fit, OnTheCard
<1>2. signer[u].handle \in OnCard(sessions')
  BY <1>1 DEF OnCard
<1>3. loggedIn' = loggedIn
  BY <1>1
<1> QED BY <1>2, <1>3 DEF Fit, OnTheCard

LEMMA UntouchedFits ==
  ASSUME NEW u \in Signers, Fit(u), sessions' = sessions, loggedIn' = loggedIn,
         signer'[u] = signer[u], disturbed \subseteq disturbed'
  PROVE  Fit(u)'
BY DEF Fit, OnTheCard

\* A thread gives up, or is done: it closes its session.
LEMMA ReturnFits ==
  ASSUME CardsTyped, \A u \in Signers : Fit(u), NEW t \in Signers, Return(t)
  PROVE  CardsTyped' /\ \A u \in Signers : Fit(u)'
<1> DEFINE h == signer[t].handle
           lib == C_CloseSession(Library, h)
<1>1. lib = [open |-> WithoutHandle(sessions, h), in |-> loggedIn /\ OnCard(WithoutHandle(sessions, h)) # {},
             closed |-> {h}]
  BY DEF C_CloseSession, Library
<1>2. /\ DOMAIN lib.open = DOMAIN sessions \ {h} /\ lib.open = [i \in DOMAIN lib.open |-> lib.open[i]]
      /\ \A i \in DOMAIN lib.open : lib.open[i] = sessions[i]
      /\ lib.in = (loggedIn /\ OnCard(lib.open) # {}) /\ lib.closed = {h}
  BY <1>1 DEF WithoutHandle
<1>3. sessions' = lib.open /\ loggedIn' = lib.in /\ disturbed' = (disturbed \cup Touched(lib)) \ {t}
      /\ signer' = [signer EXCEPT ![t] = Idle] /\ UNCHANGED <<Initialized, inserted, cardPin, accepted>>
  BY DEF Return
<1> HIDE DEF lib, h
<1>4. lib.open \in OpenSessions
  BY <1>2, OpenSessionsAre DEF CardsTyped
<1>5. Idle \in Hands
  BY DEF Idle, Hands, Steps
<1>6. signer' \in [Signers -> Hands] /\ signer'[t] = Idle /\ \A u \in Signers \ {t} : signer'[u] = signer[u]
  BY <1>3, <1>5, OneHand
<1>7. Touched(lib) \subseteq Signers
  BY DEF Touched
<1>8. CardsTyped'
  BY <1>2, <1>3, <1>4, <1>6, <1>7 DEF CardsTyped
<1>9. ASSUME NEW u \in Signers PROVE Fit(u)'
  <2>1. CASE u = t
    BY <1>6, <2>1 DEF Fit, Idle
  <2>2. CASE u # t
    <3>1. loggedIn \in BOOLEAN /\ lib.in \in BOOLEAN /\ (lib.in => loggedIn)
      BY <1>2 DEF CardsTyped
    <3>2. \A i \in DOMAIN sessions : i \notin lib.closed => i \in DOMAIN lib.open /\ lib.open[i] = sessions[i]
      BY <1>2
    <3>3. loggedIn /\ (\E i \in OnCard(sessions) : i \notin lib.closed) => lib.in
      BY <1>2 DEF OnCard
    <3>4. signer'[u] = signer[u] /\ (u \in disturbed \cup Touched(lib) => u \in disturbed')
      BY <1>3, <1>6, <2>2
    <3> QED BY <1>3, <3>1, <3>2, <3>3, <3>4, StillFits
  <2> QED BY <2>1, <2>2
<1> QED BY <1>8, <1>9

\* What a search of the slots leaves of the library, in the steps that begin with one.
LEMMA SearchFits ==
  ASSUME CardsTyped, NEW found, found = Lookup(Library)
  PROVE  /\ found.lib.open \in OpenSessions /\ found.lib.in \in BOOLEAN
         /\ found.lib.in => OnCard(found.lib.open) # {}
         /\ found.handle \in {NoHandle} \cup Handles
         /\ found.handle # NoHandle => found.handle \in OnCard(found.lib.open)
         /\ \A u \in Signers :
              /\ Fit(u) /\ sessions' = found.lib.open /\ loggedIn' = found.lib.in
              /\ signer'[u] = signer[u] /\ (u \in disturbed \cup Touched(found.lib) => u \in disturbed')
              => Fit(u)'
<1>1. Library.open = sessions /\ Library.in = loggedIn /\ MaxSessions \in Nat
  BY CardsAssumption DEF Library
<1>2. found \in Found(Library)
  BY LookupFinds DEF CardsTyped
<1>3. /\ found.lib.open \in OpenSessions /\ found.lib.in \in BOOLEAN /\ found.handle \in 0..MaxSessions
      /\ found.lib.in => loggedIn /\ OnCard(found.lib.open) # {}
      /\ \A h \in DOMAIN sessions : h \notin found.lib.closed =>
           h \in DOMAIN found.lib.open /\ found.lib.open[h] = sessions[h]
      /\ found.handle # NoHandle => found.handle \in OnCard(found.lib.open)
      /\ loggedIn /\ (\E h \in OnCard(sessions) : h \notin found.lib.closed) => found.lib.in
  BY <1>1, <1>2 DEF Found
<1>4. found.handle \in {NoHandle} \cup Handles
  BY <1>1, <1>3 DEF NoHandle, Handles
<1>5. ASSUME NEW u \in Signers, Fit(u), sessions' = found.lib.open, loggedIn' = found.lib.in,
             signer'[u] = signer[u], u \in disturbed \cup Touched(found.lib) => u \in disturbed'
      PROVE  Fit(u)'
  <2>1. loggedIn \in BOOLEAN
    BY DEF CardsTyped
  <2> QED BY <1>3, <1>5, <2>1, StillFits
<1> QED BY <1>3, <1>4, <1>5

LEMMA BeginFits ==
  ASSUME CardsInv, NEW t \in Signers, Begin(t)
  PROVE  CardsTyped' /\ \A u \in Signers : Fit(u)'
<1>1. PICK found : found = Lookup(Library)
  OBVIOUS
<1>2. /\ Initialized' = TRUE /\ sessions' = found.lib.open /\ loggedIn' = found.lib.in
      /\ disturbed' = (disturbed \cup Touched(found.lib)) \ {t}
      /\ UNCHANGED <<inserted, cardPin, accepted>>
  BY <1>1 DEF Begin, Use
<1>3. PICK c \in Certs :
        signer' = [signer EXCEPT ![t] =
                     IF found.handle = NoHandle THEN Idle
                     ELSE [pc |-> "found", cert |-> c, handle |-> found.handle, pin |-> NoPin]]
  BY <1>1 DEF Begin
<1>4. PICK r : r = IF found.handle = NoHandle THEN Idle
                   ELSE [pc |-> "found", cert |-> c, handle |-> found.handle, pin |-> NoPin]
  OBVIOUS
<1>5. r \in Hands
  <2>1. found.handle \in {NoHandle} \cup Handles
    BY <1>1, SearchFits DEF CardsInv
  <2> QED BY <1>4, <2>1 DEF Hands, Idle, Steps
<1>6. signer' \in [Signers -> Hands] /\ signer'[t] = r /\ \A u \in Signers \ {t} : signer'[u] = signer[u]
  BY <1>3, <1>4, <1>5, OneHand DEF CardsInv
<1>7. /\ found.lib.open \in OpenSessions /\ found.lib.in \in BOOLEAN
      /\ found.lib.in => OnCard(found.lib.open) # {}
      /\ found.handle # NoHandle => found.handle \in OnCard(found.lib.open)
  BY <1>1, SearchFits DEF CardsInv
<1>8. Touched(found.lib) \subseteq Signers
  BY DEF Touched
<1>9. CardsTyped'
  BY <1>2, <1>6, <1>7, <1>8 DEF CardsInv, CardsTyped
<1>10. ASSUME NEW u \in Signers PROVE Fit(u)'
  <2>1. CASE u = t
    BY <1>2, <1>4, <1>6, <1>7, <2>1 DEF Fit, Idle, OnTheCard, Saving
  <2>2. CASE u # t
    <3>1. Fit(u) /\ signer'[u] = signer[u] /\ (u \in disturbed \cup Touched(found.lib) => u \in disturbed')
      BY <1>2, <1>6, <2>2 DEF CardsInv
    <3> QED BY <1>1, <1>2, <3>1, SearchFits DEF CardsInv
  <2> QED BY <2>1, <2>2
<1> QED BY <1>9, <1>10

\* What cert_pin() finds in its cache is a PIN that was typed, or what was freed.
LEMMA FoundIsPin ==
  ASSUME CardsInv, NEW t \in Signers
  PROVE  PinFound(t) \subseteq Pins \cup {Torn, NoPin}
<1>1. PinCacheList \in Seq(KeptItems) /\ accepted \subseteq Pins
  BY DEF CardsInv, PinsKept, CacheKept, CardsTyped
<1> DEFINE found == CachedFor(signer[t].cert)
<1>2. SUFFICES ASSUME found # {}, PinCacheList[Min(found)] # Freed
               PROVE  PinCacheList[Min(found)].pin \in Pins
  BY DEF PinFound
<1>3. found \in SUBSET Nat /\ found \subseteq DOMAIN PinCacheList
  BY <1>1 DEF CachedFor
<1> HIDE DEF found
<1>4. PICK n \in found : \A m \in found : n <= m
  BY <1>2, <1>3, LeastOf
<1>5. Min(found) \in found
  BY <1>4 DEF Min
<1>6. PICK i \in DOMAIN PinCacheList : i = Min(found)
  BY <1>3, <1>5
<1>7. i \in 1..Len(PinCacheList)
  BY <1>1
<1>8. PinCacheList[i] \in KeptItems
  BY <1>1, <1>7, ElementOfSeq
<1> QED BY <1>1, <1>2, <1>6, <1>8 DEF KeptItems

\* A step of a thread that leaves the sessions alone.
LEMMA QuietStep ==
  ASSUME CardsInv, NEW t \in Signers,
         signer' \in [Signers -> Hands], \A u \in Signers \ {t} : signer'[u] = signer[u],
         UNCHANGED <<Initialized, sessions, loggedIn, inserted, cardPin, disturbed, accepted>>,
         Fit(t)'
  PROVE  CardsTyped' /\ \A u \in Signers : Fit(u)'
<1>1. CardsTyped'
  BY DEF CardsInv, CardsTyped
<1>2. ASSUME NEW u \in Signers, u # t PROVE Fit(u)'
  BY <1>2, UntouchedFits DEF CardsInv
<1> QED BY <1>1, <1>2

LEMMA PinFits ==
  ASSUME CardsInv, NEW t \in Signers, ReadPin(t) \/ PinTyped(t)
  PROVE  CardsTyped' /\ \A u \in Signers : Fit(u)'
<1>1. PICK pin \in Pins \cup {Torn, NoPin}, pc \in {"asked", "login"} :
         signer' = [signer EXCEPT ![t].pin = pin, ![t].pc = pc]
  <2>1. CASE PinTyped(t)
    BY <2>1, Zenon DEF PinTyped
  <2>2. CASE ReadPin(t)
    <3>1. PICK pin \in PinFound(t) :
             signer' = [signer EXCEPT ![t].pin = pin, ![t].pc = IF pin = NoPin THEN "asked" ELSE "login"]
      BY <2>2, Zenon DEF ReadPin
    <3>2. pin \in Pins \cup {Torn, NoPin}
      BY <3>1, FoundIsPin
    <3>3. PICK pc \in {"asked", "login"} : pc = IF pin = NoPin THEN "asked" ELSE "login"
      OBVIOUS
    <3>4. signer' = [signer EXCEPT ![t].pin = pin, ![t].pc = pc]
      BY <3>1, <3>3
    <3> QED BY <3>2, <3>4, Zenon
  <2> QED BY <2>1, <2>2
<1> DEFINE r == [pc |-> pc, cert |-> signer[t].cert, handle |-> signer[t].handle, pin |-> pin]
<1>2. r \in Hands /\ signer[t] \in Hands
  BY DEF CardsInv, CardsTyped, Hands, Steps
<1>3. [[signer[t] EXCEPT !.pin = pin] EXCEPT !.pc = pc] = r
  <2>1. PICK q : q = signer[t]
    OBVIOUS
  <2>2. q = [pc |-> q.pc, cert |-> q.cert, handle |-> q.handle, pin |-> q.pin]
    BY <1>2, <2>1 DEF Hands
  <2>3. PICK q1 : q1 = [q EXCEPT !.pin = pin]
    OBVIOUS
  <2>4. q1 = [pc |-> q.pc, cert |-> q.cert, handle |-> q.handle, pin |-> pin]
    BY <2>2, <2>3
  <2>5. [q1 EXCEPT !.pc = pc] = [pc |-> pc, cert |-> q.cert, handle |-> q.handle, pin |-> pin]
    BY <2>4
  <2> QED BY <2>1, <2>3, <2>5
<1>4. signer' = [signer EXCEPT ![t] = r]
  <2>1. PICK s : s = [signer EXCEPT ![t] = [signer[t] EXCEPT !.pin = pin]]
    OBVIOUS
  <2>2. s = [u \in Signers |-> s[u]] /\ s[t] = [signer[t] EXCEPT !.pin = pin]
        /\ \A u \in Signers \ {t} : s[u] = signer[u]
    BY <2>1 DEF CardsInv, PinsKept
  <2>3. signer' = [s EXCEPT ![t] = [s[t] EXCEPT !.pc = pc]]
    BY <1>1, <2>1
  <2>4. signer' = [s EXCEPT ![t] = r]
    BY <1>3, <2>2, <2>3
  <2> QED BY <2>2, <2>4 DEF CardsInv, PinsKept
<1>5. r.pc = pc /\ r.handle = signer[t].handle
  OBVIOUS
<1> HIDE DEF r
<1>6. signer' \in [Signers -> Hands] /\ signer'[t] = r /\ \A u \in Signers \ {t} : signer'[u] = signer[u]
  BY <1>2, <1>4, OneHand DEF CardsInv
<1>7. UNCHANGED <<Initialized, sessions, loggedIn, inserted, cardPin, disturbed, accepted>>
      /\ signer[t].pc \in {"pin", "torn", "asked"}
  BY DEF ReadPin, PinTyped
<1>8. Fit(t)'
  BY <1>1, <1>5, <1>6, <1>7 DEF CardsInv, Fit, OnTheCard, Saving
<1> QED BY <1>6, <1>7, <1>8, QuietStep

\* A wrong PIN, or one that comes too late, is the end of the signature; a right one
\* comes too late for all who wait to log in.
LEMMA LoginFits ==
  ASSUME CardsInv, NEW t \in Signers, Login(t)
  PROVE  CardsTyped' /\ \A u \in Signers : Fit(u)'
<1>1. CASE ~Succeeds(t)
  BY <1>1, ReturnFits DEF Login, CardsInv
<1>2. CASE Succeeds(t)
  <2>1. /\ Goes(t, "save") /\ loggedIn' = TRUE /\ accepted' = accepted \cup {cardPin}
        /\ disturbed' = disturbed \cup Late(t) /\ OnTheCard(t)
        /\ UNCHANGED <<Initialized, sessions, inserted, cardPin>>
    BY <1>2 DEF Login, Succeeds
  <2>2. /\ signer' \in [Signers -> Hands] /\ signer'[t].pc = "save" /\ signer'[t].handle = signer[t].handle
        /\ \A u \in Signers \ {t} : signer'[u] = signer[u]
    <3>1. "save" \in Steps
      BY DEF Steps
    <3> QED BY <2>1, <3>1, GoesOn DEF CardsInv
  <2>3. OnCard(sessions) # {} /\ OnCard(sessions') = OnCard(sessions)
    BY <2>1 DEF OnTheCard
  <2>4. CardsTyped'
    BY <2>1, <2>2, <2>3 DEF CardsInv, CardsTyped, Late
  <2>5. ASSUME NEW u \in Signers PROVE Fit(u)'
    <3>1. CASE u = t
      BY <2>1, <2>2, <2>3, <3>1 DEF Fit, OnTheCard
    <3>2. CASE u # t
      <4>1. Fit(u) /\ signer'[u] = signer[u]
        BY <2>2, <3>2 DEF CardsInv
      <4>2. u \notin disturbed' => u \notin disturbed /\ signer[u].pc \notin {"pin", "torn", "asked", "login"}
        BY <2>1, <3>2 DEF Late
      <4> QED BY <2>1, <2>3, <4>1, <4>2 DEF Fit, OnTheCard
    <3> QED BY <3>1, <3>2
  <2> QED BY <2>4, <2>5
<1> QED BY <1>1, <1>2

\* The steps in which a thread goes on with its session as it is.
Keeps(t) == SavePin(t) \/ LinkPin(t) \/ PushPin(t)

LEMMA GoFits ==
  ASSUME CardsInv, NEW t \in Signers, FindPrivate(t) \/ Keeps(t) \/ FindAgain(t) \/ Sign(t), ~Return(t)
  PROVE  CardsTyped' /\ \A u \in Signers : Fit(u)'
<1>1. PICK pc \in {"sign", "pin", "link", "push", "again", "done", "shown"} :
         /\ Goes(t, pc) /\ signer[t].pc \in Saving \cup {"found", "again", "sign"}
         /\ pc = "pin" => ~loggedIn /\ OnTheCard(t)
         /\ pc = "sign" => loggedIn /\ OnTheCard(t)
         /\ pc \in {"link", "push", "again"} => signer[t].pc \in Saving
         /\ pc = "done" => loggedIn /\ OnTheCard(t)
         /\ pc = "shown" => signer[t].pc = "sign" /\ ~(loggedIn /\ OnTheCard(t))
  <2>1. CASE FindPrivate(t)
    BY <2>1, Zenon DEF FindPrivate
  <2>2. CASE Keeps(t)
    BY <2>2 DEF Keeps, SavePin, LinkPin, PushPin, Saving
  <2>3. CASE FindAgain(t)
    BY <2>3, Zenon DEF FindAgain
  <2>4. CASE Sign(t)
    BY <2>4 DEF Sign, Signed
  <2> QED BY <2>1, <2>2, <2>3, <2>4
<1>2. UNCHANGED <<Initialized, sessions, loggedIn, inserted, cardPin, disturbed, accepted>>
  BY DEF FindPrivate, Keeps, SavePin, LinkPin, PushPin, FindAgain, Sign
<1>3. /\ signer' \in [Signers -> Hands] /\ signer'[t].pc = pc /\ signer'[t].handle = signer[t].handle
      /\ \A u \in Signers \ {t} : signer'[u] = signer[u]
  <2>1. pc \in Steps
    BY DEF Steps
  <2> QED BY <1>1, <2>1, GoesOn DEF CardsInv
<1>4. Fit(t)'
  BY <1>1, <1>2, <1>3 DEF CardsInv, Fit, OnTheCard, Saving
<1> QED BY <1>2, <1>3, <1>4, QuietStep

\* The main thread, the user and the card.
LEMMA EventFits ==
  ASSUME CardsInv, LoadKey \/ ForgetPin \/ Finalize \/ MoveCard \/ ChangePin
  PROVE  CardsTyped' /\ \A u \in Signers : Fit(u)'
<1>1. CASE LoadKey
  <2>1. PICK found : found = Lookup(Library)
    OBVIOUS
  <2>2. /\ Initialized' = TRUE /\ sessions' = found.lib.open /\ loggedIn' = found.lib.in
        /\ disturbed' = disturbed \cup Touched(found.lib) /\ UNCHANGED <<inserted, cardPin, accepted, signer>>
    BY <1>1, <2>1 DEF LoadKey, Use
  <2>3. found.lib.open \in OpenSessions /\ found.lib.in \in BOOLEAN /\ (found.lib.in => OnCard(found.lib.open) # {})
    BY <2>1, SearchFits DEF CardsInv
  <2>4. CardsTyped'
    BY <2>2, <2>3 DEF CardsInv, CardsTyped, Touched
  <2>5. ASSUME NEW u \in Signers PROVE Fit(u)'
    <3>1. Fit(u)
      BY DEF CardsInv
    <3> QED BY <2>1, <2>2, <3>1, SearchFits DEF CardsInv
  <2> QED BY <2>4, <2>5
<1>2. CASE ForgetPin
  <2>1. UNCHANGED <<Initialized, sessions, loggedIn, inserted, cardPin, disturbed, accepted>>
    BY <1>2 DEF ForgetPin
  <2>2. ASSUME NEW u \in Signers
        PROVE  /\ signer'[u] \in Hands /\ signer'[u].handle = signer[u].handle
               /\ \/ signer'[u].pc = signer[u].pc
                  \/ signer[u].pc = "pin" /\ signer'[u].pc = "torn"
                  \/ signer[u].pc = "save" /\ signer'[u].pc = "tornSave"
    <3>1. PICK q \in Hands : q = signer[u]
      BY DEF CardsInv, CardsTyped
    <3>2. CASE signer'[u] = q
      BY <3>1, <3>2
    <3>3. CASE signer'[u] # q
      <4>1. PICK pc : /\ signer'[u] = [q EXCEPT !.pc = pc]
                      /\ \/ q.pc = "pin" /\ pc = "torn"
                         \/ q.pc = "save" /\ pc = "tornSave"
        BY <1>2, <3>1, <3>3 DEF ForgetPin
      <4>2. q = [pc |-> q.pc, cert |-> q.cert, handle |-> q.handle, pin |-> q.pin]
        BY DEF Hands
      <4>3. signer'[u] = [pc |-> pc, cert |-> q.cert, handle |-> q.handle, pin |-> q.pin]
        BY <4>1, <4>2
      <4>4. signer'[u] \in Hands
        BY <4>1, <4>3 DEF Hands, Steps
      <4> QED BY <3>1, <4>1, <4>3, <4>4
    <3> QED BY <3>2, <3>3
  <2>3. signer' \in [Signers -> Hands]
    BY <1>2, <2>2 DEF ForgetPin
  <2>4. CardsTyped'
    BY <2>1, <2>3 DEF CardsInv, CardsTyped
  <2>5. ASSUME NEW u \in Signers PROVE Fit(u)'
    BY <2>1, <2>2 DEF CardsInv, Fit, OnTheCard, Saving
  <2> QED BY <2>4, <2>5
<1>3. CASE Finalize
  <2>1. CASE Initialized
    <3>1. /\ Initialized' = FALSE /\ sessions' = <<>> /\ loggedIn' = FALSE /\ disturbed' = disturbed \cup Busy
          /\ UNCHANGED <<inserted, cardPin, signer, accepted>>
      BY <1>3, <2>1 DEF Finalize
    <3>2. sessions' \in OpenSessions
      BY <3>1, NoneOpen
    <3>3. CardsTyped'
      BY <3>1, <3>2 DEF CardsInv, CardsTyped, Busy
    <3>4. ASSUME NEW u \in Signers PROVE Fit(u)'
      BY <3>1 DEF Fit, Busy
    <3> QED BY <3>3, <3>4
  <2>2. CASE ~Initialized
    <3>1. UNCHANGED <<Initialized, sessions, loggedIn, disturbed, inserted, cardPin, signer, accepted>>
      BY <1>3, <2>2 DEF Finalize
    <3> QED BY <3>1 DEF CardsInv, CardsTyped, Fit, OnTheCard
  <2> QED BY <2>1, <2>2
<1>4. CASE MoveCard
  <2>1. /\ inserted' = ~inserted /\ sessions' = [h \in DOMAIN sessions \ OnCard(sessions) |-> sessions[h]]
        /\ loggedIn' = FALSE /\ disturbed' = disturbed \cup Busy
        /\ UNCHANGED <<Initialized, cardPin, signer, accepted>>
    BY <1>4 DEF MoveCard
  <2>2. sessions' \in OpenSessions
    <3>1. PICK open : open = [h \in DOMAIN sessions \ OnCard(sessions) |-> sessions[h]]
      OBVIOUS
    <3>2. open \in OpenSessions
      BY <3>1, OpenSessionsAre DEF CardsInv, CardsTyped
    <3> QED BY <2>1, <3>1, <3>2
  <2>3. CardsTyped'
    BY <2>1, <2>2 DEF CardsInv, CardsTyped, Busy
  <2>4. ASSUME NEW u \in Signers PROVE Fit(u)'
    BY <2>1 DEF Fit, Busy
  <2> QED BY <2>3, <2>4
<1>5. CASE ChangePin
  BY <1>5 DEF ChangePin, CardsInv, CardsTyped, Fit, OnTheCard
<1> QED BY <1>1, <1>2, <1>3, <1>4, <1>5

LEMMA CardsStep ==
  ASSUME CardsInv, CardsNext
  PROVE  CardsInv'
<1>1. PinsKept'
  BY StepKeepsPins DEF CardsInv
<1>2. ASSUME NEW t \in Signers, Begin(t) PROVE CardsInv'
  BY <1>1, <1>2, BeginFits DEF CardsInv
<1>3. ASSUME NEW t \in Signers, ReadPin(t) \/ PinTyped(t) PROVE CardsInv'
  BY <1>1, <1>3, PinFits DEF CardsInv
<1>4. ASSUME NEW t \in Signers, Login(t) PROVE CardsInv'
  BY <1>1, <1>4, LoginFits DEF CardsInv
<1>5. ASSUME NEW t \in Signers, Return(t) PROVE CardsInv'
  BY <1>1, <1>5, ReturnFits DEF CardsInv
<1>6. ASSUME NEW t \in Signers, PinCancelled(t) \/ Close(t) PROVE CardsInv'
  BY <1>5, <1>6 DEF PinCancelled, Close
<1>7. ASSUME NEW t \in Signers, FindPrivate(t) \/ Keeps(t) \/ FindAgain(t) \/ Sign(t) PROVE CardsInv'
  BY <1>1, <1>5, <1>7, GoFits DEF CardsInv
<1>8. CASE LoadKey \/ ForgetPin \/ Finalize \/ MoveCard \/ ChangePin
  BY <1>1, <1>8, EventFits DEF CardsInv
<1> QED BY <1>2, <1>3, <1>4, <1>6, <1>7, <1>8 DEF CardsNext, Keeps

LEMMA CardsInvariant == CardsSpec => []CardsInv
<1>1. CardsInit => CardsInv
  <2> SUFFICES ASSUME CardsInit PROVE CardsInv
    OBVIOUS
  <2>1. PinsKept
    <3>1. ASSUME NEW t \in Signers PROVE Sound(signer[t], accepted)
      BY <3>1 DEF CardsInit, Sound, Idle, Saving
    <3>2. CacheKept
      BY DEF CardsInit, CacheKept
    <3> QED BY <3>1, <3>2 DEF CardsInit, PinsKept
  <2>2. sessions \in OpenSessions
    BY NoneOpen DEF CardsInit
  <2>3. Idle \in Hands
    BY DEF Idle, Hands, Steps
  <2>4. CardsTyped
    BY <2>2, <2>3 DEF CardsInit, CardsTyped
  <2>5. \A t \in Signers : Fit(t)
    BY DEF CardsInit, Fit, Idle
  <2> QED BY <2>1, <2>4, <2>5 DEF CardsInv
<1>2. CardsInv /\ [CardsNext]_cardVars => CardsInv'
  <2> SUFFICES ASSUME CardsInv, [CardsNext]_cardVars PROVE CardsInv'
    OBVIOUS
  <2>1. CASE UNCHANGED cardVars
    BY <2>1 DEF cardVars, CardsInv, PinsKept, CacheKept, KeptItems, CardsTyped, Fit, OnTheCard
  <2> QED BY <2>1, CardsStep
<1> QED BY <1>1, <1>2, PTL DEF CardsSpec

\* Values keep their types, no more sessions are open than the library has, and
\* nobody is logged in to a card without a session.
THEOREM CardsKeepTypes == CardsSpec => []CardsTypeOK
<1>1. CardsInv => CardsTypeOK
  <2> SUFFICES ASSUME CardsInv PROVE CardsTypeOK
    OBVIOUS
  <2>1. DOMAIN sessions \subseteq 1..MaxSessions /\ \A h \in DOMAIN sessions : sessions[h] \in ToSet(SlotList)
    BY OpenSessionsAre DEF CardsInv, CardsTyped
  <2>2. PinCacheList \in Seq([cert : Certs, pin : Pins] \cup {Freed})
        /\ NextItem \in [Signers -> Seq([cert : Certs, pin : Pins] \cup {Freed})]
    <3>1. KeptItems \subseteq [cert : Certs, pin : Pins] \cup {Freed}
      BY DEF CardsInv, CardsTyped, KeptItems
    <3>2. Seq(KeptItems) \subseteq Seq([cert : Certs, pin : Pins] \cup {Freed})
      BY <3>1, SeqMonotonic
    <3> QED BY <3>2 DEF CardsInv, PinsKept, CacheKept
  <2>3. \A t \in Signers : signer[t] \in Hands
    BY DEF CardsInv, CardsTyped
  <2> QED BY <2>1, <2>2, <2>3, Zenon DEF CardsInv, CardsTyped, CardsTypeOK, Hands
<1> QED BY <1>1, CardsInvariant, PTL

\* A thread ends a signature without one only if it was cancelled, the PIN is wrong,
\* or something else has touched its session or its login.
LEMMA WhoGivesUp ==
  ASSUME CardsInv, CardsNext, NEW t \in Signers,
         signer[t].pc # "idle", signer'[t].pc = "idle", t \notin disturbed
  PROVE  \/ signer[t].pc = "done" \/ signer[t].pc = "asked"
         \/ signer[t].pc = "login" /\ signer[t].pin # cardPin
<1>0. Fit(t) /\ signer \in [Signers -> Hands]
  BY DEF CardsInv, CardsTyped
<1>1. ASSUME NEW u \in Signers, u # t, \A w \in Signers \ {u} : signer'[w] = signer[w] PROVE FALSE
  BY <1>1
<1>2. ASSUME NEW u \in Signers, Return(u), u # t PROVE FALSE
  <2>1. \A w \in Signers \ {u} : signer'[w] = signer[w]
    BY <1>0, <1>2 DEF Return
  <2> QED BY <1>1, <1>2, <2>1
<1>3. ASSUME NEW u \in Signers, Begin(u) PROVE FALSE
  <2>1. u # t
    BY <1>3 DEF Begin
  <2>2. \E r : signer' = [signer EXCEPT ![u] = r]
    BY <1>3 DEF Begin
  <2> QED BY <1>0, <1>1, <2>1, <2>2
<1>4. ASSUME NEW u \in Signers, NEW pc \in Steps \ {"idle"}, Goes(u, pc) PROVE FALSE
  <2>1. signer'[u].pc = pc /\ \A w \in Signers \ {u} : signer'[w] = signer[w]
    BY <1>4, GoesOn DEF CardsInv
  <2> QED BY <1>1, <1>4, <2>1
<1>5. ASSUME NEW u \in Signers, ReadPin(u) \/ PinTyped(u) PROVE FALSE
  <2>1. PICK pin, pc : pc \in {"asked", "login"} /\ signer' = [signer EXCEPT ![u].pin = pin, ![u].pc = pc]
    <3>1. CASE PinTyped(u)
      BY <3>1, Zenon DEF PinTyped
    <3>2. CASE ReadPin(u)
      <4>1. PICK pin : signer' = [signer EXCEPT ![u].pin = pin,
                                                ![u].pc = IF pin = NoPin THEN "asked" ELSE "login"]
        BY <3>2, Zenon DEF ReadPin
      <4>2. PICK pc : pc = IF pin = NoPin THEN "asked" ELSE "login"
        OBVIOUS
      <4>3. signer' = [signer EXCEPT ![u].pin = pin, ![u].pc = pc] /\ pc \in {"asked", "login"}
        BY <4>1, <4>2
      <4> QED BY <4>3, Zenon
    <3> QED BY <1>5, <3>1, <3>2
  <2>2. CASE u = t
    <3>1. PICK s : s = [signer EXCEPT ![u] = [signer[u] EXCEPT !.pin = pin]]
      OBVIOUS
    <3>2. PICK q \in Hands : q = signer[u]
      BY <1>0
    <3>3. PICK q1 : q1 = [q EXCEPT !.pin = pin]
      OBVIOUS
    <3>4. q1 = [pc |-> q.pc, cert |-> q.cert, handle |-> q.handle, pin |-> pin]
      BY <3>2, <3>3 DEF Hands
    <3>5. s[u] = q1 /\ s = [w \in Signers |-> s[w]]
      BY <1>0, <3>1, <3>2, <3>3
    <3>6. signer' = [s EXCEPT ![u] = [s[u] EXCEPT !.pc = pc]]
      BY <2>1, <3>1
    <3>7. signer'[u] = [q1 EXCEPT !.pc = pc]
      BY <3>5, <3>6
    <3>8. signer'[u].pc = pc
      BY <3>4, <3>7
    <3> QED BY <2>1, <2>2, <3>8
  <2>3. CASE u # t
    <3>1. signer'[t] = signer[t]
      BY <1>0, <2>1, <2>3
    <3> QED BY <3>1
  <2> QED BY <2>2, <2>3
<1>6. ASSUME NEW u \in Signers, FindPrivate(u), ~Return(u) PROVE FALSE
  <2>1. \E pc \in {"sign", "pin"} : Goes(u, pc)
    BY <1>6, Zenon DEF FindPrivate
  <2> QED BY <1>4, <2>1 DEF Steps
<1>7. ASSUME NEW u \in Signers, Keeps(u) \/ Sign(u) \/ (FindAgain(u) /\ ~Return(u)) \/ (Login(u) /\ ~Return(u))
      PROVE  FALSE
  <2>1. \E pc \in {"link", "push", "again", "done", "shown", "sign", "save"} : Goes(u, pc)
    BY <1>7 DEF Keeps, SavePin, LinkPin, PushPin, Sign, FindAgain, Login
  <2> QED BY <1>4, <2>1 DEF Steps
<1>8. CASE ForgetPin
  <2>1. signer'[t] = signer[t] \/ \E pc \in {"torn", "tornSave"} : signer'[t] = [signer[t] EXCEPT !.pc = pc]
    BY <1>8 DEF ForgetPin
  <2>2. PICK q \in Hands : q = signer[t]
    BY <1>0
  <2>3. \A pc : [q EXCEPT !.pc = pc].pc = pc
    BY DEF Hands
  <2> QED BY <2>1, <2>2, <2>3
<1>9. CASE LoadKey \/ Finalize \/ MoveCard \/ ChangePin
  BY <1>9 DEF LoadKey, Finalize, MoveCard, ChangePin
<1>10. CASE FindPrivate(t)
  <2>1. OnTheCard(t)
    BY <1>0 DEF Fit
  <2>2. \E pc \in {"sign", "pin"} : Goes(t, pc)
    BY <1>10, <2>1, Zenon DEF FindPrivate
  <2> QED BY <1>4, <2>2 DEF Steps
<1>11. CASE Login(t)
  <2>1. OnTheCard(t) /\ signer[t].pc = "login" /\ ~loggedIn
    BY <1>0, <1>11 DEF Fit, Login
  <2>2. CASE signer[t].pin # cardPin
    BY <2>1, <2>2
  <2>3. CASE signer[t].pin = cardPin
    <3>1. Goes(t, "save")
      BY <1>11, <2>1, <2>3 DEF Login, Succeeds
    <3> QED BY <1>4, <3>1 DEF Steps
  <2> QED BY <2>2, <2>3
<1>12. CASE FindAgain(t)
  <2>1. signer[t].pc = "again"
    BY <1>12 DEF FindAgain
  <2>2. OnTheCard(t) /\ loggedIn
    BY <1>0, <2>1 DEF Fit
  <2>3. Goes(t, "sign")
    BY <1>12, <2>2 DEF FindAgain
  <2> QED BY <1>4, <2>3 DEF Steps
<1>13. CASE PinCancelled(t) \/ Close(t)
  BY <1>0, <1>13 DEF PinCancelled, Close, Fit
<1> QED
  BY <1>2, <1>3, <1>5, <1>6, <1>7, <1>8, <1>9, <1>10, <1>11, <1>12, <1>13
  DEF CardsNext, Keeps, PinCancelled, Close

\* cert_pkcs_sign(): a signature that got as far as the session, and whose PIN, if it
\* needed one, is right, is made, unless the card or the library went away, another
\* thread logged in first, or a session of a wrong slot cost it its own.
THEOREM SignsAsPromised == CardsSpec => SignsUnlessDisturbed
<1> DEFINE A == \A t \in Signers :
                  signer[t].pc # "idle" /\ signer'[t].pc = "idle" =>
                    \/ signer[t].pc = "done" \/ t \in disturbed
                    \/ signer[t].pc = "asked"
                    \/ signer[t].pc = "login" /\ signer[t].pin # cardPin
<1>1. ASSUME CardsInv, CardsNext PROVE A
  BY <1>1, WhoGivesUp
<1>2. CardsInv /\ [CardsNext]_cardVars => [A]_cardVars
  <2> HIDE DEF A
  <2> QED BY <1>1
<1> QED BY <1>2, CardsInvariant, PTL DEF CardsSpec, SignsUnlessDisturbed

\* The values of all three keep their types, side by side: of the pipe's thread, of
\* the loads of key files, of the signatures of a card.
THEOREM PartsTyped == PartsSpec => []PartsTypeOK
BY PipeTyped, FilesTyped, CardsKeepTypes, PTL DEF PartsSpec, PartsTypeOK
=============================================================================
