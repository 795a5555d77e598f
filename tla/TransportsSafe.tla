--------------------------- MODULE TransportsSafe ---------------------------
(***************************************************************************)
(* Safety of Transports, for every order of any of the transports.  The    *)
(* five invariants are not inductive: SafeInv adds what holds in the middle *)
(* of a start or a stop, and that each confirmation dialog on the main      *)
(* thread's stack serves one thread, which waits for it.                    *)
(***************************************************************************)
EXTENDS Transports, TLAPS

Labels ==
  {"none", "boot", "wait", "busy", "ask", "dialog", "call", "poll", "held", "ended"}

Agrees(t) ==
  /\ thread[t] # "none" => t \in enabled
  /\ t # "tcp" => (t \in enabled => thread[t] # "none")

\* The transports the main thread has passed run as the settings say, or do not
\* run any more; those it comes to have not been started.
Passed ==
  /\ main.at = "start" =>
       \A j \in DOMAIN Order : IF j < main.i THEN Agrees(Order[j]) ELSE thread[Order[j]] = "none"
  /\ main.at \in {"boot", "loop"} => \A t \in Transport : Agrees(t)
  /\ main.at \in {"stop", "join"} =>
       \A j \in DOMAIN Order : j < main.i => thread[Order[j]] = "none"
  /\ main.at = "gone" => \A t \in Transport : thread[t] = "none"

Quitting == main.why = "quit" => main.at \in {"stop", "join", "gone"} /\ stack = <<>>

Confirms(n) == stack[n].kind = "confirm"

Frames ==
  /\ \A n \in DOMAIN stack :
       Confirms(n) => stack[n].th \in Transport /\ thread[stack[n].th] = "dialog"
  /\ \A n, m \in DOMAIN stack : Confirms(n) /\ Confirms(m) /\ stack[n].th = stack[m].th => n = m
  /\ \A t \in Transport :
       thread[t] = "dialog" => \E n \in DOMAIN stack : Confirms(n) /\ stack[n].th = t

SafeInv == TypeOK /\ Passed /\ Quitting /\ Frames /\ ProxyOutlivesItsUsers

-----------------------------------------------------------------------------
(* The order of the transports.                                             *)

\* Order lists each transport once.
LEMMA OrderFacts ==
  /\ Len(Order) \in Nat \ {0} /\ DOMAIN Order = 1 .. Len(Order)
  /\ \A i \in DOMAIN Order : Order[i] \in Transport
  /\ \A i, j \in DOMAIN Order : Order[i] = Order[j] => i = j
<1>1. /\ Len(Order) \in Nat \ {0} /\ DOMAIN Order = 1 .. Len(Order)
  BY OrderAssumption
<1>2. \A i \in DOMAIN Order : Order[i] \in Transport
  BY DEF Transport
<1>3. AgentOrder \in Seq({AgentOrder[r] : r \in DOMAIN AgentOrder}) /\ Len(AgentOrder) = 7
  BY DEF AgentOrder
<1>4. ASSUME NEW i \in DOMAIN Order PROVE Rank(Order[i]) \in 1 .. 7
  <2>1. \E r \in DOMAIN AgentOrder : AgentOrder[r] = Order[i]
    BY OrderAssumption
  <2>2. Rank(Order[i]) \in DOMAIN AgentOrder
    BY <2>1 DEF Rank
  <2> QED BY <2>2, <1>3
<1>5. ASSUME NEW i \in DOMAIN Order, NEW j \in DOMAIN Order, Order[i] = Order[j] PROVE i = j
  <2>1. Rank(Order[i]) = Rank(Order[j])
    BY <1>5
  <2>2. ~(i < j) /\ ~(j < i)
    BY <2>1, <1>4, OrderAssumption
  <2> QED BY <2>2, <1>1
<1> QED BY <1>1, <1>2, <1>5

\* Every transport but the TCP one comes before the Bluetooth proxy, if it is
\* one that serves clients.
LEMMA ServersBeforeProxy ==
  ASSUME NEW i \in DOMAIN Order, NEW j \in DOMAIN Order,
         Order[i] = "bt", Order[j] \in Servers \ {"tcp"}
  PROVE  j < i
<1>1. AgentOrder[1] = "window" /\ AgentOrder[2] = "native" /\ AgentOrder[3] = "cygwin"
      /\ AgentOrder[4] = "pipe" /\ AgentOrder[5] = "bt" /\ AgentOrder[6] = "tcp"
      /\ AgentOrder[7] = "rdp" /\ DOMAIN AgentOrder = 1 .. 7
  BY DEF AgentOrder
<1>2. Rank("bt") = 5
  <2>1. \A r \in DOMAIN AgentOrder : AgentOrder[r] = "bt" => r = 5
    BY <1>1
  <2>2. 5 \in DOMAIN AgentOrder /\ AgentOrder[5] = "bt"
    BY <1>1
  <2> QED BY <2>1, <2>2 DEF Rank
<1>3. Rank(Order[j]) \in 1 .. 4
  <2>1. PICK r \in DOMAIN AgentOrder : AgentOrder[r] = Order[j]
    BY OrderAssumption
  <2>2. Rank(Order[j]) \in DOMAIN AgentOrder /\ AgentOrder[Rank(Order[j])] = Order[j]
    BY <2>1 DEF Rank
  <2>3. Rank(Order[j]) \notin {5, 6, 7}
    BY <2>2, <1>1 DEF Servers
  <2> QED BY <2>2, <2>3, <1>1
<1>4. ~(i < j) /\ i # j
  BY <1>2, <1>3, OrderAssumption
<1> QED BY <1>4, OrderFacts

-----------------------------------------------------------------------------
(* Steps of agents_start() and agents_stop().                               *)

\* Going on leads to the next transport, and past the last one out.
LEMMA OnwardsFacts ==
  ASSUME TypeOK
  PROVE  /\ Onwards \in [at : {"start", "boot", "loop", "stop", "join", "gone"}, i : DOMAIN Order,
                         why : {"boot", "setting", "quit"}]
         /\ Onwards.why = main.why
         /\ main.i < Len(Order) => Onwards.at = main.at /\ Onwards.i = main.i + 1
         /\ ~(main.i < Len(Order)) =>
              /\ main.i = Len(Order) /\ Onwards.i = 1
              /\ main.at = "start" => Onwards.at \in {"boot", "loop"}
              /\ main.at # "start" => Onwards.at = IF main.why = "quit" THEN "gone" ELSE "start"
<1>1. /\ main \in [at : {"start", "boot", "loop", "stop", "join", "gone"}, i : 1 .. Len(Order),
                   why : {"boot", "setting", "quit"}]
      /\ Len(Order) \in Nat \ {0} /\ DOMAIN Order = 1 .. Len(Order)
  BY OrderFacts DEF TypeOK
<1>2. CASE main.i < Len(Order)
  BY <1>1, <1>2 DEF Onwards
<1>3. ASSUME ~(main.i < Len(Order)), NEW at \in {"boot", "loop", "gone", "start"},
             Onwards = [main EXCEPT !.at = at, !.i = 1]
      PROVE  /\ Onwards \in [at : {"start", "boot", "loop", "stop", "join", "gone"},
                             i : DOMAIN Order, why : {"boot", "setting", "quit"}]
             /\ main.i = Len(Order) /\ Onwards.i = 1
             /\ Onwards.at = at /\ Onwards.why = main.why
  <2>1. 1 \in DOMAIN Order /\ main.i = Len(Order)
    BY <1>1, <1>3
  <2>2. Onwards = [[main EXCEPT !.at = at] EXCEPT !.i = 1]
    BY <1>1, <1>3
  <2> QED BY <2>1, <2>2, <1>1
<1>4. CASE ~(main.i < Len(Order)) /\ main.at = "start"
  <2>1. Onwards = [main EXCEPT !.at = IF window THEN "loop" ELSE "boot", !.i = 1]
    BY <1>4 DEF Onwards
  <2> QED BY <2>1, <1>3, <1>4
<1>5. CASE ~(main.i < Len(Order)) /\ main.at # "start"
  <2>1. Onwards = [main EXCEPT !.at = IF main.why = "quit" THEN "gone" ELSE "start", !.i = 1]
    BY <1>5 DEF Onwards
  <2> QED BY <2>1, <1>3, <1>5
<1> QED BY <1>2, <1>4, <1>5

LEMMA StartKeeps == ASSUME SafeInv, Start PROVE SafeInv'
<1> DEFINE l == IF Current = "window" THEN "boot" ELSE "wait"
<1>1. Current \in Transport /\ main.i \in DOMAIN Order /\ main.at = "start" /\ main' = Onwards
  BY OrderFacts DEF SafeInv, TypeOK, Current, Start, At
<1>2. /\ UNCHANGED <<told, window, stack, quitting, crash>>
      /\ \/ Current \notin enabled /\ UNCHANGED <<enabled, thread>>
         \/ Current \in enabled /\ thread' = [thread EXCEPT ![Current] = l] /\ UNCHANGED enabled
         \/ /\ Current \in enabled /\ UNCHANGED thread
            /\ enabled' = IF Current = "tcp" THEN enabled ELSE enabled \ {Current}
  BY DEF Start, Move
<1>3. \A t \in Transport \ {Current} :
        thread'[t] = thread[t] /\ (t \in enabled' <=> t \in enabled)
  BY <1>1, <1>2 DEF SafeInv, TypeOK
<1>4. thread[Current] = "none"
  BY <1>1, OrderFacts DEF SafeInv, Passed, Current
<1>5. /\ \A t \in Transport : t = Current => Agrees(t)'
      /\ thread'[Current] \in {"none", "boot", "wait"}
  <2>1. thread \in [Transport -> Labels] /\ l \in {"boot", "wait"}
    BY DEF SafeInv, TypeOK, Labels
  <2>2. thread'[Current] \in {"none", "boot", "wait"}
    BY <2>1, <1>1, <1>2, <1>4
  <2>3. \A t \in Transport : t = Current => Agrees(t)'
    BY <2>1, <1>1, <1>2, <1>4 DEF Agrees
  <2> QED BY <2>2, <2>3
<1>6. TypeOK'
  BY <1>1, <1>2, OnwardsFacts DEF SafeInv, TypeOK
<1>7. Passed'
  <2>1. \A t \in Transport \ {Current} : Agrees(t) => Agrees(t)'
    BY <1>3 DEF Agrees
  <2>2. \A j \in DOMAIN Order : j < main.i => Agrees(Order[j])
    BY <1>1 DEF SafeInv, Passed
  <2>3. \A j \in DOMAIN Order : j <= main.i => Agrees(Order[j])'
    BY <2>1, <2>2, <1>1, <1>5, OrderFacts DEF Current, Agrees
  <2>4. \A j \in DOMAIN Order : j > main.i => thread'[Order[j]] = "none"
    BY <1>1, <1>3, OrderFacts DEF SafeInv, Passed, Current
  <2>5. CASE main.i < Len(Order)
    BY <2>3, <2>4, <2>5, <1>1, OnwardsFacts, OrderFacts DEF SafeInv, Passed
  <2>6. CASE ~(main.i < Len(Order))
    <3>1. main'.at \in {"boot", "loop"} /\ main.i = Len(Order)
      BY <2>6, <1>1, OnwardsFacts DEF SafeInv
    <3>2. \A t \in Transport : Agrees(t)'
      BY <3>1, <2>3, OrderFacts DEF Transport
    <3> QED BY <3>1, <3>2 DEF Passed
  <2> QED BY <2>5, <2>6
<1>8. Quitting'
  BY <1>1, <1>2, OnwardsFacts DEF SafeInv, Quitting
<1>9. Frames'
  BY <1>2, <1>3, <1>4, <1>5 DEF SafeInv, Frames, Confirms
<1>10. ProxyOutlivesItsUsers'
  BY <1>3, <1>4, <1>5 DEF SafeInv, ProxyOutlivesItsUsers, Servers
<1> QED BY <1>6, <1>7, <1>8, <1>9, <1>10 DEF SafeInv

LEMMA SignalKeeps == ASSUME SafeInv, Signal PROVE SafeInv'
<1>1. Current \in Transport /\ main.i \in DOMAIN Order /\ main.at = "stop"
  BY OrderFacts DEF SafeInv, TypeOK, Current, Signal, At
<1>2. /\ UNCHANGED <<enabled, thread, window, stack, quitting, crash>>
      /\ told' \subseteq Transport
      /\ \/ thread[Current] = "none" /\ main' = Onwards
         \/ main' = [main EXCEPT !.at = "join"]
  BY <1>1 DEF Signal, SafeInv, TypeOK
<1>3. TypeOK'
  BY <1>2, OnwardsFacts DEF SafeInv, TypeOK
<1>4. Passed' /\ Quitting'
  <2>1. CASE main' = [main EXCEPT !.at = "join"]
    BY <2>1, <1>1, <1>2 DEF SafeInv, TypeOK, Passed, Quitting
  <2>2. CASE thread[Current] = "none" /\ main' = Onwards
    <3>1. \A j \in DOMAIN Order : j <= main.i => thread[Order[j]] = "none"
      BY <2>2, <1>1, OrderFacts DEF SafeInv, Passed, Current
    <3>2. CASE main.i < Len(Order)
      BY <3>1, <3>2, <2>2, <1>1, <1>2, OnwardsFacts, OrderFacts DEF SafeInv, Passed, Quitting
    <3>3. CASE ~(main.i < Len(Order))
      <4>1. main.i = Len(Order) /\ main'.i = 1 /\ main'.why = main.why
            /\ main'.at = IF main.why = "quit" THEN "gone" ELSE "start"
        BY <3>3, <2>2, <1>1, OnwardsFacts DEF SafeInv
      <4>2. \A t \in Transport : thread[t] = "none"
        BY <4>1, <3>1, OrderFacts DEF Transport
      <4> QED BY <4>1, <4>2, <1>1, <1>2, OrderFacts DEF SafeInv, Passed, Quitting
    <3> QED BY <3>2, <3>3
  <2> QED BY <2>1, <2>2, <1>2
<1>5. Frames'
  BY <1>2 DEF SafeInv, Frames, Confirms
<1>6. ProxyOutlivesItsUsers'
  BY <1>2 DEF SafeInv, ProxyOutlivesItsUsers
<1> QED BY <1>3, <1>4, <1>5, <1>6 DEF SafeInv

LEMMA JoinKeeps == ASSUME SafeInv, Join PROVE SafeInv'
<1> DEFINE next == [Onwards EXCEPT !.at = IF @ = "join" THEN "stop" ELSE @]
<1>1. Current \in Transport /\ main.i \in DOMAIN Order /\ main.at = "join"
  BY OrderFacts DEF SafeInv, TypeOK, Current, Join, At
<1>2. /\ UNCHANGED <<enabled, window, stack, quitting, crash>>
      /\ told' \subseteq Transport
      /\ thread[Current] = "ended" /\ thread' = [thread EXCEPT ![Current] = "none"]
      /\ main' = next
  BY DEF Join, Move, SafeInv, TypeOK
<1>3. /\ main' \in [at : {"start", "boot", "loop", "stop", "join", "gone"}, i : DOMAIN Order,
                    why : {"boot", "setting", "quit"}]
      /\ main'.why = main.why /\ main'.i = Onwards.i
      /\ main.i < Len(Order) => main'.at = "stop"
      /\ ~(main.i < Len(Order)) => main'.at = IF main.why = "quit" THEN "gone" ELSE "start"
  <2>1. Onwards \in [at : {"start", "boot", "loop", "stop", "join", "gone"}, i : DOMAIN Order,
                     why : {"boot", "setting", "quit"}]
    BY OnwardsFacts DEF SafeInv
  <2>2. /\ next.why = Onwards.why /\ next.i = Onwards.i
        /\ next.at = IF Onwards.at = "join" THEN "stop" ELSE Onwards.at
        /\ next \in [at : {"start", "boot", "loop", "stop", "join", "gone"}, i : DOMAIN Order,
                     why : {"boot", "setting", "quit"}]
    BY <2>1
  <2> QED BY <2>2, <1>1, <1>2, OnwardsFacts DEF SafeInv
<1>4. \A t \in Transport : thread'[t] = IF t = Current THEN "none" ELSE thread[t]
  BY <1>1, <1>2 DEF SafeInv, TypeOK
<1>5. TypeOK'
  BY <1>1, <1>2, <1>3 DEF SafeInv, TypeOK
<1>6. Passed' /\ Quitting'
  <2>1. \A j \in DOMAIN Order : j <= main.i => thread'[Order[j]] = "none"
    BY <1>1, <1>4, OrderFacts DEF SafeInv, Passed, Current
  <2>2. CASE main.i < Len(Order)
    <3>1. main'.at = "stop" /\ main'.i = main.i + 1
      BY <2>2, <1>3, OnwardsFacts DEF SafeInv
    <3> QED BY <3>1, <2>1, <1>1, <1>2, <1>3, OrderFacts DEF SafeInv, Passed, Quitting
  <2>3. CASE ~(main.i < Len(Order))
    <3>1. main.i = Len(Order) /\ main'.i = 1
      BY <2>3, <1>1, <1>3, OnwardsFacts DEF SafeInv
    <3>2. \A t \in Transport : thread'[t] = "none"
      BY <3>1, <2>1, OrderFacts DEF Transport
    <3> QED BY <3>1, <3>2, <2>3, <1>1, <1>2, <1>3, OrderFacts DEF SafeInv, Passed, Quitting
  <2> QED BY <2>2, <2>3
<1>7. Frames'
  BY <1>2, <1>4 DEF SafeInv, Frames, Confirms
<1>8. ProxyOutlivesItsUsers'
  <2>1. CASE Current = "bt"
    <3>1. \A j \in DOMAIN Order : Order[j] \in Servers \ {"tcp"} => thread[Order[j]] = "none"
      BY <2>1, <1>1, ServersBeforeProxy DEF SafeInv, Passed, Current
    <3> QED BY <3>1, <1>4 DEF ProxyOutlivesItsUsers, Servers, Transport
  <2>2. CASE Current # "bt"
    BY <2>2, <1>4 DEF SafeInv, ProxyOutlivesItsUsers, Servers
  <2> QED BY <2>1, <2>2
<1> QED BY <1>5, <1>6, <1>7, <1>8 DEF SafeInv

LEMMA CreateWindowKeeps == ASSUME SafeInv, CreateWindow PROVE SafeInv'
<1>1. /\ UNCHANGED <<enabled, thread, told, stack, quitting, crash>> /\ window' = TRUE
      /\ main' = [main EXCEPT !.at = "loop"] /\ main.at = "boot"
  BY DEF CreateWindow, At
<1>2. TypeOK'
  BY <1>1 DEF SafeInv, TypeOK
<1>3. Passed' /\ Quitting'
  BY <1>1 DEF SafeInv, TypeOK, Passed, Quitting, Agrees
<1>4. Frames' /\ ProxyOutlivesItsUsers'
  BY <1>1 DEF SafeInv, Frames, Confirms, ProxyOutlivesItsUsers
<1> QED BY <1>2, <1>3, <1>4 DEF SafeInv

-----------------------------------------------------------------------------
(* Steps of the event loops.                                                *)

\* A dialog goes on top of the stack for one thread that waited.
LEMMA ServeKeeps == ASSUME SafeInv, NEW t \in Transport, Serve(t) PROVE SafeInv'
<1>1. /\ UNCHANGED <<enabled, told, main, window, quitting, crash>>
      /\ main.at = "loop" /\ thread[t] = "ask"
      /\ thread' = [thread EXCEPT ![t] = "dialog"]
      /\ stack' = Append(stack, [kind |-> "confirm", th |-> t])
  BY DEF Serve, At, Is, Move, Frame
<1>2. TypeOK'
  BY <1>1 DEF SafeInv, TypeOK
<1>3. \A u \in Transport : thread'[u] = IF u = t THEN "dialog" ELSE thread[u]
  BY <1>1 DEF SafeInv, TypeOK
<1>4. Passed' /\ Quitting'
  BY <1>1, <1>3 DEF SafeInv, Passed, Quitting, Agrees
<1>5. Frames'
  <2>1. /\ stack \in Seq([kind : {"confirm", "setting"}, th : Transport \cup {"none"}])
        /\ Len(stack) \in Nat /\ DOMAIN stack = 1 .. Len(stack)
    BY DEF SafeInv, TypeOK
  <2>2. /\ DOMAIN stack' = 1 .. Len(stack) + 1
        /\ \A n \in DOMAIN stack : stack'[n] = stack[n]
        /\ stack'[Len(stack) + 1] = [kind |-> "confirm", th |-> t]
    BY <2>1, <1>1
  <2>3. \A n \in DOMAIN stack : Confirms(n) => stack[n].th # t
    BY <1>1 DEF SafeInv, Frames
  <2> QED BY <2>1, <2>2, <2>3, <1>3 DEF SafeInv, Frames, Confirms
<1>6. ProxyOutlivesItsUsers'
  BY <1>1, <1>3 DEF SafeInv, ProxyOutlivesItsUsers, Servers
<1> QED BY <1>2, <1>4, <1>5, <1>6 DEF SafeInv

\* The innermost loop returns.
LEMMA PopFacts ==
  ASSUME TypeOK, stack # <<>>, Pop
  PROVE  /\ stack' \in Seq([kind : {"confirm", "setting"}, th : Transport \cup {"none"}])
         /\ Len(stack) \in Nat /\ Len(stack) \in DOMAIN stack
         /\ DOMAIN stack' = DOMAIN stack \ {Len(stack)}
         /\ \A n \in DOMAIN stack' : stack'[n] = stack[n]
<1>1. /\ stack \in Seq([kind : {"confirm", "setting"}, th : Transport \cup {"none"}])
      /\ Len(stack) \in Nat \ {0} /\ DOMAIN stack = 1 .. Len(stack)
  BY DEF TypeOK
<1>2. stack' = SubSeq(stack, 1, Len(stack) - 1)
  BY DEF Pop
<1> DEFINE Frm == [kind : {"confirm", "setting"}, th : Transport \cup {"none"}]
           m == Len(stack)
<1>3. stack \in Seq(Frm) /\ m \in Nat /\ m >= 1 /\ DOMAIN stack = 1 .. m
  BY <1>1
<1> HIDE DEF Frm, m
<1>4. /\ SubSeq(stack, 1, m - 1) \in Seq(Frm)
      /\ Len(SubSeq(stack, 1, m - 1)) = m - 1
      /\ \A n \in 1 .. m - 1 : SubSeq(stack, 1, m - 1)[n] = stack[n]
  BY <1>3
<1>5. DOMAIN SubSeq(stack, 1, m - 1) = 1 .. m - 1
  BY <1>3, <1>4
<1>6. 1 .. m - 1 = DOMAIN stack \ {m} /\ m \in DOMAIN stack
  BY <1>3
<1>7. stack' = SubSeq(stack, 1, m - 1)
  BY <1>2 DEF m
<1> QED BY <1>3, <1>4, <1>5, <1>6, <1>7 DEF Frm, m

LEMMA CloseDialogKeeps == ASSUME SafeInv, CloseDialog PROVE SafeInv'
<1>1. /\ UNCHANGED <<enabled, told, main, window, quitting, crash>>
      /\ main.at = "loop" /\ stack # <<>> /\ Top.kind = "confirm" /\ Pop
      /\ thread' = [thread EXCEPT ![Top.th] = "busy"]
  BY DEF CloseDialog, At, Move
<1>2. Confirms(Len(stack)) /\ Top.th = stack[Len(stack)].th
      /\ Top.th \in Transport /\ thread[Top.th] = "dialog"
  BY <1>1, PopFacts DEF SafeInv, Frames, Confirms, Top
<1>3. \A u \in Transport : thread'[u] = IF u = Top.th THEN "busy" ELSE thread[u]
  BY <1>1 DEF SafeInv, TypeOK
<1>4. TypeOK'
  BY <1>1, <1>2, PopFacts DEF SafeInv, TypeOK
<1>5. Passed' /\ Quitting'
  BY <1>1, <1>2, <1>3 DEF SafeInv, Passed, Quitting, Agrees
<1>6. Frames'
  BY <1>1, <1>2, <1>3, PopFacts DEF SafeInv, Frames, Confirms
<1>7. ProxyOutlivesItsUsers'
  BY <1>1, <1>2, <1>3 DEF SafeInv, ProxyOutlivesItsUsers, Servers
<1> QED BY <1>4, <1>5, <1>6, <1>7 DEF SafeInv

LEMMA OpenSettingKeeps == ASSUME SafeInv, OpenSetting PROVE SafeInv'
<1>1. /\ UNCHANGED <<enabled, thread, told, main, window, quitting, crash>>
      /\ main.at = "loop"
      /\ stack' = Append(stack, [kind |-> "setting", th |-> "none"])
  BY DEF OpenSetting, At, Frame
<1>2. TypeOK'
  BY <1>1 DEF SafeInv, TypeOK
<1>3. Passed' /\ Quitting'
  BY <1>1 DEF SafeInv, Passed, Quitting, Agrees
<1>4. Frames'
  <2>1. /\ stack \in Seq([kind : {"confirm", "setting"}, th : Transport \cup {"none"}])
        /\ Len(stack) \in Nat /\ DOMAIN stack = 1 .. Len(stack)
    BY DEF SafeInv, TypeOK
  <2>2. /\ DOMAIN stack' = 1 .. Len(stack) + 1
        /\ \A n \in DOMAIN stack : stack'[n] = stack[n]
        /\ stack'[Len(stack) + 1] = [kind |-> "setting", th |-> "none"]
    BY <2>1, <1>1
  <2> QED BY <2>1, <2>2, <1>1 DEF SafeInv, Frames, Confirms
<1>5. ProxyOutlivesItsUsers'
  BY <1>1 DEF SafeInv, ProxyOutlivesItsUsers
<1> QED BY <1>2, <1>3, <1>4, <1>5 DEF SafeInv

\* What a stop begins with, wherever it begins.
LEMMA StopBegins ==
  ASSUME TypeOK, NEW why \in {"setting", "quit"}, main' = [at |-> "stop", i |-> 1, why |-> why]
  PROVE  /\ main' \in [at : {"start", "boot", "loop", "stop", "join", "gone"}, i : DOMAIN Order,
                       why : {"boot", "setting", "quit"}]
         /\ main'.at = "stop" /\ main'.why = why
         /\ \A j \in DOMAIN Order : ~(j < main'.i)
BY OrderFacts

LEMMA CloseSettingKeeps ==
  ASSUME SafeInv, NEW wanted \in SUBSET Transport, CloseSetting(wanted) PROVE SafeInv'
<1>1. /\ UNCHANGED <<thread, told, window, quitting, crash>>
      /\ stack # <<>> /\ Top.kind = "setting" /\ Pop
      /\ enabled' = wanted
      /\ main' = [at |-> "stop", i |-> 1, why |-> "setting"]
  BY DEF CloseSetting
<1>2. TypeOK'
  BY <1>1, StopBegins, PopFacts DEF SafeInv, TypeOK
<1>3. Passed' /\ Quitting'
  BY <1>1, StopBegins DEF SafeInv, Passed, Quitting
<1>4. ~Confirms(Len(stack))
  BY <1>1 DEF Confirms, Top
<1>5. Frames'
  BY <1>1, <1>4, PopFacts DEF SafeInv, Frames, Confirms
<1>6. ProxyOutlivesItsUsers'
  BY <1>1 DEF SafeInv, ProxyOutlivesItsUsers
<1> QED BY <1>2, <1>3, <1>5, <1>6 DEF SafeInv

LEMMA LeaveKeeps == ASSUME SafeInv, Leave PROVE SafeInv'
<1>1. /\ UNCHANGED <<enabled, thread, told, window, stack, quitting, crash>>
      /\ stack = <<>> /\ main' = [at |-> "stop", i |-> 1, why |-> "quit"]
  BY DEF Leave
<1>2. TypeOK'
  BY <1>1, StopBegins DEF SafeInv, TypeOK
<1>3. Passed' /\ Quitting'
  BY <1>1, StopBegins DEF SafeInv, Passed, Quitting
<1>4. Frames' /\ ProxyOutlivesItsUsers'
  BY <1>1 DEF SafeInv, Frames, Confirms, ProxyOutlivesItsUsers
<1> QED BY <1>2, <1>3, <1>4 DEF SafeInv

LEMMA QuitKeeps == ASSUME SafeInv, Quit PROVE SafeInv'
<1>1. /\ UNCHANGED <<enabled, thread, told, main, window, stack, crash>>
      /\ quitting' = TRUE
  BY DEF Quit
<1> QED
  BY <1>1 DEF SafeInv, TypeOK, Passed, Quitting, Frames, Confirms, ProxyOutlivesItsUsers, Agrees

-----------------------------------------------------------------------------
(* Steps of the threads.                                                    *)

\* What all of them have in common: a thread that exists and has no dialog
\* moves to another place of its own, and to the proxy only while there is one.
ThreadStep(t) ==
  /\ ThreadOnly
  /\ crash' \in {"no", "nowindow", "dangling"}
  /\ thread[t] \notin {"none", "dialog"}
  /\ \/ UNCHANGED thread
     \/ \E l \in Labels \ {"none", "dialog"} :
          /\ thread' = [thread EXCEPT ![t] = l]
          /\ l = "call" => thread["bt"] # "none"

LEMMA ThreadSteps ==
  ASSUME SafeInv, NEW t \in Transport,
         Show(t) \/ Take(t) \/ Work(t) \/ Hold(t) \/ Release(t) \/ End(t)
  PROVE  ThreadStep(t)
<1>1. crash \in {"no", "nowindow", "dangling"}
  BY DEF SafeInv, TypeOK
<1>2. CASE Show(t) \/ Take(t) \/ Hold(t) \/ Release(t) \/ End(t)
  BY <1>1, <1>2 DEF Show, Take, Hold, Release, End, Is, Move, ThreadStep, Labels
<1>3. CASE Finish(t) \/ Connect(t) \/ Polled(t)
  BY <1>1, <1>3 DEF Finish, Connect, Polled, Is, Move, ThreadStep, Labels
<1>4. CASE Ask(t) \/ Call(t)
  BY <1>1, <1>4 DEF Ask, Call, Is, Move, ThreadStep, Labels
<1> QED BY <1>2, <1>3, <1>4 DEF Work

LEMMA ThreadKeeps == ASSUME SafeInv, NEW t \in Transport, ThreadStep(t) PROVE SafeInv'
<1>1. UNCHANGED <<enabled, told, main, window, stack, quitting>>
  BY DEF ThreadStep, ThreadOnly
<1>2. thread \in [Transport -> Labels]
  BY DEF SafeInv, TypeOK, Labels
<1>3. PICK l \in Labels :
        /\ \A u \in Transport : thread'[u] = IF u = t THEN l ELSE thread[u]
        /\ thread' \in [Transport -> Labels]
        /\ l \notin {"none", "dialog"} /\ thread[t] \notin {"none", "dialog"}
        /\ l = "call" /\ thread[t] # "call" => thread["bt"] # "none"
  <2>1. CASE UNCHANGED thread
    BY <2>1, <1>2 DEF ThreadStep
  <2>2. ASSUME NEW l \in Labels \ {"none", "dialog"}, thread' = [thread EXCEPT ![t] = l],
               l = "call" => thread["bt"] # "none"
        PROVE  \A u \in Transport : thread'[u] = IF u = t THEN l ELSE thread[u]
    BY <2>2, <1>2
  <2> QED BY <2>1, <2>2, <1>2 DEF ThreadStep
<1>4. TypeOK'
  BY <1>1, <1>3 DEF SafeInv, TypeOK, Labels, ThreadStep
<1>5. Passed' /\ Quitting'
  BY <1>1, <1>3, OrderFacts DEF SafeInv, Passed, Quitting, Agrees
<1>6. Frames'
  BY <1>1, <1>3 DEF SafeInv, Frames, Confirms
<1>7. ProxyOutlivesItsUsers'
  BY <1>3 DEF SafeInv, ProxyOutlivesItsUsers, Servers
<1> QED BY <1>4, <1>5, <1>6, <1>7 DEF SafeInv

-----------------------------------------------------------------------------

LEMMA InitSafe == Init => SafeInv
<1> SUFFICES ASSUME Init PROVE SafeInv
  OBVIOUS
<1>1. TypeOK
  <2>1. main \in [at : {"start", "boot", "loop", "stop", "join", "gone"}, i : DOMAIN Order,
                  why : {"boot", "setting", "quit"}]
    BY OrderFacts DEF Init
  <2>2. \A S : stack \in Seq(S)
    BY DEF Init
  <2>3. enabled \subseteq Transport /\ told \subseteq Transport
    BY DEF Init
  <2> QED BY <2>1, <2>2, <2>3 DEF Init, TypeOK
<1> QED
  BY <1>1, OrderFacts
  DEF Init, SafeInv, Passed, Quitting, Frames, Confirms, ProxyOutlivesItsUsers, Servers

LEMMA NextKeeps == ASSUME SafeInv, [Next]_vars PROVE SafeInv'
<1>1. CASE Busy
  BY <1>1, StartKeeps, CreateWindowKeeps, SignalKeeps, JoinKeeps DEF Busy
<1>2. CASE User
  BY <1>2, CloseDialogKeeps, OpenSettingKeeps, QuitKeeps, CloseSettingKeeps DEF User
<1>3. CASE Leave
  BY <1>3, LeaveKeeps
<1>4. ASSUME NEW t \in Transport, Serve(t) PROVE SafeInv'
  BY <1>4, ServeKeeps
<1>5. ASSUME NEW t \in Transport,
             Show(t) \/ Take(t) \/ Work(t) \/ Hold(t) \/ Release(t) \/ End(t)
      PROVE  SafeInv'
  BY <1>5, ThreadSteps, ThreadKeeps
<1>6. CASE UNCHANGED vars
  BY <1>6 DEF vars, SafeInv, TypeOK, Passed, Quitting, Frames, Confirms, ProxyOutlivesItsUsers,
              Agrees
<1> QED BY <1>1, <1>2, <1>3, <1>4, <1>5, <1>6 DEF Next

\* SafeInv is inductive.
THEOREM Safe == Spec => []SafeInv
BY InitSafe, NextKeeps, PTL DEF Spec

-----------------------------------------------------------------------------
(* The invariants of the run.                                               *)

\* agents_start(), agents_stop(): the main thread is always at a transport of
\* the build, and every thread in one of its places.
THEOREM TypeCorrect == Spec => []TypeOK
BY Safe, PTL DEF SafeInv

\* agents_start(): whenever the user can look, the settings name the transports
\* that run, for any transports, failures and nest of dialogs.
THEOREM SettingsRight == Spec => []SettingsTellWhatRuns
<1>1. SafeInv => SettingsTellWhatRuns
  BY DEF SafeInv, Passed, Agrees, SettingsTellWhatRuns
<1> QED BY <1>1, Safe, PTL

\* bta_exit(): the Bluetooth proxy is not deleted while a request of a
\* transport other than the TCP one is about to use it.
THEOREM ProxySafe == Spec => []ProxyOutlivesItsUsers
BY Safe, PTL DEF SafeInv

\* main(): no server thread runs when the store and the settings are gone.
THEOREM NothingLeft == Spec => []NothingRunsAfterTheEnd
<1>1. SafeInv => NothingRunsAfterTheEnd
  BY DEF SafeInv, Passed, NothingRunsAfterTheEnd
<1> QED BY <1>1, Safe, PTL

\* main(): the last agents_stop() finds no dialog on screen and no thread that
\* waits for one.
THEOREM QuitClean == Spec => []QuitAnswersDialogs
<1>1. SafeInv => QuitAnswersDialogs
  BY DEF SafeInv, Quitting, Frames, QuitAnswersDialogs
<1> QED BY <1>1, Safe, PTL
=============================================================================
