----------------------------- MODULE AgentTypes -----------------------------
(***************************************************************************)
(* Type correctness of Agent.  TypeOK is not inductive by itself: what     *)
(* Push appends to the store is a key only because every path to           *)
(* keystore_add() has parsed one, AfterAccept is defined only for the      *)
(* requests that ask for consent: InHand says so.  And a dialog answers a  *)
(* server thread that waits for it, which is what Waiting says.            *)
(***************************************************************************)
EXTENDS StoreLemmas

\* Inside accept_agent_request().
AcceptLabels == {"stored", "policy", "ask", "dialog", "asked"}

InHand ==
  /\ \A t \in Threads :
       /\ pc[t] \notin {"register", "forget", "load", "probe", "failed"}
       /\ pc[t] \in AcceptLabels => /\ req[t] \in Request /\ req[t].op \in ConfirmOps
                                    /\ (req[t].op = "add" => key[t] \in Key)
       /\ (pc[t] = "removeall" => req[t].op = "removeall")
  /\ \A a \in Actors : pc[a] \in {"exist", "add", "push"} => key[a] \in Key
  /\ pc[Main] \in {"probe", "failed", "add", "push", "search", "erase"}
       => req[Main] \in Request

\* A dialog on the stack serves one thread, which waits for it alone.
Waiting ==
  \A n \in DOMAIN stack : stack[n].kind = "confirm" =>
     /\ stack[n].th \in Threads /\ pc[stack[n].th] = "dialog"
     /\ \A m \in DOMAIN stack :
          stack[m].kind = "confirm" /\ stack[m].th = stack[n].th => m = n

TypeInv == TypeOK /\ InHand /\ Waiting

-----------------------------------------------------------------------------

\* ckey: the key an ADD carries.
LEMMA KeyOfType ==
  ASSUME TypeSettings, NEW r \in Request
  PROVE  KeyOf(r) \in Key
  BY DEF TypeSettings, Request, KeyOf, Key

\* The main thread's own calls carry well formed keys.
LEMMA GuiRequestType ==
  ASSUME NEW op \in {"add", "remove"}, NEW i \in Ids
  PROVE  GuiRequest(op, i) \in Request
  BY DEF GuiRequest, Request, ConfirmOps

\* An actor moves from one place to another.
LEMMA GotoLabel ==
  ASSUME pc \in [Actors -> Labels], NEW a \in Actors, NEW l \in Labels, Goto(a, l)
  PROVE  pc' \in [Actors -> Labels]
  BY DEF Goto

\* exec() returns: the innermost loop is gone, the others are untouched.
LEMMA PopProperties ==
  ASSUME stack \in Seq(Frames), stack # <<>>
  PROVE  /\ Pop \in Seq(Frames) /\ Len(stack) \in Nat \ {0} /\ stack[Len(stack)] \in Frames
         /\ Len(Pop) = Len(stack) - 1
         /\ \A k \in 1..Len(stack) - 1 : Pop[k] = stack[k]
<1> DEFINE n == Len(stack) - 1
<1>1. Len(stack) \in Nat /\ Len(stack) # 0 /\ n \in Nat /\ stack[Len(stack)] \in Frames
  BY EmptySeq
<1>2. \A k \in 1..n : stack[k] \in Frames
  BY <1>1
<1>3. /\ Pop \in Seq(Frames)
      /\ Len(Pop) = IF 1 <= n THEN n - 1 + 1 ELSE 0
      /\ \A k \in 1..n - 1 + 1 : Pop[k] = stack[1 + k - 1]
  <2>1. 1 \in Int /\ n \in Int
    BY <1>1
  <2> QED
    BY <1>2, <2>1, SubSeqProperties DEF Pop
<1> HIDE DEF n
<1>4. Len(Pop) = n
  BY <1>1, <1>3
<1>5. \A k \in 1..n : Pop[k] = stack[k]
  BY <1>1, <1>3
<1> QED
  BY <1>1, <1>3, <1>4, <1>5 DEF n

\* A process that is gone leaves nothing behind but the settings.
LEMMA DieTypes ==
  ASSUME TypeInv, NEW why \in Statuses, Die(why)
  PROVE  TypeInv'
<1> USE DEF Die
<1>1. TypeStore'
  BY EmptySeq DEF TypeStore
<1>2. TypeSettings'
  BY DEF TypeInv, TypeOK, TypeSettings, settingVars
<1>3. TypePlaces'
  BY DEF TypePlaces, Labels
<1>4. TypeHands'
  BY DEF TypeHands
<1>5. TypeVerdicts'
  <2>1. NoAnswer \in Answers
    BY DEF NoAnswer, Answers
  <2> QED
    BY <2>1 DEF TypeVerdicts, Outcomes, Decisions
<1>6. TypeStack'
  BY EmptySeq DEF TypeStack
<1>7. InHand'
  BY DEF InHand, AcceptLabels, Actors
<1>8. Waiting'
  BY DEF Waiting
<1> QED
  BY <1>1, <1>2, <1>3, <1>4, <1>5, <1>6, <1>7, <1>8 DEF TypeInv, TypeOK

-----------------------------------------------------------------------------
(* One lemma per action.                                                    *)

\* A request is taken in hand, with the key of an ADD.
LEMMA ReceiveTypes ==
  ASSUME TypeInv, NEW t \in Threads, NEW r \in Requests, Receive(t, r)
  PROVE  TypeInv'
<1> USE DEF TypeInv, Receive, Running,
           storeVars, settingVars, acceptVars, threadVars, guiVars, ghostVars
<1>1. TypeStore' /\ TypeSettings' /\ TypeStack'
  BY DEF TypeOK, TypeStore, TypeSettings, TypeStack, storeVars, guiVars, settingVars, ghostVars
<1>2. TypePlaces'
  BY GotoLabel DEF TypeOK, TypePlaces, Actors, Labels, Answer
<1>3. TypeHands'
  <2>1. r \in Request
    BY ConstantsAssumption
  <2>2. r.op = "add" => KeyOf(r) \in Key
    BY <2>1, KeyOfType DEF TypeOK
  <2> QED
    BY <2>1, <2>2 DEF TypeOK, TypeHands, Actors
<1>4. TypeVerdicts'
  BY DEF TypeOK, TypeVerdicts, Answer, Outcomes
<1>5. InHand'
  <2>1. r \in Request
    BY ConstantsAssumption
  <2>2. r.op = "add" => KeyOf(r) \in Key
    BY <2>1, KeyOfType DEF TypeOK
  <2>3. pc'[t] \in {"reply", "stored", "list", "removeall"}
    BY DEF TypeOK, TypePlaces, Goto, Answer, Actors
  <2>4. /\ pc'[t] = "stored" => r.op \in ConfirmOps /\ (r.op = "add" => key'[t] \in Key)
        /\ pc'[t] = "removeall" => r.op = "removeall"
    BY <2>2 DEF TypeOK, TypePlaces, TypeHands, Goto, Answer, Actors, ConfirmOps
  <2>5. req'[t] = r /\ \A a \in Actors \ {t} : req'[a] = req[a] /\ key'[a] = key[a] /\ pc'[a] = pc[a]
    BY DEF TypeOK, TypePlaces, TypeHands, Goto, Answer, Actors
  <2> QED
    BY <2>1, <2>3, <2>4, <2>5 DEF InHand, AcceptLabels, Actors
<1>6. Waiting'
  BY ConstantsAssumption DEF Waiting, TypeOK, TypePlaces, Actors, Goto, Answer
<1> QED
  BY <1>1, <1>2, <1>3, <1>4, <1>5, <1>6 DEF TypeOK

\* accept_agent_request() reads the record.
LEMMA ReadDecisionTypes ==
  ASSUME TypeInv, NEW t \in Threads, ReadDecision(t)
  PROVE  TypeInv'
<1> USE DEF TypeInv, ReadDecision, Running,
           storeVars, settingVars, acceptVars, threadVars, guiVars, ghostVars
<1>1. TypeStore' /\ TypeSettings' /\ TypeHands' /\ TypeStack'
  BY DEF TypeOK, TypeStore, TypeSettings, TypeHands, TypeStack, storeVars, guiVars, settingVars, ghostVars, threadVars
<1>2. TypePlaces'
  BY GotoLabel DEF TypeOK, TypePlaces, Actors, Labels, Answer
<1>3. TypeVerdicts'
  <2>1. StoredDecision(Subject(t)) \in Decisions
    BY ConstantsAssumption DEF TypeOK, TypeSettings, InHand, AcceptLabels, Subject, StoredDecision, Request
  <2> QED
    BY <2>1 DEF TypeOK, TypeVerdicts, Answer, Outcomes
<1>4. InHand'
  BY DEF TypeOK, TypePlaces, TypeHands, InHand, AcceptLabels, Goto, Answer, Actors
<1>5. Waiting'
  BY ConstantsAssumption DEF Waiting, TypeOK, TypePlaces, Actors, Goto, Answer
<1> QED
  BY <1>1, <1>2, <1>3, <1>4, <1>5 DEF TypeOK

\* ... and whether confirmation is required.
LEMMA ReadPolicyTypes ==
  ASSUME TypeInv, NEW t \in Threads, ReadPolicy(t)
  PROVE  TypeInv'
<1> USE DEF TypeInv, ReadPolicy, Running,
           storeVars, settingVars, acceptVars, threadVars, guiVars, ghostVars
<1>1. TypeStore' /\ TypeSettings' /\ TypeHands' /\ TypeStack'
  BY DEF TypeOK, TypeStore, TypeSettings, TypeHands, TypeStack, storeVars, guiVars, settingVars, ghostVars, threadVars
<1>2. TypePlaces'
  <2>1. AfterAccept(t) \in Labels
    BY DEF InHand, AcceptLabels, AfterAccept, ConfirmOps, Labels
  <2> QED
    BY <2>1, GotoLabel DEF TypeOK, TypePlaces, Actors, Labels
<1>3. TypeVerdicts'
  <2>1. (confirmAny \/ (req[t].op = "add" /\ key[t].confirm)) \in BOOLEAN
    OBVIOUS
  <2> QED
    BY <2>1 DEF TypeOK, TypeVerdicts
<1>4. InHand'
  <2>1. pc'[t] \in {"ask", "get", "exist", "search"} /\ (pc'[t] = "exist" => key[t] \in Key)
    BY DEF TypeOK, TypePlaces, InHand, AcceptLabels, AfterAccept, ConfirmOps, Goto, Actors
  <2>2. \A a \in Actors \ {t} : pc'[a] = pc[a]
    BY DEF TypeOK, TypePlaces, Goto, Actors
  <2> QED
    BY <2>1, <2>2 DEF InHand, AcceptLabels, Actors
<1>5. Waiting'
  BY ConstantsAssumption DEF Waiting, TypeOK, TypePlaces, Actors, Goto
<1> QED
  BY <1>1, <1>2, <1>3, <1>4, <1>5 DEF TypeOK

\* The answer of the dialog is remembered and acted upon.
LEMMA DecideTypes ==
  ASSUME TypeInv, NEW t \in Threads, Decide(t)
  PROVE  TypeInv'
<1> USE DEF TypeInv, Decide, Running,
           storeVars, settingVars, acceptVars, threadVars, guiVars, ghostVars
<1>1. TypeStore' /\ TypeHands' /\ TypeStack'
  BY DEF TypeOK, TypeStore, TypeHands, TypeStack, storeVars, guiVars, threadVars
<1>2. TypeSettings'
  <2>1. Subject(t) \in ConfirmOps \X Ids
    BY DEF TypeOK, InHand, AcceptLabels, Subject, Request
  <2> QED
    BY <2>1 DEF TypeOK, TypeSettings, Decisions
<1>3. TypePlaces'
  <2>1. AfterAccept(t) \in Labels
    BY DEF InHand, AcceptLabels, AfterAccept, ConfirmOps, Labels
  <2> QED
    BY <2>1, GotoLabel DEF TypeOK, TypePlaces, Actors, Labels, Answer
<1>4. TypeVerdicts'
  BY DEF TypeOK, TypeVerdicts, Answer, Outcomes
<1>5. InHand'
  <2>1. pc'[t] \in {"reply", "get", "exist", "search"} /\ (pc'[t] = "exist" => key[t] \in Key)
    BY DEF TypeOK, TypePlaces, InHand, AcceptLabels, AfterAccept, ConfirmOps, Goto, Answer, Actors
  <2>2. \A a \in Actors \ {t} : pc'[a] = pc[a]
    BY DEF TypeOK, TypePlaces, Goto, Answer, Actors
  <2> QED
    BY <2>1, <2>2 DEF InHand, AcceptLabels, Actors
<1>6. Waiting'
  BY ConstantsAssumption DEF Waiting, TypeOK, TypePlaces, Actors, Goto, Answer
<1> QED
  BY <1>1, <1>2, <1>3, <1>4, <1>5, <1>6 DEF TypeOK

\* A listing sweeps the store.
LEMMA ListTypes ==
  ASSUME TypeInv, NEW t \in Threads, List(t)
  PROVE  TypeInv'
<1> USE DEF TypeInv, List, Running,
           storeVars, settingVars, acceptVars, threadVars, guiVars, ghostVars
<1>1. TypeSettings' /\ TypeHands' /\ TypeStack'
  BY DEF TypeOK, TypeSettings, TypeHands, TypeStack, settingVars, guiVars, ghostVars, threadVars
<1>2. TypeStore'
  BY LiveProperties DEF TypeOK, TypeStore
<1>3. TypePlaces'
  BY GotoLabel DEF TypeOK, TypePlaces, Actors, Labels, Answer
<1>4. TypeVerdicts'
  BY DEF TypeOK, TypeVerdicts, Answer, Outcomes
<1>5. InHand'
  BY ConstantsAssumption DEF TypeOK, TypePlaces, InHand, AcceptLabels, Goto, Answer, Actors
<1>6. Waiting'
  BY ConstantsAssumption DEF Waiting, TypeOK, TypePlaces, Actors, Goto, Answer
<1> QED
  BY <1>1, <1>2, <1>3, <1>4, <1>5, <1>6 DEF TypeOK

\* A key is copied out of the store.
LEMMA CopyTypes ==
  ASSUME TypeInv, NEW t \in Threads, Copy(t)
  PROVE  TypeInv'
<1> USE DEF TypeInv, Copy, Running,
           storeVars, settingVars, acceptVars, threadVars, guiVars, ghostVars
<1>1. TypeStore' /\ TypeSettings' /\ TypeVerdicts' /\ TypeStack'
  BY DEF TypeOK, TypeStore, TypeSettings, TypeVerdicts, TypeStack, storeVars, guiVars, settingVars, ghostVars, acceptVars, threadVars
<1>2. TypePlaces'
  BY GotoLabel DEF TypeOK, TypePlaces, Actors, Labels, Answer
<1>3. TypeHands'
  <2>1. index[t] = 0 \/ ssh2keys[index[t]] \in Key
    BY DEF TypeOK, TypeStore, TypePlaces, Actors
  <2> QED
    BY <2>1 DEF TypeOK, TypeHands, Actors
<1>4. InHand'
  <2>1. pc'[t] = "sign" /\ \A a \in Actors \ {t} : pc'[a] = pc[a] /\ key'[a] = key[a]
    BY DEF TypeOK, TypePlaces, TypeHands, Goto, Actors
  <2> QED
    BY <2>1 DEF InHand, AcceptLabels, Actors
<1>5. Waiting'
  BY ConstantsAssumption DEF Waiting, TypeOK, TypePlaces, Actors, Goto
<1> QED
  BY <1>1, <1>2, <1>3, <1>4, <1>5 DEF TypeOK

\* The request is signed, or the remote party fails.
LEMMA SignTypes ==
  ASSUME TypeInv, NEW t \in Threads, Sign(t)
  PROVE  TypeInv'
<1> USE DEF TypeInv, Sign, Running,
           storeVars, settingVars, acceptVars, threadVars, guiVars, ghostVars
<1>1. TypeStore' /\ TypeSettings' /\ TypeHands' /\ TypeStack'
  BY DEF TypeOK, TypeStore, TypeSettings, TypeHands, TypeStack, storeVars, guiVars, settingVars, ghostVars, threadVars
<1>2. TypePlaces'
  BY GotoLabel DEF TypeOK, TypePlaces, Actors, Labels, Answer
<1>3. TypeVerdicts'
  BY DEF TypeOK, TypeVerdicts, Answer, Outcomes
<1>4. InHand'
  BY ConstantsAssumption DEF TypeOK, TypePlaces, InHand, AcceptLabels, Goto, Answer, Actors
<1>5. Waiting'
  BY ConstantsAssumption DEF Waiting, TypeOK, TypePlaces, Actors, Goto, Answer
<1> QED
  BY <1>1, <1>2, <1>3, <1>4, <1>5 DEF TypeOK

\* The handler looks for the key.
LEMMA ExistTypes ==
  ASSUME TypeInv, NEW t \in Threads, Exist(t)
  PROVE  TypeInv'
<1> USE DEF TypeInv, Exist, Running,
           storeVars, settingVars, acceptVars, threadVars, guiVars, ghostVars
<1>1. TypeStore' /\ TypeSettings' /\ TypeHands' /\ TypeStack'
  BY DEF TypeOK, TypeStore, TypeSettings, TypeHands, TypeStack, storeVars, guiVars, settingVars, ghostVars, threadVars
<1>2. TypePlaces'
  BY GotoLabel DEF TypeOK, TypePlaces, Actors, Labels, Answer
<1>3. TypeVerdicts'
  BY DEF TypeOK, TypeVerdicts, Answer, Outcomes
<1>4. InHand'
  BY ConstantsAssumption DEF TypeOK, TypePlaces, InHand, AcceptLabels, Goto, Answer, Actors
<1>5. Waiting'
  BY ConstantsAssumption DEF Waiting, TypeOK, TypePlaces, Actors, Goto, Answer
<1> QED
  BY <1>1, <1>2, <1>3, <1>4, <1>5 DEF TypeOK

\* The store is emptied for a client.
LEMMA RemoveAllTypes ==
  ASSUME TypeInv, NEW t \in Threads, RemoveAll(t)
  PROVE  TypeInv'
<1> USE DEF TypeInv, RemoveAll, Running,
           storeVars, settingVars, acceptVars, threadVars, guiVars, ghostVars
<1>1. TypeSettings' /\ TypeHands' /\ TypeStack'
  BY DEF TypeOK, TypeSettings, TypeHands, TypeStack, settingVars, guiVars, ghostVars, threadVars
<1>2. TypeStore'
  BY EmptySeq DEF TypeOK, TypeStore, CallListeners
<1>3. TypePlaces'
  BY GotoLabel DEF TypeOK, TypePlaces, Actors, Labels, Answer
<1>4. TypeVerdicts'
  BY DEF TypeOK, TypeVerdicts, Answer, Outcomes
<1>5. InHand'
  BY ConstantsAssumption DEF TypeOK, TypePlaces, InHand, AcceptLabels, Goto, Answer, Actors
<1>6. Waiting'
  BY ConstantsAssumption DEF Waiting, TypeOK, TypePlaces, Actors, Goto, Answer
<1> QED
  BY <1>1, <1>2, <1>3, <1>4, <1>5, <1>6 DEF TypeOK

\* The reply is sent.
LEMMA ReplyTypes ==
  ASSUME TypeInv, NEW t \in Threads, Reply(t)
  PROVE  TypeInv'
<1> USE DEF TypeInv, Reply, Running,
           storeVars, settingVars, acceptVars, threadVars, guiVars, ghostVars
<1>1. TypeStore' /\ TypeSettings' /\ TypeStack'
  BY DEF TypeOK, TypeStore, TypeSettings, TypeStack, storeVars, guiVars, settingVars, ghostVars
<1>2. TypePlaces'
  BY GotoLabel DEF TypeOK, TypePlaces, Actors, Labels, Answer
<1>3. TypeHands'
  BY DEF TypeOK, TypeHands, Actors
<1>4. TypeVerdicts'
  <2>1. NoAnswer \in Answers
    BY DEF NoAnswer, Answers
  <2> QED
    BY <2>1 DEF TypeOK, TypeVerdicts, Decisions, Outcomes
<1>5. InHand'
  <2>1. pc'[t] = "idle" /\ \A a \in Actors \ {t} : pc'[a] = pc[a] /\ key'[a] = key[a] /\ req'[a] = req[a]
    BY DEF TypeOK, TypePlaces, TypeHands, Goto, Actors
  <2> QED
    BY <2>1 DEF InHand, AcceptLabels, Actors
<1>6. Waiting'
  BY ConstantsAssumption DEF Waiting, TypeOK, TypePlaces, Actors, Goto
<1> QED
  BY <1>1, <1>2, <1>3, <1>4, <1>5, <1>6 DEF TypeOK

\* The main thread opens the dialog a thread waits for.
LEMMA OpenDialogTypes ==
  ASSUME TypeInv, NEW t \in Threads, OpenDialog(t)
  PROVE  TypeInv'
<1> USE DEF TypeInv, OpenDialog, MainLoop, Running,
           storeVars, settingVars, acceptVars, threadVars, guiVars, ghostVars
<1>1. TypeStore' /\ TypeSettings' /\ TypeHands' /\ TypeVerdicts'
  BY DEF TypeOK, TypeStore, TypeSettings, TypeHands, TypeVerdicts, storeVars, guiVars, settingVars, ghostVars, threadVars, acceptVars
<1>2. TypePlaces'
  BY GotoLabel DEF TypeOK, TypePlaces, Actors, Labels, Answer
<1>3. TypeStack'
  <2>1. Frame("confirm", t, NoReq) \in Frames
    BY DEF Frame, Frames, Actors
  <2> QED
    BY <2>1, AppendProperties DEF TypeOK, TypeStack
<1>4. InHand'
  BY ConstantsAssumption DEF TypeOK, TypePlaces, InHand, AcceptLabels, Goto, Answer, Actors
<1>5. Waiting'
  <2>1. stack' \in Seq(Frames) /\ Len(stack') = Len(stack) + 1 /\ Len(stack) \in Nat
    BY AppendProperties DEF TypeOK, TypeStack, Frame, Frames, Actors
  <2>2. \A n \in 1..Len(stack) : stack'[n] = stack[n]
    BY AppendProperties DEF TypeOK, TypeStack, Frame, Frames, Actors
  <2>3. stack'[Len(stack) + 1] = Frame("confirm", t, NoReq)
    BY AppendProperties DEF TypeOK, TypeStack, Frame, Frames, Actors
  <2>4. pc[t] = "ask" /\ pc' = [pc EXCEPT ![t] = "dialog"] /\ pc'[t] = "dialog"
    BY ConstantsAssumption DEF TypeOK, TypePlaces, Goto, Actors
  <2>5. \A n \in 1..Len(stack) : stack[n].kind = "confirm" =>
           pc'[stack[n].th] = "dialog" /\ stack[n].th # t
    BY <2>4 DEF Waiting, TypeOK, TypePlaces, TypeStack, Actors
  <2>6. /\ \A n \in DOMAIN stack' : n \in 1..Len(stack) \/ n = Len(stack) + 1
        /\ DOMAIN stack = 1..Len(stack)
    BY <2>1 DEF TypeOK, TypeStack
  <2>7. \A n \in 1..Len(stack) : stack[n].kind = "confirm" =>
          /\ stack[n].th \in Threads
          /\ \A m \in 1..Len(stack) :
               stack[m].kind = "confirm" /\ stack[m].th = stack[n].th => m = n
    BY <2>6 DEF Waiting
  <2> QED
    BY ONLY <2>2, <2>3, <2>4, <2>5, <2>6, <2>7 DEF Waiting, Frame
<1> QED
  BY <1>1, <1>2, <1>3, <1>4, <1>5 DEF TypeOK

\* The dialog returns to the thread that waits for it.
LEMMA CloseDialogTypes ==
  ASSUME TypeInv, NEW t \in Threads, CloseDialog(t)
  PROVE  TypeInv'
<1> USE DEF TypeInv, CloseDialog, MainLoop, Running, TopIs,
           storeVars, settingVars, acceptVars, threadVars, guiVars, ghostVars
<1>1. TypeStore' /\ TypeSettings' /\ TypeHands'
  BY DEF TypeOK, TypeStore, TypeSettings, TypeHands, storeVars, guiVars, settingVars, ghostVars, threadVars
<1>2. TypePlaces'
  BY GotoLabel DEF TypeOK, TypePlaces, Actors, Labels, Answer
<1>3. TypeVerdicts'
  <2>1. Top \in Frames
    BY PopProperties DEF TypeOK, TypeStack, Top
  <2>2. [result |-> Top.result, remember |-> Top.remember] \in Answers
    BY <2>1 DEF Frames, Answers
  <2> QED
    BY <2>2 DEF TypeOK, TypeVerdicts
<1>4. TypeStack'
  BY PopProperties DEF TypeOK, TypeStack
<1>5. InHand'
  <2>1. pc[t] = "dialog"
    BY PopProperties DEF Waiting, TypeOK, TypeStack, Top
  <2> QED
    BY <2>1 DEF TypeOK, TypePlaces, InHand, AcceptLabels, Goto, Actors
<1>6. Waiting'
  <2>1. /\ DOMAIN stack = 1..Len(stack) /\ DOMAIN stack' = 1..Len(stack)-1
        /\ Len(stack) \in Nat \ {0} /\ \A n \in DOMAIN stack' : stack'[n] = stack[n]
    BY PopProperties DEF TypeOK, TypeStack
  <2>2. \A n \in DOMAIN stack' : n \in DOMAIN stack /\ n # Len(stack) /\ Len(stack) \in DOMAIN stack
    BY <2>1
  <2>3. /\ stack[Len(stack)].kind = "confirm" /\ stack[Len(stack)].th = t
        /\ \A b \in Threads \ {t} : pc'[b] = pc[b]
    BY DEF TypeOK, TypePlaces, Goto, Actors, Top
  <2> QED
    BY <2>1, <2>2, <2>3 DEF Waiting
<1> QED
  BY <1>1, <1>2, <1>3, <1>4, <1>5, <1>6 DEF TypeOK

\* A search sweeps the store and leaves a position.
LEMMA SearchTypes ==
  ASSUME TypeInv, NEW a \in Actors, Search(a)
  PROVE  TypeInv'
<1> USE DEF TypeInv, Search, Running,
           storeVars, settingVars, acceptVars, threadVars, guiVars, ghostVars
<1>1. TypeSettings' /\ TypeHands' /\ TypeVerdicts' /\ TypeStack'
  BY DEF TypeOK, TypeSettings, TypeHands, TypeVerdicts, TypeStack, settingVars, guiVars, ghostVars, threadVars, acceptVars
<1>2. TypeStore'
  BY LiveProperties DEF TypeOK, TypeStore
<1>3. TypePlaces'
  <2>1. Position(Live, req[a].id) \in Nat
    BY LiveProperties, PositionProperties DEF TypeOK, TypeStore
  <2> QED
    BY <2>1, GotoLabel DEF TypeOK, TypePlaces, Labels
<1>4. InHand'
  BY DEF TypeOK, TypePlaces, InHand, AcceptLabels, Goto, Actors
<1>5. Waiting'
  BY ConstantsAssumption DEF Waiting, TypeOK, TypePlaces, Actors, Goto
<1> QED
  BY <1>1, <1>2, <1>3, <1>4, <1>5 DEF TypeOK

\* keystore_add() looks for the key.
LEMMA AddCheckTypes ==
  ASSUME TypeInv, NEW a \in Actors, AddCheck(a)
  PROVE  TypeInv'
<1> USE DEF TypeInv, AddCheck, Running,
           storeVars, settingVars, acceptVars, threadVars, guiVars, ghostVars
<1>1. TypeStore' /\ TypeStack'
  BY DEF TypeOK, TypeStore, TypeStack, storeVars, guiVars
<1>2. TypeSettings'
  <2>1. a = Main /\ req[a].op = "add" => req[a].id \in Ids
    BY DEF InHand, Request
  <2> QED
    BY <2>1 DEF TypeOK, TypeSettings, Return, Actors
<1>3. TypePlaces'
  BY GotoLabel DEF TypeOK, TypePlaces, Labels, Return, Answer, Actors
<1>4. TypeHands'
  BY DEF TypeOK, TypeHands, Return, Actors
<1>5. TypeVerdicts'
  BY DEF TypeOK, TypeVerdicts, Return, Answer, Outcomes, Actors
<1>6. InHand'
  <2>1. /\ pc'[a] \in {"idle", "load", "reply", "push"}
        /\ \A b \in Actors \ {a} : pc'[b] = pc[b] /\ key'[b] = key[b] /\ req'[b] = req[b]
    BY DEF TypeOK, TypePlaces, TypeHands, Goto, Return, Answer, Actors
  <2>2. a \in Threads => a # Main
    BY ConstantsAssumption
  <2>3. a # Main => pc'[a] \in {"reply", "push"} /\ key'[a] = key[a]
    BY DEF TypeOK, TypePlaces, Goto, Return, Answer, Actors
  <2>4. pc'[a] = "push" => /\ key'[a] = key[a] /\ key[a] \in Key
                           /\ req'[a] = req[a] /\ pc[a] = "add"
    BY DEF TypeOK, TypePlaces, InHand, Goto, Return, Answer, Actors
  <2> QED
    BY <2>1, <2>2, <2>3, <2>4 DEF InHand, AcceptLabels, Actors
<1>7. Waiting'
  BY ConstantsAssumption DEF Waiting, TypeOK, TypePlaces, Actors, Goto, Answer, Return
<1> QED
  BY <1>1, <1>2, <1>3, <1>4, <1>5, <1>6, <1>7 DEF TypeOK

\* ... and appends it.
LEMMA PushTypes ==
  ASSUME TypeInv, NEW a \in Actors, Push(a)
  PROVE  TypeInv'
<1> USE DEF TypeInv, Push, Running,
           storeVars, settingVars, acceptVars, threadVars, guiVars, ghostVars
<1>1. TypeStack'
  BY DEF TypeOK, TypeStack, guiVars
<1>2. TypeStore'
  <2>1. key[a] \in Key
    BY DEF InHand
  <2> QED
    BY <2>1, AppendProperties DEF TypeOK, TypeStore, CallListeners
<1>3. TypeSettings'
  <2>1. a = Main /\ req[a].op = "add" => req[a].id \in Ids
    BY DEF InHand, Request
  <2> QED
    BY <2>1 DEF TypeOK, TypeSettings, Return, Actors
<1>4. TypePlaces'
  BY GotoLabel DEF TypeOK, TypePlaces, Labels, Return, Answer, Actors
<1>5. TypeHands'
  BY DEF TypeOK, TypeHands, Return, Actors
<1>6. TypeVerdicts'
  BY DEF TypeOK, TypeVerdicts, Return, Answer, Outcomes, Actors
<1>7. InHand'
  <2>1. /\ pc'[a] \in {"idle", "load", "reply"}
        /\ \A b \in Actors \ {a} : pc'[b] = pc[b] /\ key'[b] = key[b] /\ req'[b] = req[b]
    BY DEF TypeOK, TypePlaces, TypeHands, Goto, Return, Answer, Actors
  <2>2. a \in Threads => a # Main
    BY ConstantsAssumption
  <2>3. a # Main => pc'[a] \in {"reply"} /\ key'[a] = key[a]
    BY DEF TypeOK, TypePlaces, Goto, Return, Answer, Actors
  <2>4. pc'[a] = "push" => /\ key'[a] = key[a] /\ key[a] \in Key
                           /\ req'[a] = req[a] /\ pc[a] = "add"
    BY DEF TypeOK, TypePlaces, InHand, Goto, Return, Answer, Actors
  <2> QED
    BY <2>1, <2>2, <2>3, <2>4 DEF InHand, AcceptLabels, Actors
<1>8. Waiting'
  BY ConstantsAssumption DEF Waiting, TypeOK, TypePlaces, Actors, Goto, Answer, Return
<1> QED
  BY <1>1, <1>2, <1>3, <1>4, <1>5, <1>6, <1>7, <1>8 DEF TypeOK

\* A key is erased at the position found.
LEMMA EraseTypes ==
  ASSUME TypeInv, NEW a \in Actors, Erase(a)
  PROVE  TypeInv'
<1> USE DEF TypeInv, Erase, Running,
           storeVars, settingVars, acceptVars, threadVars, guiVars, ghostVars
<1>1. TypeStack'
  BY DEF TypeOK, TypeStack, guiVars
<1>2. TypeStore'
  <2>1. index[a] # 0 => Without(ssh2keys, index[a]) \in Seq(Key)
    <3>1. index[a] \in Nat /\ Len(ssh2keys) \in Nat
      BY DEF TypeOK, TypeStore, TypePlaces
    <3>2. index[a] # 0 => index[a] \in 1..Len(ssh2keys)
      BY <3>1
    <3> QED
      BY <3>2, WithoutProperties DEF TypeOK, TypeStore
  <2> QED
    BY <2>1 DEF TypeOK, TypeStore, CallListeners, storeVars
<1>3. TypeSettings'
  <2>1. a = Main /\ req[a].op = "add" => req[a].id \in Ids
    BY DEF InHand, Request
  <2> QED
    BY <2>1 DEF TypeOK, TypeSettings, Return, Actors
<1>4. TypePlaces'
  BY GotoLabel DEF TypeOK, TypePlaces, Labels, Return, Answer, Actors
<1>5. TypeHands'
  BY DEF TypeOK, TypeHands, Return, Actors
<1>6. TypeVerdicts'
  BY DEF TypeOK, TypeVerdicts, Return, Answer, Outcomes, Actors
<1>7. InHand'
  <2>1. /\ pc'[a] \in {"idle", "load", "reply"}
        /\ \A b \in Actors \ {a} : pc'[b] = pc[b] /\ key'[b] = key[b] /\ req'[b] = req[b]
    BY DEF TypeOK, TypePlaces, TypeHands, Goto, Return, Answer, Actors
  <2>2. a \in Threads => a # Main
    BY ConstantsAssumption
  <2>3. a # Main => pc'[a] \in {"reply"} /\ key'[a] = key[a]
    BY DEF TypeOK, TypePlaces, Goto, Return, Answer, Actors
  <2>4. pc'[a] = "push" => /\ key'[a] = key[a] /\ key[a] \in Key
                           /\ req'[a] = req[a] /\ pc[a] = "add"
    BY DEF TypeOK, TypePlaces, InHand, Goto, Return, Answer, Actors
  <2> QED
    BY <2>1, <2>2, <2>3, <2>4 DEF InHand, AcceptLabels, Actors
<1>8. Waiting'
  BY ConstantsAssumption DEF Waiting, TypeOK, TypePlaces, Actors, Goto, Answer, Return
<1> QED
  BY <1>1, <1>2, <1>3, <1>4, <1>5, <1>6, <1>7, <1>8 DEF TypeOK

\* The key view is registered and shown.
LEMMA RegisterViewTypes ==
  ASSUME TypeInv, RegisterView
  PROVE  TypeInv'
<1> USE DEF TypeInv, RegisterView, Running,
           storeVars, settingVars, acceptVars, threadVars, guiVars, ghostVars
<1>1. TypeSettings' /\ TypeHands' /\ TypeVerdicts'
  BY DEF TypeOK, TypeSettings, TypeHands, TypeVerdicts, settingVars, guiVars, ghostVars, threadVars, acceptVars
<1>2. TypeStore'
  BY DEF TypeOK, TypeStore, storeVars
<1>3. TypePlaces'
  BY GotoLabel DEF TypeOK, TypePlaces, Actors, Labels
<1>4. TypeStack'
  <2>1. Frame("view", Main, NoReq) \in Frames
    BY DEF Frame, Frames, Actors
  <2> QED
    BY <2>1, AppendProperties DEF TypeOK, TypeStack
<1>5. InHand'
  BY ConstantsAssumption DEF TypeOK, TypePlaces, InHand, AcceptLabels, Goto, Actors
<1>6. Waiting'
  <2>1. stack' \in Seq(Frames) /\ Len(stack') = Len(stack) + 1 /\ Len(stack) \in Nat
    BY AppendProperties DEF TypeOK, TypeStack, Frame, Frames, Actors
  <2>2. \A n \in 1..Len(stack) : stack'[n] = stack[n]
    BY AppendProperties DEF TypeOK, TypeStack, Frame, Frames, Actors
  <2>3. stack'[Len(stack) + 1] = Frame("view", Main, NoReq)
    BY AppendProperties DEF TypeOK, TypeStack, Frame, Frames, Actors
  <2>4. pc' = [pc EXCEPT ![Main] = "idle"] /\ Main \notin Threads
    BY ConstantsAssumption DEF TypeOK, TypePlaces, Goto, Actors
  <2>5. \A n \in 1..Len(stack) : stack[n].kind = "confirm" =>
           pc'[stack[n].th] = "dialog" 
    BY <2>4 DEF Waiting, TypeOK, TypePlaces, TypeStack, Actors
  <2>6. /\ \A n \in DOMAIN stack' : n \in 1..Len(stack) \/ n = Len(stack) + 1
        /\ DOMAIN stack = 1..Len(stack)
    BY <2>1 DEF TypeOK, TypeStack
  <2>7. \A n \in 1..Len(stack) : stack[n].kind = "confirm" =>
          /\ stack[n].th \in Threads
          /\ \A m \in 1..Len(stack) :
               stack[m].kind = "confirm" /\ stack[m].th = stack[n].th => m = n
    BY <2>6 DEF Waiting
  <2> QED
    BY ONLY <2>2, <2>3, <2>4, <2>5, <2>6, <2>7 DEF Waiting, Frame
<1> QED
  BY <1>1, <1>2, <1>3, <1>4, <1>5, <1>6 DEF TypeOK

\* A terminal lock empties the store.
LEMMA ForgetTypes ==
  ASSUME TypeInv, Forget
  PROVE  TypeInv'
<1> USE DEF TypeInv, Forget, Running,
           storeVars, settingVars, acceptVars, threadVars, guiVars, ghostVars
<1>1. TypeHands' /\ TypeVerdicts' /\ TypeStack'
  BY DEF TypeOK, TypeHands, TypeVerdicts, TypeStack, threadVars, acceptVars, ghostVars, guiVars
<1>2. TypeStore'
  BY EmptySeq DEF TypeOK, TypeStore, CallListeners
<1>3. TypeSettings'
  BY DEF TypeOK, TypeSettings, settingVars, guiVars
<1>4. TypePlaces'
  BY GotoLabel DEF TypeOK, TypePlaces, Actors, Labels
<1>5. InHand'
  BY ConstantsAssumption DEF TypeOK, TypePlaces, InHand, AcceptLabels, Goto, Actors
<1>6. Waiting'
  BY ConstantsAssumption DEF Waiting, TypeOK, TypePlaces, Actors, Goto
<1> QED
  BY <1>1, <1>2, <1>3, <1>4, <1>5, <1>6 DEF TypeOK

\* The next start-up key is loaded.
LEMMA LoadTypes ==
  ASSUME TypeInv, NEW i \in Ids, Load(i)
  PROVE  TypeInv'
<1> USE DEF TypeInv, Load, Running,
           storeVars, settingVars, acceptVars, threadVars, guiVars, ghostVars
<1>1. TypeStore' /\ TypeSettings' /\ TypeVerdicts' /\ TypeStack'
  BY DEF TypeOK, TypeStore, TypeSettings, TypeVerdicts, TypeStack, storeVars, guiVars, settingVars, ghostVars, acceptVars, threadVars
<1>2. TypePlaces'
  BY GotoLabel DEF TypeOK, TypePlaces, Actors, Labels, BeginLoad
<1>3. TypeHands'
  <2>1. GuiRequest("add", i) \in Request
    BY GuiRequestType
  <2> QED
    BY <2>1 DEF TypeOK, TypeHands, BeginLoad, Actors
<1>4. InHand'
  <2>1. GuiRequest("add", i) \in Request
    BY GuiRequestType
  <2>2. /\ Main \in Actors /\ pc'[Main] = "probe" /\ req'[Main] = GuiRequest("add", i)
        /\ \A b \in Threads : b # Main /\ pc'[b] = pc[b] /\ req'[b] = req[b]
    BY ConstantsAssumption DEF TypeOK, TypePlaces, TypeHands, BeginLoad, Goto, Actors
  <2> QED
    BY <2>1, <2>2 DEF InHand, AcceptLabels, Actors
<1>5. Waiting'
  BY ConstantsAssumption DEF Waiting, TypeOK, TypePlaces, Actors, Goto, BeginLoad
<1> QED
  BY <1>1, <1>2, <1>3, <1>4, <1>5 DEF TypeOK

\* A key file is looked at, its passphrase known or asked for.
LEMMA ProbeTypes ==
  ASSUME TypeInv, Probe
  PROVE  TypeInv'
<1> USE DEF TypeInv, Probe, Running, Unlock,
           storeVars, settingVars, acceptVars, threadVars, guiVars, ghostVars
<1>1. TypeSettings' /\ TypeVerdicts'
  BY DEF TypeOK, TypeSettings, TypeVerdicts, settingVars, guiVars, ghostVars, acceptVars, threadVars
<1>2. TypeStore'
  BY LiveProperties DEF TypeOK, TypeStore
<1>3. TypePlaces'
  BY GotoLabel DEF TypeOK, TypePlaces, Actors, Labels
<1>4. TypeHands'
  <2>1. KeyOf(req[Main]) \in Key /\ Frame("passphrase", Main, req[Main]) \in Frames
    BY KeyOfType DEF TypeOK, InHand, Frame, Frames, Actors
  <2> QED
    BY <2>1 DEF TypeOK, TypeHands, Actors
<1>5. TypeStack'
  <2>1. KeyOf(req[Main]) \in Key /\ Frame("passphrase", Main, req[Main]) \in Frames
    BY KeyOfType DEF TypeOK, InHand, Frame, Frames, Actors
  <2> QED
    BY <2>1, AppendProperties DEF TypeOK, TypeStack
<1>6. InHand'
  <2>1. KeyOf(req[Main]) \in Key
    BY KeyOfType DEF TypeOK, InHand
  <2>2. /\ Main \in Actors /\ pc'[Main] \in {"failed", "idle", "add"}
        /\ pc'[Main] = "add" => key'[Main] \in Key
        /\ \A b \in Threads : b # Main /\ pc'[b] = pc[b] /\ key'[b] = key[b]
    BY <2>1, ConstantsAssumption DEF TypeOK, TypePlaces, TypeHands, Goto, Actors
  <2> QED
    BY <2>2 DEF InHand, AcceptLabels, Actors
<1>7. Waiting'
  <2>1. \A b \in Threads : pc'[b] = pc[b]
    BY ConstantsAssumption DEF TypeOK, TypePlaces, Goto, Actors
  <2>2. CASE stack' = stack
    BY <2>1, <2>2 DEF Waiting
  <2>3. CASE stack' = Append(stack, Frame("passphrase", Main, req[Main]))
    <3>1. /\ DOMAIN stack = 1..Len(stack) /\ DOMAIN stack' = 1..Len(stack) + 1
          /\ Len(stack) \in Nat /\ \A n \in DOMAIN stack : stack'[n] = stack[n]
          /\ stack'[Len(stack) + 1] = Frame("passphrase", Main, req[Main])
      BY <2>3, AppendProperties DEF TypeOK, TypeStack, InHand, Frame, Frames, Actors
    <3>2. \A n \in DOMAIN stack' : stack'[n].kind = "confirm" => n \in DOMAIN stack
      BY <3>1 DEF Frame
    <3> QED
      BY <2>1, <3>1, <3>2 DEF Waiting
  <2> QED
    BY <2>2, <2>3
<1> QED
  BY <1>1, <1>2, <1>3, <1>4, <1>5, <1>6, <1>7 DEF TypeOK

\* A key file could not be loaded.
LEMMA LoadFailedTypes ==
  ASSUME TypeInv, LoadFailed
  PROVE  TypeInv'
<1> USE DEF TypeInv, LoadFailed, Running,
           storeVars, settingVars, acceptVars, threadVars, guiVars, ghostVars
<1>1. TypeStore' /\ TypeStack'
  BY DEF TypeOK, TypeStore, TypeStack, storeVars, guiVars
<1>2. TypeSettings'
  <2>1. req[Main].op = "add" => req[Main].id \in Ids
    BY DEF InHand, Request
  <2> QED
    BY <2>1 DEF TypeOK, TypeSettings, Return, Actors
<1>3. TypePlaces'
  BY GotoLabel DEF TypeOK, TypePlaces, Labels, Return, Answer, Actors
<1>4. TypeHands'
  BY DEF TypeOK, TypeHands, Return, Actors
<1>5. TypeVerdicts'
  BY DEF TypeOK, TypeVerdicts, Return, Answer, Outcomes, Actors
<1>6. InHand'
  <2>1. /\ Main \in Actors /\ pc'[Main] \in {"idle", "load"}
        /\ \A b \in Threads : b # Main /\ pc'[b] = pc[b] /\ key'[b] = key[b] /\ req'[b] = req[b]
    BY ConstantsAssumption DEF TypeOK, TypePlaces, TypeHands, Goto, Return, Actors
  <2> QED
    BY <2>1 DEF InHand, AcceptLabels, Actors
<1>7. Waiting'
  BY ConstantsAssumption DEF Waiting, TypeOK, TypePlaces, Actors, Goto, Answer, Return
<1> QED
  BY <1>1, <1>2, <1>3, <1>4, <1>5, <1>6, <1>7 DEF TypeOK

\* The passphrase is given, or refused.
LEMMA AnswerPassphraseTypes ==
  ASSUME TypeInv, NEW given \in BOOLEAN, AnswerPassphrase(given)
  PROVE  TypeInv'
<1> USE DEF TypeInv, AnswerPassphrase, MainLoop, Running, TopIs,
           storeVars, settingVars, acceptVars, threadVars, guiVars, ghostVars
<1>1. TypeStore' /\ TypeVerdicts'
  BY DEF TypeOK, TypeStore, TypeVerdicts, storeVars, guiVars, acceptVars, threadVars, ghostVars
<1>2. TypeSettings'
  BY DEF TypeOK, TypeSettings
<1>3. TypePlaces'
  BY GotoLabel DEF TypeOK, TypePlaces, Actors, Labels
<1>4. TypeHands'
  <2>1. Top.req \in Request
    BY PopProperties DEF TypeOK, TypeStack, Top, Frames
  <2>2. KeyOf(Top.req) \in Key
    BY <2>1, KeyOfType DEF TypeOK
  <2> QED
    BY <2>1, <2>2 DEF TypeOK, TypeHands, Actors
<1>5. TypeStack'
  BY PopProperties DEF TypeOK, TypeStack
<1>6. InHand'
  <2>1. Top.req \in Request
    BY PopProperties DEF TypeOK, TypeStack, Top, Frames
  <2>2. KeyOf(Top.req) \in Key
    BY <2>1, KeyOfType DEF TypeOK
  <2>3. /\ Main \in Actors /\ req'[Main] = Top.req /\ pc'[Main] \in {"failed", "add"}
        /\ pc'[Main] = "add" => key'[Main] = KeyOf(Top.req)
        /\ \A b \in Threads : b # Main /\ pc'[b] = pc[b] /\ key'[b] = key[b] /\ req'[b] = req[b]
    BY ConstantsAssumption DEF TypeOK, TypePlaces, TypeHands, Goto, Actors
  <2> QED
    BY <2>1, <2>2, <2>3 DEF InHand, AcceptLabels, Actors
<1>7. Waiting'
  <2>1. /\ DOMAIN stack = 1..Len(stack) /\ DOMAIN stack' = 1..Len(stack)-1
        /\ Len(stack) \in Nat \ {0} /\ \A n \in DOMAIN stack' : stack'[n] = stack[n]
    BY PopProperties DEF TypeOK, TypeStack
  <2>2. \A n \in DOMAIN stack' : n \in DOMAIN stack /\ n # Len(stack) /\ Len(stack) \in DOMAIN stack
    BY <2>1
  <2>3. \A b \in Threads : pc'[b] = pc[b]
    BY ConstantsAssumption DEF TypeOK, TypePlaces, Goto, Actors, Top
  <2> QED
    BY <2>1, <2>2, <2>3 DEF Waiting
<1> QED
  BY <1>1, <1>2, <1>3, <1>4, <1>5, <1>6, <1>7 DEF TypeOK

\* The key view refreshes its rows.
LEMMA KeylistUpdateTypes ==
  ASSUME TypeInv, KeylistUpdate
  PROVE  TypeInv'
<1> USE DEF TypeInv, KeylistUpdate, MainLoop, Running,
           storeVars, settingVars, acceptVars, threadVars, guiVars, ghostVars
<1>1. TypeSettings' /\ TypePlaces' /\ TypeHands' /\ TypeVerdicts' /\ TypeStack'
  BY DEF TypeOK, TypeSettings, TypePlaces, TypeHands, TypeVerdicts, TypeStack, settingVars, guiVars, ghostVars, threadVars, acceptVars
<1>2. TypeStore'
  BY LiveProperties DEF TypeOK, TypeStore
<1>3. InHand'
  BY DEF InHand, threadVars, guiVars
<1>4. Waiting'
  BY DEF Waiting
<1> QED
  BY <1>1, <1>2, <1>3, <1>4 DEF TypeOK

\* A second passes for a dialog.
LEMMA TickTypes ==
  ASSUME TypeInv, NEW n \in DOMAIN stack, Tick(n)
  PROVE  TypeInv'
<1> USE DEF TypeInv, Tick, MainLoop, Running,
           storeVars, settingVars, acceptVars, threadVars, guiVars, ghostVars
<1>1. TypeStore' /\ TypeSettings' /\ TypePlaces' /\ TypeHands' /\ TypeVerdicts'
  BY DEF TypeOK, TypeStore, TypeSettings, TypePlaces, TypeHands, TypeVerdicts, storeVars, guiVars, settingVars, ghostVars, threadVars, acceptVars
<1>2. TypeStack'
  <2> DEFINE f == [stack[n] EXCEPT !.ticks = @ + 1,
                                  !.result = IF stack[n].ticks + 1 >= Timeout THEN "cancel" ELSE @]
  <2>1. stack[n] \in Frames /\ n \in 1..Len(stack)
    BY DEF TypeOK, TypeStack
  <2>2. f \in Frames
    BY <2>1 DEF Frames
  <2>3. stack' = [stack EXCEPT ![n] = f]
    BY <2>1 DEF Frames
  <2>4. stack \in Seq(Frames)
    BY DEF TypeOK, TypeStack
  <2> HIDE DEF f
  <2>5. [stack EXCEPT ![n] = f] \in Seq(Frames)
    BY ONLY <2>1, <2>2, <2>4, ExceptSeq
  <2> QED
    BY <2>3, <2>5 DEF TypeStack
<1>3. InHand'
  BY DEF InHand
<1>4. Waiting'
  <2>1. /\ DOMAIN stack' = DOMAIN stack
        /\ \A m \in DOMAIN stack : stack'[m].kind = stack[m].kind /\ stack'[m].th = stack[m].th
    BY DEF TypeOK, TypeStack, Frames
  <2> QED
    BY <2>1 DEF Waiting
<1> QED
  BY <1>1, <1>2, <1>3, <1>4 DEF TypeOK

\* The user answers the innermost dialog.
LEMMA UserAnswersTypes ==
  ASSUME TypeInv, NEW result \in {"ok", "cancel"}, NEW remember \in BOOLEAN, UserAnswers(result, remember)
  PROVE  TypeInv'
<1> USE DEF TypeInv, UserAnswers, MainLoop, Running, TopIs,
           storeVars, settingVars, acceptVars, threadVars, guiVars, ghostVars
<1>1. TypeStore' /\ TypeSettings' /\ TypePlaces' /\ TypeHands'
  BY DEF TypeOK, TypeStore, TypeSettings, TypePlaces, TypeHands, storeVars, guiVars, settingVars, ghostVars, threadVars
<1>2. TypeVerdicts'
  <2>1. Top \in Frames /\ Top.kind = "confirm"
    BY PopProperties DEF TypeOK, TypeStack, Top
  <2>2. Top.th \in Threads
    BY <2>1, PopProperties DEF TypeOK, TypeStack, Waiting, Top
  <2> QED
    BY <2>2 DEF TypeOK, TypeVerdicts, acceptVars, threadVars
<1>3. TypeStack'
  <2> DEFINE n == Len(stack)
             f == [stack[n] EXCEPT !.result = result, !.remember = remember]
  <2>1. n \in 1..Len(stack) /\ stack[n] \in Frames
    BY PopProperties DEF TypeOK, TypeStack
  <2>2. f \in Frames
    BY <2>1 DEF Frames
  <2>3. stack' = [stack EXCEPT ![n] = f]
    BY <2>1 DEF Frames
  <2>4. stack \in Seq(Frames)
    BY DEF TypeOK, TypeStack
  <2> HIDE DEF f, n
  <2>5. [stack EXCEPT ![n] = f] \in Seq(Frames)
    BY ONLY <2>1, <2>2, <2>4, ExceptSeq
  <2> QED
    BY <2>3, <2>5 DEF TypeStack
<1>4. InHand'
  BY DEF InHand
<1>5. Waiting'
  <2>1. /\ DOMAIN stack' = DOMAIN stack
        /\ \A m \in DOMAIN stack : stack'[m].kind = stack[m].kind /\ stack'[m].th = stack[m].th
    BY DEF TypeOK, TypeStack, Frames
  <2> QED
    BY <2>1 DEF Waiting
<1> QED
  BY <1>1, <1>2, <1>3, <1>4, <1>5 DEF TypeOK

\* The key view lists the store.
LEMMA OpenViewTypes ==
  ASSUME TypeInv, OpenView
  PROVE  TypeInv'
<1> USE DEF TypeInv, OpenView, MainLoop, Running,
           storeVars, settingVars, acceptVars, threadVars, guiVars, ghostVars
<1>1. TypeSettings' /\ TypeHands' /\ TypeVerdicts' /\ TypeStack'
  BY DEF TypeOK, TypeSettings, TypeHands, TypeVerdicts, TypeStack, settingVars, guiVars, ghostVars, threadVars, acceptVars
<1>2. TypeStore'
  BY LiveProperties DEF TypeOK, TypeStore
<1>3. TypePlaces'
  BY GotoLabel DEF TypeOK, TypePlaces, Actors, Labels
<1>4. InHand'
  BY ConstantsAssumption DEF TypeOK, TypePlaces, InHand, AcceptLabels, Goto, Actors
<1>5. Waiting'
  BY ConstantsAssumption DEF Waiting, TypeOK, TypePlaces, Actors, Goto
<1> QED
  BY <1>1, <1>2, <1>3, <1>4, <1>5 DEF TypeOK

\* The key view is closed.
LEMMA CloseViewTypes ==
  ASSUME TypeInv, CloseView
  PROVE  TypeInv'
<1> USE DEF TypeInv, CloseView, MainLoop, Running, TopIs,
           storeVars, settingVars, acceptVars, threadVars, guiVars, ghostVars
<1>1. TypeSettings' /\ TypePlaces' /\ TypeHands' /\ TypeVerdicts'
  BY DEF TypeOK, TypeSettings, TypePlaces, TypeHands, TypeVerdicts, settingVars, guiVars, ghostVars, threadVars, acceptVars
<1>2. TypeStore'
  BY EmptySeq DEF TypeOK, TypeStore
<1>3. TypeStack'
  BY PopProperties DEF TypeOK, TypeStack
<1>4. InHand'
  BY DEF InHand
<1>5. Waiting'
  <2>1. /\ DOMAIN stack = 1..Len(stack) /\ DOMAIN stack' = 1..Len(stack)-1
        /\ Len(stack) \in Nat \ {0} /\ \A n \in DOMAIN stack' : stack'[n] = stack[n]
    BY PopProperties DEF TypeOK, TypeStack
  <2>2. \A n \in DOMAIN stack' : n \in DOMAIN stack /\ n # Len(stack) /\ Len(stack) \in DOMAIN stack
    BY <2>1
  <2>3. pc' = pc
    BY DEF TypeOK, TypePlaces, Goto, Actors, Top
  <2> QED
    BY <2>1, <2>2, <2>3 DEF Waiting
<1> QED
  BY <1>1, <1>2, <1>3, <1>4, <1>5 DEF TypeOK

\* A terminal lock clears the start-up list.
LEMMA LockTypes ==
  ASSUME TypeInv, Lock
  PROVE  TypeInv'
<1> USE DEF TypeInv, Lock, MainLoop, Running,
           storeVars, settingVars, acceptVars, threadVars, guiVars, ghostVars
<1>1. TypeStore' /\ TypeHands' /\ TypeVerdicts' /\ TypeStack'
  BY DEF TypeOK, TypeStore, TypeHands, TypeVerdicts, TypeStack, storeVars, guiVars, threadVars, acceptVars, ghostVars
<1>2. TypeSettings'
  BY DEF TypeOK, TypeSettings, guiVars, ghostVars
<1>3. TypePlaces'
  BY GotoLabel DEF TypeOK, TypePlaces, Actors, Labels
<1>4. InHand'
  BY ConstantsAssumption DEF TypeOK, TypePlaces, InHand, AcceptLabels, Goto, Actors
<1>5. Waiting'
  BY ConstantsAssumption DEF Waiting, TypeOK, TypePlaces, Actors, Goto
<1> QED
  BY <1>1, <1>2, <1>3, <1>4, <1>5 DEF TypeOK

\* The user clears the record.
LEMMA ClearDecisionsTypes ==
  ASSUME TypeInv, ClearDecisions
  PROVE  TypeInv'
<1> USE DEF TypeInv, ClearDecisions, MainLoop, Running,
           storeVars, settingVars, acceptVars, threadVars, guiVars, ghostVars
<1>1. TypeStore' /\ TypePlaces' /\ TypeHands' /\ TypeVerdicts' /\ TypeStack'
  BY DEF TypeOK, TypeStore, TypePlaces, TypeHands, TypeVerdicts, TypeStack, storeVars, guiVars, threadVars, acceptVars, ghostVars
<1>2. TypeSettings'
  BY DEF TypeOK, TypeSettings, NoDecisions, Decisions, guiVars, ghostVars
<1>3. InHand'
  BY DEF InHand, threadVars, guiVars
<1>4. Waiting'
  BY DEF Waiting
<1> QED
  BY <1>1, <1>2, <1>3, <1>4 DEF TypeOK

\* The user has a key loaded.
LEMMA GuiAddTypes ==
  ASSUME TypeInv, NEW i \in Ids, GuiAdd(i)
  PROVE  TypeInv'
<1> USE DEF TypeInv, GuiAdd, MainLoop, Running,
           storeVars, settingVars, acceptVars, threadVars, guiVars, ghostVars
<1>1. TypeStore' /\ TypeVerdicts' /\ TypeStack'
  BY DEF TypeOK, TypeStore, TypeVerdicts, TypeStack, storeVars, guiVars, acceptVars, threadVars, ghostVars
<1>2. TypeSettings'
  BY DEF TypeOK, TypeSettings
<1>3. TypePlaces'
  BY GotoLabel DEF TypeOK, TypePlaces, Actors, Labels, BeginLoad
<1>4. TypeHands'
  <2>1. GuiRequest("add", i) \in Request
    BY GuiRequestType
  <2> QED
    BY <2>1 DEF TypeOK, TypeHands, BeginLoad, Actors
<1>5. InHand'
  <2>1. GuiRequest("add", i) \in Request
    BY GuiRequestType
  <2>2. /\ Main \in Actors /\ pc'[Main] = "probe" /\ req'[Main] = GuiRequest("add", i)
        /\ \A b \in Threads : b # Main /\ pc'[b] = pc[b] /\ req'[b] = req[b]
    BY ConstantsAssumption DEF TypeOK, TypePlaces, TypeHands, BeginLoad, Goto, Actors
  <2> QED
    BY <2>1, <2>2 DEF InHand, AcceptLabels, Actors
<1>6. Waiting'
  BY ConstantsAssumption DEF Waiting, TypeOK, TypePlaces, Actors, Goto, BeginLoad
<1> QED
  BY <1>1, <1>2, <1>3, <1>4, <1>5, <1>6 DEF TypeOK

\* The user keeps a key for the next start, or not.
LEMMA AnswerOfferTypes ==
  ASSUME TypeInv, NEW i \in Ids, NEW yes \in BOOLEAN, AnswerOffer(i, yes)
  PROVE  TypeInv'
<1> USE DEF TypeInv, AnswerOffer, MainLoop, Running,
           storeVars, settingVars, acceptVars, threadVars, guiVars, ghostVars
<1>1. TypeStore' /\ TypePlaces' /\ TypeHands' /\ TypeVerdicts' /\ TypeStack'
  BY DEF TypeOK, TypeStore, TypePlaces, TypeHands, TypeVerdicts, TypeStack, storeVars, guiVars, threadVars, acceptVars, ghostVars
<1>2. TypeSettings'
  BY DEF TypeOK, TypeSettings
<1>3. InHand'
  BY DEF InHand, threadVars, guiVars
<1>4. Waiting'
  BY DEF Waiting
<1> QED
  BY <1>1, <1>2, <1>3, <1>4 DEF TypeOK

\* The user removes a row of the key view.
LEMMA GuiRemoveTypes ==
  ASSUME TypeInv, NEW n \in DOMAIN listed, GuiRemove(n)
  PROVE  TypeInv'
<1> USE DEF TypeInv, GuiRemove, MainLoop, Running,
           storeVars, settingVars, acceptVars, threadVars, guiVars, ghostVars
<1>1. TypeStore' /\ TypeSettings' /\ TypeVerdicts' /\ TypeStack'
  BY DEF TypeOK, TypeStore, TypeSettings, TypeVerdicts, TypeStack, storeVars, guiVars, settingVars, ghostVars, acceptVars, threadVars
<1>2. TypePlaces'
  BY GotoLabel DEF TypeOK, TypePlaces, Actors, Labels
<1>3. TypeHands'
  <2>1. listed[n].id \in Ids
    <3>1. listed[n] \in Key
      BY DEF TypeOK, TypeStore
    <3> QED
      BY <3>1 DEF Key
  <2>2. GuiRequest("remove", listed[n].id) \in Request
    BY <2>1, GuiRequestType
  <2> QED
    BY <2>2 DEF TypeOK, TypeHands, Actors
<1>4. InHand'
  <2>1. listed[n].id \in Ids
    <3>1. listed[n] \in Key
      BY DEF TypeOK, TypeStore
    <3> QED
      BY <3>1 DEF Key
  <2>2. req'[Main] \in Request
    BY <2>1, GuiRequestType DEF TypeOK, TypeHands, Actors
  <2> QED
    BY <2>2, ConstantsAssumption DEF TypeOK, TypePlaces, TypeHands, InHand, AcceptLabels, Goto, Actors
<1>5. Waiting'
  BY ConstantsAssumption DEF Waiting, TypeOK, TypePlaces, Actors, Goto
<1> QED
  BY <1>1, <1>2, <1>3, <1>4, <1>5 DEF TypeOK

\* The user changes the policy.
LEMMA SetPolicyTypes ==
  ASSUME TypeInv, NEW b \in BOOLEAN, SetPolicy(b)
  PROVE  TypeInv'
<1> USE DEF TypeInv, SetPolicy, MainLoop, Running,
           storeVars, settingVars, acceptVars, threadVars, guiVars, ghostVars
<1>1. TypeStore' /\ TypePlaces' /\ TypeHands' /\ TypeVerdicts' /\ TypeStack'
  BY DEF TypeOK, TypeStore, TypePlaces, TypeHands, TypeVerdicts, TypeStack, storeVars, guiVars, threadVars, acceptVars, ghostVars
<1>2. TypeSettings'
  BY DEF TypeOK, TypeSettings, guiVars, ghostVars
<1>3. InHand'
  BY DEF InHand, threadVars, guiVars
<1>4. Waiting'
  BY DEF Waiting
<1> QED
  BY <1>1, <1>2, <1>3, <1>4 DEF TypeOK

\* Time passes.
LEMMA ClockTypes ==
  ASSUME TypeInv, Clock
  PROVE  TypeInv'
<1> USE DEF TypeInv, Clock,
           storeVars, settingVars, acceptVars, threadVars, guiVars, ghostVars
<1>1. TypeStore' /\ TypePlaces' /\ TypeHands' /\ TypeVerdicts' /\ TypeStack'
  BY DEF TypeOK, TypeStore, TypePlaces, TypeHands, TypeVerdicts, TypeStack, storeVars, guiVars, threadVars, acceptVars, ghostVars
<1>2. TypeSettings'
  BY DEF TypeOK, TypeSettings, settingVars, guiVars, ghostVars
<1>3. InHand'
  BY DEF InHand, threadVars, guiVars
<1>4. Waiting'
  BY DEF Waiting
<1> QED
  BY <1>1, <1>2, <1>3, <1>4 DEF TypeOK

\* A new process starts.
LEMMA RestartTypes ==
  ASSUME TypeInv, Restart
  PROVE  TypeInv'
<1> USE DEF TypeInv, Restart,
           storeVars, settingVars, acceptVars, threadVars, guiVars, ghostVars
<1>1. TypeStore' /\ TypeHands' /\ TypeVerdicts' /\ TypeStack'
  BY DEF TypeOK, TypeStore, TypeHands, TypeVerdicts, TypeStack, storeVars, guiVars, threadVars, acceptVars, ghostVars
<1>2. TypeSettings'
  BY DEF TypeOK, TypeSettings, settingVars, ghostVars
<1>3. TypePlaces'
  BY GotoLabel DEF TypeOK, TypePlaces, Actors, Labels, Statuses
<1>4. InHand'
  BY ConstantsAssumption DEF TypeOK, TypePlaces, InHand, AcceptLabels, Goto, Actors
<1>5. Waiting'
  BY ConstantsAssumption DEF Waiting, TypeOK, TypePlaces, Actors, Goto
<1> QED
  BY <1>1, <1>2, <1>3, <1>4, <1>5 DEF TypeOK

-----------------------------------------------------------------------------
(* The actions that end the process.                                        *)

LEMMA EndTypes ==
  ASSUME TypeInv,
         \/ \E t \in Threads : \/ \E r \in Requests : ReceiveMalformedAdd(t, r)
                               \/ SignWithNoKey(t)
         \/ Kill \/ RaceCrash
  PROVE  TypeInv'
<1>1. \A why \in Statuses : Die(why) => TypeInv'
  BY DieTypes
<1>2. {"badkey", "nokey", "killed", "race"} \subseteq Statuses
  BY DEF Statuses
<1>3. \E why \in {"badkey", "nokey", "killed", "race"} : Die(why)
  BY DEF ReceiveMalformedAdd, SignWithNoKey, Kill, RaceCrash
<1> QED
  BY <1>1, <1>2, <1>3

-----------------------------------------------------------------------------

LEMMA InitTypes == Init => TypeInv
<1> SUFFICES ASSUME Init PROVE TypeInv
  OBVIOUS
<1> USE DEF Init
<1>1. TypeStore
  BY EmptySeq DEF TypeStore
<1>2. TypeSettings
  BY ConstantsAssumption DEF TypeSettings
<1>3. TypePlaces
  BY DEF TypePlaces, Labels, Statuses
<1>4. TypeHands
  BY DEF TypeHands
<1>5. TypeVerdicts
  <2>1. NoAnswer \in Answers
    BY DEF NoAnswer, Answers
  <2> QED
    BY <2>1 DEF TypeVerdicts, Outcomes, Decisions
<1>6. TypeStack
  BY EmptySeq DEF TypeStack
<1>7. InHand /\ Waiting
  BY ConstantsAssumption DEF InHand, AcceptLabels, Actors, Waiting
<1> QED
  BY <1>1, <1>2, <1>3, <1>4, <1>5, <1>6, <1>7 DEF TypeInv, TypeOK

LEMMA StutterTypes == TypeInv /\ UNCHANGED vars => TypeInv'
<1> SUFFICES ASSUME TypeInv, UNCHANGED vars PROVE TypeInv'
  OBVIOUS
<1>1. TypeOK'
  BY DEF TypeInv, vars, TypeOK, TypeStore, TypeSettings, TypePlaces, TypeHands,
         TypeVerdicts, TypeStack
<1>2. InHand' /\ Waiting'
  BY DEF TypeInv, vars, InHand, Waiting
<1> QED
  BY <1>1, <1>2 DEF TypeInv

\* Every step of a server thread, of the main thread and of the user.
LEMMA HandlerTypes ==
  ASSUME TypeInv, NEW t \in Threads, HandlerStep(t)
  PROVE  TypeInv'
  BY ReadDecisionTypes, ReadPolicyTypes, DecideTypes, ListTypes, CopyTypes, SignTypes,
     ExistTypes, RemoveAllTypes, ReplyTypes, EndTypes DEF HandlerStep

LEMMA UserTypes ==
  ASSUME TypeInv, User
  PROVE  TypeInv'
  BY UserAnswersTypes, AnswerPassphraseTypes, OpenViewTypes, CloseViewTypes, LockTypes, ClearDecisionsTypes,
     GuiAddTypes, AnswerOfferTypes, GuiRemoveTypes, SetPolicyTypes DEF User

LEMMA NextTypes == TypeInv /\ [Next]_vars => TypeInv'
<1> SUFFICES ASSUME TypeInv, Next PROVE TypeInv'
  BY StutterTypes
<1>1. ASSUME NEW t \in Threads, NEW r \in Requests, Receive(t, r) \/ ReceiveMalformedAdd(t, r)
      PROVE  TypeInv'
  BY <1>1, ReceiveTypes, EndTypes
<1>2. ASSUME NEW t \in Threads, HandlerStep(t) \/ OpenDialog(t) \/ CloseDialog(t)
      PROVE  TypeInv'
  BY <1>2, HandlerTypes, OpenDialogTypes, CloseDialogTypes
<1>3. ASSUME NEW a \in Actors, StoreStep(a)
      PROVE  TypeInv'
  BY <1>3, SearchTypes, AddCheckTypes, PushTypes, EraseTypes DEF StoreStep
<1>4. ASSUME MainStep \/ KeylistUpdate \/ \E n \in DOMAIN stack : Tick(n)
      PROVE  TypeInv'
  BY <1>4, RegisterViewTypes, ForgetTypes, LoadTypes, ProbeTypes, LoadFailedTypes, KeylistUpdateTypes, TickTypes
     DEF MainStep
<1>5. ASSUME Clock \/ Kill \/ RaceCrash \/ Restart
      PROVE  TypeInv'
  BY <1>5, ClockTypes, EndTypes, RestartTypes
<1> QED
  BY <1>1, <1>2, <1>3, <1>4, <1>5, UserTypes DEF Next

LEMMA TypeInvariant == Spec => []TypeInv
<1>1. Init => TypeInv
  BY InitTypes
<1>2. TypeInv /\ [Next]_vars => TypeInv'
  BY NextTypes
<1> QED
  BY <1>1, <1>2, PTL DEF Spec

\* Type correctness: whatever the clients, the user and the clock do, and in
\* whatever order the threads run, every variable keeps its type.
THEOREM TypeCorrect == Spec => []TypeOK
<1>1. TypeInv => TypeOK
  BY DEF TypeInv
<1> QED
  BY <1>1, TypeInvariant, PTL

=============================================================================
