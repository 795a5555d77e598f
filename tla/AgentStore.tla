----------------------------- MODULE AgentStore -----------------------------
(***************************************************************************)
(* What becomes of the keys, for any number of threads, keys, crashes and  *)
(* restarts: what a terminal lock drops, what the key view shows, and what *)
(* the store would keep to if nobody came between the two halves of an     *)
(* operation of it.                                                        *)
(***************************************************************************)
EXTENDS AgentTypes

-----------------------------------------------------------------------------
(* The terminal lock.  The induction needs to know what the main thread is  *)
(* about to add: never a key that counts as dropped, because what it adds   *)
(* was asked for by the user, after the lock or in a dialog that outlived   *)
(* it, or taken from the copy of the start-up list.                         *)

ForgetInv ==
  /\ ForgottenStaysForgotten
  /\ pc[Main] \in {"add", "push"} => key[Main].id \notin forgotten
  /\ pc[Main] = "probe" => req[Main].id \notin forgotten
  /\ pc[Main] = "forget" => startup = {} /\ status = "up"

\* The main thread is where it was, with what it had.
MainSame == /\ pc'[Main] = pc[Main] /\ key'[Main] = key[Main] /\ req'[Main] = req[Main]
            /\ status' = status

StoreShrinks == \A i : InStore(i)' => InStore(i)

-----------------------------------------------------------------------------

LEMMA LiveShrinks ==
  ASSUME ssh2keys \in Seq(Key), ssh2keys' = Live
  PROVE  StoreShrinks
<1>1. \A k \in DOMAIN ssh2keys' : \E n \in DOMAIN ssh2keys : ssh2keys'[k] = ssh2keys[n]
  BY LiveProperties
<1> QED
  BY <1>1 DEF StoreShrinks, InStore

LEMMA WithoutShrinks ==
  ASSUME ssh2keys \in Seq(Key), NEW n \in 1..Len(ssh2keys), ssh2keys' = Without(ssh2keys, n)
  PROVE  StoreShrinks
<1>1. \A k \in DOMAIN ssh2keys' : \E m \in DOMAIN ssh2keys : ssh2keys'[k] = ssh2keys[m]
  BY WithoutProperties
<1> QED
  BY <1>1 DEF StoreShrinks, InStore

LEMMA AppendGrows ==
  ASSUME ssh2keys \in Seq(Key), NEW k \in Key, ssh2keys' = Append(ssh2keys, k)
  PROVE  \A i : InStore(i)' => InStore(i) \/ i = k.id
<1>1. \A n \in DOMAIN ssh2keys' : ssh2keys'[n] = k \/ \E m \in DOMAIN ssh2keys : ssh2keys'[n] = ssh2keys[m]
  BY AppendProperties
<1> QED
  BY <1>1 DEF InStore

\* A step that brings nothing into the store, the lists or the main thread's
\* hands brings no dropped key back.
LEMMA QuietStep ==
  ASSUME ForgetInv, MainSame, StoreShrinks, forgotten' \subseteq forgotten,
         startup' \subseteq startup, loading' \subseteq loading
  PROVE  ForgetInv'
  BY DEF ForgetInv, ForgottenStaysForgotten, MainSame, StoreShrinks, InStore

\* The main thread leaves its loop, or goes on with its list, empty-handed.
LEMMA MainGoes ==
  ASSUME ForgetInv, pc[Main] # "forget", StoreShrinks,
         pc'[Main] \notin {"add", "push", "probe", "forget"},
         forgotten' = forgotten, startup' \subseteq startup, loading' \subseteq loading
  PROVE  ForgetInv'
  BY DEF ForgetInv, ForgottenStaysForgotten, StoreShrinks, InStore

-----------------------------------------------------------------------------
(* The steps of the threads, and of the main thread's store operations.     *)

LEMMA ThreadForget ==
  ASSUME TypeInv, ForgetInv, NEW t \in Threads,
         \/ \E r \in Requests : Receive(t, r)
         \/ ReadDecision(t) \/ ReadPolicy(t) \/ Decide(t) \/ List(t) \/ Copy(t) \/ Sign(t)
         \/ Exist(t) \/ RemoveAll(t) \/ Reply(t) \/ OpenDialog(t) \/ CloseDialog(t)
  PROVE  ForgetInv'
<1> USE DEF storeVars, settingVars, acceptVars, threadVars, guiVars, ghostVars
<1>1. t # Main /\ Main \in Actors
  BY ConstantsAssumption DEF Actors
<1>2. MainSame
  BY <1>1 DEF TypeInv, TypeOK, TypePlaces, TypeHands, MainSame, Receive, ReadDecision,
     ReadPolicy, Decide, List, Copy, Sign, Exist, RemoveAll, Reply, OpenDialog, CloseDialog,
     Goto, Answer
<1>3. forgotten' = forgotten /\ startup' = startup /\ loading' = loading
  BY DEF Receive, ReadDecision, ReadPolicy, Decide, List, Copy, Sign, Exist, RemoveAll,
     Reply, OpenDialog, CloseDialog
<1>4. ssh2keys' \in {ssh2keys, Live, <<>>}
  BY DEF Receive, ReadDecision, ReadPolicy, Decide, List, Copy, Sign, Exist, RemoveAll,
     Reply, OpenDialog, CloseDialog
<1>5. StoreShrinks
  <2>1. CASE ssh2keys' = ssh2keys
    BY <2>1 DEF StoreShrinks, InStore
  <2>2. CASE ssh2keys' = Live
    BY <2>2, LiveShrinks DEF TypeInv, TypeOK, TypeStore
  <2>3. CASE ssh2keys' = <<>>
    BY <2>3 DEF StoreShrinks, InStore
  <2> QED
    BY <1>4, <2>1, <2>2, <2>3
<1> QED
  BY <1>2, <1>3, <1>5, QuietStep

LEMMA SearchForget ==
  ASSUME TypeInv, ForgetInv, NEW a \in Actors, Search(a)
  PROVE  ForgetInv'
<1> USE DEF Search, Running, storeVars, settingVars, acceptVars, threadVars, guiVars, ghostVars
<1>1. StoreShrinks
  BY LiveShrinks DEF TypeInv, TypeOK, TypeStore
<1>2. CASE a = Main
  <2>1. pc[Main] \in {"get", "search"} /\ pc'[Main] \in {"copy", "erase"}
    BY <1>2 DEF TypeInv, TypeOK, TypePlaces, Goto
  <2> QED
    BY <1>1, <2>1, MainGoes
<1>3. CASE a # Main
  <2>1. MainSame
    BY <1>3 DEF TypeInv, TypeOK, TypePlaces, Goto, MainSame, Actors
  <2> QED
    BY <1>1, <2>1, QuietStep
<1> QED
  BY <1>2, <1>3

LEMMA AddCheckForget ==
  ASSUME TypeInv, ForgetInv, NEW a \in Actors, AddCheck(a)
  PROVE  ForgetInv'
<1> USE DEF AddCheck, Running, storeVars, settingVars, acceptVars, threadVars, guiVars, ghostVars
<1>1. StoreShrinks /\ ssh2keys' = ssh2keys
  BY DEF StoreShrinks, InStore
<1>2. CASE a = Main /\ InStore(req[a].id)
  <2>1. pc[Main] = "add" /\ pc'[Main] \in {"idle", "load"} /\ loading' \subseteq loading
    BY <1>2 DEF TypeInv, TypeOK, TypePlaces, Goto, Return, Actors
  <2> QED
    BY <1>1, <2>1, MainGoes
<1>3. CASE a = Main /\ ~InStore(req[a].id)
  <2>1. pc[Main] = "add" /\ pc'[Main] = "push" /\ key' = key /\ loading' = loading
    BY <1>3 DEF TypeInv, TypeOK, TypePlaces, Goto, Actors
  <2> QED
    BY <1>1, <2>1 DEF ForgetInv, ForgottenStaysForgotten, InStore
<1>4. CASE a # Main
  <2>1. MainSame /\ loading' = loading
    BY <1>4 DEF TypeInv, TypeOK, TypePlaces, TypeHands, Goto, Return, Answer, MainSame, Actors
  <2> QED
    BY <1>1, <2>1, QuietStep
<1> QED
  BY <1>2, <1>3, <1>4

LEMMA PushForget ==
  ASSUME TypeInv, ForgetInv, NEW a \in Actors, Push(a)
  PROVE  ForgetInv'
<1> USE DEF Push, Running, storeVars, settingVars, acceptVars, threadVars, guiVars, ghostVars
<1>1. key[a] \in Key
  BY DEF TypeInv, InHand
<1>2. \A i : InStore(i)' => InStore(i) \/ i = key[a].id
  BY <1>1, AppendGrows DEF TypeInv, TypeOK, TypeStore
<1>3. startup' = startup
  OBVIOUS
<1>4. CASE a = Main
  <2>1. /\ pc[Main] = "push" /\ pc'[Main] \in {"idle", "load"} /\ loading' \subseteq loading
        /\ forgotten' = forgotten
    BY <1>4 DEF TypeInv, TypeOK, TypePlaces, Goto, Return, Actors
  <2>2. \A i \in forgotten : ~InStore(i)'
    BY <1>2, <1>4, <2>1 DEF ForgetInv, ForgottenStaysForgotten
  <2> QED
    BY <1>3, <2>1, <2>2 DEF ForgetInv, ForgottenStaysForgotten
<1>5. CASE a # Main
  <2>1. MainSame /\ loading' = loading /\ forgotten' = forgotten \ {key[a].id}
    BY <1>5 DEF TypeInv, TypeOK, TypePlaces, TypeHands, Goto, Return, Answer, MainSame, Actors
  <2>2. \A i \in forgotten' : InStore(i)' => InStore(i)
    BY <1>2, <2>1
  <2> QED
    BY <1>3, <2>1, <2>2 DEF ForgetInv, ForgottenStaysForgotten, MainSame
<1> QED
  BY <1>4, <1>5

LEMMA EraseForget ==
  ASSUME TypeInv, ForgetInv, NEW a \in Actors, Erase(a)
  PROVE  ForgetInv'
<1> USE DEF Erase, Running, storeVars, settingVars, acceptVars, threadVars, guiVars, ghostVars
<1>1. StoreShrinks
  <2>1. index[a] \in Nat /\ Len(ssh2keys) \in Nat
    BY DEF TypeInv, TypeOK, TypeStore, TypePlaces
  <2>2. index[a] # 0 => index[a] \in 1..Len(ssh2keys)
    BY <2>1
  <2>3. CASE index[a] = 0
    BY <2>3 DEF StoreShrinks, InStore
  <2>4. CASE index[a] # 0
    BY <2>2, <2>4, WithoutShrinks DEF TypeInv, TypeOK, TypeStore
  <2> QED
    BY <2>3, <2>4
<1>2. CASE a = Main
  <2>1. pc[Main] = "erase" /\ pc'[Main] \in {"idle", "load"} /\ loading' \subseteq loading
    BY <1>2 DEF TypeInv, TypeOK, TypePlaces, Goto, Return, Actors
  <2> QED
    BY <1>1, <2>1, MainGoes
<1>3. CASE a # Main
  <2>1. MainSame /\ loading' = loading
    BY <1>3 DEF TypeInv, TypeOK, TypePlaces, TypeHands, Goto, Return, Answer, MainSame, Actors
  <2> QED
    BY <1>1, <2>1, QuietStep
<1> QED
  BY <1>2, <1>3

-----------------------------------------------------------------------------
(* The main thread.                                                         *)

\* The lock drops everything.
LEMMA LockForget ==
  ASSUME TypeInv, ForgetInv, Lock \/ Forget
  PROVE  ForgetInv'
<1> USE DEF storeVars, settingVars, acceptVars, threadVars, guiVars, ghostVars
<1>1. CASE Lock
  <2>1. /\ pc'[Main] = "forget" /\ startup' = {} /\ forgotten' = Ids
        /\ status' = "up"
    BY <1>1 DEF Lock, MainLoop, Running, TypeInv, TypeOK, TypePlaces, Goto, Actors
  <2> QED
    BY <2>1 DEF ForgetInv, ForgottenStaysForgotten
<1>2. CASE Forget
  <2>1. /\ pc[Main] = "forget" /\ pc'[Main] = "idle" /\ forgotten' = Ids
        /\ startup' = startup
    BY <1>2 DEF Forget, Running, TypeInv, TypeOK, TypePlaces, Goto, Actors
  <2>2. \A i : ~InStore(i)'
    <3>1. ssh2keys' = <<>>
      BY <1>2 DEF Forget
    <3> QED
      BY <3>1 DEF InStore
  <2> QED
    BY <2>1, <2>2 DEF ForgetInv, ForgottenStaysForgotten
<1> QED
  BY <1>1, <1>2

\* Loading a key: what start-up works through and what the user asks for does not
\* count as dropped any more.
LEMMA LoadForget ==
  ASSUME TypeInv, ForgetInv,
         \/ \E i \in Ids : Load(i) \/ GuiAdd(i)
         \/ LoadFailed
  PROVE  ForgetInv'
<1> USE DEF storeVars, settingVars, acceptVars, threadVars, guiVars, ghostVars
<1>0. Main \in Actors
  BY DEF Actors
<1>1. ASSUME NEW i \in Ids, Load(i)
      PROVE  ForgetInv'
  <2>1. /\ pc[Main] = "load" /\ pc'[Main] = "probe" /\ req'[Main].id = i /\ i \in loading
        /\ forgotten' = forgotten \ {i} /\ UNCHANGED <<ssh2keys, startup, loading>>
    BY <1>0, <1>1 DEF Load, BeginLoad, GuiRequest, Running, Goto, TypeInv, TypeOK,
       TypePlaces, TypeHands
  <2> QED
    BY <2>1 DEF ForgetInv, ForgottenStaysForgotten, InStore
<1>2. ASSUME NEW i \in Ids, GuiAdd(i)
      PROVE  ForgetInv'
  <2>1. /\ pc[Main] = "idle" /\ pc'[Main] = "probe" /\ req'[Main].id = i
        /\ forgotten' = forgotten \ {i} /\ UNCHANGED <<ssh2keys, startup, loading>>
    BY <1>0, <1>2 DEF GuiAdd, BeginLoad, GuiRequest, MainLoop, Running, Goto, TypeInv,
       TypeOK, TypePlaces, TypeHands
  <2> QED
    BY <2>1 DEF ForgetInv, ForgottenStaysForgotten, InStore
<1>3. CASE LoadFailed
  <2>1. /\ pc[Main] = "failed" /\ pc'[Main] \in {"idle", "load"} /\ loading' \subseteq loading
        /\ UNCHANGED <<ssh2keys, startup, forgotten>>
    BY <1>0, <1>3 DEF LoadFailed, Running, Return, Goto, TypeInv, TypeOK, TypePlaces
  <2>2. StoreShrinks
    BY <2>1 DEF StoreShrinks, InStore
  <2> QED
    BY <2>1, <2>2, MainGoes
<1> QED
  BY <1>1, <1>2, <1>3

LEMMA ProbeForget ==
  ASSUME TypeInv, ForgetInv, Probe
  PROVE  ForgetInv'
<1> USE DEF storeVars, settingVars, acceptVars, threadVars, guiVars, ghostVars
<1>1. Main \in Actors
  BY DEF Actors
<1>2. /\ pc[Main] = "probe" /\ req' = req /\ UNCHANGED <<forgotten, startup, loading>>
  BY DEF Probe, Running
<1>3. ssh2keys' \in {ssh2keys, Live}
  BY DEF Probe
<1>4. StoreShrinks
  <2>1. CASE ssh2keys' = ssh2keys
    BY <2>1 DEF StoreShrinks, InStore
  <2>2. CASE ssh2keys' = Live
    BY <2>2, LiveShrinks DEF TypeInv, TypeOK, TypeStore
  <2> QED
    BY <1>3, <2>1, <2>2
<1>5. \/ pc'[Main] \in {"failed", "idle"}
      \/ pc'[Main] = "add" /\ key'[Main].id = req[Main].id
  BY <1>1 DEF Probe, Unlock, KeyOf, Goto, TypeInv, TypeOK, TypePlaces, TypeHands
<1> QED
  BY <1>2, <1>4, <1>5 DEF ForgetInv, ForgottenStaysForgotten, StoreShrinks, InStore

LEMMA PassphraseForget ==
  ASSUME TypeInv, ForgetInv, NEW given \in BOOLEAN, AnswerPassphrase(given)
  PROVE  ForgetInv'
<1> USE DEF AnswerPassphrase, storeVars, settingVars, acceptVars, threadVars, guiVars, ghostVars
<1>1. Main \in Actors
  BY DEF Actors
<1>2. pc[Main] = "idle" /\ UNCHANGED <<ssh2keys, startup, loading>>
  BY DEF MainLoop, Running
<1>3. CASE given
  <2>1. /\ pc'[Main] = "add" /\ key'[Main].id = Top.req.id
        /\ forgotten' = forgotten \ {Top.req.id}
    BY <1>1, <1>3 DEF KeyOf, Goto, TypeInv, TypeOK, TypePlaces, TypeHands
  <2> QED
    BY <1>2, <2>1 DEF ForgetInv, ForgottenStaysForgotten, InStore
<1>4. CASE ~given
  <2>1. pc'[Main] = "failed" /\ forgotten' = forgotten
    BY <1>1, <1>4 DEF Goto, TypeInv, TypeOK, TypePlaces
  <2> QED
    BY <1>2, <2>1 DEF ForgetInv, ForgottenStaysForgotten, InStore
<1> QED
  BY <1>3, <1>4

LEMMA OfferForget ==
  ASSUME TypeInv, ForgetInv, NEW i \in Ids, NEW yes \in BOOLEAN, AnswerOffer(i, yes)
  PROVE  ForgetInv'
BY DEF AnswerOffer, MainLoop, Running, ForgetInv, ForgottenStaysForgotten, InStore, storeVars,
   threadVars, guiVars, acceptVars

\* A new process starts with the list the settings hold.
LEMMA RestartForget ==
  ASSUME TypeInv, ForgetInv, Restart
  PROVE  ForgetInv'
<1>1. /\ UNCHANGED <<ssh2keys, startup, forgotten>> /\ loading' = startup
      /\ pc'[Main] \in {"idle", "load"} /\ pc[Main] # "forget"
  BY DEF Restart, Goto, Actors, TypeInv, TypeOK, TypePlaces, ForgetInv, storeVars, settingVars,
     ghostVars
<1> QED
  BY <1>1 DEF ForgetInv, ForgottenStaysForgotten, InStore

LEMMA DieForget ==
  ASSUME TypeInv, ForgetInv, NEW why, Die(why)
  PROVE  ForgetInv'
<1>1. /\ pc'[Main] = "idle" /\ loading' = {} /\ UNCHANGED <<startup, forgotten>>
  BY DEF Die, Actors, settingVars
<1>2. \A i : ~InStore(i)'
  <2>1. ssh2keys' = <<>>
    BY DEF Die
  <2> QED
    BY <2>1 DEF InStore
<1> QED
  BY <1>1, <1>2 DEF ForgetInv, ForgottenStaysForgotten

\* The windows.
LEMMA WindowForget ==
  ASSUME TypeInv, ForgetInv,
         \/ OpenView \/ RegisterView \/ \E n \in DOMAIN listed : GuiRemove(n)
  PROVE  ForgetInv'
<1> USE DEF storeVars, settingVars, acceptVars, threadVars, guiVars, ghostVars
<1>1. Main \in Actors
  BY DEF Actors
<1>2. /\ pc[Main] \in {"idle", "register"} /\ pc'[Main] \in {"register", "idle", "search"}
      /\ UNCHANGED <<startup, loading, forgotten>>
  BY <1>1 DEF OpenView, RegisterView, GuiRemove, MainLoop, Running, Goto, TypeInv, TypeOK,
     TypePlaces
<1>3. StoreShrinks
  <2>1. ssh2keys' = ssh2keys \/ ssh2keys' = Live
    BY DEF OpenView, RegisterView, GuiRemove
  <2>2. CASE ssh2keys' = ssh2keys
    BY <2>2 DEF StoreShrinks, InStore
  <2>3. CASE ssh2keys' = Live
    BY <2>3, LiveShrinks DEF TypeInv, TypeOK, TypeStore
  <2> QED
    BY <2>1, <2>2, <2>3
<1> QED
  BY <1>2, <1>3, MainGoes

\* What leaves the main thread, the lists and the keys as they are.
LEMMA IdleForget ==
  ASSUME TypeInv, ForgetInv,
         \/ KeylistUpdate \/ CloseView \/ ClearDecisions \/ Clock \/ UNCHANGED vars
         \/ \E b \in BOOLEAN : SetPolicy(b)
         \/ \E n \in DOMAIN stack : Tick(n)
         \/ \E result \in {"ok", "cancel"}, remember \in BOOLEAN :
              UserAnswers(result, remember)
  PROVE  ForgetInv'
<1> USE DEF storeVars, settingVars, acceptVars, threadVars, guiVars, ghostVars
<1>1. MainSame /\ UNCHANGED <<startup, loading, forgotten>>
  BY DEF MainSame, KeylistUpdate, CloseView, ClearDecisions, Clock, SetPolicy, Tick,
     UserAnswers, vars
<1>2. StoreShrinks
  <2>1. ssh2keys' = ssh2keys \/ ssh2keys' = Live
    BY DEF KeylistUpdate, CloseView, ClearDecisions, Clock, SetPolicy, Tick, UserAnswers, vars
  <2>2. CASE ssh2keys' = ssh2keys
    BY <2>2 DEF StoreShrinks, InStore
  <2>3. CASE ssh2keys' = Live
    BY <2>3, LiveShrinks DEF TypeInv, TypeOK, TypeStore
  <2> QED
    BY <2>1, <2>2, <2>3
<1> QED
  BY <1>1, <1>2, QuietStep

-----------------------------------------------------------------------------

LEMMA InitForget ==
  ASSUME Init
  PROVE  ForgetInv
<1>1. /\ forgotten = {} /\ ssh2keys = <<>> /\ pc[Main] \in {"idle", "load"}
  BY DEF Init, Actors
<1> QED
  BY <1>1 DEF ForgetInv, ForgottenStaysForgotten, InStore

LEMMA NextForget ==
  ASSUME TypeInv, ForgetInv, [Next]_vars
  PROVE  ForgetInv'
<1>1. ASSUME NEW t \in Threads, NEW r \in Requests, ReceiveMalformedAdd(t, r)
      PROVE  ForgetInv'
  BY <1>1, DieForget DEF ReceiveMalformedAdd
<1>2. ASSUME NEW t \in Threads, SignWithNoKey(t)
      PROVE  ForgetInv'
  BY <1>2, DieForget DEF SignWithNoKey
<1>3. ASSUME NEW t \in Threads,
             \/ \E r \in Requests : Receive(t, r)
             \/ HandlerStep(t) /\ ~SignWithNoKey(t)
             \/ OpenDialog(t) \/ CloseDialog(t)
      PROVE  ForgetInv'
  BY <1>3, ThreadForget DEF HandlerStep
<1>4. ASSUME NEW a \in Actors, StoreStep(a)
      PROVE  ForgetInv'
  BY <1>4, SearchForget, AddCheckForget, PushForget, EraseForget DEF StoreStep
<1>5. CASE MainStep
  BY <1>5, WindowForget, LockForget, ProbeForget, LoadForget DEF MainStep
<1>6. CASE User
  BY <1>6, IdleForget, WindowForget, LockForget, LoadForget, PassphraseForget, OfferForget
  DEF User
<1>7. CASE Kill \/ RaceCrash
  BY <1>7, DieForget DEF Kill, RaceCrash
<1>8. CASE Restart
  BY <1>8, RestartForget
<1>9. CASE KeylistUpdate \/ (\E n \in DOMAIN stack : Tick(n)) \/ Clock \/ UNCHANGED vars
  BY <1>9, IdleForget
<1> QED
  BY <1>1, <1>2, <1>3, <1>4, <1>5, <1>6, <1>7, <1>8, <1>9 DEF Next, HandlerStep

\* lockTerminal(): whatever was dropped when the terminal was locked is neither
\* in the store nor on the start-up list, after any number of crashes and
\* restarts, until a client adds it, the user loads it or answers an open dialog
\* about it, or a start-up load that was under way comes to it on its own copy of
\* the list.
THEOREM LockHolds == Spec => []ForgottenStaysForgotten
<1>1. Init => ForgetInv
  BY InitForget
<1>2. TypeInv /\ ForgetInv /\ [Next]_vars => ForgetInv'
  BY NextForget
<1>3. ForgetInv => ForgottenStaysForgotten
  BY DEF ForgetInv
<1> QED
  BY <1>1, <1>2, <1>3, TypeInvariant, PTL DEF Spec

-----------------------------------------------------------------------------
(* The key view.  ViewFaithful says nothing of the rows between their first *)
(* listing and the registration of the listener; the induction has to.      *)

Shows ==
  /\ \A n \in DOMAIN ssh2keys : \E m \in DOMAIN listed : listed[m] = ssh2keys[n]
  /\ \A m \in DOMAIN listed : \/ \E n \in DOMAIN ssh2keys : ssh2keys[n] = listed[m]
                              \/ Expired(listed[m])

ViewInv == (registered \/ pc[Main] = "register") /\ ~refresh /\ ~gap => Shows

\* The view is where it was, with the rows it had.
ViewSame ==
  /\ UNCHANGED <<registered, listed>>
  /\ pc'[Main] = "register" => pc[Main] = "register"

\* What expires leaves the store and not the view.
LEMMA LiveShown ==
  ASSUME ssh2keys \in Seq(Key), Shows, ssh2keys' = Live, listed' = listed, now' = now
  PROVE  Shows'
<1>1. \A k \in DOMAIN ssh2keys' : \E n \in DOMAIN ssh2keys : ssh2keys'[k] = ssh2keys[n]
  BY LiveProperties
<1>2. \A n \in DOMAIN ssh2keys : ~Expired(ssh2keys[n]) => \E k \in DOMAIN ssh2keys' : ssh2keys'[k] = ssh2keys[n]
  BY LiveProperties
<1>3. ASSUME NEW m \in DOMAIN listed
      PROVE  (\E k \in DOMAIN ssh2keys' : ssh2keys'[k] = listed[m]) \/ Expired(listed[m])
  BY <1>2 DEF Shows
<1> QED
  BY <1>1, <1>3 DEF Shows, Expired

LEMMA QuietView ==
  ASSUME TypeInv, ViewInv, ViewSame, UNCHANGED <<refresh, gap, now>>, ssh2keys' \in {ssh2keys, Live}
  PROVE  ViewInv'
<1>1. CASE ssh2keys' = ssh2keys
  BY <1>1 DEF ViewInv, ViewSame, Shows, Expired
<1>2. CASE ssh2keys' = Live
  BY <1>2, LiveShown DEF ViewInv, ViewSame, TypeInv, TypeOK, TypeStore
<1> QED
  BY <1>1, <1>2

\* Every change of the store that is no expiry is told to the view, or falls in the gap.
LEMMA ToldView ==
  ASSUME TypeInv, ViewSame, CallListeners
  PROVE  ViewInv'
  BY DEF ViewInv, ViewSame, CallListeners, TypeInv, TypeOK, TypeStore

LEMMA ThreadView ==
  ASSUME TypeInv, ViewInv, NEW t \in Threads,
         \/ \E r \in Requests : Receive(t, r)
         \/ HandlerStep(t) /\ ~SignWithNoKey(t)
         \/ OpenDialog(t) \/ CloseDialog(t)
  PROVE  ViewInv'
<1> USE DEF storeVars, settingVars, acceptVars, threadVars, guiVars, ghostVars
<1>1. t # Main /\ Main \in Actors
  BY ConstantsAssumption DEF Actors
<1>2. ViewSame
  BY <1>1 DEF TypeInv, TypeOK, TypePlaces, ViewSame, HandlerStep, Receive, ReadDecision,
     ReadPolicy, Decide, List, Copy, Sign, Exist, RemoveAll, Reply, OpenDialog, CloseDialog,
     Goto, Answer
<1>3. CASE RemoveAll(t)
  BY <1>2, <1>3, ToldView DEF RemoveAll
<1>4. CASE ~RemoveAll(t)
  <2>1. UNCHANGED <<refresh, gap, now>> /\ ssh2keys' \in {ssh2keys, Live}
    BY <1>4 DEF HandlerStep, Receive, ReadDecision, ReadPolicy, Decide, List, Copy, Sign, Exist,
       Reply, OpenDialog, CloseDialog
  <2> QED
    BY <1>2, <2>1, QuietView
<1> QED
  BY <1>3, <1>4

LEMMA StoreView ==
  ASSUME TypeInv, ViewInv, NEW a \in Actors, StoreStep(a)
  PROVE  ViewInv'
<1> USE DEF storeVars, settingVars, acceptVars, threadVars, guiVars, ghostVars, Running
<1>1. ViewSame
  <2>1. UNCHANGED <<registered, listed>>
    BY DEF StoreStep, Search, AddCheck, Push, Erase
  <2>2. \/ pc' = [pc EXCEPT ![a] = pc'[a]] /\ pc'[a] # "register"
    BY DEF StoreStep, Search, AddCheck, Push, Erase, Return, Goto, Answer, TypeInv, TypeOK, TypePlaces
  <2> QED
    BY <2>1, <2>2 DEF ViewSame, TypeInv, TypeOK, TypePlaces, Actors
<1>2. CASE CallListeners
  BY <1>1, <1>2, ToldView
<1>3. CASE ~CallListeners
  <2>1. UNCHANGED <<refresh, gap, now>> /\ ssh2keys' \in {ssh2keys, Live}
    BY <1>3 DEF StoreStep, Search, AddCheck, Push, Erase
  <2> QED
    BY <1>1, <2>1, QuietView
<1> QED
  BY <1>2, <1>3

LEMMA DieView ==
  ASSUME NEW why, Die(why)
  PROVE  ViewInv'
  BY DEF Die, ViewInv, Actors

LEMMA MainView ==
  ASSUME TypeInv, ViewInv, MainStep \/ KeylistUpdate \/ User
  PROVE  ViewInv'
<1> USE DEF storeVars, settingVars, acceptVars, threadVars, guiVars, ghostVars, MainLoop, Running
<1>0. pc \in [Actors -> Labels] /\ Main \in Actors
  BY DEF TypeInv, TypeOK, TypePlaces, Actors
<1>1. CASE RegisterView
  BY <1>0, <1>1 DEF RegisterView, ViewInv, Shows, Expired
<1>2. CASE KeylistUpdate \/ OpenView
  <2>1. ssh2keys' = listed'
    BY <1>2 DEF KeylistUpdate, OpenView
  <2> QED
    BY <2>1 DEF ViewInv, Shows
<1>3. CASE Forget
  <2>1. ViewSame
    BY <1>0, <1>3 DEF Forget, ViewSame, Goto
  <2> QED
    BY <1>3, <2>1, ToldView DEF Forget
<1>4. CASE CloseView
  BY <1>4 DEF CloseView, ViewInv
<1>5. CASE Probe \/ LoadFailed \/ \E i \in Ids : Load(i) \/ GuiAdd(i)
  <2>1. ViewSame
    BY <1>0, <1>5 DEF Probe, Unlock, LoadFailed, Load, GuiAdd, BeginLoad, ViewSame, Goto, Return, Booting
  <2>2. UNCHANGED <<refresh, gap, now>> /\ ssh2keys' \in {ssh2keys, Live}
    BY <1>5 DEF Probe, LoadFailed, Load, GuiAdd
  <2> QED
    BY <2>1, <2>2, QuietView
<1>6. CASE \/ \E result \in {"ok", "cancel"}, remember \in BOOLEAN : UserAnswers(result, remember)
           \/ \E given \in BOOLEAN : AnswerPassphrase(given)
           \/ Lock \/ ClearDecisions
           \/ \E i \in Ids, yes \in BOOLEAN : AnswerOffer(i, yes)
           \/ \E n \in DOMAIN listed : GuiRemove(n)
           \/ \E b \in BOOLEAN : SetPolicy(b)
  <2>1. ViewSame
    BY <1>0, <1>6 DEF UserAnswers, AnswerPassphrase, Lock, ClearDecisions, AnswerOffer, GuiRemove, SetPolicy,
       ViewSame, Goto
  <2>2. UNCHANGED <<refresh, gap, now, ssh2keys>>
    BY <1>6 DEF UserAnswers, AnswerPassphrase, Lock, ClearDecisions, AnswerOffer, GuiRemove, SetPolicy
  <2> QED
    BY <2>1, <2>2, QuietView
<1> QED
  BY <1>1, <1>2, <1>3, <1>4, <1>5, <1>6 DEF MainStep, User

LEMMA NextView ==
  ASSUME TypeInv, ViewInv, [Next]_vars
  PROVE  ViewInv'
<1> USE DEF storeVars, settingVars, acceptVars, threadVars, guiVars, ghostVars
<1>1. ASSUME NEW t \in Threads,
             \/ \E r \in Requests : Receive(t, r)
             \/ HandlerStep(t) /\ ~SignWithNoKey(t)
             \/ OpenDialog(t) \/ CloseDialog(t)
      PROVE  ViewInv'
  BY <1>1, ThreadView
<1>2. ASSUME NEW t \in Threads, SignWithNoKey(t) \/ \E r \in Requests : ReceiveMalformedAdd(t, r)
      PROVE  ViewInv'
  BY <1>2, DieView DEF SignWithNoKey, ReceiveMalformedAdd
<1>3. CASE Kill \/ RaceCrash
  BY <1>3, DieView DEF Kill, RaceCrash
<1>4. ASSUME NEW a \in Actors, StoreStep(a)
      PROVE  ViewInv'
  BY <1>4, StoreView
<1>5. CASE MainStep \/ KeylistUpdate \/ User
  BY <1>5, MainView
<1>6. CASE UNCHANGED vars \/ Restart \/ \E n \in DOMAIN stack : Tick(n)
  <2>1. ViewSame
    BY <1>6 DEF vars, Restart, Tick, ViewSame, Goto, TypeInv, TypeOK, TypePlaces, Actors
  <2>2. UNCHANGED <<refresh, gap, now, ssh2keys>>
    BY <1>6 DEF vars, Restart, Tick
  <2> QED
    BY <2>1, <2>2, QuietView
<1>7. CASE Clock
  <2>1. UNCHANGED <<ssh2keys, listed, registered, refresh, gap, pc>> /\ now \in Nat /\ now' = now + 1
    BY <1>7 DEF Clock, TypeInv, TypeOK, TypeSettings
  <2>2. \A k \in Key : Expired(k) => Expired(k)'
    BY <2>1 DEF Expired, Key
  <2>3. \A m \in DOMAIN listed : listed[m] \in Key
    BY DEF TypeInv, TypeOK, TypeStore
  <2> QED
    BY <2>1, <2>2, <2>3 DEF ViewInv, Shows
<1> QED
  BY <1>1, <1>2, <1>3, <1>4, <1>5, <1>6, <1>7 DEF Next, HandlerStep

\* keyviewdlg: with no update queued, the rows are the keys of the store, but for
\* what expired and what was added before the listener was registered; also when
\* threads change the store in the middle of the listing, and nested dialogs and
\* restarts come between.
THEOREM ViewShowsStore == Spec => []ViewFaithful
<1>1. Init => ViewInv
  BY DEF Init, ViewInv, Actors
<1>2. TypeInv /\ ViewInv /\ [Next]_vars => ViewInv'
  BY NextView
<1>3. ViewInv => ViewFaithful
  BY DEF ViewInv, ViewFaithful, Shows
<1> QED
  BY <1>1, <1>2, <1>3, TypeInvariant, PTL DEF Spec

-----------------------------------------------------------------------------
(* What an actor has in hand, whoever else works on the store.              *)

\* What an actor is about to add is the key its request names.
Carries(a) ==
  /\ pc[a] \in AcceptLabels /\ a \in Threads /\ req[a].op = "add" => key[a].id = req[a].id
  /\ pc[a] \in {"exist", "add", "push"} => key[a].id = req[a].id

CarriesInv == \A a \in Actors : Carries(a)

Untouched(a) == pc'[a] = pc[a] /\ req'[a] = req[a] /\ key'[a] = key[a] /\ index'[a] = index[a]

\* Labels at which an actor has nothing in hand.
FreeLabels == {"idle", "get", "search", "list", "removeall", "reply", "register", "forget", "load", "probe", "failed"}

LEMMA KeyOfId == ASSUME NEW r PROVE KeyOf(r).id = r.id
BY DEF KeyOf

\* Of a step of one actor only its own hands need to be looked at.
LEMMA OneCarries ==
  ASSUME CarriesInv, NEW a \in Actors, \A b \in Actors \ {a} : Untouched(b),
         Carries(a)' \/ pc'[a] \in FreeLabels
  PROVE  CarriesInv'
<1>1. \A b \in Actors \ {a} : Carries(b)'
  BY DEF CarriesInv, Carries, Untouched
<1>2. Carries(a)'
  BY DEF Carries, FreeLabels, AcceptLabels
<1> QED
  BY <1>1, <1>2 DEF CarriesInv

\* What a thread in pageant_handle_msg() may do to itself and to the store.
LEMMA ThreadMoves ==
  ASSUME TypeInv, NEW t \in Threads,
         \/ \E r \in Requests : Receive(t, r)
         \/ HandlerStep(t) /\ ~SignWithNoKey(t)
         \/ OpenDialog(t) \/ CloseDialog(t)
  PROVE  /\ t \in Actors /\ \A b \in Actors \ {t} : Untouched(b)
         /\ ssh2keys' \in {ssh2keys, Live, <<>>}
         /\ \/ pc'[t] \in FreeLabels
            \/ /\ pc'[t] = "stored"
               /\ \E r \in Requests : req'[t] = r /\ (r.op = "add" => key'[t] = KeyOf(r))
            \/ /\ pc[t] \in AcceptLabels /\ UNCHANGED <<req, key>>
               /\ \/ pc'[t] \in {"policy", "ask", "dialog", "asked"}
                  \/ pc'[t] = "exist" /\ req[t].op = "add"
            \/ /\ pc[t] = "copy" /\ pc'[t] = "sign" /\ req' = req
               /\ key'[t] = IF index[t] = 0 THEN NoKey ELSE ssh2keys[index[t]]
            \/ pc[t] = "exist" /\ pc'[t] = "add" /\ UNCHANGED <<req, key>>
<1> USE DEF storeVars, settingVars, acceptVars, threadVars, guiVars, ghostVars, Running, Answer
<1>0. t \in Actors /\ pc \in [Actors -> Labels] /\ req \in [Actors -> Request \cup {NoReq}]
      /\ key \in [Actors -> Key \cup {NoKey}] /\ index \in [Actors -> Nat] /\ ssh2keys \in Seq(Key)
  BY DEF Actors, TypeInv, TypeOK, TypePlaces, TypeHands, TypeStore
<1>1. \A b \in Actors \ {t} : Untouched(b)
  BY <1>0 DEF Untouched, HandlerStep, Receive, ReadDecision, ReadPolicy, Decide, List, Copy, Sign, Exist,
     RemoveAll, Reply, OpenDialog, CloseDialog, Goto
<1>2. ssh2keys' \in {ssh2keys, Live, <<>>}
  BY DEF HandlerStep, Receive, ReadDecision, ReadPolicy, Decide, List, Copy, Sign, Exist,
     RemoveAll, Reply, OpenDialog, CloseDialog
<1>3. ASSUME NEW r \in Requests, Receive(t, r)
      PROVE  \/ pc'[t] \in FreeLabels
             \/ pc'[t] = "stored" /\ req'[t] = r /\ (r.op = "add" => key'[t] = KeyOf(r))
  BY <1>0, <1>3 DEF Receive, Goto, FreeLabels
<1>4. CASE ReadDecision(t) \/ OpenDialog(t)
  <2>1. pc[t] \in AcceptLabels /\ pc'[t] \in {"reply", "policy", "dialog"} /\ UNCHANGED <<req, key>>
    BY <1>0, <1>4 DEF ReadDecision, OpenDialog, Goto, AcceptLabels
  <2> QED
    BY <1>0, <1>1, <1>2, <2>1 DEF FreeLabels
<1>5. CASE CloseDialog(t)
  <2>1. Len(stack) \in DOMAIN stack /\ stack[Len(stack)].kind = "confirm" /\ stack[Len(stack)].th = t
    BY <1>5, EmptySeq DEF CloseDialog, TopIs, Top, TypeInv, TypeOK, TypeStack
  <2>2. pc[t] = "dialog"
    BY <2>1 DEF TypeInv, Waiting
  <2>3. pc'[t] = "asked" /\ UNCHANGED <<req, key>>
    BY <1>0, <1>5 DEF CloseDialog, Goto
  <2> QED
    BY <1>0, <1>1, <1>2, <2>2, <2>3 DEF AcceptLabels
<1>6. CASE ReadPolicy(t) \/ Decide(t)
  <2>1. pc[t] \in AcceptLabels /\ pc'[t] \in {"reply", "ask", AfterAccept(t)} /\ UNCHANGED <<req, key>>
    BY <1>0, <1>6 DEF ReadPolicy, Decide, Goto, AcceptLabels
  <2>2. req[t].op \in ConfirmOps
    BY <2>1 DEF TypeInv, InHand
  <2>3. AfterAccept(t) \in {"get", "search"} \/ (AfterAccept(t) = "exist" /\ req[t].op = "add")
    BY <2>2 DEF AfterAccept, ConfirmOps
  <2> QED
    BY <1>0, <1>1, <1>2, <2>1, <2>3 DEF FreeLabels
<1>7. CASE Copy(t)
  <2>1. pc[t] = "copy" /\ pc'[t] = "sign" /\ req' = req
        /\ key'[t] = IF index[t] = 0 THEN NoKey ELSE ssh2keys[index[t]]
    BY <1>0, <1>7 DEF Copy, Goto
  <2> QED
    BY <1>0, <1>1, <1>2, <2>1
<1>8. CASE Exist(t)
  <2>1. pc[t] = "exist" /\ pc'[t] \in {"reply", "add"} /\ UNCHANGED <<req, key>>
    BY <1>0, <1>8 DEF Exist, Goto
  <2> QED
    BY <1>0, <1>1, <1>2, <2>1 DEF FreeLabels
<1>9. CASE List(t) \/ Sign(t) \/ RemoveAll(t) \/ Reply(t)
  <2>1. pc'[t] \in FreeLabels
    BY <1>0, <1>9 DEF List, Sign, RemoveAll, Reply, Goto, FreeLabels
  <2> QED
    BY <1>0, <1>1, <1>2, <2>1
<1> QED
  BY <1>0, <1>1, <1>2, <1>3, <1>4, <1>5, <1>6, <1>7, <1>8, <1>9 DEF HandlerStep

\* An operation of the store that returns leaves its actor with nothing in hand.
LEMMA ReturnsFree ==
  ASSUME TypeInv, NEW a \in Actors, NEW o, Return(a, o)
  PROVE  pc'[a] \in FreeLabels /\ \A b \in Actors \ {a} : Untouched(b)
<1>1. pc \in [Actors -> Labels] /\ req \in [Actors -> Request \cup {NoReq}]
      /\ key \in [Actors -> Key \cup {NoKey}] /\ index \in [Actors -> Nat]
  BY DEF TypeInv, TypeOK, TypePlaces, TypeHands
<1> QED
  BY <1>1 DEF Return, Answer, Goto, Untouched, FreeLabels

\* What the main thread's own steps, its windows and its user may do.
LEMMA MainMoves ==
  ASSUME TypeInv, MainStep \/ KeylistUpdate \/ User
  PROVE  /\ Main \in Actors /\ \A b \in Actors \ {Main} : Untouched(b)
         /\ ssh2keys' \in {ssh2keys, Live, <<>>}
         /\ \/ pc'[Main] \in FreeLabels
            \/ pc'[Main] = "add" /\ key'[Main].id = req'[Main].id
<1> USE DEF storeVars, settingVars, acceptVars, threadVars, guiVars, ghostVars, Running, MainLoop
<1>0. pc \in [Actors -> Labels] /\ req \in [Actors -> Request \cup {NoReq}] /\ Main \in Actors
      /\ key \in [Actors -> Key \cup {NoKey}] /\ index \in [Actors -> Nat] /\ ssh2keys \in Seq(Key)
  BY DEF Actors, TypeInv, TypeOK, TypePlaces, TypeHands, TypeStore
<1>1. ssh2keys' \in {ssh2keys, Live, <<>>}
  BY DEF MainStep, User, KeylistUpdate, RegisterView, Forget, Probe, LoadFailed, Load, UserAnswers, AnswerPassphrase,
     OpenView, CloseView, Lock, ClearDecisions, GuiAdd, AnswerOffer, GuiRemove, SetPolicy
<1>2. \A b \in Actors \ {Main} : Untouched(b)
  BY <1>0 DEF MainStep, User, KeylistUpdate, RegisterView, Forget, Probe, Unlock, LoadFailed, Load, UserAnswers, AnswerPassphrase,
       OpenView, CloseView, Lock, ClearDecisions, GuiAdd, BeginLoad, AnswerOffer, GuiRemove, SetPolicy, Return, Goto, Untouched
<1>3. CASE Probe
  <2>1. \/ pc'[Main] \in FreeLabels
        \/ pc'[Main] = "add" /\ key'[Main] = KeyOf(req[Main]) /\ req' = req
    BY <1>0, <1>3 DEF Probe, Unlock, Goto, FreeLabels
  <2> QED
    BY <1>0, <1>1, <1>2, <2>1, KeyOfId
<1>4. ASSUME NEW given \in BOOLEAN, AnswerPassphrase(given)
      PROVE  \/ pc'[Main] \in FreeLabels
             \/ pc'[Main] = "add" /\ key'[Main].id = req'[Main].id
  BY <1>0, <1>4, KeyOfId DEF AnswerPassphrase, Goto, FreeLabels
<1>5. CASE LoadFailed
  BY <1>0, <1>1, <1>2, <1>5, ReturnsFree DEF LoadFailed
<1>6. ASSUME ~Probe, ~LoadFailed, \A given \in BOOLEAN : ~AnswerPassphrase(given)
      PROVE  pc'[Main] \in FreeLabels
  BY <1>0, <1>6 DEF MainStep, User, KeylistUpdate, RegisterView, Forget, Load, UserAnswers,
     OpenView, CloseView, Lock, ClearDecisions, GuiAdd, BeginLoad, AnswerOffer, GuiRemove, SetPolicy, Goto, FreeLabels
<1> QED
  BY <1>0, <1>1, <1>2, <1>3, <1>4, <1>5, <1>6

\* An actor in keystore.cpp, alone or among others.
LEMMA OperationMoves ==
  ASSUME TypeInv, NEW a \in Actors, StoreStep(a)
  PROVE  /\ \A b \in Actors \ {a} : Untouched(b)
         /\ \/ pc[a] = "add" /\ pc'[a] = "push" /\ UNCHANGED <<req, key, ssh2keys>> /\ ~InStore(req[a].id)
            \/ Push(a) /\ pc'[a] \in FreeLabels
            \/ /\ pc'[a] \in FreeLabels \cup {"copy", "erase"}
               /\ \/ ssh2keys' \in {ssh2keys, Live}
                  \/ index[a] \in 1..Len(ssh2keys) /\ ssh2keys' = Without(ssh2keys, index[a])
<1> USE DEF storeVars, settingVars, acceptVars, threadVars, guiVars, ghostVars, Running
<1>0. pc \in [Actors -> Labels] /\ req \in [Actors -> Request \cup {NoReq}]
      /\ key \in [Actors -> Key \cup {NoKey}] /\ index \in [Actors -> Nat] /\ ssh2keys \in Seq(Key)
  BY DEF TypeInv, TypeOK, TypePlaces, TypeHands, TypeStore
<1>1. CASE Search(a)
  BY <1>0, <1>1 DEF Search, Goto, Untouched
<1>2. CASE AddCheck(a) /\ InStore(req[a].id)
  BY <1>2, ReturnsFree DEF AddCheck
<1>3. CASE AddCheck(a) /\ ~InStore(req[a].id)
  BY <1>0, <1>3 DEF AddCheck, Goto, Untouched
<1>4. CASE Push(a)
  BY <1>4, ReturnsFree DEF Push
<1>5. CASE Erase(a)
  <2>1. \A b \in Actors \ {a} : Untouched(b)
    BY <1>5, ReturnsFree DEF Erase
  <2>2. pc'[a] \in FreeLabels
    BY <1>5, ReturnsFree DEF Erase
  <2>3. ssh2keys' = ssh2keys \/ (index[a] \in 1..Len(ssh2keys) /\ ssh2keys' = Without(ssh2keys, index[a]))
    BY <1>0, <1>5 DEF Erase
  <2> QED
    BY <2>1, <2>2, <2>3
<1> QED
  BY <1>1, <1>2, <1>3, <1>4, <1>5 DEF StoreStep

\* The steps of the environment leave all hands alone, or empty them.
LEMMA OtherMoves ==
  ASSUME TypeInv, UNCHANGED vars \/ Clock \/ Restart \/ (\E n \in DOMAIN stack : Tick(n))
  PROVE  /\ ssh2keys' = ssh2keys
         /\ \A a \in Actors : Untouched(a) \/ pc'[a] \in FreeLabels
<1>1. CASE Restart
  BY <1>1 DEF Restart, Goto, TypeInv, TypeOK, TypePlaces, Actors, Untouched, FreeLabels, storeVars, threadVars
<1>2. CASE UNCHANGED vars \/ Clock \/ \E n \in DOMAIN stack : Tick(n)
  <2>1. UNCHANGED <<ssh2keys, pc, req, key, index>>
    BY <1>2 DEF vars, Clock, Tick, storeVars, threadVars
  <2> QED
    BY <2>1 DEF Untouched
<1> QED
  BY <1>1, <1>2

LEMMA EndMoves ==
  ASSUME NEW why, Die(why)
  PROVE  ssh2keys' = <<>> /\ \A a \in Actors : pc'[a] \in FreeLabels
  BY DEF Die, FreeLabels

LEMMA NextCarries == TypeInv /\ CarriesInv /\ [Next]_vars => CarriesInv'
<1> SUFFICES ASSUME TypeInv, CarriesInv, [Next]_vars
             PROVE  CarriesInv'
  OBVIOUS
<1>1. ASSUME NEW t \in Threads,
             \/ \E r \in Requests : Receive(t, r)
             \/ HandlerStep(t) /\ ~SignWithNoKey(t)
             \/ OpenDialog(t) \/ CloseDialog(t)
      PROVE  CarriesInv'
  <2>1. t \in Actors /\ Carries(t)
    BY DEF Actors, CarriesInv
  <2>2. Carries(t)' \/ pc'[t] \in FreeLabels
    BY <1>1, <2>1, ThreadMoves, KeyOfId DEF Carries, AcceptLabels
  <2> QED
    BY <1>1, <2>1, <2>2, ThreadMoves, OneCarries
<1>2. ASSUME NEW t \in Threads, SignWithNoKey(t) \/ \E r \in Requests : ReceiveMalformedAdd(t, r)
      PROVE  CarriesInv'
  BY <1>2, EndMoves DEF SignWithNoKey, ReceiveMalformedAdd, CarriesInv, Carries, FreeLabels, AcceptLabels
<1>3. CASE Kill \/ RaceCrash
  BY <1>3, EndMoves DEF Kill, RaceCrash, CarriesInv, Carries, FreeLabels, AcceptLabels
<1>4. ASSUME NEW a \in Actors, StoreStep(a)
      PROVE  CarriesInv'
  <2>1. Carries(a)' \/ pc'[a] \in FreeLabels
    BY <1>4, OperationMoves DEF CarriesInv, Carries, AcceptLabels
  <2> QED
    BY <1>4, <2>1, OperationMoves, OneCarries
<1>5. CASE MainStep \/ KeylistUpdate \/ User
  <2>1. Carries(Main)' \/ pc'[Main] \in FreeLabels
    BY <1>5, MainMoves DEF Carries, AcceptLabels
  <2> QED
    BY <1>5, <2>1, MainMoves, OneCarries
<1>6. CASE UNCHANGED vars \/ Clock \/ Restart \/ \E n \in DOMAIN stack : Tick(n)
  BY <1>6, OtherMoves DEF CarriesInv, Carries, Untouched, FreeLabels, AcceptLabels
<1> QED
  BY <1>1, <1>2, <1>3, <1>4, <1>5, <1>6 DEF Next, HandlerStep

LEMMA CarriesInvariant == Spec => []CarriesInv
<1>1. Init => CarriesInv
  BY DEF Init, CarriesInv, Carries, AcceptLabels
<1> QED
  BY <1>1, NextCarries, TypeInvariant, PTL DEF Spec

-----------------------------------------------------------------------------
(* How often a key can be in the store when actors do come between each     *)
(* other's checks and appends.  Each copy is laid to the charge of an actor *)
(* that is not about to append another: who passes the check finds no copy, *)
(* and who appends is charged with what it appends.                         *)

Adding(a, i) == pc[a] = "push" /\ req[a].id = i

Charged(C, i, w) ==
  /\ w \in Injection(C, Actors)
  /\ \A n \in C : ~Adding(w[n], i)

CopiesInv == \A i \in Ids : \E w : Charged(Copies(i), i, w)

\* No key is there more often than before.
Fewer == \A i : \E g : g \in Injection(Copies(i)', Copies(i))

LEMMA SameFewer == ASSUME ssh2keys' = ssh2keys PROVE Fewer
<1>1. ASSUME NEW i PROVE [n \in Copies(i) |-> n] \in Injection(Copies(i)', Copies(i))
  BY DEF Copies, Injection, IsInjective
<1> QED
  BY <1>1 DEF Fewer

LEMMA EmptyFewer == ASSUME ssh2keys' = <<>> PROVE Fewer
<1>1. ASSUME NEW i PROVE [n \in {} |-> n] \in Injection(Copies(i)', Copies(i))
  BY DEF Copies, Injection, IsInjective
<1> QED
  BY <1>1 DEF Fewer

LEMMA LiveFewer == ASSUME ssh2keys \in Seq(Key), ssh2keys' = Live PROVE Fewer
<1> DEFINE I == {n \in DOMAIN ssh2keys : ~Expired(ssh2keys[n])}
           c == Cardinality(I)
<1>1. Len(ssh2keys) \in Nat /\ DOMAIN ssh2keys = 1..Len(ssh2keys) /\ I \in SUBSET (1..Len(ssh2keys))
  OBVIOUS
<1>2. ssh2keys' = Kept(ssh2keys, I)
  BY DEF Live
<1> HIDE DEF I
<1>3. \A k \in 1..c : Nth(I, k) \in I /\ Cardinality(UpTo(I, Nth(I, k))) = k
  BY <1>1, NthExists DEF Nth
<1>4. DOMAIN ssh2keys' = 1..c /\ \A k \in 1..c : ssh2keys'[k] = ssh2keys[Nth(I, k)]
  BY <1>2 DEF Kept
<1>5. ASSUME NEW i PROVE [k \in Copies(i)' |-> Nth(I, k)] \in Injection(Copies(i)', Copies(i))
  <2>1. \A k \in Copies(i)' : k \in 1..c /\ Nth(I, k) \in Copies(i)
    BY <1>1, <1>3, <1>4 DEF Copies
  <2>2. \A k, l \in Copies(i)' : Nth(I, k) = Nth(I, l) => k = l
    BY <1>3, <2>1
  <2> QED
    BY <2>1, <2>2 DEF Injection, IsInjective
<1> QED
  BY <1>5 DEF Fewer

LEMMA WithoutFewer ==
  ASSUME ssh2keys \in Seq(Key), NEW n \in 1..Len(ssh2keys), ssh2keys' = Without(ssh2keys, n)
  PROVE  Fewer
<1> DEFINE g(k) == IF k <= n - 1 THEN k ELSE k + 1
<1>1. Len(ssh2keys) \in Nat /\ DOMAIN ssh2keys = 1..Len(ssh2keys) /\ n \in Nat
  OBVIOUS
<1>2. DOMAIN ssh2keys' = 1..Len(ssh2keys) - 1
  BY WithoutElements
<1>3. \A k \in 1..Len(ssh2keys) - 1 : ssh2keys'[k] = IF k <= n - 1 THEN ssh2keys[k] ELSE ssh2keys[k + 1]
  BY WithoutElements
<1>4. \A k \in 1..Len(ssh2keys) - 1 : g(k) \in DOMAIN ssh2keys /\ ssh2keys'[k] = ssh2keys[g(k)]
  BY <1>1, <1>3
<1>5. \A k, l \in 1..Len(ssh2keys) - 1 : g(k) = g(l) => k = l
  BY <1>1
<1> HIDE DEF g
<1>6. ASSUME NEW i PROVE [k \in Copies(i)' |-> g(k)] \in Injection(Copies(i)', Copies(i))
  <2>1. \A k \in Copies(i)' : k \in 1..Len(ssh2keys) - 1 /\ g(k) \in Copies(i)
    BY <1>2, <1>4 DEF Copies
  <2> QED
    BY <1>5, <2>1 DEF Injection, IsInjective
<1> QED
  BY <1>6 DEF Fewer

\* Nobody who was not is about to append.
NoneStarts == \A a \in Actors, i \in Ids : Adding(a, i)' => Adding(a, i)

LEMMA FewerCharged ==
  ASSUME CopiesInv, Fewer, NoneStarts
  PROVE  CopiesInv'
<1> SUFFICES ASSUME NEW i \in Ids PROVE \E w : Charged(Copies(i), i, w)'
  BY DEF CopiesInv
<1>1. PICK w : Charged(Copies(i), i, w)
  BY DEF CopiesInv
<1>2. PICK g : g \in Injection(Copies(i)', Copies(i))
  BY DEF Fewer
<1>3. PICK C : C = Copies(i)'
  OBVIOUS
<1> DEFINE v == [n \in C |-> w[g[n]]]
<1>4. v \in Injection(C, Actors)
  BY <1>1, <1>2, <1>3 DEF Charged, Injection, IsInjective
<1>5. \A n \in C : v[n] \in Actors /\ ~Adding(v[n], i)
  BY <1>1, <1>2, <1>3 DEF Charged, Injection
<1> HIDE DEF v
<1>6. \A n \in C : ~Adding(v[n], i)'
  BY <1>5 DEF NoneStarts
<1>7. Charged(Copies(i), i, v)'
  BY <1>3, <1>4, <1>6 DEF Charged
<1> QED
  BY <1>7

\* The check is passed: there is no copy to lay to anybody's charge.
LEMMA CheckCharged ==
  ASSUME CopiesInv, NEW a \in Actors, \A b \in Actors \ {a} : Untouched(b),
         UNCHANGED <<req, ssh2keys>>, ~InStore(req[a].id)
  PROVE  CopiesInv'
<1> SUFFICES ASSUME NEW i \in Ids PROVE \E w : Charged(Copies(i), i, w)'
  BY DEF CopiesInv
<1>1. Copies(i)' = Copies(i)
  BY DEF Copies
<1>2. CASE i = req[a].id
  <2>1. Copies(i) = {}
    BY <1>2 DEF Copies, InStore
  <2>2. [n \in {} |-> n] \in Injection({}, Actors)
    BY DEF Injection, IsInjective
  <2> QED
    BY <1>1, <2>1, <2>2 DEF Charged
<1>3. CASE i # req[a].id
  <2>1. \A b \in Actors : Adding(b, i)' => Adding(b, i)
    BY <1>3 DEF Adding, Untouched
  <2>2. PICK w : Charged(Copies(i), i, w)
    BY DEF CopiesInv
  <2>3. \A n \in Copies(i) : w[n] \in Actors
    BY <2>2 DEF Charged, Injection
  <2> QED
    BY <1>1, <2>1, <2>2, <2>3 DEF Charged
<1> QED
  BY <1>2, <1>3

\* Who appends is charged with the new copy.
LEMMA PushCharged ==
  ASSUME TypeInv, CarriesInv, CopiesInv, NEW a \in Actors, Push(a), pc'[a] \in FreeLabels,
         \A b \in Actors \ {a} : Untouched(b)
  PROVE  CopiesInv'
<1> SUFFICES ASSUME NEW i \in Ids PROVE \E w : Charged(Copies(i), i, w)'
  BY DEF CopiesInv
<1>1. pc[a] = "push" /\ ssh2keys' = Append(ssh2keys, key[a]) /\ key[a].id = req[a].id
      /\ key[a] \in Key /\ ssh2keys \in Seq(Key)
  BY DEF Push, Running, CarriesInv, Carries, TypeInv, TypeOK, TypeStore, InHand
<1>m. PICK m : m = Len(ssh2keys) + 1
  OBVIOUS
<1>2. /\ m \notin DOMAIN ssh2keys /\ DOMAIN ssh2keys' = DOMAIN ssh2keys \cup {m}
      /\ \A n \in DOMAIN ssh2keys : ssh2keys'[n] = ssh2keys[n]
      /\ ssh2keys'[m] = key[a]
  BY <1>1, <1>m, AppendProperties
<1>3. Copies(i)' = IF i = req[a].id THEN Copies(i) \cup {m} ELSE Copies(i)
  BY <1>1, <1>2 DEF Copies
<1>4. \A b \in Actors : Adding(b, i)' => Adding(b, i) /\ b # a
  BY DEF Adding, Untouched, FreeLabels
<1>5. PICK w : Charged(Copies(i), i, w)
  BY DEF CopiesInv
<1>6. \A n \in Copies(i) : w[n] \in Actors
  BY <1>5 DEF Charged, Injection
<1>7. CASE i # req[a].id
  BY <1>3, <1>4, <1>5, <1>6, <1>7 DEF Charged
<1>8. CASE i = req[a].id
  <2>c. PICK C : C = Copies(i)
    OBVIOUS
  <2> DEFINE v == [n \in C \cup {m} |-> IF n = m THEN a ELSE w[n]]
  <2>1. m \notin C
    BY <1>2, <2>c DEF Copies
  <2>2. \A n \in C : w[n] # a
    BY <1>1, <1>5, <1>8, <2>c DEF Charged, Adding
  <2>3. v \in Injection(C \cup {m}, Actors)
    BY <1>5, <1>6, <2>c, <2>1, <2>2 DEF Charged, Injection, IsInjective
  <2>4. \A n \in C \cup {m} : ~Adding(v[n], i)'
    BY <1>4, <1>5, <1>6, <2>c, <2>1 DEF Charged
  <2> HIDE DEF v
  <2>5. Charged(Copies(i), i, v)'
    BY <1>3, <1>8, <2>c, <2>3, <2>4 DEF Charged
  <2> QED
    BY <2>5
<1> QED
  BY <1>7, <1>8

LEMMA NextCopies == TypeInv /\ CarriesInv /\ CopiesInv /\ [Next]_vars => CopiesInv'
<1> SUFFICES ASSUME TypeInv, CarriesInv, CopiesInv, [Next]_vars
             PROVE  CopiesInv'
  OBVIOUS
<1>0. ssh2keys \in Seq(Key)
  BY DEF TypeInv, TypeOK, TypeStore
<1>1. ASSUME ssh2keys' \in {ssh2keys, Live, <<>>} PROVE Fewer
  BY <1>0, <1>1, SameFewer, EmptyFewer, LiveFewer
<1>2. ASSUME NEW a \in Actors, \A b \in Actors \ {a} : Untouched(b), pc'[a] # "push" PROVE NoneStarts
  BY <1>2 DEF NoneStarts, Adding, Untouched
<1>3. ASSUME NEW t \in Threads,
             \/ \E r \in Requests : Receive(t, r)
             \/ HandlerStep(t) /\ ~SignWithNoKey(t)
             \/ OpenDialog(t) \/ CloseDialog(t)
      PROVE  CopiesInv'
  <2>1. pc'[t] # "push"
    BY <1>3, ThreadMoves DEF FreeLabels
  <2> QED
    BY <1>1, <1>2, <1>3, <2>1, ThreadMoves, FewerCharged
<1>4. ASSUME NEW why, Die(why) PROVE CopiesInv'
  <2>1. NoneStarts
    BY <1>4, EndMoves DEF NoneStarts, Adding, FreeLabels
  <2> QED
    BY <1>4, <2>1, EndMoves, EmptyFewer, FewerCharged
<1>5. ASSUME NEW t \in Threads, SignWithNoKey(t) \/ \E r \in Requests : ReceiveMalformedAdd(t, r)
      PROVE  CopiesInv'
  BY <1>4, <1>5 DEF SignWithNoKey, ReceiveMalformedAdd
<1>6. CASE Kill \/ RaceCrash
  BY <1>4, <1>6 DEF Kill, RaceCrash
<1>7. ASSUME NEW a \in Actors, StoreStep(a)
      PROVE  CopiesInv'
  <2>1. \A b \in Actors \ {a} : Untouched(b)
    BY <1>7, OperationMoves
  <2>2. CASE pc[a] = "add" /\ pc'[a] = "push" /\ UNCHANGED <<req, key, ssh2keys>> /\ ~InStore(req[a].id)
    BY <2>1, <2>2, CheckCharged
  <2>3. CASE Push(a) /\ pc'[a] \in FreeLabels
    BY <2>1, <2>3, PushCharged
  <2>4. CASE /\ pc'[a] \in FreeLabels \cup {"copy", "erase"}
             /\ \/ ssh2keys' \in {ssh2keys, Live}
                \/ index[a] \in 1..Len(ssh2keys) /\ ssh2keys' = Without(ssh2keys, index[a])
    <3>1. NoneStarts
      BY <1>2, <2>1, <2>4 DEF FreeLabels
    <3>2. Fewer
      BY <1>0, <1>1, <2>4, WithoutFewer
    <3> QED
      BY <3>1, <3>2, FewerCharged
  <2> QED
    BY <1>7, <2>2, <2>3, <2>4, OperationMoves
<1>8. CASE MainStep \/ KeylistUpdate \/ User
  <2>1. pc'[Main] # "push"
    BY <1>8, MainMoves DEF FreeLabels
  <2> QED
    BY <1>1, <1>2, <1>8, <2>1, MainMoves, FewerCharged
<1>9. CASE UNCHANGED vars \/ Clock \/ Restart \/ \E n \in DOMAIN stack : Tick(n)
  <2>1. NoneStarts
    BY <1>9, OtherMoves DEF NoneStarts, Adding, Untouched, FreeLabels
  <2> QED
    BY <1>9, <2>1, OtherMoves, SameFewer, FewerCharged
<1> QED
  BY <1>3, <1>5, <1>6, <1>7, <1>8, <1>9 DEF Next, HandlerStep

\* keystore_add(), without a lock: of the threads and windows that add a key at
\* the same time each leaves at most one copy of it in the store, whatever is
\* removed, expires, is loaded or locked meanwhile.
THEOREM CopiesAreBounded == Spec => []OneCopyPerActor
<1>1. Init => CopiesInv
  <2> SUFFICES ASSUME Init, NEW i \in Ids PROVE \E w : Charged(Copies(i), i, w)
    BY DEF CopiesInv
  <2>1. Copies(i) = {}
    BY DEF Init, Copies
  <2>2. [n \in {} |-> n] \in Injection({}, Actors)
    BY DEF Injection, IsInjective
  <2> QED
    BY <2>1, <2>2 DEF Charged
<1>2. CopiesInv => OneCopyPerActor
  <2> SUFFICES ASSUME CopiesInv, NEW i \in Ids PROVE Cardinality(Copies(i)) <= Cardinality(Actors)
    BY DEF OneCopyPerActor
  <2>1. PICK w : w \in Injection(Copies(i), Actors)
    BY DEF CopiesInv, Charged
  <2>2. IsFiniteSet(Actors)
    BY ConstantsAssumption, FS_AddElement DEF Actors
  <2> QED
    BY <2>1, <2>2, FS_Injection
<1> QED
  BY <1>1, <1>2, NextCopies, TypeInvariant, CarriesInvariant, PTL DEF Spec

-----------------------------------------------------------------------------
(* An operation of the store, alone.  keystore.cpp takes no lock, and the   *)
(* runs show what comes of it.  What follows is what a lock would give: as  *)
(* long as nobody changes the vector between the two halves of an           *)
(* operation of keystore.cpp, the search and the use of its index, the      *)
(* check and the push_back(), the store is what it is meant to be, with any *)
(* number of threads, windows, restarts.                                    *)

Undisturbed ==
  \A a \in Actors : pc[a] \in {"copy", "erase", "push"} => ssh2keys' = ssh2keys \/ pc'[a] # pc[a]

OneAtATime == [][Undisturbed]_vars

\* What an actor has looked up is what its request names.
Holds(a) ==
  /\ pc[a] = "push" => ~InStore(req[a].id)
  /\ pc[a] \in {"copy", "erase"} /\ index[a] # 0 =>
       index[a] \in DOMAIN ssh2keys /\ ssh2keys[index[a]].id = req[a].id
  /\ pc[a] = "sign" /\ key[a] # NoKey => key[a].id = req[a].id

StoreInv == Different(ssh2keys) /\ \A a \in Actors : Holds(a)

LEMMA FreeHolds ==
  ASSUME NEW a \in Actors, pc'[a] \in FreeLabels
  PROVE  Holds(a)'
  BY DEF FreeLabels, Holds

LEMMA UntouchedHolds ==
  ASSUME Undisturbed, NEW a \in Actors, Holds(a), Untouched(a)
  PROVE  Holds(a)'
<1>1. CASE pc[a] \in {"copy", "erase", "push"}
  <2>1. ssh2keys' = ssh2keys
    BY <1>1 DEF Undisturbed, Untouched
  <2> QED
    BY <2>1 DEF Holds, Untouched, InStore
<1>2. CASE pc[a] \notin {"copy", "erase", "push"}
  BY <1>2 DEF Holds, Untouched
<1> QED
  BY <1>1, <1>2

\* Of a step of one actor only what it holds needs to be looked at.
LEMMA OneActs ==
  ASSUME StoreInv, Undisturbed, NEW a \in Actors, \A b \in Actors \ {a} : Untouched(b),
         Holds(a)', Different(ssh2keys)'
  PROVE  StoreInv'
<1>1. \A b \in Actors : Holds(b)'
  BY UntouchedHolds DEF StoreInv
<1> QED
  BY <1>1 DEF StoreInv

LEMMA StoreSmaller ==
  ASSUME ssh2keys \in Seq(Key), Different(ssh2keys), ssh2keys' \in {ssh2keys, Live, <<>>}
  PROVE  Different(ssh2keys)'
<1>1. CASE ssh2keys' = Live
  BY <1>1, LiveDiffers DEF Different
<1>2. CASE ssh2keys' \in {ssh2keys, <<>>}
  BY <1>2 DEF Different
<1> QED
  BY <1>1, <1>2

\* keystore.cpp.
LEMMA OperationStore ==
  ASSUME TypeInv, CarriesInv, StoreInv, Undisturbed, NEW a \in Actors, StoreStep(a)
  PROVE  StoreInv'
<1> USE DEF storeVars, settingVars, acceptVars, threadVars, guiVars, ghostVars, Running
<1>0. pc \in [Actors -> Labels] /\ req \in [Actors -> Request \cup {NoReq}]
      /\ key \in [Actors -> Key \cup {NoKey}] /\ index \in [Actors -> Nat] /\ ssh2keys \in Seq(Key)
  BY DEF TypeInv, TypeOK, TypePlaces, TypeHands, TypeStore
<1>1. Holds(a) /\ Different(ssh2keys) /\ \A b \in Actors \ {a} : Untouched(b)
  BY OperationMoves DEF StoreInv
<1>2. CASE Search(a)
  <2>1. /\ ssh2keys' = Live /\ index' = [index EXCEPT ![a] = Position(Live, req[a].id)]
        /\ pc' = [pc EXCEPT ![a] = pc'[a]] /\ pc'[a] \in {"copy", "erase"} /\ UNCHANGED <<req, key>>
    BY <1>0, <1>2 DEF Search, Goto
  <2>2. Different(ssh2keys)'
    BY <1>0, <1>1, <2>1, StoreSmaller
  <2>3. Live \in Seq(Key)
    BY <1>0, LiveProperties
  <2>4. PICK n \in 0..Len(Live) : n = Position(Live, req[a].id) /\ (n # 0 => Live[n].id = req[a].id)
    BY <2>3, PositionProperties
  <2>5. n # 0 => n \in DOMAIN Live
    BY <2>3
  <2>6. Holds(a)'
    BY <1>0, <2>1, <2>4, <2>5 DEF Holds
  <2> QED
    BY <1>1, <2>2, <2>6, OneActs
<1>3. CASE AddCheck(a)
  <2>1. Different(ssh2keys)'
    BY <1>1, <1>3 DEF AddCheck, Different
  <2>2. CASE InStore(req[a].id)
    BY <1>1, <1>3, <2>1, <2>2, ReturnsFree, FreeHolds, OneActs DEF AddCheck
  <2>3. CASE ~InStore(req[a].id)
    <3>1. pc[a] = "add" /\ pc' = [pc EXCEPT ![a] = "push"] /\ UNCHANGED <<req, key, index, ssh2keys>>
      BY <1>3, <2>3 DEF AddCheck, Goto
    <3>2. Holds(a)'
      BY <1>0, <2>3, <3>1 DEF Holds, InStore
    <3> QED
      BY <1>1, <2>1, <3>2, OneActs
  <2> QED
    BY <2>2, <2>3
<1>4. CASE Push(a)
  <2>1. pc[a] = "push" /\ Return(a, "success") /\ ssh2keys' = Append(ssh2keys, key[a])
    BY <1>4 DEF Push
  <2>2. key[a] \in Key /\ key[a].id = req[a].id /\ ~InStore(req[a].id)
    BY <1>1, <2>1 DEF Holds, TypeInv, InHand, CarriesInv, Carries
  <2>3. \A n \in DOMAIN ssh2keys : ssh2keys[n].id # key[a].id
    BY <2>2 DEF InStore
  <2>4. Different(Append(ssh2keys, key[a]))
    BY <1>0, <1>1, <2>2, <2>3, AppendDiffers
  <2>5. Different(ssh2keys)'
    BY <2>1, <2>4 DEF Different
  <2> QED
    BY <2>1, <2>5, ReturnsFree, FreeHolds, OneActs
<1>5. CASE Erase(a)
  <2>1. Return(a, "failure") \/ Return(a, "success")
    BY <1>5 DEF Erase
  <2>2. Different(ssh2keys)'
    <3>1. CASE index[a] = 0
      BY <1>1, <1>5, <3>1 DEF Erase, Different
    <3>2. CASE index[a] # 0
      <4>1. index[a] \in 1..Len(ssh2keys) /\ ssh2keys' = Without(ssh2keys, index[a])
        BY <1>0, <1>5, <3>2 DEF Erase
      <4>2. Different(Without(ssh2keys, index[a]))
        BY <1>0, <1>1, <4>1, WithoutDiffers
      <4> QED
        BY <4>1, <4>2 DEF Different
    <3> QED
      BY <3>1, <3>2
  <2> QED
    BY <2>1, <2>2, ReturnsFree, FreeHolds, OneActs
<1> QED
  BY <1>2, <1>3, <1>4, <1>5 DEF StoreStep

LEMMA NextStore ==
  ASSUME TypeInv, CarriesInv, StoreInv, Undisturbed, [Next]_vars
  PROVE  StoreInv'
<1>0. ssh2keys \in Seq(Key) /\ Different(ssh2keys)
  BY DEF TypeInv, TypeOK, TypeStore, StoreInv
<1>1. ASSUME NEW t \in Threads,
             \/ \E r \in Requests : Receive(t, r)
             \/ HandlerStep(t) /\ ~SignWithNoKey(t)
             \/ OpenDialog(t) \/ CloseDialog(t)
      PROVE  StoreInv'
  <2>1. t \in Actors /\ Holds(t)
    BY DEF Actors, StoreInv
  <2>2. Holds(t)'
    BY <1>1, <2>1, ThreadMoves, FreeHolds DEF Holds
  <2>3. Different(ssh2keys)'
    BY <1>0, <1>1, ThreadMoves, StoreSmaller
  <2> QED
    BY <1>1, <2>1, <2>2, <2>3, ThreadMoves, OneActs
<1>2. ASSUME NEW why, Die(why) PROVE StoreInv'
  BY <1>2, EndMoves, FreeHolds DEF StoreInv, Different
<1>3. ASSUME NEW t \in Threads, SignWithNoKey(t) \/ \E r \in Requests : ReceiveMalformedAdd(t, r)
      PROVE  StoreInv'
  BY <1>2, <1>3 DEF SignWithNoKey, ReceiveMalformedAdd
<1>4. CASE Kill \/ RaceCrash
  BY <1>2, <1>4 DEF Kill, RaceCrash
<1>5. ASSUME NEW a \in Actors, StoreStep(a)
      PROVE  StoreInv'
  BY <1>5, OperationStore
<1>6. CASE MainStep \/ KeylistUpdate \/ User
  <2>1. Holds(Main)'
    BY <1>6, MainMoves, FreeHolds DEF Holds
  <2>2. Different(ssh2keys)'
    BY <1>0, <1>6, MainMoves, StoreSmaller
  <2> QED
    BY <1>6, <2>1, <2>2, MainMoves, OneActs
<1>7. CASE UNCHANGED vars \/ Clock \/ Restart \/ \E n \in DOMAIN stack : Tick(n)
  <2>1. \A a \in Actors : Holds(a)'
    BY <1>7, OtherMoves, UntouchedHolds, FreeHolds DEF StoreInv
  <2> QED
    BY <1>0, <1>7, <2>1, OtherMoves DEF StoreInv, Different
<1> QED
  BY <1>1, <1>3, <1>4, <1>5, <1>6, <1>7 DEF Next, HandlerStep

LEMMA StoreInvariant == Spec /\ OneAtATime => []StoreInv
<1>1. Init => StoreInv
  BY DEF Init, StoreInv, Different, Holds
<1>2. TypeInv /\ CarriesInv /\ StoreInv /\ [Next]_vars /\ [Undisturbed]_vars => StoreInv'
  <2> SUFFICES ASSUME TypeInv, CarriesInv, StoreInv, [Next]_vars, [Undisturbed]_vars
               PROVE  StoreInv'
    OBVIOUS
  <2>1. Undisturbed
    BY DEF vars, Undisturbed
  <2> QED
    BY <2>1, NextStore
<1> QED
  BY <1>1, <1>2, TypeInvariant, CarriesInvariant, PTL DEF Spec, OneAtATime

\* keystore_add(): with nobody between the check and the push_back(), no key is in
\* the store twice, whatever expires, is erased or is loaded meanwhile.
LEMMA KeysDiffer == Spec /\ OneAtATime => []NoDuplicateKeys
<1>1. StoreInv => NoDuplicateKeys
  BY DEF StoreInv, Different, NoDuplicateKeys
<1> QED
  BY <1>1, StoreInvariant, PTL

\* keystore_get_from_blob(): with nobody between the search and the copy, the key
\* that signs is the one asked for.
LEMMA SignsRight == Spec /\ OneAtATime => []SignsWithRequestedKey
<1>1. StoreInv => SignsWithRequestedKey
  BY DEF StoreInv, Holds, SignsWithRequestedKey, Actors
<1> QED
  BY <1>1, StoreInvariant, PTL

\* An actor about to erase leaves its place by Erase, or the store stays as it is.
LEMMA WhoErases ==
  ASSUME TypeInv, [Next]_vars, NEW a \in Actors,
         pc[a] = "erase", pc'[a] # "erase", status' = "up"
  PROVE  Erase(a) \/ ssh2keys' = ssh2keys
<1> USE DEF storeVars, settingVars, acceptVars, threadVars, guiVars, ghostVars, Running, MainLoop, Answer
<1>0. pc \in [Actors -> Labels] /\ Threads \subseteq Actors /\ Main \in Actors
  BY DEF Actors, TypeInv, TypeOK, TypePlaces
<1>1. ASSUME NEW t \in Threads,
             \/ \E r \in Requests : Receive(t, r)
             \/ HandlerStep(t) /\ ~SignWithNoKey(t)
             \/ OpenDialog(t) \/ CloseDialog(t)
      PROVE  ssh2keys' = ssh2keys
  <2>1. CASE CloseDialog(t)
    BY <2>1 DEF CloseDialog
  <2>2. CASE OpenDialog(t)
    BY <2>2 DEF OpenDialog
  <2>3. CASE HandlerStep(t) /\ ~SignWithNoKey(t)
    <3>1. pc[t] # "erase" /\ (pc' = [pc EXCEPT ![t] = pc'[t]])
      BY <1>0, <2>3 DEF HandlerStep, ReadDecision, ReadPolicy, Decide, List, Copy, Sign, Exist,
         RemoveAll, Reply, Goto
    <3> QED
      BY <1>0, <3>1
  <2>4. ASSUME NEW r \in Requests, Receive(t, r) PROVE ssh2keys' = ssh2keys
    BY <2>4 DEF Receive
  <2> QED
    BY <1>1, <2>1, <2>2, <2>3, <2>4
<1>2. ASSUME NEW why, why # "up", Die(why) PROVE FALSE
  BY <1>2 DEF Die
<1>3. ASSUME NEW t \in Threads, SignWithNoKey(t) \/ \E r \in Requests : ReceiveMalformedAdd(t, r)
      PROVE  FALSE
  BY <1>2, <1>3 DEF SignWithNoKey, ReceiveMalformedAdd
<1>4. CASE Kill \/ RaceCrash
  BY <1>2, <1>4 DEF Kill, RaceCrash
<1>5. ASSUME NEW b \in Actors, StoreStep(b)
      PROVE  Erase(a)
  <2>1. pc[b] \in {"get", "search", "add", "push", "erase"}
    BY <1>5 DEF StoreStep, Search, AddCheck, Push, Erase
  <2>2. CASE b # a
    BY <1>0, <1>5, <2>2 DEF StoreStep, Search, AddCheck, Push, Erase, Return, Goto
  <2>3. CASE b = a
    BY <1>5, <2>3 DEF StoreStep, Search, AddCheck, Push
  <2> QED
    BY <2>2, <2>3
<1>6. CASE MainStep \/ KeylistUpdate \/ User
  <2>1. pc[Main] # "erase"
    BY <1>6 DEF MainStep, User, KeylistUpdate, RegisterView, Forget, Probe, LoadFailed, Load, UserAnswers,
       AnswerPassphrase, OpenView, CloseView, Lock, ClearDecisions, GuiAdd, AnswerOffer, GuiRemove, SetPolicy
  <2>2. a = Main
    BY <1>0, <1>6 DEF MainStep, User, KeylistUpdate, RegisterView, Forget, Probe, Unlock, LoadFailed, Load, UserAnswers,
       AnswerPassphrase, OpenView, CloseView, Lock, ClearDecisions, GuiAdd, BeginLoad, AnswerOffer, GuiRemove, SetPolicy,
       Return, Goto
  <2> QED
    BY <2>1, <2>2
<1>7. CASE UNCHANGED vars \/ Clock \/ Restart \/ \E n \in DOMAIN stack : Tick(n)
  BY <1>7 DEF vars, Clock, Tick, Restart
<1> QED
  BY <1>1, <1>3, <1>4, <1>5, <1>6, <1>7 DEF Next, HandlerStep

\* keystore_remove(): with nobody between the search and the erase(), only the key
\* asked for leaves the store, and every other one keeps its place in it.
LEMMA ErasesRight == Spec /\ OneAtATime => ErasesRequestedKey
<1> DEFINE A == \A a \in Actors : pc[a] = "erase" /\ pc'[a] # "erase" /\ status' = "up"
                  => \A n \in DOMAIN ssh2keys :
                       \/ ssh2keys[n].id = req[a].id
                       \/ \E m \in DOMAIN ssh2keys' : ssh2keys'[m] = ssh2keys[n]
<1>1. ASSUME TypeInv, StoreInv, [Next]_vars
      PROVE  A
  <2> SUFFICES ASSUME NEW a \in Actors, pc[a] = "erase", pc'[a] # "erase", status' = "up",
                      NEW n \in DOMAIN ssh2keys, ssh2keys[n].id # req[a].id
               PROVE  \E m \in DOMAIN ssh2keys' : ssh2keys'[m] = ssh2keys[n]
    OBVIOUS
  <2>1. CASE ssh2keys' = ssh2keys
    BY <2>1
  <2>2. CASE Erase(a)
    <3>1. CASE index[a] = 0
      BY <2>2, <3>1 DEF Erase, storeVars
    <3>2. CASE index[a] # 0
      <4>1. index[a] \in DOMAIN ssh2keys /\ ssh2keys[index[a]].id = req[a].id
        BY <1>1, <3>2 DEF StoreInv, Holds
      <4>2. ssh2keys \in Seq(Key) /\ index[a] \in 1..Len(ssh2keys) /\ n # index[a]
        BY <1>1, <4>1 DEF TypeInv, TypeOK, TypeStore
      <4>3. ssh2keys' = Without(ssh2keys, index[a])
        BY <2>2, <3>2 DEF Erase
      <4> QED
        BY <4>2, <4>3, WithoutProperties
    <3> QED
      BY <3>1, <3>2
  <2> QED
    BY <1>1, <2>1, <2>2, WhoErases
<1>2. TypeInv /\ StoreInv /\ [Next]_vars => [A]_vars
  BY <1>1
<1> QED
  BY <1>2, TypeInvariant, StoreInvariant, PTL DEF Spec, ErasesRequestedKey

(***************************************************************************)
(* The hypothesis is met where there is nobody to disturb: by one server    *)
(* thread in a process whose windows add, remove, show and forget no keys.  *)

Alone ==
  /\ \E t : Threads = {t}
  /\ InitStartup = {{}}
  /\ GuiOps \subseteq {"policy", "clear", "kill"}

\* The main thread has no key to load, no window to fill, only dialogs to run.
Resting ==
  /\ pc[Main] = "idle"
  /\ loading = {} /\ startup = {} /\ offers = {} /\ ~refresh /\ ~registered
  /\ \A n \in DOMAIN stack : stack[n].kind = "confirm"

LEMMA ThreadLeavesMainResting ==
  ASSUME TypeInv, Resting, NEW t \in Threads,
         \/ \E r \in Requests : Receive(t, r)
         \/ HandlerStep(t) /\ ~SignWithNoKey(t)
         \/ OpenDialog(t) \/ CloseDialog(t)
         \/ StoreStep(t)
  PROVE  Resting'
<1> USE DEF storeVars, settingVars, acceptVars, threadVars, guiVars, ghostVars, Running, Answer
<1>0. pc \in [Actors -> Labels] /\ t \in Actors /\ t # Main /\ Main \in Actors /\ stack \in Seq(Frames)
  BY ConstantsAssumption DEF Actors, TypeInv, TypeOK, TypePlaces, TypeStack
<1>1. pc'[Main] = pc[Main]
  BY <1>0 DEF HandlerStep, Receive, ReadDecision, ReadPolicy, Decide, List, Copy, Sign, Exist, RemoveAll, Reply,
     OpenDialog, CloseDialog, StoreStep, Search, AddCheck, Push, Erase, Return, Goto
<1>2. UNCHANGED <<loading, startup, offers, registered>> /\ (UNCHANGED refresh \/ CallListeners)
  BY <1>0 DEF Resting, HandlerStep, Receive, ReadDecision, ReadPolicy, Decide, List, Copy, Sign, Exist, RemoveAll, Reply,
     OpenDialog, CloseDialog, StoreStep, Search, AddCheck, Push, Erase, Return
<1>3. ~refresh'
  <2>1. ~refresh /\ ~registered
    BY DEF Resting
  <2>2. CASE CallListeners
    BY <2>1, <2>2 DEF CallListeners
  <2> QED
    BY <1>2, <2>1, <2>2
<1>4. stack' \in {stack, Append(stack, Frame("confirm", t, NoReq)), Pop}
  BY <1>0 DEF HandlerStep, Receive, ReadDecision, ReadPolicy, Decide, List, Copy, Sign, Exist, RemoveAll, Reply,
     OpenDialog, CloseDialog, StoreStep, Search, AddCheck, Push, Erase
<1>5. \A n \in DOMAIN stack' : stack'[n].kind = "confirm"
  BY <1>0, <1>4 DEF Resting, Frame, Pop
<1> QED
  BY <1>1, <1>2, <1>3, <1>5 DEF Resting

LEMMA AloneRests ==
  ASSUME Alone, TypeInv, Resting, [Next]_vars
  PROVE  Resting'
<1> USE DEF storeVars, settingVars, acceptVars, threadVars, guiVars, ghostVars, Running, MainLoop
<1>0. pc \in [Actors -> Labels] /\ Main \in Actors /\ stack \in Seq(Frames) /\ Actors = Threads \cup {Main}
  BY DEF Actors, TypeInv, TypeOK, TypePlaces, TypeStack
<1>1. ASSUME NEW t \in Threads,
             \/ \E r \in Requests : Receive(t, r)
             \/ HandlerStep(t) /\ ~SignWithNoKey(t)
             \/ OpenDialog(t) \/ CloseDialog(t)
             \/ StoreStep(t)
      PROVE  Resting'
  BY <1>1, ThreadLeavesMainResting
<1>2. ASSUME NEW why, Die(why) PROVE Resting'
  BY <1>0, <1>2 DEF Die, Resting
<1>3. ASSUME NEW t \in Threads, SignWithNoKey(t) \/ \E r \in Requests : ReceiveMalformedAdd(t, r)
      PROVE  Resting'
  BY <1>2, <1>3 DEF SignWithNoKey, ReceiveMalformedAdd
<1>4. CASE Kill \/ RaceCrash
  BY <1>2, <1>4 DEF Kill, RaceCrash
<1>5. CASE StoreStep(Main) \/ MainStep \/ KeylistUpdate
  BY <1>5 DEF Resting, StoreStep, Search, AddCheck, Push, Erase, MainStep, RegisterView, Forget, Probe, LoadFailed,
     Load, KeylistUpdate
<1>6. CASE UNCHANGED vars \/ Clock \/ Restart
  BY <1>0, <1>6 DEF vars, Clock, Restart, Goto, Resting
<1>7. CASE \E n \in DOMAIN stack : Tick(n)
  BY <1>0, <1>7 DEF Tick, Resting, Frames
<1>8. CASE User
  <2>1. ~TopIs("view") /\ ~TopIs("passphrase")
    BY <1>0 DEF TopIs, Top, Resting
  <2>2. ASSUME NEW result, NEW remember, UserAnswers(result, remember) PROVE Resting'
    BY <1>0, <2>2 DEF UserAnswers, Resting, Frames
  <2>3. CASE ClearDecisions \/ \E b \in BOOLEAN : SetPolicy(b)
    BY <2>3 DEF ClearDecisions, SetPolicy, Resting
  <2>4. ~OpenView /\ ~CloseView /\ ~Lock /\ (\A given \in BOOLEAN : ~AnswerPassphrase(given))
    BY <2>1 DEF Alone, OpenView, CloseView, Lock, AnswerPassphrase
  <2>5. /\ \A i \in Ids : ~GuiAdd(i) /\ \A yes \in BOOLEAN : ~AnswerOffer(i, yes)
        /\ \A n \in DOMAIN listed : ~GuiRemove(n)
    BY DEF Alone, GuiAdd, AnswerOffer, GuiRemove, Resting
  <2> QED
    BY <1>8, <2>2, <2>3, <2>4, <2>5 DEF User
<1> QED
  BY <1>0, <1>1, <1>3, <1>4, <1>5, <1>6, <1>7, <1>8 DEF Next, HandlerStep

LEMMA AloneUndisturbed ==
  ASSUME Alone, TypeInv, Resting, [Next]_vars
  PROVE  Undisturbed
<1> USE DEF storeVars, settingVars, acceptVars, threadVars, guiVars, ghostVars, Running, MainLoop
<1>0. pc \in [Actors -> Labels] /\ Main \in Actors /\ Actors = Threads \cup {Main}
  BY DEF Actors, TypeInv, TypeOK, TypePlaces
<1>1. SUFFICES ASSUME NEW a \in Actors, pc[a] \in {"copy", "erase", "push"}, pc'[a] = pc[a]
               PROVE  ssh2keys' = ssh2keys
  BY DEF Undisturbed
<1>2. a \in Threads /\ \A t \in Threads : t = a
  BY <1>0, <1>1 DEF Alone, Resting
<1>3. ASSUME NEW why, Die(why) PROVE FALSE
  BY <1>1, <1>3 DEF Die
<1>4. ASSUME NEW t \in Threads,
             \/ \E r \in Requests : Receive(t, r) \/ ReceiveMalformedAdd(t, r)
             \/ HandlerStep(t) \/ OpenDialog(t) \/ CloseDialog(t) \/ StoreStep(t)
      PROVE  ssh2keys' = ssh2keys
  <2>1. t = a
    BY <1>2
  <2>2. ~SignWithNoKey(a) /\ \A r \in Requests : ~ReceiveMalformedAdd(a, r)
    BY <1>3 DEF SignWithNoKey, ReceiveMalformedAdd
  <2>3. CASE StoreStep(a)
    <3>1. pc'[a] # pc[a]
      BY <1>0, <1>2, <2>3, ConstantsAssumption DEF StoreStep, Search, AddCheck, Push, Erase, Return, Answer, Goto
    <3> QED
      BY <1>1, <3>1
  <2>4. CASE OpenDialog(a) \/ CloseDialog(a)
    BY <2>4 DEF OpenDialog, CloseDialog
  <2>5. CASE \E r \in Requests : Receive(a, r)
    BY <2>5 DEF Receive
  <2>6. CASE HandlerStep(a)
    BY <1>1, <2>2, <2>6 DEF HandlerStep, ReadDecision, ReadPolicy, Decide, List, Copy, Sign, Exist, RemoveAll, Reply
  <2> QED
    BY <1>4, <2>1, <2>2, <2>3, <2>4, <2>5, <2>6
<1>5. CASE Kill \/ RaceCrash
  BY <1>3, <1>5 DEF Kill, RaceCrash
<1>6. CASE StoreStep(Main) \/ MainStep \/ KeylistUpdate
  BY <1>6 DEF Resting, StoreStep, Search, AddCheck, Push, Erase, MainStep, RegisterView, Forget, Probe, LoadFailed,
     Load, KeylistUpdate
<1>7. CASE UNCHANGED vars \/ Clock \/ Restart \/ \E n \in DOMAIN stack : Tick(n)
  BY <1>7 DEF vars, Clock, Restart, Tick
<1>8. CASE User
  BY <1>8 DEF Alone, User, UserAnswers, AnswerPassphrase, OpenView, CloseView, Lock, ClearDecisions, GuiAdd,
     AnswerOffer, GuiRemove, SetPolicy
<1> QED
  BY <1>0, <1>4, <1>5, <1>6, <1>7, <1>8 DEF Next

\* One server thread, at rest otherwise: keystore.cpp needs no lock.
THEOREM AloneIsOneAtATime == ASSUME Alone PROVE Spec => OneAtATime
<1>1. Init => Resting
  BY DEF Init, Resting, Alone, Actors
<1>2. TypeInv /\ Resting /\ [Next]_vars => Resting'
  BY AloneRests
<1>3. TypeInv /\ Resting /\ [Next]_vars => [Undisturbed]_vars
  BY AloneUndisturbed
<1> QED
  BY <1>1, <1>2, <1>3, TypeInvariant, PTL DEF Spec, OneAtATime

\* keystore_add(): then the vector has no key twice.
THEOREM AloneKeysDiffer == ASSUME Alone PROVE Spec => []NoDuplicateKeys
BY AloneIsOneAtATime, KeysDiffer

\* keystore_get_from_blob(): then what is signed with is what was asked for.
THEOREM AloneSignsRight == ASSUME Alone PROVE Spec => []SignsWithRequestedKey
BY AloneIsOneAtATime, SignsRight

\* keystore_remove(): then what is erased is what was asked for.
THEOREM AloneErasesRight == ASSUME Alone PROVE Spec => ErasesRequestedKey
BY AloneIsOneAtATime, ErasesRight
=============================================================================
