---------------------------- MODULE AgentConsent ----------------------------
(***************************************************************************)
(* What accept_agent_request() promises, for any number of threads, keys   *)
(* and requests.  NamedKeyNeedsConsent is not inductive: that a thread     *)
(* back from a dialog may go on depends on what the dialog handed over,    *)
(* and that on what the user did to a frame of the main thread's stack     *)
(* while other dialogs came and went around it.                            *)
(***************************************************************************)
EXTENDS AgentTypes

\* A dialog that was answered yes belongs to a request with consent, and only
\* such an answer, to a request that needs no confirmation, is remembered.
Verdict(v, agreed, needed) ==
  /\ v.result = "ok" => agreed
  /\ v.remember => v.result = "ok" /\ ~needed

Consent(t) ==
  /\ Acting(t) => t \in consented \/ (value[t] = "accept" /\ ~required[t])
  /\ pc[t] = "asked" => Verdict(answer[t], t \in consented, required[t])

Serving(n, t) == stack[n].kind = "confirm" /\ stack[n].th = t

Dialogs ==
  /\ \A t \in Threads : pc[t] = "dialog" => \E n \in DOMAIN stack : Serving(n, t)
  /\ \A n \in DOMAIN stack, t \in Threads :
        Serving(n, t) => Verdict(stack[n], t \in consented, required[t])

ConsentInv == Dialogs /\ \A t \in Threads : Consent(t)

-----------------------------------------------------------------------------

\* What a step leaves alone of a thread it is not about.
Same(u) ==
  /\ pc'[u] = pc[u] /\ req'[u] = req[u] /\ value'[u] = value[u]
  /\ required'[u] = required[u] /\ answer'[u] = answer[u] /\ outcome'[u] = outcome[u]
  /\ (u \in consented' <=> u \in consented)

\* A thread a step is not about keeps its consent.
LEMMA ConsentElsewhere ==
  ASSUME NEW u \in Threads, Consent(u), Same(u)
  PROVE  Consent(u)'
  BY DEF Consent, Same, Acting, Verdict

\* A step of one actor, away from its dialog, needs to be looked at for that
\* actor alone.
LEMMA LocalStep ==
  ASSUME TypeInv, ConsentInv, NEW a \in Actors,
         pc[a] # "dialog", a \in Threads => pc'[a] # "dialog" /\ Consent(a)',
         stack' = stack,
         \A u \in Threads \ {a} : Same(u)
  PROVE  ConsentInv'
<1>1. \A u \in Threads : Consent(u)'
  BY ConsentElsewhere DEF ConsentInv
<1>2. \A u \in Threads : pc'[u] = "dialog" => u # a /\ pc[u] = "dialog"
  BY DEF Same
<1>3. \A n \in DOMAIN stack, u \in Threads : Serving(n, u) => u # a
  BY DEF TypeInv, Waiting, Serving
<1>4. Dialogs'
  <2>1. \A n \in DOMAIN stack, u \in Threads : Serving(n, u)' <=> Serving(n, u)
    BY DEF Serving
  <2>2. \A n \in DOMAIN stack, u \in Threads :
          Serving(n, u) => Verdict(stack[n], u \in consented', required'[u])
    BY <1>3 DEF ConsentInv, Dialogs, Same, Verdict
  <2>3. \A u \in Threads : pc'[u] = "dialog" => \E n \in DOMAIN stack : Serving(n, u)
    BY <1>2 DEF ConsentInv, Dialogs
  <2> QED
    BY <2>1, <2>2, <2>3 DEF Dialogs
<1> QED
  BY <1>1, <1>4 DEF ConsentInv

\* A step of the main thread that leaves the threads and the dialogs alone.
LEMMA MainLocalStep ==
  ASSUME TypeInv, ConsentInv, stack' = stack,
         \A u \in Threads : Same(u)
  PROVE  ConsentInv'
<1>1. \A u \in Threads : Consent(u)'
  BY ConsentElsewhere DEF ConsentInv
<1>2. Dialogs'
  BY DEF ConsentInv, Dialogs, Same, Serving, Verdict
<1> QED
  BY <1>1, <1>2 DEF ConsentInv

-----------------------------------------------------------------------------
(* The steps of a thread.                                                   *)

\* A request just received is not acted upon yet.
LEMMA ReceiveConsent ==
  ASSUME TypeInv, ConsentInv, NEW t \in Threads, NEW r \in Requests, Receive(t, r)
  PROVE  ConsentInv'
<1> USE DEF Receive, Running,
           storeVars, settingVars, acceptVars, threadVars, guiVars, ghostVars
<1>1. t \in Actors /\ pc[t] = "idle" /\ pc'[t] \in {"reply", "stored", "list", "removeall"}
  BY DEF TypeInv, TypeOK, TypePlaces, InHand, AcceptLabels, Goto, Answer, Actors
<1>2. stack' = stack
  OBVIOUS
<1>3. \A u \in Threads \ {t} : Same(u)
  BY DEF TypeInv, TypeOK, TypePlaces, TypeHands, TypeVerdicts, Goto, Answer, Same, Actors
<1>4. Consent(t)'
  <2>1. pc'[t] = "reply" => outcome'[t] = "failure"
    BY DEF TypeInv, TypeOK, TypePlaces, TypeVerdicts, Goto, Answer, Actors
  <2> QED
    BY <1>1, <2>1 DEF Consent, Acting
<1> QED
  BY <1>1, <1>2, <1>3, <1>4, LocalStep

\* A refusal on record ends the request.
LEMMA ReadDecisionConsent ==
  ASSUME TypeInv, ConsentInv, NEW t \in Threads, ReadDecision(t)
  PROVE  ConsentInv'
<1> USE DEF ReadDecision, Running,
           storeVars, settingVars, acceptVars, threadVars, guiVars, ghostVars
<1>1. t \in Actors /\ pc[t] = "stored" /\ pc'[t] \in {"reply", "policy"}
  BY DEF TypeInv, TypeOK, TypePlaces, InHand, AcceptLabels, Goto, Answer, Actors
<1>2. stack' = stack
  OBVIOUS
<1>3. \A u \in Threads \ {t} : Same(u)
  BY DEF TypeInv, TypeOK, TypePlaces, TypeHands, TypeVerdicts, Goto, Answer, Same, Actors
<1>4. Consent(t)'
  <2>1. pc'[t] = "reply" => outcome'[t] = "failure"
    BY DEF TypeInv, TypeOK, TypePlaces, TypeVerdicts, Goto, Answer, Actors
  <2> QED
    BY ONLY <1>1, <2>1 DEF Consent, Acting
<1> QED
  BY <1>1, <1>2, <1>3, <1>4, LocalStep

\* Without a dialog, a request goes on when "accept" is on record and no confirmation required.
LEMMA ReadPolicyConsent ==
  ASSUME TypeInv, ConsentInv, NEW t \in Threads, ReadPolicy(t)
  PROVE  ConsentInv'
<1> USE DEF ReadPolicy, Running,
           storeVars, settingVars, acceptVars, threadVars, guiVars, ghostVars
<1>1. t \in Actors /\ pc[t] = "policy" /\ pc'[t] \in {"ask", "get", "exist", "search"}
  BY DEF TypeInv, TypeOK, TypePlaces, InHand, AcceptLabels, Goto, Answer, Actors, AfterAccept, ConfirmOps
<1>2. stack' = stack
  OBVIOUS
<1>3. \A u \in Threads \ {t} : Same(u)
  BY DEF TypeInv, TypeOK, TypePlaces, TypeHands, TypeVerdicts, Goto, Answer, Same, Actors
<1>4. Consent(t)'
  <2>1. pc'[t] # "ask" => ~required'[t] /\ value'[t] = "accept"
    BY DEF TypeInv, TypeOK, TypePlaces, Goto, Actors
  <2> QED
    BY <1>1, <2>1 DEF Consent, ConsentInv, Acting
<1> QED
  BY <1>1, <1>2, <1>3, <1>4, LocalStep

\* A listing needs nobody's consent.
LEMMA ListConsent ==
  ASSUME TypeInv, ConsentInv, NEW t \in Threads, List(t)
  PROVE  ConsentInv'
<1> USE DEF List, Running,
           storeVars, settingVars, acceptVars, threadVars, guiVars, ghostVars
<1>1. t \in Actors /\ pc[t] = "list" /\ pc'[t] \in {"reply"}
  BY DEF TypeInv, TypeOK, TypePlaces, InHand, AcceptLabels, Goto, Answer, Actors
<1>2. stack' = stack
  OBVIOUS
<1>3. \A u \in Threads \ {t} : Same(u)
  BY DEF TypeInv, TypeOK, TypePlaces, TypeHands, TypeVerdicts, Goto, Answer, Same, Actors
<1>4. Consent(t)'
  BY <1>1 DEF Consent, Acting, TypeInv, TypeOK, TypeVerdicts, Answer
<1> QED
  BY <1>1, <1>2, <1>3, <1>4, LocalStep

\* Nor does the removal of everything.
LEMMA RemoveAllConsent ==
  ASSUME TypeInv, ConsentInv, NEW t \in Threads, RemoveAll(t)
  PROVE  ConsentInv'
<1> USE DEF RemoveAll, Running,
           storeVars, settingVars, acceptVars, threadVars, guiVars, ghostVars
<1>1. t \in Actors /\ pc[t] = "removeall" /\ pc'[t] \in {"reply"}
  BY DEF TypeInv, TypeOK, TypePlaces, InHand, AcceptLabels, Goto, Answer, Actors
<1>2. stack' = stack
  OBVIOUS
<1>3. \A u \in Threads \ {t} : Same(u)
  BY DEF TypeInv, TypeOK, TypePlaces, TypeHands, TypeVerdicts, Goto, Answer, Same, Actors
<1>4. Consent(t)'
  BY <1>1 DEF Consent, Acting, TypeInv, TypeOK, TypeVerdicts, Answer, InHand
<1> QED
  BY <1>1, <1>2, <1>3, <1>4, LocalStep

\* A key is copied for a request that has consent.
LEMMA CopyConsent ==
  ASSUME TypeInv, ConsentInv, NEW t \in Threads, Copy(t)
  PROVE  ConsentInv'
<1> USE DEF Copy, Running,
           storeVars, settingVars, acceptVars, threadVars, guiVars, ghostVars
<1>1. t \in Actors /\ pc[t] = "copy" /\ pc'[t] \in {"sign"}
  BY DEF TypeInv, TypeOK, TypePlaces, InHand, AcceptLabels, Goto, Answer, Actors
<1>2. stack' = stack
  OBVIOUS
<1>3. \A u \in Threads \ {t} : Same(u)
  BY DEF TypeInv, TypeOK, TypePlaces, TypeHands, TypeVerdicts, Goto, Answer, Same, Actors
<1>4. Consent(t)'
  BY <1>1 DEF Consent, ConsentInv, Acting
<1> QED
  BY <1>1, <1>2, <1>3, <1>4, LocalStep

\* A request that has consent is signed.
LEMMA SignConsent ==
  ASSUME TypeInv, ConsentInv, NEW t \in Threads, Sign(t)
  PROVE  ConsentInv'
<1> USE DEF Sign, Running,
           storeVars, settingVars, acceptVars, threadVars, guiVars, ghostVars
<1>1. t \in Actors /\ pc[t] = "sign" /\ pc'[t] \in {"reply"}
  BY DEF TypeInv, TypeOK, TypePlaces, InHand, AcceptLabels, Goto, Answer, Actors
<1>2. stack' = stack
  OBVIOUS
<1>3. \A u \in Threads \ {t} : Same(u)
  BY DEF TypeInv, TypeOK, TypePlaces, TypeHands, TypeVerdicts, Goto, Answer, Same, Actors
<1>4. Consent(t)'
  BY <1>1 DEF Consent, ConsentInv, Acting
<1> QED
  BY <1>1, <1>2, <1>3, <1>4, LocalStep

\* A request that has consent looks for its key.
LEMMA ExistConsent ==
  ASSUME TypeInv, ConsentInv, NEW t \in Threads, Exist(t)
  PROVE  ConsentInv'
<1> USE DEF Exist, Running,
           storeVars, settingVars, acceptVars, threadVars, guiVars, ghostVars
<1>1. t \in Actors /\ pc[t] = "exist" /\ pc'[t] \in {"reply", "add"}
  BY DEF TypeInv, TypeOK, TypePlaces, InHand, AcceptLabels, Goto, Answer, Actors
<1>2. stack' = stack
  OBVIOUS
<1>3. \A u \in Threads \ {t} : Same(u)
  BY DEF TypeInv, TypeOK, TypePlaces, TypeHands, TypeVerdicts, Goto, Answer, Same, Actors
<1>4. Consent(t)'
  BY <1>1 DEF Consent, ConsentInv, Acting
<1> QED
  BY <1>1, <1>2, <1>3, <1>4, LocalStep

\* A thread is done, and its consent is used up.
LEMMA ReplyConsent ==
  ASSUME TypeInv, ConsentInv, NEW t \in Threads, Reply(t)
  PROVE  ConsentInv'
<1> USE DEF Reply, Running,
           storeVars, settingVars, acceptVars, threadVars, guiVars, ghostVars
<1>1. t \in Actors /\ pc[t] = "reply" /\ pc'[t] \in {"idle"}
  BY DEF TypeInv, TypeOK, TypePlaces, InHand, AcceptLabels, Goto, Answer, Actors
<1>2. stack' = stack
  OBVIOUS
<1>3. \A u \in Threads \ {t} : Same(u)
  BY DEF TypeInv, TypeOK, TypePlaces, TypeHands, TypeVerdicts, Goto, Answer, Same, Actors
<1>4. Consent(t)'
  BY <1>1 DEF Consent, Acting
<1> QED
  BY <1>1, <1>2, <1>3, <1>4, LocalStep

\* Searches and store changes are made for requests that have consent, or for
\* the user at the main window.
LEMMA SearchConsent ==
  ASSUME TypeInv, ConsentInv, NEW a \in Actors, Search(a)
  PROVE  ConsentInv'
<1> USE DEF Search, Running, storeVars, settingVars, acceptVars, threadVars, guiVars, ghostVars
<1>1. pc[a] \in {"get", "search"} /\ pc'[a] \in {"copy", "erase"}
  BY DEF TypeInv, TypeOK, TypePlaces, Goto
<1>2. \A u \in Threads \ {a} : Same(u)
  BY DEF TypeInv, TypeOK, TypePlaces, Goto, Same, Actors
<1>3. a \in Threads => Consent(a)'
  BY <1>1 DEF Consent, ConsentInv, Acting
<1> QED
  BY <1>1, <1>2, <1>3, LocalStep

LEMMA AddCheckConsent ==
  ASSUME TypeInv, ConsentInv, NEW a \in Actors, AddCheck(a)
  PROVE  ConsentInv'
<1> USE DEF AddCheck, Running, storeVars, settingVars, acceptVars, threadVars, guiVars, ghostVars
<1>1. pc[a] = "add" /\ pc'[a] \in {"reply", "push", "load", "idle"}
  BY DEF TypeInv, TypeOK, TypePlaces, Goto, Return, Answer
<1>2. \A u \in Threads \ {a} : Same(u)
  BY DEF TypeInv, TypeOK, TypePlaces, TypeHands, TypeVerdicts, Goto, Return, Answer, Same, Actors
<1>3. a \in Threads => Consent(a)'
  BY <1>1 DEF Consent, ConsentInv, Acting
<1> QED
  BY <1>1, <1>2, <1>3, LocalStep

LEMMA PushConsent ==
  ASSUME TypeInv, ConsentInv, NEW a \in Actors, Push(a)
  PROVE  ConsentInv'
<1> USE DEF Push, Running, storeVars, settingVars, acceptVars, threadVars, guiVars, ghostVars
<1>1. pc[a] = "push" /\ pc'[a] \in {"reply", "load", "idle"}
  BY DEF TypeInv, TypeOK, TypePlaces, Goto, Return, Answer
<1>2. \A u \in Threads \ {a} : Same(u)
  BY DEF TypeInv, TypeOK, TypePlaces, TypeHands, TypeVerdicts, Goto, Return, Answer, Same, Actors
<1>3. a \in Threads => Consent(a)'
  BY <1>1 DEF Consent, ConsentInv, Acting
<1> QED
  BY <1>1, <1>2, <1>3, LocalStep

LEMMA EraseConsent ==
  ASSUME TypeInv, ConsentInv, NEW a \in Actors, Erase(a)
  PROVE  ConsentInv'
<1> USE DEF Erase, Running, storeVars, settingVars, acceptVars, threadVars, guiVars, ghostVars
<1>1. pc[a] = "erase" /\ pc'[a] \in {"reply", "load", "idle"}
  BY DEF TypeInv, TypeOK, TypePlaces, Goto, Return, Answer
<1>2. \A u \in Threads \ {a} : Same(u)
  BY DEF TypeInv, TypeOK, TypePlaces, TypeHands, TypeVerdicts, Goto, Return, Answer, Same, Actors
<1>3. a \in Threads => Consent(a)'
  BY <1>1 DEF Consent, ConsentInv, Acting
<1> QED
  BY <1>1, <1>2, <1>3, LocalStep

\* What the dialog of a thread returned decides its request, and is remembered
\* for the requests like it: no thread between its reading of the record and
\* its answer sees a refusal appear.
LEMMA DecideConsent ==
  ASSUME TypeInv, ConsentInv, NEW t \in Threads, Decide(t)
  PROVE  ConsentInv'
<1> USE DEF Decide, Running, storeVars, settingVars, acceptVars, threadVars, guiVars, ghostVars
<1>1. t \in Actors /\ pc[t] = "asked" /\ pc'[t] \in {"reply", "get", "exist", "search"}
  BY DEF TypeInv, TypeOK, TypePlaces, InHand, AcceptLabels, AfterAccept, ConfirmOps, Goto,
         Answer, Actors
<1>2. \A u \in Threads \ {t} : Same(u)
  BY DEF TypeInv, TypeOK, TypePlaces, TypeVerdicts, Goto, Answer, Same, Actors
<1>3. Verdict(answer[t], t \in consented, required[t])
  BY <1>1 DEF ConsentInv, Consent
<1>4. Consent(t)'
  <2>1. pc'[t] # "reply" => t \in consented
    BY <1>3 DEF TypeInv, TypeOK, TypePlaces, Goto, Answer, Actors, Verdict
  <2>2. pc'[t] = "reply" => outcome'[t] = "failure" \/ t \in consented
    BY <1>3 DEF TypeInv, TypeOK, TypePlaces, TypeVerdicts, Goto, Answer, Actors, Verdict
  <2> QED
    BY <1>1, <2>1, <2>2 DEF Consent, Acting
<1>5. \A u \in Threads \ {t} : Consent(u)'
  BY <1>2, ConsentElsewhere DEF ConsentInv
<1>6. Dialogs'
  <2>1. \A n \in DOMAIN stack, u \in Threads : Serving(n, u)' <=> Serving(n, u)
    BY DEF Serving
  <2>2. \A u \in Threads : pc'[u] = "dialog" => pc[u] = "dialog"
    BY <1>1, <1>2 DEF Same
  <2>3. \A n \in DOMAIN stack, u \in Threads :
        Verdict(stack[n], u \in consented, required[u])
          => Verdict(stack[n], u \in consented', required'[u])
    BY DEF Verdict
  <2>4. stack' = stack
    OBVIOUS
  <2> QED
    BY ONLY ConsentInv, <2>1, <2>2, <2>3, <2>4 DEF ConsentInv, Dialogs
<1> QED
  BY <1>4, <1>5, <1>6 DEF ConsentInv

-----------------------------------------------------------------------------
(* The steps of the main thread's loops.                                    *)

\* A dialog that opens has no verdict yet.
LEMMA OpenDialogConsent ==
  ASSUME TypeInv, ConsentInv, NEW t \in Threads, OpenDialog(t)
  PROVE  ConsentInv'
<1> USE DEF OpenDialog, MainLoop, Running, storeVars, settingVars, acceptVars,
           threadVars, guiVars, ghostVars
<1>1. pc[t] = "ask" /\ pc'[t] = "dialog" /\ \A u \in Threads \ {t} : pc'[u] = pc[u]
  BY DEF TypeInv, TypeOK, TypePlaces, Goto, Actors
<1>2. \A u \in Threads : Consent(u)'
  <2>1. \A u \in Threads : Consent(u) /\ Subject(u)' = Subject(u)
    BY DEF ConsentInv, Subject
  <2>2. /\ required' = required /\ value' = value /\ answer' = answer /\ req' = req
        /\ outcome' = outcome /\ confirmInfo' = confirmInfo /\ consented' = consented
    OBVIOUS
  <2> QED
    BY ONLY <1>1, <2>1, <2>2 DEF Consent, Acting, Verdict
<1>3. /\ DOMAIN stack = 1..Len(stack) /\ DOMAIN stack' = 1..Len(stack) + 1
      /\ Len(stack) \in Nat /\ \A n \in DOMAIN stack : stack'[n] = stack[n]
      /\ stack'[Len(stack) + 1] = Frame("confirm", t, NoReq)
  BY AppendProperties DEF TypeInv, TypeOK, TypeStack, Frame, Frames, Actors
<1>4. \A n \in DOMAIN stack' : n \in DOMAIN stack \/ stack'[n] = Frame("confirm", t, NoReq)
  BY <1>3
<1>5. DOMAIN stack \subseteq DOMAIN stack' /\ Len(stack) + 1 \in DOMAIN stack'
  BY <1>3
<1>6. \A n \in DOMAIN stack, u \in Threads : Serving(n, u)' <=> Serving(n, u)
  BY <1>3 DEF Serving
<1>7. \A n \in DOMAIN stack, u \in Threads :
        Verdict(stack[n], u \in consented, required[u])
          => Verdict(stack[n], u \in consented', required'[u])
  BY DEF Verdict
<1>8. \A u \in Threads : Verdict(Frame("confirm", t, NoReq), u \in consented', required'[u])
  <2>1. Frame("confirm", t, NoReq).result = "none" /\ Frame("confirm", t, NoReq).remember = FALSE
    BY DEF Frame
  <2> QED
    BY ONLY <2>1 DEF Verdict
<1>9. \A u \in Threads : pc'[u] = "dialog" => \E n \in DOMAIN stack' : Serving(n, u)'
  <2>1. \E n \in DOMAIN stack' : Serving(n, t)'
    BY ONLY <1>3, <1>5 DEF Serving, Frame
  <2> QED
    BY ONLY ConsentInv, <1>1, <1>5, <1>6, <2>1 DEF ConsentInv, Dialogs
<1>10. \A n \in DOMAIN stack', u \in Threads :
        Serving(n, u)' => Verdict(stack'[n], u \in consented', required'[u])
  BY ONLY ConsentInv, <1>3, <1>4, <1>6, <1>7, <1>8 DEF ConsentInv, Dialogs
<1> QED
  BY <1>2, <1>9, <1>10 DEF ConsentInv, Dialogs

\* exec() of the innermost loop returns: what holds of the dialogs that stay.
LEMMA PopConsent ==
  ASSUME TypeInv, ConsentInv, stack # <<>>, stack' = Pop,
         required' = required, consented' = consented
  PROVE  /\ \A n \in DOMAIN stack', u \in Threads :
              Serving(n, u)' => Verdict(stack'[n], u \in consented', required'[u])
         /\ \A n \in DOMAIN stack, u \in Threads :
              n # Len(stack) /\ Serving(n, u) => \E m \in DOMAIN stack' : Serving(m, u)'
<1>1. /\ DOMAIN stack = 1..Len(stack) /\ DOMAIN stack' = 1..Len(stack) - 1
      /\ Len(stack) \in Nat \ {0} /\ \A n \in DOMAIN stack' : stack'[n] = stack[n]
  BY PopProperties DEF TypeInv, TypeOK, TypeStack
<1>2. DOMAIN stack' = DOMAIN stack \ {Len(stack)}
  BY <1>1
<1>3. \A n \in DOMAIN stack', u \in Threads : Serving(n, u)' <=> Serving(n, u)
  BY <1>1 DEF Serving
<1>4. \A n \in DOMAIN stack, u \in Threads :
        Verdict(stack[n], u \in consented, required[u])
          => Verdict(stack[n], u \in consented', required'[u])
  BY DEF Verdict
<1> QED
  BY ONLY ConsentInv, <1>1, <1>2, <1>3, <1>4 DEF ConsentInv, Dialogs

\* The verdict of a dialog reaches the thread it was given for.
LEMMA CloseDialogConsent ==
  ASSUME TypeInv, ConsentInv, NEW t \in Threads, CloseDialog(t)
  PROVE  ConsentInv'
<1> USE DEF CloseDialog, MainLoop, Running, TopIs, storeVars, settingVars, acceptVars,
           threadVars, guiVars, ghostVars
<1>1. Len(stack) \in DOMAIN stack /\ Serving(Len(stack), t)
  BY PopProperties DEF TypeInv, TypeOK, TypeStack, Top, Serving
<1>2. Verdict(stack[Len(stack)], t \in consented, required[t]) /\ pc[t] = "dialog"
  BY <1>1 DEF ConsentInv, Dialogs, TypeInv, Waiting, Serving
<1>3. pc'[t] = "asked" /\ \A u \in Threads \ {t} : pc'[u] = pc[u]
  BY DEF TypeInv, TypeOK, TypePlaces, Goto, Actors
<1>4. /\ answer'[t] = [result |-> Top.result, remember |-> Top.remember]
      /\ \A u \in Threads \ {t} : answer'[u] = answer[u]
  BY DEF TypeInv, TypeOK, TypeVerdicts
<1>5. /\ required' = required /\ value' = value /\ req' = req /\ outcome' = outcome
      /\ confirmInfo' = confirmInfo /\ consented' = consented
  OBVIOUS
<1>6. \A u \in Threads : Consent(u)'
  <2>1. Verdict(answer'[t], t \in consented, required[t])
    BY <1>2, <1>4 DEF Verdict, Top
  <2>2. \A u \in Threads : Consent(u) /\ Subject(u)' = Subject(u)
    BY <1>5 DEF ConsentInv, Subject
  <2> QED
    BY ONLY <1>2, <1>3, <1>4, <1>5, <2>1, <2>2
    DEF Consent, Acting, Verdict
<1>7. \A u \in Threads : pc'[u] = "dialog" => \E n \in DOMAIN stack' : Serving(n, u)'
  <2> SUFFICES ASSUME NEW u \in Threads, pc'[u] = "dialog"
               PROVE  \E n \in DOMAIN stack' : Serving(n, u)'
    OBVIOUS
  <2>1. u # t /\ pc[u] = "dialog"
    BY <1>3
  <2>2. PICK n \in DOMAIN stack : Serving(n, u)
    BY <2>1 DEF ConsentInv, Dialogs
  <2>3. n # Len(stack)
    BY <1>1, <2>1, <2>2 DEF Serving
  <2> QED
    BY <2>2, <2>3, <1>5, PopConsent
<1> QED
  BY <1>5, <1>6, <1>7, PopConsent DEF ConsentInv, Dialogs

\* The user's answer is the verdict on the request of the innermost dialog.
LEMMA UserAnswersConsent ==
  ASSUME TypeInv, ConsentInv, NEW result \in {"ok", "cancel"}, NEW remember \in BOOLEAN,
         UserAnswers(result, remember)
  PROVE  ConsentInv'
<1> USE DEF UserAnswers, MainLoop, Running, TopIs, storeVars, settingVars, acceptVars,
           threadVars, guiVars, ghostVars
<1> DEFINE last == Len(stack)
<1>1. last \in DOMAIN stack /\ Serving(last, Top.th) /\ Top.th \in Threads
  BY PopProperties DEF TypeInv, TypeOK, TypeStack, Top, Serving, Waiting
<1>2. /\ DOMAIN stack' = DOMAIN stack /\ \A n \in DOMAIN stack \ {last} : stack'[n] = stack[n]
      /\ stack'[last].result = result /\ stack'[last].remember = remember
      /\ stack'[last].kind = stack[last].kind /\ stack'[last].th = stack[last].th
  <2> DEFINE f == [stack[last] EXCEPT !.result = result, !.remember = remember]
  <2>1. stack[last] \in Frames /\ last \in DOMAIN stack /\ stack \in Seq(Frames)
    BY <1>1 DEF TypeInv, TypeOK, TypeStack
  <2>2. /\ f.result = result /\ f.remember = remember
        /\ f.kind = stack[last].kind /\ f.th = stack[last].th
    BY <2>1 DEF Frames
  <2>3. stack' = [stack EXCEPT ![last] = f]
    BY <2>1 DEF Frames
  <2> HIDE DEF f
  <2> QED
    BY ONLY <2>1, <2>2, <2>3
<1>3. /\ required' = required /\ value' = value /\ req' = req /\ outcome' = outcome
      /\ confirmInfo' = confirmInfo /\ answer' = answer /\ pc' = pc
      /\ consented \subseteq consented' /\ (result = "ok" => Top.th \in consented')
      /\ (remember => result = "ok" /\ ~required[Top.th])
  OBVIOUS
<1>4. \A u \in Threads : Consent(u)'
  <2>1. \A u \in Threads : Consent(u) /\ Subject(u)' = Subject(u)
    BY <1>3 DEF ConsentInv, Subject
  <2> QED
    BY ONLY <1>3, <2>1 DEF Consent, Acting, Verdict
<1>5. \A n \in DOMAIN stack, u \in Threads : Serving(n, u)' <=> Serving(n, u)
  BY <1>2 DEF Serving
<1>6. \A n \in DOMAIN stack, u \in Threads :
        Serving(n, u) => Verdict(stack'[n], u \in consented', required'[u])
  <2> SUFFICES ASSUME NEW n \in DOMAIN stack, NEW u \in Threads, Serving(n, u)
               PROVE  Verdict(stack'[n], u \in consented', required'[u])
    OBVIOUS
  <2>1. CASE n = last
    <3>1. u = Top.th
      BY <2>1 DEF Serving, Top
    <3> QED
      BY <2>1, <3>1, <1>2, <1>3 DEF Verdict
  <2>2. CASE n # last
    <3>1. stack'[n] = stack[n] /\ Verdict(stack[n], u \in consented, required[u])
      BY <2>2, <1>2 DEF ConsentInv, Dialogs
    <3> QED
      BY <3>1, <1>3 DEF Verdict
  <2> QED
    BY <2>1, <2>2
<1>7. Dialogs'
  BY ONLY ConsentInv, <1>2, <1>3, <1>5, <1>6 DEF ConsentInv, Dialogs
<1> QED
  BY <1>4, <1>7 DEF ConsentInv

\* A time-out is a refusal of this one request.
LEMMA TickConsent ==
  ASSUME TypeInv, ConsentInv, NEW n \in DOMAIN stack, Tick(n)
  PROVE  ConsentInv'
<1> USE DEF Tick, MainLoop, Running, storeVars, settingVars, acceptVars,
           threadVars, guiVars, ghostVars
<1>1. /\ DOMAIN stack' = DOMAIN stack /\ \A m \in DOMAIN stack \ {n} : stack'[m] = stack[m]
      /\ stack'[n].kind = stack[n].kind /\ stack'[n].th = stack[n].th
      /\ stack'[n].result \in {"none", "cancel"} /\ stack'[n].remember = stack[n].remember
  <2> DEFINE f == [stack[n] EXCEPT !.ticks = @ + 1,
                                  !.result = IF stack[n].ticks + 1 >= Timeout THEN "cancel" ELSE @]
  <2>1. stack[n] \in Frames /\ n \in DOMAIN stack /\ stack \in Seq(Frames)
    BY DEF TypeInv, TypeOK, TypeStack
  <2>2. /\ f.result \in {"none", "cancel"} /\ f.remember = stack[n].remember
        /\ f.kind = stack[n].kind /\ f.th = stack[n].th
    BY <2>1 DEF Frames
  <2>3. stack' = [stack EXCEPT ![n] = f]
    BY <2>1 DEF Frames
  <2> HIDE DEF f
  <2> QED
    BY ONLY <2>1, <2>2, <2>3
<1>2. \A u \in Threads : Consent(u)'
  BY ConsentElsewhere DEF ConsentInv, Same
<1>3. \A m \in DOMAIN stack, u \in Threads : Serving(m, u)' <=> Serving(m, u)
  BY <1>1 DEF Serving
<1>4. \A m \in DOMAIN stack, u \in Threads :
        Serving(m, u) => Verdict(stack'[m], u \in consented', required'[u])
  <2> SUFFICES ASSUME NEW m \in DOMAIN stack, NEW u \in Threads, Serving(m, u)
               PROVE  Verdict(stack'[m], u \in consented', required'[u])
    OBVIOUS
  <2>1. Verdict(stack[m], u \in consented, required[u]) /\ required' = required /\ consented' = consented
    BY DEF ConsentInv, Dialogs
  <2>2. stack[n].result = "none"
    OBVIOUS
  <2> QED
    BY ONLY <2>1, <2>2, <1>1 DEF Verdict
<1>5. pc' = pc
  OBVIOUS
<1> QED
  BY ONLY ConsentInv, <1>1, <1>2, <1>3, <1>4, <1>5 DEF ConsentInv, Dialogs

\* Another loop nested in the dialogs is none of them.
LEMMA AppendConsent ==
  ASSUME TypeInv, ConsentInv, NEW f \in Frames, f.kind # "confirm",
         stack' = Append(stack, f), confirmInfo' = confirmInfo,
         \A u \in Threads : Same(u)
  PROVE  ConsentInv'
<1>1. /\ DOMAIN stack = 1..Len(stack) /\ DOMAIN stack' = 1..Len(stack) + 1
      /\ Len(stack) \in Nat /\ \A n \in DOMAIN stack : stack'[n] = stack[n]
      /\ stack'[Len(stack) + 1] = f
  BY AppendProperties DEF TypeInv, TypeOK, TypeStack
<1>2. /\ DOMAIN stack \subseteq DOMAIN stack'
      /\ \A n \in DOMAIN stack' : n \in DOMAIN stack \/ stack'[n].kind # "confirm"
  BY <1>1
<1>3. \A n \in DOMAIN stack', u \in Threads : Serving(n, u)' => n \in DOMAIN stack
  BY <1>2 DEF Serving
<1>4. \A n \in DOMAIN stack, u \in Threads : Serving(n, u)' <=> Serving(n, u)
  BY <1>1 DEF Serving
<1>5. \A u \in Threads : Consent(u)'
  BY ConsentElsewhere DEF ConsentInv
<1>6. \A n \in DOMAIN stack, u \in Threads :
        Verdict(stack[n], u \in consented, required[u])
          => Verdict(stack[n], u \in consented', required'[u])
  BY DEF Verdict, Same
<1>7. \A u \in Threads : Same(u)
  OBVIOUS
<1>8. Dialogs'
  BY ONLY ConsentInv, <1>1, <1>2, <1>3, <1>4, <1>6, <1>7 DEF ConsentInv, Dialogs, Same
<1> QED
  BY <1>5, <1>8 DEF ConsentInv

LEMMA RegisterViewConsent ==
  ASSUME TypeInv, ConsentInv, RegisterView
  PROVE  ConsentInv'
<1> USE DEF RegisterView, Running, storeVars, settingVars, acceptVars,
           threadVars, guiVars, ghostVars
<1>1. \A u \in Threads : Same(u)
  BY ConstantsAssumption DEF TypeInv, TypeOK, TypePlaces, Goto, Same, Actors
<1>2. Frame("view", Main, NoReq) \in Frames /\ Frame("view", Main, NoReq).kind = "view"
  BY DEF Frame, Frames, Actors
<1> QED
  BY <1>1, <1>2, AppendConsent

LEMMA ProbeConsent ==
  ASSUME TypeInv, ConsentInv, Probe
  PROVE  ConsentInv'
<1> USE DEF Probe, Unlock, Running, storeVars, settingVars, acceptVars,
           threadVars, guiVars, ghostVars
<1>1. \A u \in Threads : Same(u)
  BY ConstantsAssumption DEF TypeInv, TypeOK, TypePlaces, Goto, Same, Actors
<1> DEFINE f == Frame("passphrase", Main, req[Main])
<1>2. f \in Frames /\ f.kind = "passphrase"
  BY DEF TypeInv, InHand, Frame, Frames, Actors
<1>3. stack' = stack \/ stack' = Append(stack, f)
  OBVIOUS
<1> QED
  BY <1>1, <1>2, <1>3, AppendConsent, MainLocalStep

\* exec() of a loop that is no dialog returns.
LEMMA PopOtherConsent ==
  ASSUME TypeInv, ConsentInv, stack # <<>>, Top.kind # "confirm", stack' = Pop,
         required' = required, consented' = consented, confirmInfo' = confirmInfo,
         \A u \in Threads : Same(u)
  PROVE  ConsentInv'
<1>1. \A u \in Threads : Consent(u)'
  BY ConsentElsewhere DEF ConsentInv
<1>2. \A u \in Threads : ~Serving(Len(stack), u)
  BY DEF Serving, Top
<1>3. \A u \in Threads : pc'[u] = pc[u]
  BY DEF Same
<1>4. Dialogs'
  BY <1>2, <1>3, PopConsent DEF ConsentInv, Dialogs
<1> QED
  BY <1>1, <1>4 DEF ConsentInv

LEMMA CloseViewConsent ==
  ASSUME TypeInv, ConsentInv, CloseView
  PROVE  ConsentInv'
  BY PopOtherConsent DEF CloseView, TopIs, Same, settingVars, acceptVars, threadVars, ghostVars

LEMMA AnswerPassphraseConsent ==
  ASSUME TypeInv, ConsentInv, NEW given \in BOOLEAN, AnswerPassphrase(given)
  PROVE  ConsentInv'
<1> USE DEF AnswerPassphrase, TopIs, storeVars, settingVars, acceptVars,
           threadVars, guiVars, ghostVars
<1>1. \A u \in Threads : Same(u)
  BY ConstantsAssumption DEF TypeInv, TypeOK, TypePlaces, TypeHands, Goto, Same, Actors
<1> QED
  BY <1>1, PopOtherConsent

\* The main thread's other steps are no business of the dialogs.
LEMMA MainConsent ==
  ASSUME TypeInv, ConsentInv,
         \/ Forget \/ LoadFailed \/ KeylistUpdate \/ Clock \/ Restart \/ OpenView \/ Lock
         \/ \E i \in Ids : Load(i) \/ GuiAdd(i) \/ (\E yes \in BOOLEAN : AnswerOffer(i, yes))
         \/ \E n \in DOMAIN listed : GuiRemove(n)
         \/ \E b \in BOOLEAN : SetPolicy(b)
  PROVE  ConsentInv'
<1> USE DEF storeVars, settingVars, acceptVars,
           threadVars, guiVars, ghostVars
<1>1. /\ stack' = stack /\ confirmInfo' = confirmInfo /\ consented' = consented
      /\ value' = value /\ required' = required /\ answer' = answer /\ outcome' = outcome
  BY DEF Forget, LoadFailed, KeylistUpdate, Clock, Restart, OpenView, Lock, Load, GuiAdd,
         AnswerOffer, GuiRemove, SetPolicy, Return
<1>2. pc' = pc \/ \E l \in Labels : Goto(Main, l)
  BY DEF Forget, LoadFailed, KeylistUpdate, Clock, Restart, OpenView, Lock, Load, GuiAdd,
         AnswerOffer, GuiRemove, SetPolicy, BeginLoad, Return, Labels
<1>3. req' = req \/ \E r : req' = [req EXCEPT ![Main] = r]
  BY DEF Forget, LoadFailed, KeylistUpdate, Clock, Restart, OpenView, Lock, Load, GuiAdd,
         AnswerOffer, GuiRemove, SetPolicy, BeginLoad, Return
<1>4. \A u \in Threads : pc'[u] = pc[u] /\ req'[u] = req[u]
  BY <1>2, <1>3, ConstantsAssumption DEF TypeInv, TypeOK, TypePlaces, TypeHands, Goto, Actors
<1> QED
  BY <1>1, <1>4, MainLocalStep DEF Same

\* The records are cleared: what was read from them before stands.
LEMMA ClearDecisionsConsent ==
  ASSUME TypeInv, ConsentInv, ClearDecisions
  PROVE  ConsentInv'
<1>1. stack' = stack /\ \A u \in Threads : Same(u)
  BY DEF ClearDecisions, Same, acceptVars, threadVars, guiVars, ghostVars
<1> QED
  BY <1>1, MainLocalStep

\* A process that is gone acts for nobody.
LEMMA EndConsent ==
  ASSUME TypeInv, ConsentInv, NEW why, Die(why)
  PROVE  ConsentInv'
<1> USE DEF Die
<1>1. \A u \in Threads : pc'[u] = "idle"
  BY DEF Actors
<1>2. DOMAIN stack' = {}
  OBVIOUS
<1>3. \A u \in Threads : Consent(u)'
  BY <1>1 DEF Consent, Acting
<1>4. Dialogs'
  BY ONLY <1>1, <1>2 DEF Dialogs
<1> QED
  BY <1>3, <1>4 DEF ConsentInv

-----------------------------------------------------------------------------

LEMMA InitConsent == Init => ConsentInv
<1> SUFFICES ASSUME Init PROVE ConsentInv
  OBVIOUS
<1>1. \A u \in Threads : pc[u] = "idle"
  BY ConstantsAssumption DEF Init, Actors
<1>2. DOMAIN stack = {}
  BY DEF Init
<1>3. Dialogs
  BY ONLY <1>1, <1>2 DEF Dialogs
<1> QED
  BY <1>1, <1>3 DEF ConsentInv, Consent, Acting

LEMMA NextConsent == TypeInv /\ ConsentInv /\ [Next]_vars => ConsentInv'
<1> SUFFICES ASSUME TypeInv, ConsentInv, [Next]_vars PROVE ConsentInv'
  OBVIOUS
<1>1. ASSUME NEW t \in Threads, NEW r \in Requests, Receive(t, r) \/ ReceiveMalformedAdd(t, r)
      PROVE  ConsentInv'
  BY <1>1, ReceiveConsent, EndConsent DEF ReceiveMalformedAdd
<1>2. ASSUME NEW t \in Threads, HandlerStep(t)
      PROVE  ConsentInv'
  BY <1>2, ReadDecisionConsent, ReadPolicyConsent, DecideConsent, ListConsent, CopyConsent,
     SignConsent, EndConsent, ExistConsent, RemoveAllConsent, ReplyConsent
     DEF HandlerStep, SignWithNoKey
<1>3. ASSUME NEW t \in Threads, OpenDialog(t) \/ CloseDialog(t)
      PROVE  ConsentInv'
  BY <1>3, OpenDialogConsent, CloseDialogConsent
<1>4. ASSUME NEW a \in Actors, StoreStep(a)
      PROVE  ConsentInv'
  BY <1>4, SearchConsent, AddCheckConsent, PushConsent, EraseConsent DEF StoreStep
<1>5. ASSUME MainStep \/ KeylistUpdate \/ \E n \in DOMAIN stack : Tick(n)
      PROVE  ConsentInv'
  BY <1>5, RegisterViewConsent, ProbeConsent, MainConsent, TickConsent DEF MainStep
<1>6. ASSUME User
      PROVE  ConsentInv'
  BY <1>6, UserAnswersConsent, AnswerPassphraseConsent, MainConsent, CloseViewConsent,
     ClearDecisionsConsent DEF User
<1>7. ASSUME Clock \/ Kill \/ RaceCrash \/ Restart
      PROVE  ConsentInv'
  BY <1>7, MainConsent, EndConsent DEF Kill, RaceCrash
<1>8. ASSUME UNCHANGED vars
      PROVE  ConsentInv'
  BY <1>8, MainLocalStep DEF vars, Same
<1> QED
  BY <1>1, <1>2, <1>3, <1>4, <1>5, <1>6, <1>7, <1>8 DEF Next

LEMMA ConsentInvariant == Spec => [](TypeInv /\ ConsentInv)
<1>1. Init => ConsentInv
  BY InitConsent
<1>2. TypeInv /\ ConsentInv /\ [Next]_vars => ConsentInv'
  BY NextConsent
<1> QED
  BY <1>1, <1>2, TypeInvariant, PTL DEF Spec

\* accept_agent_request(): however many threads ask, and however their dialogs
\* are nested, timed out or cut short by a crash, no key that a client names is
\* used, added or removed on its word alone.  (REMOVE_ALL names none, and is done
\* without asking.)
THEOREM ConsentNeeded == Spec => []NamedKeyNeedsConsent
<1>1. ConsentInv => NamedKeyNeedsConsent
  BY DEF ConsentInv, Consent, NamedKeyNeedsConsent
<1> QED
  BY <1>1, ConsentInvariant, PTL

\* BlockingQueuedConnection: a waiting thread has exactly one dialog on the
\* main thread's stack, and no other thread has any.
THEOREM DialogsServeWaiters == Spec => []OneDialogPerWaiter
<1>1. ASSUME TypeInv, ConsentInv, NEW t \in Threads
      PROVE  Cardinality({n \in DOMAIN stack : stack[n].kind = "confirm" /\ stack[n].th = t})
               = (IF pc[t] = "dialog" THEN 1 ELSE 0)
  <2> DEFINE D == {n \in DOMAIN stack : stack[n].kind = "confirm" /\ stack[n].th = t}
  <2>1. CASE pc[t] = "dialog"
    <3>1. PICK n \in DOMAIN stack : Serving(n, t)
      BY <1>1, <2>1 DEF ConsentInv, Dialogs
    <3>2. \A m \in D : m = n
      BY <1>1, <3>1 DEF TypeInv, Waiting, Serving
    <3>3. D = {n}
      BY <3>1, <3>2 DEF Serving
    <3> QED
      BY <2>1, <3>3, FS_Singleton
  <2>2. CASE pc[t] # "dialog"
    <3>1. D = {}
      BY <1>1, <2>2 DEF TypeInv, Waiting
    <3> QED
      BY <2>2, <3>1, FS_EmptySet
  <2> QED
    BY <2>1, <2>2
<1>2. TypeInv /\ ConsentInv => OneDialogPerWaiter
  BY <1>1 DEF OneDialogPerWaiter
<1> QED
  BY <1>2, ConsentInvariant, PTL

\* Only an answer and the setting dialog write the record.
LEMMA RecordWriters ==
  ASSUME [Next]_vars
  PROVE  \/ confirmInfo' = confirmInfo
         \/ \E t \in Threads : Decide(t)
         \/ ClearDecisions
<1> USE DEF settingVars
<1>1. ASSUME NEW t \in Threads, NEW r \in Requests, Receive(t, r) \/ ReceiveMalformedAdd(t, r)
      PROVE  confirmInfo' = confirmInfo
  BY <1>1 DEF Receive, ReceiveMalformedAdd, Die
<1>2. ASSUME NEW t \in Threads, HandlerStep(t)
      PROVE  confirmInfo' = confirmInfo \/ Decide(t)
  BY <1>2 DEF HandlerStep, ReadDecision, ReadPolicy, List, Copy, Sign, SignWithNoKey, Exist,
              RemoveAll, Reply, Die
<1>3. ASSUME NEW t \in Threads, OpenDialog(t) \/ CloseDialog(t)
      PROVE  confirmInfo' = confirmInfo
  BY <1>3 DEF OpenDialog, CloseDialog
<1>4. ASSUME NEW a \in Actors, StoreStep(a)
      PROVE  confirmInfo' = confirmInfo
  BY <1>4 DEF StoreStep, Search, AddCheck, Push, Erase
<1>5. ASSUME MainStep \/ KeylistUpdate \/ \E n \in DOMAIN stack : Tick(n)
      PROVE  confirmInfo' = confirmInfo
  BY <1>5 DEF MainStep, RegisterView, Forget, Probe, LoadFailed, Load, KeylistUpdate, Tick
<1>6. ASSUME User
      PROVE  confirmInfo' = confirmInfo \/ ClearDecisions
  BY <1>6 DEF User, UserAnswers, AnswerPassphrase, OpenView, CloseView, Lock, GuiAdd, AnswerOffer, GuiRemove,
              SetPolicy
<1>7. ASSUME Clock \/ Kill \/ RaceCrash \/ Restart
      PROVE  confirmInfo' = confirmInfo
  BY <1>7 DEF Clock, Kill, RaceCrash, Restart, Die
<1>8. ASSUME UNCHANGED vars
      PROVE  confirmInfo' = confirmInfo
  BY <1>8 DEF vars
<1> QED
  BY <1>1, <1>2, <1>3, <1>4, <1>5, <1>6, <1>7, <1>8 DEF Next

\* What an answer writes: "accept", for the request that was agreed to.
LEMMA DecideWrites ==
  ASSUME TypeInv, ConsentInv, NEW t \in Threads, Decide(t), NEW s \in ConfirmOps \X Ids,
         confirmInfo'[s] # confirmInfo[s]
  PROVE  /\ pc[t] = "asked" /\ Subject(t) = s /\ t \in consented /\ ~required[t]
         /\ confirmInfo'[s] = "accept"
<1>1. pc[t] = "asked"
  BY DEF Decide, Running
<1>2. Verdict(answer[t], t \in consented, required[t])
  BY <1>1 DEF ConsentInv, Consent
<1>3. answer[t].remember /\ Subject(t) = s
  BY DEF Decide, TypeInv, TypeOK, TypeSettings
<1>4. answer[t].result = "ok" /\ t \in consented /\ ~required[t]
  BY <1>2, <1>3 DEF Verdict
<1>5. confirmInfo'[s] = "accept"
  BY <1>3, <1>4 DEF Decide, TypeInv, TypeOK, TypeSettings
<1> QED
  BY <1>1, <1>2, <1>3, <1>4, <1>5

\* setting_write_confirm_info(): "accept" goes on record only for what the user has just agreed to,
\* in a dialog opened when no confirmation was required.
THEOREM AcceptIsAnAnswer == Spec => AcceptRecordedByUser
<1> DEFINE A == \A s \in ConfirmOps \X Ids :
                  confirmInfo[s] # "accept" /\ confirmInfo'[s] = "accept"
                    => \E t \in consented : pc[t] = "asked" /\ Subject(t) = s /\ ~required[t]
<1>1. ASSUME TypeInv, ConsentInv, [Next]_vars
      PROVE  A
  <2>1. CASE confirmInfo' = confirmInfo
    BY <2>1
  <2>2. ASSUME NEW t \in Threads, Decide(t) PROVE A
    BY <1>1, <2>2, DecideWrites
  <2>3. CASE ClearDecisions
    BY <2>3 DEF ClearDecisions, NoDecisions
  <2> QED
    BY <1>1, <2>1, <2>2, <2>3, RecordWriters
<1>2. TypeInv /\ ConsentInv /\ [Next]_vars => [A]_vars
  BY <1>1
<1> QED
  BY <1>2, ConsentInvariant, PTL DEF Spec, AcceptRecordedByUser

=============================================================================
