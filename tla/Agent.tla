------------------------------- MODULE Agent -------------------------------
(***************************************************************************)
(* The request handler of pageant+ (pageant.cpp, keystore.cpp, ckey.cpp)   *)
(* and the part of the main window it talks to (mainwindow.cpp,            *)
(* confirmacceptdlg.cpp, keyviewdlg.cpp, main.cpp).                        *)
(*                                                                         *)
(* Every transport of the agent runs a server thread that calls            *)
(* pageant_handle_msg() for one request at a time.  The server threads and *)
(* the main (Qt) thread share the key store, the settings and the main     *)
(* thread's stack of nested event loops; nothing in keystore.cpp takes a   *)
(* lock.  A handler is therefore split into one action per piece that runs *)
(* without another actor getting in between.                               *)
(***************************************************************************)
EXTENDS Integers, Sequences, FiniteSets

CONSTANTS
  Threads,        \* the server threads, one per transport that is running
  Main,           \* the main thread
  Ids,            \* public keys: what fingerprints and blobs identify
  Requests,       \* the requests clients may send
  NoReq, NoKey,   \* "no request in hand", "no key in hand"
  Remote,         \* keys a smart card, a BT device or an RDP client signs with
  GuiOps,         \* what the user does in the windows of the agent
  PuttyInfo,      \* decisions found in putty's own settings (read only)
  InitInfo,       \* the decisions the settings file may start with
  InitStartup,    \* the start-up lists the settings file may start with
  Timeout,        \* setting "ssh-agent/timeout", in dialog ticks; 0: none
  ListCapacity,   \* how many keys fit an answer of AGENT_MAX_MSGLEN bytes
  MaxTime,        \* bound of the model: the clock stops there
  MaxNesting      \* bound of the model: how deep the user nests what she opens

ConfirmOps == {"sign", "add", "remove"}
Decisions  == {"none", "accept", "refuse"}
Actors     == Threads \cup {Main}

Request == [ op      : ConfirmOps \cup {"list", "removeall", "unknown"},
             id      : Ids,
             ok      : BOOLEAN,        \* the message parses
             confirm : BOOLEAN,        \* SSH_AGENT_CONSTRAIN_CONFIRM
             life    : Nat \cup {-1} ] \* SSH_AGENT_CONSTRAIN_LIFETIME, -1: no

ASSUME ConstantsAssumption ==
  /\ Main \notin Threads /\ IsFiniteSet(Threads)
  /\ Requests \subseteq Request
  /\ NoReq \notin Request
  /\ Remote \subseteq Ids
  /\ GuiOps \subseteq {"add", "remove", "view", "lock", "policy", "clear", "kill"}
  /\ PuttyInfo \in [ConfirmOps \X Ids -> Decisions]
  /\ InitInfo \subseteq [ConfirmOps \X Ids -> Decisions]
  /\ InitStartup \subseteq SUBSET Ids
  /\ Timeout \in Nat /\ ListCapacity \in Nat /\ MaxTime \in Nat \ {0} /\ MaxNesting \in Nat

VARIABLES
  ssh2keys,     \* keystore.cpp: the vector of keys, in order of addition
  confirmInfo,  \* settings: remembered answers, "ssh-agent_confirm/..."
  confirmAny,   \* settings: "confirm/confirm_any_request"
  startup,      \* settings: "Keyfile/file", the keys loaded at start-up
  now,          \* time(NULL)
  status,       \* "up", or why the process is gone
  pc,           \* where each actor is
  req,          \* the request in hand (the main thread's: a key to add/remove)
  key,          \* ckey: the key parsed from an ADD, or copied for signing
  value,        \* accept_agent_request(): the decision it read
  required,     \* accept_agent_request(): required_confirmation
  answer,       \* accept_agent_request(): what the dialog returned
  index,        \* what a search of keystore.cpp returned, 0: not found
  outcome,      \* the answer being sent to the client
  stack,        \* the nested event loops of the main thread, innermost last
  listed,       \* rows of the key view dialog
  registered,   \* the key view dialog is in keystore.cpp's listeners
  refresh,      \* a queued keylistUpdateSignal
  loading,      \* keys the main thread still has to load at start-up, a copy of
                \* the list it found there
  offers,       \* "load it at the next start, too?" boxes on screen
  gap,          \* history: the store changed while the view was unregistered
  consented,    \* history: threads whose request the user said yes to
  forgotten     \* history: keys dropped by a terminal lock, and since then not
                \* added by a client, loaded by the user, or taken up by a
                \* start-up load that the lock found under way

storeVars   == <<ssh2keys, refresh, gap>>
settingVars == <<confirmInfo, confirmAny, startup>>
acceptVars  == <<value, required, answer>>
threadVars  == <<req, key, index, outcome>>
guiVars     == <<stack, listed, registered, loading, offers>>
ghostVars   == <<consented, forgotten>>
vars == <<ssh2keys, confirmInfo, confirmAny, startup, now, status, pc, req, key,
          value, required, answer, index, outcome, stack, listed, registered,
          refresh, loading, offers, gap, consented, forgotten>>

-----------------------------------------------------------------------------
(* Keys and the key store.                                                 *)

Key == [id : Ids, exp : Nat, confirm : BOOLEAN]

\* ckey::set_lifetime(): the lifetime counts from the moment of parsing.
KeyOf(r) == [ id      |-> r.id,
              exp     |-> IF r.life = -1 THEN 0 ELSE now + r.life,
              confirm |-> r.confirm ]

Expired(k) == k.exp # 0 /\ k.exp < now

\* std::remove_if(): the elements of s at the positions in I, in their order.
\* (SelectSeq is recursive, and nothing could be proved about it.)
UpTo(I, n) == {m \in I : m <= n}
Nth(I, k) == CHOOSE n \in I : Cardinality(UpTo(I, n)) = k
Kept(s, I) == [k \in 1..Cardinality(I) |-> s[Nth(I, k)]]

\* expire(): keys past their time leave the vector; listeners are not told.
Live == Kept(ssh2keys, {n \in DOMAIN ssh2keys : ~Expired(ssh2keys[n])})

\* Mutant of InStore: only the first key is looked at.
InStoreFirst(i) == ssh2keys # <<>> /\ ssh2keys[1].id = i

\* Mutant of InStore: keys with a constraint are passed over.
InStoreUnconstrained(i) ==
  \E n \in DOMAIN ssh2keys : ssh2keys[n].id = i /\ ~ssh2keys[n].confirm

InStore(i) == \E n \in DOMAIN ssh2keys : ssh2keys[n].id = i

\* Mutant of Position: counted from 0, like idx, but read as if from 1.
PositionFromZero(s, i) ==
  IF \E n \in DOMAIN s : s[n].id = i
  THEN (CHOOSE n \in DOMAIN s : s[n].id = i /\ \A m \in 1..n-1 : s[m].id # i) - 1
  ELSE -1

\* Mutant of Position: the loop leaves with the index before the match.
PositionBefore(s, i) ==
  IF \E n \in DOMAIN s : s[n].id = i
  THEN (CHOOSE n \in DOMAIN s : s[n].id = i /\ \A m \in 1..n-1 : s[m].id # i) - 1
  ELSE 0

\* The searches: the position of the first match, 0 when there is none.
Position(s, i) ==
  IF \E n \in DOMAIN s : s[n].id = i
  THEN CHOOSE n \in DOMAIN s : s[n].id = i /\ \A m \in 1..n-1 : s[m].id # i
  ELSE 0

\* Mutant of Without: erase() at the index counted from 1.
WithoutNext(s, n) == SubSeq(s, 1, n) \o SubSeq(s, n+2, Len(s))

Without(s, n) == SubSeq(s, 1, n-1) \o SubSeq(s, n+1, Len(s))

\* Mutant of CallListeners: the listeners are forgotten.
CallNobody ==
  /\ refresh' = refresh
  /\ gap' = (gap \/ pc[Main] = "register")

\* callListeners(): the view, if registered, is sent a queued signal.
CallListeners ==
  /\ refresh' = (refresh \/ registered)
  /\ gap' = (gap \/ pc[Main] = "register")

-----------------------------------------------------------------------------
(* Receiving a request, and accept_agent_request().                        *)

NoAnswer == [result |-> "none", remember |-> FALSE]

\* The process is gone, and with it everything it held in memory.
Die(why) ==
  /\ status' = why
  /\ ssh2keys' = <<>> /\ refresh' = FALSE /\ gap' = FALSE
  /\ pc' = [a \in Actors |-> "idle"]
  /\ req' = [a \in Actors |-> NoReq]
  /\ key' = [a \in Actors |-> NoKey]
  /\ value' = [t \in Threads |-> "none"]
  /\ required' = [t \in Threads |-> FALSE]
  /\ answer' = [t \in Threads |-> NoAnswer]
  /\ index' = [a \in Actors |-> 0]
  /\ outcome' = [t \in Threads |-> "none"]
  /\ stack' = <<>> /\ listed' = <<>> /\ registered' = FALSE
  /\ loading' = {} /\ offers' = {}
  /\ consented' = {}
  /\ UNCHANGED <<settingVars, now, forgotten>>

Goto(a, l) == pc' = [pc EXCEPT ![a] = l]

Running(a, l) == status = "up" /\ pc[a] = l

Answer(t, o) == Goto(t, "reply") /\ outcome' = [outcome EXCEPT ![t] = o]

\* pageant_handle_msg(), up to the call that may wait: the message is parsed,
\* and an ADD has its key and constraints.
Receive(t, r) ==
  /\ Running(t, "idle")
  /\ req' = [req EXCEPT ![t] = r]
  /\ \/ /\ r.op = "unknown" \/ (r.op \in {"sign", "remove"} /\ ~r.ok)
        /\ Answer(t, "failure")
        /\ UNCHANGED key
     \/ /\ r.op \in ConfirmOps /\ r.ok
        /\ Goto(t, "stored")
        /\ key' = [key EXCEPT ![t] = IF r.op = "add" THEN KeyOf(r) ELSE NoKey]
        /\ UNCHANGED outcome
     \/ /\ r.op \in {"list", "removeall"}
        /\ Goto(t, r.op)
        /\ UNCHANGED <<key, outcome>>
  /\ UNCHANGED <<storeVars, settingVars, now, status, acceptVars, index, guiVars,
                 ghostVars>>

\* A malformed ADD leaves key_ null, and ckey::parse_one_private_key() reads
\* through it before it returns false.
ReceiveMalformedAdd(t, r) ==
  /\ Running(t, "idle")
  /\ r.op = "add" /\ ~r.ok
  /\ Die("badkey")

Subject(t) == <<req[t].op, req[t].id>>

\* setting_get_confirm_info(): our settings first, then putty's.
StoredDecision(s) ==
  IF confirmInfo[s] # "none" THEN confirmInfo[s] ELSE PuttyInfo[s]

ReadDecision(t) ==
  /\ Running(t, "stored")
  /\ value' = [value EXCEPT ![t] = StoredDecision(Subject(t))]
  /\ IF value'[t] = "refuse" THEN Answer(t, "failure")
                             ELSE Goto(t, "policy") /\ UNCHANGED outcome
  /\ UNCHANGED <<storeVars, settingVars, now, status, req, key, required, answer,
                 index, guiVars, ghostVars>>

\* Where a granted request goes on.
AfterAccept(t) == CASE req[t].op = "sign"   -> "get"
                    [] req[t].op = "add"    -> "exist"
                    [] req[t].op = "remove" -> "search"

\* Only an ADD passes the key with its constraints; SIGN and REMOVE pass a
\* key parsed from the request, whose confirmation_required_ is false.
ReadPolicy(t) ==
  /\ Running(t, "policy")
  /\ required' = [required EXCEPT ![t] =
                    confirmAny \/ (req[t].op = "add" /\ key[t].confirm)]
  /\ Goto(t, IF ~required'[t] /\ value[t] = "accept" THEN AfterAccept(t) ELSE "ask")
  /\ UNCHANGED <<storeVars, settingVars, now, status, threadVars, value, answer,
                 guiVars, ghostVars>>

\* The thread is back from the dialog: the answer may be remembered, for
\* every later request of this kind on this key.
Decide(t) ==
  /\ Running(t, "asked")
  /\ confirmInfo' =
       IF answer[t].remember
       THEN [confirmInfo EXCEPT ![Subject(t)] =
               IF answer[t].result = "cancel" THEN "refuse" ELSE "accept"]
       ELSE confirmInfo
  /\ IF answer[t].result = "ok"
     THEN Goto(t, AfterAccept(t)) /\ UNCHANGED outcome
     ELSE Answer(t, "failure")
  /\ UNCHANGED <<storeVars, confirmAny, startup, now, status, acceptVars, req, key,
                 index, guiVars, ghostVars>>

-----------------------------------------------------------------------------
(* The requests themselves.                                                *)

\* SSH2_AGENTC_REQUEST_IDENTITIES
List(t) ==
  /\ Running(t, "list")
  /\ ssh2keys' = Live
  /\ Answer(t, IF Len(Live) > ListCapacity THEN "failure" ELSE "identities")
  /\ UNCHANGED <<refresh, gap, settingVars, now, status, acceptVars, req, key, index,
                 guiVars, ghostVars>>

\* search_public_blob() in keystore_get(), search_key() and search_sha256()
\* in keystore_remove(): the index is used after the search has returned.
Search(a) ==
  /\ Running(a, "get") \/ Running(a, "search")
  /\ ssh2keys' = Live
  /\ index' = [index EXCEPT ![a] = Position(Live, req[a].id)]
  /\ Goto(a, IF pc[a] = "get" THEN "copy" ELSE "erase")
  /\ UNCHANGED <<refresh, gap, settingVars, now, status, acceptVars, req, key, outcome,
                 guiVars, ghostVars>>

\* keystore_get_from_blob(): the key is copied out of the vector, or cleared.
Copy(t) ==
  /\ Running(t, "copy")
  /\ index[t] <= Len(ssh2keys)
  /\ key' = [key EXCEPT ![t] = IF index[t] = 0 THEN NoKey ELSE ssh2keys[index[t]]]
  /\ Goto(t, "sign")
  /\ UNCHANGED <<storeVars, settingVars, now, status, acceptVars, req, index, outcome,
                 guiVars, ghostVars>>

\* signer() after keystore_get(): here, or by way of the card, the BT device
\* or the RDP client, which may fail or be switched off.
Sign(t) ==
  /\ Running(t, "sign")
  /\ key[t] # NoKey
  /\ \/ Answer(t, "signature")
     \/ key[t].id \in Remote /\ Answer(t, "failure")
  /\ UNCHANGED <<storeVars, settingVars, now, status, acceptVars, req, key, index,
                 guiVars, ghostVars>>

\* signer() ignores what keystore_get() returns: an empty ckey has an empty
\* comment, so the local branch is taken and skey->alg is read through null.
SignWithNoKey(t) ==
  /\ Running(t, "sign")
  /\ key[t] = NoKey
  /\ Die("nokey")

\* add_keyfile() of main() runs before the outermost event loop.
Booting == stack = <<>> /\ loading # {}

\* The main thread goes on with its start-up list or goes back to its event
\* loop, with the offer to load a key the user has added at the next start,
\* too; a server thread answers.
Return(a, o) ==
  IF a = Main
  THEN /\ loading' = IF Booting THEN loading \ {req[a].id} ELSE loading
       /\ Goto(a, IF stack = <<>> /\ loading' # {} THEN "load" ELSE "idle")
       /\ offers' = IF req[a].op = "add" /\ o # "failure" /\ ~Booting
                    THEN offers \cup ({req[a].id} \ startup)
                    ELSE offers
       /\ req' = [req EXCEPT ![a] = NoReq]
       /\ key' = [key EXCEPT ![a] = NoKey]
       /\ index' = [index EXCEPT ![a] = 0]
       /\ UNCHANGED outcome
  ELSE Answer(a, o) /\ UNCHANGED <<req, key, index, loading, offers>>

\* The handler's own keystore_exist(), before it calls keystore_add().
Exist(t) ==
  /\ Running(t, "exist")
  /\ IF InStore(req[t].id)
     THEN Answer(t, "present")
     ELSE Goto(t, "add") /\ UNCHANGED outcome
  /\ UNCHANGED <<storeVars, settingVars, now, status, acceptVars, req, key, index,
                 guiVars, ghostVars>>

\* keystore_add(): the check ...
AddCheck(a) ==
  /\ Running(a, "add")
  /\ IF InStore(req[a].id)
     THEN Return(a, "present")
     ELSE Goto(a, "push") /\ UNCHANGED <<threadVars, loading, offers>>
  /\ UNCHANGED <<storeVars, settingVars, now, status, acceptVars, stack, listed,
                 registered, ghostVars>>

\* ... and the push_back(), with callListeners().
Push(a) ==
  /\ Running(a, "push")
  /\ ssh2keys' = Append(ssh2keys, key[a])
  /\ CallListeners
  /\ forgotten' = IF a = Main THEN forgotten ELSE forgotten \ {key[a].id}
  /\ Return(a, "success")
  /\ UNCHANGED <<settingVars, now, status, acceptVars, stack, listed, registered,
                 consented>>

\* keystore_remove(): the erase() at the position found, with callListeners().
Erase(a) ==
  /\ Running(a, "erase")
  /\ index[a] <= Len(ssh2keys)
  /\ IF index[a] = 0
     THEN Return(a, "failure") /\ UNCHANGED storeVars
     ELSE /\ ssh2keys' = Without(ssh2keys, index[a])
          /\ CallListeners
          /\ Return(a, "success")
  /\ UNCHANGED <<settingVars, now, status, acceptVars, stack, listed, registered,
                 ghostVars>>

\* SSH2_AGENTC_REMOVE_ALL_IDENTITIES: nobody is asked.
RemoveAll(t) ==
  /\ Running(t, "removeall")
  /\ ssh2keys' = <<>>
  /\ CallListeners
  /\ Answer(t, "success")
  /\ UNCHANGED <<settingVars, now, status, acceptVars, req, key, index, guiVars,
                 ghostVars>>

\* The reply goes to the client, and the thread waits for the next request.
Reply(t) ==
  /\ Running(t, "reply")
  /\ Goto(t, "idle")
  /\ req' = [req EXCEPT ![t] = NoReq]
  /\ key' = [key EXCEPT ![t] = NoKey]
  /\ value' = [value EXCEPT ![t] = "none"]
  /\ required' = [required EXCEPT ![t] = FALSE]
  /\ answer' = [answer EXCEPT ![t] = NoAnswer]
  /\ index' = [index EXCEPT ![t] = 0]
  /\ outcome' = [outcome EXCEPT ![t] = "none"]
  /\ consented' = consented \ {t}
  /\ UNCHANGED <<storeVars, settingVars, now, status, guiVars, forgotten>>

-----------------------------------------------------------------------------
(* The main thread: dialogs, the key view, the user, start-up.  All of it  *)
(* runs from an event loop, the outermost or one nested in a dialog, so    *)
(* only while the main thread is not inside an operation of its own.       *)

MainLoop == Running(Main, "idle")

Frame(kind, t, r) == [ kind |-> kind, th |-> t, req |-> r, ticks |-> 0,
                       result |-> "none", remember |-> FALSE ]

Top == stack[Len(stack)]

TopIs(kind) == stack # <<>> /\ Top.kind = kind

Pop == SubSeq(stack, 1, Len(stack) - 1)

\* Mutant of OpenDialog: a plain QueuedConnection, the thread does not wait.
OpenDialogQueued(t) ==
  /\ MainLoop
  /\ pc[t] = "ask"
  /\ stack' = Append(stack, Frame("confirm", t, NoReq))
  /\ Goto(t, "asked")
  /\ UNCHANGED <<storeVars, settingVars, now, status, acceptVars, threadVars, listed,
                 registered, loading, offers, ghostVars>>

\* confirmAcceptDlg(): a BlockingQueuedConnection, so the slot runs in
\* whatever event loop is innermost and the thread waits for it to return.
OpenDialog(t) ==
  /\ MainLoop
  /\ pc[t] = "ask"
  /\ stack' = Append(stack, Frame("confirm", t, NoReq))
  /\ Goto(t, "dialog")
  /\ UNCHANGED <<storeVars, settingVars, now, status, acceptVars, threadVars, listed,
                 registered, loading, offers, ghostVars>>

\* Mutant of UserAnswers: the tick box is enabled whatever is required.
UserAnswersBoxEnabled(result, remember) ==
  /\ MainLoop
  /\ TopIs("confirm") /\ Top.result = "none"
  /\ remember => result = "ok"
  /\ stack' = [stack EXCEPT ![Len(stack)].result = result,
                            ![Len(stack)].remember = remember]
  /\ consented' = IF result = "ok" THEN consented \cup {Top.th} ELSE consented
  /\ UNCHANGED <<storeVars, settingVars, now, status, pc, acceptVars, threadVars,
                 listed, registered, loading, offers, forgotten>>

\* The dialogs are modal: only the innermost gets input.  The tick box "Don't
\* ask again" is disabled when confirmation is required, and it is read by
\* on_buttonBox_accepted() alone.
UserAnswers(result, remember) ==
  /\ MainLoop
  /\ TopIs("confirm") /\ Top.result = "none"
  /\ remember => result = "ok" /\ ~required[Top.th]
  /\ stack' = [stack EXCEPT ![Len(stack)].result = result,
                            ![Len(stack)].remember = remember]
  /\ consented' = IF result = "ok" THEN consented \cup {Top.th} ELSE consented
  /\ UNCHANGED <<storeVars, settingVars, now, status, pc, acceptVars, threadVars,
                 listed, registered, loading, offers, forgotten>>

\* Mutant of Tick: the time runs out, and nothing calls reject().
TickWithoutReject(n) ==
  /\ MainLoop
  /\ n \in DOMAIN stack
  /\ stack[n].kind = "confirm" /\ stack[n].ticks < Timeout
  /\ stack' = [stack EXCEPT ![n].ticks = @ + 1]
  /\ UNCHANGED <<storeVars, settingVars, now, status, pc, acceptVars, threadVars,
                 listed, registered, loading, offers, ghostVars>>

\* ConfirmAcceptDlg::timerEvent() and dispInfo(), for any dialog on screen.
Tick(n) ==
  /\ MainLoop
  /\ n \in DOMAIN stack
  /\ stack[n].kind = "confirm" /\ stack[n].result = "none"
  /\ Timeout # 0
  /\ stack' = [stack EXCEPT
                 ![n].ticks = @ + 1,
                 ![n].result = IF stack[n].ticks + 1 >= Timeout THEN "cancel" ELSE @]
  /\ UNCHANGED <<storeVars, settingVars, now, status, pc, acceptVars, threadVars,
                 listed, registered, loading, offers, ghostVars>>

\* Mutant of CloseDialog: the answer goes to the thread that asked first.
CloseFirstDialog(t) ==
  /\ MainLoop
  /\ TopIs("confirm") /\ Top.result # "none" /\ stack[1].th = t
  /\ stack' = Tail(stack)
  /\ answer' = [answer EXCEPT ![t] = [result |-> Top.result, remember |-> Top.remember]]
  /\ Goto(t, "asked")
  /\ UNCHANGED <<storeVars, settingVars, now, status, value, required, threadVars,
                 listed, registered, loading, offers, ghostVars>>

\* exec() of a dialog returns once the loops nested in it have.
CloseDialog(t) ==
  /\ MainLoop
  /\ TopIs("confirm") /\ Top.th = t /\ Top.result # "none"
  /\ stack' = Pop
  /\ answer' = [answer EXCEPT ![t] = [result |-> Top.result, remember |-> Top.remember]]
  /\ Goto(t, "asked")
  /\ UNCHANGED <<storeVars, settingVars, now, status, value, required, threadVars,
                 listed, registered, loading, offers, ghostVars>>

\* on_viewKeys(): the constructor fills the rows and only then registers.
OpenView ==
  /\ MainLoop
  /\ "view" \in GuiOps
  /\ \A n \in DOMAIN stack : stack[n].kind # "view"
  /\ ssh2keys' = Live
  /\ listed' = Live
  /\ gap' = FALSE
  /\ Goto(Main, "register")
  /\ UNCHANGED <<refresh, settingVars, now, status, acceptVars, threadVars, stack,
                 registered, loading, offers, ghostVars>>

RegisterView ==
  /\ Running(Main, "register")
  /\ registered' = TRUE
  /\ stack' = Append(stack, Frame("view", Main, NoReq))
  /\ Goto(Main, "idle")
  /\ UNCHANGED <<storeVars, settingVars, now, status, acceptVars, threadVars, listed,
                 loading, offers, ghostVars>>

\* The queued signal arrives: keyviewdlg::keylistUpdate().
KeylistUpdate ==
  /\ MainLoop
  /\ refresh
  /\ ssh2keys' = Live
  /\ listed' = Live
  /\ refresh' = FALSE
  /\ gap' = FALSE
  /\ UNCHANGED <<settingVars, now, status, pc, acceptVars, threadVars, stack,
                 registered, loading, offers, ghostVars>>

CloseView ==
  /\ MainLoop
  /\ TopIs("view")
  /\ stack' = Pop
  /\ registered' = FALSE
  /\ refresh' = FALSE
  /\ listed' = <<>>
  /\ gap' = FALSE
  /\ UNCHANGED <<ssh2keys, settingVars, now, status, pc, acceptVars, threadVars,
                 loading, offers, ghostVars>>

GuiRequest(op, i) ==
  [op |-> op, id |-> i, ok |-> TRUE, confirm |-> FALSE, life |-> -1]

\* The main thread loads a key file, for itself or for the user.
BeginLoad(i) ==
  /\ req' = [req EXCEPT ![Main] = GuiRequest("add", i)]
  /\ Goto(Main, "probe")

\* on_pushButtonAddKey_clicked(), from the main window or the tray.
GuiAdd(i) ==
  /\ MainLoop
  /\ "add" \in GuiOps /\ Len(stack) < MaxNesting
  /\ BeginLoad(i)
  /\ forgotten' = forgotten \ {i}
  /\ UNCHANGED <<storeVars, settingVars, now, status, acceptVars, key, index, outcome,
                 guiVars, consented>>

\* load_keyfile() has what it needs to read the private key, or asks for it.
Unlock ==
  \/ /\ key' = [key EXCEPT ![Main] = KeyOf(req[Main])]
     /\ Goto(Main, "add")
     /\ UNCHANGED stack
  \/ /\ stack' = Append(stack, Frame("passphrase", Main, req[Main]))
     /\ Goto(Main, "idle")
     /\ UNCHANGED key

\* load_putty_key() looks the public part up before it asks for a passphrase,
\* load_importable_key() does not; a file may be neither.
Probe ==
  /\ Running(Main, "probe")
  /\ \/ /\ ssh2keys' = Live
        /\ IF Position(Live, req[Main].id) # 0
           THEN Goto(Main, "failed") /\ UNCHANGED <<key, stack>>
           ELSE Unlock
     \/ Unlock /\ UNCHANGED ssh2keys
     \/ Goto(Main, "failed") /\ UNCHANGED <<ssh2keys, key, stack>>
  /\ UNCHANGED <<refresh, gap, settingVars, now, status, acceptVars, req, index, outcome,
                 listed, registered, loading, offers, ghostVars>>

LoadFailed ==
  /\ Running(Main, "failed")
  /\ Return(Main, "failure")
  /\ UNCHANGED <<storeVars, settingVars, now, status, acceptVars, stack, listed,
                 registered, ghostVars>>

\* PassphraseDlg: the passphrase is given, and the key added; or the dialog is
\* cancelled, which only ends load_importable_key(): load_putty_key() tries an
\* empty passphrase and opens the dialog again.
AnswerPassphrase(given) ==
  /\ MainLoop
  /\ TopIs("passphrase")
  /\ stack' = Pop
  /\ req' = [req EXCEPT ![Main] = Top.req]
  /\ IF given
     THEN /\ key' = [key EXCEPT ![Main] = KeyOf(Top.req)]
          /\ forgotten' = forgotten \ {Top.req.id}
          /\ Goto(Main, "add")
     ELSE Goto(Main, "failed") /\ UNCHANGED <<key, forgotten>>
  /\ UNCHANGED <<storeVars, settingVars, now, status, acceptVars, index, outcome, listed,
                 registered, loading, offers, consented>>

\* addStartupKeyfile(), once its message box is answered.
AnswerOffer(i, yes) ==
  /\ MainLoop
  /\ i \in offers
  /\ offers' = offers \ {i}
  /\ startup' = IF yes THEN startup \cup {i} ELSE startup
  /\ forgotten' = IF yes THEN forgotten \ {i} ELSE forgotten
  /\ UNCHANGED <<storeVars, confirmInfo, confirmAny, now, status, pc, acceptVars,
                 threadVars, stack, listed, registered, loading, consented>>

\* on_pushButtonRemoveKey_clicked(): a row is removed by its fingerprint.
GuiRemove(n) ==
  /\ MainLoop
  /\ "remove" \in GuiOps
  /\ TopIs("view")
  /\ n \in DOMAIN listed
  /\ req' = [req EXCEPT ![Main] = GuiRequest("remove", listed[n].id)]
  /\ Goto(Main, "search")
  /\ UNCHANGED <<storeVars, settingVars, now, status, acceptVars, key, index, outcome,
                 guiVars, ghostVars>>

\* Mutant of Lock: the start-up list is left alone.
LockKeepsList ==
  /\ MainLoop
  /\ "lock" \in GuiOps
  /\ forgotten' = Ids
  /\ Goto(Main, "forget")
  /\ UNCHANGED <<storeVars, settingVars, now, status, acceptVars, threadVars, guiVars,
                 consented>>

\* lockTerminal(), with "key/forget_when_terminal_locked": the start-up list
\* goes first, then the keys.  Windows' message may come in any loop, also in
\* one nested in start-up, which has its own copy of the list.
Lock ==
  /\ MainLoop
  /\ "lock" \in GuiOps
  /\ startup' = {}
  /\ forgotten' = Ids
  /\ Goto(Main, "forget")
  /\ UNCHANGED <<storeVars, confirmInfo, confirmAny, now, status, acceptVars, threadVars,
                 guiVars, consented>>

Forget ==
  /\ Running(Main, "forget")
  /\ ssh2keys' = <<>>
  /\ CallListeners
  /\ forgotten' = Ids
  /\ Goto(Main, "idle")
  /\ UNCHANGED <<settingVars, now, status, acceptVars, threadVars, guiVars, consented>>

\* The setting dialog: confirm every request or not; forget the answers.
SetPolicy(b) ==
  /\ MainLoop
  /\ "policy" \in GuiOps
  /\ confirmAny' = b
  /\ UNCHANGED <<storeVars, confirmInfo, startup, now, status, pc, acceptVars,
                 threadVars, guiVars, ghostVars>>

NoDecisions == [s \in ConfirmOps \X Ids |-> "none"]

ClearDecisions ==
  /\ MainLoop
  /\ "clear" \in GuiOps
  /\ confirmInfo' = NoDecisions
  /\ UNCHANGED <<storeVars, confirmAny, startup, now, status, pc, acceptVars,
                 threadVars, guiVars, ghostVars>>

-----------------------------------------------------------------------------
(* The environment, and the life of the process.                           *)

Clock ==
  /\ now < MaxTime
  /\ now' = now + 1
  /\ UNCHANGED <<storeVars, settingVars, status, pc, acceptVars, threadVars, guiVars,
                 ghostVars>>

Kill == status = "up" /\ "kill" \in GuiOps /\ Die("killed")

\* Code that reads (or writes) the vector of keys while another actor writes
\* it, or that uses an index another actor has made stale, has no defined
\* outcome; the model takes the ones where both go on as if they had run one
\* after the other, and the one where the process dies.
Writing(a) == pc[a] \in {"list", "get", "search", "push", "erase", "removeall", "forget",
                        "probe"}
Touching(a) == \/ Writing(a)
               \/ pc[a] \in {"copy", "exist", "add"}
               \/ a = Main /\ pc[Main] = "idle" /\ refresh

Astray(a) == pc[a] \in {"copy", "erase"} /\ index[a] > Len(ssh2keys)

RaceCrash ==
  /\ status = "up"
  /\ \/ \E a, b \in Actors : a # b /\ Writing(a) /\ Touching(b)
     \/ \E a \in Actors : Astray(a)
  /\ Die("race")

\* A new process starts from the settings.
Restart ==
  /\ status # "up"
  /\ status' = "up"
  /\ loading' = startup
  /\ Goto(Main, IF startup = {} THEN "idle" ELSE "load")
  /\ UNCHANGED <<storeVars, settingVars, now, threadVars, acceptVars, stack, listed,
                 registered, offers, ghostVars>>

\* add_keyfile(): the start-up keys, one after the other, from a copy of the
\* list that a terminal lock does not reach.
Load(i) ==
  /\ Running(Main, "load")
  /\ i \in loading
  /\ BeginLoad(i)
  /\ forgotten' = forgotten \ {i}
  /\ UNCHANGED <<storeVars, settingVars, now, status, acceptVars, key, index, outcome,
                 guiVars, consented>>

-----------------------------------------------------------------------------

Init ==
  /\ ssh2keys = <<>> /\ refresh = FALSE /\ gap = FALSE
  /\ confirmInfo \in InitInfo /\ confirmAny \in BOOLEAN /\ startup \in InitStartup
  /\ now = 1 /\ status = "up"
  /\ pc = [a \in Actors |-> IF a = Main /\ startup # {} THEN "load" ELSE "idle"]
  /\ req = [a \in Actors |-> NoReq]
  /\ key = [a \in Actors |-> NoKey]
  /\ value = [t \in Threads |-> "none"]
  /\ required = [t \in Threads |-> FALSE]
  /\ answer = [t \in Threads |-> NoAnswer]
  /\ index = [a \in Actors |-> 0]
  /\ outcome = [t \in Threads |-> "none"]
  /\ stack = <<>> /\ listed = <<>> /\ registered = FALSE
  /\ loading = startup /\ offers = {}
  /\ consented = {} /\ forgotten = {}

\* What an actor does by itself once it has something to do.
HandlerStep(t) ==
  \/ ReadDecision(t) \/ ReadPolicy(t) \/ Decide(t)
  \/ List(t) \/ Copy(t) \/ Sign(t) \/ SignWithNoKey(t) \/ Exist(t) \/ RemoveAll(t)
  \/ Reply(t)

StoreStep(a) == Search(a) \/ AddCheck(a) \/ Push(a) \/ Erase(a)

MainStep == RegisterView \/ Forget \/ Probe \/ LoadFailed \/ (\E i \in Ids : Load(i))

User ==
  \/ \E result \in {"ok", "cancel"}, remember \in BOOLEAN : UserAnswers(result, remember)
  \/ \E given \in BOOLEAN : AnswerPassphrase(given)
  \/ OpenView \/ CloseView \/ Lock \/ ClearDecisions
  \/ \E i \in Ids : GuiAdd(i) \/ (\E yes \in BOOLEAN : AnswerOffer(i, yes))
  \/ \E n \in DOMAIN listed : GuiRemove(n)
  \/ \E b \in BOOLEAN : SetPolicy(b)

Next ==
  \/ \E t \in Threads : \/ \E r \in Requests : Receive(t, r) \/ ReceiveMalformedAdd(t, r)
                        \/ HandlerStep(t)
                        \/ OpenDialog(t) \/ CloseDialog(t)
  \/ \E a \in Actors : StoreStep(a)
  \/ MainStep \/ KeylistUpdate
  \/ \E n \in DOMAIN stack : Tick(n)
  \/ User
  \/ Clock \/ Kill \/ RaceCrash \/ Restart

Spec == Init /\ [][Next]_vars

\* Threads and the main thread run whenever they can; Qt's event queue is
\* served in order, and a loop whose dialog is finished returns as soon as the
\* loop nested in it has, so a posted slot and a finished dialog get their turn
\* even when the main thread is kept busy.  The user owes nothing.
Fairness ==
  /\ \A t \in Threads : /\ WF_vars(HandlerStep(t))
                        /\ SF_vars(OpenDialog(t)) /\ SF_vars(CloseDialog(t))
  /\ \A a \in Actors : WF_vars(StoreStep(a))
  /\ WF_vars(MainStep)
  /\ \A n \in 1..Cardinality(Threads) + 1 : SF_vars(Tick(n))

FairSpec == Spec /\ Fairness

-----------------------------------------------------------------------------
(* What the handler promises.                                              *)

Frames ==
  { f \in [ kind : {"confirm", "view", "passphrase"}, th : Actors,
            req : Request \cup {NoReq}, ticks : Nat,
            result : {"none", "ok", "cancel"}, remember : BOOLEAN ] :
    f.kind = "passphrase" => f.req \in Request }

Labels == {"idle", "stored", "policy", "ask", "dialog", "asked", "list", "get", "search",
           "copy", "sign", "exist", "add", "push", "erase", "removeall", "reply",
           "register", "forget", "load", "probe", "failed"}
Statuses == {"up", "killed", "nokey", "badkey", "race"}
Answers  == [result : {"none", "ok", "cancel"}, remember : BOOLEAN]
Outcomes == {"none", "failure", "present", "success", "identities", "signature"}

\* The type invariant.
TypeStore ==
  /\ ssh2keys \in Seq(Key) /\ listed \in Seq(Key)
  /\ refresh \in BOOLEAN /\ gap \in BOOLEAN /\ registered \in BOOLEAN
TypeSettings ==
  /\ confirmInfo \in [ConfirmOps \X Ids -> Decisions]
  /\ confirmAny \in BOOLEAN /\ startup \in SUBSET Ids
  /\ loading \in SUBSET Ids /\ offers \in SUBSET Ids /\ forgotten \in SUBSET Ids
  /\ now \in Nat \ {0}
TypePlaces ==
  /\ status \in Statuses
  /\ pc \in [Actors -> Labels]
  /\ index \in [Actors -> Nat]
TypeHands ==
  /\ req \in [Actors -> Request \cup {NoReq}]
  /\ key \in [Actors -> Key \cup {NoKey}]
TypeVerdicts ==
  /\ value \in [Threads -> Decisions]
  /\ required \in [Threads -> BOOLEAN]
  /\ answer \in [Threads -> Answers]
  /\ outcome \in [Threads -> Outcomes]
  /\ consented \in SUBSET Threads
TypeStack == stack \in Seq(Frames)
TypeOK == TypeStore /\ TypeSettings /\ TypePlaces /\ TypeHands /\ TypeVerdicts /\ TypeStack

\* Past accept_agent_request() and not refused: the request for a key takes effect.
Acting(t) ==
  \/ pc[t] \in {"get", "search", "copy", "sign", "exist", "add", "push", "erase"}
  \/ /\ pc[t] = "reply"
     /\ \/ outcome[t] \in {"signature", "present"}
        \/ outcome[t] = "success" /\ req[t].op # "removeall"

\* accept_agent_request(): a key that a client names is not used, added or
\* removed on its word alone.  Either the user said yes to the dialog of this
\* very request (other dialogs may have been nested in it, timed out or been
\* answered meanwhile), or "accept" was on record while no confirmation was
\* required.  REMOVE_ALL names no key and asks nobody.
NamedKeyNeedsConsent ==
  \A t \in Threads :
    Acting(t) => t \in consented \/ (value[t] = "accept" /\ ~required[t])

\* BlockingQueuedConnection: a thread waits for a dialog exactly as long as one
\* loop of the main thread serves it, so no answer is lost, is given twice or
\* reaches another thread, however the dialogs are nested.
OneDialogPerWaiter ==
  \A t \in Threads :
    Cardinality({n \in DOMAIN stack : stack[n].kind = "confirm" /\ stack[n].th = t})
      = (IF pc[t] = "dialog" THEN 1 ELSE 0)

\* setting_write_confirm_info(): "accept" goes on record only for what the user
\* has just agreed to, in a dialog opened when confirmation was not required.
AcceptRecordedByUser ==
  [][ \A s \in ConfirmOps \X Ids :
        confirmInfo[s] # "accept" /\ confirmInfo'[s] = "accept"
          => \E t \in consented : pc[t] = "asked" /\ Subject(t) = s /\ ~required[t] ]_vars

Copies(i) == {n \in DOMAIN ssh2keys : ssh2keys[n].id = i}

\* keystore_add() checks and appends in two steps and without a lock, so actors
\* that add the same key at once leave it in the store more than once; but each
\* of them once at most, in any order of additions, removals, expiries and locks:
\* who comes to the check once the key is there does not add to it.
OneCopyPerActor == \A i \in Ids : Cardinality(Copies(i)) <= Cardinality(Actors)

\* keystore_exist() in keystore_add(): no key is in the store twice.
NoDuplicateKeys ==
  \A m, n \in DOMAIN ssh2keys : ssh2keys[m].id = ssh2keys[n].id => m = n

\* pageant_handle_msg(), SIGN: the key that signs is the key asked for.
SignsWithRequestedKey ==
  \A t \in Threads : pc[t] = "sign" /\ key[t] # NoKey => key[t].id = req[t].id

\* keystore_remove(): what is erased is the key the caller named.
ErasesRequestedKey ==
  [][ \A a \in Actors : pc[a] = "erase" /\ pc'[a] # "erase" /\ status' = "up"
        => \A n \in DOMAIN ssh2keys :
             \/ ssh2keys[n].id = req[a].id
             \/ \E m \in DOMAIN ssh2keys' : ssh2keys'[m] = ssh2keys[n] ]_vars

\* The key view shows the store: with no update queued, a key that is missing
\* from its rows was added in the gap between the first listing and the
\* registration of the listener, and a row without a key is one that expired.
ViewFaithful ==
  registered /\ ~refresh /\ ~gap =>
    /\ \A n \in DOMAIN ssh2keys : \E m \in DOMAIN listed : listed[m] = ssh2keys[n]
    /\ \A m \in DOMAIN listed : \/ \E n \in DOMAIN ssh2keys : ssh2keys[n] = listed[m]
                                \/ Expired(listed[m])

\* lockTerminal(): a key dropped by a terminal lock comes back only by a client
\* that adds it, by the user, who loads it or answers a dialog about it that was
\* still open, or by a start-up load that was under way and keeps its own copy of
\* the list.  Nothing else brings one back: no view, no add under way in another
\* place, no number of crashes and restarts at any step, and it never returns to
\* the start-up list by itself.
ForgottenStaysForgotten ==
  \A i \in forgotten : /\ i \notin startup
                       /\ InStore(i) => pc[Main] = "forget"

\* confirmacceptdlg.cpp, "timeout fire": with a time-out set, a request that
\* waits for a dialog is answered even when the user never touches it, unless the
\* process ends or the request goes on to use a position that is there no more.
DialogsAreAnswered ==
  \A t \in Threads :
    pc[t] \in {"ask", "dialog"} ~> (pc[t] = "idle" \/ status # "up" \/ Astray(t))

(* What the comments say, and the code does not do.                       *)

\* pageant.cpp:445: a SIGN request is answered, "depending on whether we have
\* that key or not".
SignAnswersAbsentKey == status # "nokey"

=============================================================================
