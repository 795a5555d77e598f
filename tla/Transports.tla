----------------------------- MODULE Transports -----------------------------
(***************************************************************************)
(* How the main thread of pageant+ starts and stops its transports         *)
(* (agents_start() and agents_stop() of mainwindow.cpp, main.cpp, and the  *)
(* start and stop functions of each transport): at start-up, each time the *)
(* setting dialog is closed, and at the end.                               *)
(*                                                                         *)
(* A stop signals a server thread and joins it, and all that time the main *)
(* thread serves nothing; but a request that needs its user's consent      *)
(* waits for the main thread.  What a request does otherwise is module     *)
(* Agent's, how a socket serves its clients module SockServer's.           *)
(***************************************************************************)
EXTENDS Naturals, Sequences

CONSTANT Order   \* the transports of the build, as agents_start() goes through them

\* agents_start() and agents_stop() go through them in the same order.
AgentOrder == <<"window", "native", "cygwin", "pipe", "bt", "tcp", "rdp">>

Rank(t) == CHOOSE r \in DOMAIN AgentOrder : AgentOrder[r] = t

ASSUME OrderAssumption ==
  /\ Order \in Seq({AgentOrder[r] : r \in DOMAIN AgentOrder}) /\ Order # <<>>
  /\ \A i, j \in DOMAIN Order : i < j => Rank(Order[i]) < Rank(Order[j])

Transport == {Order[i] : i \in DOMAIN Order}

\* Those that clients talk to; the other two sign for keys that are elsewhere.
Servers == Transport \ {"bt", "rdp"}

VARIABLES
  enabled,   \* the settings: which transports are wanted
  thread,    \* where the thread of each transport is, "none": there is none
  told,      \* transports whose thread has been signalled to end
  main,      \* where the main thread is, with the transport it has come to
  window,    \* gWin: MainWindow has been constructed
  stack,     \* the nested exec() loops of the main thread
  quitting,  \* QCoreApplication::quit(): every loop is told to return
  crash      \* what ended the process, if not the user

vars == <<enabled, thread, told, main, window, stack, quitting, crash>>

Alive == crash = "no"

At(l) == Alive /\ main.at = l

Is(t, l) == Alive /\ t \in Transport /\ thread[t] = l

Move(t, l) == thread' = [thread EXCEPT ![t] = l]

-----------------------------------------------------------------------------
(* agents_start() and agents_stop().                                        *)

\* The next transport, or what comes after the last one.
Onwards ==
  IF main.i < Len(Order) THEN [main EXCEPT !.i = @ + 1]
  ELSE IF main.at = "start" THEN [main EXCEPT !.at = IF window THEN "loop" ELSE "boot", !.i = 1]
  ELSE [main EXCEPT !.at = IF main.why = "quit" THEN "gone" ELSE "start", !.i = 1]

\* Mutant of Current: what was started last is stopped first.
LastFirst == Order[IF main.at \in {"stop", "join"} THEN Len(Order) + 1 - main.i ELSE main.i]

\* The transport that is started or stopped now.
Current == Order[main.i]

\* Mutant of Start: a failure is not written to the settings.
StartRegardless ==
  /\ At("start")
  /\ main' = Onwards
  /\ \/ Current \notin enabled /\ UNCHANGED thread
     \/ /\ Current \in enabled
        /\ \/ Move(Current, IF Current = "window" THEN "boot" ELSE "wait")
           \/ Current # "window" /\ UNCHANGED thread
  /\ UNCHANGED <<enabled, told, window, stack, quitting, crash>>

\* A transport that is wanted gets its thread, or, when its pipe, its socket or
\* its radio is not to be had, is turned off in the settings.  Nobody looks at
\* what ssh_agent_localhost_start() returns.
Start ==
  /\ At("start")
  /\ main' = Onwards
  /\ \/ Current \notin enabled /\ UNCHANGED <<enabled, thread>>
     \/ /\ Current \in enabled
        /\ \/ Move(Current, IF Current = "window" THEN "boot" ELSE "wait") /\ UNCHANGED enabled
           \/ /\ Current # "window"
              /\ enabled' = IF Current = "tcp" THEN enabled ELSE enabled \ {Current}
              /\ UNCHANGED thread
  /\ UNCHANGED <<told, window, stack, quitting, crash>>

\* main(): the window comes after the transports.
CreateWindow ==
  /\ At("boot")
  /\ window' = TRUE
  /\ main' = [main EXCEPT !.at = "loop"]
  /\ UNCHANGED <<enabled, thread, told, stack, quitting, crash>>

\* The exit flag, the event or the WM_CLOSE; as long as winpgnt.cpp's thread
\* has not created its window, ghwnd is NULL and the message goes nowhere.
Signal ==
  /\ At("stop")
  /\ IF thread[Current] = "none"
     THEN main' = Onwards /\ UNCHANGED told
     ELSE /\ told' = IF thread[Current] = "boot" THEN told ELSE told \cup {Current}
          /\ main' = [main EXCEPT !.at = "join"]
  /\ UNCHANGED <<enabled, thread, window, stack, quitting, crash>>

\* Mutant of Join: the thread is left to end by itself.
Detach ==
  /\ At("join")
  /\ told' = told
  /\ main' = [Onwards EXCEPT !.at = IF @ = "join" THEN "stop" ELSE @]
  /\ UNCHANGED <<thread, enabled, window, stack, quitting, crash>>

\* th->join(), and what it served is closed and deleted.
Join ==
  /\ At("join")
  /\ thread[Current] = "ended"
  /\ Move(Current, "none")
  /\ told' = told \ {Current}
  /\ main' = [Onwards EXCEPT !.at = IF @ = "join" THEN "stop" ELSE @]
  /\ UNCHANGED <<enabled, window, stack, quitting, crash>>

-----------------------------------------------------------------------------
(* The event loops of the main thread.                                      *)

Frame(kind, t) == [kind |-> kind, th |-> t]

Top == stack[Len(stack)]

Pop == stack' = SubSeq(stack, 1, Len(stack) - 1)

\* confirmAcceptDlg(): the slot runs in the innermost loop.
Serve(t) ==
  /\ At("loop") /\ ~quitting /\ Is(t, "ask")
  /\ stack' = Append(stack, Frame("confirm", t))
  /\ Move(t, "dialog")
  /\ UNCHANGED <<enabled, told, main, window, quitting, crash>>

\* Answered, timed out, or made to return by quit().
CloseDialog ==
  /\ At("loop") /\ stack # <<>> /\ Top.kind = "confirm"
  /\ Pop
  /\ Move(Top.th, "busy")
  /\ UNCHANGED <<enabled, told, main, window, quitting, crash>>

\* on_actionsetting_triggered(), from the tray, whatever dialogs are open; one
\* setting dialog at a time.
OpenSetting ==
  /\ At("loop") /\ ~quitting
  /\ \A n \in DOMAIN stack : stack[n].kind # "setting"
  /\ stack' = Append(stack, Frame("setting", "none"))
  /\ UNCHANGED <<enabled, thread, told, main, window, quitting, crash>>

\* Accepted or not, it is followed by agents_stop() and agents_start(), with
\* the loops outside it waiting.
CloseSetting(wanted) ==
  /\ At("loop") /\ stack # <<>> /\ Top.kind = "setting"
  /\ quitting => wanted = enabled
  /\ Pop
  /\ enabled' = wanted
  /\ main' = [at |-> "stop", i |-> 1, why |-> "setting"]
  /\ UNCHANGED <<thread, told, window, quitting, crash>>

Quit ==
  /\ At("loop") /\ ~quitting
  /\ quitting' = TRUE
  /\ UNCHANGED <<enabled, thread, told, main, window, stack, crash>>

\* Mutant of Leave: a.exec() returns and leaves the dialogs open.
LeaveWithDialogs ==
  /\ At("loop") /\ quitting
  /\ main' = [at |-> "stop", i |-> 1, why |-> "quit"]
  /\ UNCHANGED <<enabled, thread, told, window, stack, quitting, crash>>

\* a.exec() returns, after the loops inside it.
Leave ==
  /\ At("loop") /\ quitting /\ stack = <<>>
  /\ main' = [at |-> "stop", i |-> 1, why |-> "quit"]
  /\ UNCHANGED <<enabled, thread, told, window, stack, quitting, crash>>

-----------------------------------------------------------------------------
(* The threads.                                                             *)

ThreadOnly == UNCHANGED <<enabled, told, main, window, stack, quitting>>

\* winpgnt_main(): CreateWindowW().
Show(t) ==
  /\ Is(t, "boot")
  /\ Move(t, "wait")
  /\ ThreadOnly /\ UNCHANGED crash

\* A request comes.  A thread that has been told to end may still have one
\* before it notices: a slot of the select() round, a sent message, data that
\* a pipe has ready.
Take(t) ==
  /\ t \in Servers /\ Is(t, "wait")
  /\ Move(t, "busy")
  /\ ThreadOnly /\ UNCHANGED crash

\* The answer goes out.
Finish(t) ==
  /\ Is(t, "busy")
  /\ Move(t, "wait")
  /\ ThreadOnly /\ UNCHANGED crash

\* confirmAcceptDlg() emits a signal of gWin.
Ask(t) ==
  /\ Is(t, "busy")
  /\ IF window THEN Move(t, "ask") /\ UNCHANGED crash
               ELSE crash' = "nowindow" /\ UNCHANGED thread
  /\ ThreadOnly

\* bt_agent_proxy_main_connect() looks whether there is a proxy (the setting,
\* read before, may have changed since) ...
Connect(t) ==
  /\ Is(t, "busy") /\ "bt" \in Transport /\ thread["bt"] # "none"
  /\ Move(t, "call")
  /\ ThreadOnly /\ UNCHANGED crash

\* ... and bta_send() uses it; the wait for the answer ends by a time-out.
Call(t) ==
  /\ Is(t, "call")
  /\ IF thread["bt"] # "none" THEN Move(t, "poll") /\ UNCHANGED crash
                              ELSE crash' = "dangling" /\ UNCHANGED thread
  /\ ThreadOnly

Polled(t) ==
  /\ Is(t, "poll")
  /\ Move(t, "wait")
  /\ ThreadOnly /\ UNCHANGED crash

\* What waits for somebody else, and without a time-out: the handshake of a
\* cygwin client, FlushFileBuffers() until a pipe's client has read its
\* answer, and an RDP client that is to sign.
Hold(t) ==
  /\ t \in Servers
  /\ \/ Is(t, "wait") /\ t = "cygwin"
     \/ Is(t, "busy") /\ (t = "pipe" \/ ("rdp" \in Transport /\ thread["rdp"] # "none"))
  /\ Move(t, "held")
  /\ ThreadOnly /\ UNCHANGED crash

Release(t) ==
  /\ Is(t, "held")
  /\ Move(t, "wait")
  /\ ThreadOnly /\ UNCHANGED crash

\* Mutant of End: a thread looks at its signal once it has served a request.
EndOnceServed(t) ==
  /\ Is(t, "busy") /\ t \in told
  /\ Move(t, "ended")
  /\ ThreadOnly /\ UNCHANGED crash

End(t) ==
  /\ Is(t, "wait") /\ t \in told
  /\ Move(t, "ended")
  /\ ThreadOnly /\ UNCHANGED crash

-----------------------------------------------------------------------------

Init ==
  /\ enabled \in SUBSET Transport
  /\ thread = [t \in Transport |-> "none"]
  /\ told = {}
  /\ main = [at |-> "start", i |-> 1, why |-> "boot"]
  /\ window = FALSE /\ stack = <<>> /\ quitting = FALSE /\ crash = "no"

\* What the main thread does without waiting for its user.
Busy == Start \/ CreateWindow \/ Signal \/ Join

User ==
  \/ CloseDialog \/ OpenSetting \/ Quit
  \/ \E wanted \in SUBSET Transport : CloseSetting(wanted)

\* What a request does by itself.
Work(t) == Finish(t) \/ Ask(t) \/ Connect(t) \/ Call(t) \/ Polled(t)

Next ==
  \/ Busy \/ User \/ Leave
  \/ \E t \in Transport : \/ Show(t) \/ Take(t) \/ Work(t) \/ Hold(t) \/ Release(t) \/ End(t)
                          \/ Serve(t)

Spec == Init /\ [][Next]_vars

\* The threads run.  A thread in its loop sees the signal sooner or later even
\* if requests keep coming: select() is followed by a look at the flag, a pipe
\* looks at its control event first whenever the next request is not there yet,
\* and a posted message is served when the messages sent before it are.  After
\* quit() the loops return.  Nothing is assumed of the user; of clients, that a
\* pipe's is not every time the faster one.
Fairness ==
  /\ WF_vars(Busy) /\ WF_vars(Leave)
  /\ WF_vars(quitting /\ (CloseDialog \/ CloseSetting(enabled)))
  /\ \A t \in Transport : WF_vars(Show(t) \/ Work(t))
  /\ \A t \in Servers : SF_vars(End(t))
  /\ \A t \in Transport \ Servers : WF_vars(End(t))

FairSpec == Spec /\ Fairness

-----------------------------------------------------------------------------
(* What starting and stopping promise.                                      *)

\* The type invariant.
TypeOK ==
  /\ enabled \subseteq Transport /\ told \subseteq Transport
  /\ thread \in [Transport -> {"none", "boot", "wait", "busy", "ask", "dialog", "call", "poll",
                               "held", "ended"}]
  /\ main \in [at : {"start", "boot", "loop", "stop", "join", "gone"}, i : DOMAIN Order,
               why : {"boot", "setting", "quit"}]
  /\ window \in BOOLEAN /\ quitting \in BOOLEAN
  /\ stack \in Seq([kind : {"confirm", "setting"}, th : Transport \cup {"none"}])
  /\ crash \in {"no", "nowindow", "dangling"}

\* agents_start(), "r == false": whenever the user can look, the transports that
\* run are those the settings name, however many were changed, failed or are
\* open in other dialogs; the TCP transport alone may be named and not run.
SettingsTellWhatRuns ==
  main.at = "loop" =>
    /\ \A t \in Transport : thread[t] # "none" => t \in enabled
    /\ \A t \in Transport \ {"tcp"} : t \in enabled => thread[t] # "none"

\* bta_exit(): the Bluetooth proxy is deleted only when no request of a
\* transport that is stopped before it can use it; the TCP transport, stopped
\* after it, is the exception.
ProxyOutlivesItsUsers ==
  "bt" \in Transport =>
    \A t \in Servers \ {"tcp"} : thread[t] = "call" => thread["bt"] # "none"

\* main(): keystore_exit(), setting_exit() and the end of MainWindow come when
\* no thread can use them any more.  (The exit(1) of WM_APP+1, mainwindow.cpp:665, is not
\* among the ends of the program here: what posts that message, main.cpp:160, is compiled
\* only with DEVELOP_VERSION, which pageant+.h has commented out.)
NothingRunsAfterTheEnd == main.at = "gone" => \A t \in Transport : thread[t] = "none"

\* BlockingQueuedConnection: at the end every dialog has returned before the
\* first join, so no thread waits for one that is on screen.
QuitAnswersDialogs ==
  main.why = "quit" => stack = <<>> /\ \A t \in Transport : thread[t] # "dialog"

\* What keeps a join from returning: a thread that waits for the main thread
\* itself, or for somebody who owes it nothing, and a WM_CLOSE without a window.
Stuck(t) ==
  \/ thread[t] \in {"ask", "dialog", "held"}
  \/ t = "window" /\ t \notin told

\* agents_stop(): closing the setting dialog, or quitting, always leads on,
\* unless one of the waits of Stuck has begun in the thread that is joined.
StopsEnd ==
  main.at \in {"stop", "join", "start"}
    ~> \/ main.at \in {"loop", "gone"} \/ ~Alive
       \/ main.at = "join" /\ Stuck(Current)

=============================================================================
