----------------------------- MODULE RemoteCall -----------------------------
(***************************************************************************)
(* What a signer that is elsewhere, behind an RDP channel or a Bluetooth   *)
(* device, promises to the threads that ask it: a call returns the answer  *)
(* to its own request, or none, and never that to another.  Where answers  *)
(* may be spoilt on their way it may be garbage instead.  While the        *)
(* exchange is muddled, by what neither end defends against, a call may    *)
(* return anything; a call that finds everything at rest may restore the   *)
(* order.                                                                  *)
(***************************************************************************)
CONSTANTS
  Requests,
  Nothing,   \* no answer
  Garbage,   \* what is the answer to no request
  Spoilt     \* answers may be garbage also when the exchange is in step

VARIABLES
  muddled,   \* requests and answers may be out of step
  asked,     \* the requests of the calls under way
  returned   \* the last call that returned: its request and its answer

vars == <<muddled, asked, returned>>

Init ==
  /\ muddled = FALSE /\ asked = {}
  /\ returned = [to |-> Nothing, with |-> Nothing]

\* One end may lose step with the other at any time.
Muddle == muddled' \in {muddled, TRUE}

Call(r) ==
  /\ r \notin asked
  /\ asked' = asked \cup {r}
  /\ Muddle \/ (asked = {} /\ ~muddled')
  /\ UNCHANGED returned

Return(r, answer) ==
  /\ r \in asked
  /\ answer \in {r, Nothing} \/ (Spoilt /\ answer = Garbage) \/ muddled
  /\ asked' = asked \ {r}
  /\ returned' = [to |-> r, with |-> answer]
  /\ Muddle

LoseStep == Muddle /\ UNCHANGED <<asked, returned>>

Next ==
  \/ LoseStep
  \/ \E r \in Requests : Call(r) \/ \E answer \in Requests \cup {Nothing, Garbage} : Return(r, answer)

Spec == Init /\ [][Next]_vars
=============================================================================
