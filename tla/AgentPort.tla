----------------------------- MODULE AgentPort -----------------------------
(***************************************************************************)
(* What a socket transport of the agent promises to its clients and to the *)
(* request handler: at most one request is with the handler; its answer    *)
(* goes to the connection that asked, once, and in the order of the        *)
(* requests; and a connection is given up at any time but while the        *)
(* handler works for it.                                                   *)
(***************************************************************************)
EXTENDS Naturals, Sequences

CONSTANTS Conns,        \* the connections clients make
          MaxRequests   \* how many requests one connection carries

VARIABLES phase,   \* where each connection is, and with which request
          got      \* the requests each client has got answers to

vars == <<phase, got>>

Quiet(at) == [at |-> at, n |-> 0]

Init ==
  /\ phase = [c \in Conns |-> Quiet("away")]
  /\ got = [c \in Conns |-> <<>>]

Connect(c) ==
  /\ phase[c].at = "away"
  /\ phase' = [phase EXCEPT ![c] = Quiet("idle")]
  /\ UNCHANGED got

\* 0: something that is no request of this client.
Ask(c, n) ==
  /\ phase[c].at = "idle"
  /\ \A d \in Conns : phase[d].at # "busy"
  /\ phase' = [phase EXCEPT ![c] = [at |-> "busy", n |-> n]]
  /\ UNCHANGED got

Answer(c) ==
  /\ phase[c].at = "busy"
  /\ phase' = [phase EXCEPT ![c].at = "owed"]
  /\ UNCHANGED got

Deliver(c) ==
  /\ phase[c].at = "owed"
  /\ phase' = [phase EXCEPT ![c] = Quiet("idle")]
  /\ got' = [got EXCEPT ![c] = Append(@, phase[c].n)]

\* A time-out, an error or the end of the server may end several at once.
GiveUp(S) ==
  /\ \A c \in S : phase[c].at # "busy"
  /\ phase' = [c \in Conns |-> IF c \in S THEN Quiet("gone") ELSE phase[c]]
  /\ UNCHANGED got

Next ==
  \/ \E c \in Conns : \/ Connect(c) \/ Answer(c) \/ Deliver(c)
                      \/ \E n \in 0..MaxRequests : Ask(c, n)
  \/ \E S \in SUBSET Conns : GiveUp(S)

Spec == Init /\ [][Next]_vars
=============================================================================
