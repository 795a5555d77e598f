------------------------------ MODULE MCAgent ------------------------------
(* Instances of Agent for TLC. *)
EXTENDS Agent, TLC

CONSTANTS t1, t2, k1, k2

R(op, id, ok, confirm, life) ==
  [op |-> op, id |-> id, ok |-> ok, confirm |-> confirm, life |-> life]

Plain(op, id) == R(op, id, TRUE, FALSE, -1)

NoInfo == [s \in ConfirmOps \X Ids |-> "none"]

\* One client may ask for everything about one key, well formed or not.
AllRequests ==
  { Plain(op, k1) : op \in {"sign", "add", "remove", "list", "removeall", "unknown"} }
  \cup { R(op, k1, FALSE, FALSE, -1) : op \in {"sign", "remove"} }
  \cup { R("add", k1, FALSE, FALSE, -1), R("add", k1, TRUE, TRUE, 1) }

\* Additions, uses and removals of two keys that nobody has to confirm twice.
StoreRequests == { Plain(op, i) : op \in {"sign", "add", "remove"}, i \in Ids }

\* What needs consent: a use, an addition that asks for confirmation, a removal.
ConsentRequests == { Plain("sign", k1), R("add", k1, TRUE, TRUE, -1), Plain("remove", k1) }

AddOnly == { Plain("add", k1) }

AddSign == { Plain("add", k1), Plain("sign", k1) }

\* The settings start with everything refused, with nothing on record, or with
\* everything accepted.  (The user clears the records, and what she accepts is
\* recorded: from the first one the others are reached.)
AllRefused == { [s \in ConfirmOps \X Ids |-> "refuse"] }
NothingRecorded == { NoInfo }
PuttyAccepts == [s \in ConfirmOps \X Ids |-> IF s[1] = "sign" THEN "accept" ELSE "none"]
AllAccepted == { [s \in ConfirmOps \X Ids |-> "accept"] }

NoStartup == { {} }
EmptyOrAll == { {}, Ids }
=============================================================================
