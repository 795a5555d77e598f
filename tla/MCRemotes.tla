----------------------------- MODULE MCRemotes -----------------------------
(* An instance for TLC of the two signers that are elsewhere: behind the RDP *)
(* channel or behind Bluetooth.  signer() asks the one or the other by what  *)
(* the key's comment starts with; they share nothing, and each behaviour is  *)
(* of one of them.                                                           *)
EXTENDS Relay, BtProxy

VARIABLE remote   \* what the comment starts with: "rdp" or "btspp"

all == <<remote, vars, btVars>>

Rdp == remote = "rdp" /\ UNCHANGED <<remote, btVars>>
Bluetooth == remote = "btspp" /\ UNCHANGED <<remote, vars>>

RemotesInit ==
  /\ remote \in {"rdp", "btspp"} /\ Init /\ BtInit
  /\ remote = "btspp" => session

RemotesNext == (Rdp /\ Next) \/ (Bluetooth /\ BtNext)

RemotesSpec ==
  /\ RemotesInit /\ [][RemotesNext]_all
  /\ WF_all((Rdp /\ Server) \/ (Bluetooth /\ Worker))
  /\ WF_all((Rdp /\ Dll) \/ (Bluetooth /\ Closed))
  /\ WF_all(Rdp /\ \E c \in Callers : Caller(c))

\* Values keep their types at the one and at the other.
RemotesTypeOK == TypeOK /\ BtTypeOK

\* Who waits for a signer that is elsewhere does not wait for ever: the relay's caller
\* for its answer, the main thread for the end of a Bluetooth connection.
WaitsEnd == CallsReturn /\ DisconnectionEnds

\* A call to either never returns the answer to another request: its own answer, or
\* none, or, over the RDP channel, the garbage of a buffer that was freed too early.
\* Unless its request overlaps another's, or is longer than a chunk or a piece, or
\* finds something of an earlier one still on its way.
ImplementRemoteCall == ImplementsRemoteCall /\ BtImplementsRemoteCall
=============================================================================
