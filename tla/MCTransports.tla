---------------------------- MODULE MCTransports ----------------------------
(* An instance of Transports for TLC. *)
EXTENDS Transports

WindowCygwinBtTcpRdp == <<"window", "cygwin", "bt", "tcp", "rdp">>
=============================================================================
