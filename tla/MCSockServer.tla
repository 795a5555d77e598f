---------------------------- MODULE MCSockServer ----------------------------
(* Instances of SockServer for TLC. *)
EXTENDS SockServer, TLC

CONSTANTS c1, c2, c3

Symmetry == Permutations(Conns)
=============================================================================
