------------------------------- MODULE Parts -------------------------------
(***************************************************************************)
(* The parts with a state that meet the rest of the program in one call:   *)
(* the named pipe, the loads of key files, the signatures of smart cards.  *)
(* They share no variable, so side by side is any of them with any other.  *)
(***************************************************************************)
EXTENDS Pipe, KeyFiles, SmartCards

PartsSpec == PipeSpec /\ FilesSpec /\ CardsSpec

\* Values keep their types in each of the parts with a state.
PartsTypeOK == PipeTypeOK /\ FilesTypeOK /\ CardsTypeOK
=============================================================================
