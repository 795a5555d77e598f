------------------------------ MODULE MCParts ------------------------------
(***************************************************************************)
(* Instances for TLC of the parts that meet the rest of the program in one *)
(* call, and share nothing with each other: each behaviour is of one part. *)
(* The library keeps nothing.                                              *)
(***************************************************************************)
EXTENDS Integers, Sequences, SequencesExt, Parts, MCLibrary

CONSTANTS f1, f2, f3, f4, f5, p1, p2, p3

\* Three encrypted files, of each format; one that was altered; one that cannot be read.
EncryptedWith == (f1 :> p1) @@ (f2 :> p2) @@ (f3 :> NoPass) @@ (f4 :> p1) @@ (f5 :> p2)
FilesInSettings == <<f1, f2>>
TwoSlots == <<1, 2>>

VARIABLE part
allVars == <<part, input, pipeVars, fileVars, cardVars>>

Init ==
  /\ PipeInit /\ FilesInit /\ CardsInit
  /\ \/ part = "library" /\ LibraryInit
     \/ part \in {"pipe", "files", "cards"} /\ input = [part |-> "none"]
  /\ part # "files" => save_enable
  /\ part # "cards" => cardPin = p1

Next ==
  /\ UNCHANGED part
  /\ \/ part = "library" /\ LibraryNext /\ UNCHANGED <<pipeVars, fileVars, cardVars>>
     \/ part = "pipe" /\ PipeNext /\ UNCHANGED <<input, fileVars, cardVars>>
     \/ part = "files" /\ FilesNext /\ UNCHANGED <<input, pipeVars, cardVars>>
     \/ part = "cards" /\ CardsNext /\ UNCHANGED <<input, pipeVars, fileVars>>

PipeAlone == part = "pipe" /\ PipeOwes /\ UNCHANGED <<part, input, fileVars, cardVars>>

\* Of fairness only what Pipe states.
Spec == Init /\ [][Next]_allVars /\ WF_pipeVars(PipeAlone)

-----------------------------------------------------------------------------

(* Of what keeps no state, when an input is taken.                          *)

\* What the library computes with numbers, points and blocks is what there is to
\* compute.
ComputesExactly == [][ArithmeticExact /\ CurvesExact /\ CiphersExact(input')]_allVars

\* What a key signs, its own check of signatures finds valid: at three blindings of
\* RSA, with the nonces of the small curves, and with the one nonce that DSA computes of
\* a key and its data; unless the nonce leaves r or s zero, which nothing in the code
\* prevents.
SignaturesValid == [][AllSignaturesValid]_allVars

\* A key that was read is the key that was written, in every form and every kind of
\* file, unless it is refused: an ed25519 key that has zero octets in front, in OpenSSH's
\* form.  PuTTY's files have a MAC: of one that was altered, in an octet or a line, no
\* other key is read.  Of the other formats this is said only of a whole line that is
\* lost or doubled, other than DEK-Info: an octet of theirs that was altered may well
\* give another key, of DSA in a file that is not encrypted for one.
KeysKeptAsWritten == [][KeysKept /\ FilesKept(input')]_allVars
=============================================================================
