-------------------------------- MODULE Wire --------------------------------
(***************************************************************************)
(* Octets, as keys are kept in files and sent in messages: lengths and     *)
(* strings (misc.cpp, ssh.h), base64 (misc.cpp, encode.cpp), and the lines *)
(* of a text.                                                              *)
(***************************************************************************)
EXTENDS Integers, Sequences, SequencesExt

Zeros(n) == [i \in 1..n |-> 0]
Behind(data, n) == SubSeq(data, n + 1, Len(data))

\* PUT_32BIT() and GET_32BIT() with toint(): from 2^31 on a number is negative,
\* and none at all is as good as that.
Put32(n) == [i \in 1..4 |-> (n \div 256^(4 - i)) % 256]
Get32(data) ==
  IF Len(data) < 4 \/ data[1] >= 128 THEN -1
  ELSE ((data[1] * 256 + data[2]) * 256 + data[3]) * 256 + data[4]

put_string(string) == Put32(Len(string)) \o string
Flat(strings) == FlattenSeq([i \in DOMAIN strings |-> put_string(strings[i])])

\* get_ssh_string(): is there a string, which, and what is behind it.
HasString(data) == Get32(data) \in 0..(Len(data) - 4)
FirstString(data) == SubSeq(data, 5, 4 + Get32(data))
BehindString(data) == Behind(data, 4 + Get32(data))

\* The strings of a blob; what is short of one more is left out.
RECURSIVE Strings(_)
Strings(data) ==
  IF HasString(data) THEN <<FirstString(data)>> \o Strings(BehindString(data)) ELSE <<>>

\* What is behind n strings, which are there.
RECURSIVE BehindStrings(_, _)
BehindStrings(data, n) == IF n = 0 THEN data ELSE BehindStrings(BehindString(data), n - 1)

-----------------------------------------------------------------------------
(* base64: a character is its value, or the one that fills up, or another.  *)

Fill == 64
Other == 65

\* Of up to three octets.
base64_encode_atom(data) ==
  LET o == data \o Zeros(3 - Len(data))
  IN <<o[1] \div 4, (o[1] % 4) * 16 + o[2] \div 16,
       IF Len(data) > 1 THEN (o[2] % 16) * 4 + o[3] \div 64 ELSE Fill,
       IF Len(data) > 2 THEN o[3] % 64 ELSE Fill>>

\* Nothing for what is no atom.
base64_decode_atom(atom) ==
  LET len == IF atom[4] # Fill THEN 3 ELSE IF atom[3] # Fill THEN 2 ELSE 1
      \* -1 & 0x3F of a character that fills up.
      v == [i \in 1..4 |-> IF atom[i] = Fill THEN 63 ELSE atom[i]]
      o == <<v[1] * 4 + v[2] \div 16, (v[2] % 16) * 16 + v[3] \div 4, (v[3] % 4) * 64 + v[4]>>
  IN IF Other \in {atom[i] : i \in 1..4} \/ atom[1] = Fill \/ atom[2] = Fill
        \/ (atom[3] = Fill /\ atom[4] # Fill)
     THEN <<>> ELSE SubSeq(o, 1, len)

Pieces(data, size) ==
  [i \in 1..((Len(data) + size - 1) \div size) |->
     SubSeq(data, (i - 1) * size + 1, IF i * size < Len(data) THEN i * size ELSE Len(data))]

Chars(data) == FlattenSeq([i \in DOMAIN Pieces(data, 3) |-> base64_encode_atom(Pieces(data, 3)[i])])
Atoms(chars) == [i \in 1..(Len(chars) \div 4) |-> base64_decode_atom(SubSeq(chars, 4 * i - 3, 4 * i))]
Decoded(chars) == FlattenSeq(Atoms(chars))

\* Every four characters are an atom; those that are left do not matter.
IsBase64(chars) == <<>> \notin ToSet(Atoms(chars))

\* encode.cpp has no use for characters that fill up.
Unfilled(data) == SelectSeq(Chars(data), LAMBDA c : c # Fill)

-----------------------------------------------------------------------------
(* Lines of a text: a field has a name, a colon and what is behind it; a    *)
(* mark begins or ends a part; the others are characters of base64.         *)

Field(name, body) == [kind |-> "field", name |-> name, body |-> body]
Mark(name, body) == [kind |-> "mark", name |-> name, body |-> body]
Data(chars) == [kind |-> "data", name |-> "", body |-> chars]
EndOfFile == Data(<<>>)

At(file, i) == IF i \in DOMAIN file THEN file[i] ELSE EndOfFile
IsField(line, name) == line.kind = "field" /\ line.name = name

\* base64_encode(): so many characters in a line.
base64_encode(data, cpl) == [i \in DOMAIN Pieces(Chars(data), cpl) |-> Data(Pieces(Chars(data), cpl)[i])]
base64_lines(length) == (length + 47) \div 48

\* The lines between the first and the first of the marks that end a text, if there is
\* one.
Ends(file, marks) == {i \in 2..Len(file) : file[i] \in marks}
Between(file, marks) ==
  SubSeq(file, 2, (CHOOSE i \in Ends(file, marks) : \A j \in Ends(file, marks) : i <= j) - 1)

\* No field comes behind characters.
FieldsFirst(lines) ==
  \A i, j \in DOMAIN lines : i < j /\ lines[j].kind = "field" => lines[i].kind = "field"

\* In each line, those in front of one that is not of base64.
Legible(chars) ==
  LET others == {i \in DOMAIN chars : chars[i] = Other}
  IN IF others = {} THEN chars
     ELSE SubSeq(chars, 1, (CHOOSE i \in others : \A j \in others : i <= j) - 1)
CharsOf(lines) ==
  FlattenSeq([i \in DOMAIN lines |-> IF lines[i].kind = "data" THEN Legible(lines[i].body) ELSE <<>>])
=============================================================================
