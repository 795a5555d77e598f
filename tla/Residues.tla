------------------------------ MODULE Residues ------------------------------
(***************************************************************************)
(* Numbers for the signature algorithms: what the functions of sshbn.c     *)
(* give, in the integers that Bignum shows them to agree with, and how the *)
(* keys and signatures write a number down.  A string is a sequence of     *)
(* octets, and a blob a sequence of strings: the four bytes of length in   *)
(* front of each, and what is short of them, are the end of a sequence.    *)
(***************************************************************************)
EXTENDS Integers, Sequences, SequencesExt

CONSTANT Octet    \* the bits of a byte

Null == -1        \* a NULL number or string

modmul(p, q, mod) == (p * q) % mod
modsub(a, b, n) == (a - b) % n

\* NULL when there is a common factor.
modinv(number, modulus) ==
  LET RECURSIVE Euclid(_, _, _, _)
      Euclid(a, b, xp, x) ==
        CASE b = 1 -> x % modulus
          [] b = 0 -> Null
          [] OTHER -> Euclid(b, a % b, x, xp - (a \div b) * x)
  IN Euclid(modulus, number, 0, 1)

RECURSIVE modpow(_, _, _)
modpow(base, exp, mod) ==
  IF exp = 0 THEN 1 % mod
  ELSE LET root == modpow((base * base) % mod, exp \div 2, mod)
       IN IF exp % 2 = 1 THEN (root * (base % mod)) % mod ELSE root

RECURSIVE bignum_bitcount(_)
bignum_bitcount(n) == IF n = 0 THEN 0 ELSE 1 + bignum_bitcount(n \div 2)

bignum_bit(n, i) == (n \div 2^i) % 2

\* The octets of a number, the least significant first.
Little(n, length) == [i \in 1..length |-> (n \div 2^((i - 1) * Octet)) % 2^Octet]
Big(n, length) == Reverse(Little(n, length))
FromLittle(data) == FoldRight(LAMBDA octet, high : octet + 2^Octet * high, data, 0)
FromBig(data) == FromLittle(Reverse(data))

\* As many octets as it has, and one more where the first would look negative.
UnsignedLength(n) == (bignum_bitcount(n) + Octet - 1) \div Octet
SignedLength(n) == (bignum_bitcount(n) + Octet) \div Octet

\* Mutant of Mp: nothing is put in front of an octet that looks negative.
NoSign(n) == Big(n, UnsignedLength(n))
Mp(n) == Big(n, SignedLength(n))

\* getstring() and getmp(): the string that is next in a blob, if one is, and the
\* number it stands for unless that is negative.
getstring(data) == IF data = <<>> THEN <<Null>> ELSE Head(data)
Missing(string) == string = <<Null>>
Rest(data) == IF data = <<>> THEN data ELSE Tail(data)
getmp(data) ==
  LET string == getstring(data)
  IN IF Missing(string) THEN Null
     ELSE IF string # <<>> /\ Head(string) >= 2^(Octet - 1) THEN Null
     ELSE FromBig(string)
getmp_le(data) ==
  IF Missing(getstring(data)) THEN Null ELSE FromLittle(getstring(data))
=============================================================================
