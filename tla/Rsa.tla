-------------------------------- MODULE Rsa --------------------------------
(***************************************************************************)
(* RSA keys and their signatures (sshrsa.c).  A private operation is two   *)
(* small ones, modulo p and q, of an input that a number derived from the  *)
(* key has blinded.                                                        *)
(***************************************************************************)
EXTENDS Residues

CONSTANTS
  Hash(_, _),   \* of a signature algorithm, and data
  Info(_)       \* the octets that name the hash of an algorithm

\* The algorithms, and the flags of a request that choose one of them.
Rsa == <<1>>
Sha256 == <<2>>
Sha512 == <<3>>
Chosen(flags) ==
  CASE flags = 2 -> Sha256
    [] flags = 4 -> Sha512
    [] OTHER -> Rsa

Numbers == {"modulus", "exponent", "private_exponent", "p", "q", "iqmp"}
NoKey == [number \in Numbers |-> Null]

\* A number that is missing is looked into: the process ends.
Crash == [number \in Numbers |-> -2]

\* Mutant of Ordered: p and q stay as they are.
AsTheyAre(key) == key

\* p is the larger of the two, also in a key where it was not.
Ordered(key) ==
  IF key.p > key.q THEN key
  ELSE [key EXCEPT !.p = key.q, !.q = key.p, !.iqmp = modinv(key.p, key.q)]

\* The numbers of a key belong together: the key in order, or none.
rsa_verify(key) ==
  LET ordered == Ordered(key)
  IN IF /\ key.p * key.q = key.modulus
        /\ modmul(key.exponent, key.private_exponent, key.p - 1) = 1
        /\ modmul(key.exponent, key.private_exponent, key.q - 1) = 1
        /\ ordered.iqmp # Null
        /\ modmul(ordered.iqmp, ordered.q, ordered.p) = 1
     THEN ordered ELSE NoKey

\* base^exp mod p * q; diff is NULL when q is so large that adding p once is not
\* enough.
crt_modpow(base, exp, mod, p, q, iqmp) ==
  LET presult == modpow(base, exp % (p - 1), p)
      qresult == modpow(base, exp % (q - 1), q)
      diff == IF presult < qresult THEN presult + p - qresult ELSE presult - qresult
  IN IF diff < 0 THEN Null ELSE (iqmp * q * diff + qresult) % mod

\* The number that blinds is below the modulus and has an inverse: others are
\* passed over.
Blinds(random, key) == random \in 1..(key.modulus - 1) /\ modinv(random, key.modulus) # Null

rsa_privkey_op(input, key, random) ==
  LET Power(base, exp) == crt_modpow(base, exp, key.modulus, key.p, key.q, key.iqmp)
      blinded == modmul(input, Power(random, key.exponent), key.modulus)
      result == Power(blinded, key.private_exponent)
  IN modmul(result, modinv(random, key.modulus), key.modulus)

-----------------------------------------------------------------------------
(* Keys, as they are kept.                                                  *)

\* The numbers here may be negative to others: getmp() of this file takes them as
\* they are.
number(blob) == IF Missing(getstring(blob)) THEN Null ELSE FromBig(getstring(blob))
Behind(blob, n) == SubSeq(blob, n + 1, Len(blob))

rsa2_newkey(blob) ==
  LET key == [NoKey EXCEPT !.exponent = number(Behind(blob, 1)), !.modulus = number(Behind(blob, 2))]
  IN IF \/ Missing(getstring(blob)) \/ getstring(blob) # Rsa
        \/ key.exponent = Null \/ key.modulus = Null
     THEN NoKey ELSE key

rsa2_pubkey_bits(blob) ==
  LET key == rsa2_newkey(blob) IN IF key = NoKey THEN -1 ELSE bignum_bitcount(key.modulus)

rsa2_public_blob(key) == <<Rsa, Mp(key.exponent), Mp(key.modulus)>>

rsa2_private_blob(key) == <<Mp(key.private_exponent), Mp(key.p), Mp(key.q), Mp(key.iqmp)>>

\* Nothing is asked of what the blobs gave before the numbers are compared.
rsa2_createkey(pub_blob, priv_blob) ==
  LET key == rsa2_newkey(pub_blob)
  IN IF key = NoKey \/ Len(priv_blob) < 4 THEN Crash
     ELSE rsa_verify([key EXCEPT !.private_exponent = number(priv_blob),
                                 !.p = number(Behind(priv_blob, 1)),
                                 !.q = number(Behind(priv_blob, 2)),
                                 !.iqmp = number(Behind(priv_blob, 3))])

rsa2_openssh_createkey(blob) ==
  IF Len(blob) < 6 THEN NoKey
  ELSE rsa_verify([modulus |-> number(blob), exponent |-> number(Behind(blob, 1)),
                   private_exponent |-> number(Behind(blob, 2)), iqmp |-> number(Behind(blob, 3)),
                   p |-> number(Behind(blob, 4)), q |-> number(Behind(blob, 5))])

rsa2_openssh_fmtkey(key) ==
  <<Mp(key.modulus), Mp(key.exponent), Mp(key.private_exponent), Mp(key.iqmp), Mp(key.p), Mp(key.q)>>

\* A key of SSH-1: bits of the modulus, then the numbers, in one order or the other.
rsa_public_blob(key) ==
  <<<<bignum_bitcount(key.modulus)>>, Big(key.exponent, UnsignedLength(key.exponent)),
    Big(key.modulus, UnsignedLength(key.modulus))>>

makekey(blob, order) ==
  LET key == [NoKey EXCEPT !.exponent = number(Behind(blob, 1 + order)),
                           !.modulus = number(Behind(blob, 2 - order))]
  IN IF Len(blob) < 3 \/ key.modulus = 0 THEN NoKey ELSE key

-----------------------------------------------------------------------------
(* Signatures.                                                              *)

Full == 2^Octet - 1

\* The octets that a hash is raised in: 1, as many FF as there is room for, the
\* name of the hash and the hash.
Encoded(key, alg, data) ==
  LET nbytes == (bignum_bitcount(key.modulus) - 1) \div Octet
      behind == Info(alg) \o Hash(alg, data)
  IN <<1>> \o [i \in 1..(nbytes - 1 - Len(behind)) |-> Full] \o behind

\* An assertion says that there is room for one octet in front.
Room(key, alg, data) ==
  (bignum_bitcount(key.modulus) - 1) \div Octet > Len(Info(alg) \o Hash(alg, data))

\* Of the algorithm that flags ask for; without flags it is rsa2_sign() itself.
\* Nothing, because the process has ended, when the assertion does not hold.
rsa2_sign_ex(key, data, flags, random) ==
  LET alg == Chosen(flags)
      out == rsa_privkey_op(FromBig(Encoded(key, alg, data)), key, random)
  IN IF Room(key, alg, data) THEN <<alg, Big(out, UnsignedLength(out))>> ELSE <<>>

rsa2_sign(key, data, random) == rsa2_sign_ex(key, data, 0, random)

\* Octet by octet, from the top.
rsa2_verifysig(key, sig, data) ==
  LET in == number(Rest(sig))
      bytes == UnsignedLength(key.modulus)
      out == Big(modpow(in % key.modulus, key.exponent, key.modulus), bytes)
      behind == Info(Rsa) \o Hash(Rsa, data)
  IN /\ ~Missing(getstring(sig)) /\ getstring(sig) = Rsa
     /\ in # Null
     /\ out[1] = 0 /\ out[2] = 1
     /\ \A i \in 3..(bytes - Len(behind)) : out[i] = Full
     /\ SubSeq(out, bytes - Len(behind) + 1, bytes) = behind

-----------------------------------------------------------------------------
(* What they promise.                                                        *)

\* The key with primes p and q, of a file that need not have them in order.
KeyOf(p, q, e) ==
  [modulus |-> p * q, exponent |-> e, private_exponent |-> modinv(e, (p - 1) * (q - 1)),
   p |-> p, q |-> q, iqmp |-> modinv(q, p)]

\* By halves, and blinded or not, a power is the power.
PowersAgree(key, input, random) ==
  LET accepted == rsa_verify(key)
  IN rsa_privkey_op(input, accepted, random) =
       modpow(input, accepted.private_exponent, accepted.modulus)

\* A key that was accepted is kept as it is, in every form.
KeptAsWritten(key) ==
  LET accepted == rsa_verify(key)
      public == [NoKey EXCEPT !.modulus = key.modulus, !.exponent = key.exponent]
  IN /\ accepted # NoKey /\ accepted.p > accepted.q
     /\ rsa2_createkey(rsa2_public_blob(key), rsa2_private_blob(key)) = accepted
     /\ rsa2_createkey(rsa2_public_blob(accepted), rsa2_private_blob(accepted)) = accepted
     /\ rsa2_openssh_createkey(rsa2_openssh_fmtkey(key)) = accepted
     /\ rsa2_newkey(rsa2_public_blob(key)) = public
     /\ makekey(rsa_public_blob(key), 0) = public

\* What a key signs is its hash, whatever blinded it, and its own check finds it so.
SignedIsValid(key, data, random) ==
  LET accepted == rsa_verify(key)
  IN \A flags \in {0, 2, 4} :
       LET sig == rsa2_sign_ex(accepted, data, flags, random)
           raised == modpow(FromBig(sig[2]), key.exponent, key.modulus)
       IN Room(key, Chosen(flags), data) =>
            /\ raised = FromBig(Encoded(key, Chosen(flags), data))
            /\ rsa2_verifysig(key, sig, data) <=> Chosen(flags) = Rsa
=============================================================================
