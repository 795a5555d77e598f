-------------------------------- MODULE Dss --------------------------------
(***************************************************************************)
(* DSA keys and their signatures (sshdss.c).                               *)
(***************************************************************************)
EXTENDS Residues

CONSTANTS
  Hash(_),      \* SHA-1: the octets of a number below Half
  HashLength,   \* how many
  Proto(_, _)   \* what SHA-512 makes of the digests, perturbed so many times

Dss == <<4>>
NoKey == [p |-> Null, q |-> Null, g |-> Null, y |-> Null, x |-> Null]

Group(key) == <<Mp(key.p), Mp(key.q), Mp(key.g)>>

Public(blob) ==
  [p |-> getmp(blob), q |-> getmp(Rest(blob)), g |-> getmp(Rest(Rest(blob))),
   y |-> getmp(Rest(Rest(Rest(blob)))), x |-> Null]

Usable(key) == Null \notin {key.p, key.q, key.g, key.y} /\ key.q # 0 /\ key.p # 0

dss_newkey(blob) ==
  IF ~Missing(getstring(blob)) /\ getstring(blob) = Dss /\ Usable(Public(Rest(blob)))
  THEN Public(Rest(blob)) ELSE NoKey

dss_pubkey_bits(blob) ==
  LET key == dss_newkey(blob) IN IF key = NoKey THEN -1 ELSE bignum_bitcount(key.p)

dss_public_blob(key) == <<Dss>> \o Group(key) \o <<Mp(key.y)>>

dss_private_blob(key) == <<Mp(key.x)>>

\* A hash of the group is looked at where a file has one.
ObsoleteHash(key, priv_blob) ==
  LET hash == getstring(Rest(priv_blob))
  IN Len(hash) = HashLength => hash = Hash(FlattenSeq(Group(key)))

dss_createkey(pub_blob, priv_blob) ==
  LET key == dss_newkey(pub_blob)
      x == getmp(priv_blob)
  IN IF /\ key # NoKey /\ x # Null
        /\ ObsoleteHash(key, priv_blob)
        /\ modpow(key.g % key.p, x, key.p) = key.y
     THEN [key EXCEPT !.x = x] ELSE NoKey

\* Nobody asks whether x generates y.
dss_openssh_createkey(blob) ==
  LET key == [Public(blob) EXCEPT !.x = getmp(Rest(Rest(Rest(Rest(blob)))))]
  IN IF Usable(key) /\ key.x # Null THEN key ELSE NoKey

dss_openssh_fmtkey(key) == Group(key) \o <<Mp(key.y), Mp(key.x)>>

-----------------------------------------------------------------------------
(* Signatures.                                                              *)

\* A number from 2 on, below the modulus: others are passed over.
RECURSIVE Suitable(_, _, _)
Suitable(modulus, digests, perturbed) ==
  LET k == FromBig(Proto(digests, perturbed)) % modulus
  IN IF k \in {0, 1} THEN Suitable(modulus, digests, perturbed + 1) ELSE k

dss_gen_k(modulus, private_key, digest) == Suitable(modulus, Mp(private_key) \o digest, 0)

dss_sign(key, data) ==
  LET k == dss_gen_k(key.q, key.x, Hash(data))
      r == modpow(key.g, k, key.p) % key.q
      s == modmul(modinv(k, key.q), FromBig(Hash(data)) + key.x * r, key.q)
  IN <<Dss, Big(r, HashLength) \o Big(s, HashLength)>>

\* Commercial SSH has the two numbers alone.
dss_verifysig(key, sig, data) ==
  LET alone == Len(sig) = 1 /\ Len(sig[1]) = 2 * HashLength
      pair == IF alone THEN sig[1] ELSE getstring(Rest(sig))
      r == FromBig(SubSeq(pair, 1, HashLength))
      s == FromBig(SubSeq(pair, HashLength + 1, 2 * HashLength))
      w == modinv(s, key.q)
      u1 == modmul(FromBig(Hash(data)), w, key.q)
      u2 == modmul(r, w, key.q)
      v == modmul(modpow(key.g, u1, key.p), modpow(key.y, u2, key.p), key.p) % key.q
  IN /\ alone \/ (~Missing(getstring(sig)) /\ getstring(sig) = Dss)
     /\ Len(pair) >= 2 * HashLength
     /\ s # 0 /\ w # Null
     /\ v = r

-----------------------------------------------------------------------------
(* What they promise.                                                        *)

KeyOf(p, q, g, x) == [p |-> p, q |-> q, g |-> g, y |-> modpow(g, x, p), x |-> x]

\* A key is read as it was written; one that does not belong together is not.
KeptAsWritten(key) ==
  LET wrong == [key EXCEPT !.y = (@ + 1) % key.p]
  IN /\ dss_createkey(dss_public_blob(key), dss_private_blob(key)) = key
     /\ dss_createkey(dss_public_blob(wrong), dss_private_blob(key)) = NoKey
     /\ dss_openssh_createkey(dss_openssh_fmtkey(key)) = key
     /\ dss_newkey(dss_public_blob(key)) = [key EXCEPT !.x = Null]

\* What a key signs is found valid in both forms, unless s came out as zero; for
\* other data it is valid when it has the same hash to the modulus.
SignedIsValid(key, data, other) ==
  LET sig == dss_sign(key, data)
      zero == FromBig(SubSeq(sig[2], HashLength + 1, 2 * HashLength)) = 0
  IN /\ dss_verifysig(key, sig, data) <=> ~zero
     /\ dss_verifysig(key, <<sig[2]>>, data) <=> ~zero
     /\ (FromBig(Hash(data)) - FromBig(Hash(other))) % key.q = 0 =>
          (dss_verifysig(key, sig, other) <=> ~zero)
=============================================================================
