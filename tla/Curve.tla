------------------------------- MODULE Curve -------------------------------
(***************************************************************************)
(* Keys on elliptic curves, and their signatures (sshecc.c), on a curve    *)
(* that is small enough to be looked at point by point.                    *)
(*                                                                         *)
(* A point of a Weierstrass curve y^2 = x^3 + ax + b is (x / z^2, y / z^3),*)
(* or (x, y) when z is NULL.  Of a Montgomery curve only x / z is kept.    *)
(* An Edwards curve is y^2 - x^2 = 1 + d x^2 y^2.                          *)
(***************************************************************************)
EXTENDS Residues

CONSTANTS
  curve,        \* [type, name, p, fieldBits, a, b, d, G, n]: those of its kind
  Hash(_)       \* the curve's; on Edwards' its octets are twice those of the field

Weierstrass == curve.type = "EC_WEIERSTRASS"
Edwards == curve.type = "EC_EDWARDS"

Affine(x, y) == [x |-> x, y |-> y, z |-> Null, infinity |-> FALSE]
Infinity == [x |-> Null, y |-> Null, z |-> Null, infinity |-> TRUE]
NoPoint == [x |-> Null, y |-> Null, z |-> Null, infinity |-> FALSE]
G == Affine(curve.G[1], curve.G[2])

ec_aminus3 == Weierstrass /\ curve.a + 3 = curve.p

-----------------------------------------------------------------------------
(* The field.                                                               *)

ecf_add(a, b) == ((a % curve.p) + (b % curve.p)) % curve.p
ecf_square(a) == modmul(a, a, curve.p)

\* Of a number below p: one subtraction is enough.
ecf_double(a) == IF 2 * a >= curve.p THEN 2 * a - curve.p ELSE 2 * a

RECURSIVE Normalise(_)
Normalise(a) == IF a >= curve.p THEN Normalise(a - curve.p) ELSE a
ecf_treble(a) == Normalise(2 * a + a)

Times(a, b) == modmul(a, b, curve.p)
Minus(a, b) == modsub(a, b, curve.p)
Cube(a) == Times(ecf_square(a), a)
OrOne(z) == IF z = Null THEN 1 ELSE z

-----------------------------------------------------------------------------
(* Points.                                                                  *)

ec_point_verify(P) ==
  \/ P.infinity
  \/ /\ Edwards
     /\ LET x2 == ecf_square(P.x)
            y2 == ecf_square(P.y)
        IN Minus(Minus(y2, x2), Times(Times(curve.d, x2), y2)) = 1
  \/ /\ Weierstrass
     /\ LET sum == (modpow(P.x, 3, curve.p) + Times(curve.a, P.x)) % curve.p
        IN ecf_square(P.y) = (sum + curve.b) % curve.p

\* NoPoint when z has no inverse.
ecp_normalise(P) ==
  LET inv2 == modinv(ecf_square(P.z), curve.p)
      inv3 == modinv(Cube(P.z), curve.p)
      inv == modinv(P.z, curve.p)
  IN CASE P = NoPoint -> NoPoint
       [] P.infinity \/ Edwards \/ P.z = Null -> P
       [] Weierstrass -> IF inv2 = Null \/ inv3 = Null THEN NoPoint
                         ELSE Affine(Times(P.x, inv2), Times(P.y, inv3))
       [] OTHER -> IF inv = Null THEN NoPoint ELSE Affine(Times(P.x, inv), Null)

\* 2P, where the tangent's slope has a shorter form for a = -3.
ecp_doublew(P, aminus3) ==
  LET z == OrOne(P.z)
      S == ecf_double(ecf_double(Times(P.x, ecf_square(P.y))))
      z2 == ecf_square(z)
      M == IF aminus3 THEN ecf_treble(Times(ecf_add(P.x, z2), Minus(P.x, z2)))
           ELSE ecf_add(ecf_treble(ecf_square(P.x)), Times(curve.a, ecf_square(z2)))
      x == Minus(ecf_square(M), ecf_double(S))
      y == Minus(Times(M, Minus(S, x)), Times(8, ecf_square(ecf_square(P.y))))
  IN IF P.y = 0 THEN Infinity
     ELSE [x |-> x, y |-> y, z |-> ecf_double(Times(P.y, z)), infinity |-> FALSE]

ecp_doublem(P) ==
  LET z == OrOne(P.z)
      xpz == ecf_square(ecf_add(P.x, z))
      xmz == ecf_square(Minus(P.x, z))
      xz4 == Minus(xpz, xmz)
      quarter == modinv(4, curve.p)
      slope == Times(Times(ecf_add(curve.a, 2), xz4), quarter)
  IN IF quarter = Null THEN NoPoint
     ELSE [x |-> Times(xpz, xmz), y |-> Null, z |-> Times(xz4, ecf_add(xmz, slope)),
           infinity |-> FALSE]

ecp_addw(P, Q, aminus3) ==
  LET U1 == IF Q.z = Null THEN P.x ELSE Times(P.x, ecf_square(Q.z))
      U2 == IF P.z = Null THEN Q.x ELSE Times(Q.x, ecf_square(P.z))
      S1 == IF Q.z = Null THEN P.y ELSE Times(P.y, Cube(Q.z))
      S2 == IF P.z = Null THEN Q.y ELSE Times(Q.y, Cube(P.z))
      H == Minus(U2, U1)
      R == Minus(S2, S1)
      UH2 == Times(U1, ecf_square(H))
      H3 == Cube(H)
      x == Minus(Minus(ecf_square(R), H3), ecf_double(UH2))
      y == Minus(Times(R, Minus(UH2, x)), Times(S1, H3))
  IN IF U1 = U2 THEN IF S1 = S2 THEN ecp_doublew(P, aminus3) ELSE Infinity
     ELSE [x |-> x, y |-> y, z |-> Times(H, Times(OrOne(P.z), OrOne(Q.z))), infinity |-> FALSE]

\* P + Q on a Montgomery curve, for P and Q that differ by base.
ecp_addm(P, Q, base) ==
  LET pz == OrOne(P.z)
      qz == OrOne(Q.z)
      one == Times(ecf_add(P.x, pz), Minus(Q.x, qz))
      other == Times(Minus(P.x, pz), ecf_add(Q.x, qz))
  IN [x |-> ecf_square(ecf_add(one, other)), y |-> Null,
      z |-> Times(base.x, ecf_square(Minus(one, other))), infinity |-> FALSE]

ecp_adde(P, Q) ==
  LET left == Times(P.x, Q.y)
      right == Times(Q.x, P.y)
      dmul == Times(curve.d, Times(left, right))
      inv1 == modinv(ecf_add(1, dmul), curve.p)
      inv2 == modinv(Minus(1, dmul), curve.p)
  IN IF inv1 = Null \/ inv2 = Null THEN NoPoint
     ELSE Affine(Times(ecf_add(left, right), inv1),
                 Times(ecf_add(Times(P.y, Q.y), Times(P.x, Q.x)), inv2))

\* An infinity adds nothing on any curve.
ecp_add(P, Q, aminus3) ==
  CASE P.infinity -> Q
    [] Q.infinity -> P
    [] Edwards -> ecp_adde(P, Q)
    [] Weierstrass -> ecp_addw(P, Q, aminus3)
    [] OTHER -> NoPoint

ecp_double(P, aminus3) ==
  CASE P.infinity -> Infinity
    [] Edwards -> ecp_add(P, P, aminus3)
    [] Weierstrass -> ecp_doublew(P, aminus3)
    [] OTHER -> ecp_doublem(P)

-----------------------------------------------------------------------------
(* Multiples.                                                               *)

\* From the lowest bit up, by doubling P.
ecp_mul_(P, b, aminus3) ==
  LET RECURSIVE Bits(_, _, _)
      Bits(A, ret, rest) ==
        IF rest = 0 THEN ret
        ELSE LET sum == IF rest % 2 = 1 THEN ecp_add(ret, A, aminus3) ELSE ret
             IN IF rest = 1 THEN sum ELSE Bits(ecp_double(A, aminus3), sum, rest \div 2)
  IN Bits(P, Infinity, b)

ecp_mulw(P, b) == ecp_normalise(ecp_mul_(P, b, ec_aminus3))

\* From above the highest bit down, by doubling the sum.
ecp_mule(P, b) ==
  LET RECURSIVE Bits(_, _)
      Bits(ret, i) ==
        IF i < 0 \/ ret = NoPoint THEN ret
        ELSE LET twice == ecp_double(ret, FALSE)
             IN Bits(IF twice # NoPoint /\ bignum_bit(b, i) = 1 THEN ecp_add(twice, P, FALSE)
                     ELSE twice, i - 1)
  IN Bits(Infinity, bignum_bitcount(b))

\* A ladder: P2 is always one P more than P1.
ecp_mulm(P, n) ==
  LET RECURSIVE Ladder(_, _, _)
      Ladder(P1, P2, i) ==
        IF i < 0 THEN P1
        ELSE IF bignum_bit(n, i) = 0
             THEN Ladder(ecp_double(P1, FALSE), ecp_addm(P1, P2, P), i - 1)
             ELSE Ladder(ecp_addm(P1, P2, P), ecp_double(P2, FALSE), i - 1)
  IN ecp_normalise(Ladder(P, ecp_double(P, FALSE), bignum_bitcount(n) - 2))

ecp_mul(P, b) ==
  CASE Weierstrass -> ecp_mulw(P, b)
    [] Edwards -> ecp_mule(P, b)
    [] OTHER -> ecp_mulm(P, b)

\* aG + bP.
ecp_summul(a, b, P) ==
  IF ~Weierstrass THEN NoPoint
  ELSE ecp_normalise(ecp_add(ecp_mul_(G, a, ec_aminus3), ecp_mul_(P, b, ec_aminus3), ec_aminus3))

\* The even x that goes with y on an Edwards curve; what it gives where there is
\* none is found out by ec_point_verify().
ecp_edx(y) ==
  LET y2 == ecf_square(y)
      inv == modinv(ecf_add(Times(curve.d, y2), 1), curve.p)
      xx == Times(Minus(y2, 1), inv)
      root == modpow(xx, (curve.p + 3) \div 8, curve.p)
      x == IF ecf_square(root) = xx THEN root
           ELSE Times(root, modpow(2, Minus(curve.p, 1) \div 4, curve.p))
  IN IF inv = Null THEN Null
     ELSE IF x % 2 = 1 THEN Minus(curve.p, x) ELSE x

-----------------------------------------------------------------------------
(* Keys.                                                                    *)

NoKey == [x |-> Null, y |-> Null, private |-> Null]

\* The coordinates of a point at infinity are compared, or written: the process
\* ends.
Crash == [x |-> -2, y |-> Null, private |-> Null]

Public(key) == Affine(key.x, key.y)
Octets == curve.fieldBits \div Octet
Signing == 2^(Octet - 1)

\* y, with the lowest bit of x where its last octet has its highest.
EdPoint(P, length) ==
  Append(Little(P.y, length - 1),
         ((P.y \div 2^((length - 1) * Octet)) % Signing) + Signing * (P.x % 2))

Length == UnsignedLength(curve.p)
Uncompressed == 4
Point(P) ==
  IF Edwards THEN EdPoint(P, Octets) ELSE <<Uncompressed>> \o Big(P.x, Length) \o Big(P.y, Length)

decodepoint_ed(string) ==
  LET whole == FromLittle(string)
      negative == bignum_bit(whole, curve.fieldBits - 1)
      y == whole - negative * 2^(curve.fieldBits - 1)
      x == ecp_edx(y)
      P == Affine(IF negative = 1 THEN Minus(curve.p, x) ELSE x, y)
  IN IF bignum_bitcount(whole) > curve.fieldBits \/ x = Null \/ ~ec_point_verify(P)
     THEN NoPoint ELSE P

decodepoint(string) ==
  LET half == (Len(string) - 1) \div 2
      P == Affine(FromBig(SubSeq(string, 2, half + 1)), FromBig(SubSeq(string, half + 2, Len(string))))
  IN CASE Edwards -> decodepoint_ed(string)
       [] Len(string) < 1 \/ string[1] # Uncompressed \/ Len(string) % 2 = 0 -> NoPoint
       [] OTHER -> IF ec_point_verify(P) THEN P ELSE NoPoint

\* Of 2^(b-2), and the bits of a hash below that but for the lowest three.
Clamped(hash) == 2^(curve.fieldBits - 2) + (hash % 2^(curve.fieldBits - 2)) - (hash % 8)

Expanded(private) == Hash(Little(private, Octets))
Scalar(private) == Clamped(FromLittle(SubSeq(Expanded(private), 1, Octets)))

ec_public(private) == ecp_mul(G, IF Edwards THEN Scalar(private) ELSE private)

\* The point in a blob behind the name of the algorithm, and of the curve on
\* Weierstrass'.
ecdsa_newkey(blob) ==
  LET named == ~Missing(getstring(blob))
      behind == IF Weierstrass THEN Rest(Rest(blob)) ELSE Rest(blob)
      right == Weierstrass => getstring(Rest(blob)) = curve.name
      P == IF Missing(getstring(behind)) THEN NoPoint ELSE decodepoint(getstring(behind))
  IN IF named /\ right /\ P # NoPoint /\ P.x < curve.p /\ P.y < curve.p
     THEN [x |-> P.x, y |-> P.y, private |-> Null] ELSE NoKey

ecdsa_pubkey_bits(blob) == IF ecdsa_newkey(blob) = NoKey THEN -1 ELSE curve.fieldBits

Name == IF Weierstrass THEN <<5>> ELSE <<6>>     \* the algorithm's

ecdsa_public_blob(key) ==
  <<Name>> \o (IF Weierstrass THEN <<curve.name>> ELSE <<>>) \o <<Point(Public(key))>>

ecdsa_private_blob(key) ==
  <<IF Edwards THEN Little(key.private, UnsignedLength(key.private)) ELSE Mp(key.private)>>

\* A private key has to generate the public one.
Generated(key, private) ==
  LET P == ec_public(private)
  IN CASE key = NoKey \/ private = Null \/ P = NoPoint -> NoKey
       [] P.infinity -> Crash
       [] OTHER -> IF P.x = key.x /\ P.y = key.y THEN [key EXCEPT !.private = private] ELSE NoKey

ecdsa_createkey(pub_blob, priv_blob) ==
  Generated(ecdsa_newkey(pub_blob), IF Edwards THEN getmp_le(priv_blob) ELSE getmp(priv_blob))

\* OpenSSH has the public key behind the private one once more, and both in
\* their full length.
ed25519_openssh_createkey(blob) ==
  LET string == getstring(blob)
      pair == getstring(Rest(blob))
      P == decodepoint_ed(string)
      private == FromLittle(SubSeq(pair, 1, Octets))
  IN IF \/ Missing(string) \/ P = NoPoint \/ Missing(pair) \/ Len(pair) # 2 * Octets
        \/ Len(string) # Octets \/ SubSeq(pair, Octets + 1, 2 * Octets) # string
     THEN NoKey
     ELSE Generated([x |-> P.x, y |-> P.y, private |-> Null], private)

\* The lengths are those of the numbers, not of the field.
ed25519_openssh_fmtkey(key) ==
  LET point == EdPoint(Public(key), UnsignedLength(key.y))
  IN <<point, Little(key.private, UnsignedLength(key.private)) \o point>>

ecdsa_openssh_createkey(blob) ==
  LET string == getstring(Rest(blob))
      P == IF Missing(string) THEN NoPoint ELSE decodepoint(string)
      key == [x |-> P.x, y |-> P.y, private |-> Null]
  IN IF Missing(getstring(blob)) \/ P = NoPoint \/ P.x >= curve.p \/ P.y >= curve.p THEN NoKey
     ELSE Generated(key, getmp(Rest(Rest(blob))))

ecdsa_openssh_fmtkey(key) == <<curve.name, Point(Public(key)), Mp(key.private)>>

-----------------------------------------------------------------------------
(* Signatures.                                                              *)

\* As many bits of a digest as n has; those of its value, whatever zeros there
\* are in front.
Leftmost(digest) ==
  LET z == FromBig(digest)
      more == bignum_bitcount(z) - bignum_bitcount(curve.n)
  IN IF more > 0 THEN z \div 2^more ELSE z

_ecdsa_verify(P, digest, r, s) ==
  LET z == Leftmost(digest) % curve.n
      w == modinv(s, curve.n)
      sum == ecp_summul(modmul(z, w, curve.n), modmul(r, w, curve.n), P)
  IN CASE ~Weierstrass \/ r = 0 \/ r >= curve.n \/ s = 0 \/ s >= curve.n -> "invalid"
       [] w = Null \/ sum = NoPoint -> "invalid"
       [] sum.infinity -> "crash"
       [] OTHER -> IF sum.x % curve.n = r THEN "valid" ELSE "invalid"

\* With k from dss_gen_k().  Nothing is tried again when r or s is zero.
_ecdsa_sign(private, digest, k) ==
  LET kG == ecp_mul(G, k)
      r == kG.x % curve.n
      first == (modmul(r, private, curve.n) + (Leftmost(digest) % curve.n)) % curve.n
      kInv == modinv(k, curve.n)
  IN IF kG = NoPoint \/ kInv = Null THEN <<>>
     ELSE <<r, modmul(first, kInv, curve.n)>>

\* r and s of Edwards' signatures: a point, and r + H(R, A, M) a mod l.
EdHash(R, key, data) == FromLittle(Hash(EdPoint(R, Octets) \o EdPoint(Public(key), Octets) \o data))

ecdsa_sign(key, data, k) ==
  LET prefix == SubSeq(Expanded(key.private), Octets + 1, 2 * Octets)
      r == FromLittle(Hash(prefix \o data))
      R == ecp_mul(G, r)
      s == (r + modmul(EdHash(R, key, data), Scalar(key.private), curve.n)) % curve.n
      pair == _ecdsa_sign(key.private, Hash(data), k)
  IN CASE key.private = Null -> <<>>
       [] Edwards -> IF R = NoPoint THEN <<>> ELSE <<Name, EdPoint(R, Octets) \o Little(s, Octets)>>
       [] OTHER -> IF pair = <<>> THEN <<>> ELSE <<Name, Mp(pair[1]), Mp(pair[2])>>

ed_verify(key, string, data) ==
  LET R == decodepoint(SubSeq(string, 1, Octets))
      s == FromLittle(SubSeq(string, Octets + 1, 2 * Octets))
      hash == Hash(SubSeq(string, 1, Octets) \o EdPoint(Public(key), Octets) \o data)
      left == ecp_mul(G, s)
      multiple == ecp_mul(Public(key), FromLittle(hash))
      right == ecp_add(R, multiple, FALSE)
  IN CASE Len(string) # 2 * Octets \/ R = NoPoint -> "invalid"
       [] left = NoPoint \/ multiple = NoPoint \/ right = NoPoint -> "invalid"
       [] left.infinity \/ right.infinity -> "crash"
       [] OTHER -> IF left.x = right.x /\ left.y = right.y THEN "valid" ELSE "invalid"

ecdsa_verifysig(key, sig, data) ==
  LET r == getmp(Rest(sig))
      s == getmp(Rest(Rest(sig)))
  IN CASE Missing(getstring(sig)) \/ getstring(sig) # Name \/ Missing(getstring(Rest(sig))) -> "invalid"
       [] Edwards -> ed_verify(key, getstring(Rest(sig)), data)
       [] OTHER -> IF r = Null \/ s = Null THEN "invalid"
                   ELSE _ecdsa_verify(Public(key), Hash(data), r, s)

-----------------------------------------------------------------------------
(* What they promise.                                                        *)

Field == 0..(curve.p - 1)
OnCurve == {P \in {Affine(x, y) : x, y \in Field} : ec_point_verify(P)}

\* The sum that a chord or a tangent gives, of points with no z; A2 is the
\* coefficient of x^2 and A4 that of x.
Chord(P, Q, A2, A4) ==
  LET slope == IF P.x = Q.x
               THEN Times(3 * P.x * P.x + 2 * A2 * P.x + A4, modinv(2 * P.y, curve.p))
               ELSE Times(Minus(Q.y, P.y), modinv(Minus(Q.x, P.x), curve.p))
      x == Minus(slope * slope, A2 + P.x + Q.x)
  IN CASE P.infinity -> Q
       [] Q.infinity -> P
       [] P.x = Q.x /\ (P.y + Q.y) % curve.p = 0 -> Infinity
       [] OTHER -> Affine(x, Minus(slope * (P.x - x), P.y))

Scaled(P, z) ==
  IF P.infinity \/ z = Null THEN P
  ELSE [x |-> Times(P.x, ecf_square(z)), y |-> Times(P.y, Cube(z)), z |-> z, infinity |-> FALSE]

\* Sums do not depend on what z the points have, and neither does the shorter
\* slope.
SumsAgree(P) ==
  \A Q \in OnCurve \cup {Infinity}, z, w \in {Null, 1, 2, curve.p - 1} :
    ecp_normalise(ecp_add(Scaled(P, z), Scaled(Q, w), ec_aminus3)) = Chord(P, Q, 0, curve.a)

Plus(P, Q) ==
  CASE Weierstrass -> Chord(P, Q, 0, curve.a)
    [] Edwards -> ecp_add(P, Q, FALSE)
    [] OTHER -> Chord(P, Q, curve.a, 1)

\* A multiple is that many sums, from whichever end the bits are taken; of a
\* Montgomery point, its x.
MultiplesAgree(P, most) ==
  LET sum[k \in 0..most] == IF k = 0 THEN Infinity ELSE Plus(sum[k - 1], P)
  IN \A k \in 1..most :
       IF Weierstrass \/ Edwards THEN ecp_mul(P, k) = sum[k]
       ELSE ecp_mul(P, k).x = sum[k].x

\* A key is read as it was written, on its own and in OpenSSH's form; on
\* Edwards' curve that form has lost octets that were zero.
KeptAsWritten(private) ==
  LET P == ec_public(private)
      key == [x |-> P.x, y |-> P.y, private |-> private]
      full == UnsignedLength(P.y) = Octets /\ UnsignedLength(private) = Octets
  IN /\ ecdsa_newkey(ecdsa_public_blob(key)) = [key EXCEPT !.private = Null]
     /\ ecdsa_createkey(ecdsa_public_blob(key), ecdsa_private_blob(key)) = key
     /\ Weierstrass => ecdsa_openssh_createkey(ecdsa_openssh_fmtkey(key)) = key
     /\ Edwards => ed25519_openssh_createkey(ed25519_openssh_fmtkey(key)) = IF full THEN key ELSE NoKey

\* What a key signs is found valid, unless r or s came out as zero: nothing tries
\* again, and there is no point to compare then on Edwards' curve.  And a pair is
\* valid for a digest exactly when the point that it stands for has that r.
SignedIsValid(private, data, nonces) ==
  LET P == ec_public(private)
      key == [x |-> P.x, y |-> P.y, private |-> private]
  IN \A k \in nonces :
       LET sig == ecdsa_sign(key, data, k)
           zero == IF Weierstrass THEN \E i \in 2..3 : FromBig(sig[i]) = 0
                   ELSE FromLittle(SubSeq(sig[2], Octets + 1, 2 * Octets)) = 0
       IN ecdsa_verifysig(key, sig, data) =
            IF ~zero THEN "valid" ELSE IF Weierstrass THEN "invalid" ELSE "crash"

ValidIsSigned(private, digest) ==
  \A r, s \in 0..curve.n :
    LET inRange == r \in 1..(curve.n - 1) /\ s \in 1..(curve.n - 1)
        k == modmul(Leftmost(digest) + r * private, modinv(s, curve.n), curve.n)
    IN _ecdsa_verify(ec_public(private), digest, r, s) =
         IF ~inRange THEN "invalid"
         ELSE IF k = 0 THEN "crash"
         ELSE IF ecp_mul(G, k).x % curve.n = r THEN "valid" ELSE "invalid"
=============================================================================
