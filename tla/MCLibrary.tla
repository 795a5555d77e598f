----------------------------- MODULE MCLibrary -----------------------------
(***************************************************************************)
(* Instances for TLC of what keeps no state: a state is an input of one of *)
(* the library's functions, chosen in two steps.                           *)
(***************************************************************************)
EXTENDS Integers, Sequences, SequencesExt

Num == INSTANCE Bignum WITH W <- 4, Octet <- 2, Threshold <- 5

\* Octets of two bits everywhere.  A hash that mixes, and one that leaves a digest
\* what it is.
Mixed(data, length) ==
  LET value == FoldLeft(LAMBDA h, o : (h * 31 + o + 7) % 65521, 1, data)
  IN [i \in 1..length |-> (value \div 4^(i - 1)) % 4]
Mixed8(data) == Mixed(data, 8)
Mixed4(data) == Mixed(data, 4)
Plain(data) == data

\* Short Weierstrass curves: with a = -3 and 31 points, with another a and 19
\* points, and with points whose y is zero.
CurveOf(type, p, fieldBits, a, b, d, G, n) ==
  [type |-> type, name |-> <<1>>, p |-> p, fieldBits |-> fieldBits, a |-> a, b |-> b, d |-> d,
   G |-> G, n |-> n]
Minus3 == INSTANCE Curve WITH Octet <- 2, Hash <- Plain,
            curve <- CurveOf("EC_WEIERSTRASS", 29, 5, 26, 4, 0, <<0, 2>>, 31)
Other == INSTANCE Curve WITH Octet <- 2, Hash <- Plain,
           curve <- CurveOf("EC_WEIERSTRASS", 17, 5, 2, 2, 0, <<0, 6>>, 19)
Even == INSTANCE Curve WITH Octet <- 2, Hash <- Plain,
          curve <- CurveOf("EC_WEIERSTRASS", 17, 5, 14, 1, 0, <<0, 1>>, 20)
Edwards == INSTANCE Curve WITH Octet <- 2, Hash <- Mixed8,
             curve <- CurveOf("EC_EDWARDS", 109, 8, 0, 0, 11, <<14, 54>>, 13)
Montgomery == INSTANCE Curve WITH Octet <- 2, Hash <- Plain,
                curve <- CurveOf("EC_MONTGOMERY", 29, 5, 6, 0, 0, <<0, 1>>, 13)

Digest(alg, data) == <<Len(data) % 4, alg[1]>>
Info(alg) == <<3, alg[1]>>
RSA == INSTANCE Rsa WITH Octet <- 2, Hash <- Digest, Info <- Info

Proto(digests, perturbed) == Mixed(<<perturbed>> \o digests, 8)
DSA == INSTANCE Dss WITH Octet <- 2, Hash <- Mixed4, HashLength <- 4, Proto <- Proto

\* The ciphers of key files, and the forms of the files, have real octets; a hash is
\* of sums in which every octet has a weight of its own.
RECURSIVE Weighed(_, _, _, _)
Weighed(data, first, n, k) ==
  CASE n = 0 -> k
    [] n = 1 -> ((data[first] + 1) * ((first * first * k + 7 * first + 11) % 8191)) % 32749
    [] OTHER -> (Weighed(data, first, n \div 2, k) + Weighed(data, first + (n \div 2), n - (n \div 2), k)) % 32749
Hashed(data, length) ==
  LET one == Weighed(data, 1, Len(data), 31)
      other == Weighed(data, 1, Len(data), 53)
  IN [i \in 1..length |-> (one * i + other + (one \div 64)) % 256]
Hashed2(data) == Hashed(data, 2)
Hashed16(data) == Hashed(data, 16)
Hashed20(data) == Hashed(data, 20)
WithKey(key, data) == Hashed(key \o data, 20)
Stretched(passphrase, salt, rounds, length) == Hashed(passphrase \o salt \o <<rounds>>, length)

FileEc == INSTANCE Curve WITH Octet <- 8, Hash <- Plain,
            curve <- CurveOf("EC_WEIERSTRASS", 29, 5, 26, 4, 0, <<0, 2>>, 31)
FileEd == INSTANCE Curve WITH Octet <- 8, Hash <- Hashed2,
            curve <- CurveOf("EC_EDWARDS", 109, 8, 0, 0, 11, <<14, 54>>, 13)
FileRsa == INSTANCE Rsa WITH Octet <- 8, Hash <- Digest, Info <- Info
FileDsa == INSTANCE Dss WITH Octet <- 8, Hash <- Hashed2, HashLength <- 2, Proto <- Proto

Algs == {"ssh-rsa", "ssh-dss", "ecdsa", "ed25519"}
NameOf(alg) ==
  CASE alg = "ssh-rsa" -> FileRsa!Rsa [] alg = "ssh-dss" -> FileDsa!Dss
    [] alg = "ecdsa" -> FileEc!Name [] alg = "ed25519" -> FileEd!Name
PublicBlob(key) ==
  CASE key.alg = "ssh-rsa" -> FileRsa!rsa2_public_blob(key.data)
    [] key.alg = "ssh-dss" -> FileDsa!dss_public_blob(key.data)
    [] key.alg = "ecdsa" -> FileEc!ecdsa_public_blob(key.data)
    [] key.alg = "ed25519" -> FileEd!ecdsa_public_blob(key.data)
PrivateBlob(key) ==
  CASE key.alg = "ssh-rsa" -> FileRsa!rsa2_private_blob(key.data)
    [] key.alg = "ssh-dss" -> FileDsa!dss_private_blob(key.data)
    [] key.alg = "ecdsa" -> FileEc!ecdsa_private_blob(key.data)
    [] key.alg = "ed25519" -> FileEd!ecdsa_private_blob(key.data)
Made(data, none, crash) ==
  CASE data = none -> [status |-> "null"] [] data = crash -> [status |-> "crash"]
    [] OTHER -> [status |-> "key", data |-> data]
Createkey(alg, pub, priv) ==
  CASE alg = "ssh-rsa" -> Made(FileRsa!rsa2_createkey(pub, priv), FileRsa!NoKey, FileRsa!Crash)
    [] alg = "ssh-dss" -> Made(FileDsa!dss_createkey(pub, priv), FileDsa!NoKey, <<>>)
    [] alg = "ecdsa" -> Made(FileEc!ecdsa_createkey(pub, priv), FileEc!NoKey, FileEc!Crash)
    [] alg = "ed25519" -> Made(FileEd!ecdsa_createkey(pub, priv), FileEd!NoKey, FileEd!Crash)
OpensshFmtkey(key) ==
  CASE key.alg = "ssh-rsa" -> FileRsa!rsa2_openssh_fmtkey(key.data)
    [] key.alg = "ssh-dss" -> FileDsa!dss_openssh_fmtkey(key.data)
    [] key.alg = "ecdsa" -> FileEc!ecdsa_openssh_fmtkey(key.data)
    [] key.alg = "ed25519" -> FileEd!ed25519_openssh_fmtkey(key.data)
OpensshCreatekey(alg, strings) ==
  CASE alg = "ssh-rsa" -> Made(FileRsa!rsa2_openssh_createkey(strings), FileRsa!NoKey, FileRsa!Crash)
    [] alg = "ssh-dss" -> Made(FileDsa!dss_openssh_createkey(strings), FileDsa!NoKey, <<>>)
    [] alg = "ecdsa" -> Made(FileEc!ecdsa_openssh_createkey(strings), FileEc!NoKey, FileEc!Crash)
    [] alg = "ed25519" -> Made(FileEd!ed25519_openssh_createkey(strings), FileEd!NoKey, FileEd!Crash)
Npieces(alg) == CASE alg = "ssh-rsa" -> 6 [] alg = "ssh-dss" -> 5 [] alg = "ecdsa" -> 3 [] alg = "ed25519" -> 2
Bits(alg, strings) ==
  CASE alg = "ssh-rsa" -> FileRsa!rsa2_pubkey_bits(strings)
    [] alg = "ssh-dss" -> FileDsa!dss_pubkey_bits(strings)
    [] alg = "ecdsa" -> FileEc!ecdsa_pubkey_bits(strings)
    [] alg = "ed25519" -> FileEd!ecdsa_pubkey_bits(strings)

Cipher == INSTANCE Ciphers
AesOf(key, iv, data) == Cipher!aes_encrypt_cbc(Cipher!aes_setup(16, SubSeq(key, 1, 32)), iv, data).blk
AesBack(key, iv, data) == Cipher!aes_decrypt_cbc(Cipher!aes_setup(16, SubSeq(key, 1, 32)), iv, data).blk
Des3Of(key, iv, data) == Cipher!des3_encrypt_pubkey_ossh(key, iv, data)
Des3Back(key, iv, data) == Cipher!des3_decrypt_pubkey_ossh(key, iv, data)

NoPassphrase == <<256>>       \* not octets

Format == INSTANCE ForeignFiles WITH
  NoPass <- NoPassphrase,
  Sha <- Hashed20, Hmac <- WithKey, Md5 <- Hashed16, Bcrypt <- Stretched,
  Aes <- AesOf, AesInverse <- AesBack, Des3 <- Des3Of, Des3Inverse <- Des3Back,
  EcAlg <- "ecdsa", EcOid <- <<42, 134>>, EcCurve <- <<1>>, EcOctets <- 1

VARIABLE input

Small == 0..18
Around == {255, 256, 257, 4095, 4096, 4097, 65535}
Numbers == Small \cup Around
Moduli == {2, 3, 4, 7, 15, 16, 17, 255, 256, 1001}

\* Numbers of six words, some of eight whose products carry past a word that is full,
\* and some of seven and eleven, whose halves are not the same; all are multiplied by
\* halves.
Words == {0, 1, 15}
LongNumbers(len) ==
  CASE len = 6 -> {<<a, 15, b, 1, c, 15>> : a, b, c \in Words}
    [] len = 7 -> {<<a, 15, 0, b, 15, c, 15>> : a, b, c \in Words}
    [] len = 8 -> {<<0, a, b, 8, 15, c, 0, 15>> : a, b, c \in Words}
                    \cup {<<0, a, 1, 14, b, 1, c, 1>> : a, b, c \in Words}
    [] len = 11 -> {<<a, 15, 15, b, 1, 15, 0, 15, 15, c, 15>> : a, b, c \in Words}

\* Two primes of a key and an exponent; the group of a key and its secret.
RsaKeys == {<<181, 191, 17>>, <<191, 181, 7>>, <<89, 71, 3>>, <<229, 11, 17>>}
DsaGroups == {<<7879, 101, 170>>, <<23, 11, 4>>, <<7, 3, 2>>}
Messages == {<<>>, <<1>>, <<0, 2>>, <<3, 3>>, <<1, 2, 3>>}
CurveNames == {"Minus3", "Other", "Even", "Edwards", "Montgomery"}

\* Keys that are kept in files, with and without something to encrypt them.
FileKeyOf(alg) ==
  CASE alg = "ssh-rsa" -> FileRsa!rsa_verify(FileRsa!KeyOf(191, 181, 7))
    [] alg = "ssh-dss" -> FileDsa!KeyOf(7879, 101, 170, 44)
    [] alg = "ecdsa" -> [x |-> FileEc!ec_public(17).x, y |-> FileEc!ec_public(17).y, private |-> 17]
    [] alg = "ed25519" -> [x |-> FileEd!ec_public(200).x, y |-> FileEd!ec_public(200).y, private |-> 200]
Comments == {<<>>, <<97, 34, 92, 98>>, [i \in 1..141 |-> 120]}
FilePasses == {NoPassphrase, <<>>, <<65>>, <<66, 67>>}
Salt == [i \in 1..16 |-> 200 + i]
ExportTypes == {"OPENSSH_AUTO", "OPENSSH_NEW", "SSHCOM"}

\* Octets that a cipher is given.
Sample(n, seed) == [i \in 1..n |-> (i * seed * 37 + 11) % 256]

LibraryInit ==
  input \in [part : {"number"}, a : Numbers] \cup [part : {"product"}, a : UNION {LongNumbers(len) : len \in {6, 7, 8, 11}}]
            \cup [part : {"curve"}, on : CurveNames]
            \cup [part : {"rsa"}, key : RsaKeys] \cup [part : {"dsa"}, group : DsaGroups]
            \cup [part : {"file"}, alg : Algs, comment : Comments] \cup [part : {"cipher"}, blocklen : {16, 24, 32}]

\* The points of a curve, by its name.
PointsOf(name) ==
  CASE name = "Minus3" -> Minus3!OnCurve
    [] name = "Other" -> Other!OnCurve
    [] name = "Even" -> Even!OnCurve
    [] name = "Edwards" -> Edwards!OnCurve
    [] name = "Montgomery" ->
         {P \in {Montgomery!Affine(x, y) : x \in 1..28, y \in 0..28} :
            (P.y * P.y) % 29 = (P.x * P.x * P.x + 6 * P.x * P.x + P.x) % 29}

LibraryNext ==
  \/ /\ input.part = "number"
     /\ \E m \in Moduli : input' = [part |-> "arithmetic", a |-> input.a, m |-> m]
  \/ /\ input.part = "product"
     /\ \E b \in LongNumbers(Len(input.a)) : input' = [part |-> "multiply", a |-> input.a, b |-> b]
  \/ /\ input.part = "curve"
     /\ \E P \in PointsOf(input.on) : input' = [part |-> "point", on |-> input.on, P |-> P]
  \/ /\ input.part = "curve" /\ input.on \in {"Minus3", "Other", "Edwards"}
     /\ \E d \in 1..18 \cup {30, 77, 200, 255}, data \in Messages :
          input' = [part |-> "ecdsa", on |-> input.on, d |-> d, data |-> data]
  \/ /\ input.part = "rsa"
     /\ \E random \in {2, 7, 30}, data \in Messages :
          input' = [part |-> "rsa sign", key |-> input.key, random |-> random, data |-> data]
  \/ /\ input.part = "dsa"
     /\ \E x \in 1..(input.group[2] - 1), data \in Messages :
          input' = [part |-> "dsa sign", group |-> input.group, x |-> x, data |-> data]
  \/ /\ input.part = "file"
     /\ \E passphrase \in FilePasses :
          input' = [part |-> "key file", passphrase |-> passphrase,
                    key |-> [status |-> "key", alg |-> input.alg, comment |-> input.comment,
                             data |-> FileKeyOf(input.alg)]]
  \/ /\ input.part = "cipher"
     /\ \E keylen \in {16, 24, 32}, seed \in {1, 2} :
          input' = [part |-> "encrypt", blocklen |-> input.blocklen, keylen |-> keylen, seed |-> seed]

-----------------------------------------------------------------------------
(* What is checked of each input of the library, when it is taken.          *)

\* What bignum's algorithms compute is what the integers have.
ArithmeticExact ==
  /\ input'.part = "multiply" => Num!MultipliesExactly(input'.a, input'.b)
  /\ input'.part = "arithmetic" =>
       /\ Num!WrittenIsRead(input'.a)
       /\ Num!DividesExactly(input'.a, input'.m)
       /\ \A b \in {0, 1, 16, 257} : Num!ReducesExactly(input'.a, b, input'.m)
       /\ \A e \in {0, 1, 6, 17} : Num!PowersAgree(input'.a, e, input'.m)

\* Sums and multiples of points are those of the curve's group, whichever of the
\* formulas and representations they took.
CurvesExact ==
  input'.part = "point" =>
    CASE input'.on = "Minus3" ->
           Minus3!SumsAgree(input'.P) /\ Minus3!MultiplesAgree(input'.P, 35)
      [] input'.on = "Other" -> Other!SumsAgree(input'.P)
      [] input'.on = "Even" -> Even!SumsAgree(input'.P) /\ Even!MultiplesAgree(input'.P, 25)
      [] input'.on = "Edwards" -> Edwards!MultiplesAgree(input'.P, 35)
      [] input'.on = "Montgomery" -> Montgomery!MultiplesAgree(input'.P, 35)

\* Blocks of every size come back with keys of every size, and data from the chains;
\* and what comes out is what the standards have.
CiphersExact(i) ==
  i.part = "encrypt" =>
    /\ Cipher!Examples
    /\ Cipher!AesComesBack(i.blocklen, Sample(i.keylen, i.seed), Sample(i.blocklen, 3))
    /\ Cipher!ChainsComeBack(Sample(32, i.seed),
         IF i.seed = 1 THEN [k \in 1..16 |-> 255] ELSE Sample(16, 2), Sample(i.keylen * 2, 9))

\* The keys of an input.
RsaKey(i) == RSA!KeyOf(i.key[1], i.key[2], i.key[3])
DsaKey(i) == DSA!KeyOf(i.group[1], i.group[2], i.group[3], i.x)

\* What a key signs, its own check of signatures finds valid: at three blindings of
\* RSA, with the nonces of the small curves, and with the one nonce that DSA computes of
\* a key and its data.  A nonce that leaves r or s zero is excepted: the code does not
\* try another, and the signature is not valid.
CurveSignaturesValid(i) ==
  CASE i.on = "Minus3" -> i.data \in {<<>>, <<1>>} \/ Minus3!SignedIsValid(i.d, i.data, 2..30)
    [] i.on = "Other" ->
         i.data = <<3, 3>> /\ i.d \in 1..18 =>
           Other!SignedIsValid(i.d, i.data, 2..18) /\ Other!ValidIsSigned(i.d, i.data)
    [] i.on = "Edwards" -> Edwards!SignedIsValid(i.d, i.data, {2})
AllSignaturesValid ==
  /\ input'.part = "ecdsa" => CurveSignaturesValid(input')
  /\ input'.part = "rsa sign" /\ RSA!Blinds(input'.random, RsaKey(input')) =>
       /\ RSA!SignedIsValid(RsaKey(input'), input'.data, input'.random)
       /\ \A message \in {0, 1, 2, 11, 1000} :
            RSA!PowersAgree(RsaKey(input'), message, input'.random)
  /\ input'.part = "dsa sign" =>
       \A other \in Messages : DSA!SignedIsValid(DsaKey(input'), input'.data, other)

\* A key that was read is the key that was written, in PuTTY's and in OpenSSH's
\* form, with RSA's primes in either order.
KeysKept ==
  /\ input'.part = "ecdsa" /\ input'.on = "Minus3" /\ input'.d \in 1..30 =>
       Minus3!KeptAsWritten(input'.d)
  /\ input'.part = "ecdsa" /\ input'.on = "Edwards" => Edwards!KeptAsWritten(input'.d)
  /\ input'.part = "rsa sign" => RSA!KeptAsWritten(RsaKey(input'))
  /\ input'.part = "dsa sign" => DSA!KeptAsWritten(DsaKey(input'))
\* And in files of every format, with every passphrase.  Of PuTTY's files every line is
\* also altered, lost and doubled; of the other formats whole lines are lost and doubled.
FilesKept(i) ==
  i.part = "key file" =>
    LET others == FilePasses \cup {<<67, 66>>}
    IN /\ Format!LengthsAreRead
       /\ Format!PublicKept(i.key)
       /\ Format!KeptInFile(i.key, i.passphrase, others)
       /\ Len(i.key.comment) = 4 => Format!AlteredIsRefused(i.key, i.passphrase)
       /\ \A type \in ExportTypes : Format!CanExport(i.key, type) =>
            /\ Format!KeptElsewhere(i.key, type, i.passphrase, others, Salt)
            /\ Len(i.key.comment) = 4 => Format!MaimedIsRefused(i.key, type, i.passphrase, Salt)
=============================================================================
