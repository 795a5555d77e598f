---------------------------- MODULE ForeignFiles ----------------------------
(***************************************************************************)
(* Key files of other programs (import.c): OpenSSH's old format, in PEM    *)
(* and ASN.1, its new one, and that of ssh.com.  They are read when a key  *)
(* is added; the writers are there to say what is read.  In the names of   *)
(* algorithms only the beginning matters, and is one octet.                *)
(***************************************************************************)
EXTENDS PuttyFiles

CONSTANTS
  EcAlg, EcOid, EcCurve, EcOctets,    \* the algorithm that PEM has a curve for
  OpensshFmtkey(_), OpensshCreatekey(_, _), Npieces(_),
  Des3(_, _, _), Des3Inverse(_, _, _),
  Bcrypt(_, _, _, _)                  \* passphrase, salt, rounds, octets

Num == INSTANCE Residues WITH Octet <- 8

Crash == [status |-> "crash"]

import_possible(type) == type \in {"OPENSSH_PEM", "OPENSSH_NEW", "SSHCOM"}

-----------------------------------------------------------------------------
(* ASN.1.                                                                   *)

Sequence == 16
Integer == 2
OctetString == 4
Oid == 6
BitString == 3
Constructed == 32
ContextSpecific == 128
LongForm == 31

\* Nothing here has an identifier above 30.
ber_write_id_len(id, length, flags) ==
  <<id + flags>> \o IF length < 128 THEN <<length>>
                    ELSE LET octets == Num!Big(length, Num!UnsignedLength(length))
                         IN <<128 + Len(octets)>> \o octets

NoItem == [used |-> -1, id |-> -1, length |-> -1]

\* The length behind an identifier: of many octets the last four count.
ReadLength(data, used, id) ==
  LET n == data[used + 1] % 128
      octets == Zeros(4) \o SubSeq(data, used + 2, used + 1 + n)
  IN CASE Len(data) <= used -> NoItem
       [] data[used + 1] < 128 -> [used |-> used + 1, id |-> id, length |-> n]
       [] OTHER -> IF Len(data) - used - 1 < n THEN NoItem
                   ELSE [used |-> used + 1 + n, id |-> id,
                         length |-> Get32(SubSeq(octets, Len(octets) - 3, Len(octets)))]

\* A long identifier goes on as long as octets have their highest bit, the first
\* one included: of the universal class it is read as 0.  (Of its value the low
\* bits.)
ber_read_id_len(data) ==
  LET last == {i \in DOMAIN data : data[i] < 128 /\ \A j \in 1..(i - 1) : data[j] >= 128}
      end == CHOOSE i \in last : TRUE
      value == FoldLeft(LAMBDA id, octet : (id * 128 + (octet % 128)) % 2^16, 0, SubSeq(data, 2, end))
  IN CASE data = <<>> -> NoItem
       [] data[1] % 32 # LongForm -> ReadLength(data, 1, data[1] % 32)
       [] OTHER -> IF last = {} THEN NoItem ELSE ReadLength(data, end, value)

\* There is an item with this identifier, and what it holds; what is behind where it
\* begins to, and behind it.
IsItem(data, id) ==
  LET head == ber_read_id_len(data)
  IN head.used > 0 /\ head.id = id /\ head.length \in 0..(Len(data) - head.used)
Inside(data) == Behind(data, ber_read_id_len(data).used)
Content(data) == SubSeq(Inside(data), 1, ber_read_id_len(data).length)
Beyond(data) == Behind(Inside(data), ber_read_id_len(data).length)

\* The contents of so many integers, or of those there are before one is missing.
RECURSIVE Integers_(_, _)
Integers_(data, n) ==
  IF n = 0 \/ ~IsItem(data, Integer) THEN <<>> ELSE <<Content(data)>> \o Integers_(Beyond(data), n - 1)

Item(id, flags, content) == ber_write_id_len(id, Len(content), flags) \o content

-----------------------------------------------------------------------------
(* OpenSSH's old format.                                                    *)

PemTypes == {"RSA", "DSA", "EC"}
PemEnds == {Mark("-----END", type) : type \in PemTypes \cup {"OPENSSH"}}

\* The last line about encryption is the one that counts; that there is one when it
\* is needed is taken for granted.
Last_(lines, name) == Last(SelectSeq(lines, LAMBDA line : IsField(line, name))).body
Has(lines, name) == \E i \in DOMAIN lines : IsField(lines[i], name)

PemBlock(cipher) == IF cipher = "DES-EDE3-CBC" THEN 8 ELSE 16

\* The blob is a multiple of 8, whatever the cipher.
load_openssh_pem_key(file) ==
  LET lines == Between(file, PemEnds)
      encrypted == Has(lines, "Proc-Type") /\ Last_(lines, "Proc-Type") = "4,ENCRYPTED"
      blob == Decoded(CharsOf(lines))
  IN IF /\ At(file, 1).kind = "mark" /\ At(file, 1).name = "-----BEGIN" /\ At(file, 1).body \in PemTypes
        /\ Ends(file, PemEnds) # {} /\ FieldsFirst(lines)
        /\ \A i \in DOMAIN lines : IsField(lines[i], "DEK-Info") =>
             lines[i].body.cipher \in {"DES-EDE3-CBC", "AES-128-CBC"}
             /\ Len(lines[i].body.iv) = PemBlock(lines[i].body.cipher)
        /\ IsBase64(CharsOf(lines)) /\ blob # <<>>
        /\ encrypted => Len(blob) % 8 = 0
     THEN [status |-> "read", type |-> At(file, 1).body, encrypted |-> encrypted, blob |-> blob,
           dek |-> IF Has(lines, "DEK-Info") THEN Last_(lines, "DEK-Info") ELSE <<>>]
     ELSE Null

openssh_pem_encrypted(file) ==
  LET key == load_openssh_pem_key(file) IN key # Null /\ key.encrypted

\* From the passphrase and eight octets of the iv.
PemKey(passphrase, iv) ==
  LET first == Md5(passphrase \o SubSeq(iv, 1, 8))
  IN first \o Md5(first \o passphrase \o SubSeq(iv, 1, 8))

PemBody(key, passphrase) ==
  CASE ~key.encrypted -> key.blob
    [] key.dek.cipher = "DES-EDE3-CBC" -> Des3Inverse(PemKey(passphrase, key.dek.iv), key.dek.iv, key.blob)
    [] OTHER -> AesInverse(PemKey(passphrase, key.dek.iv), key.dek.iv, key.blob)

Imported == <<105>>     \* the comment of a key that has none
Version == <<0>>
EcVersion == <<1>>

\* A private key has a zero in front, so that it does not look negative.
PemEcKey(body, failure) ==
  LET private == Beyond(body)
      curve == Beyond(private)
      oid == Inside(curve)
      public == Beyond(oid)
      point == Inside(public)
  IN CASE ~(IsItem(body, Integer) /\ Content(body) = EcVersion) -> failure
       [] ~(IsItem(private, OctetString) /\ IsItem(curve, 0) /\ IsItem(oid, Oid)) -> failure
       [] Content(oid) # EcOid -> Null
       [] ~(IsItem(public, 1) /\ IsItem(point, BitString) /\ Len(Content(point)) = 2 * EcOctets + 2) -> failure
       [] OTHER -> Loaded(EcAlg, Imported,
                          Createkey(EcAlg, <<NameOf(EcAlg), EcCurve, Tail(Content(point))>>,
                                    <<<<0>> \o Content(private)>>))

\* Of RSA's numbers two are not needed.
PemIntegersKey(body, type, failure) ==
  LET count == IF type = "RSA" THEN 9 ELSE 6
      n == Integers_(body, count)
  IN CASE n = <<>> -> failure
       [] n[1] # Version -> Null
       [] Len(n) < count -> failure
       [] type = "RSA" ->
            Loaded("ssh-rsa", Imported,
                   Createkey("ssh-rsa", <<NameOf("ssh-rsa"), n[3], n[2]>>, <<n[4], n[5], n[6], n[9]>>))
       [] OTHER ->
            Loaded("ssh-dss", Imported,
                   Createkey("ssh-dss", <<NameOf("ssh-dss")>> \o SubSeq(n, 2, 5), <<n[6]>>))

\* What cannot be read is taken for the effect of a wrong passphrase.
openssh_pem_read(file, passphrase) ==
  LET key == load_openssh_pem_key(file)
      body == PemBody(key, passphrase)
      failure == IF key.encrypted THEN Wrong ELSE Null
  IN CASE key = Null -> Null
       [] key.encrypted /\ Len(key.blob) % PemBlock(key.dek.cipher) # 0 -> Crash
       [] ~IsItem(body, Sequence) -> failure
       [] key.type = "EC" -> PemEcKey(Inside(body), failure)
       [] OTHER -> PemIntegersKey(Inside(body), key.type, failure)

\* Of RSA's, those that OpenSSH has and PuTTY has not, too.
PemIntegers(key) ==
  LET pub == PublicBlob(key)
      priv == PrivateBlob(key)
      Reduced(prime) == Num!Mp(Num!FromBig(priv[1]) % (Num!FromBig(prime) - 1))
  IN IF key.alg = "ssh-rsa"
     THEN <<Version, pub[3], pub[2], priv[1], priv[2], priv[3], Reduced(priv[2]), Reduced(priv[3]), priv[4]>>
     ELSE <<Version>> \o Tail(pub) \o priv

PemEcItems(key) ==
  Item(Integer, 0, EcVersion) \o Item(OctetString, 0, PrivateBlob(key)[1])
    \o Item(0, ContextSpecific + Constructed, Item(Oid, 0, EcOid))
    \o Item(1, ContextSpecific + Constructed, Item(BitString, 0, <<0>> \o PublicBlob(key)[3]))

PemType(alg) == CASE alg = "ssh-rsa" -> "RSA" [] alg = "ssh-dss" -> "DSA" [] OTHER -> "EC"

\* At least one octet more, each of them how many there are.
openssh_pem_write(key, passphrase, iv) ==
  LET items == [i \in DOMAIN PemIntegers(key) |-> Item(Integer, 0, PemIntegers(key)[i])]
      body == Item(Sequence, Constructed, IF key.alg = EcAlg THEN PemEcItems(key) ELSE FlattenSeq(items))
      more == 8 - (Len(body) % 8)
      blob == IF passphrase = NoPass THEN body
              ELSE Des3(PemKey(passphrase, iv), iv, body \o [i \in 1..more |-> more])
  IN <<Mark("-----BEGIN", PemType(key.alg))>>
     \o (IF passphrase = NoPass THEN <<>>
         ELSE <<Field("Proc-Type", "4,ENCRYPTED"), Field("DEK-Info", [cipher |-> "DES-EDE3-CBC", iv |-> iv]),
                Data(<<>>)>>)
     \o base64_encode(blob, 64) \o <<Mark("-----END", PemType(key.alg))>>

-----------------------------------------------------------------------------
(* OpenSSH's new format.                                                    *)

Magic == <<111, 0>>
KdfName(kdf) == IF kdf = "none" THEN <<110>> ELSE <<98>>
NewBlock == 16

\* The names of a cipher and of a way to make keys, that one's options, the number
\* of keys, a public key and the private part.
load_openssh_new_key(file) ==
  LET ends == {Mark("-----END", "OPENSSH")}
      chars == CharsOf(Between(file, ends))
      blob == Decoded(chars)
      strings == Strings(Behind(blob, Len(Magic)))
      options == strings[3]
      behind == BehindStrings(Behind(blob, Len(Magic)), 3)
      keys == Strings(Behind(behind, 4))
  IN IF /\ At(file, 1) = Mark("-----BEGIN", "OPENSSH") /\ Ends(file, ends) # {}
        /\ IsBase64(chars) /\ IsPrefix(Magic, blob)
        /\ Len(strings) >= 3
        /\ strings[1] \in {CipherName("none"), CipherName("aes256-cbc")}
        /\ strings[2] \in {KdfName("none"), KdfName("bcrypt")}
        /\ IF strings[2] = KdfName("none") THEN options = <<>>
           ELSE HasString(options) /\ Len(BehindString(options)) >= 4
        /\ Get32(behind) = 1
        /\ Len(keys) >= 2
     THEN [status |-> "read", encrypted |-> strings[1] # CipherName("none"),
           kdf |-> IF strings[2] = KdfName("none") THEN "none" ELSE "bcrypt",
           options |-> options, blob |-> keys[2]]
     ELSE Null

openssh_new_encrypted(file) ==
  LET key == load_openssh_new_key(file) IN key # Null /\ key.encrypted

\* The cipher's key and what its first block is mixed with.
NewKey(passphrase, salt, rounds) == Bcrypt(passphrase, salt, rounds, 48)
NewInverse(material, blob) == AesInverse(SubSeq(material, 1, 32), SubSeq(material, 33, 48), blob)

\* The fields of a key are strings, as many as its algorithm has.
NewKeyIn(private) ==
  LET strings == Strings(Behind(private, 8))
      algs == {alg \in Algs : NameOf(alg) = strings[1]}
      alg == CHOOSE a \in algs : TRUE
      n == Npieces(alg)
      made == OpensshCreatekey(alg, SubSeq(strings, 2, 1 + n))
      padding == BehindStrings(Behind(private, 8), n + 2)
  IN CASE Len(private) < 8 \/ SubSeq(private, 1, 4) # SubSeq(private, 5, 8) -> Null
       [] strings = <<>> -> Null
       [] algs = {} -> Null
       [] Len(strings) < 1 + n -> Null
       [] made.status # "key" -> made
       [] Len(strings) < 2 + n -> Null
       [] \E i \in DOMAIN padding : padding[i] # i % 256 -> Null
       [] OTHER -> Loaded(alg, strings[n + 2], made)

\* A wrong passphrase is not told from a file that is broken.
openssh_new_read(file, passphrase) ==
  LET key == load_openssh_new_key(file)
      material == IF key.kdf = "none" THEN Zeros(48)
                  ELSE NewKey(passphrase, FirstString(key.options), Get32(BehindString(key.options)))
  IN CASE key = Null -> Null
       [] key.encrypted /\ Len(key.blob) % NewBlock # 0 -> Null
       [] OTHER -> NewKeyIn(IF key.encrypted THEN NewInverse(material, key.blob) ELSE key.blob)

Rounds == 16

openssh_new_write(key, passphrase, salt, checkint) ==
  LET private == checkint \o checkint \o Flat(<<NameOf(key.alg)>> \o OpensshFmtkey(key) \o <<key.comment>>)
      padded == private \o [i \in 1..(NewBlock - (Len(private) % NewBlock)) |-> i]
      material == NewKey(passphrase, salt, Rounds)
      names == IF passphrase = NoPass THEN <<CipherName("none"), KdfName("none"), <<>>>>
               ELSE <<CipherName("aes256-cbc"), KdfName("bcrypt"), put_string(salt) \o Put32(Rounds)>>
      blob == IF passphrase = NoPass THEN padded
              ELSE Aes(SubSeq(material, 1, 32), SubSeq(material, 33, 48), padded)
  IN <<Mark("-----BEGIN", "OPENSSH")>>
     \o base64_encode(Magic \o Flat(names) \o Put32(1) \o Flat(<<Flat(PublicBlob(key)), blob>>), 64)
     \o <<Mark("-----END", "OPENSSH")>>

openssh_auto_write(key, passphrase, random) ==
  IF key.alg \in {"ssh-dss", "ssh-rsa", EcAlg} THEN openssh_pem_write(key, passphrase, SubSeq(random, 1, 8))
  ELSE openssh_new_write(key, passphrase, random, SubSeq(random, 1, 4))

-----------------------------------------------------------------------------
(* ssh.com's format.                                                        *)

SSHCOM_MAGIC_NUMBER == <<63, 111, 249, 235>>
BeginSshcom == Mark("---- BEGIN", "SSH2 ENCRYPTED PRIVATE KEY")
EndSshcom == Mark("---- END", "SSH2 ENCRYPTED PRIVATE KEY")
TypeName(alg) == IF alg = "ssh-rsa" THEN <<105, 0>> ELSE <<100, 0>>
SshcomCipher(encrypted) == IF encrypted THEN <<51>> ELSE <<110>>
MaxComment == 255

\* A line that goes on where a field ended with a backslash.
Text(text) == [kind |-> "text", name |-> "", body |-> text]
GoesOn(line) == line.kind = "field" /\ line.body # <<>> /\ Last(line.body) = Backslash

\* Fields in one line each.
RECURSIVE Joined(_)
Joined(lines) ==
  CASE lines = <<>> -> <<>>
    [] GoesOn(Head(lines)) /\ Len(lines) > 1 ->
         Joined(<<[Head(lines) EXCEPT !.body = Front(@) \o lines[2].body]>> \o Behind(lines, 2))
    [] OTHER -> <<Head(lines)>> \o Joined(Tail(lines))

load_sshcom_key(file) ==
  LET lines == Joined(Between(file, {EndSshcom}))
      chars == CharsOf(lines)
      comment == IF Has(lines, "Comment") THEN Unquoted(Last_(lines, "Comment")) ELSE <<>>
  IN IF /\ At(file, 1) = BeginSshcom /\ Ends(file, {EndSshcom}) # {}
        /\ FieldsFirst(lines) /\ IsBase64(chars) /\ Decoded(chars) # <<>>
     THEN [status |-> "read", comment |-> SubSeq(comment, 1, IF Len(comment) > MaxComment THEN MaxComment ELSE Len(comment)),
           blob |-> Decoded(chars)]
     ELSE Null

\* The strings behind the magic number and a length that nobody looks at.
SshcomStrings(key) == Strings(Behind(key.blob, 8))
HasMagic(key) == key # Null /\ IsPrefix(SSHCOM_MAGIC_NUMBER, key.blob)

sshcom_encrypted(file) ==
  LET key == load_sshcom_key(file)
      strings == SshcomStrings(key)
  IN HasMagic(key) /\ Len(strings) >= 2 /\ strings[2] # SshcomCipher(FALSE)

\* A number has its bits in front, and as many octets as they fill.  Their count is
\* rounded up in 32 bits, where those next to 2^32 are none.
MpintLength(data) ==
  IF SubSeq(data, 1, 3) = <<255, 255, 255>> /\ data[4] >= 249 THEN 0 ELSE (Get32(data) + 7) \div 8
HasMpint(data) ==
  Len(data) >= 4 /\ (Get32(data) >= 0 \/ MpintLength(data) = 0) /\ MpintLength(data) \in 0..(Len(data) - 4)

\* The numbers there are.
RECURSIVE sshcom_read_mpint(_)
sshcom_read_mpint(data) ==
  IF ~HasMpint(data) THEN <<>>
  ELSE <<SubSeq(data, 5, 4 + MpintLength(data))>> \o sshcom_read_mpint(Behind(data, 4 + MpintLength(data)))

\* Without the zeros in front, but for the last octet.
sshcom_put_mpint(octets) ==
  LET value == Num!FromBig(octets)
      bits == Num!bignum_bitcount(value)
      length == IF bits = 0 THEN 1 ELSE (bits + 7) \div 8
  IN Put32(IF bits = 0 THEN 1 ELSE bits) \o Num!Big(value, length)

\* put_mp().
Signed(octets) == IF octets # <<>> /\ octets[1] >= 128 THEN <<0>> \o octets ELSE octets

SshcomKey(passphrase) == Md5(passphrase) \o Md5(passphrase \o Md5(passphrase))

\* What is inside, of an RSA key or a DSA key with its own parameters.
SshcomRsa(n) ==
  Createkey("ssh-rsa", <<NameOf("ssh-rsa"), Signed(n[1]), Signed(n[3])>>,
            <<n[2], Signed(n[6]), Signed(n[5]), Signed(n[4])>>)
SshcomDsa(n) ==
  Createkey("ssh-dss", <<NameOf("ssh-dss"), Signed(n[1]), Signed(n[3]), Signed(n[2]), Signed(n[4])>>,
            <<Signed(n[5])>>)

\* Nothing in an encrypted file can be wrong but its passphrase.
SshcomInside(plain, alg, comment, failure) ==
  LET inside == FirstString(plain)
      numbers == sshcom_read_mpint(IF alg = "ssh-rsa" THEN inside ELSE Behind(inside, 4))
      made == IF alg = "ssh-rsa" THEN SshcomRsa(numbers) ELSE SshcomDsa(numbers)
  IN CASE ~HasString(plain) -> failure
       [] alg = "ssh-dss" /\ Get32(inside) # 0 -> failure
       [] Len(numbers) < (IF alg = "ssh-rsa" THEN 6 ELSE 5) -> failure
       [] made.status = "null" -> failure
       [] OTHER -> Loaded(alg, comment, made)

sshcom_read(file, passphrase) ==
  LET key == load_sshcom_key(file)
      strings == SshcomStrings(key)
      algs == {alg \in {"ssh-rsa", "ssh-dss"} : Len(strings[1]) > 1 /\ strings[1][1] = TypeName(alg)[1]}
      encrypted == strings[2] = SshcomCipher(TRUE)
      plain == IF encrypted THEN Des3Inverse(SshcomKey(passphrase), Zeros(8), strings[3]) ELSE strings[3]
  IN CASE ~HasMagic(key) -> Null
       [] Len(strings) < 3 -> Null
       [] algs = {} \/ strings[2] \notin {SshcomCipher(TRUE), SshcomCipher(FALSE)} -> Null
       [] strings[3] = <<>> \/ (encrypted /\ Len(strings[3]) % 8 # 0) -> Null
       [] OTHER -> SshcomInside(plain, CHOOSE alg \in algs : TRUE, key.comment, IF encrypted THEN Wrong ELSE Null)

\* In lines of 60 characters and then of 70.
RECURSIVE Broken(_, _)
Broken(text, width) ==
  IF Len(text) <= width THEN <<text>>
  ELSE <<Append(SubSeq(text, 1, width), Backslash)>> \o Broken(Behind(text, width), 70)

CommentLines(comment) ==
  LET parts == Broken(comment, 60)
      quoted == [parts EXCEPT ![1] = <<Quote>> \o @]
      closed == [quoted EXCEPT ![Len(quoted)] = Append(@, Quote)]
  IN <<Field("Comment", closed[1])>> \o [i \in 1..(Len(closed) - 1) |-> Text(closed[i + 1])]

\* random fills the last block.
sshcom_write(key, passphrase, random) ==
  LET pub == PublicBlob(key)
      priv == PrivateBlob(key)
      numbers == IF key.alg = "ssh-rsa" THEN <<pub[2], priv[1], pub[3], priv[4], priv[3], priv[2]>>
                 ELSE <<pub[2], pub[4], pub[3], pub[5], priv[1]>>
      inside == (IF key.alg = "ssh-rsa" THEN <<>> ELSE Put32(0))
                  \o FlattenSeq([i \in DOMAIN numbers |-> sshcom_put_mpint(numbers[i])])
      plain == put_string(inside)
      filled == plain \o SubSeq(random, 1, (-Len(plain)) % 8)
      blob == IF passphrase = NoPass THEN plain ELSE Des3(SshcomKey(passphrase), Zeros(8), filled)
      strings == Flat(<<TypeName(key.alg), SshcomCipher(passphrase # NoPass), blob>>)
  IN <<BeginSshcom>> \o CommentLines(key.comment)
     \o base64_encode(SSHCOM_MAGIC_NUMBER \o Put32(8 + Len(strings)) \o strings, 70)
     \o <<EndSshcom>>

-----------------------------------------------------------------------------
(* By the type of a file.                                                   *)

import_encrypted(file, type) ==
  CASE type = "OPENSSH_PEM" -> openssh_pem_encrypted(file)
    [] type = "OPENSSH_NEW" -> openssh_new_encrypted(file)
    [] type = "SSHCOM" -> sshcom_encrypted(file)
    [] OTHER -> FALSE

import_ssh2(file, type, passphrase) ==
  CASE type = "OPENSSH_PEM" -> openssh_pem_read(file, passphrase)
    [] type = "OPENSSH_NEW" -> openssh_new_read(file, passphrase)
    [] type = "SSHCOM" -> sshcom_read(file, passphrase)
    [] OTHER -> Null

export_ssh2(key, type, passphrase, random) ==
  CASE type = "OPENSSH_AUTO" -> openssh_auto_write(key, passphrase, random)
    [] type = "OPENSSH_NEW" -> openssh_new_write(key, passphrase, random, SubSeq(random, 1, 4))
    [] type = "SSHCOM" -> sshcom_write(key, passphrase, random)

-----------------------------------------------------------------------------
(* What they promise.                                                        *)

\* What is written is what is read, at every length.
LengthsAreRead ==
  \A id \in 0..30, length \in {0, 1, 127, 128, 255, 256, 65535, 65536}, flags \in {0, Constructed, ContextSpecific} :
    LET octets == ber_write_id_len(id, length, flags)
    IN ber_read_id_len(octets) = [used |-> Len(octets), id |-> id, length |-> length]

CanExport(key, type) == type = "SSHCOM" => key.alg \in {"ssh-rsa", "ssh-dss"}
CommentKept(key, file) == IF key_type(file) = "OPENSSH_PEM" THEN Imported ELSE key.comment

\* A key is imported as it was exported, with the comment where the format has one;
\* with a wrong passphrase it is refused, which in OpenSSH's new format looks like a
\* file that is broken.
KeptElsewhere(key, type, passphrase, others, random) ==
  LET file == export_ssh2(key, type, passphrase, random)
      read == key_type(file)
      same == [key EXCEPT !.comment = CommentKept(key, file)]
  IN /\ import_possible(read)
     /\ import_encrypted(file, read) <=> passphrase # NoPass
     /\ import_ssh2(file, read, passphrase) = same
     /\ \A other \in others \ {passphrase, NoPass} :
          import_ssh2(file, read, other) =
            CASE passphrase = NoPass -> same
              [] read = "OPENSSH_NEW" -> Null
              [] OTHER -> Wrong

\* A file that lacks a line, or has one twice, gives no other key.  (Without the line
\* that names the cipher, what is left of other data chooses one.)
MaimedIsRefused(key, type, passphrase, random) ==
  LET file == export_ssh2(key, type, passphrase, random)
      Lacks(i) == SubSeq(file, 1, i - 1) \o Behind(file, i)
      Twice(i) == SubSeq(file, 1, i) \o Behind(file, i - 1)
  IN \A maimed \in {Lacks(i) : i \in {j \in DOMAIN file : ~IsField(file[j], "DEK-Info")}}
                       \cup {Twice(i) : i \in DOMAIN file} :
       LET read == import_ssh2(maimed, key_type(maimed), passphrase)
       IN read.status = "key" => read.data = key.data
=============================================================================
