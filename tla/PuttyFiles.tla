----------------------------- MODULE PuttyFiles -----------------------------
(***************************************************************************)
(* Key files in PuTTY's format, and those with a public key alone          *)
(* (sshpubk.c).  A private key is encrypted with its passphrase, and       *)
(* everything in the file is under a MAC that depends on the passphrase.   *)
(***************************************************************************)
EXTENDS Wire

CONSTANTS
  NoPass,                 \* a passphrase that is NULL
  Algs, NameOf(_),        \* the algorithms, and their names in octets
  PublicBlob(_), PrivateBlob(_), Createkey(_, _, _),
  Bits(_, _),             \* of an algorithm and a blob
  Sha(_), Hmac(_, _), Md5(_),
  Aes(_, _, _), AesInverse(_, _, _)     \* with a key and what the first block is mixed with

AesBlock == 16

Null == [status |-> "null"]
Wrong == [status |-> "wrong"]       \* SSH2_WRONG_PASSPHRASE

\* A key, if one was made.
Loaded(alg, comment, made) ==
  IF made.status = "key" THEN [status |-> "key", alg |-> alg, comment |-> comment, data |-> made.data]
  ELSE made

-----------------------------------------------------------------------------
(* Private keys.                                                            *)

Versions == {"PuTTY-User-Key-File-1", "PuTTY-User-Key-File-2"}

\* Of the lines from the first on: each of up to 64 characters, in whole atoms.
\* Past the end of the file, lines are empty.
HasBlob(file, first, nlines) ==
  \A i \in first..(first + nlines - 1) :
    LET line == At(file, i)
    IN line.kind = "data" /\ Len(line.body) % 4 = 0 /\ Len(line.body) <= 64 /\ IsBase64(line.body)
read_blob(file, first, nlines) ==
  Decoded(FlattenSeq([i \in 1..nlines |-> At(file, first + i - 1).body]))

HasVersion(file) == At(file, 1).kind = "field" /\ At(file, 1).name \in Versions
Alg(file) == At(file, 1).body
PublicLines(file) == At(file, 4).body
PrivateAt(file) == 5 + PublicLines(file)
PrivateLines(file) == At(file, PrivateAt(file)).body
MacLine(file) == At(file, PrivateAt(file) + PrivateLines(file) + 1)

HasPublic(file) ==
  /\ HasVersion(file) /\ Alg(file) \in Algs
  /\ IsField(At(file, 2), "Encryption")
  /\ IsField(At(file, 3), "Comment")
  /\ IsField(At(file, 4), "Public-Lines")
  /\ HasBlob(file, 5, PublicLines(file))

\* A hash instead of a MAC is for the old version.
HasPrivate(file) ==
  /\ HasPublic(file) /\ At(file, 2).body \in {"aes256-cbc", "none"}
  /\ IsField(At(file, PrivateAt(file)), "Private-Lines")
  /\ HasBlob(file, PrivateAt(file) + 1, PrivateLines(file))
  /\ \/ IsField(MacLine(file), "Private-MAC")
     \/ IsField(MacLine(file), "Private-Hash") /\ At(file, 1).name = "PuTTY-User-Key-File-1"

CipherKey(passphrase) == Sha(Put32(0) \o passphrase) \o Sha(Put32(1) \o passphrase)

\* Stand for putty-private-key-file-mac-key, and for the names of the ciphers.
MacLabel == <<112>>
CipherName(encryption) == IF encryption = "none" THEN <<110>> ELSE <<97>>

\* The old version's is of the private blob alone.
Mac(version, encryption, passphrase, alg, comment, pub, priv) ==
  Hmac(Sha(MacLabel \o IF encryption = "none" THEN <<>> ELSE passphrase),
       IF version = "PuTTY-User-Key-File-1" THEN priv
       ELSE Flat(<<NameOf(alg), CipherName(encryption), comment, pub, priv>>))

MacIsRight(file, passphrase, priv) ==
  MacLine(file).body =
    IF MacLine(file).name = "Private-Hash" THEN Sha(priv)
    ELSE Mac(At(file, 1).name, At(file, 2).body, passphrase, Alg(file), At(file, 3).body,
             read_blob(file, 5, PublicLines(file)), priv)

\* A MAC that is not right is a wrong passphrase, where there is one.
ssh2_load_userkey(file, passphrase) ==
  LET encrypted == At(file, 2).body = "aes256-cbc"
      blob == read_blob(file, PrivateAt(file) + 1, PrivateLines(file))
      priv == IF encrypted THEN AesInverse(CipherKey(passphrase), Zeros(AesBlock), blob) ELSE blob
  IN CASE ~HasPrivate(file) -> Null
       [] encrypted /\ (passphrase = NoPass \/ Len(blob) % AesBlock # 0) -> Null
       [] ~MacIsRight(file, passphrase, priv) -> IF encrypted THEN Wrong ELSE Null
       [] OTHER -> 
            Loaded(Alg(file), At(file, 3).body,
                   Createkey(Alg(file), Strings(read_blob(file, 5, PublicLines(file))), Strings(priv)))

\* Filled up with a hash to whole blocks.
Padded(priv, block) == priv \o SubSeq(Sha(priv), 1, (-Len(priv)) % block)

SavedAs(version, key, passphrase) ==
  LET encryption == IF passphrase = NoPass THEN "none" ELSE "aes256-cbc"
      pub == Flat(PublicBlob(key))
      priv == Padded(Flat(PrivateBlob(key)), IF passphrase = NoPass THEN 1 ELSE AesBlock)
      blob == IF passphrase = NoPass THEN priv ELSE Aes(CipherKey(passphrase), Zeros(AesBlock), priv)
  IN <<Field(version, key.alg), Field("Encryption", encryption), Field("Comment", key.comment),
       Field("Public-Lines", base64_lines(Len(pub)))>>
     \o base64_encode(pub, 64)
     \o <<Field("Private-Lines", base64_lines(Len(blob)))>> \o base64_encode(blob, 64)
     \o <<Field("Private-MAC", Mac(version, encryption, passphrase, key.alg, key.comment, pub, priv))>>

ssh2_save_userkey(key, passphrase) == SavedAs("PuTTY-User-Key-File-2", key, passphrase)

\* Without a comment it is encrypted whatever the line before says.
ssh2_userkey_encrypted(file) ==
  /\ HasVersion(file) /\ IsField(At(file, 2), "Encryption")
  /\ IsField(At(file, 3), "Comment") => At(file, 2).body = "aes256-cbc"

-----------------------------------------------------------------------------
(* Public keys.                                                             *)

Quote == 34
Backslash == 92

RECURSIVE Escaped(_)
Escaped(text) ==
  IF text = <<>> THEN text
  ELSE (IF Head(text) \in {Quote, Backslash} THEN <<Backslash, Head(text)>> ELSE <<Head(text)>>)
       \o Escaped(Tail(text))

RECURSIVE Unescaped(_)
Unescaped(text) ==
  IF Len(text) < 2 THEN text
  ELSE IF Head(text) = Backslash THEN <<text[2]>> \o Unescaped(Behind(text, 2))
  ELSE <<Head(text)>> \o Unescaped(Tail(text))

Unquoted(text) ==
  IF Len(text) > 1 /\ Head(text) = Quote /\ Last(text) = Quote THEN SubSeq(text, 2, Len(text) - 1)
  ELSE text

\* A key, its algorithm's name in front; none for anything else.
Public(blob, comment) ==
  IF HasString(blob) THEN [status |-> "key", name |-> FirstString(blob), comment |-> comment, blob |-> blob]
  ELSE Null

BeginPublic == Mark("---- BEGIN", "SSH2 PUBLIC KEY")
EndPublic == Mark("---- END", "SSH2 PUBLIC KEY")

\* The last comment counts.  A mark ends the characters, and has to be the right
\* one.  (A field behind characters, which would be read as more of them, is left
\* out.)
rfc4716_loadpub(file) ==
  LET marks == {i \in 2..Len(file) : file[i].kind = "mark"}
      end == CHOOSE i \in marks : \A j \in marks : i <= j
      lines == SubSeq(file, 2, end - 1)
      comments == SelectSeq(lines, LAMBDA line : IsField(line, "Comment"))
  IN IF /\ At(file, 1) = BeginPublic /\ marks # {} /\ file[end] = EndPublic
        /\ FieldsFirst(lines)
        /\ \A i \in DOMAIN lines : lines[i].kind = "field" => lines[i].name \in {"Comment", "Subject", "x-"}
     THEN Public(Decoded(FlattenSeq([i \in DOMAIN lines |-> IF lines[i].kind = "data" THEN lines[i].body ELSE <<>>])),
                 IF comments = <<>> THEN <<>> ELSE Unescaped(Unquoted(Last(comments).body)))
     ELSE Null

\* A line of words: the name, the blob and the comment.
Words(name, chars, comment) == [kind |-> "words", name |-> name, body |-> chars, comment |-> comment]

openssh_loadpub(file) ==
  LET line == At(file, 1)
      blob == Decoded(line.body)
  IN IF line.kind = "words" /\ Len(line.body) % 4 = 0 /\ HasString(blob) /\ FirstString(blob) = line.name
     THEN Public(blob, line.comment) ELSE Null

InvalidAlgorithm == <<73>>
ssh2_pubkey_openssh_str_internal(comment, blob) ==
  Words(IF Get32(blob) \in 1..(Len(blob) - 5) THEN FirstString(blob) ELSE InvalidAlgorithm,
        Chars(blob), comment)

\* In the format of RFC 4716, and in OpenSSH's.
ssh2_write_pubkey(comment, blob, keytype) ==
  IF keytype = "RFC4716"
  THEN <<BeginPublic, Field("Comment", <<Quote>> \o Escaped(comment) \o <<Quote>>)>>
       \o base64_encode(blob, 64) \o <<EndPublic>>
  ELSE <<ssh2_pubkey_openssh_str_internal(comment, blob)>>

\* What a file is, by its first line.
key_type(file) ==
  LET line == At(file, 1)
  IN CASE line = BeginPublic -> "RFC4716"
       [] line.kind = "field" /\ line.name \in Versions \cup {"PuTTY-User-Key-File-3"} -> "SSH2"
       [] line = Mark("-----BEGIN", "OPENSSH") -> "OPENSSH_NEW"
       [] line.kind = "mark" /\ line.name = "-----BEGIN" -> "OPENSSH_PEM"
       [] line = Mark("---- BEGIN", "SSH2 ENCRYPTED PRIVATE KEY") -> "SSHCOM"
       [] line.kind = "words" -> IF line.name \in {NameOf(alg) : alg \in Algs} THEN "OPENSSH" ELSE "UNKNOWN"
       [] OTHER -> "UNKNOWN"

ssh2_userkey_loadpub(file) ==
  CASE key_type(file) = "RFC4716" -> rfc4716_loadpub(file)
    [] key_type(file) = "OPENSSH" -> openssh_loadpub(file)
    [] key_type(file) = "SSH2" /\ HasPublic(file) ->
         [status |-> "key", name |-> NameOf(Alg(file)), comment |-> At(file, 3).body,
          blob |-> read_blob(file, 5, PublicLines(file))]
    [] OTHER -> Null

\* MD5 of the blob, with the algorithm and its size where there is one.
ssh2_fingerprint_blob(blob) ==
  LET named == Get32(blob) \in 1..(Len(blob) - 5)
      algs == {alg \in Algs : named /\ NameOf(alg) = FirstString(blob)}
  IN [md5 |-> Md5(blob), name |-> IF named THEN FirstString(blob) ELSE <<>>,
      bits |-> IF algs = {} THEN -1 ELSE Bits(CHOOSE alg \in algs : TRUE, Strings(blob))]

-----------------------------------------------------------------------------
(* What they promise.                                                        *)

\* A line that is not what it was.
Changed(line) ==
  CASE line.kind = "data" ->
         {[line EXCEPT !.body[i] = (@ + 1) % 65] : i \in DOMAIN line.body}
           \cup {[line EXCEPT !.body = Behind(@, 4)]}
    [] line.name \in {"Public-Lines", "Private-Lines"} -> {[line EXCEPT !.body = @ + 1], [line EXCEPT !.body = @ - 1]}
    [] line.name = "Encryption" -> {[line EXCEPT !.body = b] : b \in {"none", "aes256-cbc", "other"} \ {line.body}}
    [] line.name = "Comment" -> {[line EXCEPT !.body = Append(@, 0)], Field("Subject", line.body)}
    [] line.name = "Private-MAC" -> {[line EXCEPT !.body[1] = (@ + 1) % 256], Field("Private-Hash", line.body)}
    [] OTHER -> {[line EXCEPT !.body = alg] : alg \in Algs \ {line.body}}
                  \cup {[line EXCEPT !.name = "PuTTY-User-Key-File-1"]}

\* A file of which one line is changed, lost or there twice, or the end is missing.
Alterations(file) ==
  UNION {{[file EXCEPT ![i] = line] : line \in Changed(file[i])} : i \in DOMAIN file}
    \cup {SubSeq(file, 1, i - 1) \o Behind(file, i) : i \in DOMAIN file}
    \cup {SubSeq(file, 1, i) \o Behind(file, i - 1) : i \in DOMAIN file}
    \cup {SubSeq(file, 1, i) : i \in 0..(Len(file) - 1)}

\* A key is loaded as it was saved; with another passphrase it is refused, and not
\* taken for a file that is broken; its public part needs none.
KeptInFile(key, passphrase, others) ==
  LET file == ssh2_save_userkey(key, passphrase)
      blob == Flat(PublicBlob(key))
  IN /\ key_type(file) = "SSH2"
     /\ ssh2_userkey_encrypted(file) <=> passphrase # NoPass
     /\ ssh2_load_userkey(file, passphrase) = key
     /\ ssh2_userkey_loadpub(file) = [status |-> "key", name |-> NameOf(key.alg), comment |-> key.comment, blob |-> blob]
     /\ \A other \in others \ {passphrase} :
          ssh2_load_userkey(file, other) =
            IF passphrase = NoPass THEN key ELSE IF other = NoPass THEN Null ELSE Wrong
     \* The old version, with the MAC it had or the hash.
     /\ LET old == SavedAs("PuTTY-User-Key-File-1", key, passphrase)
            priv == Padded(Flat(PrivateBlob(key)), IF passphrase = NoPass THEN 1 ELSE AesBlock)
            hashed == Append(Front(old), Field("Private-Hash", Sha(priv)))
        IN ssh2_load_userkey(old, passphrase) = key /\ ssh2_load_userkey(hashed, passphrase) = key

\* A file that was altered is refused, or it is still the same key with the same
\* comment.
AlteredIsRefused(key, passphrase) ==
  \A altered \in Alterations(ssh2_save_userkey(key, passphrase)) :
    ssh2_load_userkey(altered, passphrase) \in {key, Null, Wrong}

\* A public key is read as it was written, in both formats.
PublicKept(key) ==
  LET blob == Flat(PublicBlob(key))
      read == [status |-> "key", name |-> NameOf(key.alg), comment |-> key.comment, blob |-> blob]
  IN /\ \A keytype \in {"RFC4716", "OPENSSH"} :
          LET file == ssh2_write_pubkey(key.comment, blob, keytype)
          IN key_type(file) = keytype /\ ssh2_userkey_loadpub(file) = read
     /\ ssh2_fingerprint_blob(blob).name = NameOf(key.alg)
     /\ ssh2_fingerprint_blob(blob).bits > 0
=============================================================================
