------------------------------ MODULE Ciphers ------------------------------
(***************************************************************************)
(* The ciphers of key files: AES as sshaes.c computes it, and DES as       *)
(* sshdes.c does.  Data are octets, a word is four of them, the most       *)
(* significant first.                                                      *)
(***************************************************************************)
EXTENDS Integers, Sequences, SequencesExt

\* The sequence that a function on 1..n is, element by element.
Tuple(s) == s \o <<>>

XorTable ==
  LET Bit(a, b, i) == ((a \div i + b \div i) % 2) * i
      Bits(a, b) == Bit(a, b, 1) + Bit(a, b, 2) + Bit(a, b, 4) + Bit(a, b, 8)
                      + Bit(a, b, 16) + Bit(a, b, 32) + Bit(a, b, 64) + Bit(a, b, 128)
  IN Tuple([a \in 1..256 |-> Tuple([b \in 1..256 |-> Bits(a - 1, b - 1)])])
XorOctet(a, b) == XorTable[a + 1][b + 1]
Xor(u, v) == Tuple([i \in DOMAIN u |-> XorOctet(u[i], v[i])])

Pad(data, block) == data \o [i \in 1..((-Len(data)) % block) |-> 0]
Blocks(data, block) == [i \in 1..(Len(data) \div block) |-> SubSeq(data, (i - 1) * block + 1, i * block)]

-----------------------------------------------------------------------------
(* AES.                                                                     *)

mulby2(x) == IF x >= 128 THEN XorOctet(2 * x - 256, 27) ELSE 2 * x
Mul(x, n) ==
  LET x2 == mulby2(x)
      x4 == mulby2(x2)
      x8 == mulby2(x4)
      x16 == mulby2(x8)
      x32 == mulby2(x16)
      x64 == mulby2(x32)
      x128 == mulby2(x64)
      Part(bit, y) == IF (n \div bit) % 2 = 0 THEN 0 ELSE y
      Sum4(a, b, c, d) == XorOctet(XorOctet(a, b), XorOctet(c, d))
  IN XorOctet(Sum4(Part(1, x), Part(2, x2), Part(4, x4), Part(8, x8)),
              Sum4(Part(16, x16), Part(32, x32), Part(64, x64), Part(128, x128)))

\* The inverse in the field, and the bits of it mixed.  The tables of the code have
\* these values, and are written down.
Rotated(x, n) == ((x * 2^n) % 256) + (x \div 2^(8 - n))
Sbox ==
  LET Inverted(x) ==        \* x^254
        LET x3 == Mul(x, Mul(x, x))
            x15 == Mul(Mul(Mul(x3, x3), Mul(x3, x3)), x3)
            x7 == Mul(Mul(x3, x3), x)
            x30 == Mul(x15, x15)
            x127 == Mul(Mul(Mul(x30, x30), Mul(x30, x30)), x7)
        IN Mul(x127, x127)
      Mixed(b) == XorOctet(XorOctet(XorOctet(b, Rotated(b, 1)), XorOctet(Rotated(b, 2), Rotated(b, 3))),
                           XorOctet(Rotated(b, 4), 99))
  IN Tuple([i \in 1..256 |-> Mixed(Inverted(i - 1))])
Sboxinv == Tuple([i \in 1..256 |-> (CHOOSE x \in 1..256 : Sbox[x] = i - 1) - 1])

\* What an octet contributes to the word of a column, by its place in the column.
E0 == Tuple([x \in 1..256 |-> <<Mul(Sbox[x], 2), Sbox[x], Sbox[x], Mul(Sbox[x], 3)>>])
E1 == Tuple([x \in 1..256 |-> <<E0[x][4], E0[x][1], E0[x][2], E0[x][3]>>])
E2 == Tuple([x \in 1..256 |-> <<E0[x][3], E0[x][4], E0[x][1], E0[x][2]>>])
E3 == Tuple([x \in 1..256 |-> <<E0[x][2], E0[x][3], E0[x][4], E0[x][1]>>])
D0 == Tuple([x \in 1..256 |-> LET s == Sboxinv[x] IN <<Mul(s, 14), Mul(s, 9), Mul(s, 13), Mul(s, 11)>>])
D1 == Tuple([x \in 1..256 |-> <<D0[x][4], D0[x][1], D0[x][2], D0[x][3]>>])
D2 == Tuple([x \in 1..256 |-> <<D0[x][3], D0[x][4], D0[x][1], D0[x][2]>>])
D3 == Tuple([x \in 1..256 |-> <<D0[x][2], D0[x][3], D0[x][4], D0[x][1]>>])

\* A block has 4, 6 or 8 words; a row is taken from words further on.
Shift(nb) == IF nb = 8 THEN <<0, 1, 3, 4>> ELSE <<0, 1, 2, 3>>
Shifted(block, shift, i) ==
  [row \in 1..4 |-> block[((i - 1 + shift[row]) % Len(block)) + 1][row]]

AddRoundKey(block, sched, round) ==
  Tuple([i \in DOMAIN block |-> Xor(block[i], sched[round * Len(block) + i])])

\* MAKEWORD and LASTWORD, of the octets that were shifted to a word.
MakeWord(o, t0, t1, t2, t3) == Xor(Xor(t0[o[1] + 1], t1[o[2] + 1]), Xor(t2[o[3] + 1], t3[o[4] + 1]))
LastWord(o, sbox) == [row \in 1..4 |-> sbox[o[row] + 1]]

\* What the rounds make of a block, each adding its part of the schedule before it
\* mixes, and what the last one mixes no more.
RECURSIVE Forward(_, _, _)
Forward(blocks, sched, nr) ==
  LET added == AddRoundKey(Last(blocks), sched, Len(blocks) - 1)
      shift == Shift(Len(added))
      next == Tuple([i \in DOMAIN added |-> MakeWord(Shifted(added, shift, i), E0, E1, E2, E3)])
  IN IF Len(blocks) = nr THEN added ELSE Forward(Append(blocks, next), sched, nr)
aes_encrypt(sched, nr, block) ==
  LET before == Forward(<<block>>, sched, nr)
      shift == Shift(Len(block))
  IN AddRoundKey([i \in DOMAIN block |-> LastWord(Shifted(before, shift, i), Sbox)], sched, nr)

Unshift(nb) == [row \in 1..4 |-> nb - Shift(nb)[row]]
RECURSIVE Backward(_, _, _)
Backward(blocks, sched, nr) ==
  LET added == AddRoundKey(Last(blocks), sched, Len(blocks) - 1)
      shift == Unshift(Len(added))
      next == Tuple([i \in DOMAIN added |-> MakeWord(Shifted(added, shift, i), D0, D1, D2, D3)])
  IN IF Len(blocks) = nr THEN added ELSE Backward(Append(blocks, next), sched, nr)
aes_decrypt(invsched, nr, block) ==
  LET before == Backward(<<block>>, invsched, nr)
      shift == Unshift(Len(block))
  IN AddRoundKey([i \in DOMAIN block |-> LastWord(Shifted(before, shift, i), Sboxinv)], invsched, nr)

Rounds_(nb, nk) == 6 + IF nb > nk THEN nb ELSE nk

\* The key itself, and what grows from its words.
keysched(nb, key) ==
  LET nk == Len(key) \div 4
      RECURSIVE Rconst(_), Grown(_)
      Rconst(n) == IF n = 1 THEN 1 ELSE mulby2(Rconst(n - 1))
      temp(words) ==
        LET i == Len(words)
            t == Last(words)
        IN CASE i % nk = 0 -> Xor(LastWord(<<t[2], t[3], t[4], t[1]>>, Sbox), <<Rconst(i \div nk), 0, 0, 0>>)
             [] i % nk = 4 /\ nk > 6 -> LastWord(t, Sbox)
             [] OTHER -> t
      Grown(words) ==
        IF Len(words) = (Rounds_(nb, nk) + 1) * nb THEN words
        ELSE Grown(Append(words, Xor(words[Len(words) - nk + 1], temp(words))))
  IN Grown(Blocks(key, 4))

\* The rounds backwards, with their columns unmixed but for the first and the last.
invkeysched(nb, nr, sched) ==
  Tuple([n \in 1..((nr + 1) * nb) |->
     LET i == (n - 1) \div nb
         temp == sched[(nr - i) * nb + ((n - 1) % nb) + 1]
     IN IF i \in {0, nr} THEN temp ELSE MakeWord(LastWord(temp, Sbox), D0, D1, D2, D3)])

\* A context, of a length of blocks and a key.
aes_setup(blocklen, key) ==
  LET nb == blocklen \div 4
      nr == Rounds_(nb, Len(key) \div 4)
      sched == keysched(nb, key)
  IN [nr |-> nr, keysched |-> sched, invkeysched |-> invkeysched(nb, nr, sched)]

Encrypted(ctx, data) == FlattenSeq(aes_encrypt(ctx.keysched, ctx.nr, Blocks(data, 4)))
Decrypted(ctx, data) == FlattenSeq(aes_decrypt(ctx.invkeysched, ctx.nr, Blocks(data, 4)))

\* The iv, and each block mixed with the one before it and encrypted.
RECURSIVE AesChain(_, _, _)
AesChain(done, ctx, blocks) ==
  IF Len(done) > Len(blocks) THEN done
  ELSE AesChain(Append(done, Encrypted(ctx, Xor(Last(done), blocks[Len(done)]))), ctx, blocks)

\* What is left of the iv, and the data.
aes_encrypt_cbc(ctx, iv, blk) ==
  LET done == AesChain(<<iv>>, ctx, Blocks(blk, 16))
  IN [iv |-> Last(done), blk |-> FlattenSeq(Tail(done))]
aes_decrypt_cbc(ctx, iv, blk) ==
  LET before == <<iv>> \o Blocks(blk, 16)
  IN [iv |-> Last(before),
      blk |-> FlattenSeq([i \in 1..(Len(before) - 1) |-> Xor(before[i], Decrypted(ctx, before[i + 1]))])]

\* One more, the last octet first.
RECURSIVE Counted(_)
Counted(iv) ==
  IF iv = <<>> THEN iv
  ELSE IF Last(iv) = 255 THEN Append(Counted(Front(iv)), 0) ELSE Append(Front(iv), Last(iv) + 1)
RECURSIVE Counters(_, _)
Counters(ivs, n) == IF Len(ivs) > n THEN ivs ELSE Counters(Append(ivs, Counted(Last(ivs))), n)
aes_sdctr(ctx, iv, blk) ==
  LET blocks == Blocks(blk, 16)
      ivs == Counters(<<iv>>, Len(blocks))
  IN [iv |-> Last(ivs), blk |-> FlattenSeq([i \in DOMAIN blocks |-> Xor(blocks[i], Encrypted(ctx, ivs[i]))])]

aes256_encrypt_pubkey(key, iv, blk) == aes_encrypt_cbc(aes_setup(16, SubSeq(key, 1, 32)), iv, blk).blk
aes256_decrypt_pubkey(key, iv, blk) == aes_decrypt_cbc(aes_setup(16, SubSeq(key, 1, 32)), iv, blk).blk

-----------------------------------------------------------------------------
(* DES.  A word is 32 bits here, the most significant first.                *)

WordBits(octets) ==
  Tuple([i \in 1..(8 * Len(octets)) |-> (octets[((i - 1) \div 8) + 1] \div 2^(7 - ((i - 1) % 8))) % 2])
RECURSIVE Number(_)
Number(bits) == IF bits = <<>> THEN 0 ELSE 2 * Number(Front(bits)) + Last(bits)
OctetsOf(bits) == [i \in 1..(Len(bits) \div 8) |-> Number(SubSeq(bits, 8 * i - 7, 8 * i))]
XorBits2(u, v) == Tuple([i \in DOMAIN u |-> (u[i] + v[i]) % 2])
rotl(x, c) == SubSeq(x, c + 1, Len(x)) \o SubSeq(x, 1, c)

PC1_Cbits == <<7, 15, 23, 31, 39, 47, 55, 63, 6, 14, 22, 30, 38, 46,
               54, 62, 5, 13, 21, 29, 37, 45, 53, 61, 4, 12, 20, 28>>
PC1_Dbits == <<1, 9, 17, 25, 33, 41, 49, 57, 2, 10, 18, 26, 34, 42,
               50, 58, 3, 11, 19, 27, 35, 43, 51, 59, 36, 44, 52, 60>>
PC2_0246 == <<49, 36, 59, 55, -1, -1, 37, 41, 48, 56, 34, 52, -1, -1, 15, 4,
              25, 19, 9, 1, -1, -1, 12, 7, 17, 0, 22, 3, -1, -1, 46, 43>>
PC2_1357 == <<-1, -1, 57, 32, 45, 54, 39, 50, -1, -1, 44, 53, 33, 40, 47, 58,
              -1, -1, 26, 16, 5, 11, 23, 8, -1, -1, 10, 14, 6, 20, 27, 24>>
RECURSIVE Sum(_)
Sum(s) == IF s = <<>> THEN 0 ELSE Head(s) + Sum(Tail(s))

leftshifts == <<1, 1, 2, 2, 2, 2, 2, 2, 1, 2, 2, 2, 2, 2, 2, 1>>
Turned(half, round) == rotl(half, Sum(SubSeq(leftshifts, 1, round)) % 28)

\* Of two words; -1 is a bit that is 0.
bitsel(bits, nums) == Tuple([k \in DOMAIN nums |-> IF nums[k] < 0 THEN 0 ELSE bits[Len(bits) - nums[k]]])

\* The two halves turn, and each round takes of them what it needs.
des_key_setup(key) ==
  LET bits == WordBits(key)
      Halves(round) == <<0, 0, 0, 0>> \o Turned(bitsel(bits, PC1_Cbits), round)
                         \o <<0, 0, 0, 0>> \o Turned(bitsel(bits, PC1_Dbits), round)
  IN Tuple([round \in 1..16 |-> [k0246 |-> bitsel(Halves(round), PC2_0246),
                           k1357 |-> bitsel(Halves(round), PC2_1357)]])

\* The S-boxes with the permutation behind them: an entry has one of two values in
\* each of four bits.
SPbits == <<<<24, 16, 10, 2>>, <<31, 20, 15, 5>>, <<27, 17, 9, 3>>, <<23, 13, 7, 0>>,
            <<30, 25, 19, 8>>, <<29, 22, 14, 4>>, <<26, 21, 11, 1>>, <<28, 18, 12, 6>>>>
SPnibbles == <<
  <<14, 0, 4, 15, 13, 7, 1, 4, 2, 14, 15, 2, 11, 13, 8, 1, 3, 10, 10, 6, 6, 12, 12, 11, 5, 9, 9, 5, 0, 3, 7, 8,
    4, 15, 1, 12, 14, 8, 8, 2, 13, 4, 6, 9, 2, 1, 11, 7, 15, 5, 12, 11, 9, 3, 7, 14, 3, 10, 10, 0, 5, 6, 0, 13>>,
  <<15, 10, 2, 7, 4, 1, 13, 11, 9, 15, 14, 8, 10, 4, 1, 13, 6, 5, 11, 0, 8, 2, 7, 12, 5, 9, 0, 6, 3, 14, 12, 3,
    0, 7, 13, 4, 11, 12, 14, 2, 12, 10, 1, 15, 7, 1, 2, 8, 3, 14, 4, 9, 5, 11, 9, 5, 6, 0, 10, 3, 8, 13, 15, 6>>,
  <<3, 14, 0, 13, 10, 0, 7, 10, 5, 9, 9, 4, 15, 5, 12, 3, 8, 1, 14, 2, 6, 12, 13, 7, 11, 6, 4, 11, 1, 15, 2, 8,
    14, 8, 5, 3, 4, 14, 10, 0, 2, 5, 15, 10, 9, 2, 0, 13, 11, 4, 8, 15, 1, 7, 6, 9, 12, 11, 3, 12, 7, 1, 13, 6>>,
  <<13, 7, 7, 2, 14, 11, 9, 5, 0, 12, 12, 15, 3, 0, 10, 9, 1, 4, 8, 13, 2, 8, 5, 6, 11, 1, 6, 10, 4, 14, 15, 3,
    10, 9, 12, 15, 3, 0, 0, 12, 6, 10, 11, 1, 13, 7, 7, 2, 15, 3, 1, 4, 9, 5, 14, 11, 5, 6, 8, 13, 2, 8, 4, 14>>,
  <<1, 7, 6, 13, 2, 1, 8, 6, 11, 2, 5, 11, 13, 14, 3, 8, 4, 10, 10, 0, 9, 15, 15, 5, 14, 9, 0, 12, 7, 4, 12, 3,
    2, 13, 1, 4, 8, 6, 13, 11, 5, 8, 14, 7, 11, 1, 4, 14, 15, 3, 12, 15, 6, 0, 10, 12, 3, 5, 9, 2, 0, 10, 7, 9>>,
  <<9, 12, 2, 15, 12, 1, 15, 4, 10, 7, 4, 9, 5, 10, 8, 3, 0, 5, 11, 2, 6, 11, 1, 13, 13, 0, 7, 14, 3, 6, 14, 8,
    10, 1, 13, 6, 15, 4, 3, 9, 4, 10, 8, 3, 9, 15, 6, 12, 7, 14, 0, 13, 1, 2, 12, 7, 2, 5, 11, 0, 14, 8, 5, 11>>,
  <<4, 13, 11, 0, 2, 11, 7, 14, 15, 4, 0, 9, 1, 8, 13, 3, 10, 7, 5, 10, 9, 12, 14, 5, 12, 2, 3, 15, 6, 1, 8, 6,
    8, 6, 4, 11, 11, 13, 13, 1, 5, 8, 10, 4, 14, 3, 7, 14, 3, 9, 15, 12, 6, 0, 1, 15, 0, 7, 12, 2, 9, 10, 2, 5>>,
  <<11, 2, 4, 15, 8, 11, 1, 8, 5, 12, 15, 6, 14, 7, 2, 1, 12, 9, 10, 3, 6, 5, 13, 14, 3, 0, 0, 13, 9, 10, 7, 4,
    7, 4, 14, 2, 1, 13, 2, 7, 10, 1, 9, 12, 13, 8, 4, 11, 0, 15, 5, 9, 12, 10, 11, 0, 15, 6, 6, 3, 3, 5, 8, 14>>>>

\* For each bit of a word the box it comes from and which of the four.
SPsource ==
  Tuple([i \in 1..32 |-> CHOOSE at \in (1..8) \X (1..4) : SPbits[at[1]][at[2]] = 32 - i])

\* Even boxes look at one of the words, turned, and odd ones at the other.
f(R, key) ==
  LET s0246 == rotl(XorBits2(R, key.k0246), 28)
      s1357 == XorBits2(R, key.k1357)
      From(b) == LET s == IF b % 2 = 1 THEN s0246 ELSE s1357
                     at == 8 * ((b - 1) \div 2)
                 IN Number(SubSeq(s, at + 3, at + 8))
      nibbles == Tuple([b \in 1..8 |-> SPnibbles[b][From(b) + 1]])
  IN Tuple([i \in 1..32 |-> (nibbles[SPsource[i][1]] \div 2^(4 - SPsource[i][2])) % 2])

\* The bits of L where n bits further up the mask has none, and those bits of R: each
\* takes the other's place.
bitswap(pair, n) ==
  LET L == pair[1]
      R == pair[2]
      Low(i) == (32 - i) % (2 * n) < n
  IN <<Tuple([i \in 1..32 |-> IF Low(i) THEN R[i - n] ELSE L[i]]),
       Tuple([i \in 1..32 |-> IF Low(i) THEN R[i] ELSE L[i + n]])>>
Swapped(pair) == <<pair[2], pair[1]>>
BitswapRL(pair, n) == Swapped(bitswap(Swapped(pair), n))

IP(pair) == BitswapRL(bitswap(bitswap(BitswapRL(BitswapRL(pair, 4), 16), 2), 8), 1)
FP(pair) == BitswapRL(BitswapRL(bitswap(bitswap(BitswapRL(pair, 1), 8), 2), 16), 4)

\* The pairs of a block, before the first round and after each.
RECURSIVE Rounds(_, _)
Rounds(pairs, keys) ==
  LET pair == Last(pairs)
      next == <<pair[2], XorBits2(pair[1], f(pair[2], keys[Len(pairs)]))>>
  IN IF Len(pairs) > Len(keys) THEN pair ELSE Rounds(Append(pairs, next), keys)

\* Sixteen rounds with the keys in this order.
Enciphered(block, keys) ==
  LET bits == WordBits(block)
      start == IP(<<SubSeq(bits, 1, 32), SubSeq(bits, 33, 64)>>)
      end == Rounds(<<<<rotl(start[1], 1), rotl(start[2], 1)>>>>, keys)
      back == FP(Swapped(<<rotl(end[1], 31), rotl(end[2], 31)>>))
  IN OctetsOf(back[1] \o back[2])
des_encipher(block, sched) == Enciphered(block, sched)
des_decipher(block, sched) == Enciphered(block, Tuple(Reverse(sched)))

\* One cipher, or three of which the second goes the other way; and all of it back.
RECURSIVE Through(_, _)
Through(blocks, steps) ==
  IF Len(blocks) > Len(steps) THEN Last(blocks)
  ELSE Through(Append(blocks, Enciphered(Last(blocks), steps[Len(blocks)])), steps)
Back(sched) == Tuple(Reverse(sched))
Turns(scheds) == Tuple([i \in DOMAIN scheds |-> IF i = 2 THEN Back(scheds[i]) ELSE scheds[i]])
Tripled(block, scheds) == Through(<<block>>, Turns(scheds))
Untripled(block, scheds) == Through(<<block>>, Back([i \in DOMAIN scheds |-> Back(Turns(scheds)[i])]))

RECURSIVE DesChain(_, _, _)
DesChain(done, scheds, blocks) ==
  IF Len(done) > Len(blocks) THEN done
  ELSE DesChain(Append(done, Tripled(Xor(Last(done), blocks[Len(done)]), scheds)), scheds, blocks)

\* In one chain: what is left of the iv, and the data.
des_cbc3_encrypt(scheds, iv, blk) ==
  LET done == DesChain(<<iv>>, scheds, Blocks(blk, 8))
  IN [iv |-> Last(done), blk |-> FlattenSeq(Tail(done))]
des_cbc3_decrypt(scheds, iv, blk) ==
  LET before == <<iv>> \o Blocks(blk, 8)
  IN [iv |-> Last(before),
      blk |-> FlattenSeq([i \in 1..(Len(before) - 1) |-> Xor(before[i], Untripled(before[i + 1], scheds))])]
des_cbc_encrypt(sched, iv, blk) == des_cbc3_encrypt(<<sched>>, iv, blk)
des_cbc_decrypt(sched, iv, blk) == des_cbc3_decrypt(<<sched>>, iv, blk)

\* Three chains, as SSH-1 has them, which start with zeros.
NoIv == <<0, 0, 0, 0, 0, 0, 0, 0>>
des_3cbc_encrypt(scheds, blk) ==
  des_cbc_encrypt(scheds[3], NoIv,
    des_cbc_decrypt(scheds[2], NoIv, des_cbc_encrypt(scheds[1], NoIv, blk).blk).blk).blk
des_3cbc_decrypt(scheds, blk) ==
  des_cbc_decrypt(scheds[1], NoIv,
    des_cbc_encrypt(scheds[2], NoIv, des_cbc_decrypt(scheds[3], NoIv, blk).blk).blk).blk

des3_key(key) == Tuple([i \in 1..3 |-> des_key_setup(SubSeq(key, 8 * i - 7, 8 * i))])
TwoKeys(key) == LET s == [i \in 1..2 |-> des_key_setup(SubSeq(key, 8 * i - 7, 8 * i))] IN <<s[1], s[2], s[1]>>

des3_encrypt_pubkey(key, blk) == des_3cbc_encrypt(TwoKeys(key), blk)
des3_decrypt_pubkey(key, blk) == des_3cbc_decrypt(TwoKeys(key), blk)
des3_encrypt_pubkey_ossh(key, iv, blk) == des_cbc3_encrypt(des3_key(key), iv, blk).blk
des3_decrypt_pubkey_ossh(key, iv, blk) == des_cbc3_decrypt(des3_key(key), iv, blk).blk

-----------------------------------------------------------------------------
(* What they promise.                                                        *)

\* What FIPS-197 and FIPS-46 have as examples.
Count(n) == [i \in 1..n |-> i - 1]
AesExample == [i \in 1..16 |-> 17 * (i - 1)]
AesExamples ==
  /\ Encrypted(aes_setup(16, Count(16)), AesExample) =
       <<105, 196, 224, 216, 106, 123, 4, 48, 216, 205, 183, 128, 112, 180, 197, 90>>
  /\ Encrypted(aes_setup(16, Count(24)), AesExample) =
       <<221, 169, 124, 164, 134, 76, 223, 224, 110, 175, 112, 160, 236, 13, 113, 145>>
  /\ Encrypted(aes_setup(16, Count(32)), AesExample) =
       <<142, 162, 183, 202, 81, 103, 69, 191, 234, 252, 73, 144, 75, 73, 96, 137>>
DesExample ==
  des_encipher(<<1, 35, 69, 103, 137, 171, 205, 239>>,
               des_key_setup(<<19, 52, 87, 121, 155, 188, 223, 241>>)) =
    <<133, 232, 19, 84, 15, 10, 180, 5>>
Examples == AesExamples /\ DesExample

\* Whatever the sizes of the key and of the block, a block comes back.
AesComesBack(blocklen, key, data) ==
  LET ctx == aes_setup(blocklen, key)
  IN Decrypted(ctx, Encrypted(ctx, data)) = data /\ Encrypted(ctx, Decrypted(ctx, data)) = data

\* Data come back from a chain, in one piece or with the iv that is left from an
\* earlier one; a counter takes its own way back.
ChainsComeBack(key, iv, data) ==
  LET ctx == aes_setup(16, key)
      blk == Pad(data, 16)
      n == 16 * (Len(blk) \div 32)
      whole == aes_encrypt_cbc(ctx, iv, blk)
      first == aes_decrypt_cbc(ctx, iv, SubSeq(whole.blk, 1, n))
      second == aes_decrypt_cbc(ctx, first.iv, SubSeq(whole.blk, n + 1, Len(blk)))
      counted == aes_sdctr(ctx, iv, SubSeq(blk, 1, n))
      all == aes_sdctr(ctx, iv, blk)
  IN /\ first.blk \o second.blk = blk
     /\ second.iv = whole.iv
     /\ all.blk = counted.blk \o aes_sdctr(ctx, counted.iv, SubSeq(blk, n + 1, Len(blk))).blk
     /\ aes_sdctr(ctx, iv, all.blk).blk = blk
     /\ LET key24 == SubSeq(key, 1, 24)
            iv8 == SubSeq(iv, 1, 8)
            blk8 == Pad(data, 8)
            once == des_cbc_encrypt(des_key_setup(SubSeq(key, 1, 8)), iv8, blk8)
        IN /\ des_cbc_decrypt(des_key_setup(SubSeq(key, 1, 8)), iv8, once.blk).blk = blk8
           /\ des3_decrypt_pubkey_ossh(key24, iv8, des3_encrypt_pubkey_ossh(key24, iv8, blk8)) = blk8
           /\ des3_decrypt_pubkey(key24, des3_encrypt_pubkey(key24, blk8)) = blk8
           \* With one key three times, three are as good as one.
           /\ LET same == SubSeq(key, 1, 8) \o SubSeq(key, 1, 8) \o SubSeq(key, 1, 8)
              IN des3_encrypt_pubkey_ossh(same, iv8, blk8) = des_cbc_encrypt(des_key_setup(SubSeq(key, 1, 8)), iv8, blk8).blk
=============================================================================
