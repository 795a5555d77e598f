------------------------------- MODULE Bignum -------------------------------
(***************************************************************************)
(* The arithmetic under every signature (sshbn.c): numbers as sequences of *)
(* words, the least significant first, where the code has its internal     *)
(* arrays the other way round.  Words are W bits wide, so that carries,    *)
(* truncations and estimates are those of the code in a small world.       *)
(*                                                                         *)
(* Every operator is the algorithm of the function it is named after;      *)
(* Value() says what number a sequence stands for, and the properties      *)
(* compare the two.                                                        *)
(***************************************************************************)
EXTENDS Integers, Sequences, SequencesExt, Bitwise

CONSTANTS
  W,          \* BIGNUM_INT_BITS, a power of two
  Octet,      \* the bits of a byte, of which W is a multiple
  Threshold   \* KARATSUBA_THRESHOLD

Base == 2^W
Word == 0..(Base - 1)
Top == Base \div 2

Value(x) == FoldRight(LAMBDA word, high : word + Base * high, x, 0)

Zeros(n) == [i \in 1..n |-> 0]
Inverted(x) == [i \in DOMAIN x |-> Base - 1 - x[i]]
At(x, i) == IF i \in DOMAIN x THEN x[i] ELSE 0
Padded(x, n) == [i \in 1..n |-> At(x, i)]
Larger(m, n) == IF m > n THEN m ELSE n

\* Half a double word.
Hi(n) == n \div Base
Lo(n) == n % Base

RECURSIVE Trim(_, _)
Trim(x, least) == IF Len(x) > least /\ Last(x) = 0 THEN Trim(Front(x), least) ELSE x

\* INVARIANT: the most significant word is not zero.
bn_restore_invariant(x) == Trim(x, 1)

-----------------------------------------------------------------------------
(* Arrays of one length.                                                    *)

\* A run of BignumADC over a and b: the words, and the carry behind them.
RECURSIVE Adc(_, _, _)
Adc(a, b, carry) ==
  IF a = <<>> THEN <<carry>>
  ELSE LET sum == Head(a) + Head(b) + carry
       IN <<Lo(sum)>> \o Adc(Tail(a), Tail(b), Hi(sum))

internal_add(a, b) == Adc(a, b, 0)

internal_sub(a, b) == Front(Adc(a, Inverted(b), 1))

\* A run of BignumMULADD2 that adds word * b to c, one word longer than b.
RECURSIVE MulAdd(_, _, _, _)
MulAdd(c, word, b, carry) ==
  IF b = <<>> THEN <<carry>>
  ELSE LET sum == word * Head(b) + Head(c) + carry
       IN <<Lo(sum)>> \o MulAdd(Tail(c), word, Tail(b), Hi(sum))

RECURSIVE Long(_, _, _)
Long(c, a, b) ==
  IF a = <<>> THEN c
  ELSE LET row == MulAdd(c, Head(a), b, 0)
       IN <<Head(row)>> \o Long(Tail(row), Tail(a), b)

\* Mutant of Propagate: the carry stops at the first word.
PropagateOnce(x, carry) ==
  IF x = <<>> THEN x ELSE <<Lo(Head(x) + carry)>> \o Tail(x)

\* while (carry) in internal_mul(); it never gets past the last word.
RECURSIVE Propagate(_, _)
Propagate(x, carry) ==
  IF carry = 0 \/ x = <<>> THEN x
  ELSE <<Lo(Head(x) + carry)>> \o Propagate(Tail(x), Hi(Head(x) + carry))

\* Twice as many words as a and b have.  A long number is cut in two, and three
\* products of halves make the four that are needed: the middle one is that of
\* the sums less the outer two.
RECURSIVE internal_mul(_, _)
internal_mul(a, b) ==
  LET len == Len(a)
      toplen == len \div 2
      botlen == len - toplen
      midlen == botlen + 1
      Bottom(x) == SubSeq(x, 1, botlen)
      Upper(x) == SubSeq(x, botlen + 1, len)
      Halves(x) == internal_add(Padded(Upper(x), botlen), Bottom(x))
      low == internal_mul(Bottom(a), Bottom(b))
      high == internal_mul(Upper(a), Upper(b))
      outer == Append(internal_add(Padded(high, 2 * botlen), low), 0)
      middle == internal_sub(internal_mul(Halves(a), Halves(b)), outer)
      c == low \o high
      end == botlen + 2 * midlen
      sum == internal_add(SubSeq(c, botlen + 1, end), middle)
  IN IF len > Threshold
     THEN SubSeq(c, 1, botlen) \o Front(sum) \o Propagate(SubSeq(c, end + 1, 2 * len), Last(sum))
     ELSE Long(Zeros(len), a, b)

\* The lower half of the product alone.
RECURSIVE internal_mul_low(_, _)
internal_mul_low(a, b) ==
  LET len == Len(a)
      toplen == len \div 2
      botlen == len - toplen
      Bottom(x, n) == SubSeq(x, 1, n)
      Upper(x) == SubSeq(x, botlen + 1, len)
      low == internal_mul(Bottom(a, botlen), Bottom(b, botlen))
      small == Front(internal_add(internal_mul_low(Upper(a), Bottom(b, toplen)),
                                  internal_mul_low(Bottom(a, toplen), Upper(b))))
      RECURSIVE Rows(_, _, _)
      Rows(c, x, y) ==
        IF x = <<>> THEN <<>>
        ELSE LET row == MulAdd(c, Head(x), y, 0)
             IN <<Head(row)>> \o Rows(SubSeq(row, 2, Len(x)), Tail(x), Bottom(y, Len(x) - 1))
  IN IF len > Threshold
     THEN Bottom(low, botlen)
            \o Front(internal_add(small, SubSeq(low, botlen + 1, botlen + toplen)))
     ELSE Rows(Zeros(len), a, b)

\* Compared from the most significant word down: -1, 0 or 1.
Compare(x, y) ==
  LET differ == {i \in DOMAIN x : x[i] # y[i]}
      i == CHOOSE k \in differ : \A l \in differ : l <= k
  IN IF differ = {} THEN 0 ELSE IF x[i] < y[i] THEN -1 ELSE 1

\* x / r mod n, for r the least power of Base that n is less than.
monty_reduce(x, n, mninv) ==
  LET len == Len(n)
      m == internal_mul_low(SubSeq(x, 1, len), mninv)
      sum == internal_add(x, internal_mul(m, n))
      t == SubSeq(sum, len + 1, 2 * len)
  IN IF Last(sum) # 0 \/ Compare(t, n) >= 0 THEN internal_sub(t, n) ELSE t

-----------------------------------------------------------------------------
(* Division.                                                                *)

\* number + n * 2^shift, in the words there are: an assertion says that nothing
\* is lost.
internal_add_shifted(number, n, shift) ==
  LET word == shift \div W
      addend == n * 2^(shift % W)
      shifted == [i \in DOMAIN number |->
                    IF i = word + 1 THEN Lo(addend) ELSE IF i = word + 2 THEN Hi(addend) ELSE 0]
      sum == internal_add(number, shifted)
  IN [words |-> Front(sum),
      fits |-> Last(sum) = 0 /\ word < Len(number) /\ (Hi(addend) = 0 \/ word + 1 < Len(number))]

\* Halves the step as the code does.
bn_clz(x) ==
  LET RECURSIVE Clz(_, _)
      Clz(y, i) == IF i = 0 THEN 0
                   ELSE IF y \div 2^(W - i) = 0 THEN i + Clz(Lo(y * 2^i), i \div 2)
                   ELSE Clz(y, i \div 2)
  IN Clz(x, W \div 2)

\* Less than 1 / (d + 1) by as little as a word can say, for d with its top bit:
\* half a word by division, one step of Newton's, and corrections.
reciprocal_word(d) ==
  LET half == W \div 2
      dshort == d \div 2^half + 1
      first == Lo(((Top + dshort - 1) \div dshort) * 2^(W - half))
      square == Base * Base
      error == (square - ((first * d + first) % square)) % square
      prod == Hi(error) * first
      better == Lo(Hi(prod) * 2 + Lo(prod) \div Top)
      RECURSIVE Down(_, _)
      Down(r, p) == IF Hi(p) >= Top THEN Down(r - 1, p - d) ELSE r
      RECURSIVE Up(_, _)
      Up(r, p) == IF Hi(p + d) >= Top THEN r ELSE Up(r + 1, p + d)
      p0 == better * d + better
  IN Lo(IF Hi(p0) >= Top THEN Down(better, p0) ELSE Up(better, p0))

\* The shift that normalises a modulus, and the reciprocal of its top word.
Normal(m) ==
  LET rshift == bn_clz(Last(m))
      m0 == Lo(Last(m) * 2^rshift) + At(m, Len(m) - 1) \div 2^(W - rshift)
  IN [rshift |-> rshift, recip |-> reciprocal_word(m0)]

\* (q * m) * 2^bit, cut to n words.
Multiple(m, q, bit, n) ==
  LET product == SubSeq(MulAdd(Zeros(n), q, Padded(m, n), 0), 1, n)
  IN [i \in 1..n |-> Lo(product[i] * 2^bit) + At(product, i - 1) \div 2^(W - bit)]

\* One last copy of m may be left in a.
Fixup(a, m, quot) ==
  IF Compare(a, Padded(m, Len(a))) < 0
  THEN [rest |-> a, quot |-> quot, fits |-> TRUE]
  ELSE LET more == internal_add_shifted(quot, 1, 0)
       IN [rest |-> internal_sub(a, Padded(m, Len(a))), quot |-> more.words, fits |-> more.fits]

\* a divided by m.  Each round estimates a word of quotient from the top bits of
\* what is left and the reciprocal, too small if anything, and takes that many
\* copies of m away, in the words of a that are not yet zero.
internal_mod(a0, m, quot0) ==
  LET mlen == Len(m)
      norm == Normal(m)
      RECURSIVE Round(_, _, _)
      Round(a, top, quot) ==    \* top: how many words of a are left
        IF top < mlen THEN Fixup(a, m, quot)
        ELSE IF a[top] = 0 THEN Round(a, top - 1, quot)
        ELSE LET shift == bn_clz(a[top])
                 aword == Lo(a[top] * 2^shift) + At(a, top - 1) \div 2^(W - shift)
                 estimate == Hi(norm.recip * aword)
                 offset == (top - mlen - 1) * W - shift + norm.rshift + 1
                 q == IF offset >= 0 THEN estimate
                      ELSE IF offset <= -W THEN 0 ELSE estimate \div 2^(-offset)
                 bits == Larger(offset, 0)
                 low == bits \div W
                 rest == internal_sub(SubSeq(a, low + 1, top), Multiple(m, q, bits % W, top - low))
                 more == internal_add_shifted(quot, q, bits)
             IN IF offset < 0 /\ q = 0 THEN Fixup(a, m, quot)
                ELSE LET all == SubSeq(a, 1, low) \o rest \o SubSeq(a, top + 1, Len(a))
                         done == Round(all, top, more.words)
                     IN [done EXCEPT !.fits = @ /\ more.fits]
  IN Round(a0, Len(a0), quot0)

\* The remainder in as many words as there is room for, and the quotient.
bigdivmod(p, mod, quotient) ==
  internal_mod(Padded(p, Larger(Len(p), Len(mod) + 1)), mod, quotient)

bigdiv(a, b) == Trim(bigdivmod(a, b, Zeros(Len(a))).quot, 1)

\* Without a quotient; there is room for one here, that nobody looks at.
bigmod(a, b) ==
  Trim(Padded(bigdivmod(a, b, Zeros(Len(a) + 1)).rest, Len(b)), 1)

-----------------------------------------------------------------------------
(* Numbers of any length.                                                   *)

\* There are two representations of zero.
bignum_cmp(a, b) ==
  LET n == Larger(Len(a), Len(b)) IN Compare(Padded(a, n), Padded(b, n))

bigadd(a, b) ==
  LET n == Larger(Len(a), Len(b)) + 1
  IN Trim(Front(internal_add(Padded(a, n), Padded(b, n))), 0)

NoNumber == <<-1>>

\* NULL when the result would be negative.
bigsub(a, b) ==
  LET n == Larger(Len(a), Len(b))
      all == Adc(Padded(a, n), Inverted(Padded(b, n)), 1)
  IN IF Last(all) = 0 THEN NoNumber ELSE Trim(Front(all), 0)

bigmuladd(a, b, addend) ==
  LET mlen == Larger(Len(a), Len(b))
      product == internal_mul(Padded(a, mlen), Padded(b, mlen))
      rlen == Larger(Len(a) + Len(b) + 1, Len(addend) + 1)
  IN Trim(Front(internal_add(Padded(product, rlen), Padded(addend, rlen))), 0)

bigmul(a, b) == bigmuladd(a, b, <<>>)

\* The words of mod, or fewer, hold the remainder.
modmul(p, q, mod) ==
  LET most == Larger(Len(p), Len(q))
      pqlen == IF 2 * most <= Len(mod) THEN Len(mod) \div 2 + 1 ELSE most
      a == internal_mul(Padded(p, pqlen), Padded(q, pqlen))
      rest == internal_mod(a, mod, Zeros(2 * pqlen)).rest
  IN Trim(Padded(rest, IF Len(mod) < 2 * pqlen THEN Len(mod) ELSE 2 * pqlen), 1)

modsub(a, b, n) ==
  LET a1 == IF bignum_cmp(a, n) >= 0 THEN bigmod(a, n) ELSE a
      b1 == IF bignum_cmp(b, n) >= 0 THEN bigmod(b, n) ELSE b
  IN IF bignum_cmp(a1, b1) >= 0 THEN bigsub(a1, b1) ELSE bigadd(bigsub(n, b1), a1)

RECURSIVE biggcd(_, _)
biggcd(a, b) ==
  IF bignum_cmp(b, <<>>) = 0 THEN a
  ELSE biggcd(b, Trim(Padded(bigdivmod(a, b, Zeros(Len(a) + 1)).rest, Len(b)), 1))

\* newx = modulus - x, by a borrow that looks at its words after the fact.
Negated(x, modulus) ==
  LET RECURSIVE Minus(_, _)
      Minus(i, carry) ==
        IF i > Len(modulus) THEN <<>>
        ELSE LET bword == At(x, i)
                 word == Lo(modulus[i] - bword - carry)
                 not == Base - 1 - bword
                 more == IF carry = 1 THEN word >= not ELSE word > not
             IN <<word>> \o Minus(i + 1, IF more THEN 1 ELSE 0)
  IN Trim(Minus(1, 0), 1)

\* Euclid's extended algorithm, with the sign of x apart; NULL for numbers with a
\* common factor.
modinv(number, modulus) ==
  LET RECURSIVE Euclid(_, _, _, _, _)
      Euclid(a, b, xp, x, sign) ==
        IF bignum_cmp(b, <<1>>) = 0 THEN IF sign < 0 THEN Negated(x, modulus) ELSE x
        ELSE IF bignum_cmp(b, <<>>) = 0 THEN NoNumber
        ELSE LET div == bigdivmod(a, b, Zeros(Len(a)))
             IN Euclid(b, Trim(Padded(div.rest, Len(b)), 1), x,
                       bigmuladd(Trim(div.quot, 1), x, xp), -sign)
  IN Euclid(modulus, number, <<>>, <<1>>, 1)

bignum_bitcount(x) ==
  LET RECURSIVE Count(_)
      Count(n) == IF n = 0 THEN 0
                  ELSE IF x[(n - 1) \div W + 1] \div 2^((n - 1) % W) # 0 THEN n ELSE Count(n - 1)
  IN Count(Len(x) * W)

bignum_bit(x, i) ==
  IF i < 0 \/ i >= W * Len(x) THEN 0 ELSE (x[i \div W + 1] \div 2^(i % W)) % 2

bignum_set_bit(x, i, value) ==
  [x EXCEPT ![i \div W + 1] = @ + (value - bignum_bit(x, i)) * 2^(i % W)]

bn_power_2(n) == bignum_set_bit(Zeros(n \div W + 1), n, 1)

\* Square and multiply over the bits of exp from its highest on.
Power(exp, one, Square(_), Multiply(_)) ==
  LET RECURSIVE Bits(_, _)
      Bits(a, i) ==
        IF i < 0 THEN a
        ELSE Bits(IF bignum_bit(exp, i) = 1 THEN Multiply(Square(a)) ELSE Square(a), i - 1)
  IN Bits(one, bignum_bitcount(exp) - 1)

modpow_simple(base, exp, mod) ==
  LET n == Padded(bigmod(base, mod), Len(mod))
      Reduce(x) == SubSeq(internal_mod(x, mod, Zeros(Len(x))).rest, 1, Len(mod))
      Square(a) == Reduce(internal_mul(a, a))
      Multiply(a) == Reduce(internal_mul(a, n))
  IN Trim(Power(exp, Padded(<<1>>, Len(mod)), Square, Multiply), 1)

\* By Montgomery's multiplication for an odd modulus.
modpow(base, exp, mod) ==
  LET len == Len(mod)
      r == bn_power_2(W * len)
      mninv == internal_sub(Zeros(len), Padded(modinv(mod, r), len))
      x == Padded(modmul(bigmod(base, mod), r, mod), len)
      Square(a) == monty_reduce(internal_mul(a, a), mod, mninv)
      Multiply(a) == monty_reduce(internal_mul(a, x), mod, mninv)
      power == Power(exp, Padded(bigmod(r, mod), len), Square, Multiply)
  IN IF mod[1] % 2 = 0 THEN modpow_simple(base, exp, mod)
     ELSE Trim(monty_reduce(power \o Zeros(len), mod, mninv), 1)

-----------------------------------------------------------------------------
(* Shifts and small numbers.                                                *)

\* When the shift is by whole words, the code shifts a word by all its bits: what
\* that gives is up to the machine, nothing or the word as it is.
bignum_rshift(a, shift) ==
  LET n == (bignum_bitcount(a) - shift + W - 1) \div W
      shiftb == shift % W
      Right(whole) ==
        [i \in 1..n |->
           LET ai == At(a, i + shift \div W)
               ai1 == At(a, i + shift \div W + 1)
           IN IF shiftb # 0 THEN ai \div 2^shiftb + Lo(ai1 * 2^(W - shiftb))
              ELSE IF whole THEN ai | ai1 ELSE ai]
  IN {Right(TRUE), Right(FALSE)}

bignum_lshift(a, shift) ==
  LET words == shift \div W
      bits == shift % W
  IN [i \in 1..((bignum_bitcount(a) + shift + W - 1) \div W) |->
        IF i <= words THEN 0
        ELSE Lo(At(a, i - words) * 2^bits) + At(a, i - words - 1) \div 2^(W - bits)]

\* The mask of all the bits up to the highest.
bignum_bitmask(n) ==
  LET x == Trim(n, 0)
      RECURSIVE Mask(_)
      Mask(j) == IF j < Last(x) THEN Mask(2 * j + 1) ELSE j
  IN IF x = <<>> THEN n
     ELSE [i \in DOMAIN n |-> IF i < Len(x) THEN Base - 1 ELSE IF i = Len(x) THEN Mask(1) ELSE n[i]]

\* Of a number that is not zero.
decbn(x) ==
  LET RECURSIVE Borrow(_)
      Borrow(y) == IF Head(y) = 0 /\ Len(y) > 1 THEN <<Base - 1>> \o Borrow(Tail(y))
                   ELSE <<Head(y) - 1>> \o Tail(y)
  IN Borrow(x)

\* An unsigned long of so many words.
LongWords(n, words) == [i \in 1..words |-> Lo(n \div Base^(i - 1))]

bignum_from_long(n, words) == Trim(LongWords(n, words), 0)

bignum_add_long(number, n, words) ==
  LET len == Larger(Len(number), words) + 1
  IN Trim(Front(internal_add(Padded(number, len), Padded(LongWords(n, words), len))), 0)

bignum_mod_short(number, modulus) ==
  LET base_r == (Base - 1 - modulus + 1) % modulus
  IN FoldRight(LAMBDA word, r : (r * base_r + (word % modulus)) % modulus, number, 0)

-----------------------------------------------------------------------------
(* Bytes, and digits.                                                       *)

Bytes == W \div Octet

\* From the most significant byte on.
bignum_from_bytes(data) ==
  LET n == Len(data)
      Byte(i) == IF i < n THEN data[n - i] ELSE 0
      Words(i) == FoldRight(LAMBDA k, high : Byte((i - 1) * Bytes + k) + 2^Octet * high,
                            [k \in 1..Bytes |-> k - 1], 0)
  IN bn_restore_invariant([i \in 1..((n + Bytes - 1) \div Bytes) |-> Words(i)])

bignum_from_bytes_le(data) == bignum_from_bytes(Reverse(data))

bignum_byte(x, i) ==
  IF i < 0 \/ i >= Bytes * Len(x) THEN 0
  ELSE (x[i \div Bytes + 1] \div 2^((i % Bytes) * Octet)) % 2^Octet

\* The last n bytes, the most significant first.
BytesOf(x, n) == [i \in 1..n |-> bignum_byte(x, n - i)]

ssh1_bignum_length(x) == 2 + (bignum_bitcount(x) + Octet - 1) \div Octet

\* One byte more when the highest bit would be taken for a sign.
ssh2_bignum_length(x) == 4 + (bignum_bitcount(x) + Octet) \div Octet

\* A bit count (in two bytes, that are one here), and the bytes; NULL when they
\* are not all there.
ssh1_write_bignum(x) == <<bignum_bitcount(x)>> \o BytesOf(x, ssh1_bignum_length(x) - 2)

ssh1_read_bignum(data) ==
  IF data = <<>> THEN NoNumber
  ELSE LET b == (Head(data) + Octet - 1) \div Octet
       IN IF Len(data) < b + 1 THEN NoNumber ELSE bignum_from_bytes(SubSeq(data, 2, b + 1))

bignum_from_decimal(digits) ==
  FoldLeft(LAMBDA x, digit : bigadd(bigmul(x, <<10>>), bignum_from_long(digit, 1)), <<>>, digits)

\* One pass of short division by ten, in pieces of a word: the quotient and the
\* digit.
ByTen(x) ==
  LET RECURSIVE Pass(_, _)
      Pass(i, carry) ==
        IF i = 0 THEN [words |-> <<>>, digit |-> carry]
        ELSE LET r == (x[i] % 10) + carry * ((Base - 1 - 9) % 10)
                 q == x[i] \div 10 + carry * ((Base - 1 - 9) \div 10 + 1) + r \div 10
                 below == Pass(i - 1, r % 10)
             IN [below EXCEPT !.words = Append(@, q)]
  IN Pass(Len(x), 0)

RECURSIVE bignum_decimal(_)
bignum_decimal(x) ==
  LET pass == ByTen(x)
  IN (IF Trim(pass.words, 0) = <<>> THEN <<>> ELSE bignum_decimal(pass.words)) \o <<pass.digit>>

-----------------------------------------------------------------------------
(* What the algorithms promise: the number they compute is the one that the  *)
(* integers have.                                                            *)

Number(n) == bignum_from_long(n, 8)

\* A long product has the words of the schoolbook's, however it is cut up.
MultipliesExactly(x, y) ==
  /\ internal_mul(x, y) = Long(Zeros(Len(x)), x, y)
  /\ internal_mul_low(x, y) = SubSeq(Long(Zeros(Len(x)), x, y), 1, Len(x))

\* Quotient and remainder are right, and no step loses a carry.
DividesExactly(a, b) ==
  LET div == bigdivmod(Number(a), Number(b), Zeros(Len(Number(a))))
  IN /\ div.fits
     /\ Value(div.rest) = a % b
     /\ Value(div.quot) = a \div b
     /\ bignum_mod_short(Number(a), b) = a % b

\* Sums, differences and products, as they are and to a modulus; an inverse
\* exists unless there is a common factor.
ReducesExactly(a, b, m) ==
  LET inverse == modinv(Number(a), Number(m))
      difference == bigsub(Number(a), Number(b))
  IN /\ Value(bigmuladd(Number(a), Number(b), Number(m))) = a * b + m
     /\ Value(bigadd(Number(a), Number(b))) = a + b
     /\ Value(modmul(Number(a), Number(b), Number(m))) = (a * b) % m
     /\ Value(modsub(Number(a), Number(b), Number(m))) = (a - b) % m
     /\ IF b > a THEN difference = NoNumber ELSE Value(difference) = a - b
     /\ Value(bignum_add_long(Number(a), b, 4)) = a + b
     /\ a > 0 => IF Value(biggcd(Number(m), Number(a))) = 1
                 THEN (Value(inverse) * a) % m = 1
                 ELSE inverse = NoNumber

\* Montgomery's multiplication and the plain one raise to the same power.
PowersAgree(a, e, m) ==
  LET RECURSIVE Product(_)
      Product(n) == IF n = 0 THEN 1 % m ELSE (Product(n - 1) * a) % m
  IN /\ Value(modpow_simple(Number(a), Number(e), Number(m))) = Product(e)
     /\ Value(modpow(Number(a), Number(e), Number(m))) = Product(e)

\* Whatever a number is written as is read as that number, and a shift by less
\* than a word is exact.
WrittenIsRead(a) ==
  LET x == Number(a)
      digits == bignum_decimal(x)
      length == ssh2_bignum_length(x) - 4
  IN /\ bignum_cmp(bignum_from_decimal(digits), x) = 0
     /\ bignum_cmp(bignum_from_bytes(BytesOf(x, length)), x) = 0
     /\ bignum_cmp(bignum_from_bytes_le(Reverse(BytesOf(x, length))), x) = 0
     /\ bignum_byte(x, length - 1) < 2^(Octet - 1)
     /\ bignum_cmp(ssh1_read_bignum(ssh1_write_bignum(x)), x) = 0
     /\ \A shift \in 1..(2 * W) \ {W, 2 * W} :
          /\ Value(bignum_lshift(x, shift)) = a * 2^shift
          /\ bignum_bitcount(x) >= shift => {Value(y) : y \in bignum_rshift(x, shift)} = {a \div 2^shift}
     /\ Value(bignum_bitmask(x)) = 2^bignum_bitcount(x) - 1
     /\ a > 0 => Value(decbn(x)) = a - 1
=============================================================================
