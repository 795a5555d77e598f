---------------------------- MODULE StoreLemmas ----------------------------
(***************************************************************************)
(* Facts about the operators of keystore.cpp as Agent defines them: what   *)
(* expire(), the searches and the erase() of the vector of keys return.    *)
(***************************************************************************)
EXTENDS Agent, FiniteSetTheorems, SequenceTheorems, TLAPS

\* An initial segment of a set of positions is finite and no larger than the set.
LEMMA UpToFinite ==
  ASSUME NEW N \in Nat, NEW I \in SUBSET (1..N), NEW n
  PROVE  /\ IsFiniteSet(I) /\ Cardinality(I) \in Nat
         /\ UpTo(I, n) \in SUBSET I
         /\ IsFiniteSet(UpTo(I, n)) /\ Cardinality(UpTo(I, n)) \in Nat
         /\ Cardinality(UpTo(I, n)) <= Cardinality(I)
<1>1. IsFiniteSet(1..N)
  BY FS_Interval
<1>2. IsFiniteSet(I)
  BY <1>1, FS_Subset
<1>3. UpTo(I, n) \in SUBSET I
  BY DEF UpTo
<1> QED
  BY <1>2, <1>3, FS_Subset, FS_CardinalityType

\* The initial segments of a set of positions grow with their last element.
LEMMA UpToStrict ==
  ASSUME NEW N \in Nat, NEW I \in SUBSET (1..N), NEW m \in I, NEW n \in I, m < n
  PROVE  /\ UpTo(I, m) \in SUBSET UpTo(I, n)
         /\ UpTo(I, m) # UpTo(I, n)
<1>1. n \in UpTo(I, n) /\ n \notin UpTo(I, m)
  BY DEF UpTo
<1>2. \A i \in I : i <= m => i <= n
  OBVIOUS
<1> QED
  BY <1>1, <1>2 DEF UpTo

\* A non-empty set of positions has a least element: initial segments are
\* well founded under inclusion.
LEMMA LeastIndex ==
  ASSUME NEW N \in Nat, NEW I \in SUBSET (1..N), NEW T \in SUBSET I, T # {}
  PROVE  \E n \in T : \A m \in T : n <= m
<1> DEFINE R == StrictSubsetOrdering(I)
           U == {UpTo(I, n) : n \in T}
<1>1. IsFiniteSet(I)
  BY UpToFinite
<1>2. IsWellFoundedOn(R, SUBSET I)
  BY <1>1, FS_StrictSubsetOrderingWellFounded, FS_FiniteSubsetsOfFinite
<1>3. U # {} /\ U \subseteq SUBSET I
  BY DEF UpTo
<1>4. PICK x \in U : \A y \in U : <<y, x>> \notin R
  <2> HIDE DEF R, U
  <2> QED BY <1>2, <1>3, WFMin
<1>5. PICK n \in T : x = UpTo(I, n)
  BY <1>4
<1>6. ASSUME NEW m \in T
      PROVE  n <= m
  <2> SUFFICES ASSUME m < n PROVE FALSE
    OBVIOUS
  <2>1. UpTo(I, m) \in SUBSET UpTo(I, n) /\ UpTo(I, m) # UpTo(I, n)
    BY UpToStrict
  <2>2. UpTo(I, m) \in U /\ UpTo(I, m) \in SUBSET I /\ UpTo(I, n) \in SUBSET I
    BY DEF UpTo
  <2> QED
    BY <2>1, <2>2, <1>4, <1>5 DEF StrictSubsetOrdering
<1> QED
  BY <1>6

\* ... and a greatest one: the same, counted from the other end.
LEMMA GreatestIndex ==
  ASSUME NEW N \in Nat, NEW I \in SUBSET (1..N), NEW T \in SUBSET I, T # {}
  PROVE  \E n \in T : \A m \in T : m <= n
<1> DEFINE D == {N + 1 - i : i \in T}
<1>1. T \in SUBSET (1..N)
  OBVIOUS
<1>2. D \in SUBSET (1..N)
  BY <1>1
<1>3. D # {}
  OBVIOUS
<1>4. PICK d \in D : \A e \in D : d <= e
  <2> HIDE DEF D
  <2> QED BY <1>2, <1>3, LeastIndex
<1>5. PICK n \in T : d = N + 1 - n
  BY <1>4
<1>6. ASSUME NEW m \in T
      PROVE  m <= n
  <2>1. N + 1 - n <= N + 1 - m
    BY <1>4, <1>5
  <2>2. m \in 1..N /\ n \in 1..N
    BY <1>1
  <2> HIDE DEF D
  <2> QED
    BY <2>1, <2>2
<1> QED
  BY <1>6

\* Nth is defined: the least position whose initial segment has at least k
\* elements has exactly k of them.
LEMMA NthExists ==
  ASSUME NEW N \in Nat, NEW I \in SUBSET (1..N), NEW k \in 1..Cardinality(I)
  PROVE  \E n \in I : Cardinality(UpTo(I, n)) = k
<1> DEFINE T == {n \in I : Cardinality(UpTo(I, n)) >= k}
<1>1. \A n : IsFiniteSet(UpTo(I, n)) /\ Cardinality(UpTo(I, n)) \in Nat
  BY UpToFinite
<1>2. IsFiniteSet(I) /\ Cardinality(I) \in Nat /\ I # {}
  <2>1. IsFiniteSet(I) /\ Cardinality(I) \in Nat
    BY UpToFinite
  <2>2. Cardinality(I) # 0
    BY <2>1
  <2> QED
    BY <2>1, <2>2, FS_EmptySet
<1>3. PICK top \in I : \A m \in I : m <= top
  BY <1>2, GreatestIndex
<1>4. top \in T
  <2>1. UpTo(I, top) = I
    BY <1>3 DEF UpTo
  <2> QED
    BY <2>1, <1>2
<1>5. PICK n \in T : \A m \in T : n <= m
  <2>1. T \in SUBSET I /\ T # {}
    BY <1>4
  <2> HIDE DEF T
  <2> QED
    BY <2>1, LeastIndex
<1> DEFINE B == UpTo(I, n) \ {n}
<1>6. n \in I /\ Cardinality(UpTo(I, n)) >= k /\ n \in UpTo(I, n)
  BY <1>5 DEF UpTo
<1>7. IsFiniteSet(B) /\ Cardinality(B) \in Nat /\ Cardinality(UpTo(I, n)) = Cardinality(B) + 1
  <2>1. IsFiniteSet(B) /\ Cardinality(B) = Cardinality(UpTo(I, n)) - 1
    BY <1>1, <1>6, FS_RemoveElement
  <2>2. Cardinality(B) \in Nat
    BY <2>1, FS_CardinalityType
  <2> HIDE DEF B
  <2> QED
    BY <2>1, <2>2, <1>1
<1>8. Cardinality(B) < k
  <2> SUFFICES ASSUME Cardinality(B) >= k PROVE FALSE
    BY <1>7
  <2>1. B # {} /\ B \in SUBSET I
    <3>1. Cardinality(B) # 0
      BY <1>7
    <3> QED
      BY <3>1, FS_EmptySet DEF UpTo
  <2>2. PICK p \in B : \A m \in B : m <= p
    <3> HIDE DEF B
    <3> QED BY <2>1, GreatestIndex
  <2>3. p \in I /\ p < n
    BY <1>6, <2>1 DEF UpTo
  <2>4. UpTo(I, p) = B
    <3>1. ASSUME NEW m \in I, m <= p
          PROVE  m \in B
      <4>1. m <= n /\ m # n
        BY <2>3, <3>1, <1>6
      <4> QED BY <4>1 DEF UpTo
    <3>2. ASSUME NEW m \in B
          PROVE  m \in I /\ m <= p
      BY <2>2, <2>1
    <3> HIDE DEF B
    <3> QED BY <3>1, <3>2 DEF UpTo
  <2>5. p \in T
    BY <2>3, <2>4
  <2> QED
    BY <2>3, <2>5, <1>5
<1> QED
  BY <1>1, <1>6, <1>7, <1>8

\* std::remove_if() in expire(): the elements at the positions kept are there
\* afterwards, and nothing else is.
LEMMA KeptProperties ==
  ASSUME NEW S, NEW s \in Seq(S), NEW I \in SUBSET (DOMAIN s)
  PROVE  /\ Kept(s, I) \in Seq(S)
         /\ \A k \in DOMAIN Kept(s, I) : \E n \in I : Kept(s, I)[k] = s[n]
         /\ \A n \in I : \E k \in DOMAIN Kept(s, I) : Kept(s, I)[k] = s[n]
<1> DEFINE c == Cardinality(I)
<1>0. Len(s) \in Nat /\ DOMAIN s = 1..Len(s) /\ I \in SUBSET (1..Len(s))
  OBVIOUS
<1>1. \A n : IsFiniteSet(I) /\ c \in Nat /\ UpTo(I, n) \in SUBSET I
             /\ IsFiniteSet(UpTo(I, n)) /\ Cardinality(UpTo(I, n)) \in Nat
             /\ Cardinality(UpTo(I, n)) <= c
  BY <1>0, UpToFinite
<1>2. \A k \in 1..c : Nth(I, k) \in I /\ Cardinality(UpTo(I, Nth(I, k))) = k
  BY <1>0, NthExists DEF Nth
<1>3. \A k \in 1..c : s[Nth(I, k)] \in S
  BY <1>0, <1>2
<1>4. Kept(s, I) \in [1..c -> S]
  BY <1>3 DEF Kept
<1>5. ASSUME NEW n \in I
      PROVE  \E k \in 1..c : Nth(I, k) = n
  <2>1. Cardinality(UpTo(I, n)) \in 1..c
    <3>1. n \in UpTo(I, n)
      BY <1>0 DEF UpTo
    <3>2. Cardinality(UpTo(I, n)) # 0
      BY <3>1, <1>1, FS_EmptySet
    <3> QED
      BY <3>2, <1>1
  <2>2. PICK m \in I : /\ m = Nth(I, Cardinality(UpTo(I, n)))
                       /\ Cardinality(UpTo(I, m)) = Cardinality(UpTo(I, n))
    BY <1>2, <2>1
  <2>3. ~(m < n)
    BY <1>0, <1>1, <2>2, UpToStrict, FS_Subset
  <2>4. ~(n < m)
    BY <1>0, <1>1, <2>2, UpToStrict, FS_Subset
  <2>5. m = n
    BY <2>3, <2>4, <1>0
  <2> QED
    BY <2>1, <2>2, <2>5
<1> QED
  BY <1>1, <1>2, <1>4, <1>5 DEF Kept
\* expire(): the result holds keys of the store, and all those still alive.
LEMMA LiveProperties ==
  ASSUME ssh2keys \in Seq(Key)
  PROVE  /\ Live \in Seq(Key)
         /\ \A k \in DOMAIN Live : \E n \in DOMAIN ssh2keys :
               Live[k] = ssh2keys[n] /\ ~Expired(ssh2keys[n])
         /\ \A n \in DOMAIN ssh2keys : ~Expired(ssh2keys[n]) =>
               \E k \in DOMAIN Live : Live[k] = ssh2keys[n]
<1> DEFINE I == {n \in DOMAIN ssh2keys : ~Expired(ssh2keys[n])}
<1>1. I \in SUBSET (DOMAIN ssh2keys) /\ Live = Kept(ssh2keys, I)
  BY DEF Live
<1>2. /\ Kept(ssh2keys, I) \in Seq(Key)
      /\ \A k \in DOMAIN Kept(ssh2keys, I) : \E n \in I : Kept(ssh2keys, I)[k] = ssh2keys[n]
      /\ \A n \in I : \E k \in DOMAIN Kept(ssh2keys, I) : Kept(ssh2keys, I)[k] = ssh2keys[n]
  <2> HIDE DEF I
  <2> QED
    BY <1>1, KeptProperties
<1>3. \A n \in DOMAIN ssh2keys : ~Expired(ssh2keys[n]) <=> n \in I
  OBVIOUS
<1>4. \A n \in I : n \in DOMAIN ssh2keys
  OBVIOUS
<1> HIDE DEF I
<1> QED
  BY <1>1, <1>2, <1>3, <1>4

\* The searches: a position of the vector whose key has that id, or 0 when no
\* key has it.
LEMMA PositionProperties ==
  ASSUME NEW s \in Seq(Key), NEW i
  PROVE  /\ Position(s, i) \in 0..Len(s)
         /\ Position(s, i) # 0 => s[Position(s, i)].id = i
         /\ Position(s, i) = 0 => \A n \in DOMAIN s : s[n].id # i
<1> DEFINE T == {n \in 1..Len(s) : s[n].id = i}
<1>0. Len(s) \in Nat /\ DOMAIN s = 1..Len(s)
  OBVIOUS
<1>1. CASE T = {}
  <2>1. ~ \E n \in DOMAIN s : s[n].id = i
    BY <1>0, <1>1
  <2>2. Position(s, i) = 0
    BY <2>1 DEF Position
  <2> QED
    BY <1>0, <2>1, <2>2
<1>2. CASE T # {}
  <2>1. PICK n \in T : \A m \in T : n <= m
    <3>1. T \in SUBSET (1..Len(s))
      OBVIOUS
    <3> HIDE DEF T
    <3> QED
      BY <1>0, <1>2, <3>1, LeastIndex
  <2>2. n \in DOMAIN s /\ s[n].id = i /\ \A m \in 1..n-1 : s[m].id # i
    BY <1>0, <2>1
  <2>3. Position(s, i) = CHOOSE x \in DOMAIN s : s[x].id = i /\ \A m \in 1..x-1 : s[m].id # i
    BY <2>2 DEF Position
  <2>4. Position(s, i) \in DOMAIN s /\ s[Position(s, i)].id = i
    BY <2>2, <2>3
  <2> QED
    BY <1>0, <2>4
<1> QED
  BY <1>1, <1>2

\* erase(): where each element of the result comes from.
LEMMA WithoutElements ==
  ASSUME NEW S, NEW s \in Seq(S), NEW n \in 1..Len(s)
  PROVE  /\ Without(s, n) \in Seq(S) /\ DOMAIN Without(s, n) = 1..Len(s) - 1
         /\ \A k \in 1..Len(s) - 1 : Without(s, n)[k] = IF k <= n - 1 THEN s[k] ELSE s[k + 1]
<1> DEFINE l == SubSeq(s, 1, n-1)
           r == SubSeq(s, n+1, Len(s))
<1>0. Len(s) \in Nat /\ DOMAIN s = 1..Len(s) /\ n \in Nat /\ n >= 1 /\ n <= Len(s)
  OBVIOUS
<1>1. l \in Seq(S) /\ Len(l) = n - 1 /\ \A k \in 1..n-1 : l[k] = s[k]
  <2>1. \A k \in 1..n-1 : s[k] \in S
    BY <1>0
  <2> QED
    BY <1>0, <2>1, SubSeqProperties
<1>2. r \in Seq(S) /\ Len(r) = Len(s) - n /\ \A k \in 1..Len(s) - n : r[k] = s[n + k]
  <2>1. \A k \in n+1..Len(s) : s[k] \in S
    BY <1>0
  <2>2. /\ r \in Seq(S)
        /\ Len(r) = IF n+1 <= Len(s) THEN Len(s) - (n+1) + 1 ELSE 0
        /\ \A k \in 1..Len(s) - (n+1) + 1 : r[k] = s[(n+1) + k - 1]
    <3>1. n+1 \in Int /\ Len(s) \in Int
      BY <1>0
    <3> QED
      BY <2>1, <3>1, SubSeqProperties
  <2> HIDE DEF r
  <2>3. \A k \in 1..Len(s) - n : r[k] = s[n + k]
    <3> SUFFICES ASSUME NEW k \in 1..Len(s) - n PROVE r[k] = s[n + k]
      OBVIOUS
    <3>1. k \in 1..Len(s) - (n+1) + 1 /\ (n+1) + k - 1 = n + k
      BY <1>0
    <3> QED
      BY <2>2, <3>1
  <2>4. Len(r) = Len(s) - n
    <3>1. Len(r) = IF n+1 <= Len(s) THEN Len(s) - (n+1) + 1 ELSE 0
      BY <2>2
    <3>2. CASE n+1 <= Len(s)
      <4>1. Len(s) - (n+1) + 1 = Len(s) - n
        BY <1>0
      <4> QED
        BY <3>1, <3>2, <4>1
    <3>3. CASE n = Len(s)
      <4>1. ~(n+1 <= Len(s)) /\ Len(s) - n = 0
        BY <1>0, <3>3
      <4> QED
        BY <3>1, <4>1
    <3>4. \A a, b \in Nat : a <= b => a + 1 <= b \/ a = b
      OBVIOUS
    <3>5. n + 1 <= Len(s) \/ n = Len(s)
      BY <1>0, <3>4
    <3> QED
      BY <3>2, <3>3, <3>5
  <2> QED
    BY <2>2, <2>3, <2>4
<1> HIDE DEF l, r
<1>3. Without(s, n) = l \o r
  BY DEF Without, l, r
<1>4. /\ Without(s, n) \in Seq(S)
      /\ DOMAIN Without(s, n) = 1..Len(s) - 1
      /\ \A k \in 1..Len(s) - 1 :
           Without(s, n)[k] = IF k <= n - 1 THEN l[k] ELSE r[k - (n - 1)]
  <2>1. /\ l \o r \in Seq(S)
        /\ Len(l \o r) = Len(l) + Len(r)
        /\ \A k \in 1..Len(l) + Len(r) :
             (l \o r)[k] = IF k <= Len(l) THEN l[k] ELSE r[k - Len(l)]
    BY <1>1, <1>2, ConcatProperties
  <2>2. Len(l) + Len(r) = Len(s) - 1
    BY <1>0, <1>1, <1>2
  <2>3. DOMAIN (l \o r) = 1..Len(l \o r)
    BY <2>1, LenProperties
  <2> QED
    BY <1>1, <1>3, <2>1, <2>2, <2>3
<1>5. \A k \in 1..Len(s) - 1 : Without(s, n)[k] = IF k <= n - 1 THEN s[k] ELSE s[k + 1]
  <2> SUFFICES ASSUME NEW k \in 1..Len(s) - 1
               PROVE  Without(s, n)[k] = IF k <= n - 1 THEN s[k] ELSE s[k + 1]
    OBVIOUS
  <2>1. CASE k <= n - 1
    <3>1. k \in 1..n-1
      BY <2>1, <1>0
    <3> QED
      BY <1>1, <1>4, <2>1, <3>1
  <2>2. CASE ~(k <= n - 1)
    <3>1. k - (n - 1) \in 1..Len(s) - n /\ n + (k - (n - 1)) = k + 1
      BY <2>2, <1>0
    <3> QED
      BY <1>2, <1>4, <2>2, <3>1
  <2> QED
    BY <2>1, <2>2
<1> QED
  BY <1>4, <1>5

\* ... so every element but the n-th stays, and nothing is added.
LEMMA WithoutProperties ==
  ASSUME NEW S, NEW s \in Seq(S), NEW n \in 1..Len(s)
  PROVE  /\ Without(s, n) \in Seq(S)
         /\ \A k \in DOMAIN Without(s, n) : \E m \in DOMAIN s : Without(s, n)[k] = s[m]
         /\ \A m \in DOMAIN s : m # n =>
               \E k \in DOMAIN Without(s, n) : Without(s, n)[k] = s[m]
<1>0. Len(s) \in Nat /\ DOMAIN s = 1..Len(s) /\ n \in Nat /\ n >= 1 /\ n <= Len(s)
  OBVIOUS
<1>4. Without(s, n) \in Seq(S) /\ DOMAIN Without(s, n) = 1..Len(s) - 1
  BY WithoutElements
<1>5. \A k \in 1..Len(s) - 1 : Without(s, n)[k] = IF k <= n - 1 THEN s[k] ELSE s[k + 1]
  BY WithoutElements
<1>6. \A m \in DOMAIN s : m # n =>
        \E k \in DOMAIN Without(s, n) : Without(s, n)[k] = s[m]
  <2> SUFFICES ASSUME NEW m \in 1..Len(s), m # n
               PROVE  \E k \in 1..Len(s) - 1 : Without(s, n)[k] = s[m]
    BY <1>0, <1>4
  <2>1. CASE m < n
    <3>1. m \in 1..Len(s) - 1 /\ Without(s, n)[m] = s[m]
      BY <1>0, <1>5, <2>1
    <3> QED
      BY <3>1
  <2>2. CASE m > n
    <3>1. m - 1 \in 1..Len(s) - 1 /\ Without(s, n)[m - 1] = s[m]
      BY <1>0, <1>5, <2>2
    <3> QED
      BY <3>1
  <2> QED
    BY <1>0, <2>1, <2>2
<1>7. \A k \in 1..Len(s) - 1 : \E m \in DOMAIN s : Without(s, n)[k] = s[m]
  <2> SUFFICES ASSUME NEW k \in 1..Len(s) - 1
               PROVE  \E m \in 1..Len(s) : Without(s, n)[k] = s[m]
    BY <1>0
  <2>1. k \in 1..Len(s) /\ k + 1 \in 1..Len(s)
    BY <1>0
  <2> QED
    BY <1>5, <2>1
<1> QED
  BY <1>4, <1>6, <1>7

-----------------------------------------------------------------------------
(* Keys that differ.                                                        *)

\* No key twice.
Different(s) == \A m, n \in DOMAIN s : s[m].id = s[n].id => m = n

\* Elements of the result at different places come from different places.
LEMMA KeptApart ==
  ASSUME NEW S, NEW s \in Seq(S), NEW I \in SUBSET (DOMAIN s), Different(s)
  PROVE  Different(Kept(s, I))
<1> DEFINE c == Cardinality(I)
<1>1. Len(s) \in Nat /\ DOMAIN s = 1..Len(s) /\ I \in SUBSET (1..Len(s))
  OBVIOUS
<1>2. \A k \in 1..c : Nth(I, k) \in I /\ Cardinality(UpTo(I, Nth(I, k))) = k
  BY <1>1, NthExists DEF Nth
<1>3. DOMAIN Kept(s, I) = 1..c /\ \A k \in 1..c : Kept(s, I)[k] = s[Nth(I, k)]
  BY DEF Kept
<1>4. ASSUME NEW k \in 1..c, NEW l \in 1..c, Kept(s, I)[k].id = Kept(s, I)[l].id
      PROVE  k = l
  <2>1. Nth(I, k) \in DOMAIN s /\ Nth(I, l) \in DOMAIN s
    BY <1>2
  <2>2. Nth(I, k) = Nth(I, l)
    BY <1>3, <1>4, <2>1 DEF Different
  <2> QED
    BY <1>2, <2>2
<1> QED
  BY <1>3, <1>4 DEF Different

LEMMA LiveDiffers ==
  ASSUME ssh2keys \in Seq(Key), Different(ssh2keys)
  PROVE  Different(Live)
<1>1. \A I \in SUBSET (DOMAIN ssh2keys) : Different(Kept(ssh2keys, I))
  BY KeptApart
<1> QED
  BY <1>1 DEF Live

LEMMA WithoutDiffers ==
  ASSUME NEW S, NEW s \in Seq(S), NEW n \in 1..Len(s), Different(s)
  PROVE  Different(Without(s, n))
<1>1. Len(s) \in Nat /\ DOMAIN s = 1..Len(s) /\ n \in Nat
  OBVIOUS
<1>2. DOMAIN Without(s, n) = 1..Len(s) - 1
  BY WithoutElements
<1>3. \A k \in 1..Len(s) - 1 : Without(s, n)[k] = IF k <= n - 1 THEN s[k] ELSE s[k + 1]
  BY WithoutElements
<1>4. ASSUME NEW k \in 1..Len(s) - 1, NEW l \in 1..Len(s) - 1, Without(s, n)[k].id = Without(s, n)[l].id
      PROVE  k = l
  <2>1. k \in DOMAIN s /\ k + 1 \in DOMAIN s /\ l \in DOMAIN s /\ l + 1 \in DOMAIN s
    BY <1>1
  <2>2. PICK i \in DOMAIN s : i = (IF k <= n - 1 THEN k ELSE k + 1)
    BY <2>1
  <2>3. PICK j \in DOMAIN s : j = (IF l <= n - 1 THEN l ELSE l + 1)
    BY <2>1
  <2>4. Without(s, n)[k] = s[i] /\ Without(s, n)[l] = s[j]
    BY <1>3, <2>2, <2>3
  <2>5. i = j
    BY <1>4, <2>4 DEF Different
  <2> QED
    BY <1>1, <2>2, <2>3, <2>5
<1> QED
  BY <1>2, <1>4 DEF Different

LEMMA AppendDiffers ==
  ASSUME NEW s \in Seq(Key), NEW k \in Key, Different(s), \A n \in DOMAIN s : s[n].id # k.id
  PROVE  Different(Append(s, k))
<1>1. /\ Len(s) \in Nat /\ DOMAIN s = 1..Len(s) /\ DOMAIN Append(s, k) = 1..Len(s) + 1
      /\ \A n \in 1..Len(s) : Append(s, k)[n] = s[n]
      /\ Append(s, k)[Len(s) + 1] = k
  BY AppendProperties
<1>2. ASSUME NEW m \in 1..Len(s) + 1, NEW n \in 1..Len(s) + 1, Append(s, k)[m].id = Append(s, k)[n].id
      PROVE  m = n
  <2>1. \A i \in 1..Len(s) + 1 : i \in 1..Len(s) \/ i = Len(s) + 1
    BY <1>1
  <2> QED
    BY <1>1, <1>2, <2>1 DEF Different
<1> QED
  BY <1>1, <1>2 DEF Different
=============================================================================
