-------------------------- MODULE LongRoutines_proofs --------------------------
(***************************************************************************)
(* The routines of LONGMATH.ASM compute what C says, for all longs: TLC    *)
(* compares them on the longs of a machine with bytes of two bits, here    *)
(* bytes may have up to eight.                                             *)
(***************************************************************************)
EXTENDS LongRoutines, Lemmas

(* The powers of two that are longs, and the first that is none.           *)
Two == [k \in 0 .. 32 |-> 2^k]

LEMMA Twos ==
    /\ Two[0] = 1 /\ Two[1] = 2 /\ Two[2] = 4 /\ Two[3] = 8
    /\ Two[4] = 16 /\ Two[5] = 32 /\ Two[6] = 64 /\ Two[7] = 128
    /\ Two[8] = 256 /\ Two[9] = 512 /\ Two[10] = 1024 /\ Two[11] = 2048
    /\ Two[12] = 4096 /\ Two[13] = 8192 /\ Two[14] = 16384 /\ Two[15] = 32768
    /\ Two[16] = 65536 /\ Two[17] = 131072 /\ Two[18] = 262144 /\ Two[19] = 524288
    /\ Two[20] = 1048576 /\ Two[21] = 2097152 /\ Two[22] = 4194304 /\ Two[23] = 8388608
    /\ Two[24] = 16777216 /\ Two[25] = 33554432 /\ Two[26] = 67108864 /\ Two[27] = 134217728
    /\ Two[28] = 268435456 /\ Two[29] = 536870912 /\ Two[30] = 1073741824 /\ Two[31] = 2147483648
    /\ Two[32] = 4294967296
<1>1. Two[0] = 1 /\ Two[1] = 2 /\ Two[2] = 4 /\ Two[3] = 8
  BY DEF Two
<1>2. Two[4] = 16 /\ Two[5] = 32 /\ Two[6] = 64 /\ Two[7] = 128
  BY DEF Two
<1>3. Two[8] = 256 /\ Two[9] = 512 /\ Two[10] = 1024 /\ Two[11] = 2048
  BY DEF Two
<1>4. Two[12] = 4096 /\ Two[13] = 8192 /\ Two[14] = 16384 /\ Two[15] = 32768
  BY DEF Two
<1>5. Two[16] = 65536 /\ Two[17] = 131072 /\ Two[18] = 262144 /\ Two[19] = 524288
  BY DEF Two
<1>6. Two[20] = 1048576 /\ Two[21] = 2097152 /\ Two[22] = 4194304 /\ Two[23] = 8388608
  BY DEF Two
<1>7. Two[24] = 16777216 /\ Two[25] = 33554432 /\ Two[26] = 67108864 /\ Two[27] = 134217728
  BY DEF Two
<1>8. Two[28] = 268435456 /\ Two[29] = 536870912 /\ Two[30] = 1073741824 /\ Two[31] = 2147483648
  BY DEF Two
<1>9. Two[32] = 4294967296
  BY DEF Two
<1> QED
  BY <1>1, <1>2, <1>3, <1>4, <1>5, <1>6, <1>7, <1>8, <1>9

(* Each is twice the one before.                                           *)
LEMMA Doubles ==
    /\ \A k \in 0 .. 32 : 2^k = Two[k] /\ Two[k] \in Nat /\ Two[k] > 0
    /\ \A k \in 0 .. 31 : Two[k + 1] = 2 * Two[k]
<1>1. \A k \in 0 .. 32 : 2^k = Two[k]
  BY DEF Two
<1>2. \A k \in 0 .. 32 : Two[k] \in Nat /\ Two[k] > 0
  BY Twos
<1>3. \A k \in 0 .. 31 : Two[k + 1] = 2 * Two[k]
  BY Twos
<1> QED
  BY <1>1, <1>2, <1>3

(* A word is a square of a byte and a long of a word, and each has a       *)
(* number of bits that is itself a power of two.                           *)
LEMMA Sizes ==
    /\ Word \in Nat /\ Word > 1 /\ Word \div 2 \in Nat /\ Word = 2 * (Word \div 2)
    /\ Long \in Nat /\ Long > 1 /\ Long = Word * Word /\ Long \div 2 = (Word \div 2) * Word
    /\ Long \div 2 \in Nat /\ Long = 2 * (Long \div 2)
    /\ LongBits \in {8, 16, 32} /\ Long = Two[LongBits]
    /\ \A c \in Nat : (c % Word) % LongBits = c % LongBits
<1>1. ByteSize \in {4, 16, 256}
  <2>1. 2^2 = 4 /\ 2^4 = 16 /\ 2^8 = 256
    OBVIOUS
  <2> QED
    BY <2>1, ByteSizeAssumption
<1>2. Word \in {16, 256, 65536}
  BY <1>1 DEF Word
<1>3. WordBits = IF Word = 16 THEN 4 ELSE IF Word = 256 THEN 8 ELSE 16
  <2>1. ASSUME NEW k \in 1 .. 16
        PROVE  2^k = Two[k]
    <3>1. k \in 0 .. 32
      OBVIOUS
    <3> QED
      BY <3>1, Doubles, Zenon
  <2>2. WordBits = CHOOSE k \in 1 .. 16 : Word = Two[k]
    BY <2>1 DEF WordBits
  <2>3. \E k \in 1 .. 16 : Word = Two[k]
    BY <1>2, Twos
  <2>4. WordBits \in 1 .. 16 /\ Word = Two[WordBits]
    BY <2>2, <2>3
  <2>5. ASSUME NEW k \in 1 .. 16, Word = Two[k]
        PROVE  k = IF Word = 16 THEN 4 ELSE IF Word = 256 THEN 8 ELSE 16
    BY <1>2, <2>5, Twos
  <2> QED
    BY <2>4, <2>5
<1>4. CASE Word = 16
  <2>1. LongBits = 8 /\ Long = 256
    BY <1>3, <1>4 DEF LongBits, Long
  <2> QED
    BY <1>4, <2>1, Twos
<1>5. CASE Word = 256
  <2>1. LongBits = 16 /\ Long = 65536
    BY <1>3, <1>5 DEF LongBits, Long
  <2> QED
    BY <1>5, <2>1, Twos
<1>6. CASE Word = 65536
  <2>1. LongBits = 32 /\ Long = 4294967296
    BY <1>3, <1>6 DEF LongBits, Long
  <2> QED
    BY <1>6, <2>1, Twos
<1> QED
  BY <1>2, <1>4, <1>5, <1>6

-----------------------------------------------------------------------------
(* What a division leaves.                                                 *)
LEMMA HasDivMod ==
    ASSUME NEW x \in Int, NEW m \in Nat \ {0}
    PROVE  \E k \in Int, r \in 0 .. m - 1 : k = x \div m /\ r = x % m /\ x = k * m + r
<1>1. x \div m \in Int /\ x % m \in 0 .. m - 1 /\ x = (x \div m) * m + (x % m)
  OBVIOUS
<1> QED
  BY <1>1, Zenon

LEMMA NatDivMod ==
    ASSUME NEW x \in Nat, NEW m \in Nat \ {0}
    PROVE  \E k \in Nat, r \in 0 .. m - 1 : k = x \div m /\ r = x % m /\ x = k * m + r
<1>1. x \div m \in Nat /\ x % m \in 0 .. m - 1 /\ x = (x \div m) * m + (x % m)
  OBVIOUS
<1> QED
  BY <1>1, Zenon

-----------------------------------------------------------------------------
(* What the rounds of a division have done of it.  Of the dividend A the   *)
(* upper bits, h, are divided; the lower, l, are still to come: n rounds   *)
(* are done, and P is the worth of what is left.                           *)
Pair == [quot : 0 .. Long - 1, rem : 0 .. Long - 1]
Divided(A, d, p, N, P) ==
    \E h, l, q \in Nat :
        /\ A = h * P + l /\ l < P
        /\ p.quot = l * N + q /\ q < N
        /\ h = q * d + p.rem /\ p.rem < d

LEMMA RoundIsPair ==
    ASSUME NEW d \in 0 .. Long - 1, NEW p \in Pair
    PROVE  DivRound(p, d) \in Pair
<1>1. Long \in Nat /\ Long = 2 * (Long \div 2) /\ Long \div 2 \in Nat /\ Long > 1
  BY Sizes
<1> DEFINE shifted == (2 * p.quot) % Long
           taken == (2 * p.rem + p.quot \div (Long \div 2)) % Long
<1>2. p.quot \in 0 .. Long - 1 /\ p.rem \in 0 .. Long - 1
  BY DEF Pair
<1>3. \E s \in 0 .. Long - 1 : s = shifted
  BY <1>1, <1>2
<1>4. \E k \in Nat : k = p.quot \div (Long \div 2)
  BY <1>1, <1>2
<1>5. \E t \in 0 .. Long - 1 : t = taken
  BY <1>1, <1>2, <1>4
<1>6. DivRound(p, d) = IF taken >= d THEN [quot |-> shifted + 1, rem |-> taken - d]
                       ELSE [quot |-> shifted, rem |-> taken]
  BY DEF DivRound
<1>7. shifted + 1 \in 0 .. Long - 1
  <2>1. PICK H \in Nat : H = Long \div 2 /\ Long = 2 * H /\ H > 0
    BY <1>1
  <2>2. \E x \in 0 .. Long - 1 : x = p.quot
    BY <1>2
  <2>3. ASSUME NEW x \in 0 .. Long - 1
        PROVE  (2 * x) % Long # Long - 1
    BY <2>1, <1>1
  <2> QED
    BY <2>2, <2>3, <1>3, <1>1
<1> HIDE DEF shifted, taken
<1> QED
  BY <1>1, <1>3, <1>5, <1>6, <1>7 DEF Pair

(* One more round.                                                         *)
LEMMA RoundDivides ==
    ASSUME NEW A \in 0 .. Long - 1, NEW d \in 1 .. Long - 1, NEW p \in Pair,
           NEW N \in Nat \ {0}, NEW P \in Nat \ {0}, Long = 2 * P * N,
           Divided(A, d, p, N, 2 * P)
    PROVE  Divided(A, d, DivRound(p, d), 2 * N, P)
<1>1. Long \in Nat /\ Long = 2 * (Long \div 2) /\ Long \div 2 \in Nat /\ Long > 1
  BY Sizes
<1>2. PICK h, l, q \in Nat :
        /\ A = h * (2 * P) + l /\ l < 2 * P
        /\ p.quot = l * N + q /\ q < N
        /\ h = q * d + p.rem /\ p.rem < d
  BY DEF Divided
<1>3. p.quot \in 0 .. Long - 1 /\ p.rem \in 0 .. Long - 1
  BY DEF Pair
<1>4. P * N \in Nat \ {0} /\ Long \div 2 = P * N
  <2>1. P * N \in Nat \ {0}
    OBVIOUS
  <2>2. Long = 2 * (P * N)
    OBVIOUS
  <2> QED
    BY <2>1, <2>2, <1>1
<1>5. PICK t \in 0 .. 1, m \in Nat : l = t * P + m /\ m < P
  <2>1. CASE l < P
    BY <2>1, l = 0 * P + l
  <2>2. CASE l >= P
    <3>1. l = 1 * P + (l - P) /\ l - P \in Nat /\ l - P < P
      BY <2>2, <1>2
    <3> QED
      BY <3>1
  <2> QED
    BY <2>1, <2>2
<1>6. m * N + q \in 0 .. P * N - 1
  <2>1. m + 1 <= P
    BY <1>5
  <2>2. (m + 1) * N <= P * N
    BY <2>1
  <2> QED
    BY <2>2, <1>2
<1>7. p.quot = t * (P * N) + (m * N + q)
  BY <1>2, <1>5
<1>8. p.quot \div (Long \div 2) = t
  <2>1. IsDivided(p.quot, Long \div 2, t, m * N + q)
    BY <1>3, <1>4, <1>6, <1>7 DEF IsDivided
  <2> QED
    BY <2>1, DivMod
<1>9. (2 * p.quot) % Long = m * (2 * N) + 2 * q
  <2>1. 2 * p.quot = t * Long + (m * (2 * N) + 2 * q)
    BY <1>7, <1>4, <1>1
  <2>2. m * (2 * N) + 2 * q \in 0 .. Long - 1
    BY <1>6, <1>4, <1>1
  <2>3. IsDivided(2 * p.quot, Long, t, m * (2 * N) + 2 * q)
    BY <2>1, <2>2, <1>1, <1>3 DEF IsDivided
  <2> QED
    BY <2>3, DivMod
<1>10. (2 * p.rem + p.quot \div (Long \div 2)) % Long = 2 * p.rem + t
  <2>1. p.rem < Long \div 2 /\ p.rem \in Nat
    <3>1. h < N
      <4>1. SUFFICES ASSUME N <= h PROVE FALSE
        BY <1>2
      <4>2. N * (2 * P) <= h * (2 * P)
        BY <4>1
      <4>3. N * (2 * P) = Long /\ A < Long
        BY <1>1
      <4> QED
        BY <4>2, <4>3, <1>1, <1>2
    <3>2. p.rem <= h /\ p.rem \in Nat
      <4>1. q * d \in Nat
        BY <1>1
      <4> QED
        BY <4>1, <1>2, <1>3, <1>1
    <3>3. N <= P * N
      OBVIOUS
    <3> QED
      BY <3>1, <3>2, <3>3, <1>4
  <2>2. 2 * p.rem + t \in 0 .. Long - 1
    BY <2>1, <1>1
  <2>3. 2 * p.rem + t = 0 * Long + (2 * p.rem + t)
    BY <2>1, <1>1
  <2>4. IsDivided(2 * p.rem + t, Long, 0, 2 * p.rem + t)
    BY <2>2, <2>3, <1>1 DEF IsDivided
  <2>5. (2 * p.rem + t) % Long = 2 * p.rem + t
    BY <2>4, DivMod
  <2> QED
    BY <2>5, <1>8
<1>11. A = (2 * h + t) * P + m
  BY <1>2, <1>5
<1>12. 2 * h + t = (2 * q) * d + (2 * p.rem + t)
  BY <1>2, <1>3
<1> DEFINE shifted == (2 * p.quot) % Long
           taken == (2 * p.rem + p.quot \div (Long \div 2)) % Long
<1>0. DivRound(p, d) = IF taken >= d THEN [quot |-> shifted + 1, rem |-> taken - d]
                       ELSE [quot |-> shifted, rem |-> taken]
  BY DEF DivRound
<1>20. shifted = m * (2 * N) + 2 * q /\ taken = 2 * p.rem + t
  BY <1>9, <1>10
<1> HIDE DEF shifted, taken
<1>21. PICK g \in Nat : g = 2 * h + t
  OBVIOUS
<1>22. PICK u \in Nat : u = 2 * p.rem + t
  BY <1>3, <1>1
<1>23. PICK N2 \in Nat : N2 = 2 * N
  OBVIOUS
<1>24. PICK s \in Nat : s = m * N2 + 2 * q
  BY <1>23
<1>25. A = g * P + m /\ g = (2 * q) * d + u /\ shifted = s /\ taken = u
  BY <1>11, <1>12, <1>20, <1>21, <1>22, <1>23, <1>24
<1>26. 2 * q + 1 < N2
  BY <1>2, <1>23
<1>13. CASE u >= d
  <2>1. PICK e : e = DivRound(p, d)
    OBVIOUS
  <2>2. e.quot = s + 1 /\ e.rem = u - d
    BY <2>1, <1>0, <1>13, <1>25
  <2>3. PICK q1 \in Nat : q1 = 2 * q + 1
    OBVIOUS
  <2>4. g = q1 * d + e.rem
    BY <2>2, <2>3, <1>25
  <2>5. e.rem < d
    BY <2>2, <1>2, <1>3, <1>22
  <2>6. e.quot = m * N2 + q1 /\ q1 < N2
    BY <2>2, <2>3, <1>24, <1>26, <1>23
  <2>7. Divided(A, d, e, N2, P)
    BY <2>4, <2>5, <2>6, <1>5, <1>25 DEF Divided
  <2> QED
    BY <2>1, <2>7, <1>23
<1>14. CASE ~(u >= d)
  <2>1. PICK e : e = DivRound(p, d)
    OBVIOUS
  <2>2. e.quot = s /\ e.rem = u
    BY <2>1, <1>0, <1>14, <1>25
  <2>3. PICK q1 \in Nat : q1 = 2 * q
    OBVIOUS
  <2>4. g = q1 * d + e.rem
    BY <2>2, <2>3, <1>25
  <2>5. e.rem < d
    BY <2>2, <1>14
  <2>6. e.quot = m * N2 + q1 /\ q1 < N2
    BY <2>2, <2>3, <1>24, <1>26, <1>23
  <2>7. Divided(A, d, e, N2, P)
    BY <2>4, <2>5, <2>6, <1>5, <1>25 DEF Divided
  <2> QED
    BY <2>1, <2>7, <1>23
<1> QED
  BY <1>13, <1>14

(* The values of the remainder and the quotient, round for round.          *)
Rounds(A, d) ==
  LET after[n \in 0..LongBits] ==
        IF n = 0 THEN [quot |-> A, rem |-> 0] ELSE DivRound(after[n - 1], d)
  IN after

LEMMA RoundsAre ==
    ASSUME NEW A \in 0 .. Long - 1, NEW d \in 0 .. Long - 1
    PROVE  /\ Rounds(A, d)[0] = [quot |-> A, rem |-> 0]
           /\ \A n \in 1 .. LongBits : Rounds(A, d)[n] = DivRound(Rounds(A, d)[n - 1], d)
           /\ \A n \in 0 .. LongBits : Rounds(A, d)[n] \in Pair
<1>1. LongBits \in Nat /\ Long \in Nat /\ Long > 1
  BY Sizes
<1> DEFINE x == [quot |-> A, rem |-> 0]
           G == [p \in Pair |-> DivRound(p, d)]
<1>2. x \in Pair
  BY <1>1 DEF Pair
<1>3. G \in [Pair -> Pair]
  BY RoundIsPair
<1> HIDE DEF x
<1>4. PICK f \in [0 .. LongBits -> Pair] : f[0] = x /\ \A n \in 1 .. LongBits : f[n] = G[f[n - 1]]
  <2> HIDE DEF G
  <2>1. Iterable(Pair, x, G, LongBits)
    BY <1>1, <1>2, <1>3 DEF Iterable
  <2> QED
    BY <2>1, Iterates DEF Iteration
<1>5. \A n \in 1 .. LongBits : n - 1 \in 0 .. LongBits /\ n \in 0 .. LongBits /\ n # 0
  BY <1>1
<1>6. \A n \in 1 .. LongBits : f[n] = DivRound(f[n - 1], d)
  BY <1>4, <1>5
<1>7. f = [n \in 0 .. LongBits |-> IF n = 0 THEN x ELSE DivRound(f[n - 1], d)]
  <2>1. ASSUME NEW n \in 0 .. LongBits
        PROVE  f[n] = IF n = 0 THEN x ELSE DivRound(f[n - 1], d)
    <3>1. n = 0 \/ n \in 1 .. LongBits
      BY <1>1
    <3> QED
      BY <3>1, <1>4, <1>5, <1>6
  <2> QED
    BY <2>1, <1>4
<1>8. \E g : g = [n \in 0 .. LongBits |-> IF n = 0 THEN [quot |-> A, rem |-> 0] ELSE DivRound(g[n - 1], d)]
  BY <1>7 DEF x
<1>9. Rounds(A, d) = [n \in 0 .. LongBits |-> IF n = 0 THEN [quot |-> A, rem |-> 0] ELSE DivRound(Rounds(A, d)[n - 1], d)]
  BY <1>8 DEF Rounds
<1> DEFINE g == Rounds(A, d)
<1>10. g = [n \in 0 .. LongBits |-> IF n = 0 THEN x ELSE DivRound(g[n - 1], d)]
  BY <1>9 DEF x
<1> HIDE DEF g
<1>11. g[0] = x
  BY <1>1, <1>10
<1>12. \A n \in 1 .. LongBits : g[n] = DivRound(g[n - 1], d)
  BY <1>5, <1>10
<1>13. \A n \in 0 .. LongBits : g[n] \in Pair
  <2> DEFINE Bad == {n \in 0 .. LongBits : g[n] \notin Pair}
  <2>1. SUFFICES ASSUME Bad # {} PROVE FALSE
    OBVIOUS
  <2>2. Bad \in SUBSET Nat
    BY <1>1
  <2>3. PICK n \in Bad : \A t \in Bad : n <= t
    <3> HIDE DEF Bad
    <3> QED
      BY <2>1, <2>2, LeastNat
  <2>4. n # 0
    BY <1>2, <1>11
  <2>5. n \in 1 .. LongBits /\ n - 1 \in 0 .. LongBits /\ ~(n <= n - 1)
    BY <2>4, <1>1
  <2>6. g[n - 1] \in Pair
    <3>1. n - 1 \notin Bad
      <4> HIDE DEF Bad
      <4> QED
        BY <2>3, <2>5
    <3> QED
      BY <3>1, <2>5
  <2>7. g[n] \in Pair
    BY <2>5, <2>6, <1>12, RoundIsPair
  <2> QED
    BY <2>7
<1> QED
  BY <1>11, <1>12, <1>13 DEF g, x

(* The four divisions divide, whatever the divisor: before a round the     *)
(* remainder is at most the upper bits of the dividend, of which there are *)
(* fewer than a long has, and so doubling it loses nothing.                *)
LEMMA LoopDivides ==
    ASSUME NEW A \in 0 .. Long - 1, NEW d \in 1 .. Long - 1
    PROVE  DivLoop(A, d).quot = A \div d /\ DivLoop(A, d).rem = A % d
<1>1. LongBits \in Nat /\ LongBits <= 32 /\ Long \in Nat /\ Long > 1 /\ Long = Two[LongBits]
      /\ Long \div 2 \in Nat /\ Long = 2 * (Long \div 2)
  BY Sizes
<1>2. d \in 0 .. Long - 1 /\ A \in Nat /\ d \in Nat \ {0}
  BY <1>1
<1>3. PICK g : g = Rounds(A, d)
  OBVIOUS
<1>4. /\ g[0] = [quot |-> A, rem |-> 0]
      /\ \A n \in 1 .. LongBits : g[n] = DivRound(g[n - 1], d)
      /\ \A n \in 0 .. LongBits : g[n] \in Pair
  BY <1>2, <1>3, RoundsAre
<1> DEFINE Good(n) == Two[n] * Two[LongBits - n] = Long /\ Divided(A, d, g[n], Two[n], Two[LongBits - n])
           Bad == {n \in 0 .. LongBits : ~Good(n)}
<1>5. Bad = {}
  <2>1. SUFFICES ASSUME Bad # {} PROVE FALSE
    OBVIOUS
  <2>2. Bad \in SUBSET Nat
    BY <1>1
  <2>3. PICK n \in Bad : \A t \in Bad : n <= t
    <3> HIDE DEF Bad
    <3> QED
      BY <2>1, <2>2, LeastNat
  <2>4. n # 0
    <3>1. Two[0] = 1 /\ LongBits - 0 = LongBits
      BY <1>1, Twos
    <3>2. Divided(A, d, g[0], 1, Long)
      <4>1. A = 0 * Long + A /\ A < Long /\ A = A * 1 + 0 /\ 0 < 1 /\ 0 = 0 * d + 0 /\ 0 < d
        BY <1>1, <1>2
      <4>2. g[0].quot = A /\ g[0].rem = 0
        BY <1>4
      <4> QED
        BY <4>1, <4>2, <1>2 DEF Divided
    <3>3. Good(0)
      BY <3>1, <3>2, <1>1
    <3> QED
      BY <3>3
  <2>5. n \in 1 .. LongBits /\ n - 1 \in 0 .. LongBits /\ ~(n <= n - 1)
    BY <2>4, <1>1
  <2>6. Good(n - 1)
    <3>1. n - 1 \notin Bad
      <4> HIDE DEF Bad
      <4> QED
        BY <2>3, <2>5
    <3> QED
      BY <3>1, <2>5
  <2>7. PICK N \in Nat \ {0}, P \in Nat \ {0} : N = Two[n - 1] /\ P = Two[LongBits - n]
    <3>1. n - 1 \in 0 .. 32 /\ LongBits - n \in 0 .. 32
      BY <1>1, <2>5
    <3>2. \A k \in 0 .. 32 : Two[k] \in Nat \ {0}
      BY Doubles
    <3>3. Two[n - 1] \in Nat \ {0} /\ Two[LongBits - n] \in Nat \ {0}
      BY <3>1, <3>2
    <3> QED
      BY <3>3
  <2>8. Two[n] = 2 * N /\ Two[LongBits - (n - 1)] = 2 * P
    <3>1. n - 1 \in 0 .. 31 /\ (n - 1) + 1 = n /\ LongBits - n \in 0 .. 31
          /\ (LongBits - n) + 1 = LongBits - (n - 1)
      BY <1>1, <2>5
    <3>2. \A k \in 0 .. 31 : Two[k + 1] = 2 * Two[k]
      BY Doubles
    <3>3. Two[(n - 1) + 1] = 2 * Two[n - 1] /\ Two[(LongBits - n) + 1] = 2 * Two[LongBits - n]
      BY <3>1, <3>2
    <3> QED
      BY <3>1, <3>3, <2>7
  <2>9. N * (2 * P) = Long /\ Divided(A, d, g[n - 1], N, 2 * P)
    BY <2>6, <2>7, <2>8
  <2>10. Long = 2 * P * N /\ (2 * N) * P = Long
    BY <2>9
  <2>11. g[n - 1] \in Pair
    BY <1>4, <2>5
  <2>12. Divided(A, d, DivRound(g[n - 1], d), 2 * N, P)
    BY <1>2, <2>9, <2>10, <2>11, RoundDivides
  <2>13. Good(n)
    BY <2>12, <2>10, <2>8, <2>7, <2>5, <1>4
  <2> QED
    BY <2>13
<1>6. LongBits \in 0 .. LongBits /\ LongBits - LongBits = 0 /\ Two[0] = 1
  BY <1>1, Twos
<1>7. Divided(A, d, g[LongBits], Long, 1)
  <2>1. Good(LongBits)
    BY <1>5, <1>6
  <2> QED
    BY <2>1, <1>6, <1>1
<1>8. DivLoop(A, d) = g[LongBits]
  BY <1>3 DEF DivLoop, Rounds
<1>9. PICK p \in Pair : p = g[LongBits]
  BY <1>4, <1>6
<1>10. PICK h, l, q \in Nat :
        /\ A = h * 1 + l /\ l < 1
        /\ p.quot = l * Long + q /\ q < Long
        /\ h = q * d + p.rem /\ p.rem < d
  BY <1>7, <1>9 DEF Divided
<1>11. l = 0
  BY <1>10
<1>12. p.quot = q /\ A = q * d + p.rem /\ p.rem \in 0 .. d - 1
  BY <1>1, <1>2, <1>10, <1>11 DEF Pair
<1>13. IsDivided(A, d, q, p.rem)
  BY <1>2, <1>12 DEF IsDivided
<1>14. A \div d = q /\ A % d = p.rem
  BY <1>13, DivMod
<1> QED
  BY <1>8, <1>9, <1>12, <1>14

-----------------------------------------------------------------------------
(* A long is its two words; its sign is the upper one's.                   *)
LEMMA Halves ==
    ASSUME NEW x \in 0 .. Long - 1
    PROVE  /\ hi(x) \in 0 .. Word - 1 /\ lo(x) \in 0 .. Word - 1 /\ x = hi(x) * Word + lo(x)
           /\ (hi(x) >= Word \div 2) <=> (x >= Long \div 2)
<1>1. PICK w \in Nat \ {0} : w = Word
  BY Sizes
<1>2. PICK v \in Nat : v = Word \div 2 /\ w = 2 * v
  BY <1>1, Sizes
<1>3. Long = w * w /\ Long \div 2 = v * w /\ Long \in Nat
  BY <1>1, <1>2, Sizes
<1>4. x \in Nat /\ x < w * w
  BY <1>3
<1>5. PICK h \in Nat, l \in 0 .. w - 1 : h = x \div w /\ l = x % w /\ x = h * w + l
  BY <1>4, NatDivMod
<1>6. h < w
  BY <1>4, <1>5
<1>7. h >= v => x >= v * w
  BY <1>5
<1>8. ASSUME h < v
      PROVE  x < v * w
  <2>1. h + 1 <= v
    BY <1>8
  <2>2. (h + 1) * w <= v * w
    BY <2>1
  <2> QED
    BY <2>2, <1>5
<1>9. hi(x) = h /\ lo(x) = l
  BY <1>1, <1>5 DEF hi, lo
<1>10. h >= v <=> x >= v * w
  <2>1. v * w \in Nat
    OBVIOUS
  <2> QED
    BY <2>1, <1>4, <1>7, <1>8
<1>11. hi(x) \in 0 .. Word - 1 /\ lo(x) \in 0 .. Word - 1
  BY <1>1, <1>5, <1>6, <1>9
<1>12. x = hi(x) * Word + lo(x)
  BY <1>1, <1>5, <1>9
<1>13. (hi(x) >= Word \div 2) <=> (x >= Long \div 2)
  BY <1>2, <1>3, <1>9, <1>10
<1> QED
  BY <1>11, <1>12, <1>13

(* What is read as a signed long, and its absolute value.                  *)
LEMMA Signs ==
    ASSUME NEW x \in 0 .. Long - 1
    PROVE  /\ Signed(x, Long) \in -(Long \div 2) .. Long \div 2 - 1
           /\ Signed(x, Long) = IF Negative(x) THEN x - Long ELSE x
           /\ Negative(x) => Signed(x, Long) < 0
           /\ ~Negative(x) => Signed(x, Long) >= 0
           /\ Abs(x) = IF Negative(x) THEN -Signed(x, Long) ELSE Signed(x, Long)
           /\ Abs(x) \in 0 .. Long \div 2
           /\ Signed(x, Long) = 0 <=> x = 0
<1>1. PICK H \in Nat \ {0} : H = Long \div 2 /\ Long = 2 * H
  BY Sizes
<1>2. x \in 0 .. 2 * H - 1
  BY <1>1
<1>3. Negative(x) <=> x >= H
  BY <1>1, Halves DEF Negative
<1>4. CASE x >= H
  <2>1. Signed(x, Long) = x - 2 * H
    BY <1>1, <1>4 DEF Signed
  <2>2. IsDivided(2 * H - x, 2 * H, 0, 2 * H - x)
    BY <1>2, <1>4 DEF IsDivided
  <2>3. (2 * H - x) % (2 * H) = 2 * H - x
    BY <2>2, DivMod
  <2>4. Abs(x) = 2 * H - x
    BY <2>3, <1>1, <1>3, <1>4 DEF Abs, Negated
  <2> QED
    BY <2>1, <2>4, <1>1, <1>2, <1>3, <1>4
<1>5. CASE ~(x >= H)
  <2>1. Signed(x, Long) = x
    BY <1>1, <1>5 DEF Signed
  <2>2. Abs(x) = x
    BY <1>3, <1>5 DEF Abs
  <2> QED
    BY <2>1, <2>2, <1>1, <1>2, <1>3, <1>5
<1> QED
  BY <1>4, <1>5

(* Numbers a whole number of longs apart are the same long.                *)
LEMMA SameLong ==
    ASSUME NEW x \in Int, NEW k \in Int, NEW r \in 0 .. Long - 1, x = k * Long + r
    PROVE  x % Long = r
<1>1. Long \in Nat \ {0}
  BY Sizes
<1>2. IsDivided(x, Long, k, r)
  BY <1>1 DEF IsDivided
<1> QED
  BY <1>2, DivMod

LEMMA NegatedIs ==
    ASSUME NEW q \in 0 .. Long - 1
    PROVE  Negated(q) = (-q) % Long
<1>1. Long \in Nat /\ Long > 1
  BY Sizes
<1>2. CASE q = 0
  BY <1>1, <1>2 DEF Negated
<1>3. CASE q # 0
  <2>1. Long - q \in 0 .. Long - 1
    BY <1>1, <1>3
  <2>2. (Long - q) % Long = Long - q
    BY <2>1, <1>1
  <2>3. -q = (-1) * Long + (Long - q)
    BY <1>1
  <2>4. (-q) % Long = Long - q
    BY <2>1, <2>3, SameLong
  <2> QED
    BY <2>2, <2>4 DEF Negated
<1> QED
  BY <1>2, <1>3

-----------------------------------------------------------------------------
(* lmul: what the words' products carry out of the pair is whole longs,    *)
(* and so is what the signs make of the product.                           *)
LEMMA MulIs ==
    ASSUME NEW x \in 0 .. Long - 1, NEW y \in 0 .. Long - 1
    PROVE  lmul(x, y) = (x * y) % Long
<1>1. PICK w \in Nat \ {0} : w = Word
  BY Sizes
<1>2. Long = w * w
  BY <1>1, Sizes
<1>3. PICK hx \in Nat, lx \in Nat : hx = hi(x) /\ lx = lo(x) /\ x = hx * w + lx
  <2>1. hi(x) \in 0 .. w - 1 /\ lo(x) \in 0 .. w - 1 /\ x = hi(x) * w + lo(x)
    BY <1>1, Halves
  <2> QED
    BY <2>1
<1>4. PICK hy \in Nat, ly \in Nat : hy = hi(y) /\ ly = lo(y) /\ y = hy * w + ly
  <2>1. hi(y) \in 0 .. w - 1 /\ lo(y) \in 0 .. w - 1 /\ y = hi(y) * w + lo(y)
    BY <1>1, Halves
  <2> QED
    BY <2>1
<1>5. PICK A \in Nat : A = hx * ly
  OBVIOUS
<1>6. PICK B \in Nat : B = lx * hy
  OBVIOUS
<1>7. PICK C \in Nat : C = lx * ly
  OBVIOUS
<1>8. PICK a1 \in Nat, a0 \in 0 .. w - 1 : a1 = A \div w /\ a0 = A % w /\ A = a1 * w + a0
  BY NatDivMod, Zenon
<1>9. PICK b1 \in Nat, b0 \in 0 .. w - 1 : b1 = B \div w /\ b0 = B % w /\ B = b1 * w + b0
  BY NatDivMod, Zenon
<1>10. PICK c1 \in Nat, c0 \in 0 .. w - 1 : c1 = C \div w /\ c0 = C % w /\ C = c1 * w + c0
  BY NatDivMod, Zenon
<1>11. PICK s \in Nat : s = a0 + b0
  OBVIOUS
<1>12. PICK s1 \in Nat, s0 \in 0 .. w - 1 : s1 = s \div w /\ s0 = s % w /\ s = s1 * w + s0
  BY NatDivMod, Zenon
<1>13. PICK t \in Nat : t = c1 + s0
  OBVIOUS
<1>14. PICK t1 \in Nat, t0 \in 0 .. w - 1 : t1 = t \div w /\ t0 = t % w /\ t = t1 * w + t0
  BY NatDivMod, Zenon
<1>15. lmul(x, y) = t0 * w + c0
  <2>1. lo(hi(x) * lo(y)) = a0 /\ lo(lo(x) * hi(y)) = b0
    BY <1>1, <1>3, <1>4, <1>5, <1>6, <1>8, <1>9 DEF lo
  <2>2. hi(lo(x) * lo(y)) = c1 /\ lo(lo(x) * lo(y)) = c0
    <3>1. C \div w = c1 /\ C % w = c0 /\ lo(x) * lo(y) = C
      BY <1>3, <1>4, <1>7, <1>10
    <3> QED
      BY <3>1, <1>1 DEF lo, hi
  <2>3. (lo(hi(x) * lo(y)) + lo(lo(x) * hi(y))) % Word = s0
    BY <2>1, <1>1, <1>11, <1>12
  <2>4. (hi(lo(x) * lo(y)) + s0) % Word = t0
    BY <2>2, <1>1, <1>13, <1>14
  <2>5. lmul(x, y) = t0 * Word + c0
    BY <2>2, <2>3, <2>4, Zenon DEF lmul
  <2> QED
    BY <2>5, <1>1
<1>16. t0 * w + c0 \in 0 .. w * w - 1
  <2>1. t0 + 1 <= w
    BY <1>14
  <2>2. (t0 + 1) * w <= w * w
    BY <2>1
  <2> QED
    BY <2>2, <1>10
<1>17. c1 + A + B = t0 + (t1 + s1 + a1 + b1) * w
  <2>1. PICK at \in Nat, bt \in Nat, st \in Nat, tt \in Nat :
          at = a1 * w /\ bt = b1 * w /\ st = s1 * w /\ tt = t1 * w
    OBVIOUS
  <2>2. (t1 + s1 + a1 + b1) * w = tt + st + at + bt
    BY <2>1
  <2>3. A = at + a0 /\ B = bt + b0 /\ s = st + s0 /\ t = tt + t0
    BY <2>1, <1>8, <1>9, <1>12, <1>14
  <2> QED
    BY <2>2, <2>3, <1>11, <1>13
<1>18. PICK k \in Int : k = hx * hy + (t1 + s1 + a1 + b1)
  OBVIOUS
<1>19. x * y = k * (w * w) + (t0 * w + c0)
  <2>1. x * y = (hx * hy) * (w * w) + (A + B) * w + C
    <3>1. x * y = (hx * w + lx) * (hy * w + ly)
      BY <1>3, <1>4
    <3>2. (hx * w + lx) * (hy * w + ly) = (hx * hy) * (w * w) + (hx * ly + lx * hy) * w + lx * ly
      OBVIOUS
    <3> QED
      BY <3>1, <3>2, <1>5, <1>6, <1>7
  <2>2. (A + B) * w + C = (c1 + A + B) * w + c0
    BY <1>10
  <2>3. PICK j \in Int : j = t1 + s1 + a1 + b1
    OBVIOUS
  <2>4. (c1 + A + B) * w = (t0 + j * w) * w
    BY <1>17, <2>3
  <2>5. (t0 + j * w) * w = t0 * w + j * (w * w)
    BY <2>3
  <2>6. x * y = (hx * hy) * (w * w) + j * (w * w) + t0 * w + c0
    BY <2>1, <2>2, <2>4, <2>5
  <2> QED
    BY <2>3, <2>6, <1>18
<1>20. PICK z \in Int : z = x * y
  BY <1>3, <1>4
<1>21. PICK r \in Nat : r = t0 * w + c0
  BY <1>14, <1>10
<1>22. r \in 0 .. Long - 1 /\ z = k * Long + r
  BY <1>2, <1>16, <1>19, <1>20, <1>21
<1>23. z % Long = r
  BY <1>22, SameLong
<1> QED
  BY <1>15, <1>20, <1>21, <1>23

LEMMA MulSigned ==
    ASSUME NEW x \in 0 .. Long - 1, NEW y \in 0 .. Long - 1
    PROVE  lmul(x, y) = (Signed(x, Long) * Signed(y, Long)) % Long
<1>1. PICK L \in Nat \ {0} : L = Long
  BY Sizes
<1>2. PICK s \in 0 .. 1, u \in Int : u = Signed(x, Long) /\ u = x - s * L
  <2>1. Signed(x, Long) = x - 0 * L \/ Signed(x, Long) = x - 1 * L
    BY <1>1 DEF Signed
  <2> QED
    BY <2>1, <1>1
<1>3. PICK t \in 0 .. 1, v \in Int : v = Signed(y, Long) /\ v = y - t * L
  <2>1. Signed(y, Long) = y - 0 * L \/ Signed(y, Long) = y - 1 * L
    BY <1>1 DEF Signed
  <2> QED
    BY <2>1, <1>1
<1>4. x \in Int /\ y \in Int
  BY <1>1
<1>5. PICK z \in Int : z = x * y
  BY <1>4
<1>6. PICK j \in Int, r \in 0 .. L - 1 : j = z \div L /\ r = z % L /\ z = j * L + r
  BY HasDivMod, Zenon
<1>7. PICK k \in Int : k = j - s * y - t * x + s * t * L
  BY <1>4
<1>8. u * v = k * L + r
  <2>1. ASSUME NEW p \in Int, NEW q \in Int
        PROVE  (p - s * L) * (q - t * L) = p * q - s * L * q - t * L * p + s * t * L * L
    OBVIOUS
  <2>2. u * v = x * y - s * L * y - t * L * x + s * t * L * L
    BY <2>1, <1>2, <1>3, <1>4
  <2>3. k * L = j * L - s * y * L - t * x * L + s * t * L * L
    BY <1>7, <1>4
  <2>4. s * L * y = s * y * L /\ t * L * x = t * x * L
    BY <1>4
  <2>5. PICK e1 \in Int, e2 \in Int, e3 \in Int, e4 \in Int :
          e1 = s * y * L /\ e2 = t * x * L /\ e3 = s * t * L * L /\ e4 = j * L
    BY <1>4
  <2>6. u * v = z - e1 - e2 + e3
    BY <2>2, <2>4, <2>5, <1>5
  <2>7. k * L = e4 - e1 - e2 + e3
    BY <2>3, <2>5
  <2>8. z = e4 + r
    BY <2>5, <1>6
  <2>9. PICK g \in Int, m \in Int : g = u * v /\ m = k * L
    OBVIOUS
  <2>10. g = m + r
    BY <2>5, <2>6, <2>7, <2>8, <2>9
  <2> QED
    BY <2>9, <2>10
<1>9. PICK e \in Int : e = u * v
  OBVIOUS
<1>10. e % Long = r
  BY <1>1, <1>6, <1>8, <1>9, SameLong
<1>11. (x * y) % Long = r
  BY <1>1, <1>5, <1>6
<1> QED
  BY <1>2, <1>3, <1>9, <1>10, <1>11, MulIs

-----------------------------------------------------------------------------
(* The signed divisions divide the absolute values, which are both         *)
(* divisors that the loop can do, the smallest long's too.                 *)
LEMMA SignedDivisions ==
    ASSUME NEW x \in 0 .. Long - 1, NEW y \in 0 .. Long - 1, y # 0
    PROVE  /\ ldiv(x, y) = Quot(Signed(x, Long), Signed(y, Long)) % Long
           /\ lmod(x, y) =
                (Signed(x, Long) - Signed(y, Long) * Quot(Signed(x, Long), Signed(y, Long))) % Long
<1>1. PICK H \in Nat \ {0} : H = Long \div 2 /\ Long = 2 * H
  BY Sizes
<1>2. PICK u \in Int : u = Signed(x, Long)
  BY <1>1, Signs
<1>3. PICK v \in Int : v = Signed(y, Long)
  BY <1>1, Signs
<1>4. PICK A \in 0 .. H : A = Abs(x)
  BY <1>1, Signs
<1>5. PICK d \in 0 .. H : d = Abs(y)
  BY <1>1, Signs
<1>6. /\ Negative(x) => u < 0 /\ A = -u
      /\ ~Negative(x) => u >= 0 /\ A = u
  BY <1>2, <1>4, Signs
<1>7. /\ Negative(y) => v < 0 /\ d = -v
      /\ ~Negative(y) => v >= 0 /\ d = v
  BY <1>3, <1>5, Signs
<1>8. v # 0 /\ d \in 1 .. H
  <2>1. v # 0
    BY <1>3, Signs
  <2> QED
    BY <2>1, <1>5, <1>7
<1>9. PICK q \in Nat, r \in 0 .. d - 1 : q = A \div d /\ r = A % d /\ A = q * d + r
  <2>1. A \in Nat /\ d \in Nat \ {0}
    BY <1>8
  <2> QED
    BY <2>1, NatDivMod, Zenon
<1>10. q <= A
  BY <1>8, <1>9
<1>11. q \in 0 .. Long - 1 /\ r \in 0 .. Long - 1 /\ A \in 0 .. Long - 1
  <2>1. A <= H /\ d <= H /\ r < d /\ H < 2 * H
    BY <1>4, <1>5, <1>8, <1>9
  <2>2. H \in Nat /\ A \in Nat /\ d \in Nat /\ r \in Nat /\ q \in Nat
    BY <1>4, <1>5, <1>8, <1>9
  <2> QED
    BY <2>1, <2>2, <1>1, <1>10
<1>12. DivLoop(Abs(x), Abs(y)).quot = q /\ DivLoop(Abs(x), Abs(y)).rem = r
  <2>1. DivLoop(A, d).quot = A \div d /\ DivLoop(A, d).rem = A % d
    BY <1>1, <1>8, <1>11, LoopDivides
  <2> QED
    BY <2>1, <1>4, <1>5, <1>9
<1>13. ldiv(x, y) = IF Negative(x) /= Negative(y) THEN Negated(q) ELSE q
  BY <1>12 DEF ldiv
<1>14. lmod(x, y) = IF Negative(x) THEN Negated(r) ELSE r
  BY <1>12 DEF lmod
<1>15. q % Long = q /\ r % Long = r /\ Negated(q) = (-q) % Long /\ Negated(r) = (-r) % Long
  <2>1. IsDivided(q, Long, 0, q) /\ IsDivided(r, Long, 0, r)
    BY <1>1, <1>11 DEF IsDivided
  <2> QED
    BY <2>1, <1>11, DivMod, NegatedIs
<1>16. A - d * q = r /\ d * q \in Int
  BY <1>8, <1>9
<1>17. CASE Negative(x) /\ Negative(y)
  <2>1. u < 0 /\ A = -u /\ v < 0 /\ d = -v
    BY <1>6, <1>7, <1>17
  <2>2. Quot(u, v) = q
    BY <2>1, <1>9 DEF Quot
  <2>3. u - v * q = -r
    BY <2>1, <1>16
  <2>4. ldiv(x, y) = q /\ lmod(x, y) = Negated(r)
    BY <1>13, <1>14, <1>17
  <2> QED
    BY <2>2, <2>3, <2>4, <1>2, <1>3, <1>15
<1>18. CASE Negative(x) /\ ~Negative(y)
  <2>1. u < 0 /\ A = -u /\ v > 0 /\ d = v
    BY <1>6, <1>7, <1>8, <1>18
  <2>2. Quot(u, v) = -q
    BY <2>1, <1>9 DEF Quot
  <2>3. u - v * (-q) = -r
    BY <2>1, <1>16
  <2>4. ldiv(x, y) = Negated(q) /\ lmod(x, y) = Negated(r)
    BY <1>13, <1>14, <1>18
  <2> QED
    BY <2>2, <2>3, <2>4, <1>2, <1>3, <1>15
<1>19. CASE ~Negative(x) /\ Negative(y)
  <2>1. u >= 0 /\ A = u /\ v < 0 /\ d = -v
    BY <1>6, <1>7, <1>19
  <2>2. Quot(u, v) = -q
    BY <2>1, <1>9 DEF Quot
  <2>3. u - v * (-q) = r
    BY <2>1, <1>16
  <2>4. ldiv(x, y) = Negated(q) /\ lmod(x, y) = r
    BY <1>13, <1>14, <1>19
  <2> QED
    BY <2>2, <2>3, <2>4, <1>2, <1>3, <1>15
<1>20. CASE ~Negative(x) /\ ~Negative(y)
  <2>1. u >= 0 /\ A = u /\ v > 0 /\ d = v
    BY <1>6, <1>7, <1>8, <1>20
  <2>2. Quot(u, v) = q
    BY <2>1, <1>9 DEF Quot
  <2>3. u - v * q = r
    BY <2>1, <1>16
  <2>4. ldiv(x, y) = q /\ lmod(x, y) = r
    <3>1. Negative(x) = FALSE /\ Negative(y) = FALSE
      BY <1>20 DEF Negative
    <3> QED
      BY <3>1, <1>13, <1>14
  <2> QED
    BY <2>2, <2>3, <2>4, <1>2, <1>3, <1>15
<1> QED
  BY <1>17, <1>18, <1>19, <1>20

LEMMA UnsignedDivisions ==
    ASSUME NEW x \in 0 .. Long - 1, NEW y \in 0 .. Long - 1, y # 0
    PROVE  uldiv(x, y) = x \div y /\ ulmod(x, y) = x % y
<1>1. y \in 1 .. Long - 1
  BY Sizes
<1> QED
  BY <1>1, LoopDivides DEF uldiv, ulmod

(* _udiv3216 leaves in DX what the first division leaves, and so the       *)
(* second takes up where it ended.                                         *)
LEMMA WordDivides ==
    ASSUME NEW x \in 0 .. Long - 1, NEW d \in 1 .. Word - 1
    PROVE  udiv3216(x, d).quot = x \div d
<1>1. PICK w \in Nat \ {0} : w = Word
  BY Sizes
<1>2. PICK h \in Nat, l \in Nat : h = hi(x) /\ l = lo(x) /\ x = h * w + l
  <2>1. hi(x) \in 0 .. w - 1 /\ lo(x) \in 0 .. w - 1 /\ x = hi(x) * w + lo(x)
    BY <1>1, Halves
  <2> QED
    BY <2>1
<1>3. d \in Nat \ {0}
  BY <1>1
<1>4. PICK k \in Nat, r \in 0 .. d - 1 : k = h \div d /\ r = h % d /\ h = k * d + r
  BY <1>3, NatDivMod, Zenon
<1>5. PICK mid \in Nat : mid = r * w + l
  BY <1>4, <1>3
<1>6. PICK j \in Nat, s \in 0 .. d - 1 : j = mid \div d /\ s = mid % d /\ mid = j * d + s
  BY <1>3, NatDivMod, Zenon
<1>7. udiv3216(x, d).quot = k * w + j
  <2>1. (hi(x) % d) * Word + lo(x) = mid /\ hi(x) \div d = k
    BY <1>1, <1>2, <1>4, <1>5
  <2>2. udiv3216(x, d).quot = k * Word + mid \div d
    BY <2>1 DEF udiv3216
  <2> QED
    BY <2>2, <1>1, <1>6
<1>8. x = (k * w + j) * d + s
  <2>1. x = (k * d + r) * w + l
    BY <1>2, <1>4
  <2>2. (k * d + r) * w + l = (k * w) * d + (r * w + l)
    BY <1>3, <1>4
  <2>3. (k * w + j) * d + s = (k * w) * d + (j * d + s)
    BY <1>3, <1>6
  <2> QED
    BY <2>1, <2>2, <2>3, <1>5, <1>6
<1>9. PICK n \in Nat : n = k * w + j
  OBVIOUS
<1>10. IsDivided(x, d, n, s)
  <2>1. x \in Int
    BY <1>2
  <2> QED
    BY <2>1, <1>3, <1>6, <1>8, <1>9 DEF IsDivided
<1>11. x \div d = n
  BY <1>10, DivMod
<1> QED
  BY <1>7, <1>9, <1>11

-----------------------------------------------------------------------------
(* The shifts, bit for bit: what the count's last bit leaves.              *)
Lefted(x) == LET by[n \in 0..LongBits] == IF n = 0 THEN x ELSE SHL(by[n - 1]) IN by
Righted(x) == LET by[n \in 0..LongBits] == IF n = 0 THEN x ELSE SHR(by[n - 1]) IN by
Signedly(x) == LET by[n \in 0..LongBits] == IF n = 0 THEN x ELSE SAR(by[n - 1]) IN by

(* A count is one of 0 .. LongBits, and the power of two is that many      *)
(* doublings of one.                                                       *)
LEMMA Counts ==
    /\ LongBits \in Nat
    /\ \A n \in 1 .. LongBits :
         /\ n - 1 \in 0 .. LongBits /\ n \in 0 .. LongBits /\ n # 0
         /\ \E N \in Nat \ {0} : N = Two[n - 1] /\ Two[n] = 2 * N
    /\ \A n \in 0 .. LongBits : Two[n] \in Nat \ {0} /\ Two[n] = 2^n
    /\ Two[0] = 1
<1>1. LongBits \in Nat /\ LongBits <= 32
  BY Sizes
<1>2. ASSUME NEW n \in 1 .. LongBits
      PROVE  /\ n - 1 \in 0 .. LongBits /\ n \in 0 .. LongBits /\ n # 0
             /\ \E N \in Nat \ {0} : N = Two[n - 1] /\ Two[n] = 2 * N
  <2>1. n - 1 \in 0 .. 31 /\ n - 1 \in 0 .. 32 /\ (n - 1) + 1 = n
    BY <1>1
  <2>2. Two[(n - 1) + 1] = 2 * Two[n - 1] /\ Two[n - 1] \in Nat \ {0}
    BY <2>1, Doubles
  <2> QED
    BY <1>1, <2>1, <2>2
<1>3. ASSUME NEW n \in 0 .. LongBits
      PROVE  Two[n] \in Nat \ {0} /\ Two[n] = 2^n
  <2>1. n \in 0 .. 32
    BY <1>1
  <2>2. 2^n = Two[n] /\ Two[n] \in Nat /\ Two[n] > 0
    BY <2>1, Doubles, Zenon
  <2> QED
    BY <2>2
<1> QED
  BY <1>1, <1>2, <1>3, Twos

LEMMA LeftedIs ==
    ASSUME NEW x \in 0 .. Long - 1
    PROVE  \A n \in 0 .. LongBits : Lefted(x)[n] = (x * Two[n]) % Long
<1>1. PICK L \in Nat \ {0} : L = Long
  BY Sizes
<1> DEFINE g == [n \in 0 .. LongBits |-> (x * Two[n]) % Long]
<1>2. g[0] = x
  <2>1. IsDivided(x * 1, Long, 0, x)
    BY <1>1 DEF IsDivided
  <2>2. (x * 1) % Long = x
    BY <2>1, DivMod
  <2> QED
    BY <2>2, Counts
<1>3. ASSUME NEW n \in 1 .. LongBits
      PROVE  g[n] = SHL(g[n - 1])
  <2>1. PICK N \in Nat \ {0} : N = Two[n - 1] /\ Two[n] = 2 * N
    BY Counts
  <2>2. PICK z \in Nat : z = x * N
    BY <1>1
  <2>3. PICK k \in Nat, r \in 0 .. L - 1 : k = z \div L /\ r = z % L /\ z = k * L + r
    BY NatDivMod, Zenon
  <2>4. PICK j \in Nat, s \in 0 .. L - 1 : j = (2 * r) \div L /\ s = (2 * r) % L /\ 2 * r = j * L + s
    <3>1. 2 * r \in Nat
      OBVIOUS
    <3> QED
      BY <3>1, NatDivMod, Zenon
  <2>5. x * (2 * N) = (2 * k + j) * L + s
    <3>1. x * (2 * N) = 2 * z
      BY <2>2, <1>1
    <3>2. PICK kl \in Nat, jl \in Nat : kl = k * L /\ jl = j * L
      OBVIOUS
    <3>3. (2 * k + j) * L = 2 * kl + jl
      BY <3>2
    <3> QED
      BY <3>1, <3>2, <3>3, <2>3, <2>4
  <2>6. PICK y \in Nat, i \in Nat : y = x * (2 * N) /\ i = 2 * k + j
    BY <1>1
  <2>7. y % Long = s
    BY <1>1, <2>5, <2>6, SameLong
  <2>8. g[n] = s
    BY <2>1, <2>6, <2>7, Counts
  <2>9. g[n - 1] = r
    BY <2>1, <2>2, <2>3, <1>1, Counts
  <2> QED
    BY <2>4, <2>8, <2>9, <1>1 DEF SHL
<1>4. g = [n \in 0 .. LongBits |-> IF n = 0 THEN x ELSE SHL(g[n - 1])]
  <2>1. ASSUME NEW n \in 0 .. LongBits
        PROVE  g[n] = IF n = 0 THEN x ELSE SHL(g[n - 1])
    <3>1. n = 0 \/ n \in 1 .. LongBits
      BY Counts
    <3> HIDE DEF g
    <3> QED
      BY <3>1, <1>2, <1>3
  <2>2. \A n \in 0 .. LongBits : g[n] = IF n = 0 THEN x ELSE SHL(g[n - 1])
    BY <2>1
  <2>3. g = [n \in 0 .. LongBits |-> g[n]]
    OBVIOUS
  <2> HIDE DEF g
  <2> QED
    BY <2>2, <2>3
<1> HIDE DEF g
<1>5. \E h : h = [n \in 0 .. LongBits |-> IF n = 0 THEN x ELSE SHL(h[n - 1])]
  BY <1>4
<1>6. Lefted(x) = [n \in 0 .. LongBits |-> IF n = 0 THEN x ELSE SHL(Lefted(x)[n - 1])]
  BY <1>5 DEF Lefted
<1>7. PICK f : f = Lefted(x)
  OBVIOUS
<1>8. GoAlike(f, g, LongBits)
  BY <1>2, <1>3, <1>6, <1>7, Counts DEF GoAlike
<1>9. \A n \in 0 .. LongBits : f[n] = g[n]
  BY <1>8, Agree
<1> QED
  BY <1>7, <1>9 DEF g

LEMMA RightedIs ==
    ASSUME NEW x \in 0 .. Long - 1
    PROVE  \A n \in 0 .. LongBits : Righted(x)[n] = x \div Two[n]
<1>1. Long \in Nat \ {0} /\ x \in Nat
  BY Sizes
<1> DEFINE g == [n \in 0 .. LongBits |-> x \div Two[n]]
<1>2. g[0] = x
  <2>1. x \div 1 = x
    BY <1>1
  <2> QED
    BY <2>1, Counts
<1>3. ASSUME NEW n \in 1 .. LongBits
      PROVE  g[n] = SHR(g[n - 1])
  <2>1. PICK N \in Nat \ {0} : N = Two[n - 1] /\ Two[n] = 2 * N
    BY Counts
  <2>2. PICK k \in Nat, r \in 0 .. N - 1 : k = x \div N /\ r = x % N /\ x = k * N + r
    BY <1>1, NatDivMod, Zenon
  <2>3. PICK j \in Nat, s \in 0 .. 1 : j = k \div 2 /\ k = j * 2 + s
    OBVIOUS
  <2>4. PICK i \in Nat, M \in Nat \ {0} : i = s * N + r /\ M = 2 * N
    <3>1. s * N \in Nat /\ 2 * N \in Nat \ {0}
      OBVIOUS
    <3> QED
      BY <3>1, <2>2
  <2>5. i \in 0 .. M - 1
    <3>1. s * N <= N
      OBVIOUS
    <3> QED
      BY <3>1, <2>2, <2>4
  <2>6. x = j * M + i
    <3>1. (j * 2 + s) * N + r = j * (2 * N) + (s * N + r)
      BY <2>2
    <3> QED
      BY <3>1, <2>2, <2>3, <2>4
  <2>7. IsDivided(x, M, j, i)
    BY <1>1, <2>5, <2>6 DEF IsDivided
  <2>8. x \div M = j
    BY <2>7, DivMod
  <2>9. g[n] = j
    BY <2>1, <2>4, <2>8, Counts
  <2>10. g[n - 1] = k
    BY <2>1, <2>2, Counts
  <2> QED
    BY <2>3, <2>9, <2>10 DEF SHR
<1>4. g = [n \in 0 .. LongBits |-> IF n = 0 THEN x ELSE SHR(g[n - 1])]
  <2>1. ASSUME NEW n \in 0 .. LongBits
        PROVE  g[n] = IF n = 0 THEN x ELSE SHR(g[n - 1])
    <3>1. n = 0 \/ n \in 1 .. LongBits
      BY Counts
    <3> HIDE DEF g
    <3> QED
      BY <3>1, <1>2, <1>3
  <2>2. \A n \in 0 .. LongBits : g[n] = IF n = 0 THEN x ELSE SHR(g[n - 1])
    BY <2>1
  <2>3. g = [n \in 0 .. LongBits |-> g[n]]
    OBVIOUS
  <2> HIDE DEF g
  <2> QED
    BY <2>2, <2>3
<1> HIDE DEF g
<1>5. \E h : h = [n \in 0 .. LongBits |-> IF n = 0 THEN x ELSE SHR(h[n - 1])]
  BY <1>4
<1>6. Righted(x) = [n \in 0 .. LongBits |-> IF n = 0 THEN x ELSE SHR(Righted(x)[n - 1])]
  BY <1>5 DEF Righted
<1>7. PICK f : f = Righted(x)
  OBVIOUS
<1>8. GoAlike(f, g, LongBits)
  BY <1>2, <1>3, <1>6, <1>7, Counts DEF GoAlike
<1>9. \A n \in 0 .. LongBits : f[n] = g[n]
  BY <1>8, Agree
<1> QED
  BY <1>7, <1>9 DEF g

LEMMA SignedlyIs ==
    ASSUME NEW x \in 0 .. Long - 1
    PROVE  \A n \in 0 .. LongBits : Signedly(x)[n] = (Signed(x, Long) \div Two[n]) % Long
<1>1. PICK H \in Nat \ {0} : H = Long \div 2 /\ Long = 2 * H
  BY Sizes
<1>10. PICK u \in -H .. H - 1 : u = Signed(x, Long)
  BY <1>1, Signs
<1>11. u \in Int /\ x = IF u < 0 THEN u + 2 * H ELSE u
  <2>1. (u = x - Long /\ u < 0) \/ (u = x /\ u >= 0)
    BY <1>10, Signs
  <2> QED
    BY <2>1, <1>1
\* A number of half the longs, and the long it is.
<1>12. ASSUME NEW k \in -H .. H - 1
       PROVE  k % Long = IF k < 0 THEN k + 2 * H ELSE k
  <2>1. CASE k < 0
    <3>1. IsDivided(k, Long, -1, k + 2 * H)
      BY <1>1, <2>1 DEF IsDivided
    <3> QED
      BY <3>1, <2>1, DivMod
  <2>2. CASE ~(k < 0)
    <3>1. IsDivided(k, Long, 0, k)
      BY <1>1, <2>2 DEF IsDivided
    <3> QED
      BY <3>1, <2>2, DivMod
  <2> QED
    BY <2>1, <2>2
<1> DEFINE g == [n \in 0 .. LongBits |-> (u \div Two[n]) % Long]
<1>2. g[0] = x
  <2>1. u \div 1 = u
    BY <1>11
  <2> QED
    BY <2>1, <1>11, <1>12, Counts
<1>3. ASSUME NEW n \in 1 .. LongBits
      PROVE  g[n] = SAR(g[n - 1])
  <2>1. PICK N \in Nat \ {0} : N = Two[n - 1] /\ Two[n] = 2 * N
    BY Counts
  <2>2. PICK k \in Int, r \in 0 .. N - 1 : k = u \div N /\ r = u % N /\ u = k * N + r
    BY <1>11, HasDivMod, Zenon
  <2>3. k >= -H
    <3>1. SUFFICES ASSUME k + 1 <= -H PROVE FALSE
      OBVIOUS
    <3>2. (k + 1) * N <= (-H) * N
      BY <3>1
    <3>3. (-H) * N <= -H
      OBVIOUS
    <3>4. (k + 1) * N = k * N + N
      OBVIOUS
    <3> QED
      BY <3>2, <3>3, <3>4, <2>2
  <2>4. k < H
    <3>1. SUFFICES ASSUME k >= H PROVE FALSE
      OBVIOUS
    <3>2. k * N >= H * N /\ H * N >= H
      BY <3>1
    <3> QED
      BY <3>2, <2>2
  <2>5. PICK j \in Int, s \in 0 .. 1 : j = k \div 2 /\ k = j * 2 + s
    OBVIOUS
  <2>6. PICK i \in Nat, M \in Nat \ {0} : i = s * N + r /\ M = 2 * N
    <3>1. s * N \in Nat /\ 2 * N \in Nat \ {0}
      OBVIOUS
    <3> QED
      BY <3>1, <2>2
  <2>7. i \in 0 .. M - 1
    <3>1. s * N <= N
      OBVIOUS
    <3> QED
      BY <3>1, <2>2, <2>6
  <2>8. u = j * M + i
    <3>1. (j * 2 + s) * N + r = j * (2 * N) + (s * N + r)
      BY <2>2
    <3> QED
      BY <3>1, <2>2, <2>5, <2>6
  <2>9. IsDivided(u, M, j, i)
    BY <1>11, <2>7, <2>8 DEF IsDivided
  <2>10. u \div M = j
    BY <2>9, DivMod
  <2>11. g[n] = j % Long
    BY <2>1, <2>6, <2>10, Counts
  <2>12. g[n - 1] = k % Long
    BY <2>1, <2>2, Counts
  <2>13. k \in -H .. H - 1 /\ j \in -H .. H - 1 /\ (k < 0 <=> j < 0)
    BY <2>3, <2>4, <2>5
  <2>14. PICK y \in 0 .. Long - 1 : y = k % Long
    BY <1>1
  <2>15. Negative(y) <=> y >= H
    BY <1>1, Halves DEF Negative
  <2>16. CASE k < 0
    <3>1. y = k + 2 * H
      BY <1>12, <2>13, <2>14, <2>16
    <3>2. IsDivided(y, 2, j + H, s)
      BY <2>5, <3>1 DEF IsDivided
    <3>3. y \div 2 = j + H
      BY <3>2, DivMod
    <3>4. SAR(y) = (j + H) + H
      BY <1>1, <2>13, <2>15, <3>1, <3>3 DEF SAR
    <3>5. j % Long = j + 2 * H
      BY <1>12, <2>13, <2>16
    <3> QED
      BY <2>11, <2>12, <2>14, <3>4, <3>5
  <2>17. CASE ~(k < 0)
    <3>1. y = k
      BY <1>12, <2>13, <2>14, <2>17
    <3>2. SAR(y) = j + 0
      BY <2>5, <2>13, <2>15, <3>1 DEF SAR
    <3>3. j % Long = j
      BY <1>12, <2>13, <2>17
    <3> QED
      BY <2>11, <2>12, <2>14, <3>2, <3>3
  <2> QED
    BY <2>16, <2>17
<1>4. g = [n \in 0 .. LongBits |-> IF n = 0 THEN x ELSE SAR(g[n - 1])]
  <2>1. ASSUME NEW n \in 0 .. LongBits
        PROVE  g[n] = IF n = 0 THEN x ELSE SAR(g[n - 1])
    <3>1. n = 0 \/ n \in 1 .. LongBits
      BY Counts
    <3> HIDE DEF g
    <3> QED
      BY <3>1, <1>2, <1>3
  <2>2. \A n \in 0 .. LongBits : g[n] = IF n = 0 THEN x ELSE SAR(g[n - 1])
    BY <2>1
  <2>3. g = [n \in 0 .. LongBits |-> g[n]]
    OBVIOUS
  <2> HIDE DEF g
  <2> QED
    BY <2>2, <2>3
<1> HIDE DEF g
<1>5. \E h : h = [n \in 0 .. LongBits |-> IF n = 0 THEN x ELSE SAR(h[n - 1])]
  BY <1>4
<1>6. Signedly(x) = [n \in 0 .. LongBits |-> IF n = 0 THEN x ELSE SAR(Signedly(x)[n - 1])]
  BY <1>5 DEF Signedly
<1>7. PICK f : f = Signedly(x)
  OBVIOUS
<1>8. GoAlike(f, g, LongBits)
  BY <1>2, <1>3, <1>6, <1>7, Counts DEF GoAlike
<1>9. \A n \in 0 .. LongBits : f[n] = g[n]
  BY <1>8, Agree
<1> QED
  BY <1>7, <1>9, <1>10 DEF g

(* The shifts are multiplications and divisions by powers of two: the      *)
(* count is taken out of the lower word, which loses none of it.           *)
LEMMA Shifts ==
    ASSUME NEW x \in 0 .. Long - 1, NEW c \in 0 .. Long - 1
    PROVE  /\ lshl(x, c) = Times(x, c % LongBits) % Long
           /\ lshr(x, c) = x \div Times(1, c % LongBits)
           /\ lsar(x, c) = (Signed(x, Long) \div Times(1, c % LongBits)) % Long
<1>1. c \in Nat /\ LongBits \in Nat \ {0} /\ Long \in Nat
  BY Sizes
<1>2. PICK n \in 0 .. LongBits : n = c % LongBits
  BY <1>1
<1>3. Count(c) = n
  BY <1>1, <1>2, Sizes DEF Count, lo
<1>4. PICK N \in Nat \ {0} : N = Two[n] /\ N = 2^n
  BY Counts
<1>5. Times(x, n) = x * N /\ Times(1, n) = N
  BY <1>4 DEF Times
<1>6. lshl(x, c) = Lefted(x)[n] /\ lshr(x, c) = Righted(x)[n] /\ lsar(x, c) = Signedly(x)[n]
  BY <1>3 DEF lshl, lshr, lsar, Lefted, Righted, Signedly
<1>7. Lefted(x)[n] = (x * N) % Long
  BY <1>4, LeftedIs
<1>8. Righted(x)[n] = x \div N
  BY <1>4, RightedIs
<1>9. Signedly(x)[n] = (Signed(x, Long) \div N) % Long
  BY <1>4, SignedlyIs
<1> QED
  BY <1>2, <1>5, <1>6, <1>7, <1>8, <1>9

-----------------------------------------------------------------------------
(* Two numbers of two words each are compared like words in a dictionary.  *)
LEMMA Dictionary ==
    ASSUME NEW w \in Nat \ {0}, NEW p \in Int, NEW q \in Int, NEW l \in 0 .. w - 1, NEW m \in 0 .. w - 1
    PROVE  (p * w + l > q * w + m) <=> (p > q \/ (p = q /\ l > m))
<1>1. CASE p > q
  <2>1. p >= q + 1
    BY <1>1
  <2>2. p * w >= (q + 1) * w
    BY <2>1
  <2>3. (q + 1) * w = q * w + w
    OBVIOUS
  <2>4. p * w + l > q * w + m
    BY <2>2, <2>3
  <2> QED
    BY <1>1, <2>4
<1>2. CASE p = q
  BY <1>2
<1>3. CASE p < q
  <2>1. p + 1 <= q
    BY <1>3
  <2>2. (p + 1) * w <= q * w
    BY <2>1
  <2>3. (p + 1) * w = p * w + w
    OBVIOUS
  <2>4. p * w + l < q * w + m
    BY <2>2, <2>3
  <2> QED
    BY <1>3, <2>4
<1> QED
  BY <1>1, <1>2, <1>3

(* The comparisons of the words are those of the longs.                    *)
LEMMA Comparisons ==
    ASSUME NEW x \in 0 .. Long - 1, NEW y \in 0 .. Long - 1
    PROVE  /\ Above(x, y, FALSE) <=> x > y
           /\ Above(x, y, TRUE) <=> Signed(x, Long) > Signed(y, Long)
           /\ (hi(x) = hi(y) /\ lo(x) = lo(y)) <=> x = y
           /\ (lo(x) = 0 /\ hi(x) = 0) <=> x = 0
<1>1. PICK w \in Nat \ {0} : w = Word
  BY Sizes
<1>2. PICK v \in Nat : v = Word \div 2 /\ w = 2 * v
  BY <1>1, Sizes
<1>3. Long = w * w /\ x \in Int /\ y \in Int
  BY <1>1, Sizes
<1>4. PICK p \in 0 .. w - 1, l \in 0 .. w - 1 : p = hi(x) /\ l = lo(x) /\ x = p * w + l
  <2>1. hi(x) \in 0 .. w - 1 /\ lo(x) \in 0 .. w - 1 /\ x = hi(x) * w + lo(x)
    BY <1>1, Halves
  <2> QED
    BY <2>1
<1>5. PICK q \in 0 .. w - 1, m \in 0 .. w - 1 : q = hi(y) /\ m = lo(y) /\ y = q * w + m
  <2>1. hi(y) \in 0 .. w - 1 /\ lo(y) \in 0 .. w - 1 /\ y = hi(y) * w + lo(y)
    BY <1>1, Halves
  <2> QED
    BY <2>1
<1>6. x > y <=> (p > q \/ (p = q /\ l > m))
  <2>1. p \in Int /\ q \in Int
    OBVIOUS
  <2> QED
    BY <2>1, <1>4, <1>5, Dictionary
<1>7. Above(x, y, FALSE) <=> x > y
  <2>1. Above(x, y, FALSE) <=> (p > q \/ (p = q /\ l > m))
    BY <1>4, <1>5 DEF Above
  <2> QED
    BY <2>1, <1>6
<1>8. PICK p1 \in Int : p1 = Signed(hi(x), Word) /\ Signed(x, Long) = p1 * w + l
  <2>1. (p >= v) <=> (x >= Long \div 2)
    BY <1>2, <1>4, Halves
  <2>2. CASE p >= v
    <3>1. Signed(hi(x), Word) = p - w
      BY <1>1, <1>2, <1>4, <2>2 DEF Signed
    <3>2. Signed(x, Long) = x - Long
      BY <2>1, <2>2 DEF Signed
    <3>3. x - Long = (p - w) * w + l
      BY <1>3, <1>4
    <3> QED
      BY <3>1, <3>2, <3>3
  <2>3. CASE ~(p >= v)
    <3>1. Signed(hi(x), Word) = p
      BY <1>1, <1>2, <1>4, <2>3 DEF Signed
    <3>2. Signed(x, Long) = x
      BY <2>1, <2>3 DEF Signed
    <3> QED
      BY <3>1, <3>2, <1>4
  <2> QED
    BY <2>2, <2>3
<1>9. PICK q1 \in Int : q1 = Signed(hi(y), Word) /\ Signed(y, Long) = q1 * w + m
  <2>1. (q >= v) <=> (y >= Long \div 2)
    BY <1>2, <1>5, Halves
  <2>2. CASE q >= v
    <3>1. Signed(hi(y), Word) = q - w
      BY <1>1, <1>2, <1>5, <2>2 DEF Signed
    <3>2. Signed(y, Long) = y - Long
      BY <2>1, <2>2 DEF Signed
    <3>3. y - Long = (q - w) * w + m
      BY <1>3, <1>5
    <3> QED
      BY <3>1, <3>2, <3>3
  <2>3. CASE ~(q >= v)
    <3>1. Signed(hi(y), Word) = q
      BY <1>1, <1>2, <1>5, <2>3 DEF Signed
    <3>2. Signed(y, Long) = y
      BY <2>1, <2>3 DEF Signed
    <3> QED
      BY <3>1, <3>2, <1>5
  <2> QED
    BY <2>2, <2>3
<1>10. Above(x, y, TRUE) <=> Signed(x, Long) > Signed(y, Long)
  <2>1. Above(x, y, TRUE) <=> (p1 > q1 \/ (p1 = q1 /\ l > m))
    BY <1>4, <1>5, <1>8, <1>9 DEF Above
  <2>2. (p1 * w + l > q1 * w + m) <=> (p1 > q1 \/ (p1 = q1 /\ l > m))
    BY Dictionary
  <2> QED
    BY <2>1, <2>2, <1>8, <1>9
<1>11. (hi(x) = hi(y) /\ lo(x) = lo(y)) <=> x = y
  BY <1>4, <1>5
<1>12. (lo(x) = 0 /\ hi(x) = 0) <=> x = 0
  <2>1. ASSUME x = 0
        PROVE  p = 0 /\ l = 0
    <3>1. p * w >= p
      OBVIOUS
    <3> QED
      BY <2>1, <3>1, <1>4
  <2>2. p = 0 /\ l = 0 => x = 0
    BY <1>4
  <2> QED
    BY <2>1, <2>2, <1>4
<1> QED
  BY <1>7, <1>10, <1>11, <1>12

-----------------------------------------------------------------------------
(* The operands are longs, and they stay.                                  *)
LongInv == a \in 0 .. Long - 1 /\ b \in 0 .. Long - 1 /\ Computes

(* The divisions, the product and the shifts leave what is meant.          *)
LEMMA CallComputes ==
    ASSUME LongInv, NEW routine \in Routines, Call(routine)
    PROVE  result' = Meant'
<1>1. a \in 0 .. Long - 1 /\ b \in 0 .. Long - 1
  BY DEF LongInv
<1>2. called' = routine /\ result' = Ran(routine) /\ a' = a /\ b' = b /\ Callable(routine)
  BY DEF Call
<1>3. Left \in Int /\ Right \in Int /\ Left' = Left /\ Right' = Right
  <2>1. Left \in Int /\ Right \in Int
    BY <1>1, Sizes, Signs DEF Left, Right
  <2>2. Left' = Left /\ Right' = Right
    BY <1>2 DEF Left, Right
  <2> QED
    BY <2>1, <2>2
<1>4. /\ Above(a, b, FALSE) <=> a > b
      /\ Above(b, a, FALSE) <=> b > a
      /\ Above(a, b, TRUE) <=> Left > Right
      /\ Above(b, a, TRUE) <=> Right > Left
  BY <1>1, Comparisons DEF Left, Right
<1>5. Long \in Nat /\ a \in Int /\ b \in Int
  BY <1>1, Sizes
<1>6. /\ ~Above(a, b, FALSE) <=> a <= b
      /\ ~Above(b, a, FALSE) <=> a >= b
      /\ ~Above(a, b, TRUE) <=> Left <= Right
      /\ ~Above(b, a, TRUE) <=> Left >= Right
  <2>1. ASSUME NEW x \in Int, NEW y \in Int
        PROVE  (~(x > y) <=> x <= y) /\ (~(y > x) <=> x >= y)
    OBVIOUS
  <2>2. (~(a > b) <=> a <= b) /\ (~(b > a) <=> a >= b)
    BY <1>5, <2>1
  <2>3. (~(Left > Right) <=> Left <= Right) /\ (~(Right > Left) <=> Left >= Right)
    BY <1>3, <2>1
  <2> QED
    BY <1>4, <2>2, <2>3, Zenon
<1>10. CASE routine = "lmul"
  <2>1. result' = lmul(a, b)
    BY <1>2, <1>10 DEF Ran
  <2>2. Meant' = (Left * Right) % Long
    BY <1>2, <1>3, <1>10 DEF Meant
  <2> QED
    BY <1>1, <2>1, <2>2, MulSigned DEF Left, Right
<1>11. CASE routine = "ldiv"
  <2>1. result' = ldiv(a, b)
    BY <1>2, <1>11 DEF Ran
  <2>2. Meant' = Quot(Left, Right) % Long
    BY <1>2, <1>3, <1>11 DEF Meant
  <2>3. b # 0
    BY <1>2, <1>11 DEF Callable, Divides
  <2> QED
    BY <1>1, <2>1, <2>2, <2>3, SignedDivisions DEF Left, Right
<1>12. CASE routine = "uldiv"
  <2>1. result' = uldiv(a, b)
    BY <1>2, <1>12 DEF Ran
  <2>2. Meant' = a \div b
    BY <1>2, <1>3, <1>12 DEF Meant
  <2>3. b # 0
    BY <1>2, <1>12 DEF Callable, Divides
  <2> QED
    BY <1>1, <2>1, <2>2, <2>3, UnsignedDivisions
<1>13. CASE routine = "lmod"
  <2>1. result' = lmod(a, b)
    BY <1>2, <1>13 DEF Ran
  <2>2. Meant' = (Left - Right * Quot(Left, Right)) % Long
    BY <1>2, <1>3, <1>13 DEF Meant
  <2>3. b # 0
    BY <1>2, <1>13 DEF Callable, Divides
  <2> QED
    BY <1>1, <2>1, <2>2, <2>3, SignedDivisions DEF Left, Right
<1>14. CASE routine = "ulmod"
  <2>1. result' = ulmod(a, b)
    BY <1>2, <1>14 DEF Ran
  <2>2. Meant' = a % b
    BY <1>2, <1>3, <1>14 DEF Meant
  <2>3. b # 0
    BY <1>2, <1>14 DEF Callable, Divides
  <2> QED
    BY <1>1, <2>1, <2>2, <2>3, UnsignedDivisions
<1>15. CASE routine = "lshl"
  <2>1. result' = lshl(a, b)
    BY <1>2, <1>15 DEF Ran
  <2>2. Meant' = Times(a, b % LongBits) % Long
    BY <1>2, <1>3, <1>15 DEF Meant
  <2> QED
    BY <1>1, <2>1, <2>2, Shifts
<1>16. CASE routine = "lsar"
  <2>1. result' = lsar(a, b)
    BY <1>2, <1>16 DEF Ran
  <2>2. Meant' = (Left \div Times(1, b % LongBits)) % Long
    BY <1>2, <1>3, <1>16 DEF Meant
  <2> QED
    BY <1>1, <2>1, <2>2, Shifts DEF Left
<1>17. CASE routine = "lshr"
  <2>1. result' = lshr(a, b)
    BY <1>2, <1>17 DEF Ran
  <2>2. Meant' = a \div Times(1, b % LongBits)
    BY <1>2, <1>3, <1>17 DEF Meant
  <2> QED
    BY <1>1, <2>1, <2>2, Shifts
<1>18. CASE routine = "leq"
  <2>1. result' = leq(a, b)
    BY <1>2, <1>18 DEF Ran
  <2>2. Meant' = Truth(a = b)
    BY <1>2, <1>3, <1>18 DEF Meant
  <2> QED
    BY <1>3, <1>5, <2>1, <2>2, Comparisons, <1>1 DEF leq, Truth
<1>19. CASE routine = "lne"
  <2>1. result' = lne(a, b)
    BY <1>2, <1>19 DEF Ran
  <2>2. Meant' = Truth(a /= b)
    BY <1>2, <1>3, <1>19 DEF Meant
  <2> QED
    BY <1>3, <1>5, <2>1, <2>2, Comparisons, <1>1 DEF lne, Truth
<1>20. CASE routine = "llt"
  <2>1. result' = llt(a, b)
    BY <1>2, <1>20 DEF Ran
  <2>2. Meant' = Truth(Left < Right)
    BY <1>2, <1>3, <1>20 DEF Meant
  <2> QED
    BY <1>3, <1>5, <2>1, <2>2, <1>4 DEF llt, Truth
<1>21. CASE routine = "lle"
  <2>1. result' = lle(a, b)
    BY <1>2, <1>21 DEF Ran
  <2>2. Meant' = Truth(Left <= Right)
    BY <1>2, <1>3, <1>21 DEF Meant
  <2> QED
    BY <2>1, <2>2, <1>6 DEF lle, Truth
<1>22. CASE routine = "lgt"
  <2>1. result' = lgt(a, b)
    BY <1>2, <1>22 DEF Ran
  <2>2. Meant' = Truth(Left > Right)
    BY <1>2, <1>3, <1>22 DEF Meant
  <2> QED
    BY <1>3, <1>5, <2>1, <2>2, <1>4 DEF lgt, Truth
<1>23. CASE routine = "lge"
  <2>1. result' = lge(a, b)
    BY <1>2, <1>23 DEF Ran
  <2>2. Meant' = Truth(Left >= Right)
    BY <1>2, <1>3, <1>23 DEF Meant
  <2> QED
    BY <2>1, <2>2, <1>6 DEF lge, Truth
<1>24. CASE routine = "ullt"
  <2>1. result' = ullt(a, b)
    BY <1>2, <1>24 DEF Ran
  <2>2. Meant' = Truth(a < b)
    BY <1>2, <1>3, <1>24 DEF Meant
  <2> QED
    BY <1>3, <1>5, <2>1, <2>2, <1>4 DEF ullt, Truth
<1>25. CASE routine = "ulle"
  <2>1. result' = ulle(a, b)
    BY <1>2, <1>25 DEF Ran
  <2>2. Meant' = Truth(a <= b)
    BY <1>2, <1>3, <1>25 DEF Meant
  <2> QED
    BY <2>1, <2>2, <1>6 DEF ulle, Truth
<1>26. CASE routine = "ulgt"
  <2>1. result' = ulgt(a, b)
    BY <1>2, <1>26 DEF Ran
  <2>2. Meant' = Truth(a > b)
    BY <1>2, <1>3, <1>26 DEF Meant
  <2> QED
    BY <1>3, <1>5, <2>1, <2>2, <1>4 DEF ulgt, Truth
<1>27. CASE routine = "ulge"
  <2>1. result' = ulge(a, b)
    BY <1>2, <1>27 DEF Ran
  <2>2. Meant' = Truth(a >= b)
    BY <1>2, <1>3, <1>27 DEF Meant
  <2> QED
    BY <2>1, <2>2, <1>6 DEF ulge, Truth
<1>28. CASE routine = "llneg"
  <2>1. result' = llneg(a)
    BY <1>2, <1>28 DEF Ran
  <2>2. Meant' = Truth(a = 0)
    BY <1>2, <1>3, <1>28 DEF Meant
  <2> QED
    BY <1>1, <2>1, <2>2, Comparisons DEF llneg, Truth
<1>29. CASE routine = "udiv3216"
  <2>1. result' = udiv3216(a, lo(b)).quot
    BY <1>2, <1>29 DEF Ran
  <2>2. Meant' = a \div lo(b)
    BY <1>2, <1>3, <1>29 DEF Meant
  <2>3. lo(b) # 0
    BY <1>2, <1>29 DEF Callable
  <2>4. lo(b) \in 1 .. Word - 1
    BY <1>1, <2>3, Halves
  <2> QED
    BY <1>1, <2>1, <2>2, <2>4, WordDivides
<1> QED
  BY <1>10, <1>11, <1>12, <1>13, <1>14, <1>15, <1>16, <1>17, <1>18, <1>19, <1>20, <1>21, <1>22, <1>23, <1>24, <1>25, <1>26, <1>27, <1>28, <1>29 DEF Routines

(* Every routine of LONGMATH.ASM computes its operator, for all longs of   *)
(* two 16-bit words, and of a machine with smaller ones.                   *)
THEOREM RoutinesCompute == Spec => []Computes
<1>1. Init => LongInv
  BY OperandsAssumption DEF Init, LongInv, Computes
<1>2. ASSUME LongInv, [Next]_vars
      PROVE  LongInv'
  <2>1. CASE UNCHANGED vars
    BY <1>2, <2>1 DEF vars, LongInv, Computes, Meant, Left, Right
  <2>2. ASSUME NEW routine \in Routines, Call(routine)
        PROVE  LongInv'
    <3>1. result' = Meant'
      BY <1>2, <2>2, CallComputes
    <3>2. a' = a /\ b' = b
      BY <2>2 DEF Call
    <3> QED
      BY <1>2, <3>1, <3>2 DEF LongInv, Computes
  <2> QED
    BY <1>2, <2>1, <2>2 DEF Next
<1>3. LongInv => Computes
  BY DEF LongInv
<1> QED
  BY <1>1, <1>2, <1>3, PTL DEF Spec
=============================================================================
