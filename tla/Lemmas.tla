-------------------------------- MODULE Lemmas --------------------------------
(***************************************************************************)
(* What the proofs of several components need.                             *)
(***************************************************************************)
EXTENDS Integers, WellFoundedInduction, TLAPS

(* What it is to lie in an interval that begins at 0.                      *)
LEMMA Within ==
    ASSUME NEW m \in Int
    PROVE  /\ \A x \in 0 .. m : x \in Int /\ x \in Nat /\ 0 <= x /\ x <= m
           /\ \A x \in Int : 0 <= x /\ x <= m => x \in 0 .. m
OBVIOUS

(* A set of natural numbers that is not empty has a least element: what    *)
(* stands in the proofs for induction, applied to the counterexamples.     *)
LEMMA LeastNat ==
    ASSUME NEW S \in SUBSET Nat, S # {}
    PROVE  \E s \in S : \A t \in S : s <= t
<1> DEFINE R == OpToRel(<, Nat)
<1>1. IsWellFoundedOn(R, Nat)
  BY NatLessThanWellFounded
<1>2. \A x, y \in Nat : x < y => <<x, y>> \in R
  BY DEF OpToRel
<1> HIDE DEF R
<1>3. PICK s \in S : \A t \in S : ~ (<<t, s>> \in R)
  BY <1>1, WFMin
<1>4. ASSUME NEW t \in S PROVE s <= t
  <2>1. ~ (t < s)
    BY <1>2, <1>3, t \in Nat, s \in Nat, Zenon
  <2> QED
    BY <2>1
<1> QED
  BY <1>4

(* What is done M times over: the recursive definition of it has a value,  *)
(* and each step's value is made from the one before.                      *)
Iterable(D, x, G, M) == x \in D /\ G \in [D -> D] /\ M \in Nat
Iteration(f, D, x, G, M) == f \in [0 .. M -> D] /\ f[0] = x /\ \A n \in 1 .. M : f[n] = G[f[n - 1]]

LEMMA Iterates ==
    ASSUME NEW D, NEW x, NEW G, NEW M, Iterable(D, x, G, M)
    PROVE  \E f : Iteration(f, D, x, G, M)
<1>0. x \in D /\ G \in [D -> D] /\ M \in Nat
  BY DEF Iterable
<1> USE <1>0
<1> DEFINE Is(f, m) == f \in [0 .. m -> D] /\ f[0] = x /\ \A n \in 1 .. m : f[n] = G[f[n - 1]]
           None == {m \in Nat : ~\E f : Is(f, m)}
<1>1. CASE None = {}
  <2>1. M \notin None
    BY <1>1
  <2>2. \E f : Is(f, M)
    BY <2>1
  <2> QED
    BY <2>2 DEF Iteration
<1>2. CASE None # {}
  <2>1. None \in SUBSET Nat
    OBVIOUS
  <2>2. PICK m \in None : \A t \in None : m <= t
    <3> HIDE DEF None
    <3> QED
      BY <1>2, <2>1, LeastNat
  <2>3. m \in Nat
    BY <2>1
  <2>4. m # 0
    <3> DEFINE f == [n \in {0} |-> x]
    <3>1. f \in [0 .. 0 -> D] /\ f[0] = x /\ \A n \in 1 .. 0 : FALSE
      OBVIOUS
    <3>2. Is(f, 0)
      BY <3>1
    <3> QED
      BY <3>2
  <2>5. m - 1 \in Nat /\ m - 1 \notin None
    <3>1. m - 1 \in Nat /\ ~(m <= m - 1)
      BY <2>3, <2>4
    <3> HIDE DEF None
    <3> QED
      BY <2>2, <3>1
  <2>6. PICK f : Is(f, m - 1)
    BY <2>5
  <2> DEFINE g == [n \in 0 .. m |-> IF n = m THEN G[f[m - 1]] ELSE f[n]]
  <2>7. m - 1 \in 0 .. m - 1 /\ \A n \in 0 .. m : n # m => n \in 0 .. m - 1
    BY <2>3, <2>4
  <2>8. f[m - 1] \in D /\ G[f[m - 1]] \in D
    BY <2>6, <2>7
  <2>9. g \in [0 .. m -> D]
    BY <2>6, <2>7, <2>8
  <2>10. g[0] = x
    BY <2>3, <2>4, <2>6
  <2>11. ASSUME NEW n \in 1 .. m
         PROVE  g[n] = G[g[n - 1]]
    <3>1. n \in 0 .. m /\ n - 1 \in 0 .. m /\ n - 1 # m /\ (n # m => n \in 1 .. m - 1)
      BY <2>3
    <3>2. g[n - 1] = f[n - 1]
      BY <3>1
    <3>3. CASE n = m
      BY <3>1, <3>2, <3>3
    <3>4. CASE n # m
      BY <2>6, <3>1, <3>2, <3>4
    <3> QED
      BY <3>3, <3>4
  <2>12. Is(g, m)
    <3> HIDE DEF g
    <3> QED
      BY <2>9, <2>10, <2>11
  <2> QED
    BY <2>12
<1> QED
  BY <1>1, <1>2

(* Two functions that begin alike and go on alike are alike.               *)
GoAlike(f, g, M) == M \in Nat /\ f[0] = g[0] /\ \A n \in 1 .. M : f[n - 1] = g[n - 1] => f[n] = g[n]

LEMMA Agree ==
    ASSUME NEW f, NEW g, NEW M, GoAlike(f, g, M)
    PROVE  \A n \in 0 .. M : f[n] = g[n]
<1>0. M \in Nat /\ f[0] = g[0] /\ \A n \in 1 .. M : f[n - 1] = g[n - 1] => f[n] = g[n]
  BY DEF GoAlike
<1> USE <1>0
<1> DEFINE Bad == {n \in 0 .. M : f[n] # g[n]}
<1>1. SUFFICES ASSUME Bad # {} PROVE FALSE
  OBVIOUS
<1>2. Bad \in SUBSET Nat
  OBVIOUS
<1>3. PICK n \in Bad : \A t \in Bad : n <= t
  <2> HIDE DEF Bad
  <2> QED
    BY <1>1, <1>2, LeastNat
<1>4. n # 0
  OBVIOUS
<1>5. n \in 1 .. M /\ n - 1 \in 0 .. M /\ ~(n <= n - 1)
  BY <1>4
<1>6. f[n - 1] = g[n - 1]
  <2>1. n - 1 \notin Bad
    <3> HIDE DEF Bad
    <3> QED
      BY <1>3, <1>5
  <2> QED
    BY <2>1, <1>5
<1> QED
  BY <1>5, <1>6

(* What is computed step by step, each time from the number of the step    *)
(* and what there was before.                                              *)
Stepwise(S, a, H, M) == a \in S /\ M \in Nat /\ H \in [(1 .. M) \X S -> S]
Steps(f, S, a, H, M) == /\ f \in [0 .. M -> S] /\ f[0] = a
                        /\ \A k \in 1 .. M : f[k] = H[<<k, f[k - 1]>>]

LEMMA Recursion ==
    ASSUME NEW S, NEW a, NEW H, NEW M, Stepwise(S, a, H, M)
    PROVE  \E f : Steps(f, S, a, H, M)
<1> DEFINE D == Nat \X S
           G == [p \in D |-> <<p[1] + 1, IF p[1] + 1 \in 1 .. M THEN H[<<p[1] + 1, p[2]>>] ELSE p[2]>>]
<1>0. a \in S /\ M \in Nat /\ H \in [(1 .. M) \X S -> S]
  BY DEF Stepwise
<1>1. G \in [D -> D]
  <2>1. ASSUME NEW p \in D
        PROVE  <<p[1] + 1, IF p[1] + 1 \in 1 .. M THEN H[<<p[1] + 1, p[2]>>] ELSE p[2]>> \in D
    <3>1. p[1] \in Nat /\ p[2] \in S
      OBVIOUS
    <3>2. p[1] + 1 \in Nat
      BY <3>1
    <3>3. p[1] + 1 \in 1 .. M => H[<<p[1] + 1, p[2]>>] \in S
      BY <1>0, <3>1
    <3> QED
      BY <3>1, <3>2, <3>3
  <2> QED
    BY <2>1
<1>2. <<0, a>> \in D
  BY <1>0
<1>3. PICK F : Iteration(F, D, <<0, a>>, G, M)
  <2> HIDE DEF D, G
  <2> QED
    BY <1>0, <1>1, <1>2, Iterates DEF Iterable
<1>4. \A k \in 0 .. M : F[k] \in D
  BY <1>3 DEF Iteration
<1>5. ASSUME NEW k \in 1 .. M
      PROVE  /\ k - 1 \in 0 .. M /\ k \in 0 .. M
             /\ F[k][1] = F[k - 1][1] + 1
             /\ F[k - 1][1] = k - 1 => F[k][2] = H[<<k, F[k - 1][2]>>]
  <2>1. k - 1 \in 0 .. M /\ k \in 0 .. M /\ (k - 1) + 1 = k
    BY <1>0
  <2>2. F[k] = G[F[k - 1]] /\ F[k - 1] \in D
    BY <1>3, <1>4, <2>1 DEF Iteration
  <2>3. PICK p \in D : p = F[k - 1]
    BY <2>2
  <2>4. F[k] = <<p[1] + 1, IF p[1] + 1 \in 1 .. M THEN H[<<p[1] + 1, p[2]>>] ELSE p[2]>>
    BY <2>2, <2>3
  <2>5. p[1] = k - 1 => p[1] + 1 = k
    BY <2>1
  <2> QED
    BY <2>1, <2>3, <2>4, <2>5
<1> DEFINE g == [k \in 0 .. M |-> F[k][1]]
           h == [k \in 0 .. M |-> k]
<1>6. F[0] = <<0, a>>
  BY <1>3 DEF Iteration
<1>7. \A k \in 0 .. M : g[k] = h[k]
  <2>1. g[0] = h[0]
    BY <1>0, <1>6
  <2>2. ASSUME NEW k \in 1 .. M, g[k - 1] = h[k - 1]
        PROVE  g[k] = h[k]
    <3>1. k - 1 \in 0 .. M /\ k \in 0 .. M
      BY <1>5
    <3>2. F[k - 1][1] = k - 1
      BY <2>2, <3>1
    <3>3. F[k][1] = k
      <4>1. F[k][1] = F[k - 1][1] + 1
        BY <1>5
      <4>2. (k - 1) + 1 = k
        BY <1>0
      <4> QED
        BY <3>2, <4>1, <4>2, Zenon
    <3> QED
      BY <3>1, <3>3
  <2>3. GoAlike(g, h, M)
    <3> HIDE DEF g, h
    <3> QED
      BY <1>0, <2>1, <2>2 DEF GoAlike
  <2> HIDE DEF g, h
  <2> QED
    BY <2>3, Agree
<1>8. \A k \in 0 .. M : F[k][1] = k
  BY <1>7
<1> DEFINE f == [k \in 0 .. M |-> F[k][2]]
<1>9. f \in [0 .. M -> S]
  BY <1>4
<1>10. f[0] = a
  BY <1>0, <1>6
<1>11. ASSUME NEW k \in 1 .. M
       PROVE  f[k] = H[<<k, f[k - 1]>>]
  BY <1>5, <1>8
<1> HIDE DEF f, D, G, g, h
<1> QED
  BY <1>9, <1>10, <1>11 DEF Steps

(* The sums of the first numbers of some.                                  *)
Summable(x, w, M)  == x \in Nat /\ M \in Nat /\ w \in [1 .. M -> Nat]
IsSum(f, x, w, M)  == f \in [0 .. M -> Nat] /\ f[0] = x /\ \A k \in 1 .. M : f[k] = f[k - 1] + w[k]

LEMMA Sums ==
    ASSUME NEW x, NEW w, NEW M, Summable(x, w, M)
    PROVE  \E f : IsSum(f, x, w, M)
<1> DEFINE H == [q \in (1 .. M) \X Nat |-> q[2] + w[q[1]]]
<1>0. x \in Nat /\ M \in Nat /\ w \in [1 .. M -> Nat]
  BY DEF Summable
<1>1. H \in [(1 .. M) \X Nat -> Nat]
  BY <1>0
<1>2. PICK f : Steps(f, Nat, x, H, M)
  <2> HIDE DEF H
  <2> QED
    BY <1>0, <1>1, Recursion DEF Stepwise
<1>3. f \in [0 .. M -> Nat] /\ f[0] = x /\ \A k \in 1 .. M : f[k] = H[<<k, f[k - 1]>>]
  <2> HIDE DEF H
  <2> QED
    BY <1>2 DEF Steps
<1>4. ASSUME NEW k \in 1 .. M
      PROVE  f[k] = f[k - 1] + w[k]
  <2>1. k - 1 \in 0 .. M
    BY <1>0
  <2>2. <<k, f[k - 1]>> \in (1 .. M) \X Nat
    BY <1>3, <2>1
  <2> QED
    BY <1>3, <2>2
<1> QED
  BY <1>3, <1>4 DEF IsSum

(* They are what the recursive function computes.                          *)
Summed(g, x, w, M) == g = [k \in 0 .. M |-> IF k = 0 THEN x ELSE g[k - 1] + w[k]]

LEMMA SummedIs ==
    ASSUME NEW x, NEW w, NEW M, Summable(x, w, M)
    PROVE  /\ \E g : Summed(g, x, w, M)
           /\ \A g : Summed(g, x, w, M) => IsSum(g, x, w, M)
<1>0. x \in Nat /\ M \in Nat /\ w \in [1 .. M -> Nat]
  BY DEF Summable
<1>1. PICK f : IsSum(f, x, w, M)
  BY Sums
<1>2. f \in [0 .. M -> Nat] /\ f[0] = x /\ \A k \in 1 .. M : f[k] = f[k - 1] + w[k]
  BY <1>1 DEF IsSum
<1>3. Summed(f, x, w, M)
  <2>1. ASSUME NEW k \in 0 .. M
        PROVE  f[k] = IF k = 0 THEN x ELSE f[k - 1] + w[k]
    <3>1. k # 0 => k \in 1 .. M
      BY <1>0
    <3> QED
      BY <1>2, <3>1
  <2>2. f = [k \in 0 .. M |-> f[k]]
    BY <1>2
  <2> QED
    BY <2>1, <2>2 DEF Summed
<1>4. ASSUME NEW g, Summed(g, x, w, M)
      PROVE  IsSum(g, x, w, M)
  <2>1. g[0] = x /\ g = [k \in 0 .. M |-> g[k]]
    <3>1. DOMAIN g = 0 .. M
      BY <1>4, Zenon DEF Summed
    <3>2. g = [k \in DOMAIN g |-> g[k]]
      BY <1>4 DEF Summed
    <3>3. 0 \in 0 .. M
      BY <1>0
    <3> QED
      BY <1>4, <3>1, <3>2, <3>3 DEF Summed
  <2>2. ASSUME NEW k \in 1 .. M
        PROVE  g[k] = g[k - 1] + w[k]
    <3>1. k \in 0 .. M /\ k # 0
      BY <1>0
    <3> QED
      BY <1>4, <3>1 DEF Summed
  <2>3. \A k \in 0 .. M : g[k] = f[k]
    <3>1. GoAlike(g, f, M)
      BY <1>0, <1>2, <2>1, <2>2 DEF GoAlike
    <3> QED
      BY <3>1, Agree
  <2>4. g \in [0 .. M -> Nat]
    BY <1>2, <2>1, <2>3
  <2> QED
    BY <2>1, <2>2, <2>4 DEF IsSum
<1> QED
  BY <1>3, <1>4

(* A function that never falls rises all along.                            *)
Rising(f, M) == M \in Nat /\ f \in [0 .. M -> Nat] /\ \A k \in 1 .. M : f[k - 1] <= f[k]

LEMMA Rises ==
    ASSUME NEW f, NEW M, Rising(f, M), NEW i \in 0 .. M, NEW j \in 0 .. M, i <= j
    PROVE  f[i] <= f[j]
<1>0. M \in Nat /\ f \in [0 .. M -> Nat] /\ \A k \in 1 .. M : f[k - 1] <= f[k]
  BY DEF Rising
<1> DEFINE Bad == { k \in i .. M : ~ (f[i] <= f[k]) }
<1>1. SUFFICES ASSUME Bad # {} PROVE FALSE
  OBVIOUS
<1>2. Bad \in SUBSET Nat
  OBVIOUS
<1>3. PICK k \in Bad : \A t \in Bad : k <= t
  <2> HIDE DEF Bad
  <2> QED
    BY <1>1, <1>2, LeastNat
<1>4. k # i
  BY <1>0
<1>5. k \in 1 .. M /\ k - 1 \in i .. M /\ k - 1 \in 0 .. M /\ k \in 0 .. M /\ ~ (k <= k - 1)
  <2>1. k \in Int /\ i \in Nat /\ M \in Nat /\ i <= k /\ k <= M
    BY <1>0
  <2> QED
    BY <1>4, <2>1
<1>6. k - 1 \notin Bad
  <2> HIDE DEF Bad
  <2> QED
    BY <1>3, <1>5
<1>7. f[i] <= f[k - 1]
  BY <1>5, <1>6
<1>8. f[i] \in Nat /\ f[k - 1] \in Nat /\ f[k] \in Nat /\ f[k - 1] <= f[k]
  BY <1>0, <1>5
<1>9. ~ (f[i] <= f[k])
  OBVIOUS
<1> QED
  BY <1>7, <1>8, <1>9

(* Of a sum, each part lies behind those before it and below the whole.    *)
LEMMA PartsOfSum ==
    ASSUME NEW f, NEW x, NEW w, NEW M, Summable(x, w, M), IsSum(f, x, w, M),
           NEW i \in 1 .. M
    PROVE  /\ f[i - 1] \in Nat /\ x <= f[i - 1] /\ f[i - 1] + w[i] <= f[M] /\ f[M] \in Nat
           /\ \A j \in 1 .. M : i < j => f[i - 1] + w[i] <= f[j - 1] /\ f[j - 1] \in Nat
<1>0. /\ M \in Nat /\ w \in [1 .. M -> Nat] /\ f \in [0 .. M -> Nat] /\ f[0] = x
      /\ \A k \in 1 .. M : f[k] = f[k - 1] + w[k]
  BY DEF Summable, IsSum
<1>1. /\ i \in 0 .. M /\ i - 1 \in 0 .. M /\ 0 \in 0 .. M /\ M \in 0 .. M
      /\ \A j \in 1 .. M : j - 1 \in 0 .. M /\ j \in 0 .. M
  BY <1>0
<1>2. \A j \in 0 .. M : f[j] \in Nat
  BY <1>0
<1>3. Rising(f, M)
  <2>1. ASSUME NEW k \in 1 .. M PROVE f[k - 1] <= f[k]
    <3>1. w[k] \in Nat /\ f[k - 1] \in Nat /\ f[k] = f[k - 1] + w[k]
      BY <1>0, <1>1, <1>2
    <3> QED
      BY <3>1
  <2> QED
    BY <1>0, <2>1 DEF Rising
<1>4. f[0] <= f[i - 1] /\ f[i] <= f[M]
  <2>1. 0 <= i - 1 /\ i <= M
    OBVIOUS
  <2> QED
    BY <1>1, <1>3, <2>1, Rises
<1>5. ASSUME NEW j \in 1 .. M, i < j PROVE f[i] <= f[j - 1]
  <2>1. i <= j - 1
    BY <1>5
  <2> QED
    BY <1>1, <1>3, <2>1, Rises
<1> QED
  BY <1>0, <1>1, <1>2, <1>4, <1>5

LEMMA WholeSum ==
    ASSUME NEW f, NEW x, NEW w, NEW M, Summable(x, w, M), IsSum(f, x, w, M)
    PROVE  f[M] \in Nat /\ x <= f[M]
<1>0. M \in Nat /\ f \in [0 .. M -> Nat] /\ f[0] = x
  BY DEF Summable, IsSum
<1>1. CASE M = 0
  BY <1>0, <1>1
<1>2. CASE M # 0
  <2>1. PICK i \in 1 .. M : i = M
    BY <1>0, <1>2
  <2>2. /\ f[i - 1] \in Nat /\ x <= f[i - 1] /\ f[i - 1] + w[i] <= f[M] /\ f[M] \in Nat
    BY PartsOfSum
  <2>3. w[i] \in Nat /\ x \in Nat
    BY DEF Summable
  <2> QED
    BY <2>2, <2>3
<1> QED
  BY <1>1, <1>2

(* A set of natural numbers with a bound has a greatest one.               *)
LEMMA Greatest ==
    ASSUME NEW S \in SUBSET Nat, S # {}, NEW b \in Nat, \A x \in S : x <= b
    PROVE  \E x \in S : \A y \in S : x >= y
<1> DEFINE T == { c \in Nat : \A x \in S : x <= c }
<1>1. T \in SUBSET Nat /\ T # {}
  OBVIOUS
<1>2. PICK c \in T : \A t \in T : c <= t
  <2> HIDE DEF T
  <2> QED
    BY <1>1, LeastNat
<1>3. c \in Nat /\ \A x \in S : x <= c
  OBVIOUS
<1>4. c \in S
  <2>1. SUFFICES ASSUME c \notin S PROVE FALSE
    OBVIOUS
  <2>2. \A x \in S : x <= c - 1
    BY <1>3, <2>1
  <2>3. c - 1 \in Nat
    <3>1. PICK x \in S : TRUE
      OBVIOUS
    <3> QED
      BY <1>3, <2>2, <3>1
  <2>4. c - 1 \in T
    BY <2>2, <2>3
  <2>5. ~ (c <= c - 1)
    BY <1>3
  <2> HIDE DEF T
  <2> QED
    BY <1>2, <2>4, <2>5
<1> QED
  BY <1>3, <1>4

(* A division is what its quotient and remainder say it is.                *)
IsDivided(x, m, k, r) ==
    x \in Int /\ m \in Nat \ {0} /\ k \in Int /\ r \in 0 .. m - 1 /\ x = k * m + r

LEMMA DivMod ==
    ASSUME NEW x, NEW m, NEW k, NEW r, IsDivided(x, m, k, r)
    PROVE  x \div m = k /\ x % m = r
<1>0. x \in Int /\ m \in Nat \ {0} /\ k \in Int /\ r \in 0 .. m - 1 /\ x = k * m + r
  BY DEF IsDivided
<1>1. x % m \in 0 .. m - 1 /\ x = (x \div m) * m + (x % m) /\ x \div m \in Int
  BY <1>0
<1> DEFINE k1 == x \div m
           r1 == x % m
<1>2. k1 \in Int /\ r1 \in 0 .. m - 1 /\ (k1 - k) * m = r - r1
  BY <1>0, <1>1
<1> HIDE DEF k1, r1
<1>3. k1 - k < 1
  BY <1>0, <1>2
<1>4. k1 - k > -1
  BY <1>0, <1>2
<1>5. k1 = k /\ r1 = r
  BY <1>0, <1>2, <1>3, <1>4
<1> QED
  BY <1>5 DEF k1, r1
=============================================================================
