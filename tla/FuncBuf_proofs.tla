--------------------------- MODULE FuncBuf_proofs ----------------------------
(***************************************************************************)
(* What the short-branch loop of flushfunc() promises, for every function: *)
(* the rounds come to an end, each makes the code shorter, and a branch    *)
(* made short in one round reaches its label in this and in all later ones.*)
(***************************************************************************)
EXTENDS FuncBuf, Lemmas, SequenceTheorems

(* A buffer of p-codes, whatever their values are.                         *)
IsCode(fb) == \E V : fb \in Seq([op : PCode, v : V])

-----------------------------------------------------------------------------
(* The tables.                                                             *)

(* code_size[] has a number for every p-code.                              *)
LEMMA SizesAreNumbers ==
    ASSUME NEW p \in PCode
    PROVE  CodeSize[p] \in Nat
BY DEF CodeSize, PCode

(* Each branch has a short form: another p-code, smaller and no label.     *)
Sevens == {"EQ10f", "NE10f", "GE10f", "GT10f", "LE10f", "LT10f", "EQd10f", "NEd10f"}
Fives == {"EQ10fp", "NE10fp", "JccE", "JccNE", "JccG", "JccL", "JccGE", "JccLE", "JccA", "JccB", "JccAE", "JccBE"}

LEMMA ShortIsShorter ==
    ASSUME NEW p \in LongBranch
    PROVE  /\ p \in PCode /\ p # "LABm"
           /\ ShortBranch(p) \in PCode /\ ShortBranch(p) # "LABm"
           /\ CodeSize[ShortBranch(p)] < CodeSize[p]
<1> USE DEF CodeSize, PCode, Sized0, Sized1, Sized2, Sized3, Sized4, Sized5, Sized6, Sized7, Sized8, Sized9, Sized255
<1>1. CASE p \in Sevens
  <2>1. p \in PCode /\ CodeSize[p] = 7 /\ p # "LABm"
    BY <1>1 DEF Sevens
  <2>2. ShortBranch(p) \in {"EQ10fs", "NE10fs", "GE10fs", "GT10fs", "LE10fs", "LT10fs", "EQd10fs", "NEd10fs"}
    BY <1>1 DEF Sevens, ShortBranch, shortbranchTab
  <2>3. ShortBranch(p) \in PCode /\ CodeSize[ShortBranch(p)] = 4 /\ ShortBranch(p) # "LABm"
    BY <2>2
  <2> HIDE DEF CodeSize, PCode
  <2> QED
    BY <2>1, <2>3
<1>2. CASE p \in Fives
  <2>1. p \in PCode /\ CodeSize[p] = 5 /\ p # "LABm"
    BY <1>2 DEF Fives
  <2>2. ShortBranch(p) \in {"EQ10fps", "NE10fps", "JccEs", "JccNEs", "JccGs", "JccLs", "JccGEs", "JccLEs",
                            "JccAs", "JccBs", "JccAEs", "JccBEs"}
    BY <1>2 DEF Fives, ShortBranch, shortbranchTab
  <2>3. ShortBranch(p) \in PCode /\ CodeSize[ShortBranch(p)] = 2 /\ ShortBranch(p) # "LABm"
    BY <2>2
  <2> HIDE DEF CodeSize, PCode
  <2> QED
    BY <2>1, <2>3
<1>3. CASE p = "JMPm"
  <2>1. p \in PCode /\ CodeSize[p] = 3 /\ p # "LABm"
    BY <1>3
  <2>2. ShortBranch(p) = "JMPs"
    BY <1>3 DEF ShortBranch, shortbranchTab
  <2>3. ShortBranch(p) \in PCode /\ CodeSize[ShortBranch(p)] = 2 /\ ShortBranch(p) # "LABm"
    BY <2>2
  <2> HIDE DEF CodeSize, PCode
  <2> QED
    BY <2>1, <2>3
<1>4. p \in Sevens \/ p \in Fives \/ p = "JMPm"
  <2> HIDE DEF CodeSize, PCode, Sized0, Sized1, Sized2, Sized3, Sized4, Sized5, Sized6, Sized7, Sized8, Sized9, Sized255
  <2> QED
    BY DEF LongBranch, Sevens, Fives
<1> HIDE DEF CodeSize, PCode, Sized0, Sized1, Sized2, Sized3, Sized4, Sized5, Sized6, Sized7, Sized8, Sized9, Sized255
<1> QED
  BY <1>1, <1>2, <1>3, <1>4

-----------------------------------------------------------------------------
(* Sums.  Gains(off, size, n): off[i] is what the sizes before i come to.  *)
Gains(off, size, n) ==
    /\ off \in [1 .. n + 1 -> Nat]
    /\ off[1] = 0
    /\ \A i \in 1 .. n : off[i + 1] = off[i] + size[i]
Sizes(size, n) == n \in Nat /\ size \in [1 .. n -> Nat]

(* Such sums there are: the recursive definition of Offset has a value.    *)
LEMMA SumsExist ==
    ASSUME NEW size, NEW n, Sizes(size, n)
    PROVE  \E off : Gains(off, size, n)
<1>0. n \in Nat /\ size \in [1 .. n -> Nat]
  BY DEF Sizes
<1> DEFINE Bad == {m \in 0 .. n : ~\E off : Gains(off, size, m)}
<1>1. SUFFICES ASSUME Bad # {} PROVE FALSE
  <2>1. n \in 0 .. n
    BY <1>0
  <2> QED
    BY <2>1
<1>2. Bad \in SUBSET Nat
  BY <1>0
<1>3. PICK m \in Bad : \A t \in Bad : m <= t
  <2> HIDE DEF Bad
  <2> QED
    BY <1>1, <1>2, LeastNat
<1>4. m \in 0 .. n
  OBVIOUS
<1>5. m # 0
  <2> DEFINE f == [i \in 1 .. 0 + 1 |-> 0]
  <2>1. Gains(f, size, 0)
    BY DEF Gains
  <2> QED
    BY <2>1
<1>6. m - 1 \in 0 .. n /\ ~(m <= m - 1) /\ m \in 1 .. n
  BY <1>0, <1>4, <1>5
<1>7. m - 1 \notin Bad
  <2> HIDE DEF Bad
  <2> QED
    BY <1>3, <1>6
<1>8. PICK f : Gains(f, size, m - 1)
  BY <1>6, <1>7
<1>9. f \in [1 .. m -> Nat] /\ f[1] = 0 /\ \A i \in 1 .. m - 1 : f[i + 1] = f[i] + size[i]
  <2>1. m - 1 + 1 = m
    BY <1>4, <1>0
  <2> QED
    BY <1>8, <2>1 DEF Gains
<1> DEFINE g == [i \in 1 .. m + 1 |-> IF i = m + 1 THEN f[m] + size[m] ELSE f[i]]
<1>10. m \in 1 .. m /\ size[m] \in Nat /\ f[m] \in Nat
  BY <1>0, <1>6, <1>9
<1>11. g \in [1 .. m + 1 -> Nat]
  <2>1. ASSUME NEW i \in 1 .. m + 1, i # m + 1
        PROVE  f[i] \in Nat
    BY <1>4, <1>9, <2>1, <1>0
  <2> QED
    BY <1>10, <2>1
<1>12. g[1] = 0
  BY <1>9, <1>6, <1>0
<1>13. ASSUME NEW i \in 1 .. m
       PROVE  g[i + 1] = g[i] + size[i]
  <2>1. i \in 1 .. m + 1 /\ i + 1 \in 1 .. m + 1 /\ i # m + 1 /\ (i # m => i \in 1 .. m - 1 /\ i + 1 # m + 1)
    BY <1>4, <1>0
  <2>2. CASE i = m
    BY <2>1, <2>2
  <2>3. CASE i # m
    BY <2>1, <2>3, <1>9
  <2> QED
    BY <2>2, <2>3
<1>14. Gains(g, size, m)
  <2> HIDE DEF g
  <2> QED
    BY <1>11, <1>12, <1>13 DEF Gains
<1> QED
  BY <1>14

(* Sums of smaller sizes lie closer together, and never cross.             *)
Smaller(small, size, n) == \A i \in 1 .. n : small[i] <= size[i]

(* Two places come closer, and stay in order.                              *)
LEMMA SumsShrink ==
    ASSUME NEW size, NEW small, NEW n, Sizes(size, n), Sizes(small, n), Smaller(small, size, n),
           NEW f, NEW g, Gains(f, size, n), Gains(g, small, n),
           NEW a \in 1 .. n + 1, NEW b \in a .. n + 1
    PROVE  /\ f[a] \in Nat /\ f[b] \in Nat /\ g[a] \in Nat /\ g[b] \in Nat
           /\ g[a] <= g[b] /\ g[b] - g[a] <= f[b] - f[a]
<1>0. /\ n \in Nat /\ size \in [1 .. n -> Nat] /\ small \in [1 .. n -> Nat]
      /\ \A i \in 1 .. n : small[i] <= size[i]
  BY DEF Sizes, Smaller
<1>1. /\ f \in [1 .. n + 1 -> Nat] /\ \A i \in 1 .. n : f[i + 1] = f[i] + size[i]
      /\ g \in [1 .. n + 1 -> Nat] /\ \A i \in 1 .. n : g[i + 1] = g[i] + small[i]
  BY DEF Gains
<1> DEFINE Bad == {t \in a .. n + 1 : ~(g[a] <= g[t] /\ g[t] - g[a] <= f[t] - f[a])}
<1>2. \A t \in a .. n + 1 : t \in Nat /\ t \in 1 .. n + 1
  BY <1>0
<1>3. ASSUME Bad # {} PROVE FALSE
  <2>1. Bad \in SUBSET Nat
    BY <1>2
  <2>2. PICK t \in Bad : \A u \in Bad : t <= u
    <3> HIDE DEF Bad
    <3> QED
      BY <1>3, <2>1, LeastNat
  <2>3. t \in a .. n + 1
    OBVIOUS
  <2>4. f[a] \in Nat /\ g[a] \in Nat
    BY <1>1
  <2>5. t # a
    BY <2>4
  <2>6. t - 1 \in a .. n + 1 /\ ~(t <= t - 1) /\ t - 1 \in 1 .. n /\ t - 1 + 1 = t
    BY <1>0, <2>3, <2>5
  <2>7. t - 1 \notin Bad
    <3> HIDE DEF Bad
    <3> QED
      BY <2>2, <2>6
  <2>8. PICK i \in 1 .. n : i = t - 1
    BY <2>6
  <2>9. g[a] <= g[i] /\ g[i] - g[a] <= f[i] - f[a]
    BY <2>6, <2>7, <2>8
  <2>10. f[t] = f[i] + size[i] /\ g[t] = g[i] + small[i]
    BY <1>1, <2>6, <2>8
  <2>11. size[i] \in Nat /\ small[i] \in Nat /\ small[i] <= size[i] /\ f[i] \in Nat /\ g[i] \in Nat
    <3>1. i \in 1 .. n + 1
      BY <1>2, <2>6, <2>8
    <3> QED
      BY <1>0, <1>1, <3>1
  <2>12. g[a] <= g[t] /\ g[t] - g[a] <= f[t] - f[a]
    BY <2>4, <2>9, <2>10, <2>11
  <2> QED
    BY <2>12
<1>4. b \notin Bad
  BY <1>3
<1> QED
  BY <1>1, <1>2, <1>4

-----------------------------------------------------------------------------
(* Buffers.                                                                *)
SizeIn(fb) == [i \in 1 .. Len(fb) |-> CodeSize[fb[i].op]]

(* What a buffer is: p-codes in slots, each with a size.                   *)
LEMMA CodeIs ==
    ASSUME NEW fb, IsCode(fb)
    PROVE  /\ DOMAIN fb = 1 .. Len(fb) /\ Len(fb) \in Nat
           /\ \A i \in DOMAIN fb : fb[i].op \in PCode /\ fb[i] = P(fb[i].op, fb[i].v)
           /\ Sizes(SizeIn(fb), Len(fb))
<1>1. PICK V : fb \in Seq([op : PCode, v : V])
  BY DEF IsCode
<1>2. DOMAIN fb = 1 .. Len(fb) /\ Len(fb) \in Nat
  BY <1>1
<1>3. ASSUME NEW i \in DOMAIN fb
      PROVE  fb[i].op \in PCode /\ fb[i] = P(fb[i].op, fb[i].v)
  <2>1. fb[i] \in [op : PCode, v : V]
    <3>1. PICK R : R = [op : PCode, v : V]
      OBVIOUS
    <3>2. fb \in Seq(R) /\ i \in 1 .. Len(fb)
      BY <1>1, <1>2, <3>1
    <3>3. fb[i] \in R
      BY <3>2
    <3> QED
      BY <3>1, <3>3, Zenon
  <2> QED
    BY <2>1 DEF P
<1>4. \A i \in 1 .. Len(fb) : CodeSize[fb[i].op] \in Nat
  BY <1>2, <1>3, SizesAreNumbers
<1> QED
  BY <1>2, <1>3, <1>4 DEF Sizes, SizeIn

(* A function that adds sizes up slot by slot is their sums.               *)
LEMMA AddsAreSums ==
    ASSUME NEW n \in Nat, NEW size, Sizes(size, n), NEW o,
           o = [i \in 1 .. n + 1 |-> IF i = 1 THEN 0 ELSE o[i - 1] + size[i - 1]]
    PROVE  Gains(o, size, n)
<1>1. PICK f : Gains(f, size, n)
  BY SumsExist
<1>2. f \in [1 .. n + 1 -> Nat] /\ f[1] = 0 /\ \A i \in 1 .. n : f[i + 1] = f[i] + size[i]
  BY <1>1 DEF Gains
<1>3. o[1] = 0
  <2>1. 1 \in 1 .. n + 1
    OBVIOUS
  <2> QED
    BY <2>1
<1>4. ASSUME NEW i \in 1 .. n
      PROVE  o[i + 1] = o[i] + size[i]
  <2>1. i + 1 \in 1 .. n + 1 /\ i + 1 # 1 /\ i + 1 - 1 = i
    OBVIOUS
  <2> QED
    BY <2>1
<1>5. \A i \in 0 .. n : o[i + 1] = f[i + 1]
  <2> DEFINE a == [i \in 0 .. n |-> o[i + 1]]
             b == [i \in 0 .. n |-> f[i + 1]]
  <2>1. a[0] = b[0]
    BY <1>2, <1>3
  <2>2. ASSUME NEW i \in 1 .. n, a[i - 1] = b[i - 1]
        PROVE  a[i] = b[i]
    <3>1. i \in 0 .. n /\ i - 1 \in 0 .. n /\ i - 1 + 1 = i
      OBVIOUS
    <3>2. o[i] = f[i]
      BY <2>2, <3>1
    <3> QED
      BY <1>2, <1>4, <3>1, <3>2
  <2> HIDE DEF a, b
  <2>3. GoAlike(a, b, n)
    BY <2>1, <2>2 DEF GoAlike
  <2>4. \A i \in 0 .. n : a[i] = b[i]
    BY <2>3, Agree
  <2> QED
    BY <2>4 DEF a, b
<1>6. \A i \in 1 .. n + 1 : o[i] \in Nat
  <2>1. ASSUME NEW i \in 1 .. n + 1
        PROVE  o[i] \in Nat
    <3>1. i - 1 \in 0 .. n /\ i - 1 + 1 = i
      OBVIOUS
    <3> QED
      BY <1>2, <1>5, <3>1
  <2> QED
    BY <2>1
<1>7. o \in [1 .. n + 1 -> Nat]
  BY <1>6
<1> QED
  BY <1>3, <1>4, <1>7 DEF Gains

(* Sums are such a function.                                               *)
LEMMA SumsAdd ==
    ASSUME NEW n \in Nat, NEW size, NEW f, Gains(f, size, n)
    PROVE  f = [i \in 1 .. n + 1 |-> IF i = 1 THEN 0 ELSE f[i - 1] + size[i - 1]]
<1>1. f \in [1 .. n + 1 -> Nat] /\ f[1] = 0 /\ \A i \in 1 .. n : f[i + 1] = f[i] + size[i]
  BY DEF Gains
<1>2. ASSUME NEW i \in 1 .. n + 1
      PROVE  f[i] = IF i = 1 THEN 0 ELSE f[i - 1] + size[i - 1]
  <2>1. i # 1 => i - 1 \in 1 .. n /\ i - 1 + 1 = i
    OBVIOUS
  <2> QED
    BY <1>1, <2>1
<1> QED
  BY <1>1, <1>2

(* Offset adds the sizes up.                                               *)
LEMMA OffsetIs ==
    ASSUME NEW fb, IsCode(fb)
    PROVE  Gains(Offset(fb), SizeIn(fb), Len(fb))
<1>1. Len(fb) \in Nat /\ Sizes(SizeIn(fb), Len(fb))
  BY CodeIs
<1>2. PICK n \in Nat : n = Len(fb)
  BY <1>1
<1> DEFINE Adds(g) == g = [i \in 1 .. n + 1 |-> IF i = 1 THEN 0 ELSE g[i - 1] + CodeSize[fb[i - 1].op]]
<1>3. ASSUME NEW i \in 1 .. n + 1, i # 1
      PROVE  SizeIn(fb)[i - 1] = CodeSize[fb[i - 1].op]
  <2>1. i - 1 \in 1 .. n
    BY <1>3
  <2> QED
    BY <1>2, <2>1 DEF SizeIn
<1>4. PICK f : Gains(f, SizeIn(fb), n)
  BY <1>1, <1>2, SumsExist
<1>5. Adds(f)
  <2>1. f = [i \in 1 .. n + 1 |-> IF i = 1 THEN 0 ELSE f[i - 1] + SizeIn(fb)[i - 1]]
    BY <1>4, SumsAdd
  <2> QED
    BY <1>3, <2>1
<1>6. Adds(CHOOSE g : Adds(g))
  <2>1. \E g : Adds(g)
    BY <1>5
  <2> HIDE DEF Adds
  <2> QED
    BY <2>1
<1>7. Offset(fb) = CHOOSE g : Adds(g)
  BY <1>2 DEF Offset
<1>8. PICK o : o = Offset(fb)
  OBVIOUS
<1>9. Adds(o)
  BY <1>6, <1>7, <1>8
<1>10. o = [i \in 1 .. n + 1 |-> IF i = 1 THEN 0 ELSE o[i - 1] + SizeIn(fb)[i - 1]]
  BY <1>3, <1>9
<1>11. Gains(o, SizeIn(fb), n)
  BY <1>1, <1>2, <1>10, AddsAreSums
<1> QED
  BY <1>2, <1>8, <1>11

(* A buffer in which no p-code is longer than code_size[] says, and what its *)
(* p-codes are long.                                                       *)
WithinTable(fb) == \A i \in DOMAIN fb : Length(fb[i]) \in 0 .. CodeSize[fb[i].op]
LengthIn(fb) == [i \in 1 .. Len(fb) |-> Length(fb[i])]

LEMMA LengthsAre ==
    ASSUME NEW fb, IsCode(fb), WithinTable(fb)
    PROVE  /\ Len(fb) \in Nat /\ Sizes(LengthIn(fb), Len(fb)) /\ Sizes(SizeIn(fb), Len(fb))
           /\ Smaller(LengthIn(fb), SizeIn(fb), Len(fb))
<1>1. DOMAIN fb = 1 .. Len(fb) /\ Len(fb) \in Nat /\ \A i \in DOMAIN fb : fb[i].op \in PCode
  BY CodeIs
<1>2. ASSUME NEW i \in 1 .. Len(fb)
      PROVE  /\ Length(fb[i]) \in Nat /\ Length(fb[i]) <= CodeSize[fb[i].op]
             /\ LengthIn(fb)[i] = Length(fb[i]) /\ SizeIn(fb)[i] = CodeSize[fb[i].op]
  <2>1. CodeSize[fb[i].op] \in Nat /\ Length(fb[i]) \in 0 .. CodeSize[fb[i].op]
    BY <1>1, SizesAreNumbers DEF WithinTable
  <2> QED
    BY <2>1 DEF LengthIn, SizeIn
<1>3. Sizes(LengthIn(fb), Len(fb))
  BY <1>1, <1>2 DEF Sizes, LengthIn
<1> QED
  BY <1>1, <1>2, <1>3, CodeIs DEF Smaller

(* Address adds the lengths up.                                            *)
LEMMA AddressIs ==
    ASSUME NEW fb, IsCode(fb), WithinTable(fb)
    PROVE  Gains(Address(fb), LengthIn(fb), Len(fb))
<1>1. Len(fb) \in Nat /\ Sizes(LengthIn(fb), Len(fb))
  BY LengthsAre
<1>2. PICK n \in Nat : n = Len(fb)
  BY <1>1
<1> DEFINE Adds(g) == g = [i \in 1 .. n + 1 |-> IF i = 1 THEN 0 ELSE g[i - 1] + Length(fb[i - 1])]
<1>3. ASSUME NEW i \in 1 .. n + 1, i # 1
      PROVE  LengthIn(fb)[i - 1] = Length(fb[i - 1])
  <2>1. i - 1 \in 1 .. n
    BY <1>3
  <2> QED
    BY <1>2, <2>1 DEF LengthIn
<1>4. PICK f : Gains(f, LengthIn(fb), n)
  BY <1>1, <1>2, SumsExist
<1>5. Adds(f)
  <2>1. f = [i \in 1 .. n + 1 |-> IF i = 1 THEN 0 ELSE f[i - 1] + LengthIn(fb)[i - 1]]
    BY <1>4, SumsAdd
  <2> QED
    BY <1>3, <2>1
<1>6. Adds(CHOOSE g : Adds(g))
  <2>1. \E g : Adds(g)
    BY <1>5
  <2> HIDE DEF Adds
  <2> QED
    BY <2>1
<1>7. Address(fb) = CHOOSE g : Adds(g)
  BY <1>2 DEF Address
<1>8. PICK o : o = Address(fb)
  OBVIOUS
<1>9. Adds(o)
  BY <1>6, <1>7, <1>8
<1>10. o = [i \in 1 .. n + 1 |-> IF i = 1 THEN 0 ELSE o[i - 1] + LengthIn(fb)[i - 1]]
  BY <1>3, <1>9
<1>11. Gains(o, LengthIn(fb), n)
  BY <1>1, <1>2, <1>10, AddsAreSums
<1> QED
  BY <1>2, <1>8, <1>11

-----------------------------------------------------------------------------
(* A round of the loop.                                                    *)
Shortens(fb, i) == fb[i].op \in LongBranch /\ Reaches(fb, Place(fb), i)
IsShortened(x, y) == x.op \in LongBranch /\ y = P(ShortBranch(x.op), x.v)

(* A round leaves every slot as it is or makes the branch in it short.     *)
LEMMA ShortenIs ==
    ASSUME NEW fb, IsCode(fb)
    PROVE  /\ IsCode(Shorten(fb)) /\ Len(Shorten(fb)) = Len(fb) /\ DOMAIN Shorten(fb) = DOMAIN fb
           /\ \A i \in DOMAIN fb : Shortens(fb, i) => IsShortened(fb[i], Shorten(fb)[i])
           /\ \A i \in DOMAIN fb : ~Shortens(fb, i) => Shorten(fb)[i] = fb[i]
<1>1. DOMAIN fb = 1 .. Len(fb) /\ Len(fb) \in Nat /\ \A i \in DOMAIN fb : fb[i].op \in PCode
  BY CodeIs
<1>2. PICK V : fb \in Seq([op : PCode, v : V])
  BY DEF IsCode
<1>3. PICK R : R = [op : PCode, v : V]
  OBVIOUS
<1>4. PICK g : g = Shorten(fb)
  OBVIOUS
<1>5. g = [i \in DOMAIN fb |-> IF Shortens(fb, i) THEN P(ShortBranch(fb[i].op), fb[i].v) ELSE fb[i]]
  BY <1>4 DEF Shorten, Shortens
<1>6. DOMAIN g = DOMAIN fb
  BY <1>5
<1>7. ASSUME NEW i \in DOMAIN fb
      PROVE  /\ g[i] \in R
             /\ Shortens(fb, i) => IsShortened(fb[i], g[i])
             /\ ~Shortens(fb, i) => g[i] = fb[i]
  <2>1. fb[i] \in R
    BY <1>1, <1>2, <1>3, ElementOfSeq
  <2>2. CASE Shortens(fb, i)
    <3>1. g[i] = P(ShortBranch(fb[i].op), fb[i].v) /\ fb[i].op \in LongBranch
      BY <1>5, <2>2 DEF Shortens
    <3>2. ShortBranch(fb[i].op) \in PCode /\ fb[i].v \in V
      BY <1>3, <2>1, <3>1, ShortIsShorter
    <3> QED
      BY <1>3, <2>2, <3>1, <3>2 DEF P, IsShortened
  <2>3. CASE ~Shortens(fb, i)
    BY <1>5, <2>1, <2>3
  <2> QED
    BY <2>2, <2>3
<1>8. g \in Seq(R) /\ Len(g) = Len(fb)
  <2>1. g \in [1 .. Len(fb) -> R]
    BY <1>1, <1>5, <1>6, <1>7
  <2> QED
    BY <1>1, <2>1, SeqDef, LenProperties
<1>9. IsCode(g)
  BY <1>3, <1>8 DEF IsCode
<1> QED
  BY <1>4, <1>6, <1>7, <1>8, <1>9

(* No slot gets larger, and one that is made short gets smaller.           *)
LEMMA ShortenIsSmaller ==
    ASSUME NEW fb, IsCode(fb)
    PROVE  /\ Smaller(SizeIn(Shorten(fb)), SizeIn(fb), Len(fb))
           /\ \A i \in DOMAIN fb : Shortens(fb, i) => SizeIn(Shorten(fb))[i] < SizeIn(fb)[i]
<1>1. DOMAIN fb = 1 .. Len(fb) /\ Len(fb) \in Nat /\ \A i \in DOMAIN fb : fb[i].op \in PCode
  BY CodeIs
<1>2. PICK g : g = Shorten(fb)
  OBVIOUS
<1>3. /\ IsCode(g) /\ Len(g) = Len(fb)
      /\ \A i \in DOMAIN fb : Shortens(fb, i) => IsShortened(fb[i], g[i])
      /\ \A i \in DOMAIN fb : ~Shortens(fb, i) => g[i] = fb[i]
  BY <1>2, ShortenIs
<1>4. ASSUME NEW i \in DOMAIN fb
      PROVE  SizeIn(g)[i] <= SizeIn(fb)[i] /\ (Shortens(fb, i) => SizeIn(g)[i] < SizeIn(fb)[i])
  <2>1. SizeIn(g)[i] = CodeSize[g[i].op] /\ SizeIn(fb)[i] = CodeSize[fb[i].op]
    BY <1>1, <1>3 DEF SizeIn
  <2>2. CodeSize[fb[i].op] \in Nat
    BY <1>1, SizesAreNumbers
  <2>3. CASE Shortens(fb, i)
    <3>1. PICK p \in LongBranch : p = fb[i].op /\ g[i].op = ShortBranch(p)
      <4>1. fb[i].op \in LongBranch /\ g[i] = P(ShortBranch(fb[i].op), fb[i].v)
        BY <1>3, <2>3 DEF IsShortened
      <4>2. g[i].op = ShortBranch(fb[i].op)
        BY <4>1 DEF P
      <4> QED
        BY <4>1, <4>2, Zenon
    <3>2. CodeSize[ShortBranch(p)] < CodeSize[p] /\ CodeSize[ShortBranch(p)] \in Nat
      BY ShortIsShorter, SizesAreNumbers
    <3> QED
      BY <2>1, <2>2, <3>1, <3>2
  <2>4. CASE ~Shortens(fb, i)
    BY <1>3, <2>1, <2>2, <2>4
  <2> QED
    BY <2>3, <2>4
<1> QED
  BY <1>1, <1>2, <1>4 DEF Smaller

(* What a round does to two places and the code between them.              *)
LEMMA RoundShrinks ==
    ASSUME NEW fb, IsCode(fb), NEW a \in 1 .. Len(fb) + 1, NEW b \in a .. Len(fb) + 1
    PROVE  /\ Offset(fb)[a] \in Nat /\ Offset(fb)[b] \in Nat
           /\ Offset(Shorten(fb))[a] \in Nat /\ Offset(Shorten(fb))[b] \in Nat
           /\ Offset(Shorten(fb))[a] <= Offset(Shorten(fb))[b]
           /\ Offset(Shorten(fb))[b] - Offset(Shorten(fb))[a] <= Offset(fb)[b] - Offset(fb)[a]
<1>1. PICK n \in Nat : n = Len(fb)
  BY CodeIs
<1>2. PICK h : h = Shorten(fb)
  OBVIOUS
<1>3. IsCode(h) /\ Len(h) = n
  BY <1>1, <1>2, ShortenIs
<1>4. Sizes(SizeIn(fb), n) /\ Sizes(SizeIn(h), n)
  BY <1>1, <1>3, CodeIs
<1>5. Gains(Offset(fb), SizeIn(fb), n) /\ Gains(Offset(h), SizeIn(h), n)
  BY <1>1, <1>3, OffsetIs
<1>6. Smaller(SizeIn(h), SizeIn(fb), n)
  BY <1>1, <1>2, ShortenIsSmaller
<1>7. a \in 1 .. n + 1 /\ b \in a .. n + 1
  BY <1>1
<1>8. /\ Offset(fb)[a] \in Nat /\ Offset(fb)[b] \in Nat /\ Offset(h)[a] \in Nat /\ Offset(h)[b] \in Nat
      /\ Offset(h)[a] <= Offset(h)[b] /\ Offset(h)[b] - Offset(h)[a] <= Offset(fb)[b] - Offset(fb)[a]
  BY <1>4, <1>5, <1>6, <1>7, SumsShrink
<1> QED
  BY <1>2, <1>8

(* The code never grows, and a round that changes something makes it       *)
(* shorter: so the loop of flushfunc() ends (cc4.c:2432).                  *)
THEOREM RoundsShorten ==
    ASSUME NEW fb, IsCode(fb)
    PROVE  /\ Size(fb) \in Nat /\ Size(Shorten(fb)) \in Nat /\ Size(Shorten(fb)) <= Size(fb)
           /\ Shorten(fb) # fb => Size(Shorten(fb)) < Size(fb)
<1>1. PICK n \in Nat : n = Len(fb)
  BY CodeIs
<1>2. PICK g : g = Shorten(fb)
  OBVIOUS
<1>3. IsCode(g) /\ Len(g) = n /\ DOMAIN g = DOMAIN fb /\ DOMAIN fb = 1 .. n
  BY <1>1, <1>2, ShortenIs, CodeIs
<1>4. /\ Gains(Offset(fb), SizeIn(fb), n) /\ Sizes(SizeIn(fb), n)
      /\ Gains(Offset(g), SizeIn(g), n) /\ Sizes(SizeIn(g), n)
  BY <1>1, <1>3, OffsetIs, CodeIs
<1>5. Size(fb) = Offset(fb)[n + 1] /\ Size(g) = Offset(g)[n + 1]
  BY <1>1, <1>3 DEF Size
<1>6. Offset(fb)[1] = 0 /\ Offset(g)[1] = 0
  BY <1>4 DEF Gains
<1>7. ASSUME NEW a \in 1 .. n + 1, NEW b \in a .. n + 1
      PROVE  /\ Offset(fb)[a] \in Nat /\ Offset(fb)[b] \in Nat /\ Offset(g)[a] \in Nat /\ Offset(g)[b] \in Nat
             /\ Offset(g)[b] - Offset(g)[a] <= Offset(fb)[b] - Offset(fb)[a]
  BY <1>1, <1>2, <1>7, RoundShrinks
<1>8. Size(fb) \in Nat /\ Size(g) \in Nat /\ Size(g) <= Size(fb)
  <2>1. 1 \in 1 .. n + 1 /\ n + 1 \in 1 .. n + 1
    OBVIOUS
  <2>2. /\ Offset(fb)[n + 1] \in Nat /\ Offset(g)[n + 1] \in Nat
        /\ Offset(g)[n + 1] - Offset(g)[1] <= Offset(fb)[n + 1] - Offset(fb)[1]
    BY <1>7, <2>1
  <2> QED
    BY <1>5, <1>6, <2>2
<1>9. ASSUME g # fb
      PROVE  Size(g) < Size(fb)
  <2>1. PICK i \in DOMAIN fb : Shortens(fb, i)
    <3>1. SUFFICES ASSUME \A i \in DOMAIN fb : ~Shortens(fb, i) PROVE FALSE
      OBVIOUS
    <3>2. \A i \in DOMAIN fb : g[i] = fb[i]
      BY <1>2, <3>1, ShortenIs
    <3>3. fb = [i \in DOMAIN fb |-> fb[i]] /\ g = [i \in DOMAIN g |-> g[i]]
      <4>1. PICK V : fb \in Seq([op : PCode, v : V])
        BY DEF IsCode
      <4>2. PICK U : g \in Seq([op : PCode, v : U])
        BY <1>3 DEF IsCode
      <4> QED
        BY <4>1, <4>2
    <3> QED
      BY <1>3, <1>9, <3>2, <3>3
  <2>2. i \in 1 .. n /\ i \in 1 .. n + 1 /\ i + 1 \in 1 .. n + 1 /\ 1 \in 1 .. n + 1 /\ i \in 1 .. n + 1
        /\ n + 1 \in i + 1 .. n + 1
    BY <1>3
  <2>3. Offset(g)[i] - Offset(g)[1] <= Offset(fb)[i] - Offset(fb)[1]
    BY <1>7, <2>2
  <2>4. Offset(g)[n + 1] - Offset(g)[i + 1] <= Offset(fb)[n + 1] - Offset(fb)[i + 1]
    BY <1>7, <2>2
  <2>5. SizeIn(g)[i] < SizeIn(fb)[i]
    BY <1>2, <2>1, ShortenIsSmaller
  <2>6. Offset(g)[i + 1] = Offset(g)[i] + SizeIn(g)[i] /\ Offset(fb)[i + 1] = Offset(fb)[i] + SizeIn(fb)[i]
    BY <1>4, <2>2 DEF Gains
  <2>7. SizeIn(g)[i] \in Nat /\ SizeIn(fb)[i] \in Nat
    BY <1>4, <2>2 DEF Sizes
  <2>8. /\ Offset(fb)[i] \in Nat /\ Offset(g)[i] \in Nat
        /\ Offset(fb)[n + 1] \in Nat /\ Offset(g)[n + 1] \in Nat
    BY <1>7, <2>2
  <2> QED
    BY <1>5, <1>6, <2>3, <2>4, <2>5, <2>6, <2>7, <2>8
<1> QED
  BY <1>2, <1>8, <1>9

-----------------------------------------------------------------------------
(* Reach.                                                                  *)

(* A count of bytes that an int can hold is what the int holds.            *)
LEMMA AsIntIs ==
    ASSUME NEW x \in Int, -PosMax <= x, x <= PosMax
    PROVE  AsInt(x) = x
<1>1. PICK h \in Nat : h = PosMax + 1
  BY FuncBufAssumption
<1>2. x + h \in 0 .. 2 * h - 1 /\ 2 * h \in Nat \ {0}
  BY <1>1, FuncBufAssumption
<1>3. IsDivided(x + h, 2 * h, 0, x + h)
  BY <1>2 DEF IsDivided
<1>4. (x + h) % (2 * h) = x + h
  BY <1>3, DivMod
<1>5. AsInt(x) = ((x + h) % (2 * h)) - h
  <2>1. x + PosMax + 1 = x + h /\ 2 * (PosMax + 1) = 2 * h
    BY <1>1, FuncBufAssumption
  <2> QED
    BY <1>1, <2>1 DEF AsInt
<1> QED
  BY <1>4, <1>5

(* A label the round has chosen: where it is, and how far from behind the  *)
(* branch, if that is made short.                                          *)
Chosen(fb, i, j) ==
    /\ i \in DOMAIN fb /\ j \in DOMAIN fb
    /\ fb[j] = P("LABm", fb[i].v)
    /\ Offset(fb)[j] - (Offset(fb)[i] + CodeSize[ShortBranch(fb[i].op)]) \in -Reach .. Reach - 1

(* A branch that a round makes short has such a label.                     *)
LEMMA ChosenReaches ==
    ASSUME NEW fb, IsCode(fb), Size(fb) <= PosMax, NEW i \in DOMAIN fb, Shortens(fb, i)
    PROVE  \E j : Chosen(fb, i, j)
<1>1. DOMAIN fb = 1 .. Len(fb) /\ Len(fb) \in Nat
  BY CodeIs
<1> DEFINE labels == {j \in Recorded(fb) : fb[j].v = fb[i].v}
           first == CHOOSE j \in labels : \A k \in labels : j <= k
           lpos == Place(fb)[first]
           size == CodeSize[ShortBranch(fb[i].op)]
           delta == AsInt(lpos - (Place(fb)[i] + size))
<1>2. fb[i].op \in LongBranch /\ labels # {} /\ lpos >= 0 /\ delta >= -Reach /\ delta < Reach
  BY DEF Shortens, Reaches
<1>3. labels \in SUBSET Nat /\ labels \in SUBSET DOMAIN fb
  BY <1>1 DEF Recorded
<1>4. first \in labels
  <2>1. \E j \in labels : \A k \in labels : j <= k
    <3> HIDE DEF labels
    <3> QED
      BY <1>2, <1>3, LeastNat
  <2> HIDE DEF labels
  <2> QED
    BY <2>1
<1>5. PICK j \in DOMAIN fb : j = first
  BY <1>3, <1>4
<1>6. fb[j] = P("LABm", fb[i].v)
  <2>1. j \in Recorded(fb) /\ fb[j].v = fb[i].v
    <3> HIDE DEF first
    <3> QED
      BY <1>4, <1>5
  <2>2. fb[j].op = "LABm"
    BY <2>1 DEF Recorded
  <2> QED
    BY <2>1, <2>2, CodeIs
<1>7. PICK o : o = Offset(fb)
  OBVIOUS
<1>8. DOMAIN o = 1 .. Len(fb) + 1
  BY <1>7, OffsetIs DEF Gains
<1>9. ASSUME NEW k \in 1 .. Len(fb) + 1
      PROVE  o[k] \in Nat /\ o[k] <= PosMax /\ Place(fb)[k] = o[k]
  <2>1. k \in 1 .. Len(fb) + 1 /\ Len(fb) + 1 \in k .. Len(fb) + 1 /\ Len(fb) + 1 \in 1 .. Len(fb) + 1
    BY <1>1
  <2>2. PICK n \in Nat : n = Len(fb)
    BY <1>1
  <2>3. o[k] \in Nat /\ o[n + 1] \in Nat /\ o[k] <= o[n + 1]
    <3>1. Gains(o, SizeIn(fb), n) /\ Sizes(SizeIn(fb), n) /\ Smaller(SizeIn(fb), SizeIn(fb), n)
      <4>1. Gains(o, SizeIn(fb), n) /\ Sizes(SizeIn(fb), n)
        BY <1>7, <2>2, OffsetIs, CodeIs
      <4>2. \A m \in 1 .. n : SizeIn(fb)[m] \in Nat
        BY <4>1 DEF Sizes
      <4> QED
        BY <4>1, <4>2 DEF Smaller
    <3>2. k \in 1 .. n + 1 /\ n + 1 \in k .. n + 1
      BY <2>1, <2>2
    <3> QED
      BY <3>1, <3>2, SumsShrink
  <2>4. o[n + 1] <= PosMax
    BY <1>7, <2>2 DEF Size
  <2>5. o[k] \in Nat /\ o[k] <= PosMax /\ -PosMax <= o[k]
    BY <2>3, <2>4, FuncBufAssumption
  <2>6. AsInt(o[k]) = o[k]
    BY <2>5, AsIntIs
  <2>7. Place(fb)[k] = AsInt(o[k])
    BY <1>7, <1>8, <2>1 DEF Place
  <2> QED
    BY <2>5, <2>6, <2>7
<1>10. size \in Nat
  BY <1>2, ShortIsShorter, SizesAreNumbers
<1>11. o[i + 1] = o[i] + CodeSize[fb[i].op] /\ CodeSize[fb[i].op] \in Nat /\ size < CodeSize[fb[i].op]
  <2>1. o[i + 1] = o[i] + SizeIn(fb)[i]
    BY <1>1, <1>7, OffsetIs DEF Gains
  <2>2. SizeIn(fb)[i] = CodeSize[fb[i].op]
    BY <1>1 DEF SizeIn
  <2>3. fb[i].op \in PCode
    BY CodeIs
  <2> QED
    BY <1>2, <2>1, <2>2, <2>3, ShortIsShorter, SizesAreNumbers
<1>12. i \in 1 .. Len(fb) + 1 /\ j \in 1 .. Len(fb) + 1 /\ i + 1 \in 1 .. Len(fb) + 1
  BY <1>1
<1>13. o[j] \in Nat /\ o[j] <= PosMax /\ Place(fb)[j] = o[j]
  BY <1>9, <1>12
<1>14. o[i] \in Nat /\ Place(fb)[i] = o[i] /\ o[i + 1] \in Nat /\ o[i + 1] <= PosMax
  BY <1>9, <1>12
<1>15. delta = AsInt(o[j] - (o[i] + size))
  <2>1. lpos = o[j]
    BY <1>5, <1>13
  <2> HIDE DEF lpos
  <2> QED
    BY <1>14, <2>1
<1> HIDE DEF size, delta
<1>16. PICK d \in Int : d = o[j] - (o[i] + size)
  BY <1>10, <1>13, <1>14
<1>17. -PosMax <= d /\ d <= PosMax
  BY <1>10, <1>11, <1>13, <1>14, <1>16, FuncBufAssumption
<1>18. delta = d
  BY <1>15, <1>16, <1>17, AsIntIs
<1>19. d \in -Reach .. Reach - 1
  BY <1>2, <1>18, FuncBufAssumption
<1>20. Chosen(fb, i, j)
  BY <1>6, <1>7, <1>16, <1>19 DEF Chosen, size
<1> QED
  BY <1>20

(* Reach in the bytes of code_size[], which the loop counts with.          *)
NearBySize(fb) ==
    \A i \in DOMAIN fb : fb[i].op \in ShortForms =>
      \E j \in DOMAIN fb : /\ fb[j] = P("LABm", fb[i].v)
                           /\ Offset(fb)[j] - Offset(fb)[i + 1] \in -Reach .. Reach - 1

(* A round keeps every short branch in reach of its label, and puts those  *)
(* it makes short in reach.                                                *)
LEMMA ReachIsKept ==
    ASSUME NEW fb, IsCode(fb), Size(fb) <= PosMax, NearBySize(fb)
    PROVE  NearBySize(Shorten(fb))
<1>1. DOMAIN fb = 1 .. Len(fb) /\ Len(fb) \in Nat /\ \A i \in DOMAIN fb : fb[i] = P(fb[i].op, fb[i].v)
  BY CodeIs
<1>2. PICK g : g = Shorten(fb)
  OBVIOUS
<1>3. /\ IsCode(g) /\ Len(g) = Len(fb) /\ DOMAIN g = DOMAIN fb
      /\ \A i \in DOMAIN fb : Shortens(fb, i) => IsShortened(fb[i], g[i])
      /\ \A i \in DOMAIN fb : ~Shortens(fb, i) => g[i] = fb[i]
  BY <1>2, ShortenIs
<1>4. PICK f : f = Offset(fb)
  OBVIOUS
<1>5. PICK o : o = Offset(g)
  OBVIOUS
<1>6. ASSUME NEW a \in 1 .. Len(fb) + 1, NEW b \in a .. Len(fb) + 1
      PROVE  f[a] \in Nat /\ f[b] \in Nat /\ o[a] \in Nat /\ o[b] \in Nat /\ o[a] <= o[b] /\ o[b] - o[a] <= f[b] - f[a]
  BY <1>2, <1>4, <1>5, <1>6, RoundShrinks
<1>7. SUFFICES ASSUME NEW i \in DOMAIN fb, g[i].op \in ShortForms
               PROVE  \E j \in DOMAIN fb : g[j] = P("LABm", g[i].v) /\ o[j] - o[i + 1] \in -Reach .. Reach - 1
  BY <1>2, <1>3, <1>5 DEF NearBySize
<1>8. /\ f[i + 1] = f[i] + CodeSize[fb[i].op] /\ CodeSize[fb[i].op] \in Nat
      /\ o[i + 1] = o[i] + CodeSize[g[i].op] /\ CodeSize[g[i].op] \in Nat
  <2>1. f[i + 1] = f[i] + SizeIn(fb)[i] /\ o[i + 1] = o[i] + SizeIn(g)[i]
    BY <1>1, <1>3, <1>4, <1>5, OffsetIs DEF Gains
  <2>2. SizeIn(fb)[i] = CodeSize[fb[i].op] /\ SizeIn(g)[i] = CodeSize[g[i].op]
    BY <1>1, <1>3 DEF SizeIn
  <2>3. fb[i].op \in PCode /\ g[i].op \in PCode
    BY <1>3, CodeIs
  <2> QED
    BY <2>1, <2>2, <2>3, SizesAreNumbers
<1>9. ASSUME NEW j \in DOMAIN fb, fb[j] = P("LABm", fb[i].v)
      PROVE  g[j] = fb[j]
  <2>1. fb[j].op = "LABm"
    BY <1>9 DEF P
  <2>2. ~Shortens(fb, j)
    BY <2>1, ShortIsShorter DEF Shortens
  <2> QED
    BY <1>3, <2>2
<1>10. i \in 1 .. Len(fb) + 1 /\ i + 1 \in 1 .. Len(fb) + 1
  BY <1>1
<1>11. CASE Shortens(fb, i)
  <2>1. PICK j : Chosen(fb, i, j)
    BY <1>11, ChosenReaches
  <2>2. j \in DOMAIN fb /\ fb[j] = P("LABm", fb[i].v)
    BY <2>1 DEF Chosen
  <2>3. fb[i].op \in LongBranch /\ g[i].op = ShortBranch(fb[i].op) /\ g[i].v = fb[i].v
    <3>1. fb[i].op \in LongBranch /\ g[i] = P(ShortBranch(fb[i].op), fb[i].v)
      BY <1>3, <1>11 DEF IsShortened
    <3> QED
      BY <3>1 DEF P
  <2>4. g[j] = P("LABm", g[i].v)
    BY <1>9, <2>2, <2>3
  <2>5. f[j] - (f[i] + CodeSize[g[i].op]) \in -Reach .. Reach - 1
    BY <1>4, <2>1, <2>3 DEF Chosen
  <2>6. CodeSize[g[i].op] < CodeSize[fb[i].op]
    BY <2>3, ShortIsShorter
  <2>7. j # i
    <3>1. fb[j].op = "LABm"
      BY <2>2 DEF P
    <3> QED
      BY <2>3, <3>1, ShortIsShorter
  <2>8. CASE j > i
    <3>1. i + 1 \in 1 .. Len(fb) + 1 /\ j \in i + 1 .. Len(fb) + 1
      BY <1>1, <2>2, <2>8
    <3>2. /\ f[i + 1] \in Nat /\ f[j] \in Nat /\ o[i + 1] \in Nat /\ o[j] \in Nat
          /\ o[i + 1] <= o[j] /\ o[j] - o[i + 1] <= f[j] - f[i + 1]
      BY <1>6, <3>1
    <3>3. f[i] \in Nat
      BY <1>6, <1>10
    <3>4. o[j] - o[i + 1] \in -Reach .. Reach - 1
      BY <1>8, <2>5, <2>6, <3>2, <3>3, FuncBufAssumption
    <3> QED
      BY <2>2, <2>4, <3>4
  <2>9. CASE j < i
    <3>1. j \in 1 .. Len(fb) + 1 /\ i \in j .. Len(fb) + 1
      BY <1>1, <2>2, <2>9
    <3>2. /\ f[i] \in Nat /\ f[j] \in Nat /\ o[i] \in Nat /\ o[j] \in Nat
          /\ o[j] <= o[i] /\ o[i] - o[j] <= f[i] - f[j]
      BY <1>6, <3>1
    <3>3. o[j] - o[i + 1] \in -Reach .. Reach - 1
      BY <1>8, <2>5, <3>2, FuncBufAssumption
    <3> QED
      BY <2>2, <2>4, <3>3
  <2> QED
    BY <1>1, <2>2, <2>7, <2>8, <2>9
<1>12. CASE ~Shortens(fb, i)
  <2>1. g[i] = fb[i]
    BY <1>3, <1>12
  <2>2. PICK j \in DOMAIN fb : fb[j] = P("LABm", fb[i].v) /\ f[j] - f[i + 1] \in -Reach .. Reach - 1
    BY <1>4, <1>7, <2>1 DEF NearBySize
  <2>3. g[j] = P("LABm", g[i].v)
    BY <1>9, <2>1, <2>2
  <2>4. CASE j > i
    <3>1. i + 1 \in 1 .. Len(fb) + 1 /\ j \in i + 1 .. Len(fb) + 1
      BY <1>1, <2>2, <2>4
    <3>2. /\ f[i + 1] \in Nat /\ f[j] \in Nat /\ o[i + 1] \in Nat /\ o[j] \in Nat
          /\ o[i + 1] <= o[j] /\ o[j] - o[i + 1] <= f[j] - f[i + 1]
      BY <1>6, <3>1
    <3>3. o[j] - o[i + 1] \in -Reach .. Reach - 1
      BY <2>2, <3>2, FuncBufAssumption
    <3> QED
      BY <2>3, <3>3
  <2>5. CASE ~(j > i)
    <3>1. j \in 1 .. Len(fb) + 1 /\ i + 1 \in j .. Len(fb) + 1
      BY <1>1, <2>2, <2>5
    <3>2. /\ f[i + 1] \in Nat /\ f[j] \in Nat /\ o[i + 1] \in Nat /\ o[j] \in Nat
          /\ o[j] <= o[i + 1] /\ o[i + 1] - o[j] <= f[i + 1] - f[j]
      BY <1>6, <3>1
    <3>3. o[j] - o[i + 1] \in -Reach .. Reach - 1
      BY <2>2, <3>2, FuncBufAssumption
    <3> QED
      BY <2>3, <3>3
  <2> QED
    BY <2>4, <2>5
<1> QED
  BY <1>11, <1>12

-----------------------------------------------------------------------------
(* The loop: round[n] is the buffer behind n rounds.                       *)
Loop(round) == \A n \in Nat : round[n + 1] = Shorten(round[n])

(* The buffer stays one, and no larger than it was.                        *)
LEMMA LoopShrinks ==
    ASSUME NEW round, Loop(round), IsCode(round[0])
    PROVE  \A n \in Nat : IsCode(round[n]) /\ Size(round[n]) \in Nat /\ Size(round[n]) <= Size(round[0])
<1> DEFINE Good(n) == IsCode(round[n]) /\ Size(round[n]) \in Nat /\ Size(round[n]) <= Size(round[0])
           Bad == {n \in Nat : ~Good(n)}
<1>1. SUFFICES ASSUME Bad # {} PROVE FALSE
  OBVIOUS
<1>2. PICK n \in Bad : \A t \in Bad : n <= t
  <2>1. Bad \in SUBSET Nat
    OBVIOUS
  <2> HIDE DEF Bad
  <2> QED
    BY <1>1, <2>1, LeastNat
<1>3. Good(0) /\ Size(round[0]) \in Nat
  BY RoundsShorten
<1>4. n \in Nat /\ ~Good(n)
  <2> HIDE DEF Good
  <2> QED
    OBVIOUS
<1>5. n # 0
  <2> HIDE DEF Good
  <2> QED
    BY <1>3, <1>4
<1>6. n - 1 \in Nat /\ ~(n <= n - 1) /\ n - 1 + 1 = n
  BY <1>4, <1>5
<1>7. Good(n - 1)
  <2>1. n - 1 \notin Bad
    <3> HIDE DEF Bad
    <3> QED
      BY <1>2, <1>6
  <2> HIDE DEF Good
  <2> QED
    BY <1>6, <2>1
<1>8. round[n] = Shorten(round[n - 1])
  <2>1. round[n - 1 + 1] = Shorten(round[n - 1])
    BY <1>6 DEF Loop
  <2> QED
    BY <1>6, <2>1
<1>9. IsCode(round[n])
  BY <1>7, <1>8, ShortenIs
<1>10. Size(round[n]) \in Nat /\ Size(round[n]) <= Size(round[n - 1])
  BY <1>7, <1>8, RoundsShorten
<1> QED
  BY <1>3, <1>4, <1>7, <1>9, <1>10

(* The short-branch loop of flushfunc() ends, after no more rounds than    *)
(* the function has bytes: there is a round that changes nothing.          *)
THEOREM LoopEnds ==
    ASSUME NEW round, Loop(round), IsCode(round[0])
    PROVE  \E n \in 0 .. Size(round[0]) : Shorten(round[n]) = round[n]
<1>1. SUFFICES ASSUME \A n \in 0 .. Size(round[0]) : Shorten(round[n]) # round[n]
               PROVE  FALSE
  OBVIOUS
<1>2. PICK s \in Nat : s = Size(round[0])
  BY RoundsShorten
<1> DEFINE Late == {n \in 0 .. s + 1 : Size(round[n]) > s - n}
<1>3. CASE Late = {}
  <2>1. s + 1 \notin Late /\ s + 1 \in 0 .. s + 1 /\ s + 1 \in Nat
    BY <1>3
  <2>2. Size(round[s + 1]) \in Nat
    BY <2>1, LoopShrinks
  <2> QED
    BY <2>1, <2>2
<1>4. CASE Late # {}
  <2>1. Late \in SUBSET Nat
    OBVIOUS
  <2>2. PICK n \in Late : \A t \in Late : n <= t
    <3> HIDE DEF Late
    <3> QED
      BY <1>4, <2>1, LeastNat
  <2>3. n \in 0 .. s + 1 /\ Size(round[n]) > s - n
    OBVIOUS
  <2>4. n # 0
    BY <1>2, <2>3
  <2>5. n - 1 \in 0 .. s /\ n - 1 \in 0 .. s + 1 /\ n - 1 \in Nat /\ ~(n <= n - 1) /\ n - 1 + 1 = n
    BY <2>3, <2>4
  <2>6. n - 1 \notin Late
    <3> HIDE DEF Late
    <3> QED
      BY <2>2, <2>5
  <2>7. IsCode(round[n - 1]) /\ Size(round[n - 1]) \in Nat
    BY <2>5, LoopShrinks
  <2>8. Size(round[n - 1]) <= s - (n - 1)
    BY <2>5, <2>6, <2>7
  <2>9. round[n] = Shorten(round[n - 1])
    <3>1. round[n - 1 + 1] = Shorten(round[n - 1])
      BY <2>5 DEF Loop
    <3> QED
      BY <2>5, <3>1
  <2>10. Shorten(round[n - 1]) # round[n - 1]
    BY <1>1, <1>2, <2>5
  <2>11. Size(round[n]) < Size(round[n - 1]) /\ Size(round[n]) \in Nat
    BY <2>7, <2>9, <2>10, RoundsShorten
  <2> QED
    BY <2>3, <2>7, <2>8, <2>11
<1> QED
  BY <1>3, <1>4

(* Whatever the rounds have done to a function in which no branch was      *)
(* short, every branch that is short now has a label of its name near by,  *)
(* in the bytes of code_size[] (cc4.c:2474).                               *)
LEMMA NearInEveryRound ==
    ASSUME NEW round, Loop(round), IsCode(round[0]), Size(round[0]) <= PosMax,
           \A i \in DOMAIN round[0] : round[0][i].op \notin ShortForms
    PROVE  \A n \in Nat : NearBySize(round[n])
<1> DEFINE Bad == {n \in Nat : ~NearBySize(round[n])}
<1>1. SUFFICES ASSUME Bad # {} PROVE FALSE
  OBVIOUS
<1>2. PICK n \in Bad : \A t \in Bad : n <= t
  <2>1. Bad \in SUBSET Nat
    OBVIOUS
  <2> HIDE DEF Bad
  <2> QED
    BY <1>1, <2>1, LeastNat
<1>3. n \in Nat /\ ~NearBySize(round[n])
  OBVIOUS
<1>4. NearBySize(round[0])
  BY DEF NearBySize
<1>5. n # 0
  BY <1>3, <1>4
<1>6. n - 1 \in Nat /\ ~(n <= n - 1) /\ n - 1 + 1 = n
  BY <1>3, <1>5
<1>7. n - 1 \notin Bad
  <2> HIDE DEF Bad
  <2> QED
    BY <1>2, <1>6
<1>8. NearBySize(round[n - 1])
  BY <1>6, <1>7
<1>9. round[n] = Shorten(round[n - 1])
  <2>1. round[n - 1 + 1] = Shorten(round[n - 1])
    BY <1>6 DEF Loop
  <2> QED
    BY <1>6, <2>1
<1>10. IsCode(round[n - 1]) /\ Size(round[n - 1]) <= PosMax
  <2>1. /\ IsCode(round[n - 1]) /\ Size(round[n - 1]) \in Nat /\ Size(round[n - 1]) <= Size(round[0])
        /\ Size(round[0]) \in Nat
    BY <1>6, LoopShrinks
  <2> QED
    BY <2>1, FuncBufAssumption
<1>11. NearBySize(round[n])
  BY <1>8, <1>9, <1>10, ReachIsKept
<1> QED
  BY <1>3, <1>11

(* A short form is as long as code_size[] says, whatever its label.        *)
LEMMA ShortIsAsRated ==
    ASSUME NEW p \in LongBranch, NEW v
    PROVE  Length(P(ShortBranch(p), v)) = CodeSize[ShortBranch(p)]
<1>1. ShortBranch(p) \notin StepsBy \cup DOMAIN LengthOfZero \cup DOMAIN Underrated
  BY DEF LongBranch, ShortBranch, shortbranchTab, StepsBy, LengthOfZero, Underrated
<1>2. P(ShortBranch(p), v).op = ShortBranch(p)
  BY DEF P
<1> QED
  BY <1>1, <1>2 DEF Length

(* A round makes no p-code longer than code_size[] says.                   *)
LEMMA TableIsKept ==
    ASSUME NEW fb, IsCode(fb), WithinTable(fb)
    PROVE  WithinTable(Shorten(fb))
<1>1. PICK g : g = Shorten(fb)
  OBVIOUS
<1>2. /\ IsCode(g) /\ DOMAIN g = DOMAIN fb
      /\ \A i \in DOMAIN fb : Shortens(fb, i) => IsShortened(fb[i], g[i])
      /\ \A i \in DOMAIN fb : ~Shortens(fb, i) => g[i] = fb[i]
  BY <1>1, ShortenIs
<1>3. ASSUME NEW i \in DOMAIN fb
      PROVE  Length(g[i]) \in 0 .. CodeSize[g[i].op]
  <2>1. CASE Shortens(fb, i)
    <3>1. PICK p \in LongBranch : g[i] = P(ShortBranch(p), fb[i].v)
      BY <1>2, <2>1 DEF IsShortened
    <3>2. g[i].op = ShortBranch(p)
      BY <3>1 DEF P
    <3>3. CodeSize[ShortBranch(p)] \in Nat
      BY ShortIsShorter, SizesAreNumbers
    <3> QED
      BY <3>1, <3>2, <3>3, ShortIsAsRated
  <2>2. CASE ~Shortens(fb, i)
    BY <1>2, <2>2 DEF WithinTable
  <2> QED
    BY <2>1, <2>2
<1> QED
  BY <1>1, <1>2, <1>3 DEF WithinTable

(* What is near in the bytes of code_size[] is near in those emitted.      *)
LEMMA NearIsReached ==
    ASSUME NEW fb, IsCode(fb), WithinTable(fb), NearBySize(fb)
    PROVE  AllReach(fb)
<1>1. DOMAIN fb = 1 .. Len(fb) /\ Len(fb) \in Nat
  BY CodeIs
<1>2. PICK f : f = Offset(fb)
  OBVIOUS
<1>3. PICK o : o = Address(fb)
  OBVIOUS
<1>4. ASSUME NEW a \in 1 .. Len(fb) + 1, NEW b \in a .. Len(fb) + 1
      PROVE  f[a] \in Nat /\ f[b] \in Nat /\ o[a] \in Nat /\ o[b] \in Nat /\ o[a] <= o[b] /\ o[b] - o[a] <= f[b] - f[a]
  <2>1. Gains(f, SizeIn(fb), Len(fb)) /\ Gains(o, LengthIn(fb), Len(fb))
    BY <1>2, <1>3, OffsetIs, AddressIs
  <2>2. Sizes(SizeIn(fb), Len(fb)) /\ Sizes(LengthIn(fb), Len(fb)) /\ Smaller(LengthIn(fb), SizeIn(fb), Len(fb))
    BY LengthsAre
  <2> QED
    BY <2>1, <2>2, SumsShrink
<1>5. SUFFICES ASSUME NEW i \in DOMAIN fb, fb[i].op \in ShortForms
               PROVE  \E j \in DOMAIN fb : fb[j] = P("LABm", fb[i].v) /\ o[j] - o[i + 1] \in -Reach .. Reach - 1
  BY <1>3 DEF AllReach
<1>6. PICK j \in DOMAIN fb : fb[j] = P("LABm", fb[i].v) /\ f[j] - f[i + 1] \in -Reach .. Reach - 1
  BY <1>2, <1>5 DEF NearBySize
<1>7. CASE j > i
  <2>1. i + 1 \in 1 .. Len(fb) + 1 /\ j \in i + 1 .. Len(fb) + 1
    BY <1>1, <1>7
  <2>2. /\ f[i + 1] \in Nat /\ f[j] \in Nat /\ o[i + 1] \in Nat /\ o[j] \in Nat
        /\ o[i + 1] <= o[j] /\ o[j] - o[i + 1] <= f[j] - f[i + 1]
    BY <1>4, <2>1
  <2>3. o[j] - o[i + 1] \in -Reach .. Reach - 1
    BY <1>6, <2>2, FuncBufAssumption
  <2> QED
    BY <1>6, <2>3
<1>8. CASE ~(j > i)
  <2>1. j \in 1 .. Len(fb) + 1 /\ i + 1 \in j .. Len(fb) + 1
    BY <1>1, <1>8
  <2>2. /\ f[i + 1] \in Nat /\ f[j] \in Nat /\ o[i + 1] \in Nat /\ o[j] \in Nat
        /\ o[j] <= o[i + 1] /\ o[i + 1] - o[j] <= f[i + 1] - f[j]
    BY <1>4, <2>1
  <2>3. o[j] - o[i + 1] \in -Reach .. Reach - 1
    BY <1>6, <2>2, FuncBufAssumption
  <2> QED
    BY <1>6, <2>3
<1> QED
  BY <1>7, <1>8

(* The loop keeps every p-code within the table.                           *)
LEMMA TableInEveryRound ==
    ASSUME NEW round, Loop(round), IsCode(round[0]), WithinTable(round[0])
    PROVE  \A n \in Nat : WithinTable(round[n])
<1> DEFINE Bad == {n \in Nat : ~WithinTable(round[n])}
<1>1. SUFFICES ASSUME Bad # {} PROVE FALSE
  OBVIOUS
<1>2. PICK n \in Bad : \A t \in Bad : n <= t
  <2>1. Bad \in SUBSET Nat
    OBVIOUS
  <2> HIDE DEF Bad
  <2> QED
    BY <1>1, <2>1, LeastNat
<1>3. n \in Nat /\ ~WithinTable(round[n]) /\ n # 0
  OBVIOUS
<1>4. n - 1 \in Nat /\ ~(n <= n - 1) /\ n - 1 + 1 = n
  BY <1>3
<1>5. n - 1 \notin Bad
  <2> HIDE DEF Bad
  <2> QED
    BY <1>2, <1>4
<1>6. WithinTable(round[n - 1]) /\ IsCode(round[n - 1])
  BY <1>4, <1>5, LoopShrinks
<1>7. round[n] = Shorten(round[n - 1])
  <2>1. round[n - 1 + 1] = Shorten(round[n - 1])
    BY <1>4 DEF Loop
  <2> QED
    BY <1>4, <2>1
<1>8. WithinTable(round[n])
  BY <1>6, <1>7, TableIsKept
<1> QED
  BY <1>3, <1>8

(* Whatever the rounds have done to a function in which no branch was      *)
(* short, every branch that is short now reaches a label of its name over  *)
(* the bytes that the assembler makes of the code between them             *)
(* (cc4.c:2474).  Two things must be true of the function: an int can hold *)
(* the size that code_size[] gives it, and none of its p-codes is longer   *)
(* than code_size[] says.  cc4.c:1682 has the second for a fact, yet it    *)
(* fails for a step by more than 2 and for GETb1su, GETb1pu and ADD2n with *)
(* a number of two bytes: Programs.TightBranches is made of such steps.     *)
THEOREM ShortBranchesFit ==
    ASSUME NEW round, Loop(round), IsCode(round[0]), Size(round[0]) <= PosMax, WithinTable(round[0]),
           \A i \in DOMAIN round[0] : round[0][i].op \notin ShortForms
    PROVE  \A n \in Nat : AllReach(round[n])
<1>1. ASSUME NEW n \in Nat
      PROVE  AllReach(round[n])
  <2>1. NearBySize(round[n])
    BY NearInEveryRound
  <2>2. IsCode(round[n]) /\ WithinTable(round[n])
    BY LoopShrinks, TableInEveryRound
  <2> QED
    BY <2>1, <2>2, NearIsReached
<1> QED
  BY <1>1
=============================================================================
