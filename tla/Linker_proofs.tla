----------------------------- MODULE Linker_proofs -----------------------------
(***************************************************************************)
(* What a linked program is, for every program and every library.          *)
(*                                                                         *)
(* First, which modules it has.  The invariant of Pass2 says what is in    *)
(* extBuffer: the names that this scan has collected, one behind the other *)
(* (Laid), and, from whatever byte one starts to read, the tail of a name  *)
(* whose module is included or will be when the scan is over (TailsKnown), *)
(* also in what earlier scans left.  Why it gives up has an invariant of   *)
(* its own (CauseInv): MatchName never leaves the name behind that it      *)
(* looks for, so what is in the buffer are names that are missing, each of *)
(* them once.                                                              *)
(*                                                                         *)
(* Then, what becomes of them: Pass3 has placed them side by side in their *)
(* segments (PlacesInv), and each word that Pass4 has fixed up is still as *)
(* it was written (Pass4Inv).                                              *)
(***************************************************************************)
EXTENDS Linker, Lemmas, SequenceTheorems, FiniteSetTheorems, FunctionTheorems

-----------------------------------------------------------------------------
(* Pass2.                                                                  *)

(* How many of the first n bytes are NUL.                                   *)
Nuls(b, n) == Cardinality({t \in 0 .. n - 1 : b[t] = NUL})

(* The first n bytes of b are the names xs, with their NULs; off says where *)
(* each starts.                                                             *)
Laid(b, n, off, xs) ==
    /\ xs \in Seq(Name) /\ n \in 0 .. BufLen
    /\ off \in [0 .. Len(xs) -> 0 .. n] /\ off[0] = 0 /\ off[Len(xs)] = n
    /\ \A i \in 1 .. Len(xs) :
          /\ off[i] = off[i - 1] + Len(xs[i]) + 1
          /\ \A j \in 1 .. Len(xs[i]) + 1 : b[off[i - 1] + j - 1] = Ended(xs[i])[j]
    /\ \A i \in 0 .. Len(xs) : Nuls(b, off[i]) = i

-----------------------------------------------------------------------------
(* A name with its NUL.                                                    *)
LEMMA EndedIs ==
    ASSUME NEW x \in Name
    PROVE  /\ Len(x) \in Nat /\ Len(Ended(x)) = Len(x) + 1
           /\ \A j \in 1 .. Len(x) : x[j] \in Char /\ x[j] # NUL /\ Ended(x)[j] = x[j]
           /\ Ended(x)[Len(x) + 1] = NUL
BY CharAssumption DEF Name, Char, Ended, CharAssumption

(* Only one place has a given number of NULs before it, one of them next   *)
(* to it.                                                                  *)
LEMMA OneStart ==
    ASSUME NEW b, NEW s \in Nat, NEW t \in Nat, s < t, b[t - 1] = NUL
    PROVE  Nuls(b, s) # Nuls(b, t)
<1> DEFINE A == {u \in 0 .. s - 1 : b[u] = NUL}
           B == {u \in 0 .. t - 1 : b[u] = NUL}
<1>1. IsFiniteSet(0 .. t - 1)
  BY FS_Interval
<1>2. IsFiniteSet(B)
  BY <1>1, FS_Subset
<1>3. A \in SUBSET B /\ t - 1 \in B /\ t - 1 \notin A
  OBVIOUS
<1>4. Cardinality(A) # Cardinality(B)
  BY <1>2, <1>3, FS_Subset
<1> QED
  BY <1>4 DEF Nuls

(* Name i of those in the buffer lies between two offsets.                 *)
LEMMA LaidAt ==
    ASSUME NEW b, NEW n, NEW off, NEW xs, Laid(b, n, off, xs), NEW i \in 1 .. Len(xs)
    PROVE  /\ xs[i] \in Name /\ Len(xs[i]) \in Nat /\ Len(xs) \in Nat
           /\ n \in Nat /\ n <= BufLen /\ BufLen \in Nat
           /\ off[i - 1] \in Nat /\ off[i] = off[i - 1] + Len(xs[i]) + 1 /\ off[i] <= n
           /\ \A j \in 1 .. Len(xs[i]) :
                 b[off[i - 1] + j - 1] = xs[i][j] /\ b[off[i - 1] + j - 1] # NUL
           /\ b[off[i - 1] + Len(xs[i])] = NUL
<1>1. xs[i] \in Name /\ Len(xs) \in Nat
  BY ElementOfSeq DEF Laid
<1>2. Len(xs[i]) \in Nat
  BY <1>1, EndedIs
<1>3. i - 1 \in 0 .. Len(xs) /\ i \in 0 .. Len(xs)
  BY <1>1
<1>4. n \in Nat /\ n <= BufLen /\ BufLen \in Nat /\ off[i - 1] \in Nat /\ off[i] <= n
  <2>1. BufLen \in Nat /\ n \in 0 .. BufLen /\ off \in [0 .. Len(xs) -> 0 .. n]
    BY BufferAssumption DEF Laid, BufferAssumption
  <2>2. off[i - 1] \in 0 .. n /\ off[i] \in 0 .. n
    BY <1>3, <2>1
  <2> QED
    BY <2>1, <2>2
<1>5. off[i] = off[i - 1] + Len(xs[i]) + 1
  BY DEF Laid
<1>6. \A j \in 1 .. Len(xs[i]) + 1 : b[off[i - 1] + j - 1] = Ended(xs[i])[j]
  BY DEF Laid
<1>7. ASSUME NEW j \in 1 .. Len(xs[i])
      PROVE  b[off[i - 1] + j - 1] = xs[i][j] /\ b[off[i - 1] + j - 1] # NUL
  BY <1>1, <1>2, <1>6, EndedIs
<1>8. b[off[i - 1] + (Len(xs[i]) + 1) - 1] = Ended(xs[i])[Len(xs[i]) + 1]
  BY <1>2, <1>6
<1>9. off[i - 1] + (Len(xs[i]) + 1) - 1 = off[i - 1] + Len(xs[i])
  BY <1>2, <1>4
<1> QED
  BY <1>1, <1>2, <1>4, <1>5, <1>7, <1>8, <1>9, EndedIs

(* GetName(i) is name i of those in the buffer.                            *)
LEMMA GetNameGets ==
    ASSUME NEW b, NEW n, NEW off, NEW xs, Laid(b, n, off, xs), NEW i \in 0 .. Len(xs) - 1
    PROVE  GetName(b, i) = xs[i + 1]
<1> DEFINE x == xs[i + 1]
           s == off[i]
<1>1. Len(xs) \in Nat /\ i + 1 \in 1 .. Len(xs) /\ (i + 1) - 1 = i /\ i \in 0 .. Len(xs)
  BY DEF Laid
<1>2. /\ x \in Name /\ Len(x) \in Nat /\ s \in Nat /\ BufLen \in Nat
      /\ s + Len(x) + 1 <= BufLen
      /\ \A j \in 1 .. Len(x) : b[s + j - 1] = x[j] /\ b[s + j - 1] # NUL
      /\ b[s + Len(x)] = NUL
  <2>1. PICK m \in 1 .. Len(xs) : m = i + 1 /\ m - 1 = i
    BY <1>1
  <2>2. /\ off[m] <= n /\ n <= BufLen /\ n \in Nat /\ BufLen \in Nat
        /\ off[m] = off[m - 1] + Len(xs[m]) + 1 /\ Len(xs[m]) \in Nat /\ off[m - 1] \in Nat
    BY LaidAt
  <2>3. /\ xs[m] \in Name /\ b[off[m - 1] + Len(xs[m])] = NUL
        /\ \A j \in 1 .. Len(xs[m]) :
              b[off[m - 1] + j - 1] = xs[m][j] /\ b[off[m - 1] + j - 1] # NUL
    BY LaidAt
  <2>4. x = xs[m] /\ s = off[m - 1]
    BY <2>1
  <2> HIDE DEF x, s
  <2> QED
    BY <2>2, <2>3, <2>4
<1>3. Nuls(b, s) = i
  BY <1>1 DEF Laid
<1>4. s = 0 \/ b[s - 1] = NUL
  <2>1. CASE i = 0
    BY <2>1 DEF Laid
  <2>2. CASE i # 0
    <3>1. i \in 1 .. Len(xs)
      BY <1>1, <2>2
    <3>2. /\ s = off[i - 1] + Len(xs[i]) + 1 /\ off[i - 1] \in Nat /\ Len(xs[i]) \in Nat
          /\ b[off[i - 1] + Len(xs[i])] = NUL
      BY <3>1, LaidAt
    <3>3. s - 1 = off[i - 1] + Len(xs[i])
      BY <3>2
    <3> QED
      BY <3>2, <3>3
  <2> QED
    BY <2>1, <2>2
<1> HIDE DEF x, s
<1>5. s \in Index
  BY <1>2 DEF Index
<1>6. ASSUME NEW t \in Index, Nuls(b, t) = i, t = 0 \/ b[t - 1] = NUL
      PROVE  t = s
  <2>1. t \in Nat
    BY DEF Index
  <2>2. CASE t < s
    <3>1. s \in Nat /\ b[s - 1] = NUL
      BY <1>2, <1>4, <2>1, <2>2
    <3>2. Nuls(b, t) # Nuls(b, s)
      BY <2>1, <2>2, <3>1, OneStart
    <3> QED
      BY <1>3, <1>6, <3>2
  <2>3. CASE s < t
    <3>1. s \in Nat /\ b[t - 1] = NUL
      BY <1>2, <1>6, <2>1, <2>3
    <3>2. Nuls(b, s) # Nuls(b, t)
      BY <2>1, <2>3, <3>1, OneStart
    <3> QED
      BY <1>3, <1>6, <3>2
  <2> QED
    BY <1>2, <2>1, <2>2, <2>3
<1>7. NameStart(b, i) = s
  BY <1>3, <1>4, <1>5, <1>6 DEF NameStart, Nuls, s
<1> DEFINE e == CHOOSE t \in s .. BufLen - 1 : b[t] = NUL /\ \A u \in s .. t - 1 : b[u] # NUL
<1>8. \A u \in s .. s + Len(x) - 1 : b[u] # NUL
  <2>1. TAKE u \in s .. s + Len(x) - 1
  <2>2. u - s + 1 \in 1 .. Len(x) /\ s + (u - s + 1) - 1 = u
    BY <1>2
  <2> QED
    BY <1>2, <2>2
<1>9. s + Len(x) \in s .. BufLen - 1 /\ b[s + Len(x)] = NUL
  BY <1>2
<1>10. e = s + Len(x)
  <2>1. \A t \in s .. BufLen - 1 :
            b[t] = NUL /\ (\A u \in s .. t - 1 : b[u] # NUL) => t = s + Len(x)
    <3>1. SUFFICES ASSUME NEW t \in s .. BufLen - 1, b[t] = NUL, \A u \in s .. t - 1 : b[u] # NUL
                   PROVE  t = s + Len(x)
      OBVIOUS
    <3>2. ~(t \in s .. s + Len(x) - 1)
      BY <1>8, <3>1
    <3>3. ~(s + Len(x) \in s .. t - 1)
      BY <1>9, <3>1
    <3>4. s \in Nat /\ Len(x) \in Nat /\ t \in Nat /\ s <= t
      BY <1>2
    <3> QED
      BY <3>2, <3>3, <3>4
  <2> QED
    BY <1>8, <1>9, <2>1 DEF e
<1>11. GetName(b, i) = [j \in 1 .. e - s |-> b[s + j - 1]]
  BY <1>7 DEF GetName, e
<1> HIDE DEF e
<1>12. GetName(b, i) = [j \in 1 .. Len(x) |-> x[j]]
  <2>1. e - s = Len(x)
    BY <1>2, <1>10
  <2> QED
    BY <1>2, <1>11, <2>1
<1> QED
  BY <1>2, <1>12 DEF Name, x

(* The buffer c is b with name x and its NUL written at n.                 *)
Added(b, c, n, x) ==
    /\ n + Len(x) \in Index
    /\ \A i \in Index : i \notin n .. n + Len(x) => c[i] = b[i]
    /\ \A j \in 1 .. Len(x) + 1 : c[n + j - 1] = Ended(x)[j]
    /\ \A j \in 1 .. Len(x) : c[n + j - 1] # NUL
    /\ c[n + Len(x)] = NUL

(* AddName writes the name and nothing else.                               *)
LEMMA AddNameIs ==
    ASSUME NEW b, NEW n \in Nat, NEW x \in Name, Fits(x, n), NEW c, c = AddName(b, n, x)
    PROVE  Added(b, c, n, x)
<1>1. Len(x) \in Nat /\ n + Len(x) < BufLen /\ BufLen \in Nat
  BY EndedIs, BufferAssumption DEF Fits, BufferAssumption
<1>2. c = [i \in Index |-> IF i \in n .. n + Len(x) THEN Ended(x)[i - n + 1] ELSE b[i]]
  BY DEF AddName
<1>3. ASSUME NEW j \in 1 .. Len(x) + 1
      PROVE  c[n + j - 1] = Ended(x)[j]
  <2>1. n + j - 1 \in Index /\ n + j - 1 \in n .. n + Len(x) /\ (n + j - 1) - n + 1 = j
    BY <1>1 DEF Index
  <2> QED
    BY <1>2, <2>1
<1>4. ASSUME NEW j \in 1 .. Len(x)
      PROVE  c[n + j - 1] # NUL
  <2>1. x[j] # NUL /\ Ended(x)[j] = x[j] /\ j \in 1 .. Len(x) + 1
    BY <1>1, EndedIs
  <2> QED
    BY <1>3, <2>1
<1>5. c[n + Len(x)] = NUL
  <2>1. c[n + (Len(x) + 1) - 1] = Ended(x)[Len(x) + 1]
    BY <1>1, <1>3
  <2>2. n + (Len(x) + 1) - 1 = n + Len(x)
    BY <1>1
  <2> QED
    BY <2>1, <2>2, EndedIs
<1>6. n + Len(x) \in Index
  BY <1>1 DEF Index
<1>7. \A i \in Index : i \notin n .. n + Len(x) => c[i] = b[i]
  BY <1>2
<1> QED
  BY <1>3, <1>4, <1>5, <1>6, <1>7 DEF Added

(* A name that AddName adds lies behind the others.                        *)
LEMMA AddNameLays ==
    ASSUME NEW b, NEW n, NEW off, NEW xs, Laid(b, n, off, xs), NEW x \in Name, Fits(x, n)
    PROVE  \E off2 : Laid(AddName(b, n, x), n + Len(x) + 1, off2, Append(xs, x))
<1> DEFINE c == AddName(b, n, x)
           m == n + Len(x) + 1
           ys == Append(xs, x)
           L == Len(xs)
           off2 == [i \in 0 .. L + 1 |-> IF i <= L THEN off[i] ELSE m]
<1>1. /\ Len(x) \in Nat /\ L \in Nat /\ n \in Nat /\ BufLen \in Nat /\ n + Len(x) < BufLen
      /\ xs \in Seq(Name) /\ n \in 0 .. BufLen
  BY EndedIs, BufferAssumption DEF Fits, BufferAssumption, Laid
<1>2. /\ ys \in Seq(Name) /\ Len(ys) = L + 1
      /\ \A i \in 1 .. L : ys[i] = xs[i]
      /\ ys[L + 1] = x
  BY <1>1
<1> HIDE DEF c, ys
<1>3. /\ \A i \in Index : i \notin n .. n + Len(x) => c[i] = b[i]
      /\ \A j \in 1 .. Len(x) + 1 : c[n + j - 1] = Ended(x)[j]
      /\ \A j \in 1 .. Len(x) : c[n + j - 1] # NUL
      /\ c[n + Len(x)] = NUL
  <2>1. c = AddName(b, n, x)
    BY DEF c
  <2>2. Added(b, c, n, x)
    BY <1>1, <2>1, AddNameIs
  <2> QED
    BY <2>2 DEF Added
<1>4. /\ off \in [0 .. L -> 0 .. n] /\ off[0] = 0 /\ off[L] = n
      /\ \A i \in 0 .. L : Nuls(b, off[i]) = i
  BY DEF Laid
<1>5. /\ \A i \in 0 .. L : off2[i] = off[i] /\ off[i] \in 0 .. n
      /\ off2[L + 1] = m /\ m \in 0 .. BufLen
      /\ off2 \in [0 .. L + 1 -> 0 .. m]
  <2>1. \A i \in 0 .. L : off2[i] = off[i] /\ off[i] \in 0 .. n
    BY <1>1, <1>4
  <2>2. off2[L + 1] = m /\ m \in 0 .. BufLen
    BY <1>1
  <2>3. ASSUME NEW i \in 0 .. L + 1
        PROVE  (IF i <= L THEN off[i] ELSE m) \in 0 .. m
    <3>1. CASE i <= L
      <4>1. i \in 0 .. L
        BY <1>1, <3>1
      <4>2. off[i] \in 0 .. n
        BY <2>1, <4>1
      <4> QED
        BY <1>1, <3>1, <4>2
    <3>2. CASE ~(i <= L)
      BY <1>1, <3>2
    <3> QED
      BY <3>1, <3>2
  <2> QED
    BY <2>1, <2>2, <2>3
<1> HIDE DEF off2
<1>6. \A t \in 0 .. n - 1 : c[t] = b[t]
  BY <1>1, <1>3 DEF Index
<1>7. ASSUME NEW i \in 1 .. L + 1
      PROVE  /\ off2[i] = off2[i - 1] + Len(ys[i]) + 1
             /\ \A j \in 1 .. Len(ys[i]) + 1 : c[off2[i - 1] + j - 1] = Ended(ys[i])[j]
  <2>1. CASE i = L + 1
    <3>1. off2[i - 1] = n /\ ys[i] = x /\ off2[i] = m
      BY <1>1, <1>2, <1>4, <1>5, <2>1
    <3> QED
      BY <1>3, <3>1
  <2>2. CASE i \in 1 .. L
    <3>1. ys[i] = xs[i] /\ off2[i] = off[i] /\ off2[i - 1] = off[i - 1]
      BY <1>1, <1>2, <1>5, <2>2
    <3>2. /\ Len(xs[i]) \in Nat /\ off[i - 1] \in Nat /\ off[i] = off[i - 1] + Len(xs[i]) + 1
          /\ off[i] <= n
      BY <2>2, LaidAt
    <3>3. ASSUME NEW j \in 1 .. Len(xs[i]) + 1
          PROVE  c[off[i - 1] + j - 1] = Ended(xs[i])[j]
      <4>1. off[i - 1] + j - 1 \in 0 .. n - 1
        <5>1. PICK l \in Nat : l = Len(xs[i])
          BY <3>2
        <5>2. PICK q \in Nat : q = off[i - 1]
          BY <3>2
        <5>3. j \in Int /\ 1 <= j /\ j <= l + 1 /\ q + l + 1 <= n /\ n \in Int
          BY <1>1, <3>2, <5>1, <5>2
        <5>4. q + j - 1 \in 0 .. n - 1
          BY <5>3
        <5> QED
          BY <5>2, <5>4
      <4>2. b[off[i - 1] + j - 1] = Ended(xs[i])[j]
        BY <2>2 DEF Laid
      <4> QED
        BY <1>6, <4>1, <4>2
    <3> QED
      BY <3>1, <3>2, <3>3
  <2> QED
    BY <1>1, <2>1, <2>2
<1>8. ASSUME NEW i \in 0 .. L + 1
      PROVE  Nuls(c, off2[i]) = i
  <2>1. \A q \in 0 .. n : Nuls(c, q) = Nuls(b, q)
    <3>1. TAKE q \in 0 .. n
    <3>2. {t \in 0 .. q - 1 : c[t] = NUL} = {t \in 0 .. q - 1 : b[t] = NUL}
      BY <1>1, <1>6
    <3> QED
      BY <3>2 DEF Nuls
  <2>2. CASE i \in 0 .. L
    BY <1>4, <1>5, <2>1, <2>2
  <2>3. CASE i = L + 1
    <3> DEFINE A == {t \in 0 .. n - 1 : c[t] = NUL}
    <3>1. {t \in 0 .. m - 1 : c[t] = NUL} = A \cup {n + Len(x)}
      <4>1. ASSUME NEW t \in 0 .. m - 1, c[t] = NUL
            PROVE  t \in 0 .. n - 1 \/ t = n + Len(x)
        <5>1. SUFFICES ASSUME t >= n, t < n + Len(x) PROVE FALSE
          BY <1>1
        <5>2. t - n + 1 \in 1 .. Len(x) /\ n + (t - n + 1) - 1 = t
          BY <1>1, <5>1
        <5> QED
          BY <1>3, <4>1, <5>2
      <4>2. n + Len(x) \in 0 .. m - 1 /\ \A t \in 0 .. n - 1 : t \in 0 .. m - 1
        BY <1>1
      <4> HIDE DEF m
      <4> QED
        BY <1>3, <4>1, <4>2
    <3>2. IsFiniteSet(A) /\ n + Len(x) \notin A
      <4>1. IsFiniteSet(0 .. n - 1)
        BY <1>1, FS_Interval
      <4>2. IsFiniteSet(A)
        BY <4>1, FS_Subset
      <4> QED
        BY <1>1, <4>2
    <3>3. Cardinality(A) = L
      <4>1. Nuls(c, n) = L
        BY <1>1, <1>4, <2>1
      <4> QED
        BY <4>1 DEF Nuls
    <3>4. Cardinality(A \cup {n + Len(x)}) = L + 1
      <4> HIDE DEF A
      <4> QED
        BY <3>2, <3>3, FS_AddElement
    <3>5. Nuls(c, m) = L + 1
      BY <3>1, <3>4 DEF Nuls
    <3> QED
      BY <1>5, <2>3, <3>5
  <2> QED
    BY <1>1, <2>2, <2>3
<1>9. Laid(c, m, off2, ys)
  <2> HIDE DEF m
  <2>1. 0 \in 0 .. L
    BY <1>1
  <2> QED
    BY <1>2, <1>4, <1>5, <1>7, <1>8, <2>1 DEF Laid
<1> QED
  BY <1>9 DEF c, ys

-----------------------------------------------------------------------------
(* Two names the same as a third are the same.                             *)
LEMMA SameAsThird ==
    ASSUME NEW x \in Name, NEW y \in Name, NEW z \in Name, Same(x, z), Same(y, z)
    PROVE  Same(x, y) /\ Same(y, x) /\ Same(z, x)
BY DEF Same

(* And a name is the same as itself.                                       *)
LEMMA SameAsItself == \A x \in Name : Same(x, x)
BY DEF Same

(* A name that is defined has one definition.                              *)
LEMMA DefinerIs ==
    ASSUME NEW x \in Name, Defined(x)
    PROVE  /\ Definer(x) \in DOMAIN Pub /\ Same(Pub[Definer(x)].name, x)
           /\ \A p \in DOMAIN Pub : Same(Pub[p].name, x) => p = Definer(x)
           /\ Home(x) \in Module
<1>1. Definer(x) \in DOMAIN Pub /\ Same(Pub[Definer(x)].name, x)
  BY DEF Defined, Definer
<1>2. ASSUME NEW p \in DOMAIN Pub, Same(Pub[p].name, x)
      PROVE  p = Definer(x)
  <2>1. Pub[p].name \in Name /\ Pub[Definer(x)].name \in Name
    BY <1>1, PublicAssumption DEF PublicAssumption
  <2>2. Same(Pub[p].name, Pub[Definer(x)].name)
    BY <1>1, <1>2, <2>1, SameAsThird
  <2> QED
    BY <1>1, <2>2, PublicAssumption DEF PublicAssumption
<1>3. Home(x) \in Module
  BY <1>1, PublicAssumption DEF PublicAssumption, Home
<1> QED
  BY <1>1, <1>2, <1>3

(* Names that are the same are in one module.                              *)
LEMMA SameDefiner ==
    ASSUME NEW x \in Name, NEW y \in Name, Same(x, y), Defined(x)
    PROVE  Defined(y) /\ Home(y) = Home(x)
<1>1. Definer(x) \in DOMAIN Pub /\ Same(Pub[Definer(x)].name, x)
  BY DefinerIs
<1>2. Pub[Definer(x)].name \in Name
  BY <1>1, PublicAssumption DEF PublicAssumption
<1>3. Same(y, x)
  BY SameAsItself, SameAsThird
<1>4. Same(Pub[Definer(x)].name, y)
  BY <1>1, <1>2, <1>3, SameAsThird
<1>5. Defined(y)
  BY <1>1, <1>4 DEF Defined
<1>6. Definer(x) = Definer(y)
  BY <1>1, <1>4, <1>5, DefinerIs
<1> QED
  BY <1>5, <1>6 DEF Home

(* What FindPubDef returns.                                                *)
LEMMA FindPubDefFinds ==
    ASSUME NEW x \in Name, NEW all \in BOOLEAN
    PROVE  /\ ~Defined(x) => FindPubDef(x, all) = NOT_DEFINED
           /\ Defined(x) => FindPubDef(x, all) =
                (IF all \/ Home(x) \in included THEN Definer(x) ELSE NOT_INCLUDED)
           /\ Defined(x) => Definer(x) \in Nat /\ Definer(x) > 0
<1> DEFINE found == {p \in 1 .. Len(Pub) : Same(Pub[p].name, x)}
           first == CHOOSE p \in found : \A q \in found : p <= q
<1>1. FindPubDef(x, all) = IF found = {} THEN NOT_DEFINED
                           ELSE IF all \/ Pub[first].mod \in included THEN first ELSE NOT_INCLUDED
  BY DEF FindPubDef
<1>2. DOMAIN Pub = 1 .. Len(Pub) /\ Len(Pub) \in Nat
  BY PublicAssumption DEF PublicAssumption
<1>3. ASSUME ~Defined(x) PROVE found = {}
  BY <1>2, <1>3 DEF Defined
<1>4. ASSUME Defined(x)
      PROVE  found # {} /\ first = Definer(x) /\ Definer(x) \in Nat /\ Definer(x) > 0
  <2>1. found = {Definer(x)} /\ Definer(x) \in 1 .. Len(Pub)
    BY <1>2, <1>4, DefinerIs
  <2>2. first = Definer(x)
    <3> HIDE DEF found
    <3> QED
      BY <2>1
  <2> QED
    BY <1>2, <2>1, <2>2
<1> HIDE DEF found, first
<1>5. ASSUME Defined(x)
      PROVE  FindPubDef(x, all) = IF all \/ Home(x) \in included THEN Definer(x) ELSE NOT_INCLUDED
  BY <1>1, <1>4, <1>5 DEF Home
<1> QED
  BY <1>1, <1>3, <1>4, <1>5

-----------------------------------------------------------------------------
(* From byte t on, b reads as name y does from its character d on.         *)
ReadsAs(b, t, y, d) ==
    \A j \in d .. Len(y) + 1 : t + j - d \in Index /\ b[t + j - d] = Ended(y)[j]

(* A name that is written leaves what lies before it readable as it was.   *)
LEMMA ReadsAsBefore ==
    ASSUME NEW b, NEW c, NEW n \in Nat, NEW x \in Name, Added(b, c, n, x), n = 0 \/ b[n - 1] = NUL,
           NEW y \in Name, NEW d \in 1 .. Len(y), NEW t \in Index,
           t < n, ReadsAs(b, t, y, d)
    PROVE  ReadsAs(c, t, y, d)
<1>1. Len(y) \in Nat /\ t \in Nat /\ b[n - 1] = NUL /\ n > 0
  BY EndedIs DEF Index
<1>2. ASSUME NEW j \in d .. Len(y) + 1
      PROVE  t + j - d < n
  <2>1. SUFFICES ASSUME t + j - d >= n PROVE FALSE
    BY <1>1
  <2> DEFINE i == n - 1 - t + d
  <2>2. i \in d .. Len(y) + 1 /\ i \in 1 .. Len(y) /\ t + i - d = n - 1
    BY <1>1, <2>1
  <2>3. b[n - 1] = Ended(y)[i]
    BY <2>2 DEF ReadsAs
  <2> QED
    BY <1>1, <2>2, <2>3, EndedIs
<1>3. ASSUME NEW j \in d .. Len(y) + 1
      PROVE  t + j - d \in Index /\ c[t + j - d] = Ended(y)[j]
  <2>1. t + j - d \in Index /\ b[t + j - d] = Ended(y)[j]
    BY DEF ReadsAs
  <2>2. t + j - d \notin n .. n + Len(x)
    BY <1>1, <1>2
  <2> QED
    BY <2>1, <2>2 DEF Added
<1> QED
  BY <1>3 DEF ReadsAs

(* And what lies behind it.                                                *)
LEMMA ReadsAsBehind ==
    ASSUME NEW b, NEW c, NEW n \in Nat, NEW x \in Name, Added(b, c, n, x),
           NEW y \in Name, NEW d \in 1 .. Len(y), NEW t \in Index,
           t > n + Len(x), ReadsAs(b, t, y, d)
    PROVE  ReadsAs(c, t, y, d)
<1>1. Len(y) \in Nat /\ t \in Nat /\ Len(x) \in Nat
  BY EndedIs DEF Index
<1>2. ASSUME NEW j \in d .. Len(y) + 1
      PROVE  t + j - d \in Index /\ c[t + j - d] = Ended(y)[j]
  <2>1. t + j - d \in Index /\ b[t + j - d] = Ended(y)[j]
    BY DEF ReadsAs
  <2>2. t + j - d \notin n .. n + Len(x)
    BY <1>1
  <2> QED
    BY <2>1, <2>2 DEF Added
<1> QED
  BY <1>2 DEF ReadsAs

(* The name itself can be read from each of its characters on.             *)
LEMMA ReadsAsAdded ==
    ASSUME NEW b, NEW c, NEW n \in Nat, NEW x \in Name, Added(b, c, n, x),
           NEW t \in n .. n + Len(x) - 1
    PROVE  t - n + 1 \in 1 .. Len(x) /\ ReadsAs(c, t, x, t - n + 1)
<1>1. Len(x) \in Nat /\ n + Len(x) \in Index /\ BufLen \in Nat
  BY EndedIs, BufferAssumption DEF Added, BufferAssumption
<1> DEFINE d == t - n + 1
<1>2. d \in 1 .. Len(x)
  BY <1>1
<1>3. ASSUME NEW j \in d .. Len(x) + 1
      PROVE  t + j - d \in Index /\ c[t + j - d] = Ended(x)[j]
  <2>1. t + j - d = n + j - 1 /\ j \in 1 .. Len(x) + 1 /\ n + j - 1 \in Index
    BY <1>1, <1>2 DEF Index
  <2> QED
    BY <2>1 DEF Added
<1> QED
  BY <1>2, <1>3 DEF ReadsAs

-----------------------------------------------------------------------------
(* The EXTDEFs of all modules.                                             *)
Names == UNION {Refers(m) : m \in Module}

(* No EXTDEF is the tail of another one: what MatchName takes for a name   *)
(* it has found is then that name.                                         *)
TailFree ==
    \A x, y \in Names : \A d \in 1 .. Len(y) : Same(x, SubSeq(y, d, Len(y))) => Same(x, y)

(* The module of y is included, or will be when the names xs are resolved. *)
Known(y, xs) ==
    Defined(y) /\ (Home(y) \in included \/ \E i \in 1 .. Len(xs) : Same(xs[i], y))

(* Whatever byte MatchName starts at, it reads the tail of such a name.    *)
TailsKnown(xs) ==
    \A t \in Index : buf[t] # NUL =>
        \E y \in Names : \E d \in 1 .. Len(y) : Known(y, xs) /\ ReadsAs(buf, t, y, d)

Passed(m, j) == m < at \/ (m = at /\ j < k)

Seen(xs) ==
    \A m \in included : \A j \in 1 .. Len(extdefs[m]) : Passed(m, j) => Known(extdefs[m][j], xs)

Collected(xs) ==
    \A i \in 1 .. Len(xs) : Defined(xs[i]) /\ \E m \in included : xs[i] \in Refers(m)

(* What a scan has done so far: xs are the names that it has collected.    *)
ScanWith(xs, off) ==
    /\ Laid(buf, next, off, xs) /\ extCount = Len(xs)
    /\ Collected(xs) /\ TailsKnown(xs)
    /\ TailFree => Seen(xs)

Scan == \E xs, off : ScanWith(xs, off)

(* A set of modules in which nothing is missing.                           *)
Enough(S) ==
    /\ Module \ InLib \subseteq S
    /\ \A m \in S : \A x \in Refers(m) : Defined(x) => Home(x) \in S
    /\ overlay /\ Defined(Forced) => Home(Forced) \in S

Least == \A S \in SUBSET Module : Enough(S) => included \subseteq S

Pass2TypeOK ==
    /\ extdefs \in Programs /\ overlay \in BOOLEAN
    /\ included \in SUBSET Module /\ Module \ InLib \subseteq included
    /\ buf \in [Index -> DOMAIN Toupper]
    /\ next \in 0 .. BufLen /\ extCount \in Nat
    /\ at \in 1 .. N + 1 /\ k \in Nat \ {0} /\ try \in 0 .. BufLen

InPass2 == pass \in {"pass2", "pass2_again"}

ForcedIn == overlay /\ Defined(Forced) /\ Home(Forced) \in included

(* The inductive invariant.                                                *)
Pass2Inv ==
    /\ Pass2TypeOK /\ Least
    /\ InPass2 => Scan
    /\ pass = "pass2_again" => ForcedIn
    /\ TailFree => AllResolved

-----------------------------------------------------------------------------
(* EXTDEFs are names.                                                      *)
LEMMA RefersAre ==
    ASSUME Pass2TypeOK
    PROVE  /\ \A m \in Module : Len(extdefs[m]) \in Nat
           /\ \A m \in Module : \A j \in 1 .. Len(extdefs[m]) :
                 extdefs[m][j] \in Name /\ extdefs[m][j] \in Refers(m)
           /\ \A m \in Module : \A x \in Refers(m) : x \in Name /\ x \in Names
           /\ \A x \in Names : x \in Name
<1>1. extdefs \in [Module -> Seq(Name)]
  BY NamesAssumption DEF Pass2TypeOK, NamesAssumption
<1>2. ASSUME NEW m \in Module
      PROVE  /\ Len(extdefs[m]) \in Nat
             /\ \A j \in 1 .. Len(extdefs[m]) : extdefs[m][j] \in Name
  <2>1. extdefs[m] \in Seq(Name)
    BY <1>1
  <2> QED
    BY <2>1, ElementOfSeq
<1>3. \A m \in Module : \A j \in 1 .. Len(extdefs[m]) : extdefs[m][j] \in Refers(m)
  BY DEF Refers
<1>4. \A m \in Module : \A x \in Refers(m) : x \in Name /\ x \in Names
  BY <1>2 DEF Refers, Names
<1>5. \A x \in Names : x \in Name
  BY <1>4 DEF Names
<1> QED
  BY <1>2, <1>3, <1>4, <1>5

(* A name that compares equal to the bytes from try on is the tail that    *)
(* they are; one that does not, fails no later than at the tail's NUL.     *)
LEMMA MatchIs ==
    ASSUME Pass2TypeOK, NEW x \in Name, try \in Index,
           NEW y \in Name, NEW d \in 1 .. Len(y), ReadsAs(buf, try, y, d)
    PROVE  /\ Mismatch(x) = {} => Same(x, SubSeq(y, d, Len(y)))
           /\ Mismatch(x) # {} => \E j \in Mismatch(x) : try + j <= BufLen
<1> DEFINE e == Len(y) - d + 1
<1>1. /\ Len(x) \in Nat /\ Len(y) \in Nat /\ try \in Nat /\ BufLen \in Nat
      /\ e \in 1 .. Len(y) /\ d + e = Len(y) + 1
  BY EndedIs, BufferAssumption DEF Index, BufferAssumption
<1>2. /\ \A j \in 1 .. e : try + j - 1 \in Index /\ buf[try + j - 1] = y[d + j - 1] /\ buf[try + j - 1] # NUL
      /\ try + e \in Index /\ buf[try + e] = NUL
  <2>1. ASSUME NEW j \in 1 .. e
        PROVE  try + j - 1 \in Index /\ buf[try + j - 1] = y[d + j - 1] /\ buf[try + j - 1] # NUL
    <3> DEFINE i == d + j - 1
    <3>1. i \in d .. Len(y) + 1 /\ i \in 1 .. Len(y) /\ try + i - d = try + j - 1
      BY <1>1
    <3> HIDE DEF i
    <3>2. try + i - d \in Index /\ buf[try + i - d] = Ended(y)[i]
      BY <3>1 DEF ReadsAs
    <3>3. Ended(y)[i] = y[i] /\ y[i] # NUL
      BY <3>1, EndedIs
    <3> QED
      BY <3>1, <3>2, <3>3 DEF i
  <2>2. try + e \in Index /\ buf[try + e] = NUL
    <3> DEFINE i == Len(y) + 1
    <3>1. i \in d .. Len(y) + 1 /\ try + i - d = try + e
      BY <1>1
    <3> QED
      BY <3>1, EndedIs DEF ReadsAs
  <2> QED
    BY <2>1, <2>2
<1> HIDE DEF e
<1>3. ASSUME Len(x) >= e
      PROVE  Toupper[buf[try + e]] # Toupper[Ended(x)[e + 1]] \/ Len(x) = e
  <2>1. CASE Len(x) = e
    BY <2>1
  <2>2. CASE Len(x) > e
    <3>1. e + 1 \in 1 .. Len(x)
      BY <1>1, <2>2
    <3>2. Ended(x)[e + 1] \in Char /\ Ended(x)[e + 1] # NUL
      BY <3>1, EndedIs
    <3> QED
      BY <1>2, <3>2, CharAssumption DEF CharAssumption, Char
  <2> QED
    BY <1>1, <1>3, <2>1, <2>2
<1>4. ASSUME Mismatch(x) = {}
      PROVE  Same(x, SubSeq(y, d, Len(y)))
  <2>1. ASSUME NEW j \in 1 .. Len(x) + 1
        PROVE  try + j <= BufLen /\ Toupper[buf[try + j - 1]] = Toupper[Ended(x)[j]]
    <3>1. j \notin Mismatch(x)
      BY <1>4
    <3>2. try + j \in Int
      BY <1>1
    <3> QED
      BY <1>1, <3>1, <3>2 DEF Mismatch
  <2>2. Len(x) = e
    <3>1. Len(x) >= e
      <4>1. SUFFICES ASSUME Len(x) < e PROVE FALSE
        BY <1>1
      <4> DEFINE j == Len(x) + 1
      <4>2. j \in 1 .. e /\ j \in 1 .. Len(x) + 1
        BY <1>1, <4>1
      <4>3. Toupper[buf[try + j - 1]] = Toupper[NUL]
        BY <2>1, <4>2, EndedIs
      <4>4. buf[try + j - 1] # NUL /\ buf[try + j - 1] \in DOMAIN Toupper
        BY <1>2, <4>2 DEF Pass2TypeOK
      <4> QED
        BY <4>3, <4>4, CharAssumption DEF CharAssumption
    <3>2. Len(x) # e => e + 1 \in 1 .. Len(x) + 1 /\ try + (e + 1) - 1 = try + e
      BY <1>1, <3>1
    <3> QED
      BY <1>3, <2>1, <3>1, <3>2
  <2>3. /\ Len(SubSeq(y, d, Len(y))) = e
        /\ \A j \in 1 .. e : SubSeq(y, d, Len(y))[j] = y[d + j - 1]
    BY <1>1 DEF Name, e
  <2>4. \A j \in 1 .. Len(x) : Toupper[x[j]] = Toupper[SubSeq(y, d, Len(y))[j]]
    <3>1. TAKE j \in 1 .. Len(x)
    <3>2. j \in 1 .. e /\ j \in 1 .. Len(x) + 1
      BY <1>1, <2>2
    <3>3. Toupper[buf[try + j - 1]] = Toupper[Ended(x)[j]] /\ Ended(x)[j] = x[j]
      BY <2>1, <3>2, EndedIs
    <3> QED
      BY <1>2, <2>3, <3>2, <3>3
  <2> QED
    BY <2>2, <2>3, <2>4 DEF Same
<1>5. ASSUME Mismatch(x) # {}
      PROVE  \E j \in Mismatch(x) : try + j <= BufLen
  <2>1. try + e + 1 <= BufLen
    BY <1>1, <1>2 DEF Index
  <2>2. CASE Len(x) <= e
    <3>1. PICK j \in Mismatch(x) : TRUE
      BY <1>5
    <3>2. j \in 1 .. Len(x) + 1
      BY DEF Mismatch
    <3> QED
      BY <1>1, <2>1, <2>2, <3>1, <3>2
  <2>3. CASE Len(x) > e
    <3>1. Toupper[buf[try + e]] # Toupper[Ended(x)[e + 1]]
      BY <1>1, <1>3, <2>3
    <3>2. e + 1 \in 1 .. Len(x) + 1 /\ try + (e + 1) - 1 = try + e
      BY <1>1, <2>3
    <3>3. e + 1 \in Mismatch(x)
      BY <3>1, <3>2 DEF Mismatch
    <3> QED
      BY <1>1, <2>1, <3>3
  <2> QED
    BY <1>1, <2>2, <2>3
<1> QED
  BY <1>4, <1>5

-----------------------------------------------------------------------------
(* While the included modules stay, what is known stays known, also when   *)
(* more names are collected.                                               *)
LEMMA KnownStays ==
    ASSUME NEW xs, Len(xs) \in Nat, NEW ys, Len(ys) \in Nat, Len(xs) <= Len(ys),
           \A i \in 1 .. Len(xs) : ys[i] = xs[i],
           included \subseteq included', NEW y, Known(y, xs)
    PROVE  Known(y, ys)'
<1>1. ASSUME NEW i \in 1 .. Len(xs), Same(xs[i], y)
      PROVE  i \in 1 .. Len(ys) /\ Same(ys[i], y)
  BY <1>1
<1>2. Defined(y)' <=> Defined(y)
  BY DEF Defined
<1>3. Home(y)' = Home(y)
  BY DEF Home, Definer
<1> QED
  BY <1>1, <1>2, <1>3 DEF Known

(* When the scan goes on to the next EXTDEF, the one it leaves is known.   *)
LEMMA SeenNext ==
    ASSUME Pass2TypeOK, Scanning, extdefs' = extdefs, included' = included, at' = at, k' = k + 1,
           NEW xs, NEW ys, Seen(xs), \A y : Known(y, xs) => Known(y, ys)',
           NEW x, x = Extdef, Known(x, ys)'
    PROVE  Seen(ys)'
<1>1. ASSUME NEW m \in included, NEW j \in 1 .. Len(extdefs[m]), Passed(m, j)'
      PROVE  Known(extdefs[m][j], ys)'
  <2>1. m \in Int /\ at \in Int /\ k \in Int /\ j \in Int
    <3>1. Len(extdefs[m]) \in Nat
      BY RefersAre DEF Pass2TypeOK
    <3> QED
      BY <3>1 DEF Pass2TypeOK, Module
  <2>2. Passed(m, j) \/ (m = at /\ j = k)
    BY <1>1, <2>1 DEF Passed
  <2>3. CASE Passed(m, j)
    <3>1. Known(extdefs[m][j], xs)
      BY <2>3 DEF Seen
    <3> QED
      BY <3>1
  <2>4. CASE m = at /\ j = k
    <3>1. x = extdefs[m][j]
      BY <2>4 DEF Extdef
    <3> QED
      BY <3>1
  <2> QED
    BY <2>2, <2>3, <2>4
<1> QED
  BY <1>1 DEF Seen

(* Modules that each set without a gap has may be included.                *)
LEMMA LeastStays ==
    ASSUME Least, UNCHANGED program,
           \A S \in SUBSET Module : Enough(S) /\ included \subseteq S => included' \subseteq S
    PROVE  Least'
<1>1. ASSUME NEW S, Enough(S)'
      PROVE  Enough(S)
  BY <1>1 DEF Enough, program, Refers, Defined, Home, Definer
<1> QED
  BY <1>1 DEF Least

(* A module that is included stays a place where a forced name may be.     *)
LEMMA ForcedStays ==
    ASSUME ForcedIn, UNCHANGED program, included \subseteq included'
    PROVE  ForcedIn'
BY DEF ForcedIn, program, Defined, Home, Definer

(* A fatal error.                                                          *)
LEMMA FailKeeps ==
    ASSUME Pass2Inv, Fail
    PROVE  Pass2Inv'
<1>1. UNCHANGED <<program, included, buf, next, extCount, at, k, try>> /\ pass' = "unresolved"
  BY DEF Fail
<1>2. Pass2TypeOK'
  BY <1>1 DEF Pass2Inv, Pass2TypeOK, program
<1>3. Least'
  BY <1>1, LeastStays DEF Pass2Inv
<1> QED
  BY <1>1, <1>2, <1>3 DEF Pass2Inv, InPass2, AllResolved, Resolved

(* The names collected so far are unchanged by a step that leaves them.    *)
LEMMA ScanStays ==
    ASSUME NEW xs, NEW off, ScanWith(xs, off),
           UNCHANGED <<program, included, buf, next, extCount>>, TailFree => Seen(xs)'
    PROVE  ScanWith(xs, off)'
<1>1. /\ extdefs' = extdefs /\ included' = included /\ buf' = buf /\ next' = next
      /\ extCount' = extCount
  BY DEF program
<1>2. Laid(buf, next, off, xs)' /\ (extCount = Len(xs))'
  BY <1>1 DEF ScanWith
<1>3. Collected(xs)' /\ TailsKnown(xs)'
  <2>1. Collected(xs)'
    BY <1>1 DEF ScanWith, Collected, Refers, Defined
  <2>2. Names' = Names
    BY <1>1 DEF Names, Refers
  <2>3. \A y : Known(y, xs)' <=> Known(y, xs)
    BY <1>1 DEF Known, Defined, Home, Definer
  <2>4. TailsKnown(xs)'
    BY <1>1, <2>2, <2>3 DEF ScanWith, TailsKnown, ReadsAs
  <2> QED
    BY <2>1, <2>4
<1>4. TailFree' <=> TailFree
  BY <1>1 DEF TailFree, Names, Refers
<1> QED
  BY <1>2, <1>3, <1>4 DEF ScanWith

-----------------------------------------------------------------------------
(* What the scan looks for.                                                *)
LEMMA ExtdefIs ==
    ASSUME Pass2TypeOK, Scanning
    PROVE  at \in included /\ at \in Module /\ Extdef \in Name /\ Extdef \in Refers(at) /\ Extdef \in Names
<1>1. at \in included /\ k \in 1 .. Len(extdefs[at])
  <2>1. at \in Module /\ k \in Nat \ {0} /\ k <= Len(extdefs[at]) /\ at \in included
    BY DEF Scanning, Pass2TypeOK
  <2>2. Len(extdefs[at]) \in Nat
    BY <2>1, RefersAre
  <2> QED
    BY <2>1, <2>2
<1>2. at \in Module
  BY <1>1 DEF Pass2TypeOK
<1> QED
  BY <1>1, <1>2, RefersAre DEF Extdef

(* MatchName keeps the invariant.                                         *)
LEMMA MatchNameKeeps ==
    ASSUME Pass2Inv, MatchName
    PROVE  Pass2Inv'
<1>1. Pass2TypeOK /\ Scanning /\ InPass2 /\ try < BufLen
  BY DEF Pass2Inv, MatchName, Scanning, InPass2
<1>2. PICK xs, off : ScanWith(xs, off)
  BY <1>1 DEF Pass2Inv, Scan
<1>3. UNCHANGED <<program, included, buf, next, extCount, pass>>
  BY DEF MatchName
<1>4. PICK x : x = Extdef
  OBVIOUS
<1>5. at \in included /\ at \in Module /\ x \in Name /\ x \in Names
  BY <1>1, <1>4, ExtdefIs
<1>6. try \in Index /\ try \in Nat /\ BufLen \in Nat /\ k \in Nat
  BY <1>1, BufferAssumption DEF Pass2TypeOK, Index, BufferAssumption
<1>7. Len(xs) \in Nat
  BY <1>2 DEF ScanWith, Laid
<1>8. \A y : Known(y, xs) => Known(y, xs)'
  BY <1>3, <1>7, KnownStays
<1>9. ASSUME at' = at, k' = k
      PROVE  TailFree => Seen(xs)'
  BY <1>2, <1>3, <1>8, <1>9 DEF ScanWith, Seen, Passed, program
<1>10. (try' \in 0 .. BufLen) /\ (at' = at) /\ (k' \in Nat \ {0}) /\ (TailFree => Seen(xs)')
  <2>1. CASE buf[try] = NUL
    <3>1. try' = try + 1 /\ at' = at /\ k' = k
      BY <2>1 DEF MatchName
    <3> QED
      BY <1>1, <1>6, <1>9, <3>1 DEF Pass2TypeOK
  <2>2. CASE buf[try] # NUL
    <3>1. PICK y \in Names : \E d \in 1 .. Len(y) : Known(y, xs) /\ ReadsAs(buf, try, y, d)
      BY <1>2, <1>6, <2>2 DEF ScanWith, TailsKnown
    <3>2. PICK d \in 1 .. Len(y) : Known(y, xs) /\ ReadsAs(buf, try, y, d)
      BY <3>1
    <3>3. y \in Name
      BY <1>1, RefersAre
    <3>4. CASE Mismatch(x) = {}
      <4>1. try' = 0 /\ at' = at /\ k' = k + 1
        BY <1>4, <2>2, <3>4 DEF MatchName, NextExtdef
      <4>2. Same(x, SubSeq(y, d, Len(y)))
        BY <1>1, <1>5, <1>6, <3>2, <3>3, <3>4, MatchIs
      <4>3. ASSUME TailFree PROVE Seen(xs)'
        <5>1. Same(x, y)
          BY <1>5, <4>2, <4>3 DEF TailFree
        <5>2. Known(x, xs)
          <6>1. Same(y, x)
            BY <1>5, <3>3, <5>1, SameAsItself, SameAsThird
          <6>2. Defined(x) /\ Home(x) = Home(y)
            BY <1>5, <3>2, <3>3, <6>1, SameDefiner DEF Known
          <6>3. ASSUME NEW i \in 1 .. Len(xs), Same(xs[i], y)
                PROVE  Same(xs[i], x)
            <7>1. xs[i] \in Name
              BY <1>2, ElementOfSeq DEF ScanWith, Laid
            <7> QED
              BY <1>5, <3>3, <5>1, <6>3, <7>1, SameAsThird
          <6> QED
            BY <3>2, <6>2, <6>3 DEF Known
        <5>3. Seen(xs)
          BY <1>2, <4>3 DEF ScanWith
        <5>4. extdefs' = extdefs /\ included' = included
          BY <1>3 DEF program
        <5> QED
          BY <1>1, <1>4, <1>8, <4>1, <5>2, <5>3, <5>4, SeenNext
      <4> QED
        BY <1>6, <4>1, <4>3
    <3>5. CASE Mismatch(x) # {}
      <4> DEFINE j == CHOOSE j \in Mismatch(x) : \A i \in Mismatch(x) : j <= i
      <4>1. try' = try + j /\ at' = at /\ k' = k
        BY <1>4, <2>2, <3>5 DEF MatchName
      <4>2. Mismatch(x) \in SUBSET Nat
        <5>1. Len(x) \in Nat
          BY <1>5, EndedIs
        <5> QED
          BY <5>1 DEF Mismatch
      <4>3. \E i \in Mismatch(x) : \A l \in Mismatch(x) : i <= l
        BY <3>5, <4>2, LeastNat
      <4>4. j \in Mismatch(x) /\ \A i \in Mismatch(x) : j <= i
        BY <4>3
      <4> HIDE DEF j
      <4>5. PICK i \in Mismatch(x) : try + i <= BufLen
        BY <1>1, <1>5, <1>6, <3>2, <3>3, <3>5, MatchIs
      <4>6. j \in Nat /\ i \in Nat /\ j <= i
        BY <4>2, <4>4
      <4> QED
        BY <1>1, <1>6, <1>9, <4>1, <4>5, <4>6 DEF Pass2TypeOK
    <3> QED
      BY <3>4, <3>5
  <2> QED
    BY <2>1, <2>2
<1>11. Pass2TypeOK'
  BY <1>1, <1>3, <1>10 DEF Pass2TypeOK, program
<1>12. ScanWith(xs, off)'
  BY <1>2, <1>3, <1>10, ScanStays
<1>13. Least' /\ (pass' = "pass2_again" => ForcedIn')
  BY <1>3, LeastStays, ForcedStays DEF Pass2Inv
<1> QED
  BY <1>1, <1>3, <1>11, <1>12, <1>13 DEF Pass2Inv, InPass2, Scan, AllResolved, Resolved

(* The buffer holds characters.                                            *)
LEMMA AddNameType ==
    ASSUME Pass2TypeOK, NEW x \in Name
    PROVE  AddName(buf, next, x) \in [Index -> DOMAIN Toupper]
<1>1. ASSUME NEW i \in Index, i \in next .. next + Len(x)
      PROVE  Ended(x)[i - next + 1] \in DOMAIN Toupper
  <2>1. next \in Nat /\ Len(x) \in Nat
    BY EndedIs, BufferAssumption DEF Pass2TypeOK, BufferAssumption
  <2> DEFINE j == i - next + 1
  <2>2. j \in 1 .. Len(x) \/ j = Len(x) + 1
    BY <1>1, <2>1
  <2> HIDE DEF j
  <2>3. Ended(x)[j] \in DOMAIN Toupper
    BY <2>2, EndedIs, CharAssumption DEF CharAssumption, Char
  <2> QED
    BY <2>3 DEF j
<1>2. \A i \in Index : buf[i] \in DOMAIN Toupper
  BY DEF Pass2TypeOK
<1> QED
  BY <1>1, <1>2 DEF AddName

(* A name that AddName adds is known from then on, wherever it is read.    *)
LEMMA TailsAdded ==
    ASSUME Pass2TypeOK, UNCHANGED <<program, included>>,
           NEW xs, Len(xs) \in Nat, next = 0 \/ buf[next - 1] = NUL, TailsKnown(xs),
           NEW x \in Name, x \in Names, Added(buf, buf', next, x),
           NEW ys, Len(ys) \in Nat, \A y : Known(y, xs) => Known(y, ys)', Known(x, ys)'
    PROVE  TailsKnown(ys)'
<1>1. extdefs' = extdefs /\ Names' = Names
  BY DEF program, Names, Refers
<1>2. next \in Nat /\ Len(x) \in Nat
  BY EndedIs, BufferAssumption DEF Pass2TypeOK, BufferAssumption
<1>3. ASSUME NEW t \in Index, buf'[t] # NUL
      PROVE  \E y \in Names : \E d \in 1 .. Len(y) : Known(y, ys)' /\ ReadsAs(buf', t, y, d)
  <2>1. t \in Nat
    BY DEF Index
  <2>2. CASE t \in next .. next + Len(x) - 1
    <3>1. t - next + 1 \in 1 .. Len(x) /\ ReadsAs(buf', t, x, t - next + 1)
      BY <1>2, <2>2, ReadsAsAdded
    <3> QED
      BY <3>1
  <2>3. CASE t = next + Len(x)
    BY <1>3, <2>3 DEF Added
  <2>4. CASE t < next \/ t > next + Len(x)
    <3>1. t \notin next .. next + Len(x)
      BY <1>2, <2>1, <2>4
    <3>2. buf'[t] = buf[t]
      BY <3>1 DEF Added
    <3>3. PICK y \in Names : \E d \in 1 .. Len(y) : Known(y, xs) /\ ReadsAs(buf, t, y, d)
      BY <1>3, <3>2 DEF TailsKnown
    <3>4. PICK d \in 1 .. Len(y) : Known(y, xs) /\ ReadsAs(buf, t, y, d)
      BY <3>3
    <3>5. y \in Name
      BY RefersAre
    <3>6. ReadsAs(buf', t, y, d)
      <4>1. CASE t < next
        BY <1>2, <3>4, <3>5, <4>1, ReadsAsBefore
      <4>2. CASE t > next + Len(x)
        BY <1>2, <3>4, <3>5, <4>2, ReadsAsBehind
      <4> QED
        BY <2>4, <4>1, <4>2
    <3> QED
      BY <3>4, <3>6
  <2> QED
    BY <1>2, <2>1, <2>2, <2>3, <2>4
<1> QED
  BY <1>1, <1>3 DEF TailsKnown

(* P2_EXTDEF, where it adds the name to the buffer.                        *)
LEMMA AddKeeps ==
    ASSUME Pass2Inv, Scanning, Defined(Extdef), Fits(Extdef, next),
           buf' = AddName(buf, next, Extdef), next' = next + Len(Extdef) + 1,
           extCount' = extCount + 1, NextExtdef, UNCHANGED <<program, included, pass>>
    PROVE  Pass2Inv'
<1>1. Pass2TypeOK /\ InPass2 /\ InPass2'
  BY DEF Pass2Inv, Scanning, InPass2
<1>2. PICK xs, off : ScanWith(xs, off)
  BY <1>1 DEF Pass2Inv, Scan
<1>3. PICK x : x = Extdef
  OBVIOUS
<1>4. at \in included /\ at \in Module /\ x \in Name /\ x \in Names /\ x \in Refers(at)
  BY <1>1, <1>3, ExtdefIs
<1> DEFINE ys == Append(xs, x)
<1>5. /\ Len(xs) \in Nat /\ Len(ys) = Len(xs) + 1
      /\ \A i \in 1 .. Len(xs) : ys[i] = xs[i]
      /\ ys[Len(ys)] = x
  BY <1>2 DEF ScanWith, Laid
<1>6. PICK off2 : Laid(AddName(buf, next, x), next + Len(x) + 1, off2, ys)
  BY <1>2, <1>3, <1>4, AddNameLays DEF ScanWith
<1> HIDE DEF ys
<1>7. Added(buf, buf', next, x)
  <2>1. next \in Nat
    BY <1>1, BufferAssumption DEF Pass2TypeOK, BufferAssumption
  <2> QED
    BY <1>3, <1>4, <2>1, AddNameIs
<1>8. Laid(buf', next', off2, ys) /\ extCount' = Len(ys)
  BY <1>2, <1>3, <1>5, <1>6 DEF ScanWith
<1>9. \A y : Known(y, xs) => Known(y, ys)'
  BY <1>5, KnownStays
<1>10. Known(x, ys)'
  <2>1. Same(ys[Len(ys)], x) /\ Len(ys) \in 1 .. Len(ys)
    BY <1>4, <1>5, SameAsItself
  <2>2. Defined(x)
    BY <1>3
  <2> QED
    BY <2>1, <2>2 DEF Known
<1>11. next = 0 \/ buf[next - 1] = NUL
  <2>1. Laid(buf, next, off, xs)
    BY <1>2 DEF ScanWith
  <2>2. CASE Len(xs) = 0
    BY <2>1, <2>2 DEF Laid
  <2>3. CASE Len(xs) # 0
    <3>0. PICK i \in 1 .. Len(xs) : i = Len(xs)
      BY <1>5, <2>3
    <3>1. off[i] = next
      BY <2>1, <3>0 DEF Laid
    <3>2. /\ off[i] = off[i - 1] + Len(xs[i]) + 1 /\ off[i - 1] \in Nat /\ Len(xs[i]) \in Nat
          /\ buf[off[i - 1] + Len(xs[i])] = NUL
      BY <2>1, LaidAt
    <3>3. next - 1 = off[i - 1] + Len(xs[i])
      BY <3>1, <3>2
    <3> QED
      BY <3>2, <3>3
  <2> QED
    BY <2>2, <2>3
<1>12. TailsKnown(ys)'
  BY <1>1, <1>2, <1>4, <1>5, <1>7, <1>9, <1>10, <1>11, TailsAdded DEF ScanWith
<1>13. Collected(ys)'
  <2>1. ASSUME NEW i \in 1 .. Len(ys)
        PROVE  Defined(ys[i]) /\ \E m \in included : ys[i] \in Refers(m)
    <3>1. CASE i = Len(ys)
      BY <1>3, <1>4, <1>5, <3>1
    <3>2. CASE i # Len(ys)
      <4>1. i \in 1 .. Len(xs) /\ ys[i] = xs[i]
        BY <1>5, <3>2
      <4> QED
        BY <1>2, <4>1 DEF ScanWith, Collected
    <3> QED
      BY <3>1, <3>2
  <2> QED
    BY <2>1 DEF Collected, program, Refers, Defined
<1>14. (TailFree => Seen(ys))'
  <2>1. TailFree' <=> TailFree
    BY DEF TailFree, Names, Refers, program
  <2>2. ASSUME TailFree PROVE Seen(ys)'
    <3>1. Seen(xs)
      BY <1>2, <2>2 DEF ScanWith
    <3> QED
      BY <1>1, <1>3, <1>9, <1>10, <3>1, SeenNext DEF NextExtdef, program
  <2> QED
    BY <2>1, <2>2
<1>15. ScanWith(ys, off2)'
  BY <1>8, <1>12, <1>13, <1>14 DEF ScanWith
<1>16. Pass2TypeOK'
  <2>1. extdefs' \in Programs /\ overlay' \in BOOLEAN /\ included' \in SUBSET Module
        /\ Module \ InLib \subseteq included' /\ at' \in 1 .. N + 1 /\ k' \in Nat \ {0}
        /\ try' \in 0 .. BufLen
    BY <1>1, BufferAssumption DEF Pass2TypeOK, program, NextExtdef, BufferAssumption
  <2>2. next' \in 0 .. BufLen /\ extCount' \in Nat
    BY <1>5, <1>8 DEF Laid
  <2>3. buf' \in [Index -> DOMAIN Toupper]
    BY <1>1, <1>3, <1>4, AddNameType
  <2> QED
    BY <2>1, <2>2, <2>3 DEF Pass2TypeOK
<1>17. Least' /\ (pass' = "pass2_again" => ForcedIn')
  BY LeastStays, ForcedStays DEF Pass2Inv
<1> QED
  BY <1>1, <1>15, <1>16, <1>17 DEF Pass2Inv, InPass2, Scan, AllResolved, Resolved

(* P2_EXTDEF keeps the invariant.                                          *)
LEMMA P2_EXTDEFKeeps ==
    ASSUME Pass2Inv, P2_EXTDEF
    PROVE  Pass2Inv'
<1>1. Pass2TypeOK /\ Scanning /\ InPass2
  BY DEF Pass2Inv, P2_EXTDEF, Scanning, InPass2
<1>2. PICK pbdfIdx : pbdfIdx = FindPubDef(Extdef, FALSE)
  OBVIOUS
<1>3. PICK x : x = Extdef
  OBVIOUS
<1>4. at \in included /\ x \in Name
  BY <1>1, <1>3, ExtdefIs
<1>5. /\ pbdfIdx = NOT_DEFINED => ~Defined(x)
      /\ pbdfIdx # NOT_DEFINED => Defined(x)
      /\ pbdfIdx \notin {NOT_DEFINED, NOT_INCLUDED} => Home(x) \in included
  <2>1. /\ ~Defined(x) => pbdfIdx = NOT_DEFINED
        /\ Defined(x) => pbdfIdx = IF Home(x) \in included THEN Definer(x) ELSE NOT_INCLUDED
        /\ Defined(x) => Definer(x) \in Nat
    BY <1>2, <1>3, <1>4, FindPubDefFinds
  <2> QED
    BY <2>1 DEF NOT_DEFINED, NOT_INCLUDED
<1>6. CASE Fail
  BY <1>6, FailKeeps
<1>7. CASE /\ pbdfIdx = NOT_INCLUDED /\ Fits(Extdef, next)
           /\ buf' = AddName(buf, next, Extdef) /\ next' = next + Len(Extdef) + 1
           /\ extCount' = extCount + 1 /\ NextExtdef /\ UNCHANGED <<program, included, pass>>
  <2>1. Defined(Extdef)
    BY <1>3, <1>5, <1>7 DEF NOT_DEFINED, NOT_INCLUDED
  <2> QED
    BY <1>1, <1>7, <2>1, AddKeeps
<1>8. CASE /\ pbdfIdx \notin {NOT_DEFINED, NOT_INCLUDED}
           /\ NextExtdef /\ UNCHANGED <<program, included, buf, next, extCount, pass>>
  <2>1. NextExtdef /\ UNCHANGED <<program, included, buf, next, extCount, pass>>
    BY <1>8
  <2>2. PICK xs, off : ScanWith(xs, off)
    BY <1>1 DEF Pass2Inv, Scan
  <2>3. Len(xs) \in Nat
    BY <2>2 DEF ScanWith, Laid
  <2>4. (\A y : Known(y, xs) => Known(y, xs)') /\ Known(x, xs)'
    <3>1. \A y : Known(y, xs) => Known(y, xs)'
      BY <2>1, <2>3, KnownStays
    <3>2. Known(x, xs)
      BY <1>5, <1>8 DEF Known
    <3> QED
      BY <3>1, <3>2
  <2>5. TailFree => Seen(xs)'
    BY <1>1, <1>3, <2>1, <2>2, <2>4, SeenNext DEF ScanWith, NextExtdef, program
  <2>6. ScanWith(xs, off)'
    BY <2>1, <2>2, <2>5, ScanStays
  <2>7. Pass2TypeOK'
    BY <1>1, <2>1, BufferAssumption DEF Pass2TypeOK, program, NextExtdef, BufferAssumption
  <2>8. Least' /\ (pass' = "pass2_again" => ForcedIn')
    BY <2>1, LeastStays, ForcedStays DEF Pass2Inv
  <2> QED
    BY <1>1, <2>1, <2>6, <2>7, <2>8 DEF Pass2Inv, InPass2, Scan, AllResolved, Resolved
<1> QED
  BY <1>2, <1>6, <1>7, <1>8 DEF P2_EXTDEF

(* NextModule keeps the invariant.                                         *)
LEMMA NextModuleKeeps ==
    ASSUME Pass2Inv, NextModule
    PROVE  Pass2Inv'
<1>1. Pass2TypeOK /\ InPass2 /\ at \in Module /\ (at \in included => k > Len(extdefs[at]))
  BY DEF Pass2Inv, NextModule, InPass2
<1>2. /\ at' = at + 1 /\ k' = 1 /\ try' = 0
      /\ UNCHANGED <<program, included, buf, next, extCount, pass>>
  BY DEF NextModule
<1>3. PICK xs, off : ScanWith(xs, off)
  BY <1>1 DEF Pass2Inv, Scan
<1>4. ASSUME TailFree PROVE Seen(xs)'
  <2>1. Seen(xs) /\ Len(xs) \in Nat
    BY <1>3, <1>4 DEF ScanWith, Laid
  <2>2. \A y : Known(y, xs) => Known(y, xs)'
    BY <1>2, <2>1, KnownStays
  <2>3. ASSUME NEW m \in included, NEW j \in 1 .. Len(extdefs[m]), Passed(m, j)'
        PROVE  Known(extdefs[m][j], xs)
    <3>1. m \in Module /\ m \in Int /\ at \in Int /\ k \in Int /\ Len(extdefs[m]) \in Nat
      BY <1>1, RefersAre DEF Pass2TypeOK, Module
    <3>2. m <= at
      BY <1>2, <2>3, <3>1 DEF Passed
    <3>3. Passed(m, j)
      BY <1>1, <3>1, <3>2 DEF Passed
    <3> QED
      BY <2>1, <3>3 DEF Seen
  <2> QED
    BY <1>2, <2>2, <2>3 DEF Seen, program
<1>5. ScanWith(xs, off)'
  BY <1>2, <1>3, <1>4, ScanStays
<1>6. Pass2TypeOK'
  BY <1>1, <1>2, BufferAssumption, ModulesAssumption
     DEF Pass2TypeOK, program, BufferAssumption, ModulesAssumption, Module
<1>7. Least' /\ (pass' = "pass2_again" => ForcedIn')
  BY <1>2, LeastStays, ForcedStays DEF Pass2Inv
<1> QED
  BY <1>1, <1>2, <1>5, <1>6, <1>7 DEF Pass2Inv, InPass2, Scan, AllResolved, Resolved

(* A scan starts with no names collected.                                  *)
LEMMA NoneLaid ==
    ASSUME NEW b
    PROVE  Laid(b, 0, [i \in {0} |-> 0], <<>>)
<1> DEFINE off == [i \in {0} |-> 0]
<1>1. Nuls(b, 0) = 0
  <2>1. {t \in 0 .. 0 - 1 : b[t] = NUL} = {}
    OBVIOUS
  <2> QED
    BY <2>1, FS_EmptySet DEF Nuls
<1>2. <<>> \in Seq(Name) /\ Len(<<>>) = 0 /\ 0 .. 0 = {0} /\ 0 \in 0 .. BufLen
  BY BufferAssumption DEF BufferAssumption
<1>3. \A i \in 1 .. Len(<<>>) : FALSE
  BY <1>2
<1>4. off \in [0 .. Len(<<>>) -> 0 .. 0] /\ off[0] = 0 /\ off[Len(<<>>)] = 0
  BY <1>2
<1>5. \A i \in 0 .. Len(<<>>) : Nuls(b, off[i]) = i
  BY <1>1, <1>2
<1> QED
  BY <1>2, <1>3, <1>4, <1>5 DEF Laid

(* A new scan, with modules included in which the names are that the last  *)
(* scan collected: all that is in the buffer is then known.                *)
NewScan(xs) ==
    /\ InPass2 /\ InPass2' /\ Rescan
    /\ included \subseteq included' /\ included' \subseteq Module
    /\ \A i \in 1 .. Len(xs) : Home(xs[i]) \in included'
    /\ Least' /\ (pass' = "pass2_again" => ForcedIn')

(* It starts with an empty buffer.                                         *)
LEMMA RescanKeeps ==
    ASSUME Pass2Inv, NEW xs, NEW off, ScanWith(xs, off), NewScan(xs)
    PROVE  Pass2Inv'
<1>1. Pass2TypeOK /\ included \subseteq included' /\ included' \subseteq Module
  BY DEF Pass2Inv, NewScan
<1>2. /\ UNCHANGED <<program, buf>> /\ extdefs' = extdefs /\ overlay' = overlay
      /\ next' = 0 /\ extCount' = 0 /\ at' = 1 /\ k' = 1 /\ try' = 0
  BY DEF NewScan, Rescan, program
<1> DEFINE none == [i \in {0} |-> 0]
<1>3. Laid(buf, next, none, <<>>)'
  BY <1>2, NoneLaid
<1>4. Len(<<>>) = 0 /\ \A i \in 1 .. Len(<<>>) : FALSE
  OBVIOUS
<1>5. Collected(<<>>)'
  BY <1>4 DEF Collected
<1>6. ASSUME NEW y \in Name, Known(y, xs)
      PROVE  Known(y, <<>>)'
  <2>1. Defined(y)
    BY <1>6 DEF Known
  <2>2. ASSUME NEW i \in 1 .. Len(xs), Same(xs[i], y)
        PROVE  Home(y) \in included'
    <3>1. xs[i] \in Name /\ Defined(xs[i])
      BY ElementOfSeq DEF ScanWith, Laid, Collected
    <3> QED
      BY <2>2, <3>1, SameDefiner DEF NewScan
  <2>3. Home(y) \in included'
    BY <1>1, <1>6, <2>2 DEF Known
  <2>4. (Defined(y) /\ Home(y) \in included)'
    BY <2>1, <2>3 DEF Defined, Home, Definer
  <2> QED
    BY <2>4 DEF Known
<1>7. TailsKnown(<<>>)'
  <2>1. Names' = Names
    <3>1. extdefs' = extdefs
      BY <1>2
    <3> QED
      BY <3>1 DEF Names, Refers
  <2>2. TailsKnown(xs)
    BY DEF ScanWith
  <2>3. \A y \in Names : y \in Name
    BY <1>1, RefersAre
  <2>4. ASSUME NEW t \in Index, buf[t] # NUL
        PROVE  \E y \in Names : \E d \in 1 .. Len(y) : Known(y, <<>>)' /\ ReadsAs(buf, t, y, d)
    BY <1>6, <2>2, <2>3, <2>4 DEF TailsKnown
  <2> QED
    BY <1>2, <2>1, <2>4 DEF TailsKnown
<1>8. Seen(<<>>)'
  <2>1. ASSUME NEW m \in included', NEW j \in 1 .. Len(extdefs'[m])
        PROVE  ~(m < 1 \/ (m = 1 /\ j < 1))
    <3>1. m \in Module /\ extdefs' = extdefs
      BY <1>1, <1>2
    <3>2. Len(extdefs'[m]) \in Nat /\ m \in Nat /\ m >= 1
      BY <1>1, <3>1, RefersAre DEF Module
    <3> QED
      BY <3>2
  <2> QED
    BY <1>2, <2>1 DEF Seen, Passed
<1>9. ScanWith(<<>>, none)'
  BY <1>2, <1>3, <1>4, <1>5, <1>7, <1>8 DEF ScanWith
<1>10. Pass2TypeOK'
  <2>1. 0 \in 0 .. BufLen /\ 1 \in 1 .. N + 1 /\ 0 \in Nat /\ 1 \in Nat \ {0}
    BY BufferAssumption, ModulesAssumption DEF BufferAssumption, ModulesAssumption
  <2>2. included' \in SUBSET Module /\ Module \ InLib \subseteq included'
    BY <1>1 DEF Pass2TypeOK
  <2>3. extdefs' \in Programs /\ overlay' \in BOOLEAN /\ buf' \in [Index -> DOMAIN Toupper]
    BY <1>1, <1>2 DEF Pass2TypeOK
  <2> QED
    BY <1>2, <2>1, <2>2, <2>3 DEF Pass2TypeOK
<1> QED
  BY <1>9, <1>10 DEF NewScan, Pass2Inv, InPass2, Scan, AllResolved, Resolved

(* The names that P2_Resolve resolves.                                     *)
LEMMA CollectedAre ==
    ASSUME NEW xs, NEW off, ScanWith(xs, off)
    PROVE  /\ {GetName(buf, i) : i \in 0 .. extCount - 1} = {xs[i] : i \in 1 .. Len(xs)}
           /\ \A i \in 1 .. Len(xs) : xs[i] \in Name /\ Defined(xs[i])
<1>1. Laid(buf, next, off, xs) /\ extCount = Len(xs) /\ Len(xs) \in Nat /\ xs \in Seq(Name)
  BY DEF ScanWith, Laid
<1>2. \A i \in 0 .. Len(xs) - 1 : GetName(buf, i) = xs[i + 1]
  BY <1>1, GetNameGets
<1>3. ASSUME NEW i \in 1 .. Len(xs)
      PROVE  i - 1 \in 0 .. Len(xs) - 1 /\ (i - 1) + 1 = i
  BY <1>1
<1>4. \A i \in 1 .. Len(xs) : xs[i] \in {GetName(buf, j) : j \in 0 .. Len(xs) - 1}
  BY <1>2, <1>3
<1>5. \A i \in 0 .. Len(xs) - 1 : i + 1 \in 1 .. Len(xs)
  BY <1>1
<1>6. \A i \in 1 .. Len(xs) : xs[i] \in Name /\ Defined(xs[i])
  BY <1>1, ElementOfSeq DEF ScanWith, Collected
<1>7. {GetName(buf, i) : i \in 0 .. Len(xs) - 1} \subseteq {xs[i] : i \in 1 .. Len(xs)}
  BY <1>2, <1>5
<1>8. {xs[i] : i \in 1 .. Len(xs)} \subseteq {GetName(buf, i) : i \in 0 .. Len(xs) - 1}
  BY <1>4
<1> QED
  BY <1>1, <1>6, <1>7, <1>8

(* P2_Resolve keeps the invariant.                                         *)
LEMMA P2_ResolveKeeps ==
    ASSUME Pass2Inv, P2_Resolve
    PROVE  Pass2Inv'
<1>1. Pass2TypeOK /\ InPass2 /\ Least
  BY DEF Pass2Inv, P2_Resolve, InPass2
<1>2. PICK xs, off : ScanWith(xs, off)
  BY <1>1 DEF Pass2Inv, Scan
<1> DEFINE names == {GetName(buf, i) : i \in 0 .. extCount - 1}
<1>3. names = {xs[i] : i \in 1 .. Len(xs)} /\ \A x \in names : x \in Name /\ Defined(x)
  BY <1>2, CollectedAre
<1> HIDE DEF names
<1>4. /\ \A x \in names : FindPubDef(x, TRUE) # NOT_DEFINED
      /\ \A x \in names : ModuleOf(x) = Home(x)
  <2>1. ASSUME NEW x \in names
        PROVE  FindPubDef(x, TRUE) = Definer(x) /\ Definer(x) \in Nat
    <3>1. x \in Name /\ Defined(x)
      BY <1>3
    <3> QED
      BY <3>1, FindPubDefFinds
  <2>2. ASSUME NEW x \in names
        PROVE  FindPubDef(x, TRUE) # NOT_DEFINED /\ ModuleOf(x) = Home(x)
    <3>1. FindPubDef(x, TRUE) = Definer(x) /\ Definer(x) \in Nat
      BY <2>1
    <3>2. Definer(x) # NOT_DEFINED
      BY <3>1 DEF NOT_DEFINED
    <3>3. ModuleOf(x) = Home(x)
      BY <3>1 DEF ModuleOf, Home
    <3> QED
      BY <3>1, <3>2, <3>3
  <2> QED
    BY <2>2
<1>5. included' = included \cup {ModuleOf(x) : x \in names} /\ Rescan /\ UNCHANGED pass
  BY <1>4 DEF P2_Resolve, names
<1>6. included' = included \cup {Home(x) : x \in names}
  BY <1>4, <1>5
<1>7. included \subseteq included' /\ included' \subseteq Module
  BY <1>1, <1>3, <1>6, DefinerIs DEF Pass2TypeOK
<1>8. \A i \in 1 .. Len(xs) : Home(xs[i]) \in included'
  BY <1>3, <1>6
<1>9. Least'
  <2>1. ASSUME NEW S \in SUBSET Module, Enough(S), included \subseteq S
        PROVE  included' \subseteq S
    <3>1. ASSUME NEW x \in names
          PROVE  Home(x) \in S
      <4>1. \E m \in included : x \in Refers(m)
        BY <1>2, <1>3 DEF ScanWith, Collected
      <4> QED
        BY <1>3, <2>1, <4>1 DEF Enough
    <3> QED
      BY <1>6, <2>1, <3>1
  <2> QED
    BY <1>1, <1>5, <2>1, LeastStays DEF Rescan
<1>10. pass' = "pass2_again" => ForcedIn'
  BY <1>5, <1>7, ForcedStays DEF Pass2Inv, Rescan
<1> QED
  BY <1>1, <1>2, <1>5, <1>7, <1>8, <1>9, <1>10, RescanKeeps DEF InPass2, NewScan

(* EndPass2 keeps the invariant.                                           *)
LEMMA EndPass2Keeps ==
    ASSUME Pass2Inv, EndPass2
    PROVE  Pass2Inv'
<1>1. Pass2TypeOK /\ InPass2 /\ Least /\ at > N /\ extCount = 0
  BY DEF Pass2Inv, EndPass2, InPass2
<1>2. PICK xs, off : ScanWith(xs, off)
  BY <1>1 DEF Pass2Inv, Scan
<1>3. Len(xs) = 0
  BY <1>1, <1>2 DEF ScanWith
<1>4. Forced \in Name
  BY NamesAssumption DEF NamesAssumption
<1>5. CASE pass = "pass2" /\ overlay /\ FindPubDef(Forced, TRUE) = NOT_DEFINED
  BY <1>5, FailKeeps DEF EndPass2
<1>6. CASE pass = "pass2" /\ overlay /\ FindPubDef(Forced, TRUE) # NOT_DEFINED
  <2>1. Defined(Forced) /\ ModuleOf(Forced) = Home(Forced)
    BY <1>4, <1>6, FindPubDefFinds DEF ModuleOf, Home
  <2>2. included' = included \cup {Home(Forced)} /\ Rescan /\ pass' = "pass2_again"
    BY <1>6, <2>1 DEF EndPass2
  <2>3. included \subseteq included' /\ included' \subseteq Module
    BY <1>1, <1>4, <2>1, <2>2, DefinerIs DEF Pass2TypeOK
  <2>4. Least'
    <3>1. ASSUME NEW S \in SUBSET Module, Enough(S), included \subseteq S
          PROVE  included' \subseteq S
      BY <1>6, <2>1, <2>2, <3>1 DEF Enough
    <3> QED
      BY <1>1, <2>2, <3>1, LeastStays DEF Rescan
  <2>5. ForcedIn'
    BY <1>6, <2>1, <2>2 DEF ForcedIn, Rescan, program, Defined, Home, Definer
  <2>6. \A i \in 1 .. Len(xs) : Home(xs[i]) \in included'
    BY <1>3
  <2> QED
    BY <1>1, <1>2, <2>2, <2>3, <2>4, <2>5, <2>6, RescanKeeps DEF InPass2, NewScan
<1>7. CASE ~(pass = "pass2" /\ overlay)
  <2>1. pass' = "resolved" /\ UNCHANGED <<program, included, buf, next, extCount, at, k, try>>
    BY <1>7 DEF EndPass2
  <2>2. Pass2TypeOK' /\ Least'
    BY <1>1, <2>1, LeastStays DEF Pass2TypeOK, program
  <2>3. ASSUME TailFree
        PROVE  Closed(included) /\ (overlay => Defined(Forced) /\ Home(Forced) \in included)
    <3>1. ASSUME NEW m \in included, NEW x \in Refers(m)
          PROVE  Defined(x) /\ Home(x) \in included
      <4>1. PICK j \in 1 .. Len(extdefs[m]) : x = extdefs[m][j]
        BY DEF Refers
      <4>2. m < at
        BY <1>1, ModulesAssumption DEF Pass2TypeOK, Module, ModulesAssumption
      <4>3. Known(x, xs)
        BY <1>2, <2>3, <4>1, <4>2 DEF ScanWith, Seen, Passed
      <4> QED
        BY <1>3, <4>3 DEF Known
    <3>2. overlay => ForcedIn
      BY <1>1, <1>7 DEF Pass2Inv, InPass2
    <3> QED
      BY <3>1, <3>2 DEF Closed, ForcedIn
  <2>4. (TailFree => AllResolved)'
    <3>1. /\ TailFree' <=> TailFree
          /\ Closed(included)' <=> Closed(included)
          /\ (overlay => Defined(Forced) /\ Home(Forced) \in included)'
                <=> (overlay => Defined(Forced) /\ Home(Forced) \in included)
      BY <2>1 DEF TailFree, Names, Refers, Closed, Defined, Home, Definer, program
    <3> QED
      BY <2>3, <3>1 DEF AllResolved
  <2> QED
    BY <2>1, <2>2, <2>4 DEF Pass2Inv, InPass2
<1> QED
  BY <1>5, <1>6, <1>7

-----------------------------------------------------------------------------
(* The invariant holds at the start, when the buffer is all NULs.          *)
LEMMA InitPass2Inv ==
    ASSUME InitPass2
    PROVE  Pass2Inv
<1>1. Pass2TypeOK
  BY BufferAssumption, ModulesAssumption, CharAssumption
     DEF InitPass2, Pass2TypeOK, BufferAssumption, ModulesAssumption, CharAssumption, Module
<1>2. Least
  BY DEF InitPass2, Least, Enough
<1> DEFINE off == [i \in {0} |-> 0]
<1>3. Laid(buf, next, off, <<>>) /\ extCount = Len(<<>>) /\ Collected(<<>>)
  <2>1. Len(<<>>) = 0 /\ \A i \in 1 .. Len(<<>>) : FALSE
    OBVIOUS
  <2> QED
    BY <2>1, NoneLaid DEF InitPass2, Collected
<1>4. TailsKnown(<<>>)
  BY DEF InitPass2, TailsKnown
<1>5. Seen(<<>>)
  <2>1. ASSUME NEW m \in included, NEW j \in 1 .. Len(extdefs[m])
        PROVE  ~Passed(m, j)
    <3>1. m \in Module /\ at = 1 /\ k = 1
      BY DEF InitPass2
    <3>2. Len(extdefs[m]) \in Nat /\ m \in Nat /\ m >= 1
      BY <1>1, <3>1, RefersAre DEF Module
    <3> QED
      BY <3>1, <3>2 DEF Passed
  <2> QED
    BY <2>1 DEF Seen
<1>6. ScanWith(<<>>, off)
  BY <1>3, <1>4, <1>5 DEF ScanWith
<1>7. pass = "pass2"
  BY DEF InitPass2
<1> QED
  BY <1>1, <1>2, <1>6, <1>7 DEF Pass2Inv, Scan, AllResolved, Resolved

(* Each step of Pass2 keeps it.                                            *)
LEMMA Pass2Keeps ==
    ASSUME Pass2Inv, Pass2
    PROVE  Pass2Inv'
BY MatchNameKeeps, P2_EXTDEFKeeps, NextModuleKeeps, P2_ResolveKeeps, EndPass2Keeps DEF Pass2

(* It says that no module is needless.                                     *)
LEMMA LeastIsNothingNeedless ==
    ASSUME Pass2Inv
    PROVE  NothingNeedless
<1>1. Least
  BY DEF Pass2Inv
<1> QED
  BY <1>1 DEF NothingNeedless, Least, Enough

-----------------------------------------------------------------------------
(* No EXTDEF is an empty name: MatchName would never find it.              *)
NoneEmpty ==
    \A e \in Programs : \A m \in Module : \A j \in 1 .. Len(e[m]) : e[m][j] # <<>>

(* Which public names the collected names are.                             *)
Gathered(xs) == {Definer(xs[i]) : i \in 1 .. Len(xs)}

(* The names that the scan has compared in full are not the one it looks   *)
(* for.                                                                    *)
Ahead(xs, off) ==
    Scanning => \A i \in 1 .. Len(xs) : off[i - 1] < try => ~Same(xs[i], Extdef)

(* The names collected so far are all missing, and each is there once.     *)
MissingWith(xs, off) ==
    /\ Laid(buf, next, off, xs) /\ Collected(xs)
    /\ \A i \in 1 .. Len(xs) : Home(xs[i]) \notin included
    /\ Bytes(Gathered(xs)) = next
    /\ Ahead(xs, off)

Missing == \E xs, off : MissingWith(xs, off)

(* What is invariant beside Pass2Inv.                                      *)
CauseInv == (InPass2 => Missing) /\ GivesUpForCause

(* The bytes of a name are finitely many, and those of one more name are   *)
(* more by its length and its NUL.                                         *)
LEMMA BytesAre ==
    ASSUME NEW P \in SUBSET DOMAIN Pub
    PROVE  /\ IsFiniteSet(UNION {{p} \X (0 .. Len(Pub[p].name)) : p \in P})
           /\ Bytes(P) \in Nat
<1> DEFINE B == {{p} \X (0 .. Len(Pub[p].name)) : p \in P}
<1>1. IsFiniteSet(P)
  <2>1. P \in SUBSET (1 .. Len(Pub)) /\ Len(Pub) \in Nat
    BY PublicAssumption DEF PublicAssumption
  <2>2. IsFiniteSet(1 .. Len(Pub))
    BY <2>1, FS_Interval
  <2> QED
    BY <2>1, <2>2, FS_Subset
<1>2. IsFiniteSet(B)
  <2> DEFINE f == [p \in P |-> {p} \X (0 .. Len(Pub[p].name))]
  <2>1. f \in Surjection(P, B)
    BY DEF Surjection
  <2> HIDE DEF f, B
  <2> QED
    BY <1>1, <2>1, FS_Surjection
<1>3. ASSUME NEW T \in B
      PROVE  IsFiniteSet(T)
  <2>1. PICK p \in P : T = {p} \X (0 .. Len(Pub[p].name))
    OBVIOUS
  <2>2. Len(Pub[p].name) \in Nat
    BY PublicAssumption, EndedIs DEF PublicAssumption
  <2>3. IsFiniteSet({p}) /\ IsFiniteSet(0 .. Len(Pub[p].name))
    <3>1. PICK l \in Nat : l = Len(Pub[p].name)
      BY <2>2
    <3>2. IsFiniteSet(0 .. l)
      BY FS_Interval
    <3> QED
      BY <3>1, <3>2, FS_Singleton
  <2> QED
    BY <2>1, <2>3, FS_Product
<1>4. IsFiniteSet(UNION B)
  <2> HIDE DEF B
  <2> QED
    BY <1>2, <1>3, FS_UNION
<1>5. Cardinality(UNION B) \in Nat
  <2> HIDE DEF B
  <2> QED
    BY <1>4, FS_CardinalityType
<1> QED
  BY <1>4, <1>5 DEF Bytes

LEMMA BytesAdd ==
    ASSUME NEW P \in SUBSET DOMAIN Pub, NEW q \in DOMAIN Pub \ P
    PROVE  Bytes(P \cup {q}) = Bytes(P) + Len(Pub[q].name) + 1
<1> DEFINE U == UNION {{p} \X (0 .. Len(Pub[p].name)) : p \in P}
           V == {q} \X (0 .. Len(Pub[q].name))
<1>1. Len(Pub[q].name) \in Nat
  BY PublicAssumption, EndedIs DEF PublicAssumption
<1>2. IsFiniteSet(V) /\ Cardinality(V) = Len(Pub[q].name) + 1
  <2>1. /\ IsFiniteSet({q}) /\ Cardinality({q}) = 1
        /\ IsFiniteSet(0 .. Len(Pub[q].name))
        /\ Cardinality(0 .. Len(Pub[q].name)) = Len(Pub[q].name) + 1
    <3>1. PICK l \in Nat : l = Len(Pub[q].name)
      BY <1>1
    <3>2. IsFiniteSet(0 .. l) /\ Cardinality(0 .. l) = l + 1
      BY FS_Interval
    <3> QED
      BY <3>1, <3>2, FS_Singleton
  <2>2. IsFiniteSet(V) /\ Cardinality(V) = 1 * (Len(Pub[q].name) + 1)
    BY <2>1, FS_Product
  <2> QED
    BY <1>1, <2>2
<1>3. IsFiniteSet(U) /\ Cardinality(U) = Bytes(P) /\ Bytes(P) \in Nat
  BY BytesAre DEF Bytes
<1>4. U \cap V = {}
  OBVIOUS
<1>5. UNION {{p} \X (0 .. Len(Pub[p].name)) : p \in P \cup {q}} = U \cup V
  OBVIOUS
<1>6. Cardinality(U \cup V) = Cardinality(U) + Cardinality(V) - Cardinality({})
  <2> HIDE DEF U, V
  <2> QED
    BY <1>2, <1>3, <1>4, FS_Union
<1>7. Cardinality({}) = 0
  BY FS_EmptySet
<1> HIDE DEF U, V
<1>8. Bytes(P \cup {q}) = Cardinality(U \cup V)
  BY <1>5 DEF Bytes
<1> QED
  BY <1>1, <1>2, <1>3, <1>6, <1>7, <1>8

LEMMA BytesGrow ==
    ASSUME NEW P \in SUBSET DOMAIN Pub, NEW Q \in SUBSET P
    PROVE  Bytes(Q) <= Bytes(P)
<1> DEFINE U(S) == UNION {{p} \X (0 .. Len(Pub[p].name)) : p \in S}
<1>1. IsFiniteSet(U(P)) /\ U(Q) \in SUBSET U(P)
  BY BytesAre
<1> HIDE DEF U
<1>2. Cardinality(U(Q)) <= Cardinality(U(P))
  BY <1>1, FS_Subset
<1> QED
  BY <1>2 DEF Bytes, U

(* The names before one in the buffer end with a NUL.                      *)
LEMMA LaidBefore ==
    ASSUME NEW b, NEW n, NEW off, NEW xs, Laid(b, n, off, xs), NEW i \in 1 .. Len(xs)
    PROVE  off[i - 1] = 0 \/ b[off[i - 1] - 1] = NUL
<1>1. CASE i = 1
  BY <1>1 DEF Laid
<1>2. CASE i # 1
  <2>1. PICK l \in 1 .. Len(xs) : l = i - 1
    <3>1. Len(xs) \in Nat
      BY DEF Laid
    <3> QED
      BY <1>2, <3>1
  <2>2. /\ off[l] = off[l - 1] + Len(xs[l]) + 1 /\ off[l - 1] \in Nat /\ Len(xs[l]) \in Nat
        /\ b[off[l - 1] + Len(xs[l])] = NUL
    BY LaidAt
  <2>3. off[l] - 1 = off[l - 1] + Len(xs[l])
    BY <2>2
  <2> QED
    BY <2>1, <2>2, <2>3
<1> QED
  BY <1>1, <1>2

(* The names that are gathered.                                            *)
LEMMA GatheredAre ==
    ASSUME Pass2TypeOK, NEW xs, NEW off, MissingWith(xs, off)
    PROVE  /\ Len(xs) \in Nat
           /\ \A i \in 1 .. Len(xs) : xs[i] \in Name /\ Defined(xs[i])
           /\ Gathered(xs) \in SUBSET DOMAIN Pub
           /\ Gathered(xs) \subseteq Wanted
<1>1. /\ Len(xs) \in Nat
      /\ \A i \in 1 .. Len(xs) : xs[i] \in Name /\ Defined(xs[i])
  <2>1. xs \in Seq(Name) /\ \A i \in 1 .. Len(xs) : Defined(xs[i])
    BY DEF MissingWith, Laid, Collected
  <2>2. Len(xs) \in Nat
    BY <2>1
  <2>3. \A i \in 1 .. Len(xs) : xs[i] \in Name
    BY <2>1, ElementOfSeq
  <2> QED
    BY <2>1, <2>2, <2>3
<1>2. Gathered(xs) \in SUBSET DOMAIN Pub
  BY <1>1, DefinerIs DEF Gathered
<1>3. ASSUME NEW i \in 1 .. Len(xs)
      PROVE  Definer(xs[i]) \in Wanted
  <2>1. Defined(xs[i]) /\ Home(xs[i]) \notin included /\ \E m \in included : xs[i] \in Refers(m)
    BY <1>1 DEF MissingWith, Collected
  <2> QED
    BY <2>1 DEF Wanted
<1> QED
  BY <1>1, <1>2, <1>3 DEF Gathered

-----------------------------------------------------------------------------
(* What a name in the buffer starts at, and what lies before it.           *)
LEMMA StartsBehind ==
    ASSUME Pass2TypeOK, NEW xs, NEW off, MissingWith(xs, off), NEW i \in 1 .. Len(xs)
    PROVE  /\ off[i - 1] \in Nat /\ Len(xs[i]) \in Nat /\ off[i - 1] + Len(xs[i]) < BufLen
           /\ off[i - 1] = 0 \/ buf[off[i - 1] - 1] = NUL
           /\ \A j \in 1 .. Len(xs[i]) + 1 : buf[off[i - 1] + j - 1] = Ended(xs[i])[j]
<1>1. Laid(buf, next, off, xs)
  BY DEF MissingWith
<1>2. /\ off[i - 1] \in Nat /\ Len(xs[i]) \in Nat /\ off[i] = off[i - 1] + Len(xs[i]) + 1
      /\ off[i] <= next /\ next <= BufLen /\ next \in Nat /\ BufLen \in Nat
  BY <1>1, LaidAt
<1>3. \A j \in 1 .. Len(xs[i]) + 1 : buf[off[i - 1] + j - 1] = Ended(xs[i])[j]
  BY <1>1 DEF Laid
<1> QED
  BY <1>1, <1>2, <1>3, LaidBefore

(* A name that MatchName compares from its first character on, and that is *)
(* the one it looks for, is found.                                         *)
LEMMA FindsFromStart ==
    ASSUME Pass2TypeOK, NEW xs, NEW off, MissingWith(xs, off), NEW i \in 1 .. Len(xs),
           off[i - 1] = try, NEW x \in Name, Same(xs[i], x)
    PROVE  Mismatch(x) = {}
<1>1. PICK z : z = xs[i] /\ z \in Name
  BY GatheredAre
<1>2. /\ Len(z) \in Nat /\ try \in Nat /\ BufLen \in Nat /\ try + Len(z) < BufLen
      /\ \A j \in 1 .. Len(z) + 1 : buf[try + j - 1] = Ended(z)[j]
  BY <1>1, StartsBehind, BufferAssumption DEF BufferAssumption
<1>3. Len(x) = Len(z) /\ \A j \in 1 .. Len(z) : Toupper[z[j]] = Toupper[x[j]]
  BY <1>1 DEF Same
<1>4. ASSUME NEW j \in 1 .. Len(z) + 1
      PROVE  try + j <= BufLen /\ Toupper[buf[try + j - 1]] = Toupper[Ended(x)[j]]
  <2>1. CASE j \in 1 .. Len(z)
    <3>1. Ended(z)[j] = z[j] /\ Ended(x)[j] = x[j]
      BY <1>1, <1>3, <2>1, EndedIs
    <3>2. try + j <= BufLen
      BY <1>2, <2>1
    <3> QED
      BY <1>2, <1>3, <2>1, <3>1, <3>2
  <2>2. CASE j = Len(z) + 1
    <3>1. Ended(z)[j] = NUL /\ Ended(x)[j] = NUL
      BY <1>1, <1>3, <2>2, EndedIs
    <3>2. try + j <= BufLen
      BY <1>2, <2>2
    <3> QED
      BY <1>2, <3>1, <3>2
  <2> QED
    BY <1>2, <2>1, <2>2
<1>5. ASSUME NEW j \in 1 .. Len(z) + 1, try + j <= BufLen
      PROVE  ~(try + j > BufLen)
  BY <1>2, <1>5
<1> QED
  BY <1>3, <1>4, <1>5 DEF Mismatch

(* Where it fails, no name has started since.                              *)
LEMMA NoneBetween ==
    ASSUME Pass2TypeOK, NEW xs, NEW off, MissingWith(xs, off), NEW i \in 1 .. Len(xs),
           NEW x \in Name, NEW j \in Mismatch(x), \A l \in Mismatch(x) : j <= l,
           try < off[i - 1], off[i - 1] < try + j
    PROVE  FALSE
<1>1. /\ try \in Nat /\ off[i - 1] \in Nat /\ Len(x) \in Nat /\ j \in 1 .. Len(x) + 1
      /\ BufLen \in Nat
  <2>1. off[i - 1] \in Nat
    BY StartsBehind
  <2>2. Len(x) \in Nat /\ j \in 1 .. Len(x) + 1
    BY EndedIs DEF Mismatch
  <2>3. try \in Nat /\ BufLen \in Nat
    BY BufferAssumption DEF Pass2TypeOK, BufferAssumption
  <2> QED
    BY <2>1, <2>2, <2>3
<1>2. PICK d \in Nat : d = off[i - 1] - try
  BY <1>1
<1>3. d \in 1 .. Len(x) /\ d \in 1 .. Len(x) + 1 /\ ~(j <= d) /\ try + d - 1 = off[i - 1] - 1
  BY <1>1, <1>2
<1>4. buf[try + d - 1] = NUL
  <2>1. off[i - 1] = 0 \/ buf[off[i - 1] - 1] = NUL
    BY StartsBehind
  <2> QED
    BY <1>1, <1>3, <2>1
<1>5. d \notin Mismatch(x)
  BY <1>3
<1>6. Toupper[NUL] = Toupper[Ended(x)[d]]
  BY <1>3, <1>4, <1>5 DEF Mismatch
<1>7. Ended(x)[d] \in DOMAIN Toupper /\ Ended(x)[d] # NUL
  BY <1>3, EndedIs DEF Char
<1> QED
  BY <1>6, <1>7, CharAssumption DEF CharAssumption

(* Nothing that is counted changes with the scan's place.                  *)
LEMMA MissingStays ==
    ASSUME NEW xs, NEW off, MissingWith(xs, off),
           UNCHANGED <<program, included, buf, next>>, Ahead(xs, off)'
    PROVE  MissingWith(xs, off)'
<1>1. extdefs' = extdefs /\ included' = included /\ buf' = buf /\ next' = next
  BY DEF program
<1>2. Laid(buf, next, off, xs)'
  BY <1>1 DEF MissingWith
<1>3. Collected(xs)' /\ (\A i \in 1 .. Len(xs) : Home(xs[i]) \notin included)'
  BY <1>1 DEF MissingWith, Collected, Refers, Defined, Home, Definer
<1>4. (Bytes(Gathered(xs)) = next)'
  <2>1. Bytes(Gathered(xs)) = next
    BY DEF MissingWith
  <2>2. Gathered(xs)' = Gathered(xs)
    BY DEF Gathered, Definer
  <2>3. \A P : Bytes(P)' = Bytes(P)
    BY DEF Bytes
  <2> QED
    BY <1>1, <2>1, <2>2 DEF Bytes
<1> QED
  BY <1>2, <1>3, <1>4 DEF MissingWith

(* When a new name is looked for nothing is behind yet.                    *)
LEMMA NothingBehind ==
    ASSUME Pass2TypeOK, NEW xs, NEW off, MissingWith(xs, off), try' = 0
    PROVE  Ahead(xs, off)'
<1>1. ASSUME NEW i \in 1 .. Len(xs)
      PROVE  ~(off[i - 1] < 0)
  <2>1. off[i - 1] \in Nat
    BY StartsBehind
  <2> QED
    BY <2>1
<1> QED
  BY <1>1 DEF Ahead

-----------------------------------------------------------------------------
(* A scan that goes on does not give up.                                   *)
LEMMA MissingGoesOn ==
    ASSUME InPass2', NEW xs, NEW off, MissingWith(xs, off)'
    PROVE  CauseInv'
<1>1. pass' # "unresolved"
  BY DEF InPass2
<1> QED
  BY <1>1 DEF CauseInv, Missing, GivesUpForCause

(* MatchName leaves no name behind that it should have found.              *)
LEMMA MatchNameMisses ==
    ASSUME Pass2TypeOK, NoneEmpty, CauseInv, MatchName
    PROVE  CauseInv'
<1>1. /\ Scanning /\ InPass2 /\ InPass2' /\ try < BufLen
      /\ UNCHANGED <<program, included, buf, next, extCount, pass>>
  BY DEF MatchName, Scanning, InPass2
<1>2. PICK xs, off : MissingWith(xs, off)
  BY <1>1 DEF CauseInv, Missing
<1>3. PICK x : x = Extdef
  OBVIOUS
<1>4. x \in Name /\ try \in Nat
  BY <1>1, <1>3, ExtdefIs, BufferAssumption DEF Pass2TypeOK, BufferAssumption
<1>5. ASSUME NEW i \in 1 .. Len(xs)
      PROVE  off[i - 1] \in Nat /\ (off[i - 1] < try => ~Same(xs[i], x))
  BY <1>1, <1>2, <1>3, StartsBehind DEF MissingWith, Ahead
<1>6. ASSUME at' = at, k' = k,
             \A i \in 1 .. Len(xs) : off[i - 1] < try' => ~Same(xs[i], x)
      PROVE  Ahead(xs, off)'
  BY <1>1, <1>3, <1>6 DEF Ahead, Extdef, program
<1>7. CASE buf[try] = NUL
  <2>1. try' = try + 1 /\ at' = at /\ k' = k
    BY <1>7 DEF MatchName
  <2>2. ASSUME NEW i \in 1 .. Len(xs), off[i - 1] < try + 1
        PROVE  ~Same(xs[i], x)
    <3>0. off[i - 1] \in Nat /\ (off[i - 1] < try => ~Same(xs[i], x))
      BY <1>5
    <3>1. CASE off[i - 1] = try
      <4>1. PICK z : z = xs[i] /\ z \in Name
        BY <1>2, GatheredAre
      <4>2. /\ Len(z) \in Nat
            /\ \A j \in 1 .. Len(z) + 1 : buf[try + j - 1] = Ended(z)[j]
        BY <1>2, <3>1, <4>1, StartsBehind
      <4>3. z # <<>>
        <5>1. PICK m \in included : z \in Refers(m)
          BY <1>2, <4>1 DEF MissingWith, Collected
        <5> QED
          BY <5>1 DEF Refers, NoneEmpty, Pass2TypeOK
      <4>4. Len(z) >= 1
        BY <4>1, <4>2, <4>3 DEF Name
      <4>5. 1 \in 1 .. Len(z) /\ 1 \in 1 .. Len(z) + 1 /\ try + 1 - 1 = try
        BY <1>4, <4>2, <4>4
      <4>6. Ended(z)[1] # NUL
        BY <4>1, <4>5, EndedIs
      <4> QED
        BY <1>7, <4>2, <4>5, <4>6
    <3>2. CASE off[i - 1] # try
      <4>1. off[i - 1] < try
        BY <1>4, <2>2, <3>0, <3>2
      <4> QED
        BY <3>0, <4>1
    <3> QED
      BY <3>1, <3>2
  <2> QED
    BY <1>1, <1>2, <1>6, <2>1, <2>2, MissingStays, MissingGoesOn
<1>8. CASE buf[try] # NUL /\ Mismatch(x) = {}
  <2>1. try' = 0
    BY <1>3, <1>8 DEF MatchName, NextExtdef
  <2> QED
    BY <1>1, <1>2, <2>1, NothingBehind, MissingStays, MissingGoesOn
<1>9. CASE buf[try] # NUL /\ Mismatch(x) # {}
  <2>1. PICK j : j = CHOOSE m \in Mismatch(x) : \A i \in Mismatch(x) : m <= i
    OBVIOUS
  <2>2. try' = try + j /\ at' = at /\ k' = k
    BY <1>3, <1>9, <2>1 DEF MatchName
  <2>3. Mismatch(x) \in SUBSET Nat
    <3>1. Len(x) \in Nat
      BY <1>4, EndedIs
    <3> QED
      BY <3>1 DEF Mismatch
  <2>4. \E i \in Mismatch(x) : \A l \in Mismatch(x) : i <= l
    BY <1>9, <2>3, LeastNat
  <2>5. j \in Mismatch(x) /\ j \in Nat /\ \A l \in Mismatch(x) : j <= l
    BY <2>1, <2>3, <2>4
  <2>6. ASSUME NEW i \in 1 .. Len(xs), off[i - 1] < try + j
        PROVE  ~Same(xs[i], x)
    <3>0. off[i - 1] \in Nat /\ (off[i - 1] < try => ~Same(xs[i], x))
      BY <1>5
    <3>1. CASE off[i - 1] < try
      BY <3>0, <3>1
    <3>2. CASE off[i - 1] = try
      BY <1>2, <1>4, <1>9, <3>2, FindsFromStart
    <3>3. CASE try < off[i - 1]
      BY <1>2, <1>4, <2>5, <2>6, <3>3, NoneBetween
    <3> QED
      BY <1>4, <3>0, <3>1, <3>2, <3>3
  <2> QED
    BY <1>1, <1>2, <1>6, <2>2, <2>6, MissingStays, MissingGoesOn
<1> QED
  BY <1>7, <1>8, <1>9

(* A scan that goes on to the next EXTDEF or module.                       *)
LEMMA NextMisses ==
    ASSUME Pass2TypeOK, CauseInv, InPass2, try' = 0,
           UNCHANGED <<program, included, buf, next, extCount, pass>>
    PROVE  CauseInv'
<1>1. PICK xs, off : MissingWith(xs, off)
  BY DEF CauseInv, Missing
<1>2. InPass2'
  BY DEF InPass2
<1> QED
  BY <1>1, <1>2, NothingBehind, MissingStays, MissingGoesOn

(* The reasons to give up.                                                 *)
Cause ==
    \/ \E m \in included : \E x \in Refers(m) : ~Defined(x)
    \/ overlay /\ ~Defined(Forced)
    \/ Bytes(Wanted) > BufLen

LEMMA FailsForCause ==
    ASSUME Fail, Cause
    PROVE  CauseInv'
<1>1. /\ extdefs' = extdefs /\ overlay' = overlay /\ included' = included
      /\ pass' = "unresolved"
  BY DEF Fail, program
<1>2. Wanted' = Wanted
  BY <1>1 DEF Wanted, Refers, Defined, Home, Definer
<1>3. \A P : Bytes(P)' = Bytes(P)
  BY DEF Bytes
<1>4. Bytes(Wanted') = Bytes(Wanted)
  BY <1>2
<1>5. GivesUpForCause'
  BY <1>1, <1>4 DEF Cause, GivesUpForCause, Refers, Defined, Bytes
<1> QED
  BY <1>1, <1>5 DEF CauseInv, InPass2

(* A name that MatchName has looked for in the whole buffer is a new one.  *)
LEMMA NewNameIs ==
    ASSUME Pass2TypeOK, Scanning, try >= BufLen, NEW xs, NEW off, MissingWith(xs, off),
           NEW x, x = Extdef, Defined(x), Home(x) \notin included
    PROVE  /\ Definer(x) \in DOMAIN Pub \ Gathered(xs)
           /\ Definer(x) \in Wanted
           /\ Len(Pub[Definer(x)].name) = Len(x)
<1>1. x \in Name /\ at \in included /\ x \in Refers(at)
  BY ExtdefIs
<1>2. Definer(x) \in DOMAIN Pub /\ Same(Pub[Definer(x)].name, x)
  BY <1>1, DefinerIs
<1>3. ASSUME NEW i \in 1 .. Len(xs), Definer(x) = Definer(xs[i])
      PROVE  FALSE
  <2>1. PICK z : z = xs[i] /\ z \in Name /\ Defined(z)
    BY GatheredAre
  <2>2. off[i - 1] < try
    <3>1. off[i - 1] \in Nat /\ Len(xs[i]) \in Nat /\ off[i - 1] + Len(xs[i]) < BufLen
      BY StartsBehind
    <3>2. try \in Nat /\ BufLen \in Nat
      BY BufferAssumption DEF Pass2TypeOK, BufferAssumption
    <3> QED
      BY <3>1, <3>2
  <2>3. ~Same(z, x)
    BY <2>1, <2>2 DEF MissingWith, Ahead
  <2>4. PICK y : y = Pub[Definer(x)].name /\ y \in Name
    BY <1>2, PublicAssumption DEF PublicAssumption
  <2>5. Same(y, x) /\ Same(y, z)
    BY <1>2, <1>3, <2>1, <2>4, DefinerIs
  <2>6. Same(x, y) /\ Same(z, y)
    BY <1>1, <2>1, <2>4, <2>5, SameAsItself, SameAsThird
  <2>7. Same(z, x)
    BY <1>1, <2>1, <2>4, <2>6, SameAsThird
  <2> QED
    BY <2>3, <2>7
<1>4. Definer(x) \in Wanted
  BY <1>1 DEF Wanted
<1>5. Len(Pub[Definer(x)].name) = Len(x)
  BY <1>2 DEF Same
<1> QED
  BY <1>2, <1>3, <1>4, <1>5 DEF Gathered

(* P2_EXTDEF, where it adds the name to the buffer.                        *)
LEMMA AddMisses ==
    ASSUME Pass2TypeOK, CauseInv, Scanning, try >= BufLen,
           Defined(Extdef), Home(Extdef) \notin included, Fits(Extdef, next),
           buf' = AddName(buf, next, Extdef), next' = next + Len(Extdef) + 1,
           NextExtdef, UNCHANGED <<program, included, pass>>
    PROVE  CauseInv'
<1>1. InPass2 /\ InPass2'
  BY DEF Scanning, InPass2
<1>2. PICK xs, off : MissingWith(xs, off)
  BY <1>1 DEF CauseInv, Missing
<1>3. PICK x : x = Extdef
  OBVIOUS
<1>4. x \in Name /\ x \in Refers(at) /\ at \in included
  BY <1>3, ExtdefIs
<1> DEFINE ys == Append(xs, x)
<1>5. /\ Len(xs) \in Nat /\ Len(ys) = Len(xs) + 1
      /\ \A i \in 1 .. Len(xs) : ys[i] = xs[i]
      /\ ys[Len(xs) + 1] = x
  BY <1>2 DEF MissingWith, Laid
<1>6. PICK off2 : Laid(AddName(buf, next, x), next + Len(x) + 1, off2, ys)
  BY <1>2, <1>3, <1>4, AddNameLays DEF MissingWith
<1> HIDE DEF ys
<1>7. Laid(buf', next', off2, ys)
  BY <1>3, <1>6
<1>8. extdefs' = extdefs /\ included' = included
  BY DEF program
<1>9. ASSUME NEW i \in 1 .. Len(ys)
      PROVE  (Defined(ys[i]) /\ Home(ys[i]) \notin included /\ \E m \in included : ys[i] \in Refers(m))'
  <2>1. Defined(ys[i]) /\ Home(ys[i]) \notin included /\ \E m \in included : ys[i] \in Refers(m)
    <3>1. CASE i \in 1 .. Len(xs)
      BY <1>2, <1>5, <3>1 DEF MissingWith, Collected
    <3>2. CASE i = Len(xs) + 1
      BY <1>3, <1>4, <1>5, <3>2
    <3> QED
      BY <1>5, <3>1, <3>2
  <2> QED
    BY <1>8, <2>1 DEF Defined, Home, Definer, Refers
<1>10. Collected(ys)' /\ (\A i \in 1 .. Len(ys) : Home(ys[i]) \notin included)'
  BY <1>9 DEF Collected
<1>11. Bytes(Gathered(ys)) = next'
  <2>1. /\ Definer(x) \in DOMAIN Pub \ Gathered(xs)
        /\ Len(Pub[Definer(x)].name) = Len(x)
    BY <1>2, <1>3, NewNameIs
  <2>2. Gathered(ys) = Gathered(xs) \cup {Definer(x)}
    <3>1. /\ \A i \in 1 .. Len(xs) : i \in 1 .. Len(ys)
          /\ Len(xs) + 1 \in 1 .. Len(ys)
          /\ \A i \in 1 .. Len(ys) : i \in 1 .. Len(xs) \/ i = Len(xs) + 1
      BY <1>5
    <3> QED
      BY <1>5, <3>1 DEF Gathered
  <2>3. Gathered(xs) \in SUBSET DOMAIN Pub
    BY <1>2, GatheredAre
  <2>4. Bytes(Gathered(ys)) = Bytes(Gathered(xs)) + Len(Pub[Definer(x)].name) + 1
    BY <2>1, <2>2, <2>3, BytesAdd
  <2> QED
    BY <1>2, <1>3, <2>1, <2>4 DEF MissingWith
<1>12. (Bytes(Gathered(ys)) = next)'
  <2>1. Gathered(ys)' = Gathered(ys)
    BY DEF Gathered, Definer
  <2> QED
    BY <1>11, <2>1 DEF Bytes
<1>13. Ahead(ys, off2)'
  <2>1. ASSUME NEW i \in 1 .. Len(ys)
        PROVE  ~(off2[i - 1] < 0)
    <3>1. off2[i - 1] \in Nat
      BY <1>7, LaidAt
    <3> QED
      BY <3>1
  <2>2. try' = 0
    BY DEF NextExtdef
  <2> QED
    BY <2>1, <2>2 DEF Ahead
<1>14. MissingWith(ys, off2)'
  BY <1>7, <1>10, <1>12, <1>13 DEF MissingWith
<1> QED
  BY <1>1, <1>14, MissingGoesOn

(* P2_EXTDEF gives up where the names that are missing do not fit.         *)
LEMMA NoRoom ==
    ASSUME Pass2TypeOK, CauseInv, Scanning, try >= BufLen,
           Defined(Extdef), Home(Extdef) \notin included, ~Fits(Extdef, next)
    PROVE  Cause
<1>1. PICK xs, off : MissingWith(xs, off)
  BY DEF CauseInv, Missing, Scanning, InPass2
<1>2. PICK x : x = Extdef
  OBVIOUS
<1> DEFINE P == Gathered(xs) \cup {Definer(x)}
<1>3. /\ Definer(x) \in DOMAIN Pub \ Gathered(xs)
      /\ Definer(x) \in Wanted
      /\ Len(Pub[Definer(x)].name) = Len(x)
  BY <1>1, <1>2, NewNameIs
<1>4. Gathered(xs) \in SUBSET DOMAIN Pub /\ Gathered(xs) \subseteq Wanted
  BY <1>1, GatheredAre
<1>5. Wanted \in SUBSET DOMAIN Pub
  <2>1. ASSUME NEW m \in included, NEW y \in Refers(m), Defined(y)
        PROVE  Definer(y) \in DOMAIN Pub
    <3>1. y \in Name
      BY RefersAre DEF Pass2TypeOK
    <3> QED
      BY <2>1, <3>1, DefinerIs
  <2> QED
    BY <2>1 DEF Wanted
<1>6. Bytes(P) = next + Len(x) + 1
  BY <1>1, <1>3, <1>4, BytesAdd DEF MissingWith
<1>7. Bytes(P) <= Bytes(Wanted)
  BY <1>3, <1>4, <1>5, BytesGrow
<1>8. next \in Nat /\ Len(x) \in Nat /\ BufLen \in Nat /\ ~(next + Len(x) < BufLen)
  <2>1. next \in Nat /\ BufLen \in Nat
    BY BufferAssumption DEF Pass2TypeOK, BufferAssumption
  <2>2. Len(x) \in Nat
    BY <1>2, ExtdefIs, EndedIs
  <2>3. ~(next + Len(x) < BufLen)
    BY <1>2 DEF Fits
  <2> QED
    BY <2>1, <2>2, <2>3
<1>9. Bytes(Wanted) \in Nat
  BY <1>5, BytesAre
<1>10. Bytes(Wanted) > BufLen
  BY <1>6, <1>7, <1>8, <1>9
<1> QED
  BY <1>10 DEF Cause

LEMMA P2_EXTDEFMisses ==
    ASSUME Pass2TypeOK, CauseInv, P2_EXTDEF
    PROVE  CauseInv'
<1>1. Scanning /\ InPass2 /\ try >= BufLen
  BY DEF P2_EXTDEF, Scanning, InPass2
<1>2. PICK pbdfIdx : pbdfIdx = FindPubDef(Extdef, FALSE)
  OBVIOUS
<1>3. PICK x : x = Extdef
  OBVIOUS
<1>4. at \in included /\ x \in Name /\ x \in Refers(at)
  BY <1>1, <1>3, ExtdefIs
<1>5. /\ pbdfIdx = NOT_DEFINED => ~Defined(x)
      /\ pbdfIdx = NOT_INCLUDED => Defined(x) /\ Home(x) \notin included
  <2>1. /\ ~Defined(x) => pbdfIdx = NOT_DEFINED
        /\ Defined(x) => pbdfIdx = IF Home(x) \in included THEN Definer(x) ELSE NOT_INCLUDED
        /\ Defined(x) => Definer(x) \in Nat
    BY <1>2, <1>3, <1>4, FindPubDefFinds
  <2> QED
    BY <2>1 DEF NOT_DEFINED, NOT_INCLUDED
<1>6. CASE pbdfIdx = NOT_DEFINED /\ Fail
  BY <1>4, <1>5, <1>6, FailsForCause DEF Cause
<1>7. CASE pbdfIdx = NOT_INCLUDED /\ ~Fits(x, next) /\ Fail
  BY <1>1, <1>3, <1>5, <1>7, NoRoom, FailsForCause
<1>8. CASE /\ pbdfIdx = NOT_INCLUDED /\ Fits(Extdef, next)
           /\ buf' = AddName(buf, next, Extdef) /\ next' = next + Len(Extdef) + 1
           /\ extCount' = extCount + 1 /\ NextExtdef /\ UNCHANGED <<program, included, pass>>
  BY <1>1, <1>3, <1>5, <1>8, AddMisses
<1>9. CASE NextExtdef /\ UNCHANGED <<program, included, buf, next, extCount, pass>>
  BY <1>1, <1>9, NextMisses DEF NextExtdef
<1> QED
  BY <1>2, <1>3, <1>6, <1>7, <1>8, <1>9 DEF P2_EXTDEF

(* A new scan counts from nothing.                                         *)
LEMMA RescanMisses ==
    ASSUME Rescan, InPass2'
    PROVE  CauseInv'
<1> DEFINE none == [i \in {0} |-> 0]
<1>1. next' = 0 /\ buf' = buf
  BY DEF Rescan
<1>2. Laid(buf', next', none, <<>>)
  BY <1>1, NoneLaid
<1>3. \A i \in 1 .. Len(<<>>) : FALSE
  OBVIOUS
<1>4. Collected(<<>>)' /\ (\A i \in 1 .. Len(<<>>) : Home(<<>>[i]) \notin included)'
      /\ Ahead(<<>>, none)'
  BY <1>3 DEF Collected, Ahead
<1>5. (Bytes(Gathered(<<>>)) = next)'
  <2>1. Gathered(<<>>) = {}
    BY <1>3 DEF Gathered
  <2>2. Bytes({}) = 0
    <3>1. UNION {{p} \X (0 .. Len(Pub[p].name)) : p \in {}} = {}
      OBVIOUS
    <3> QED
      BY <3>1, FS_EmptySet DEF Bytes
  <2>3. Gathered(<<>>)' = Gathered(<<>>)
    BY DEF Gathered, Definer
  <2> QED
    BY <1>1, <2>1, <2>2, <2>3 DEF Bytes
<1>6. MissingWith(<<>>, none)'
  BY <1>2, <1>4, <1>5 DEF MissingWith
<1> QED
  BY <1>6, MissingGoesOn

(* What P2_Resolve looks up is defined: it never gives up.                 *)
LEMMA P2_ResolveMisses ==
    ASSUME Pass2Inv, P2_Resolve
    PROVE  CauseInv'
<1>1. Pass2TypeOK /\ InPass2
  BY DEF Pass2Inv, P2_Resolve, InPass2
<1>2. PICK xs, off : ScanWith(xs, off)
  BY <1>1 DEF Pass2Inv, Scan
<1> DEFINE names == {GetName(buf, i) : i \in 0 .. extCount - 1}
<1>3. \A x \in names : x \in Name /\ Defined(x)
  BY <1>2, CollectedAre
<1> HIDE DEF names
<1>4. ASSUME NEW x \in names
      PROVE  FindPubDef(x, TRUE) # NOT_DEFINED
  <2>1. x \in Name /\ Defined(x)
    BY <1>3
  <2>2. FindPubDef(x, TRUE) = Definer(x) /\ Definer(x) \in Nat
    BY <2>1, FindPubDefFinds
  <2>3. Definer(x) # NOT_DEFINED
    BY <2>2 DEF NOT_DEFINED
  <2> QED
    BY <2>2, <2>3
<1>5. Rescan /\ UNCHANGED pass
  BY <1>4 DEF P2_Resolve, names
<1> QED
  BY <1>1, <1>5, RescanMisses DEF InPass2

LEMMA EndPass2Misses ==
    ASSUME EndPass2
    PROVE  CauseInv'
<1>1. Forced \in Name
  BY NamesAssumption DEF NamesAssumption
<1>2. CASE pass = "pass2" /\ overlay /\ FindPubDef(Forced, TRUE) = NOT_DEFINED
  <2>1. ~Defined(Forced)
    <3>1. Defined(Forced) => FindPubDef(Forced, TRUE) = Definer(Forced) /\ Definer(Forced) \in Nat
      BY <1>1, FindPubDefFinds
    <3>2. Definer(Forced) \in Nat => Definer(Forced) # NOT_DEFINED
      BY DEF NOT_DEFINED
    <3> QED
      BY <1>2, <3>1, <3>2
  <2> QED
    BY <1>2, <2>1, FailsForCause DEF EndPass2, Cause
<1>3. CASE pass = "pass2" /\ overlay /\ FindPubDef(Forced, TRUE) # NOT_DEFINED
  <2>1. Rescan /\ pass' = "pass2_again"
    BY <1>3 DEF EndPass2
  <2> QED
    BY <2>1, RescanMisses DEF InPass2
<1>4. CASE ~(pass = "pass2" /\ overlay)
  <2>1. pass' = "resolved"
    BY <1>4 DEF EndPass2
  <2> QED
    BY <2>1 DEF CauseInv, InPass2, GivesUpForCause
<1> QED
  BY <1>2, <1>3, <1>4

LEMMA InitMisses ==
    ASSUME InitPass2
    PROVE  CauseInv
<1> DEFINE none == [i \in {0} |-> 0]
<1>1. Laid(buf, next, none, <<>>)
  BY NoneLaid DEF InitPass2
<1>2. \A i \in 1 .. Len(<<>>) : FALSE
  OBVIOUS
<1>3. /\ Collected(<<>>) /\ Ahead(<<>>, none)
      /\ \A i \in 1 .. Len(<<>>) : Home(<<>>[i]) \notin included
  BY <1>2 DEF Collected, Ahead
<1>4. Bytes(Gathered(<<>>)) = next
  <2>1. Gathered(<<>>) = {}
    BY <1>2 DEF Gathered
  <2>2. UNION {{p} \X (0 .. Len(Pub[p].name)) : p \in {}} = {}
    OBVIOUS
  <2> QED
    BY <2>1, <2>2, FS_EmptySet DEF Bytes, InitPass2
<1>5. MissingWith(<<>>, none)
  BY <1>1, <1>3, <1>4 DEF MissingWith
<1> QED
  BY <1>5 DEF CauseInv, Missing, GivesUpForCause, InitPass2

(* Each step of Pass2 keeps it.                                            *)
LEMMA Pass2Misses ==
    ASSUME Pass2Inv, NoneEmpty, CauseInv, Pass2
    PROVE  CauseInv'
<1>1. Pass2TypeOK
  BY DEF Pass2Inv
<1>2. CASE NextModule
  <2>1. InPass2 /\ try' = 0 /\ UNCHANGED <<program, included, buf, next, extCount, pass>>
    BY <1>2 DEF NextModule, InPass2
  <2> QED
    BY <1>1, <2>1, NextMisses
<1> QED
  BY <1>1, <1>2, MatchNameMisses, P2_EXTDEFMisses, P2_ResolveMisses, EndPass2Misses DEF Pass2

-----------------------------------------------------------------------------
(* Pass3 and Pass4.                                                        *)

Word == 0 .. MaxWord
Kinds == {"code", "data"}
Passes == {"pass2", "pass2_again", "resolved", "unresolved", "pass3", "pass4", "linked", "fatal"}

LinkTypeOK ==
    /\ pass \in Passes /\ size \in Sizes
    /\ origin \in [Module -> [code : Word, data : Word]]
    /\ segLengths \in [Seg -> Word] /\ exeStart \in Word

(* Pass3 has given module m its place.                                     *)
Placed(m) ==
    m \in included /\ (pass \in {"pass4", "linked"} \/ (pass = "pass3" /\ m < at))

(* The modules that have one are in it one behind the other.               *)
Parts ==
    /\ \A s \in Kinds : segLengths[s] >= 2
    /\ \A m \in Module : Placed(m) => \A s \in Kinds :
          origin[m][s] >= 2 /\ origin[m][s] + size[m][s] <= segLengths[s]
    /\ \A m, n \in Module : Placed(m) /\ Placed(n) /\ m < n => \A s \in Kinds :
          origin[m][s] + size[m][s] <= origin[n][s]

(* The start address is moved when its module is placed.                   *)
StartMoves ==
    pass \notin {"unresolved", "fatal"} =>
        \A m \in DOMAIN Start : exeStart = Start[m] + (IF Placed(m) THEN origin[m].code ELSE 0)

PlacesInv == LinkTypeOK /\ Parts /\ StartMoves

-----------------------------------------------------------------------------
(* A word is a number of 16 bits.                                          *)
LEMMA WordIs ==
    /\ \A x \in Word : x \in Nat /\ x \in Int /\ 0 <= x /\ x <= 65535
    /\ \A x \in Int : 0 <= x /\ x <= 65535 => x \in Word
    /\ MaxWord = 65535 /\ MaxWord + 1 = 65536
<1>1. MaxWord \in Int
  BY DEF MaxWord
<1>2. /\ \A x \in Word : x \in Int /\ x \in Nat /\ 0 <= x /\ x <= MaxWord
      /\ \A x \in Int : 0 <= x /\ x <= MaxWord => x \in Word
  BY <1>1, Within, Zenon DEF Word
<1>3. MaxWord = 65535 /\ MaxWord + 1 = 65536
  BY DEF MaxWord
<1> QED
  BY <1>2, <1>3

(* A word is left alone by what makes one of a number.                     *)
LEMMA WordOf ==
    /\ \A x \in Word : x % (MaxWord + 1) = x
    /\ \A x \in Int : x % (MaxWord + 1) \in Word
<1>1. ASSUME NEW x \in Word PROVE x % (MaxWord + 1) = x
  BY WordIs DEF MaxWord
<1>2. ASSUME NEW x \in Int PROVE x % (MaxWord + 1) \in Word
  <2> DEFINE z == x % 65536
  <2>1. z \in Int /\ 0 <= z /\ z <= 65535
    OBVIOUS
  <2> HIDE DEF z
  <2>2. z \in Word
    BY <2>1, WordIs
  <2> QED
    BY <2>2 DEF z, MaxWord
<1> QED
  BY <1>1, <1>2

(* Sizes and places are words.                                             *)
LEMMA PlacesAre ==
    ASSUME LinkTypeOK
    PROVE  /\ \A m \in Module, s \in Kinds : size[m][s] \in Word /\ origin[m][s] \in Word
           /\ \A s \in Seg : segLengths[s] \in Word
           /\ \A m \in Module : size[m].code \in Word /\ origin[m].code \in Word
<1>1. size \in [Module -> [code : Word, data : Word]]
  BY SizesAssumption DEF LinkTypeOK, SizesAssumption, Word
<1>2. ASSUME NEW f \in [Module -> [code : Word, data : Word]], NEW m \in Module
      PROVE  f[m]["code"] \in Word /\ f[m]["data"] \in Word
  <2>1. f[m] \in [code : Word, data : Word]
    OBVIOUS
  <2> QED
    BY <2>1
<1> QED
  BY <1>1, <1>2 DEF LinkTypeOK, Kinds

(* AlignSegments makes no segment shorter, and none longer than 64K.       *)
LEMMA RoundedIs ==
    ASSUME NEW x \in Word, NEW n \in {2, 16}, NEW z,
           z = IF UpTo(n, x) > MaxWord THEN x ELSE UpTo(n, x)
    PROVE  z \in Word /\ z >= x
<1>1. UpTo(n, x) \in Nat /\ UpTo(n, x) >= x
  <2> DEFINE r == x % n
  <2>1. n \in Nat \ {0} /\ x \in Nat /\ UpTo(n, x) = x + ((n - r) % n)
    BY WordIs DEF UpTo
  <2>2. (n - r) % n \in Nat
    BY <2>1
  <2> HIDE DEF r
  <2> QED
    BY <2>1, <2>2
<1>2. ASSUME NEW y \in Nat, y >= x, y <= MaxWord
      PROVE  y \in Word /\ y >= x
  BY <1>2 DEF Word
<1>3. UpTo(n, x) > MaxWord \/ UpTo(n, x) <= MaxWord
  BY <1>1 DEF MaxWord
<1>4. x >= x
  BY DEF Word
<1> QED
  BY <1>1, <1>2, <1>3, <1>4

(* Nor does it any of the segments.                                        *)
LEMMA AlignedIs ==
    ASSUME NEW lens \in [Seg -> Word], NEW n \in {2, 16}
    PROVE  /\ Aligned(lens, n) \in [Seg -> Word]
           /\ \A s \in Seg : Aligned(lens, n)[s] >= lens[s]
<1>1. ASSUME NEW s \in Seg
      PROVE  Aligned(lens, n)[s] \in Word /\ Aligned(lens, n)[s] >= lens[s]
  <2>1. lens[s] \in Word
    OBVIOUS
  <2>2. Aligned(lens, n)[s] = IF UpTo(n, lens[s]) > MaxWord THEN lens[s] ELSE UpTo(n, lens[s])
    BY DEF Aligned
  <2> QED
    BY <2>1, <2>2, RoundedIs
<1>2. Aligned(lens, n) = [s \in Seg |-> Aligned(lens, n)[s]]
  BY DEF Aligned
<1> QED
  BY <1>1, <1>2

(* A step that places no module.                                           *)
LEMMA PlacesStay ==
    ASSUME PlacesInv, UNCHANGED <<size, origin, segLengths, exeStart>>, pass' \in Passes,
           \A m \in Module : Placed(m)' => Placed(m),
           pass' \notin {"unresolved", "fatal"} =>
               /\ pass \notin {"unresolved", "fatal"}
               /\ \A m \in Module : Placed(m) => Placed(m)'
    PROVE  PlacesInv'
<1>1. LinkTypeOK' /\ Parts'
  BY DEF PlacesInv, LinkTypeOK, Parts
<1>2. StartMoves'
  <2>1. ASSUME pass' \notin {"unresolved", "fatal"}, NEW m \in DOMAIN Start
        PROVE  exeStart' = Start[m] + (IF Placed(m)' THEN origin'[m].code ELSE 0)
    <3>1. m \in Module
      BY StartAssumption DEF StartAssumption
    <3>2. Placed(m)' <=> Placed(m)
      BY <2>1, <3>1
    <3>3. exeStart = Start[m] + (IF Placed(m) THEN origin[m].code ELSE 0)
      BY <2>1 DEF PlacesInv, StartMoves
    <3> QED
      BY <3>2, <3>3
  <2> QED
    BY <2>1 DEF StartMoves
<1> QED
  BY <1>1, <1>2 DEF PlacesInv

-----------------------------------------------------------------------------
(* PlaceModule puts its module behind those before it.                     *)
LEMMA PlaceModuleKeeps ==
    ASSUME PlacesInv, Pass2TypeOK, PlaceModule
    PROVE  PlacesInv'
<1>1. PICK c, d : c = segLengths["code"] /\ d = segLengths["data"]
  OBVIOUS
<1>2. PICK C, D : C = End("code") /\ D = End("data")
  OBVIOUS
<1>3. /\ pass = "pass3" /\ at \in included /\ at \in Module /\ C <= MaxWord /\ D <= MaxWord
      /\ origin' = [origin EXCEPT ![at] = [code |-> c, data |-> d]]
      /\ segLengths' = Aligned([segLengths EXCEPT !["code"] = C, !["data"] = D], 2)
      /\ exeStart' = IF at \in DOMAIN Start THEN (exeStart + c) % (MaxWord + 1) ELSE exeStart
      /\ at' = at + 1 /\ pass' = pass /\ included' = included /\ size' = size
  BY <1>1, <1>2 DEF PlaceModule, Pass2TypeOK
<1>4. LinkTypeOK /\ Parts /\ StartMoves
  BY DEF PlacesInv
<1>5. /\ size[at]["code"] \in Word /\ size[at]["data"] \in Word /\ c \in Word /\ d \in Word
      /\ C = c + size[at]["code"] /\ D = d + size[at]["data"] /\ c >= 2 /\ d >= 2
  BY <1>1, <1>2, <1>3, <1>4, PlacesAre DEF End, Kinds, Seg, Parts
<1>6. C \in Word /\ D \in Word /\ C >= c /\ D >= d
  <2>1. ASSUME NEW x \in Word, NEW y \in Word, x + y <= MaxWord
        PROVE  x + y \in Word /\ x + y >= x
    <3>1. x \in Int /\ y \in Int /\ x >= 0 /\ y >= 0 /\ x + y <= 65535
      BY <2>1, WordIs
    <3>2. x + y \in Int /\ 0 <= x + y /\ x + y >= x
      BY <3>1
    <3> QED
      BY <3>1, <3>2, WordIs
  <2> QED
    BY <1>3, <1>5, <2>1
<1> DEFINE lens == [segLengths EXCEPT !["code"] = C, !["data"] = D]
<1>7. lens \in [Seg -> Word] /\ lens["code"] = C /\ lens["data"] = D
  BY <1>4, <1>6 DEF LinkTypeOK, Seg
<1>8. segLengths' \in [Seg -> Word] /\ segLengths'["code"] >= C /\ segLengths'["data"] >= D
  <2> DEFINE after == Aligned(lens, 2)
  <2>1. segLengths' = after
    BY <1>3
  <2> HIDE DEF lens
  <2>2. after \in [Seg -> Word] /\ \A s \in Seg : after[s] >= lens[s]
    BY <1>7, AlignedIs
  <2>3. "code" \in Seg /\ "data" \in Seg
    BY DEF Seg
  <2> HIDE DEF after
  <2> QED
    BY <1>7, <2>1, <2>2, <2>3
<1>9. /\ segLengths'["code"] \in Word /\ segLengths'["data"] \in Word
      /\ \A s \in Kinds : segLengths[s] \in Word
  BY <1>4, <1>8 DEF LinkTypeOK, Seg, Kinds
<1>10. /\ origin' \in [Module -> [code : Word, data : Word]]
       /\ origin'[at] = [code |-> c, data |-> d]
       /\ \A m \in Module : m # at => origin'[m] = origin[m]
  BY <1>3, <1>4, <1>5 DEF LinkTypeOK
<1>11. ASSUME NEW m \in Module, Placed(m)'
       PROVE  (Placed(m) /\ m < at) \/ m = at
  <2>1. m \in Int /\ at \in Int
    BY <1>3 DEF Module
  <2> QED
    BY <1>3, <1>11, <2>1 DEF Placed
<1>12. ASSUME NEW m \in Module, Placed(m)
       PROVE  m # at /\ Placed(m)'
  <2>1. m \in Int /\ at \in Int
    BY <1>3 DEF Module
  <2> QED
    BY <1>3, <1>12, <2>1 DEF Placed
<1>13. exeStart' \in Word
  <2>1. exeStart \in Word
    BY <1>4 DEF LinkTypeOK
  <2>2. exeStart + c \in Int
    BY <1>5, <2>1, WordIs
  <2> QED
    BY <1>3, <2>1, <2>2, WordOf
<1>14. LinkTypeOK'
  BY <1>3, <1>4, <1>8, <1>10, <1>13 DEF LinkTypeOK
<1>15. Parts'
  <2>1. \A s \in Kinds : segLengths'[s] >= segLengths[s] /\ segLengths'[s] >= 2
    <3>1. ASSUME NEW x \in Word, NEW y \in Word, NEW z \in Word, x >= y, y >= z, z >= 2
          PROVE  x >= z /\ x >= 2
      BY <3>1 DEF Word
    <3> QED
      BY <1>1, <1>5, <1>6, <1>8, <1>9, <3>1 DEF Kinds
  <2>2. ASSUME NEW m \in Module, Placed(m)', NEW s \in Kinds
        PROVE  origin'[m][s] >= 2 /\ origin'[m][s] + size[m][s] <= segLengths'[s]
    <3>1. CASE m = at
      BY <1>5, <1>8, <1>10, <3>1 DEF Kinds
    <3>2. CASE m # at
      <4>1. /\ origin'[m] = origin[m] /\ origin[m][s] >= 2
            /\ origin[m][s] + size[m][s] <= segLengths[s]
        BY <1>4, <1>10, <1>11, <2>2, <3>2 DEF Parts
      <4>2. /\ origin[m][s] \in Word /\ size[m][s] \in Word /\ segLengths[s] \in Word
            /\ segLengths'[s] \in Word
        BY <1>4, <1>9, PlacesAre DEF Kinds
      <4>3. ASSUME NEW x \in Word, NEW y \in Word, NEW z \in Word, NEW w \in Word,
                   x + y <= z, z <= w
            PROVE  x + y <= w
        BY <4>3 DEF Word
      <4> QED
        BY <2>1, <4>1, <4>2, <4>3
    <3> QED
      BY <3>1, <3>2
  <2>3. ASSUME NEW m \in Module, NEW n \in Module, Placed(m)', Placed(n)', m < n, NEW s \in Kinds
        PROVE  origin'[m][s] + size[m][s] <= origin'[n][s]
    <3>1. m \in Int /\ n \in Int /\ at \in Int
      BY <1>3 DEF Module
    <3>2. m # at /\ Placed(m) /\ origin'[m] = origin[m]
      BY <1>10, <1>11, <2>3, <3>1
    <3>3. CASE n = at
      <4>1. origin'[n][s] = segLengths[s]
        BY <1>1, <1>10, <3>3 DEF Kinds
      <4> QED
        BY <1>4, <3>2, <4>1 DEF Parts
    <3>4. CASE n # at
      BY <1>4, <1>10, <1>11, <2>3, <3>2, <3>4 DEF Parts
    <3> QED
      BY <3>3, <3>4
  <2> QED
    BY <1>3, <2>1, <2>2, <2>3 DEF Parts
<1>16. StartMoves'
  <2>1. ASSUME NEW m \in DOMAIN Start
        PROVE  exeStart' = Start[m] + (IF Placed(m)' THEN origin'[m].code ELSE 0)
    <3>1. m \in Module /\ Start[m] \in Nat /\ Start[m] <= size[m].code
      BY <1>4, StartAssumption DEF StartAssumption, LinkTypeOK
    <3>2. exeStart = Start[m] + (IF Placed(m) THEN origin[m].code ELSE 0)
      BY <1>3, <1>4 DEF StartMoves
    <3>3. CASE m = at
      <4>1. ~Placed(m) /\ Placed(m)'
        <5>1. at \in Int
          BY <1>3 DEF Module
        <5> QED
          BY <1>3, <3>3, <5>1 DEF Placed
      <4>2. exeStart = Start[m] /\ exeStart' = (exeStart + c) % (MaxWord + 1)
        <5>1. exeStart = Start[m] + 0
          BY <3>2, <4>1
        <5> QED
          BY <1>3, <3>1, <3>3, <5>1
      <4>3. Start[m] + c \in Word
        <5>1. ASSUME NEW x \in Nat, NEW y \in Word, NEW z \in Word, x <= y, z + y \in Word
              PROVE  x + z \in Word
          <6>1. y \in Int /\ z \in Int /\ z >= 0 /\ z + y <= 65535
            BY <5>1, WordIs
          <6>2. x + z \in Int /\ 0 <= x + z /\ x + z <= 65535
            BY <5>1, <6>1
          <6> QED
            BY <6>2, WordIs
        <5> QED
          BY <1>5, <1>6, <3>1, <3>3, <5>1
      <4>4. ASSUME NEW x \in Word PROVE x % (MaxWord + 1) = x
        BY WordOf
      <4>5. origin'[m].code = c
        BY <1>10, <3>3
      <4> QED
        BY <4>1, <4>2, <4>3, <4>4, <4>5
    <3>4. CASE m # at
      <4>1. at \notin DOMAIN Start
        BY <3>4, StartAssumption DEF StartAssumption
      <4>2. Placed(m)' <=> Placed(m)
        BY <1>11, <1>12, <3>1, <3>4
      <4> QED
        BY <1>3, <1>10, <3>1, <3>2, <3>4, <4>1, <4>2
    <3> QED
      BY <3>3, <3>4
  <2> QED
    BY <2>1 DEF StartMoves
<1> QED
  BY <1>14, <1>15, <1>16 DEF PlacesInv

-----------------------------------------------------------------------------
(* The steps of the linker after Pass2.                                    *)
Later ==
    \/ BeginPass3 \/ SkipModule \/ TooLong \/ PlaceModule \/ EndPass3
    \/ P4_EXTDEF \/ P4_FIXUPP \/ WriteExeHeader

(* What they have in common: none changes what is included.                *)
LEMMA LaterIs ==
    ASSUME Pass2TypeOK, Later
    PROVE  /\ UNCHANGED <<program, included>> /\ extdefs' = extdefs
           /\ pass \in {"resolved", "pass3", "pass4"}
           /\ pass' \in {"pass3", "pass4", "linked", "fatal"}
           /\ Pass2TypeOK'
<1>1. /\ BufLen \in Nat /\ N \in Nat /\ next \in 0 .. BufLen /\ at \in 1 .. N + 1
      /\ k \in Nat \ {0} /\ extCount \in Nat
  BY BufferAssumption, ModulesAssumption DEF BufferAssumption, ModulesAssumption, Pass2TypeOK
<1>2. at \in included => at \in Module
  BY DEF Pass2TypeOK
<1>3. ASSUME Fatal
      PROVE  pass' = "fatal" /\ UNCHANGED <<program, included, buf, next, extCount, at, k, try>>
  BY <1>3 DEF Fatal
<1>4. ASSUME UNCHANGED <<program, included, buf, try>>,
             next' \in 0 .. BufLen, extCount' \in Nat, at' \in 1 .. N + 1, k' \in Nat \ {0}
      PROVE  UNCHANGED <<program, included>> /\ extdefs' = extdefs /\ Pass2TypeOK'
  BY <1>4 DEF Pass2TypeOK, program
<1>5. CASE BeginPass3
  BY <1>1, <1>4, <1>5 DEF BeginPass3
<1>6. CASE SkipModule
  BY <1>1, <1>4, <1>6 DEF SkipModule, Module
<1>7. CASE TooLong
  BY <1>1, <1>3, <1>4, <1>7 DEF TooLong
<1>8. CASE PlaceModule
  BY <1>1, <1>2, <1>4, <1>8 DEF PlaceModule, Module
<1>9. CASE EndPass3
  <2>1. pass = "pass3"
    BY <1>9 DEF EndPass3
  <2>2. CASE Fatal
    BY <1>1, <1>3, <1>4, <2>1, <2>2
  <2>3. CASE ~Fatal
    <3>1. /\ pass' = "pass4" /\ at' = 1 /\ k' = 1 /\ next' = 0 /\ extCount' = 0
          /\ UNCHANGED <<program, included, buf, try>>
      BY <1>9, <2>3 DEF EndPass3
    <3> QED
      BY <1>1, <1>4, <2>1, <3>1
  <2> QED
    BY <2>2, <2>3
<1>10. CASE P4_EXTDEF
  <2>1. pass = "pass4" /\ at \in Module /\ k <= Len(extdefs[at])
    BY <1>2, <1>10 DEF P4_EXTDEF
  <2>2. CASE Fatal
    BY <1>1, <1>3, <1>4, <2>1, <2>2
  <2>3. CASE ~Fatal
    <3>1. PICK x : x = Extdef
      OBVIOUS
    <3>2. /\ Fits(x, next) /\ buf' = AddName(buf, next, x) /\ next' = next + Len(x) + 1
          /\ extCount' = extCount + 1 /\ k' = k + 1 /\ UNCHANGED <<program, included, at, try, pass>>
      BY <1>10, <2>3, <3>1 DEF P4_EXTDEF
    <3>3. x \in Name
      <4>1. Len(extdefs[at]) \in Nat
        BY <2>1, RefersAre
      <4>2. k \in 1 .. Len(extdefs[at])
        BY <1>1, <2>1, <4>1
      <4> QED
        BY <2>1, <3>1, <4>2, RefersAre DEF Extdef
    <3>4. buf' \in [Index -> DOMAIN Toupper]
      BY <3>2, <3>3, AddNameType
    <3>5. next' \in 0 .. BufLen
      BY <1>1, <3>2, <3>3, EndedIs DEF Fits
    <3>6. extCount' \in Nat /\ k' \in Nat \ {0}
      BY <1>1, <3>2
    <3>7. Pass2TypeOK'
      BY <3>2, <3>4, <3>5, <3>6 DEF Pass2TypeOK, program
    <3> QED
      BY <2>1, <3>2, <3>7 DEF program
  <2> QED
    BY <2>2, <2>3
<1>11. CASE P4_FIXUPP
  <2>1. pass = "pass4" /\ at \in Module
    BY <1>2, <1>11 DEF P4_FIXUPP
  <2>2. CASE Fatal
    BY <1>1, <1>3, <1>4, <2>1, <2>2
  <2>3. CASE ~Fatal
    <3>1. /\ at' = at + 1 /\ k' = 1 /\ next' = 0 /\ extCount' = 0
          /\ UNCHANGED <<program, included, buf, try, pass>>
      BY <1>11, <2>3 DEF P4_FIXUPP
    <3>2. at' \in 1 .. N + 1
      BY <1>1, <2>1, <3>1 DEF Module
    <3> QED
      BY <1>1, <1>4, <2>1, <3>1, <3>2
  <2> QED
    BY <2>2, <2>3
<1>12. CASE WriteExeHeader
  <2>1. pass = "pass4"
    BY <1>12 DEF WriteExeHeader
  <2>2. CASE Fatal
    BY <1>1, <1>3, <1>4, <2>1, <2>2
  <2>3. CASE ~Fatal
    <3>1. pass' = "linked" /\ UNCHANGED <<program, included, buf, next, extCount, at, k, try>>
      BY <1>12, <2>3 DEF WriteExeHeader
    <3> QED
      BY <1>1, <1>4, <2>1, <3>1
  <2> QED
    BY <2>2, <2>3
<1> QED
  BY <1>5, <1>6, <1>7, <1>8, <1>9, <1>10, <1>11, <1>12 DEF Later

(* So what Pass2 has found stays true.                                     *)
LEMMA LaterKeepsPass2Inv ==
    ASSUME Pass2Inv, Later
    PROVE  Pass2Inv'
<1>1. /\ UNCHANGED <<program, included>> /\ extdefs' = extdefs
      /\ pass \in {"resolved", "pass3", "pass4"}
      /\ pass' \in {"pass3", "pass4", "linked", "fatal"}
      /\ Pass2TypeOK'
  BY LaterIs DEF Pass2Inv
<1>2. Least'
  BY <1>1, LeastStays DEF Pass2Inv
<1>3. (TailFree => AllResolved)'
  <2>1. /\ TailFree' <=> TailFree
        /\ Closed(included)' <=> Closed(included)
        /\ overlay' = overlay /\ included' = included
    BY <1>1 DEF TailFree, Names, Refers, Closed, program
  <2>2. TailFree => AllResolved
    BY DEF Pass2Inv
  <2> QED
    BY <1>1, <2>1, <2>2 DEF AllResolved, Resolved, Defined, Home, Definer
<1> QED
  BY <1>1, <1>2, <1>3 DEF Pass2Inv, InPass2

-----------------------------------------------------------------------------
(* Before Pass3 no module has a place, and each segment has the two bytes  *)
(* of its null pointer.                                                    *)
LEMMA InitPlaces ==
    ASSUME Init
    PROVE  PlacesInv
<1>1. /\ pass = "pass2" /\ size \in Sizes /\ origin = size
      /\ segLengths = [s \in Seg |-> IF s = "stack" THEN StackSize ELSE 2]
      /\ exeStart = IF DOMAIN Start = {} THEN MaxWord ELSE Start[Max(DOMAIN Start)]
  BY DEF Init, InitPass2
<1>2. origin \in [Module -> [code : Word, data : Word]]
  BY <1>1, SizesAssumption DEF SizesAssumption, Word
<1>3. segLengths \in [Seg -> Word]
  <2>1. 2 \in Word /\ StackSize \in Word
    <3>1. 2 \in Word
      BY WordIs
    <3>2. StackSize \in Word
      BY StackAssumption DEF StackAssumption, Word
    <3> QED
      BY <3>1, <3>2
  <2> QED
    BY <1>1, <2>1
<1>4. ASSUME NEW m \in DOMAIN Start
      PROVE  exeStart = Start[m] /\ Start[m] \in Word
  <2>1. DOMAIN Start = {m}
    BY StartAssumption DEF StartAssumption
  <2>2. Max(DOMAIN Start) \in DOMAIN Start
    <3>1. m \in Int /\ m >= m
      BY StartAssumption DEF StartAssumption, Module
    <3>2. \E x \in {m} : \A y \in {m} : x >= y
      BY <3>1
    <3> QED
      BY <2>1, <3>2 DEF Max
  <2>3. exeStart = Start[m]
    BY <1>1, <2>1, <2>2
  <2>4. Start[m] \in Nat /\ Start[m] <= size[m].code /\ m \in Module
    BY <1>1, StartAssumption DEF StartAssumption
  <2>5. size[m].code \in Word
    BY <1>1, <1>2, <2>4
  <2>6. ASSUME NEW x \in Nat, NEW y \in Word, x <= y PROVE x \in Word
    BY <2>6, WordIs
  <2> QED
    BY <2>3, <2>4, <2>5, <2>6
<1>5. exeStart \in Word
  <2>1. CASE DOMAIN Start = {}
    BY <1>1, <2>1, WordIs DEF MaxWord
  <2>2. CASE DOMAIN Start # {}
    BY <1>4, <2>2
  <2> QED
    BY <2>1, <2>2
<1>6. LinkTypeOK
  BY <1>1, <1>2, <1>3, <1>5 DEF LinkTypeOK, Passes
<1>7. \A m \in Module : ~Placed(m)
  BY <1>1 DEF Placed
<1>8. \A s \in Kinds : segLengths[s] = 2
  BY <1>1 DEF Kinds, Seg
<1>9. Parts
  BY <1>7, <1>8 DEF Parts
<1>10. StartMoves
  <2>1. \A m \in DOMAIN Start : m \in Module /\ Start[m] \in Nat
    BY StartAssumption DEF StartAssumption
  <2> QED
    BY <1>4, <1>7, <2>1 DEF StartMoves
<1> QED
  BY <1>6, <1>9, <1>10 DEF PlacesInv

(* Pass2 places no module.                                                 *)
LEMMA Pass2KeepsPlaces ==
    ASSUME PlacesInv, Pass2, UNCHANGED pass34
    PROVE  PlacesInv'
<1>1. /\ pass \in {"pass2", "pass2_again"}
      /\ pass' \in {"pass2", "pass2_again", "resolved", "unresolved"}
  BY DEF Pass2, MatchName, P2_EXTDEF, NextModule, P2_Resolve, EndPass2, Scanning, Fail
<1>2. \A m : ~Placed(m) /\ ~Placed(m)'
  BY <1>1 DEF Placed
<1>3. pass \notin {"unresolved", "fatal"} /\ pass' \in Passes
  BY <1>1 DEF Passes
<1>4. UNCHANGED <<size, origin, segLengths, exeStart>>
  BY DEF pass34
<1> QED
  BY <1>2, <1>3, <1>4, PlacesStay

(* Segments are made longer when all modules are in their places.          *)
LEMMA EndPass3Keeps ==
    ASSUME PlacesInv, Pass2TypeOK, EndPass3
    PROVE  PlacesInv'
<1>1. /\ pass = "pass3" /\ at > N /\ LinkTypeOK /\ Parts /\ StartMoves
  BY DEF EndPass3, PlacesInv
<1>2. CASE Fatal
  <2>1. pass' = "fatal" /\ UNCHANGED <<size, origin, segLengths, exeStart>>
    BY <1>2 DEF Fatal, pass34
  <2> QED
    BY <2>1, PlacesStay DEF Placed, Passes
<1>3. CASE ~Fatal
  <2>1. /\ segLengths' = Aligned(segLengths, 16) /\ pass' = "pass4"
        /\ included' = included /\ UNCHANGED <<size, origin, exeStart>>
    BY <1>3 DEF EndPass3
  <2>2. segLengths' \in [Seg -> Word] /\ \A s \in Seg : segLengths'[s] >= segLengths[s]
    BY <1>1, <2>1, AlignedIs DEF LinkTypeOK
  <2>3. \A m \in Module : Placed(m)' <=> Placed(m)
    <3>1. TAKE m \in Module
    <3>2. m < at
      BY <1>1, ModulesAssumption DEF Module, ModulesAssumption, Pass2TypeOK
    <3> QED
      BY <1>1, <2>1, <3>2 DEF Placed
  <2>4. LinkTypeOK'
    BY <1>1, <2>1, <2>2 DEF LinkTypeOK, Passes
  <2>5. ASSUME NEW s \in Kinds
        PROVE  segLengths'[s] >= 2 /\ \A x \in Int : x <= segLengths[s] => x <= segLengths'[s]
    <3>1. s \in Seg /\ segLengths[s] \in Int /\ segLengths'[s] \in Int /\ segLengths[s] >= 2
      BY <1>1, <2>2, WordIs DEF Kinds, Seg, LinkTypeOK, Parts
    <3> QED
      BY <2>2, <3>1
  <2>6. \A m \in Module, s \in Kinds : origin[m][s] + size[m][s] \in Int
    BY <1>1, PlacesAre, WordIs
  <2>7. Parts'
    <3>1. ASSUME NEW m \in Module, Placed(m)', NEW s \in Kinds
          PROVE  origin[m][s] >= 2 /\ origin[m][s] + size[m][s] <= segLengths'[s]
      BY <1>1, <2>3, <2>5, <2>6, <3>1 DEF Parts
    <3> QED
      BY <1>1, <2>1, <2>3, <2>5, <3>1 DEF Parts
  <2>8. StartMoves'
    <3>1. ASSUME NEW m \in DOMAIN Start
          PROVE  exeStart = Start[m] + (IF Placed(m)' THEN origin[m].code ELSE 0)
      BY <1>1, <2>3, StartAssumption DEF StartMoves, StartAssumption
    <3> QED
      BY <2>1, <3>1 DEF StartMoves
  <2> QED
    BY <2>4, <2>7, <2>8 DEF PlacesInv
<1> QED
  BY <1>2, <1>3

(* Each step after Pass2 keeps the modules where they are.                 *)
LEMMA LaterKeepsPlaces ==
    ASSUME PlacesInv, Pass2TypeOK, Later
    PROVE  PlacesInv'
<1>1. /\ included' = included /\ pass' \in Passes
      /\ pass \notin {"unresolved", "fatal"}
  BY LaterIs DEF Passes
<1>2. at \in Int /\ \A m \in Module : m \in Int
  BY DEF Pass2TypeOK, Module
<1>3. CASE Fatal
  BY <1>1, <1>3, PlacesStay DEF Fatal, pass34, Placed
<1>4. CASE BeginPass3
  <2>1. pass = "resolved" /\ pass' = "pass3" /\ at' = 1
    BY <1>4 DEF BeginPass3
  <2>2. \A m \in Module : ~Placed(m) /\ ~Placed(m)'
    BY <1>1, <2>1 DEF Placed, Module
  <2> QED
    BY <1>1, <1>4, <2>2, PlacesStay DEF BeginPass3, pass34
<1>5. CASE SkipModule
  <2>1. pass' = pass /\ at' = at + 1 /\ at \notin included /\ pass \in {"pass3", "pass4"}
    BY <1>5 DEF SkipModule
  <2>2. \A m \in Module : Placed(m) <=> Placed(m)'
    BY <1>1, <1>2, <2>1 DEF Placed
  <2> QED
    BY <1>1, <1>5, <2>2, PlacesStay DEF SkipModule, pass34
<1>6. CASE TooLong
  BY <1>3, <1>6 DEF TooLong
<1>7. CASE PlaceModule
  BY <1>7, PlaceModuleKeeps
<1>8. CASE EndPass3
  BY <1>8, EndPass3Keeps
<1>9. CASE ~Fatal /\ (P4_EXTDEF \/ P4_FIXUPP \/ WriteExeHeader)
  <2>1. pass = "pass4" /\ pass' \in {"pass4", "linked"}
    BY <1>9 DEF P4_EXTDEF, P4_FIXUPP, WriteExeHeader
  <2>2. UNCHANGED <<size, origin, segLengths, exeStart>>
    BY <1>9 DEF P4_EXTDEF, P4_FIXUPP, WriteExeHeader, pass34
  <2>3. \A m \in Module : Placed(m) <=> Placed(m)'
    BY <1>1, <2>1 DEF Placed
  <2> QED
    BY <1>1, <2>2, <2>3, PlacesStay
<1> QED
  BY <1>3, <1>4, <1>5, <1>6, <1>7, <1>8, <1>9 DEF Later

-----------------------------------------------------------------------------
(* Where a byte of module m's part of segment s is in the image.           *)
Place(m, s, a) == StartInFile(s) + origin[m][s] + a

(* It is in the image, and not a null pointer's.                           *)
LEMMA PlaceIs ==
    ASSUME PlacesInv, NEW m \in Module, Placed(m), NEW s \in Kinds, NEW a \in Nat,
           a + 2 <= size[m][s]
    PROVE  /\ Place(m, s, a) \in Nat /\ Place(m, s, a) <= 2 * MaxWord
           /\ Place(m, s, a) # 0 /\ Place(m, s, a) # segLengths["code"]
           /\ Place(m, s, a) + 2 <= StartInFile(s) + segLengths[s]
           /\ Place(m, s, a) >= StartInFile(s)
<1>1. /\ origin[m][s] \in Word /\ size[m][s] \in Word
      /\ segLengths["code"] \in Word /\ segLengths[s] \in Word
      /\ origin[m][s] >= 2 /\ origin[m][s] + size[m][s] <= segLengths[s]
  BY PlacesAre DEF PlacesInv, LinkTypeOK, Seg, Kinds, Parts
<1>2. StartInFile(s) = IF s = "data" THEN segLengths["code"] ELSE 0
  BY DEF StartInFile
<1>3. ASSUME NEW o \in Word, NEW z \in Word, NEW c \in Word, NEW l \in Word, NEW b \in Word,
             o >= 2, o + z <= l, a + 2 <= z, b = c \/ (b = 0 /\ l = c)
      PROVE  /\ b + o + a \in Nat /\ b + o + a <= 2 * MaxWord /\ b + o + a # 0
             /\ b + o + a # c /\ b + o + a + 2 <= b + l /\ b + o + a >= b
  <2>1. /\ o \in Int /\ z \in Int /\ c \in Int /\ l \in Int /\ b \in Int
        /\ c >= 0 /\ b >= 0 /\ b <= 65535 /\ l <= 65535 /\ MaxWord = 65535
    BY WordIs
  <2> QED
    BY <1>3, <2>1
<1>4. StartInFile(s) = segLengths["code"] \/ (StartInFile(s) = 0 /\ segLengths[s] = segLengths["code"])
  BY <1>2 DEF Kinds
<1>5. StartInFile(s) \in Word
  BY <1>1, <1>4, WordIs
<1> QED
  BY <1>1, <1>3, <1>4, <1>5 DEF Place

(* Two words of modules that are in their places are one word only if they *)
(* are the same word of the same module.                                   *)
LEMMA PlacesApart ==
    ASSUME PlacesInv, NEW m \in Module, NEW n \in Module, Placed(m), Placed(n),
           NEW s \in Kinds, NEW t \in Kinds, NEW a \in Nat, NEW b \in Nat,
           a + 2 <= size[m][s], b + 2 <= size[n][t], Place(m, s, a) = Place(n, t, b)
    PROVE  m = n /\ s = t /\ a = b
<1>1. /\ segLengths["code"] \in Nat
      /\ origin[m][s] \in Nat /\ size[m][s] \in Nat /\ origin[n][t] \in Nat /\ size[n][t] \in Nat
  BY PlacesAre, WordIs DEF PlacesInv, Seg
<1>2. s = t
  <2>1. /\ Place(m, s, a) \in Nat /\ Place(n, t, b) \in Nat
        /\ Place(m, s, a) + 2 <= StartInFile(s) + segLengths[s]
        /\ Place(n, t, b) + 2 <= StartInFile(t) + segLengths[t]
        /\ Place(m, s, a) >= StartInFile(s) /\ Place(n, t, b) >= StartInFile(t)
    BY PlaceIs
  <2>2. StartInFile("code") = 0 /\ StartInFile("data") = segLengths["code"]
    BY DEF StartInFile
  <2>3. CASE s = "code" /\ t = "data"
    BY <1>1, <2>1, <2>2, <2>3
  <2>4. CASE s = "data" /\ t = "code"
    BY <1>1, <2>1, <2>2, <2>4
  <2> QED
    BY <2>3, <2>4 DEF Kinds
<1>3. origin[m][s] + a = origin[n][s] + b
  <2>1. StartInFile(s) \in Nat
    BY <1>1 DEF StartInFile
  <2> QED
    BY <1>1, <1>2, <2>1 DEF Place
<1>4. /\ m < n => origin[m][s] + size[m][s] <= origin[n][s]
      /\ n < m => origin[n][s] + size[n][s] <= origin[m][s]
  BY DEF PlacesInv, Parts
<1>5. m = n
  <2>1. m \in Int /\ n \in Int
    BY DEF Module
  <2>2. ~(m < n) /\ ~(n < m)
    BY <1>1, <1>2, <1>3, <1>4
  <2> QED
    BY <2>1, <2>2
<1> QED
  BY <1>1, <1>2, <1>3, <1>5

-----------------------------------------------------------------------------
(* Fixups that are for different words are all written, and nothing else.  *)
LEMMA WrittenIs ==
    ASSUME NEW im, NEW F, \A f, g \in F : f.where = g.where => f = g
    PROVE  /\ DOMAIN Written(im, F) = DOMAIN im \cup {f.where : f \in F}
           /\ \A f \in F : Written(im, F)[f.where] = f.what
           /\ \A a \in DOMAIN im : (\A f \in F : f.where # a) => Written(im, F)[a] = im[a]
<1> DEFINE upon(a) == {f \in F : f.where = a}
           D == DOMAIN im \cup {f.where : f \in F}
           W == [a \in D |-> IF upon(a) = {} THEN im[a] ELSE (CHOOSE f \in upon(a) : TRUE).what]
<1>1. Written(im, F) = W
  BY DEF Written
<1>2. ASSUME NEW f \in F
      PROVE  W[f.where] = f.what
  <2>1. upon(f.where) = {f}
    OBVIOUS
  <2>2. (CHOOSE g \in upon(f.where) : TRUE) = f
    BY <2>1
  <2>3. f.where \in D /\ upon(f.where) # {}
    BY <2>1
  <2> QED
    BY <2>2, <2>3
<1>3. ASSUME NEW a \in DOMAIN im, \A f \in F : f.where # a
      PROVE  W[a] = im[a]
  <2>1. upon(a) = {} /\ a \in D
    BY <1>3
  <2> QED
    BY <2>1
<1>4. DOMAIN W = D
  OBVIOUS
<1> HIDE DEF W
<1> QED
  BY <1>1, <1>2, <1>3, <1>4

-----------------------------------------------------------------------------
(* Where the sites are.                                                    *)
LEMMA SiteIs ==
    ASSUME LinkTypeOK, NEW s \in Sites
    PROVE  /\ s.mod \in Module /\ s.at \in Nat /\ s.ext \in Nat \ {0} /\ s.near \in BOOLEAN
           /\ s.at + 2 <= size[s.mod]["code"] /\ "code" \in Kinds
           /\ \A t \in Sites : t.mod = s.mod /\ t.at = s.at => t = s
<1>1. /\ s.mod \in Module /\ s.at \in Nat /\ s.ext \in Nat \ {0} /\ s.near \in BOOLEAN
      /\ s.at + 2 <= size[s.mod]["code"] /\ "code" \in Kinds
  BY SitesAssumption DEF SitesAssumption, LinkTypeOK, Kinds
<1>2. ASSUME NEW t \in Sites, t.mod = s.mod, t.at = s.at
      PROVE  t = s
  <2>1. t.at - s.at \in -1 .. 1
    BY <1>1, <1>2
  <2> QED
    BY <1>2, <2>1, SitesAssumption DEF SitesAssumption
<1> QED
  BY <1>1, <1>2

(* Where the references to places in segments are, and to what.            *)
LEMMA SegSiteIs ==
    ASSUME LinkTypeOK, NEW s \in SegSites
    PROVE  /\ s.mod \in Module /\ s.at \in Nat /\ s.off \in Nat /\ s.in \in Kinds
           /\ s.kind \in {"near", "offset", "base"} /\ LocSegs[s.mod][s.to] \in Seg
           /\ s.at + 2 <= size[s.mod][s.in]
           /\ s.kind # "offset" => s.in = "code"
           /\ s.kind = "near" => LocSegs[s.mod][s.to] = "code"
           /\ LocSegs[s.mod][s.to] # "stack" => s.off <= size[s.mod][LocSegs[s.mod][s.to]]
           /\ \A t \in Sites : ~(t.mod = s.mod /\ s.in = "code" /\ t.at = s.at)
           /\ \A t \in SegSites : t.mod = s.mod /\ t.in = s.in /\ t.at = s.at => t = s
<1>1. /\ s.mod \in Module /\ s.at \in Nat /\ s.off \in Nat /\ s.in \in Kinds
      /\ s.kind \in {"near", "offset", "base"} /\ LocSegs[s.mod][s.to] \in Seg
      /\ s.at + 2 <= size[s.mod][s.in]
      /\ s.kind # "offset" => s.in = "code"
      /\ s.kind = "near" => LocSegs[s.mod][s.to] = "code"
      /\ LocSegs[s.mod][s.to] # "stack" => s.off <= size[s.mod][LocSegs[s.mod][s.to]]
  <2>1. size \in Sizes
    BY DEF LinkTypeOK
  <2> QED
    BY <2>1, SegSitesAssumption DEF SegSitesAssumption, Kinds
<1>2. \A x, y \in Nat : x = y => x - y \in -1 .. 1
  OBVIOUS
<1>3. ASSUME NEW t \in Sites, t.mod = s.mod, s.in = "code", t.at = s.at
      PROVE  FALSE
  <2>1. t.at - s.at \in -1 .. 1
    BY <1>1, <1>2, <1>3
  <2> QED
    BY <1>3, <2>1, SegSitesAssumption DEF SegSitesAssumption
<1>4. ASSUME NEW t \in SegSites, t.mod = s.mod, t.in = s.in, t.at = s.at
      PROVE  t = s
  <2>1. t.at - s.at \in -1 .. 1
    BY <1>1, <1>2, <1>4
  <2> QED
    BY <1>4, <2>1, SegSitesAssumption DEF SegSitesAssumption
<1> QED
  BY <1>1, <1>3, <1>4

(* What P4_FixSeg writes, and where.                                       *)
LEMMA FixSegIs ==
    ASSUME LinkTypeOK, NEW s \in SegSites
    PROVE  /\ P4_FixSeg(s).where = Place(s.mod, s.in, s.at)
           /\ s.kind = "near" => P4_FixSeg(s).what = (s.off - s.at - 2) % (MaxWord + 1)
           /\ s.kind = "base" => P4_FixSeg(s).what = Paragraph(LocSegs[s.mod][s.to]) % (MaxWord + 1)
           /\ s.kind = "offset" /\ LocSegs[s.mod][s.to] # "stack" =>
                P4_FixSeg(s).what = (origin[s.mod][LocSegs[s.mod][s.to]] + s.off) % (MaxWord + 1)
<1> DEFINE to == LocSegs[s.mod][s.to]
<1>1. /\ s.mod \in Module /\ s.at \in Nat /\ s.off \in Nat /\ s.in \in Kinds /\ to \in Seg
      /\ s.kind \in {"near", "offset", "base"} /\ (s.kind # "offset" => s.in = "code")
  BY SegSiteIs
<1>2. /\ segLengths["code"] \in Nat /\ segLengths["data"] \in Nat
      /\ origin[s.mod]["code"] \in Nat /\ origin[s.mod]["data"] \in Nat
      /\ CodeBase(s.mod) = origin[s.mod]["code"]
      /\ DataBase(s.mod) = segLengths["code"] + origin[s.mod]["data"]
  BY <1>1, PlacesAre, WordIs DEF Kinds, Seg, CodeBase, DataBase
<1>3. /\ Place(s.mod, "code", s.at) = CodeBase(s.mod) + s.at
      /\ Place(s.mod, "data", s.at) = DataBase(s.mod) + s.at
  BY <1>1, <1>2 DEF Place, StartInFile
<1>4. ASSUME NEW where, NEW what \in Int
      PROVE  /\ DoFixupp(where, what, FALSE).where = where
             /\ DoFixupp(where, what, FALSE).what = what % (MaxWord + 1)
  BY DEF DoFixupp
<1>5. CASE s.kind = "near"
  <2>1. P4_FixSeg(s) = DoFixupp(CodeBase(s.mod) + s.at, s.off - s.at - 2, FALSE)
    BY <1>5 DEF P4_FixSeg
  <2> DEFINE h == s.off - s.at - 2
             w == CodeBase(s.mod) + s.at
  <2>2. h \in Int /\ P4_FixSeg(s) = DoFixupp(w, h, FALSE)
    BY <1>1, <2>1
  <2> HIDE DEF h, w
  <2>3. P4_FixSeg(s).where = w /\ P4_FixSeg(s).what = h % (MaxWord + 1)
    BY <1>4, <2>2
  <2>4. P4_FixSeg(s).where = Place(s.mod, s.in, s.at)
    BY <1>1, <1>3, <1>5, <2>3 DEF w
  <2> QED
    BY <1>5, <2>3, <2>4 DEF h
<1>6. CASE s.kind = "base"
  <2>1. P4_FixSeg(s) = DoFixupp(CodeBase(s.mod) + s.at, Paragraph(to), FALSE)
    BY <1>6 DEF P4_FixSeg
  <2>2. Paragraph(to) \in Int
    BY <1>1, <1>2 DEF Paragraph, Seg, MaxWord
  <2> DEFINE h == Paragraph(to)
             w == CodeBase(s.mod) + s.at
  <2>3. h \in Int /\ P4_FixSeg(s) = DoFixupp(w, h, FALSE)
    BY <2>1, <2>2
  <2> HIDE DEF h, w
  <2>4. P4_FixSeg(s).where = w /\ P4_FixSeg(s).what = h % (MaxWord + 1)
    BY <1>4, <2>3
  <2>5. P4_FixSeg(s).where = Place(s.mod, s.in, s.at)
    BY <1>1, <1>3, <1>6, <2>4 DEF w
  <2> QED
    BY <1>6, <2>4, <2>5 DEF h
<1>7. CASE s.kind = "offset"
  <2>1. P4_FixSeg(s) = DoFixupp((IF s.in = "data" THEN DataBase(s.mod) ELSE CodeBase(s.mod)) + s.at,
                                origin[s.mod][to] + s.off, FALSE)
    BY <1>7 DEF P4_FixSeg
  <2>2. P4_FixSeg(s).where = Place(s.mod, s.in, s.at)
    BY <1>1, <1>3, <2>1 DEF DoFixupp, Kinds
  <2>3. to # "stack" => origin[s.mod][to] + s.off \in Int
    BY <1>1, <1>2 DEF Seg
  <2>4. to # "stack" => P4_FixSeg(s).what = (origin[s.mod][to] + s.off) % (MaxWord + 1)
    <3> DEFINE h == origin[s.mod][to] + s.off
               w == (IF s.in = "data" THEN DataBase(s.mod) ELSE CodeBase(s.mod)) + s.at
    <3>1. P4_FixSeg(s) = DoFixupp(w, h, FALSE) /\ (to # "stack" => h \in Int)
      BY <2>1, <2>3
    <3> HIDE DEF h, w
    <3>2. to # "stack" => P4_FixSeg(s).what = h % (MaxWord + 1)
      <4>1. h \in Int => DoFixupp(w, h, FALSE).what = h % (MaxWord + 1)
        BY <1>4
      <4> QED
        BY <3>1, <4>1
    <3> QED
      BY <3>2 DEF h
  <2> QED
    BY <1>7, <2>2, <2>4
<1> QED
  BY <1>1, <1>5, <1>6, <1>7

-----------------------------------------------------------------------------
(* Pass4 has copied module m into the image and fixed it up.               *)
Done(m) == m \in included /\ (pass = "linked" \/ (pass = "pass4" /\ m < at))

(* The word of a site is what P4_FixExt makes of the definition of its     *)
(* EXTDEF.                                                                 *)
Name4(s) == extdefs[s.mod][s.ext]
ExtWord(s) ==
    LET p == Pub[Definer(Name4(s))]
    IN  DoFixupp(Place(s.mod, "code", s.at), origin[p.mod][p.seg] + p.addr, s.near).what

ExtDone(s) ==
    /\ Defined(Name4(s)) /\ Home(Name4(s)) \in included
    /\ s.near => Pub[Definer(Name4(s))].seg = "code"
    /\ Place(s.mod, "code", s.at) \in DOMAIN image
    /\ image[Place(s.mod, "code", s.at)] = ExtWord(s)

(* That of a reference to a place in a segment what P4_FixSeg makes of it. *)
SegDone(s) ==
    /\ ~Refused(s)
    /\ Place(s.mod, s.in, s.at) \in DOMAIN image
    /\ image[Place(s.mod, s.in, s.at)] = P4_FixSeg(s).what

WordsDone ==
    \A m \in Module : Done(m) =>
        (\A s \in SitesOf(m) : ExtDone(s)) /\ (\A s \in SegSitesOf(m) : SegDone(s))

NullsAreNull ==
    /\ 0 \in DOMAIN image /\ image[0] = 0
    /\ segLengths["code"] \in DOMAIN image /\ image[segLengths["code"]] = 0

BasesDone == {s \in SegSites : s.kind = "base" /\ Done(s.mod)}

(* In the buffer are the EXTDEFs of the module that Pass4 is at.           *)
NamesLaid ==
    \E xs, off :
        /\ Laid(buf, next, off, xs) /\ k = Len(xs) + 1
        /\ IF at \in included
           THEN Len(xs) <= Len(extdefs[at]) /\ \A i \in 1 .. Len(xs) : xs[i] = extdefs[at][i]
           ELSE Len(xs) = 0

ImageTypeOK == \A a \in DOMAIN image : a \in 0 .. 2 * MaxWord /\ image[a] \in Word

Pass4Inv ==
    /\ ImageTypeOK
    /\ pass \in {"pass2", "pass2_again", "resolved", "pass3"} => relocData = {}
    /\ pass \in {"pass4", "linked"} =>
          /\ NullsAreNull /\ WordsDone
          /\ relocData = {Place(s.mod, "code", s.at) : s \in BasesDone}
    /\ pass = "pass4" => NamesLaid

-----------------------------------------------------------------------------
(* The name that a site refers to is the one in the buffer.                *)
LEMMA TargetIs ==
    ASSUME Pass2TypeOK, LinkTypeOK, at \in included, NEW xs, NEW off, Laid(buf, next, off, xs),
           Len(xs) = Len(extdefs[at]), \A i \in 1 .. Len(xs) : xs[i] = extdefs[at][i],
           NEW s \in SitesOf(at), Fixable(s, buf), NEW x, x = extdefs[s.mod][s.ext]
    PROVE  /\ x \in Name /\ Defined(x) /\ Home(x) \in included
           /\ Target(s, buf) = Definer(x) /\ (s.near => Pub[Definer(x)].seg = "code")
<1>1. /\ s \in Sites /\ s.mod = at /\ s.ext \in Nat \ {0} /\ s.ext <= Len(xs) /\ Len(xs) \in Nat
  BY SiteIs DEF SitesOf, Laid
<1>2. s.ext \in 1 .. Len(xs) /\ s.ext - 1 \in 0 .. Len(xs) - 1 /\ (s.ext - 1) + 1 = s.ext
  BY <1>1
<1>3. GetName(buf, s.ext - 1) = x /\ x \in Name
  <2> DEFINE i == s.ext - 1
  <2>1. i \in 0 .. Len(xs) - 1 /\ xs[i + 1] = x /\ xs[i + 1] \in Name
    BY <1>1, <1>2, ElementOfSeq DEF Laid
  <2> HIDE DEF i
  <2>2. GetName(buf, i) = xs[i + 1]
    BY <2>1, GetNameGets
  <2> QED
    BY <2>1, <2>2 DEF i
<1>4. Target(s, buf) = FindPubDef(x, FALSE) /\ Target(s, buf) > 0
      /\ (s.near => Pub[Target(s, buf)].seg = "code")
  BY <1>3 DEF Target, Fixable
<1>5. Target(s, buf) # NOT_DEFINED /\ Target(s, buf) # NOT_INCLUDED
  <2>1. ~(-1 > 0) /\ ~(-2 > 0)
    OBVIOUS
  <2> QED
    BY <1>4, <2>1, Zenon DEF NOT_DEFINED, NOT_INCLUDED
<1> QED
  BY <1>3, <1>4, <1>5, FindPubDefFinds

(* What P4_FixExt writes, and where.                                       *)
LEMMA FixExtIs ==
    ASSUME LinkTypeOK, NEW s \in Sites, NEW x, Target(s, buf) = Definer(x), NEW p, p = Pub[Definer(x)],
           NEW a, a = Place(s.mod, "code", s.at)
    PROVE  /\ P4_FixExt(s, buf) = DoFixupp(a, origin[p.mod][p.seg] + p.addr, s.near)
           /\ P4_FixExt(s, buf).where = a
<1>1. /\ s.mod \in Module /\ s.at \in Nat
  BY SiteIs
<1>2. origin[s.mod]["code"] \in Nat
  BY <1>1, PlacesAre, WordIs DEF Kinds
<1>3. CodeBase(s.mod) + s.at = a
  BY <1>1, <1>2 DEF CodeBase, Place, StartInFile
<1>4. P4_FixExt(s, buf) = DoFixupp(a, origin[p.mod][p.seg] + p.addr, s.near)
  BY <1>3 DEF P4_FixExt
<1>5. \A h, r : DoFixupp(a, h, r).where = a
  BY DEF DoFixupp
<1> QED
  BY <1>4, <1>5

(* Names and the places they are in.                                       *)
LEMMA PubIs ==
    ASSUME LinkTypeOK, NEW x \in Name, Defined(x), NEW p, p = Pub[Definer(x)]
    PROVE  /\ p.mod = Home(x) /\ p.mod \in Module /\ p.seg \in Kinds /\ p.addr \in Nat
           /\ p.addr <= size[p.mod][p.seg] /\ origin[p.mod][p.seg] \in Nat
<1>1. Definer(x) \in DOMAIN Pub
  BY DefinerIs
<1>2. p.mod = Home(x) /\ p.mod \in Module
  BY <1>1, PublicAssumption DEF Home, PublicAssumption
<1>3. p.seg \in Kinds /\ p.addr \in Nat /\ p.addr <= size[p.mod][p.seg]
  BY <1>1, PlacesAssumption DEF PlacesAssumption, Kinds, LinkTypeOK
<1> QED
  BY <1>2, <1>3, PlacesAre, WordIs

(* P4_DoFixupp makes a word.                                               *)
LEMMA DoFixuppIs ==
    ASSUME NEW a \in Int, NEW h \in Int, NEW r \in BOOLEAN
    PROVE  /\ DoFixupp(a, h, r).where = a /\ DoFixupp(a, h, r).what \in Word
           /\ r = FALSE => DoFixupp(a, h, r).what = h % (MaxWord + 1)
           /\ r = TRUE => DoFixupp(a, h, r).what = (h - (a + 2)) % (MaxWord + 1)
<1>1. DoFixupp(a, h, r).where = a
  BY DEF DoFixupp
<1>2. DoFixupp(a, h, FALSE).what = h % (MaxWord + 1)
  BY DEF DoFixupp
<1>3. DoFixupp(a, h, TRUE).what = (h - (a + 2)) % (MaxWord + 1)
  BY DEF DoFixupp
<1>4. h % (MaxWord + 1) \in Word /\ (h - (a + 2)) % (MaxWord + 1) \in Word
  BY WordOf
<1>5. CASE r = TRUE
  BY <1>1, <1>3, <1>4, <1>5
<1>6. CASE r = FALSE
  BY <1>1, <1>2, <1>4, <1>6
<1> QED
  BY <1>5, <1>6

(* P4_FixSeg too.                                                          *)
LEMMA FixSegWord ==
    ASSUME LinkTypeOK, NEW s \in SegSites, ~Refused(s)
    PROVE  P4_FixSeg(s).what \in Word
<1> DEFINE to == LocSegs[s.mod][s.to]
<1>1. /\ s.mod \in Module /\ s.at \in Nat /\ s.off \in Nat /\ to \in Seg
      /\ s.kind \in {"near", "offset", "base"}
  BY SegSiteIs
<1>2. s.off - s.at - 2 \in Int
  BY <1>1
<1>3. Paragraph(to) \in Int
  <2>1. segLengths["code"] \in Nat /\ segLengths["data"] \in Nat
    BY PlacesAre, WordIs DEF Seg
  <2> QED
    BY <1>1, <2>1 DEF Paragraph, Seg, MaxWord
<1>4. s.kind = "offset" => to # "stack" /\ origin[s.mod][to] + s.off \in Int
  <2>1. s.kind = "offset" => to # "stack"
    BY DEF Refused
  <2>2. to # "stack" => origin[s.mod][to] \in Nat
    BY <1>1, PlacesAre, WordIs DEF Kinds, Seg
  <2> QED
    BY <1>1, <2>1, <2>2
<1>5. CASE s.kind = "near"
  BY <1>2, <1>5, FixSegIs, WordOf
<1>6. CASE s.kind = "base"
  BY <1>3, <1>6, FixSegIs, WordOf
<1>7. CASE s.kind = "offset"
  BY <1>4, <1>7, FixSegIs, WordOf
<1> QED
  BY <1>1, <1>5, <1>6, <1>7

(* Pass4 has the names of the module in the buffer, and can fix it up.     *)
CanFix(xs, off) ==
    /\ Pass2TypeOK /\ PlacesInv /\ pass = "pass4" /\ at \in included
    /\ Laid(buf, next, off, xs) /\ Len(xs) = Len(extdefs[at])
    /\ \A i \in 1 .. Len(xs) : xs[i] = extdefs[at][i]
    /\ \A s \in SitesOf(at) : Fixable(s, buf)
    /\ \A s \in SegSitesOf(at) : ~Refused(s)

(* Each site has a fixup of its own, for its own word.                     *)
LEMMA ExtFixupIs ==
    ASSUME NEW xs, NEW off, CanFix(xs, off), NEW s \in SitesOf(at),
           NEW x, x = extdefs[s.mod][s.ext], NEW p, p = Pub[Definer(x)]
    PROVE  /\ s \in Sites /\ s.mod = at /\ x \in Name /\ Defined(x) /\ Home(x) \in included
           /\ s.near => p.seg = "code"
           /\ P4_FixExt(s, buf) =
                DoFixupp(Place(at, "code", s.at), origin[p.mod][p.seg] + p.addr, s.near)
           /\ P4_FixExt(s, buf).where = Place(at, "code", s.at)
           /\ P4_FixExt(s, buf).what \in Word
<1>1. s \in Sites /\ s.mod = at /\ LinkTypeOK
  BY DEF SitesOf, CanFix, PlacesInv
<1>2. /\ x \in Name /\ Defined(x) /\ Home(x) \in included
      /\ Target(s, buf) = Definer(x) /\ (s.near => p.seg = "code")
  <2>1. /\ Pass2TypeOK /\ at \in included /\ Laid(buf, next, off, xs) /\ Len(xs) = Len(extdefs[at])
        /\ \A i \in 1 .. Len(xs) : xs[i] = extdefs[at][i]
        /\ Fixable(s, buf)
    BY DEF CanFix
  <2> QED
    BY <1>1, <2>1, TargetIs
<1>3. /\ P4_FixExt(s, buf) =
            DoFixupp(Place(at, "code", s.at), origin[p.mod][p.seg] + p.addr, s.near)
      /\ P4_FixExt(s, buf).where = Place(at, "code", s.at)
  BY <1>1, <1>2, FixExtIs
<1>4. P4_FixExt(s, buf).what \in Word
  <2>1. origin[p.mod][p.seg] \in Nat /\ p.addr \in Nat
    BY <1>1, <1>2, PubIs
  <2>2. s.at \in Nat /\ s.near \in BOOLEAN /\ origin[at]["code"] \in Nat
    BY <1>1, SiteIs, PlacesAre, WordIs DEF Kinds
  <2>3. Place(at, "code", s.at) \in Int
    BY <2>2 DEF Place, StartInFile
  <2> DEFINE h == origin[p.mod][p.seg] + p.addr
  <2>4. h \in Int
    <3>1. \A y, z \in Nat : y + z \in Int
      OBVIOUS
    <3> QED
      BY <2>1, <3>1, Zenon
  <2> HIDE DEF h
  <2>5. DoFixupp(Place(at, "code", s.at), h, s.near).what \in Word
    BY <2>2, <2>3, <2>4, DoFixuppIs
  <2> QED
    BY <1>3, <2>5 DEF h
<1> QED
  BY <1>1, <1>2, <1>3, <1>4

(* So has each reference to a place in a segment.                          *)
LEMMA SegFixupIs ==
    ASSUME NEW xs, NEW off, CanFix(xs, off), NEW s \in SegSitesOf(at)
    PROVE  /\ s \in SegSites /\ s.mod = at /\ s.in \in Kinds /\ ~Refused(s)
           /\ P4_FixSeg(s).where = Place(at, s.in, s.at)
           /\ P4_FixSeg(s).what \in Word
<1>1. s \in SegSites /\ s.mod = at /\ LinkTypeOK /\ ~Refused(s)
  BY DEF SegSitesOf, CanFix, PlacesInv
<1> QED
  BY <1>1, SegSiteIs, FixSegIs, FixSegWord

(* The fixups of a module are for words of that module, and no two of them *)
(* for the same.                                                           *)
LEMMA FixupsAre ==
    ASSUME NEW xs, NEW off, CanFix(xs, off)
    PROVE  /\ \A f \in Fixups(at) : f.what \in Word /\
                 \E t \in Kinds, a \in Nat : a + 2 <= size[at][t] /\ f.where = Place(at, t, a)
           /\ \A f, g \in Fixups(at) : f.where = g.where => f = g
<1>1. PlacesInv /\ LinkTypeOK /\ at \in Module /\ Placed(at)
  BY DEF CanFix, PlacesInv, Pass2TypeOK, Placed
<1>2. ASSUME NEW s \in SitesOf(at)
      PROVE  /\ s \in Sites /\ s.mod = at /\ s.at \in Nat /\ s.at + 2 <= size[at]["code"]
             /\ P4_FixExt(s, buf).what \in Word
             /\ P4_FixExt(s, buf).where = Place(at, "code", s.at)
  BY <1>1, ExtFixupIs, SiteIs
<1>3. ASSUME NEW s \in SegSitesOf(at)
      PROVE  /\ s \in SegSites /\ s.mod = at /\ s.at \in Nat /\ s.in \in Kinds
             /\ s.at + 2 <= size[at][s.in]
             /\ P4_FixSeg(s).what \in Word
             /\ P4_FixSeg(s).where = Place(at, s.in, s.at)
  BY <1>1, SegFixupIs, SegSiteIs
<1>4. ASSUME NEW f \in Fixups(at)
      PROVE  f.what \in Word /\
             \E t \in Kinds, a \in Nat : a + 2 <= size[at][t] /\ f.where = Place(at, t, a)
  <2>1. CASE \E s \in SitesOf(at) : f = P4_FixExt(s, buf)
    BY <1>2, <2>1 DEF Kinds
  <2>2. CASE \E s \in SegSitesOf(at) : f = P4_FixSeg(s)
    BY <1>3, <2>2
  <2> QED
    BY <2>1, <2>2 DEF Fixups
<1>5. ASSUME NEW s \in Kinds, NEW t \in Kinds, NEW a \in Nat, NEW b \in Nat,
             a + 2 <= size[at][s], b + 2 <= size[at][t], Place(at, s, a) = Place(at, t, b)
      PROVE  s = t /\ a = b
  BY <1>1, <1>5, PlacesApart
<1>6. ASSUME NEW s \in SitesOf(at), NEW t \in SitesOf(at),
             P4_FixExt(s, buf).where = P4_FixExt(t, buf).where
      PROVE  s = t
  <2>1. s.at = t.at
    BY <1>2, <1>5, <1>6 DEF Kinds
  <2> QED
    BY <1>1, <1>2, <2>1, SiteIs
<1>7. ASSUME NEW s \in SegSitesOf(at), NEW t \in SegSitesOf(at),
             P4_FixSeg(s).where = P4_FixSeg(t).where
      PROVE  s = t
  <2>1. s.at = t.at /\ s.in = t.in
    BY <1>3, <1>5, <1>7
  <2> QED
    BY <1>1, <1>3, <2>1, SegSiteIs
<1>8. ASSUME NEW s \in SitesOf(at), NEW t \in SegSitesOf(at),
             P4_FixExt(s, buf).where = P4_FixSeg(t).where
      PROVE  FALSE
  <2>1. s.at = t.at /\ t.in = "code"
    BY <1>2, <1>3, <1>5, <1>8 DEF Kinds
  <2> QED
    BY <1>1, <1>2, <1>3, <2>1, SegSiteIs
<1>9. ASSUME NEW f \in Fixups(at), NEW g \in Fixups(at), f.where = g.where
      PROVE  f = g
  BY <1>6, <1>7, <1>8, <1>9 DEF Fixups
<1> QED
  BY <1>4, <1>9

-----------------------------------------------------------------------------
(* A word that was written stays as it is while its module and the modules *)
(* it refers to are where they are.                                        *)
LEMMA ExtDoneStays ==
    ASSUME NEW s, ExtDone(s), UNCHANGED <<program, included, origin, segLengths>>,
           Place(s.mod, "code", s.at) \in DOMAIN image',
           image'[Place(s.mod, "code", s.at)] = image[Place(s.mod, "code", s.at)]
    PROVE  ExtDone(s)'
<1>1. Name4(s)' = Name4(s) /\ Place(s.mod, "code", s.at)' = Place(s.mod, "code", s.at)
  BY DEF program, Name4, Place, StartInFile
<1>2. ExtWord(s)' = ExtWord(s)
  BY <1>1 DEF ExtWord, Definer
<1> QED
  BY <1>1, <1>2 DEF ExtDone, Defined, Home, Definer

(* And one for a place in a segment, while the segments are where they are.*)
LEMMA SegDoneStays ==
    ASSUME NEW s, SegDone(s), UNCHANGED <<origin, segLengths>>,
           Place(s.mod, s.in, s.at) \in DOMAIN image',
           image'[Place(s.mod, s.in, s.at)] = image[Place(s.mod, s.in, s.at)]
    PROVE  SegDone(s)'
<1>1. Place(s.mod, s.in, s.at)' = Place(s.mod, s.in, s.at)
  BY DEF Place, StartInFile
<1>2. P4_FixSeg(s)' = P4_FixSeg(s) /\ (Refused(s)' <=> Refused(s))
  BY DEF P4_FixSeg, CodeBase, DataBase, Paragraph, Refused
<1> QED
  BY <1>1, <1>2 DEF SegDone

(* P4_FIXUPP, when it can fix up its module.                               *)
LEMMA FixKeeps ==
    ASSUME Pass4Inv, NEW xs, NEW off, CanFix(xs, off),
           image' = Written(image, Fixups(at)),
           relocData' = relocData \cup {CodeBase(at) + s.at : s \in Bases(at)},
           at' = at + 1, k' = 1, next' = 0, extCount' = 0,
           UNCHANGED <<program, included, buf, try, pass, size, origin, segLengths, exeStart>>
    PROVE  Pass4Inv'
<1>1. /\ Pass2TypeOK /\ PlacesInv /\ LinkTypeOK /\ pass = "pass4"
      /\ at \in Module /\ at \in included /\ at \in Int /\ Placed(at)
  BY DEF CanFix, PlacesInv, Pass2TypeOK, Placed, Module
<1>2. /\ ImageTypeOK /\ NullsAreNull /\ WordsDone
      /\ relocData = {Place(s.mod, "code", s.at) : s \in BasesDone}
  BY <1>1 DEF Pass4Inv
<1>3. /\ DOMAIN image' = DOMAIN image \cup {f.where : f \in Fixups(at)}
      /\ \A f \in Fixups(at) : image'[f.where] = f.what
      /\ \A a \in DOMAIN image : (\A f \in Fixups(at) : f.where # a) => image'[a] = image[a]
  <2> DEFINE F == Fixups(at)
  <2>1. \A f, g \in F : f.where = g.where => f = g
    BY FixupsAre
  <2>2. image' = Written(image, F)
    OBVIOUS
  <2> HIDE DEF F
  <2>3. /\ DOMAIN Written(image, F) = DOMAIN image \cup {f.where : f \in F}
        /\ \A f \in F : Written(image, F)[f.where] = f.what
        /\ \A a \in DOMAIN image :
              (\A f \in F : f.where # a) => Written(image, F)[a] = image[a]
    BY <2>1, WrittenIs
  <2> QED
    BY <2>2, <2>3 DEF F
<1>4. ASSUME NEW f \in Fixups(at)
      PROVE  /\ f.what \in Word /\ f.where \in Nat /\ f.where <= 2 * MaxWord
             /\ f.where # 0 /\ f.where # segLengths["code"]
             /\ \E t \in Kinds, a \in Nat : a + 2 <= size[at][t] /\ f.where = Place(at, t, a)
  <2>1. PICK t \in Kinds, a \in Nat : a + 2 <= size[at][t] /\ f.where = Place(at, t, a)
    BY FixupsAre
  <2>2. f.what \in Word
    BY FixupsAre
  <2> QED
    BY <1>1, <2>1, <2>2, PlaceIs
<1>5. ASSUME NEW m \in Module, Done(m), NEW t \in Kinds, NEW a \in Nat, a + 2 <= size[m][t],
             Place(m, t, a) \in DOMAIN image
      PROVE  Place(m, t, a) \in DOMAIN image' /\ image'[Place(m, t, a)] = image[Place(m, t, a)]
  <2>1. Placed(m) /\ m # at
    <3>1. m \in Int
      BY DEF Module
    <3> QED
      BY <1>1, <1>5, <3>1 DEF Done, Placed
  <2>2. ASSUME NEW f \in Fixups(at)
        PROVE  f.where # Place(m, t, a)
    <3>1. PICK u \in Kinds, b \in Nat : b + 2 <= size[at][u] /\ f.where = Place(at, u, b)
      BY <1>4
    <3> QED
      BY <1>1, <1>5, <2>1, <3>1, PlacesApart
  <2> QED
    BY <1>3, <1>5, <2>2
<1>6. ImageTypeOK'
  <2>1. ASSUME NEW a \in DOMAIN image'
        PROVE  a \in 0 .. 2 * MaxWord /\ image'[a] \in Word
    <3>1. CASE \E f \in Fixups(at) : a = f.where
      <4>1. PICK f \in Fixups(at) : a = f.where
        BY <3>1
      <4>2. image'[a] \in Word
        BY <1>3, <1>4, <4>1
      <4>3. f.where \in 0 .. 2 * MaxWord
        <5>1. 2 * MaxWord \in Nat
          BY DEF MaxWord
        <5> QED
          BY <1>4, <5>1
      <4> QED
        BY <4>1, <4>2, <4>3
    <3>2. CASE ~(\E f \in Fixups(at) : a = f.where)
      <4>1. a \in DOMAIN image /\ image'[a] = image[a]
        BY <1>3, <3>2
      <4> QED
        BY <1>2, <4>1 DEF ImageTypeOK
    <3> QED
      BY <3>1, <3>2
  <2> QED
    BY <2>1 DEF ImageTypeOK
<1>7. NullsAreNull'
  <2>1. 0 \in DOMAIN image /\ segLengths["code"] \in DOMAIN image
    BY <1>2 DEF NullsAreNull
  <2>2. image'[0] = image[0] /\ image'[segLengths["code"]] = image[segLengths["code"]]
    BY <1>3, <1>4, <2>1
  <2> QED
    BY <1>2, <1>3, <2>1, <2>2 DEF NullsAreNull
<1>8. \A m \in Module : Done(m)' <=> Done(m) \/ m = at
  <2>1. TAKE m \in Module
  <2>2. m \in Int
    BY DEF Module
  <2> QED
    BY <1>1, <2>2 DEF Done
<1>9. \A m : SitesOf(m)' = SitesOf(m) /\ SegSitesOf(m)' = SegSitesOf(m)
  BY DEF SitesOf, SegSitesOf, program
<1>10. ASSUME NEW m \in Module, Done(m), NEW s \in SitesOf(m)
       PROVE  ExtDone(s)'
  <2>1. s \in Sites /\ s.mod = m
    BY DEF SitesOf
  <2>2. ExtDone(s)
    BY <1>2, <1>10 DEF WordsDone
  <2>3. s.at \in Nat /\ s.at + 2 <= size[m]["code"] /\ "code" \in Kinds
    BY <1>1, <2>1, SiteIs
  <2>4. Place(m, "code", s.at) \in DOMAIN image
    BY <2>1, <2>2 DEF ExtDone
  <2> QED
    BY <1>5, <1>10, <2>1, <2>2, <2>3, <2>4, ExtDoneStays
<1>11. ASSUME NEW m \in Module, Done(m), NEW s \in SegSitesOf(m)
       PROVE  SegDone(s)'
  <2>1. s \in SegSites /\ s.mod = m
    BY DEF SegSitesOf
  <2>2. SegDone(s)
    BY <1>2, <1>11 DEF WordsDone
  <2>3. s.at \in Nat /\ s.in \in Kinds /\ s.at + 2 <= size[m][s.in]
    BY <1>1, <2>1, SegSiteIs
  <2>4. Place(m, s.in, s.at) \in DOMAIN image
    BY <2>1, <2>2 DEF SegDone
  <2> QED
    BY <1>5, <1>11, <2>1, <2>2, <2>3, <2>4, SegDoneStays
<1>12. ASSUME NEW s \in SitesOf(at)
       PROVE  ExtDone(s)'
  <2>1. PICK x : x = Name4(s)
    OBVIOUS
  <2>2. PICK p : p = Pub[Definer(x)]
    OBVIOUS
  <2>3. /\ s.mod = at /\ Defined(x) /\ Home(x) \in included /\ (s.near => p.seg = "code")
        /\ P4_FixExt(s, buf).what = ExtWord(s)
        /\ P4_FixExt(s, buf).where = Place(at, "code", s.at)
    BY <2>1, <2>2, ExtFixupIs DEF Name4, ExtWord
  <2>4. P4_FixExt(s, buf) \in Fixups(at)
    BY DEF Fixups
  <2>5. /\ Place(at, "code", s.at) \in DOMAIN image'
        /\ image'[Place(at, "code", s.at)] = ExtWord(s)
    BY <1>3, <2>3, <2>4
  <2>6. Name4(s)' = x /\ Place(s.mod, "code", s.at)' = Place(at, "code", s.at)
    BY <2>1, <2>3 DEF program, Name4, Place, StartInFile
  <2>7. ExtWord(s)' = ExtWord(s)
    BY <2>1, <2>3, <2>6 DEF ExtWord, Definer
  <2> QED
    BY <2>2, <2>3, <2>5, <2>6, <2>7 DEF ExtDone, Defined, Home, Definer
<1>13. ASSUME NEW s \in SegSitesOf(at)
       PROVE  SegDone(s)'
  <2>1. s.mod = at /\ ~Refused(s) /\ P4_FixSeg(s).where = Place(s.mod, s.in, s.at)
    BY SegFixupIs
  <2>2. P4_FixSeg(s) \in Fixups(at)
    BY DEF Fixups
  <2>3. P4_FixSeg(s)' = P4_FixSeg(s) /\ (Refused(s)' <=> Refused(s))
    BY DEF P4_FixSeg, CodeBase, DataBase, Paragraph, Refused
  <2>4. Place(s.mod, s.in, s.at)' = Place(s.mod, s.in, s.at)
    BY DEF Place, StartInFile
  <2> QED
    BY <1>3, <2>1, <2>2, <2>3, <2>4 DEF SegDone
<1>14. WordsDone'
  BY <1>8, <1>9, <1>10, <1>11, <1>12, <1>13 DEF WordsDone
<1>15. (relocData = {Place(s.mod, "code", s.at) : s \in BasesDone})'
  <2>1. BasesDone' = BasesDone \cup Bases(at)
    <3>1. \A s \in SegSites : s.mod \in Module
      BY <1>1, SegSiteIs
    <3> QED
      BY <1>8, <3>1 DEF BasesDone, Bases, SegSitesOf
  <2>2. ASSUME NEW s \in Bases(at)
        PROVE  CodeBase(at) + s.at = Place(s.mod, "code", s.at)
    <3>1. s \in SegSites /\ s.mod = at
      BY DEF Bases, SegSitesOf
    <3>2. s.at \in Nat /\ origin[at]["code"] \in Nat
      BY <1>1, <3>1, SegSiteIs, PlacesAre, WordIs DEF Kinds
    <3> QED
      BY <3>1, <3>2 DEF CodeBase, Place, StartInFile
  <2>3. \A s : Place(s.mod, "code", s.at)' = Place(s.mod, "code", s.at)
    BY DEF Place, StartInFile
  <2>4. relocData' = {Place(s.mod, "code", s.at) : s \in BasesDone \cup Bases(at)}
    BY <1>2, <2>2
  <2> QED
    BY <2>1, <2>3, <2>4
<1>16. NamesLaid'
  <2> DEFINE none == [i \in {0} |-> 0]
  <2>1. Laid(buf', next', none, <<>>)
    BY NoneLaid
  <2>2. Len(<<>>) = 0 /\ k' = Len(<<>>) + 1 /\ \A i \in 1 .. Len(<<>>) : FALSE
    OBVIOUS
  <2>3. at' \in included' => Len(extdefs'[at']) \in Nat
    BY <1>1, RefersAre DEF Pass2TypeOK, program
  <2>4. IF at' \in included'
        THEN Len(<<>>) <= Len(extdefs'[at']) /\ \A i \in 1 .. Len(<<>>) : <<>>[i] = extdefs'[at'][i]
        ELSE Len(<<>>) = 0
    BY <2>2, <2>3
  <2> HIDE DEF none
  <2> QED
    BY <2>1, <2>2, <2>4 DEF NamesLaid
<1> QED
  BY <1>1, <1>6, <1>7, <1>14, <1>15, <1>16 DEF Pass4Inv

-----------------------------------------------------------------------------
(* A buffer from which no name was read yet holds none.                    *)
LEMMA NoNames ==
    ASSUME next' = 0, k' = 1, at' \in included' => Len(extdefs'[at']) \in Nat
    PROVE  NamesLaid'
<1> DEFINE none == [i \in {0} |-> 0]
<1>1. Laid(buf', next', none, <<>>)
  BY NoneLaid
<1>2. Len(<<>>) = 0 /\ k' = Len(<<>>) + 1 /\ \A i \in 1 .. Len(<<>>) : FALSE
  OBVIOUS
<1>3. IF at' \in included'
      THEN Len(<<>>) <= Len(extdefs'[at']) /\ \A i \in 1 .. Len(<<>>) : <<>>[i] = extdefs'[at'][i]
      ELSE Len(<<>>) = 0
  BY <1>2
<1> HIDE DEF none
<1> QED
  BY <1>1, <1>2, <1>3 DEF NamesLaid

(* A step that leaves the image as it is.                                  *)
LEMMA ImageStays ==
    ASSUME Pass4Inv, LinkTypeOK, pass \in {"pass4", "linked"}, pass' \in {"pass4", "linked"},
           UNCHANGED <<program, included, origin, segLengths, image, relocData>>,
           \A m \in Module : Done(m)' <=> Done(m),
           pass' = "pass4" => NamesLaid'
    PROVE  Pass4Inv'
<1>1. /\ ImageTypeOK /\ NullsAreNull /\ WordsDone
      /\ relocData = {Place(s.mod, "code", s.at) : s \in BasesDone}
  BY DEF Pass4Inv
<1>2. ImageTypeOK' /\ NullsAreNull'
  BY <1>1 DEF ImageTypeOK, NullsAreNull
<1>3. \A m : SitesOf(m)' = SitesOf(m) /\ SegSitesOf(m)' = SegSitesOf(m)
  BY DEF SitesOf, SegSitesOf, program
<1>4. ASSUME NEW m \in Module, Done(m), NEW s \in SitesOf(m)
      PROVE  ExtDone(s)'
  <2>1. ExtDone(s)
    BY <1>1, <1>4 DEF WordsDone
  <2> QED
    BY <2>1, ExtDoneStays DEF ExtDone
<1>5. ASSUME NEW m \in Module, Done(m), NEW s \in SegSitesOf(m)
      PROVE  SegDone(s)'
  <2>1. SegDone(s)
    BY <1>1, <1>5 DEF WordsDone
  <2> QED
    BY <2>1, SegDoneStays DEF SegDone
<1>6. WordsDone'
  BY <1>3, <1>4, <1>5 DEF WordsDone
<1>7. (relocData = {Place(s.mod, "code", s.at) : s \in BasesDone})'
  <2>1. BasesDone' = BasesDone
    BY SegSiteIs DEF BasesDone
  <2>2. \A s : Place(s.mod, "code", s.at)' = Place(s.mod, "code", s.at)
    BY DEF Place, StartInFile
  <2> QED
    BY <1>1, <2>1, <2>2
<1>8. pass' \notin {"pass2", "pass2_again", "resolved", "pass3"}
  OBVIOUS
<1> QED
  BY <1>2, <1>6, <1>7, <1>8 DEF Pass4Inv

(* Before Pass4 there is no image; EndPass3 writes the null pointers.      *)
LEMMA EndPass3Writes ==
    ASSUME Pass4Inv, PlacesInv, Pass2TypeOK, EndPass3
    PROVE  Pass4Inv'
<1>1. pass = "pass3" /\ ImageTypeOK /\ relocData = {}
  BY DEF EndPass3, Pass4Inv
<1>2. CASE Fatal
  BY <1>1, <1>2 DEF Fatal, pass34, Pass4Inv, ImageTypeOK
<1>3. CASE ~Fatal
  <2>1. /\ segLengths' = Aligned(segLengths, 16) /\ pass' = "pass4" /\ at' = 1
        /\ k' = 1 /\ next' = 0 /\ UNCHANGED <<program, included, buf, try>>
        /\ image' = [a \in {0, Aligned(segLengths, 16)["code"]} |-> 0] /\ relocData' = relocData
    BY <1>3 DEF EndPass3
  <2>2. PICK c : c = Aligned(segLengths, 16)["code"]
    OBVIOUS
  <2>3. c \in Word /\ 0 \in Word
    <3>1. Aligned(segLengths, 16) \in [Seg -> Word]
      BY AlignedIs DEF PlacesInv, LinkTypeOK
    <3>2. 0 \in Word
      BY WordIs
    <3> QED
      BY <2>2, <3>1, <3>2 DEF Seg
  <2>4. image' = [a \in {0, c} |-> 0]
    BY <2>1, <2>2
  <2>5. ImageTypeOK'
    <3>1. \A a \in Word : a \in 0 .. 2 * MaxWord
      <4>1. 2 * MaxWord \in Int /\ MaxWord <= 2 * MaxWord
        BY DEF MaxWord
      <4>2. \A a \in Word : a \in Int /\ 0 <= a /\ a <= 2 * MaxWord
        BY <4>1, WordIs
      <4> QED
        BY <4>1, <4>2, Within
    <3>2. \A a \in DOMAIN image' : a \in Word /\ image'[a] = 0
      BY <2>3, <2>4
    <3> QED
      BY <2>3, <3>1, <3>2 DEF ImageTypeOK
  <2>6. NullsAreNull'
    BY <2>1, <2>2, <2>4 DEF NullsAreNull
  <2>7. \A m \in Module : ~Done(m)'
    BY <2>1 DEF Done, Module
  <2>8. WordsDone'
    BY <2>7 DEF WordsDone
  <2>9. BasesDone' = {}
    <3>1. \A s \in SegSites : s.mod \in Module
      BY SegSiteIs DEF PlacesInv
    <3> QED
      BY <2>7, <3>1 DEF BasesDone
  <2>10. NamesLaid'
    <3>1. at' \in included' => Len(extdefs'[at']) \in Nat
      BY <2>1, RefersAre DEF Pass2TypeOK, program
    <3> QED
      BY <2>1, <3>1, NoNames
  <2> QED
    BY <1>1, <2>1, <2>5, <2>6, <2>8, <2>9, <2>10 DEF Pass4Inv
<1> QED
  BY <1>2, <1>3

(* Before Pass4, and when the linker gives up, nothing is written.         *)
LEMMA NothingWritten ==
    ASSUME Pass4Inv, UNCHANGED <<image, relocData>>,
           \/ pass' \in {"unresolved", "fatal"}
           \/ /\ pass \in {"pass2", "pass2_again", "resolved", "pass3"}
              /\ pass' \in {"pass2", "pass2_again", "resolved", "pass3"}
    PROVE  Pass4Inv'
<1>1. ImageTypeOK'
  BY DEF Pass4Inv, ImageTypeOK
<1>2. pass' \notin {"pass4", "linked"}
  OBVIOUS
<1>3. pass' \in {"pass2", "pass2_again", "resolved", "pass3"} => relocData' = {}
  BY DEF Pass4Inv
<1> QED
  BY <1>1, <1>2, <1>3 DEF Pass4Inv

(* A module that is not in the program has no names.                       *)
LEMMA SkipModuleKeeps ==
    ASSUME Pass4Inv, LinkTypeOK, Pass2TypeOK, SkipModule
    PROVE  Pass4Inv'
<1>1. /\ pass \in {"pass3", "pass4"} /\ pass' = pass /\ at' = at + 1 /\ at \notin included
      /\ UNCHANGED <<program, included, buf, next, k, size, origin, segLengths, image, relocData>>
  BY DEF SkipModule, pass34
<1>2. CASE pass = "pass3"
  BY <1>1, <1>2, NothingWritten
<1>3. CASE pass = "pass4"
  <2>1. \A m \in Module : Done(m)' <=> Done(m)
    <3>1. TAKE m \in Module
    <3>2. m \in Int /\ at \in Int
      BY DEF Module, Pass2TypeOK
    <3> QED
      BY <1>1, <1>3, <3>2 DEF Done
  <2>2. NamesLaid'
    <3>1. PICK xs, off : /\ Laid(buf, next, off, xs) /\ k = Len(xs) + 1 /\ Len(xs) = 0
      BY <1>1, <1>3 DEF Pass4Inv, NamesLaid
    <3>2. next = 0 /\ k = 1
      BY <3>1 DEF Laid
    <3>3. at' \in included' => Len(extdefs'[at']) \in Nat
      BY <1>1, RefersAre DEF Pass2TypeOK, program
    <3> QED
      BY <1>1, <3>2, <3>3, NoNames
  <2> QED
    BY <1>1, <1>3, <2>1, <2>2, ImageStays
<1> QED
  BY <1>1, <1>2, <1>3

(* P4_EXTDEF puts one name more into the buffer.                           *)
LEMMA P4_EXTDEFKeeps ==
    ASSUME Pass4Inv, LinkTypeOK, Pass2TypeOK, P4_EXTDEF
    PROVE  Pass4Inv'
<1>1. pass = "pass4" /\ at \in included /\ at \in Module /\ k <= Len(extdefs[at])
  BY DEF P4_EXTDEF, Pass2TypeOK
<1>2. CASE Fatal
  BY <1>2, NothingWritten DEF Fatal, pass34
<1>3. CASE ~Fatal
  <2>1. PICK x : x = Extdef
    OBVIOUS
  <2>2. /\ Fits(x, next) /\ buf' = AddName(buf, next, x) /\ next' = next + Len(x) + 1 /\ k' = k + 1
        /\ UNCHANGED <<program, included, at, try, pass, size, origin, segLengths, image, relocData>>
        /\ extdefs' = extdefs
    BY <1>3, <2>1 DEF P4_EXTDEF, pass34, program
  <2>3. Len(extdefs[at]) \in Nat /\ k \in 1 .. Len(extdefs[at]) /\ x \in Name
    <3>1. Len(extdefs[at]) \in Nat
      BY <1>1, RefersAre
    <3>2. k \in 1 .. Len(extdefs[at])
      BY <1>1, <3>1 DEF Pass2TypeOK
    <3> QED
      BY <1>1, <2>1, <3>1, <3>2, RefersAre DEF Extdef
  <2>4. PICK xs, off : /\ Laid(buf, next, off, xs) /\ k = Len(xs) + 1
                       /\ Len(xs) <= Len(extdefs[at])
                       /\ \A i \in 1 .. Len(xs) : xs[i] = extdefs[at][i]
    BY <1>1 DEF Pass4Inv, NamesLaid
  <2>5. PICK off2 : Laid(buf', next', off2, Append(xs, x))
    BY <2>2, <2>3, <2>4, AddNameLays
  <2> DEFINE ys == Append(xs, x)
  <2>6. /\ xs \in Seq(Name) /\ Len(ys) = Len(xs) + 1 /\ Len(xs) \in Nat
        /\ \A i \in 1 .. Len(xs) : ys[i] = xs[i]
        /\ ys[Len(xs) + 1] = x
    <3>1. xs \in Seq(Name)
      BY <2>4 DEF Laid
    <3> QED
      BY <2>3, <3>1, AppendProperties
  <2>7. \A i \in 1 .. Len(ys) : ys[i] = extdefs[at][i]
    <3>1. x = extdefs[at][k]
      BY <2>1 DEF Extdef
    <3>2. TAKE i \in 1 .. Len(ys)
    <3> HIDE DEF ys
    <3>3. i \in 1 .. Len(xs) \/ i = k
      BY <2>4, <2>6
    <3> QED
      BY <2>4, <2>6, <3>1, <3>3
  <2>8. NamesLaid'
    <3> HIDE DEF ys
    <3>1. Len(ys) <= Len(extdefs[at]) /\ k' = Len(ys) + 1
      BY <2>2, <2>3, <2>4, <2>6
    <3>2. Laid(buf', next', off2, ys)
      BY <2>5 DEF ys
    <3> QED
      BY <1>1, <2>2, <2>7, <3>1, <3>2 DEF NamesLaid
  <2>9. \A m \in Module : Done(m)' <=> Done(m)
    BY <2>2 DEF Done
  <2> QED
    BY <1>1, <2>2, <2>8, <2>9, ImageStays
<1> QED
  BY <1>2, <1>3

(* P4_FIXUPP fixes the module up or gives up.                              *)
LEMMA P4_FIXUPPKeeps ==
    ASSUME Pass4Inv, PlacesInv, Pass2TypeOK, P4_FIXUPP
    PROVE  Pass4Inv'
<1>1. pass = "pass4" /\ at \in included /\ at \in Module /\ k > Len(extdefs[at])
  BY DEF P4_FIXUPP, Pass2TypeOK
<1>2. CASE Fatal
  BY <1>2, NothingWritten DEF Fatal, pass34
<1>3. CASE ~Fatal
  <2>1. PICK xs, off : /\ Laid(buf, next, off, xs) /\ k = Len(xs) + 1
                       /\ Len(xs) <= Len(extdefs[at])
                       /\ \A i \in 1 .. Len(xs) : xs[i] = extdefs[at][i]
    BY <1>1 DEF Pass4Inv, NamesLaid
  <2>2. Len(xs) = Len(extdefs[at])
    <3>1. Len(xs) \in Nat /\ Len(extdefs[at]) \in Nat
      BY <1>1, <2>1, RefersAre DEF Laid
    <3> QED
      BY <1>1, <2>1, <3>1
  <2>3. /\ \A s \in SitesOf(at) : Fixable(s, buf)
        /\ \A s \in SegSitesOf(at) : ~Refused(s)
    BY <1>3 DEF P4_FIXUPP
  <2>4. CanFix(xs, off)
    BY <1>1, <2>1, <2>2, <2>3 DEF CanFix
  <2>5. /\ image' = Written(image, Fixups(at))
        /\ relocData' = relocData \cup {CodeBase(at) + s.at : s \in Bases(at)}
        /\ at' = at + 1 /\ k' = 1 /\ next' = 0 /\ extCount' = 0
        /\ UNCHANGED <<program, included, buf, try, pass, size, origin, segLengths, exeStart>>
    BY <1>3 DEF P4_FIXUPP
  <2> QED
    BY <2>4, <2>5, FixKeeps
<1> QED
  BY <1>2, <1>3

(* Each step after Pass2 keeps what Pass4 has written.                     *)
LEMMA LaterKeepsPass4Inv ==
    ASSUME Pass4Inv, PlacesInv, Pass2TypeOK, Later
    PROVE  Pass4Inv'
<1>1. LinkTypeOK
  BY DEF PlacesInv
<1>2. CASE Fatal
  BY <1>2, NothingWritten DEF Fatal, pass34
<1>3. CASE BeginPass3
  BY <1>3, NothingWritten DEF BeginPass3, pass34
<1>4. CASE PlaceModule
  BY <1>4, NothingWritten DEF PlaceModule
<1>5. CASE ~Fatal /\ WriteExeHeader
  <2>1. /\ pass = "pass4" /\ at > N /\ pass' = "linked" /\ UNCHANGED pass34
        /\ UNCHANGED <<program, included, buf, next, extCount, at, k, try>>
    BY <1>5 DEF WriteExeHeader
  <2>2. \A m \in Module : Done(m)' <=> Done(m)
    <3>1. TAKE m \in Module
    <3>2. m < at
      BY <2>1, ModulesAssumption DEF Module, ModulesAssumption, Pass2TypeOK
    <3> QED
      BY <2>1, <3>2 DEF Done
  <2> QED
    BY <1>1, <2>1, <2>2, ImageStays DEF pass34
<1> QED
  BY <1>1, <1>2, <1>3, <1>4, <1>5, SkipModuleKeeps, EndPass3Writes, P4_EXTDEFKeeps, P4_FIXUPPKeeps
  DEF Later, TooLong

-----------------------------------------------------------------------------
(* The inductive invariant.  Each part of it leans on the one before: what *)
(* a fixup has written stays because no two modules share a place, and     *)
(* they do not because Pass3 places each module that Pass2 included once.  *)
Inv == Pass2Inv /\ PlacesInv /\ Pass4Inv

(* What Pass1 leaves has it.                                               *)
LEMMA InitInv ==
    ASSUME Init
    PROVE  Inv
<1>1. Pass2Inv
  BY InitPass2Inv DEF Init
<1>2. image = [a \in {} |-> 0] /\ relocData = {} /\ pass = "pass2"
  BY DEF Init, InitPass2
<1>3. Pass4Inv
  BY <1>2 DEF Pass4Inv, ImageTypeOK
<1> QED
  BY <1>1, <1>3, InitPlaces DEF Inv

(* A linker that has ended changes nothing more.                           *)
LEMMA StutterKeeps ==
    ASSUME Inv, UNCHANGED vars
    PROVE  Inv'
<1>1. /\ UNCHANGED <<program, included, buf, next, extCount, at, k, try, pass>>
      /\ extdefs' = extdefs /\ UNCHANGED pass34
  BY DEF vars, pass2, program
<1>2. Pass2Inv /\ PlacesInv /\ Pass4Inv /\ LinkTypeOK
  BY DEF Inv, PlacesInv
<1>3. Pass2Inv'
  <2>1. Pass2TypeOK'
    BY <1>1, <1>2 DEF Pass2Inv, Pass2TypeOK, program
  <2>2. Least'
    BY <1>1, <1>2, LeastStays DEF Pass2Inv
  <2>3. (TailFree => AllResolved)'
    <3>1. /\ TailFree' <=> TailFree
          /\ Closed(included)' <=> Closed(included)
      BY <1>1 DEF TailFree, Names, Refers, Closed
    <3>2. TailFree => AllResolved
      BY <1>2 DEF Pass2Inv
    <3> QED
      BY <1>1, <3>1, <3>2 DEF AllResolved, Resolved, Defined, Home, Definer, program
  <2>4. (InPass2 => Scan)'
    <3>1. ASSUME InPass2
          PROVE  Scan'
      <4>1. PICK xs, off : ScanWith(xs, off)
        BY <1>2, <3>1 DEF Pass2Inv, Scan
      <4>2. TailFree => Seen(xs)'
        <5>1. \A y : Known(y, xs)' <=> Known(y, xs)
          BY <1>1 DEF Known, Defined, Home, Definer
        <5>2. \A m, j : Passed(m, j)' <=> Passed(m, j)
          BY <1>1 DEF Passed
        <5>3. TailFree => Seen(xs)
          BY <4>1 DEF ScanWith
        <5> QED
          BY <1>1, <5>1, <5>2, <5>3 DEF Seen
      <4>3. ScanWith(xs, off)'
        BY <1>1, <4>1, <4>2, ScanStays
      <4> QED
        BY <4>3 DEF Scan
    <3> QED
      BY <1>1, <3>1 DEF InPass2
  <2>5. (pass = "pass2_again" => ForcedIn)'
    BY <1>1, <1>2, ForcedStays DEF Pass2Inv
  <2> QED
    BY <2>1, <2>2, <2>3, <2>4, <2>5 DEF Pass2Inv
<1>4. PlacesInv'
  BY <1>1, <1>2, PlacesStay DEF pass34, Placed, LinkTypeOK
<1>5. Pass4Inv'
  <2>1. CASE pass \in {"pass4", "linked"}
    <3>1. \A m \in Module : Done(m)' <=> Done(m)
      BY <1>1 DEF Done
    <3>2. pass' = "pass4" => NamesLaid'
      BY <1>1, <1>2 DEF Pass4Inv, NamesLaid
    <3> QED
      BY <1>1, <1>2, <2>1, <3>1, <3>2, ImageStays DEF pass34
  <2>2. CASE pass \notin {"pass4", "linked"}
    BY <1>1, <1>2, <2>2, NothingWritten DEF pass34, PlacesInv, LinkTypeOK, Passes
  <2> QED
    BY <2>1, <2>2
<1> QED
  BY <1>3, <1>4, <1>5 DEF Inv

(* Each step keeps the invariant.                                          *)
LEMMA NextKeeps ==
    ASSUME Inv, [Next]_vars
    PROVE  Inv'
<1>1. Pass2Inv /\ PlacesInv /\ Pass4Inv /\ Pass2TypeOK
  BY DEF Inv, Pass2Inv
<1>2. CASE Pass2 /\ UNCHANGED pass34
  <2>1. /\ pass \in {"pass2", "pass2_again"}
        /\ pass' \in {"pass2", "pass2_again", "resolved", "unresolved"}
    BY <1>2 DEF Pass2, MatchName, P2_EXTDEF, NextModule, P2_Resolve, EndPass2, Scanning, Fail
  <2>2. Pass4Inv'
    BY <1>1, <1>2, <2>1, NothingWritten DEF pass34
  <2> QED
    BY <1>1, <1>2, <2>2, Pass2Keeps, Pass2KeepsPlaces DEF Inv
<1>3. CASE Later
  BY <1>1, <1>3, LaterKeepsPass2Inv, LaterKeepsPlaces, LaterKeepsPass4Inv DEF Inv
<1>4. CASE UNCHANGED vars
  BY <1>4, StutterKeeps
<1> QED
  BY <1>2, <1>3, <1>4 DEF Next, Step, Later, Ended34

(* So every state of the linker has it.                                    *)
LEMMA Invariant == Spec => []Inv
<1>1. Init => Inv
  BY InitInv
<1>2. Inv /\ [Next]_vars => Inv'
  BY NextKeeps
<1> QED
  BY <1>1, <1>2, PTL DEF Spec

-----------------------------------------------------------------------------
(* The variables of the linker have their types: no address is a number    *)
(* of more than 16 bits, and no name is written behind the buffer's end.   *)
THEOREM TypeCorrect == Spec => []TypeOK
<1>1. ASSUME Inv
      PROVE  TypeOK
  <2>1. Pass2TypeOK /\ LinkTypeOK /\ ImageTypeOK
    BY <1>1 DEF Inv, Pass2Inv, PlacesInv, Pass4Inv
  <2>2. /\ \A m \in Module, s \in {"code", "data"} : origin[m][s] \in 0 .. MaxWord
        /\ \A s \in Seg : segLengths[s] \in 0 .. MaxWord
    BY <2>1, PlacesAre DEF Kinds, Word
  <2> QED
    BY <2>1, <2>2 DEF TypeOK, Pass2TypeOK, ImageTypeOK, Word
<1> QED
  BY <1>1, Invariant, PTL

(* When Pass2 is over each EXTDEF of each included module is defined in an *)
(* included module, and the overlay manager is there if it is needed,      *)
(* provided that no EXTDEF is the tail of another.                         *)
THEOREM ResolvesAll == Spec => [](TailFree => AllResolved)
<1>1. Inv => (TailFree => AllResolved)
  BY DEF Inv, Pass2Inv
<1> QED
  BY <1>1, Invariant, PTL

(* And no module is included that the program could do without: this needs *)
(* no such condition.                                                      *)
THEOREM IncludesNothingNeedless == Spec => []NothingNeedless
<1>1. Inv => NothingNeedless
  BY LeastIsNothingNeedless DEF Inv
<1> QED
  BY <1>1, Invariant, PTL

(* No byte of a segment belongs to two modules, none of a module is a null *)
(* pointer's or lies behind the end of its segment.                        *)
THEOREM PartsAreApart == Spec => []PartsAreDisjoint
<1>1. ASSUME Inv
      PROVE  PartsAreDisjoint
  <2>1. included \subseteq Module /\ Parts
    BY <1>1 DEF Inv, Pass2Inv, Pass2TypeOK, PlacesInv
  <2>2. ASSUME pass \in {"pass4", "linked"}, NEW s \in {"code", "data"},
               NEW m \in included
        PROVE  /\ origin[m][s] >= 2 /\ origin[m][s] + size[m][s] <= segLengths[s]
               /\ \A n \in included \ {m} :
                     \/ origin[m][s] + size[m][s] <= origin[n][s]
                     \/ origin[n][s] + size[n][s] <= origin[m][s]
    <3>1. \A n \in included : n \in Module /\ Placed(n) /\ n \in Int
      BY <2>1, <2>2 DEF Placed, Module
    <3>2. s \in Kinds
      BY DEF Kinds
    <3>3. ASSUME NEW n \in included \ {m}
          PROVE  \/ origin[m][s] + size[m][s] <= origin[n][s]
                 \/ origin[n][s] + size[n][s] <= origin[m][s]
      <4>1. m < n \/ n < m
        BY <3>1
      <4> QED
        BY <2>1, <3>1, <3>2, <4>1 DEF Parts
    <3> QED
      BY <2>1, <3>1, <3>2, <3>3 DEF Parts
  <2> QED
    BY <2>2 DEF PartsAreDisjoint
<1> QED
  BY <1>1, Invariant, PTL

(* A linked program starts at the start address of the module that has one.*)
THEOREM StartIsEntry == Spec => []StartsAtEntry
<1>1. ASSUME Inv
      PROVE  StartsAtEntry
  <2>1. ASSUME Linked, NEW m \in DOMAIN Start \cap included
        PROVE  exeStart = origin[m].code + Start[m]
    <3>1. StartMoves /\ LinkTypeOK /\ pass = "linked"
      BY <1>1, <2>1 DEF Inv, PlacesInv, Linked
    <3>2. m \in Module /\ Start[m] \in Nat /\ Placed(m)
      BY <3>1, StartAssumption DEF StartAssumption, Placed
    <3>3. origin[m].code \in Nat
      BY <3>1, <3>2, PlacesAre, WordIs
    <3>4. exeStart = Start[m] + origin[m].code
      BY <3>1, <3>2 DEF StartMoves
    <3> QED
      BY <3>2, <3>3, <3>4
  <2> QED
    BY <2>1 DEF StartsAtEntry
<1> QED
  BY <1>1, Invariant, PTL

-----------------------------------------------------------------------------
(* What is subtracted modulo 64K is there again when it is added.          *)
LEMMA RelativeIs ==
    ASSUME NEW a \in Nat, NEW h \in Word, NEW v, v = (h - (a + 2)) % (MaxWord + 1)
    PROVE  v \in Word /\ (a + 2 + v) % (MaxWord + 1) = h
<1>1. h \in Int /\ 0 <= h /\ h <= 65535
  BY WordIs
<1>2. (a + 2 + ((h - (a + 2)) % 65536)) % 65536 = h
  BY <1>1
<1>3. (h - (a + 2)) \in Int
  BY <1>1
<1>4. v \in Word
  BY <1>3, WordOf
<1> QED
  BY <1>2, <1>4 DEF MaxWord

(* What P4_DoFixupp writes.                                                *)
LEMMA FixedWord ==
    ASSUME NEW a \in Int, NEW h \in Int
    PROVE  /\ DoFixupp(a, h, FALSE).what = h % (MaxWord + 1)
           /\ DoFixupp(a, h, TRUE).what = (h - (a + 2)) % (MaxWord + 1)
<1>1. DoFixupp(a, h, FALSE).what = h % (MaxWord + 1)
  BY DEF DoFixupp
<1>2. DoFixupp(a, h, TRUE).what = (h - (a + 2)) % (MaxWord + 1)
  BY DEF DoFixupp
<1> QED
  BY <1>1, <1>2

(* A place in a module's part of a segment is a word.                      *)
LEMMA OffsetIs ==
    ASSUME PlacesInv, NEW m \in Module, Placed(m), NEW s \in Kinds, NEW b \in Nat, b <= size[m][s]
    PROVE  origin[m][s] + b \in Word
<1>1. /\ origin[m][s] \in Word /\ size[m][s] \in Word /\ segLengths[s] \in Word
      /\ origin[m][s] + size[m][s] <= segLengths[s]
  BY PlacesAre DEF PlacesInv, Parts, Kinds, Seg
<1>2. ASSUME NEW o \in Word, NEW z \in Word, NEW l \in Word, o + z <= l, b <= z
      PROVE  o + b \in Word
  <2>1. o \in Int /\ 0 <= o /\ z \in Int /\ l \in Int /\ l <= 65535
    BY WordIs
  <2>2. o + b \in Int /\ 0 <= o + b /\ o + b <= 65535
    BY <1>2, <2>1
  <2> QED
    BY <2>2, WordIs
<1> QED
  BY <1>1, <1>2

(* Whole paragraphs of code put the data where DS says they are.           *)
LEMMA DataStart ==
    ASSUME NEW c \in Word, c % 16 = 0
    PROVE  16 * (c \div 16) = c
<1>1. c \in Int
  BY WordIs
<1> QED
  BY <1>1

(* The word of a reference to a name reaches the name.                     *)
LEMMA ExtIsReached ==
    ASSUME PlacesInv, Pass2TypeOK, pass = "linked", segLengths["code"] % 16 = 0,
           NEW s \in Sites, s.mod \in included, s.ext <= Len(extdefs[s.mod]), ExtDone(s)
    PROVE  ExtReaches(s)
<1>1. PICK x : x = Name4(s)
  OBVIOUS
<1>2. PICK p : p = Pub[Definer(x)]
  OBVIOUS
<1>3. /\ s.mod \in Module /\ s.at \in Nat /\ s.ext \in Nat \ {0} /\ s.near \in BOOLEAN
      /\ LinkTypeOK /\ Placed(s.mod) /\ "code" \in Kinds
      /\ s.at + 2 <= size[s.mod]["code"]
  BY SiteIs DEF PlacesInv, Placed
<1>4. x \in Name
  <2>1. Len(extdefs[s.mod]) \in Nat
    BY <1>3, RefersAre
  <2>2. s.ext \in 1 .. Len(extdefs[s.mod])
    BY <1>3, <2>1
  <2> QED
    BY <1>1, <1>3, <2>2, RefersAre DEF Name4
<1>5. /\ Defined(x) /\ Home(x) \in included /\ (s.near => p.seg = "code")
      /\ image[Place(s.mod, "code", s.at)] = ExtWord(s)
  BY <1>1, <1>2 DEF ExtDone
<1>6. /\ p.mod = Home(x) /\ p.mod \in Module /\ p.seg \in Kinds /\ p.addr \in Nat
      /\ p.addr <= size[p.mod][p.seg] /\ Placed(p.mod)
  BY <1>2, <1>3, <1>4, <1>5, PubIs DEF Placed
<1>7. PICK h \in Word : h = origin[p.mod][p.seg] + p.addr
  BY <1>6, OffsetIs
<1>8. PICK a \in Nat : a = origin[s.mod].code + s.at
  BY <1>3, PlacesAre, WordIs
<1>9. ExtWord(s) = DoFixupp(a, h, s.near).what /\ Place(s.mod, "code", s.at) = a
  <2>1. Place(s.mod, "code", s.at) = a
    <3>1. origin[s.mod].code \in Nat
      BY <1>3, PlacesAre, WordIs
    <3> QED
      BY <1>3, <1>8, <3>1 DEF Place, StartInFile
  <2> QED
    BY <1>1, <1>2, <1>7, <2>1 DEF ExtWord
<1>10. StartInFile(p.seg) + origin[p.mod][p.seg] + p.addr = StartInFile(p.seg) + h
  <2>1. StartInFile(p.seg) \in Nat /\ origin[p.mod][p.seg] \in Nat
    BY <1>3, <1>6, PlacesAre, WordIs DEF StartInFile, Seg
  <2> QED
    BY <1>6, <1>7, <2>1
<1>11. StartInFile(p.seg) = Start16(p.seg) /\ Start16(p.seg) \in Nat
  <2>1. segLengths["code"] \in Word
    BY <1>3, PlacesAre DEF Seg
  <2> QED
    BY <2>1, DataStart, WordIs DEF StartInFile, Start16
<1>12. h \in Int /\ a \in Int
  BY WordIs
<1>13. Reached(a, p.seg, s.near) = StartInFile(p.seg) + h
  <2>1. CASE s.near = TRUE
    <3>1. PICK v : v = image[a] /\ v = DoFixupp(a, h, TRUE).what
      BY <1>5, <1>9, <2>1
    <3>2. v = (h - (a + 2)) % (MaxWord + 1)
      BY <1>12, <3>1, FixedWord
    <3>3. v \in Word /\ (a + 2 + v) % (MaxWord + 1) = h
      BY <3>2, RelativeIs
    <3>4. StartInFile(p.seg) = 0
      BY <1>5, <2>1 DEF StartInFile
    <3>5. Reached(a, p.seg, TRUE) = h
      BY <3>1, <3>3 DEF Reached
    <3>6. h = StartInFile(p.seg) + h
      BY <1>12, <3>4
    <3> QED
      BY <2>1, <3>5, <3>6, Zenon
  <2>2. CASE s.near = FALSE
    <3>1. image[a] = DoFixupp(a, h, FALSE).what
      BY <1>5, <1>9, <2>2
    <3>2. DoFixupp(a, h, FALSE).what = h % (MaxWord + 1)
      BY <1>12, FixedWord
    <3>3. image[a] = h
      BY <3>1, <3>2, WordOf
    <3> QED
      BY <1>11, <1>12, <2>2, <3>3 DEF Reached
  <2> QED
    BY <1>3, <2>1, <2>2
<1> QED
  BY <1>1, <1>2, <1>5, <1>8, <1>10, <1>13 DEF ExtReaches, Name4

(* The word of a reference to a place in a segment reaches that place.     *)
LEMMA SegIsReached ==
    ASSUME PlacesInv, pass = "linked", \A t \in Seg : segLengths[t] % 16 = 0,
           relocData = {Place(s.mod, "code", s.at) : s \in BasesDone},
           NEW s \in SegSites, s.mod \in included, SegDone(s)
    PROVE  SegReaches(s)
<1>1. PICK to : to = LocSegs[s.mod][s.to]
  OBVIOUS
<1>2. /\ s.mod \in Module /\ s.at \in Nat /\ s.off \in Nat /\ s.in \in Kinds /\ to \in Seg
      /\ s.kind \in {"near", "offset", "base"} /\ (s.kind # "offset" => s.in = "code")
      /\ (s.kind = "near" => to = "code") /\ (to # "stack" => s.off <= size[s.mod][to])
      /\ s.at + 2 <= size[s.mod][s.in] /\ LinkTypeOK /\ Placed(s.mod)
  BY <1>1, SegSiteIs DEF PlacesInv, Placed
<1>3. PICK c \in Word, d \in Word, k0 \in Word :
        c = segLengths["code"] /\ d = segLengths["data"] /\ k0 = segLengths["stack"]
  BY <1>2, PlacesAre DEF Seg
<1>4. c % 16 = 0 /\ d % 16 = 0 /\ c \in Int /\ d \in Int /\ c \in Nat /\ d \in Nat
  BY <1>3, WordIs DEF Seg
<1>5. PICK a \in Nat : a = StartInFile(s.in) + origin[s.mod][s.in] + s.at /\ a = Place(s.mod, s.in, s.at)
  BY <1>2, PlaceIs DEF Place
<1>6. PICK v : v = image[a] /\ v = P4_FixSeg(s).what
  BY <1>5 DEF SegDone
<1>7. ~Refused(s)
  BY DEF SegDone
<1>8. CASE s.kind = "base"
  <2>1. a \in relocData
    BY <1>2, <1>5, <1>8 DEF BasesDone, Done
  <2>2. v = Paragraph(to) % (MaxWord + 1)
    BY <1>1, <1>2, <1>6, <1>8, FixSegIs
  <2>3. CASE to = "code"
    <3>1. Paragraph(to) = 0 /\ 0 \in Word
      BY <2>3, WordIs DEF Paragraph
    <3>2. v = 0
      BY <2>2, <3>1, WordOf
    <3>3. (16 * v) % (MaxWord + 1) = 0 % (MaxWord + 1)
      BY <3>2
    <3> QED
      BY <1>1, <1>5, <1>6, <1>8, <2>1, <2>3, <3>3 DEF SegReaches
  <2>4. CASE to = "data"
    <3>1. PICK q \in Nat : q = c \div 16
      BY <1>4
    <3>2. q \in Word /\ 16 * q = c
      <4>1. 16 * q = c /\ q <= 65535
        BY <1>4, <3>1, DataStart, WordIs
      <4> QED
        BY <3>1, <4>1, WordIs
    <3>3. v = q
      BY <1>3, <2>2, <2>4, <3>1, <3>2, WordOf DEF Paragraph
    <3>4. (16 * v) % (MaxWord + 1) = c % (MaxWord + 1)
      BY <3>2, <3>3
    <3> QED
      BY <1>1, <1>3, <1>5, <1>6, <1>8, <2>1, <2>4, <3>4 DEF SegReaches
  <2>5. CASE to = "stack"
    <3>1. PICK e \in Word : e = (c + d) % (MaxWord + 1)
      <4>1. c + d \in Int
        BY <1>4
      <4>2. \A f \in Int : f % (MaxWord + 1) \in Word
        BY WordOf
      <4>3. (c + d) % (MaxWord + 1) \in Word
        BY <4>1, <4>2
      <4> QED
        BY <4>3
    <3>2. e % 16 = 0
      <4>1. ((c + d) % 65536) % 16 = 0
        BY <1>4
      <4> QED
        BY <3>1, <4>1 DEF MaxWord
    <3>3. PICK q \in Nat : q = e \div 16
      BY <3>1, WordIs
    <3>4. q \in Word /\ 16 * q = e
      <4>1. 16 * q = e /\ q <= 65535
        BY <3>1, <3>2, <3>3, DataStart, WordIs
      <4> QED
        BY <3>3, <4>1, WordIs
    <3>5. v = q
      BY <1>3, <2>2, <2>5, <3>1, <3>3, <3>4, WordOf DEF Paragraph
    <3>6. (16 * v) % (MaxWord + 1) = (c + d) % (MaxWord + 1)
      BY <3>1, <3>4, <3>5, WordOf
    <3> QED
      BY <1>1, <1>3, <1>5, <1>6, <1>8, <2>1, <2>5, <3>6 DEF SegReaches
  <2> QED
    BY <1>2, <2>3, <2>4, <2>5 DEF Seg
<1>9. CASE s.kind # "base"
  <2>1. to \in Kinds
    BY <1>1, <1>2, <1>7, <1>9 DEF Refused, Kinds, Seg
  <2>2. PICK o \in Nat : o = origin[s.mod][to]
    BY <1>2, <2>1, PlacesAre, WordIs
  <2>3. s.off <= size[s.mod][to]
    BY <1>2, <2>1 DEF Kinds
  <2>4. PICK h \in Word : h = o + s.off
    BY <1>2, <2>1, <2>2, <2>3, OffsetIs
  <2>5. PICK b \in Nat : b = StartInFile(to)
    BY <1>3, <1>4 DEF StartInFile
  <2>6. h \in Int /\ b + o + s.off = b + h
    BY <1>2, <2>2, <2>4, <2>5, WordIs
  <2>7. b = Start16(to)
    BY <1>3, <1>4, <2>5, DataStart DEF StartInFile, Start16
  <2>8. CASE s.kind = "near"
    <3>1. to = "code" /\ s.in = "code" /\ b = 0
      BY <1>2, <2>5, <2>8 DEF StartInFile
    <3>2. a = o + s.at
      BY <1>2, <1>5, <2>2, <3>1 DEF StartInFile
    <3>3. v = (s.off - s.at - 2) % (MaxWord + 1)
      BY <1>2, <1>6, <2>8, FixSegIs
    <3>4. s.off - s.at - 2 = h - (a + 2)
      BY <1>2, <2>2, <2>4, <2>6, <3>2
    <3>5. v = (h - (a + 2)) % (MaxWord + 1)
      BY <3>3, <3>4
    <3>6. (a + 2 + v) % (MaxWord + 1) = h
      BY <3>5, RelativeIs
    <3>7. Reached(a, to, TRUE) = h
      BY <1>6, <3>6 DEF Reached
    <3>8. h = b + o + s.off
      BY <2>6, <3>1
    <3> QED
      BY <1>1, <1>5, <1>9, <2>2, <2>5, <2>8, <3>7, <3>8 DEF SegReaches
  <2>9. CASE s.kind = "offset"
    <3>1. v = h % (MaxWord + 1)
      BY <1>1, <1>2, <1>6, <2>1, <2>2, <2>4, <2>9, FixSegIs DEF Kinds
    <3>2. v = h
      BY <3>1, WordOf
    <3>3. Reached(a, to, FALSE) = h + b
      BY <1>6, <2>7, <3>2 DEF Reached
    <3>4. h + b = b + o + s.off
      BY <2>6
    <3> QED
      BY <1>1, <1>5, <1>9, <2>2, <2>5, <2>9, <3>3, <3>4 DEF SegReaches
  <2> QED
    BY <1>2, <1>9, <2>8, <2>9
<1> QED
  BY <1>8, <1>9

(* DOS moves as many words as there are segment bases.                     *)
LEMMA BasesCount ==
    ASSUME PlacesInv, pass = "linked", relocData = {Place(s.mod, "code", s.at) : s \in BasesDone}
    PROVE  Cardinality(relocData) = Cardinality(BasesDone)
<1> DEFINE f == [s \in BasesDone |-> Place(s.mod, "code", s.at)]
<1>1. IsFiniteSet(BasesDone)
  <2>1. BasesDone \in SUBSET SegSites
    BY DEF BasesDone
  <2> QED
    BY <2>1, RelocAssumption, FS_Subset DEF RelocAssumption
<1>2. ASSUME NEW s \in BasesDone, NEW t \in BasesDone, f[s] = f[t]
      PROVE  s = t
  <2>1. /\ s \in SegSites /\ t \in SegSites /\ s.kind = "base" /\ t.kind = "base"
        /\ Placed(s.mod) /\ Placed(t.mod) /\ LinkTypeOK
    BY DEF BasesDone, Done, Placed, PlacesInv
  <2>2. /\ s.mod \in Module /\ t.mod \in Module /\ s.at \in Nat /\ t.at \in Nat
        /\ s.in = "code" /\ t.in = "code" /\ "code" \in Kinds
        /\ s.at + 2 <= size[s.mod]["code"] /\ t.at + 2 <= size[t.mod]["code"]
    BY <2>1, SegSiteIs DEF Kinds
  <2>3. Place(s.mod, "code", s.at) = Place(t.mod, "code", t.at)
    BY <1>2
  <2>4. s.mod = t.mod /\ s.at = t.at
    BY <2>1, <2>2, <2>3, PlacesApart
  <2> QED
    BY <2>1, <2>2, <2>4, SegSiteIs
<1>3. f \in Bijection(BasesDone, relocData)
  <2>1. f \in [BasesDone -> relocData]
    OBVIOUS
  <2>2. \A r \in relocData : \E s \in BasesDone : f[s] = r
    OBVIOUS
  <2> QED
    BY <1>2, <2>1, <2>2, Fun_IsBij
<1>4. ExistsBijection(BasesDone, relocData)
  BY <1>3, Fun_ExistsBij
<1> QED
  BY <1>1, <1>4, FS_Bijection

(* Every reference of a linked program reaches its name or its place, DOS  *)
(* moves the segment bases and nothing else, and the null pointers are 0,  *)
(* provided that the segments are whole paragraphs (which AlignSegments    *)
(* does not see to).                                                       *)
THEOREM ReferencesReach == Spec => [](OverflowIsReported => RefsReach)
<1>1. ASSUME Inv, OverflowIsReported
      PROVE  RefsReach
  <2>1. ASSUME Linked
        PROVE  /\ \A m \in included :
                     /\ \A s \in SitesOf(m) : ExtReaches(s)
                     /\ \A s \in SegSitesOf(m) : SegReaches(s)
               /\ Cardinality(relocData) =
                     Cardinality({s \in SegSites : s.mod \in included /\ s.kind = "base"})
               /\ image[0] = 0 /\ image[segLengths["code"]] = 0
    <3>1. /\ pass = "linked" /\ PlacesInv /\ Pass2TypeOK /\ Pass4Inv
          /\ \A t \in Seg : segLengths[t] % 16 = 0
      BY <1>1, <2>1 DEF Inv, Pass2Inv, Linked, OverflowIsReported
    <3>2. /\ NullsAreNull /\ WordsDone
          /\ relocData = {Place(s.mod, "code", s.at) : s \in BasesDone}
      BY <3>1 DEF Pass4Inv
    <3>3. \A m \in included : m \in Module /\ Done(m)
      BY <3>1 DEF Pass2TypeOK, Done
    <3>4. ASSUME NEW m \in included, NEW s \in SitesOf(m)
          PROVE  ExtReaches(s)
      <4>1. s \in Sites /\ s.mod = m /\ s.ext <= Len(extdefs[s.mod])
        BY DEF SitesOf
      <4>2. ExtDone(s)
        BY <3>2, <3>3 DEF WordsDone
      <4>3. segLengths["code"] % 16 = 0
        BY <3>1 DEF Seg
      <4> QED
        BY <3>1, <4>1, <4>2, <4>3, ExtIsReached
    <3>5. ASSUME NEW m \in included, NEW s \in SegSitesOf(m)
          PROVE  SegReaches(s)
      <4>1. s \in SegSites /\ s.mod = m
        BY DEF SegSitesOf
      <4>2. SegDone(s)
        BY <3>2, <3>3 DEF WordsDone
      <4> QED
        BY <3>1, <3>2, <4>1, <4>2, SegIsReached
    <3>6. BasesDone = {s \in SegSites : s.mod \in included /\ s.kind = "base"}
      BY <3>1 DEF BasesDone, Done
    <3>7. Cardinality(relocData) = Cardinality(BasesDone)
      BY <3>1, <3>2, BasesCount
    <3> QED
      BY <3>2, <3>4, <3>5, <3>6, <3>7 DEF NullsAreNull
  <2> QED
    BY <2>1 DEF RefsReach
<1> QED
  BY <1>1, Invariant, PTL

-----------------------------------------------------------------------------
(* Pass2 gives up only for a name that nothing defines or for names that   *)
(* do not fit, each counted once, provided that no EXTDEF is empty.        *)
LEMMA CauseInvariant ==
    ASSUME NoneEmpty
    PROVE  Spec => []CauseInv
<1>1. Init => CauseInv
  BY InitMisses DEF Init
<1>2. ASSUME Inv, CauseInv, [Next]_vars
      PROVE  CauseInv'
  <2>1. CASE Pass2 /\ UNCHANGED pass34
    BY <1>2, <2>1, Pass2Misses DEF Inv
  <2>2. CASE Later
    <3>1. pass' \in {"pass3", "pass4", "linked", "fatal"}
      BY <1>2, <2>2, LaterIs DEF Inv, Pass2Inv
    <3> QED
      BY <3>1 DEF CauseInv, InPass2, GivesUpForCause
  <2>3. CASE UNCHANGED vars
    <3>1. UNCHANGED <<program, included, buf, next, at, k, try, pass>> /\ extdefs' = extdefs
      BY <2>3 DEF vars, pass2, program
    <3>2. ASSUME InPass2
          PROVE  CauseInv'
      <4>1. PICK xs, off : MissingWith(xs, off)
        BY <1>2, <3>2 DEF CauseInv, Missing
      <4>2. Ahead(xs, off)'
        BY <3>1, <4>1 DEF MissingWith, Ahead, Scanning, Extdef
      <4>3. InPass2'
        BY <3>1, <3>2 DEF InPass2
      <4> QED
        BY <3>1, <4>1, <4>2, <4>3, MissingStays, MissingGoesOn
    <3>3. ASSUME pass = "unresolved"
          PROVE  CauseInv'
      <4>1. Cause
        BY <1>2, <3>3 DEF CauseInv, GivesUpForCause, Cause
      <4>2. extdefs' = extdefs /\ overlay' = overlay /\ included' = included /\ pass' = pass
        BY <3>1 DEF program
      <4>3. Wanted' = Wanted
        BY <4>2 DEF Wanted, Refers, Defined, Home, Definer
      <4>4. GivesUpForCause'
        BY <4>1, <4>2, <4>3 DEF Cause, GivesUpForCause, Refers, Defined, Bytes
      <4> QED
        BY <3>3, <4>2, <4>4 DEF CauseInv, InPass2
    <3> QED
      BY <3>1, <3>2, <3>3 DEF CauseInv, InPass2, GivesUpForCause
  <2> QED
    BY <1>2, <2>1, <2>2, <2>3 DEF Next, Step, Later, Ended34
<1> QED
  BY <1>1, <1>2, Invariant, PTL DEF Spec

THEOREM FailsForCauseOnly ==
    ASSUME NoneEmpty
    PROVE  Spec => []GivesUpForCause
<1>1. CauseInv => GivesUpForCause
  BY DEF CauseInv
<1> QED
  BY <1>1, CauseInvariant, PTL
=============================================================================
