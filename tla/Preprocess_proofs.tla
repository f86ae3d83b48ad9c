-------------------------- MODULE Preprocess_proofs --------------------------
(***************************************************************************)
(* The macro table of the preprocessor, for every program, every table     *)
(* size and every hash: it is the map from names to texts that its         *)
(* directives describe.                                                    *)
(*                                                                         *)
(* The invariant is that of open addressing: no name is in two slots, and  *)
(* no slot is empty on the way from a name's hash to the name.             *)
(***************************************************************************)
EXTENDS Preprocess, Lemmas, SequenceTheorems, FiniteSetTheorems

-----------------------------------------------------------------------------
(* What a remainder is of a number less than twice the divisor.            *)
LEMMA ModIs ==
    ASSUME NEW m \in Nat \ {0}, NEW a \in 0 .. 2 * m - 1
    PROVE  (a < m => a % m = a) /\ (a >= m => a % m = a - m)
<1>1. a % m \in 0 .. m - 1 /\ a = m * (a \div m) + (a % m)
  OBVIOUS
<1>2. PICK q \in Int : q = a \div m
  OBVIOUS
<1>3. PICK r \in 0 .. m - 1 : r = a % m
  BY <1>1
<1>4. a = m * q + r
  BY <1>1, <1>2, <1>3
<1>5. q = 0 \/ q = 1
  <2>1. CASE q >= 2
    <3>1. m * q >= m * 2
      BY <2>1
    <3> QED
      BY <1>3, <1>4, <3>1
  <2>2. CASE q <= -1
    <3>1. m * q <= m * (-1)
      BY <2>2
    <3> QED
      BY <1>3, <1>4, <3>1
  <2> QED
    BY <1>2, <2>1, <2>2
<1>6. a = r \/ a = m + r
  BY <1>4, <1>5
<1> QED
  BY <1>3, <1>6

Slots == 0 .. MACNBR - 1

(* The search from a name's hash comes past each slot once.                *)
LEMMA SlotIs ==
    ASSUME NEW n \in Names
    PROVE  /\ \A i \in Slots : Slot(n, i) \in Slots
           /\ \A i, j \in Slots : Slot(n, i) = Slot(n, j) => i = j
           /\ \A s \in Slots : \E i \in Slots : Slot(n, i) = s
<1>1. MACNBR \in Nat \ {0} /\ Hash[n] \in Nat /\ Hash[n] < MACNBR
  BY TableAssumption DEF TableAssumption
<1>2. ASSUME NEW i \in Slots
      PROVE  /\ Hash[n] + i < MACNBR => Slot(n, i) = Hash[n] + i
             /\ Hash[n] + i >= MACNBR => Slot(n, i) = Hash[n] + i - MACNBR
  <2>1. PICK m \in Nat \ {0} : m = MACNBR
    BY <1>1
  <2>2. PICK a \in 0 .. 2 * m - 1 : a = Hash[n] + i
    BY <1>1, <2>1 DEF Slots
  <2>3. (a < m => a % m = a) /\ (a >= m => a % m = a - m)
    BY ModIs
  <2>4. Slot(n, i) = a % m
    BY <2>1, <2>2, Zenon DEF Slot
  <2> QED
    BY <1>1, <2>1, <2>2, <2>3, <2>4 DEF Slots
<1>3. \A i \in Slots : Slot(n, i) \in Slots
  BY <1>1, <1>2 DEF Slots
<1>4. \A i, j \in Slots : Slot(n, i) = Slot(n, j) => i = j
  BY <1>1, <1>2 DEF Slots
<1>5. ASSUME NEW s \in Slots
      PROVE  \E i \in Slots : Slot(n, i) = s
  <2>1. CASE s >= Hash[n]
    <3>1. s - Hash[n] \in Slots
      BY <1>1, <2>1 DEF Slots
    <3>2. Slot(n, s - Hash[n]) = s
      BY <1>1, <1>2, <3>1 DEF Slots
    <3> QED
      BY <3>1, <3>2
  <2>2. CASE s < Hash[n]
    <3>1. s - Hash[n] + MACNBR \in Slots
      BY <1>1, <2>2 DEF Slots
    <3>2. Slot(n, s - Hash[n] + MACNBR) = s
      BY <1>1, <1>2, <3>1 DEF Slots
    <3> QED
      BY <3>1, <3>2
  <2> QED
    BY <1>1, <2>1, <2>2 DEF Slots
<1> QED
  BY <1>3, <1>4, <1>5

(* The least element of a set of natural numbers.                          *)
LEMMA MinIs ==
    ASSUME NEW S \in SUBSET Nat, S # {}
    PROVE  Min(S) \in S /\ Min(S) \in Nat /\ \A x \in S : Min(S) <= x
<1>1. \E s \in S : \A x \in S : s <= x
  BY LeastNat
<1> QED
  BY <1>1 DEF Min

-----------------------------------------------------------------------------
(* A table with a use of its slots that the search relies on.              *)
Sound(T) ==
    /\ T \in [Slots -> [name : Names \cup {NULL, TOMBSTONE}, at : Nat]]
    /\ \A s, t \in Slots : T[s].name \in Names /\ T[s].name = T[t].name => s = t
    /\ \A n \in Names : \A i \in Slots :
          T[Slot(n, i)].name = n => \A j \in 0 .. i - 1 : T[Slot(n, j)].name # NULL

(* findMacro, of any table.                                                *)
Find(T, n) ==
  LET At(i)  == T[Slot(n, i)].name
      last   == Min({i \in 0 .. MACNBR - 1 : At(i) = NULL} \cup {MACNBR})
      passed == 0 .. last - 1
      hits   == {i \in passed : At(i) = n}
      tombs  == {i \in passed : At(i) = TOMBSTONE}
      free   == tombs \cup (IF last < MACNBR THEN {last} ELSE {})
  IN [found |-> hits # {},
      cptr  |-> IF hits # {} THEN Slot(n, Min(hits))
                ELSE IF free # {} THEN Slot(n, Min(free)) ELSE -1]

(* Where a name may be put that is not there.                              *)
Opening(T, n, s) ==
    /\ s \in Slots /\ T[s].name \notin Names
    /\ \E i \in Slots : s = Slot(n, i) /\ \A j \in 0 .. i - 1 : T[Slot(n, j)].name # NULL

(* The search finds the slot that has the name, if there is one, and else  *)
(* a slot to put it in, unless all slots have names.                       *)
LEMMA FindIs ==
    ASSUME NEW T, Sound(T), NEW n \in Names
    PROVE  /\ Find(T, n).found <=> \E s \in Slots : T[s].name = n
           /\ \A s \in Slots : T[s].name = n => Find(T, n).cptr = s
           /\ ~Find(T, n).found =>
                 IF \A s \in Slots : T[s].name \in Names THEN Find(T, n).cptr = -1
                 ELSE Opening(T, n, Find(T, n).cptr)
<1> DEFINE At(i)  == T[Slot(n, i)].name
           last   == Min({i \in 0 .. MACNBR - 1 : At(i) = NULL} \cup {MACNBR})
           hits   == {i \in 0 .. last - 1 : At(i) = n}
           tombs  == {i \in 0 .. last - 1 : At(i) = TOMBSTONE}
           free   == tombs \cup (IF last < MACNBR THEN {last} ELSE {})
<1>1. MACNBR \in Nat \ {0}
  BY TableAssumption DEF TableAssumption
<1>2. /\ Find(T, n).found <=> hits # {}
      /\ hits # {} => Find(T, n).cptr = Slot(n, Min(hits))
      /\ hits = {} /\ free # {} => Find(T, n).cptr = Slot(n, Min(free))
      /\ hits = {} /\ free = {} => Find(T, n).cptr = -1
  BY DEF Find
<1>3. /\ last \in 0 .. MACNBR
      /\ \A i \in 0 .. last - 1 : i \in Slots /\ At(i) # NULL
      /\ last < MACNBR => At(last) = NULL
  <2> DEFINE S == {i \in 0 .. MACNBR - 1 : At(i) = NULL} \cup {MACNBR}
  <2>1. S \in SUBSET Nat /\ S # {}
    BY <1>1
  <2>2. Min(S) \in S /\ Min(S) \in Nat /\ \A x \in S : Min(S) <= x
    <3> HIDE DEF S
    <3> QED
      BY <2>1, MinIs
  <2>3. last = Min(S)
    OBVIOUS
  <2>4. last \in S /\ last \in Nat /\ \A x \in S : last <= x
    BY <2>2, <2>3
  <2> HIDE DEF last
  <2>5. last \in 0 .. MACNBR /\ (last < MACNBR => At(last) = NULL)
    BY <1>1, <2>4
  <2>6. ASSUME NEW i \in 0 .. last - 1
        PROVE  i \in Slots /\ At(i) # NULL
    <3>1. i \in 0 .. MACNBR - 1 /\ ~(last <= i)
      BY <1>1, <2>5
    <3>2. i \notin S
      BY <2>4, <3>1
    <3> QED
      BY <3>1, <3>2 DEF Slots
  <2> QED
    BY <2>5, <2>6
<1> HIDE DEF last
<1>4. ASSUME NEW s \in Slots, T[s].name = n
      PROVE  hits # {} /\ Find(T, n).cptr = s
  <2>1. PICK i \in Slots : Slot(n, i) = s
    BY SlotIs
  <2>2. \A j \in 0 .. i - 1 : At(j) # NULL
    BY <1>4, <2>1 DEF Sound
  <2>3. n # NULL
    BY NamesAssumption DEF NamesAssumption, NULL
  <2>4. i \in 0 .. last - 1
    <3>1. SUFFICES ASSUME last <= i PROVE FALSE
      BY <1>1, <1>3 DEF Slots
    <3>2. last < MACNBR
      BY <1>1, <1>3, <3>1 DEF Slots
    <3>3. At(last) = NULL
      BY <1>3, <3>2
    <3>4. last \in 0 .. i - 1 \/ last = i
      BY <1>3, <3>1 DEF Slots
    <3> QED
      BY <1>4, <2>1, <2>2, <2>3, <3>3, <3>4
  <2>5. i \in hits
    BY <1>4, <2>1, <2>4
  <2>6. \A j \in hits : j = i
    <3>1. ASSUME NEW j \in hits
          PROVE  j = i
      <4>1. j \in Slots /\ Slot(n, j) \in Slots /\ T[Slot(n, j)].name = n
        BY <1>3, SlotIs
      <4>2. Slot(n, j) = s
        BY <1>4, <4>1 DEF Sound
      <4> QED
        BY <2>1, <4>1, <4>2, SlotIs
    <3> QED
      BY <3>1
  <2>7. hits = {i}
    BY <2>5, <2>6
  <2>8. Min(hits) = i
    <3>1. hits \in SUBSET Nat /\ hits # {}
      BY <2>7 DEF Slots
    <3> HIDE DEF hits
    <3>2. Min(hits) \in hits
      BY <3>1, MinIs
    <3> QED
      BY <2>7, <3>2
  <2> QED
    BY <1>2, <2>1, <2>5, <2>8
<1>5. ASSUME hits # {}
      PROVE  \E s \in Slots : T[s].name = n
  <2>1. PICK i \in hits : TRUE
    BY <1>5
  <2>2. i \in Slots /\ T[Slot(n, i)].name = n
    BY <1>3
  <2> QED
    BY <2>2, SlotIs
<1>6. ASSUME hits = {}, free # {}
      PROVE  Opening(T, n, Find(T, n).cptr)
  <2>1. free \in SUBSET Slots
    BY <1>1, <1>3 DEF Slots
  <2>2. PICK i \in free : i = Min(free)
    <3>1. free \in SUBSET Nat
      BY <2>1 DEF Slots
    <3> HIDE DEF free
    <3> QED
      BY <1>6, <3>1, MinIs
  <2>3. Find(T, n).cptr = Slot(n, i)
    <3> HIDE DEF hits, free
    <3> QED
      BY <1>2, <1>6, <2>2
  <2>4. i \in Slots /\ i <= last /\ At(i) \in {NULL, TOMBSTONE}
    BY <1>3, <2>1
  <2>5. \A j \in 0 .. i - 1 : At(j) # NULL
    <3>1. \A j \in 0 .. i - 1 : j \in 0 .. last - 1
      BY <1>3, <2>4 DEF Slots
    <3> QED
      BY <1>3, <3>1
  <2>6. NULL \notin Names /\ TOMBSTONE \notin Names
    BY NamesAssumption DEF NamesAssumption, NULL, TOMBSTONE
  <2>7. Slot(n, i) \in Slots /\ T[Slot(n, i)].name \notin Names
    BY <2>4, <2>6, SlotIs
  <2>8. Opening(T, n, Slot(n, i))
    BY <2>4, <2>5, <2>7, Zenon DEF Opening
  <2> QED
    BY <2>3, <2>8, Zenon
<1>7. ASSUME free = {}
      PROVE  \A s \in Slots : T[s].name \in Names
  <2>1. last = MACNBR
    BY <1>1, <1>3, <1>7
  <2>2. ASSUME NEW s \in Slots
        PROVE  T[s].name \in Names
    <3>1. PICK i \in Slots : Slot(n, i) = s
      BY SlotIs
    <3>2. i \in 0 .. last - 1
      BY <2>1, <3>1 DEF Slots
    <3>3. At(i) # NULL /\ At(i) # TOMBSTONE
      BY <1>3, <1>7, <3>2
    <3> QED
      BY <3>1, <3>3 DEF Sound
  <2> QED
    BY <2>2
<1>8. ASSUME free # {}
      PROVE  hits # {} \/ ~\A s \in Slots : T[s].name \in Names
  BY <1>6, <1>8 DEF Opening
<1> HIDE DEF hits, free
<1> QED
  BY <1>2, <1>4, <1>5, <1>6, <1>7, <1>8

-----------------------------------------------------------------------------
(* Lines and the string queue.                                             *)
Fine(item) == /\ item = <<item[1], item[2]>> /\ item[1] # "nul"
              /\ item[1] = "id" => item[2] \in Names
AreFine(S) == \A x \in S : Fine(x)
IsLine(l) == \E S : AreFine(S) /\ l \in Seq(S)
IsQueue(Q) == \E S : AreFine(S) /\ Q \in Seq(S \cup {Nul})

LEMMA FineIsNotNul == \A x : Fine(x) => x # Nul
BY DEF Fine, Nul

(* What is in a line, and lines of one another.                            *)
LEMMA LineHas ==
    ASSUME NEW l, IsLine(l)
    PROVE  /\ Len(l) \in Nat /\ \A i \in 1 .. Len(l) : Fine(l[i])
           /\ l # <<>> => Len(l) > 0 /\ IsLine(Tail(l))
<1>1. PICK S : AreFine(S) /\ l \in Seq(S)
  BY DEF IsLine
<1>2. Len(l) \in Nat /\ \A i \in 1 .. Len(l) : l[i] \in S
  BY <1>1, ElementOfSeq, LenProperties
<1>3. l # <<>> => Len(l) > 0 /\ Tail(l) \in Seq(S)
  BY <1>1, EmptySeq, HeadTailProperties
<1> QED
  BY <1>1, <1>2, <1>3 DEF IsLine, AreFine

LEMMA QueueLen ==
    ASSUME NEW Q, IsQueue(Q)
    PROVE  Len(Q) \in Nat
BY LenProperties DEF IsQueue

(* The text of a macro in a queue, as Text reads it in macq.               *)
TextOf(Q, at) == SubSeq(Q, at + 1, Min({i \in at + 1 .. Len(Q) : Q[i] = Nul}) - 1)
Ends(Q, at) == at \in Nat /\ \E i \in at + 1 .. Len(Q) : Q[i] = Nul

EndsAt(S, Q, at, e) ==
    /\ e \in at + 1 .. Len(Q) /\ Q[e] = Nul
    /\ \A i \in at + 1 .. e - 1 : Q[i] # Nul
    /\ TextOf(Q, at) = SubSeq(Q, at + 1, e - 1) /\ TextOf(Q, at) \in Seq(S)

(* Where a text ends, and that nothing in it is a null.                    *)
LEMMA TextIs ==
    ASSUME NEW S, AreFine(S), NEW Q \in Seq(S \cup {Nul}), NEW at, Ends(Q, at)
    PROVE  \E e \in Nat : EndsAt(S, Q, at, e)
<1> DEFINE Nuls == {i \in at + 1 .. Len(Q) : Q[i] = Nul}
<1>1. Len(Q) \in Nat /\ at \in Nat
  BY LenProperties DEF Ends
<1>2. Nuls \in SUBSET Nat /\ Nuls # {}
  BY <1>1 DEF Ends
<1>3. PICK e \in Nat : e = Min(Nuls) /\ e \in Nuls /\ \A i \in Nuls : e <= i
  <2> HIDE DEF Nuls
  <2> QED
    BY <1>2, MinIs
<1>4. ASSUME NEW i \in at + 1 .. e - 1
      PROVE  Q[i] # Nul /\ Q[i] \in S
  <2>1. i \in at + 1 .. Len(Q) /\ ~(e <= i)
    BY <1>1, <1>3
  <2>2. Q[i] # Nul
    BY <1>3, <2>1
  <2>3. i \in 1 .. Len(Q)
    BY <1>1, <2>1
  <2> QED
    BY <2>2, <2>3, ElementOfSeq
<1>5. TextOf(Q, at) = SubSeq(Q, at + 1, e - 1)
  BY <1>3 DEF TextOf
<1>6. SubSeq(Q, at + 1, e - 1) \in Seq(S)
  BY <1>1, <1>3, <1>4, SubSeqProperties
<1>7. EndsAt(S, Q, at, e)
  BY <1>3, <1>4, <1>5, <1>6 DEF EndsAt
<1> QED
  BY <1>7

(* Subsequences of sequences that are alike there.                         *)
LEMMA SubSeqAlike ==
    ASSUME NEW U, NEW s, NEW t, NEW a \in Int, NEW b \in Int,
           \A i \in a .. b : s[i] \in U /\ t[i] \in U, \A i \in a .. b : t[i] = s[i]
    PROVE  SubSeq(s, a, b) = SubSeq(t, a, b)
<1>1. PICK x : x = SubSeq(s, a, b)
  OBVIOUS
<1>2. PICK y : y = SubSeq(t, a, b)
  OBVIOUS
<1>3. /\ x \in Seq(U) /\ Len(x) = IF a <= b THEN b - a + 1 ELSE 0
      /\ \A i \in 1 .. b - a + 1 : x[i] = s[a + i - 1]
  BY <1>1, SubSeqProperties
<1>4. /\ y \in Seq(U) /\ Len(y) = IF a <= b THEN b - a + 1 ELSE 0
      /\ \A i \in 1 .. b - a + 1 : y[i] = t[a + i - 1]
  BY <1>2, SubSeqProperties
<1>5. \A i \in 1 .. Len(x) : i \in 1 .. b - a + 1 /\ a + i - 1 \in a .. b
  BY <1>3
<1>6. \A i \in 1 .. Len(x) : x[i] = y[i]
  BY <1>3, <1>4, <1>5
<1>7. x = y
  BY <1>3, <1>4, <1>6, SeqEqual
<1> QED
  BY <1>1, <1>2, <1>7

(* What is put behind a text does not change it.                           *)
LEMMA TextStays ==
    ASSUME NEW S, AreFine(S), NEW Q \in Seq(S \cup {Nul}), NEW v \in Seq(S \cup {Nul}),
           NEW at, Ends(Q, at)
    PROVE  Ends(Q \o v, at) /\ TextOf(Q \o v, at) = TextOf(Q, at)
<1>1. PICK e \in Nat : EndsAt(S, Q, at, e)
  BY TextIs
<1>2. PICK R \in Seq(S \cup {Nul}) : R = Q \o v
  BY ConcatProperties
<1>3. /\ Len(R) = Len(Q) + Len(v) /\ Len(Q) \in Nat /\ Len(v) \in Nat /\ at \in Nat
      /\ \A i \in 1 .. Len(Q) + Len(v) : R[i] = IF i <= Len(Q) THEN Q[i] ELSE v[i - Len(Q)]
  BY <1>2, ConcatProperties, LenProperties DEF Ends
<1>4. \A i \in at + 1 .. e : R[i] = Q[i]
  BY <1>1, <1>3 DEF EndsAt
<1>5. R[e] = Nul /\ e \in at + 1 .. Len(R)
  BY <1>1, <1>3, <1>4 DEF EndsAt
<1>6. Ends(R, at)
  BY <1>3, <1>5 DEF Ends
<1>7. PICK d \in Nat : EndsAt(S, R, at, d)
  BY <1>6, TextIs
<1>8. ~(e < d)
  BY <1>3, <1>5, <1>7 DEF EndsAt
<1>9. ~(d < e)
  <2>1. SUFFICES ASSUME d < e PROVE FALSE
    OBVIOUS
  <2>2. d \in at + 1 .. e - 1 /\ d \in at + 1 .. e
    BY <1>3, <1>7, <2>1 DEF EndsAt
  <2> QED
    BY <1>1, <1>4, <1>7, <2>2 DEF EndsAt
<1>10. d = e
  BY <1>8, <1>9
<1>11. PICK a \in Int : a = at + 1
  BY <1>3
<1>12. PICK b \in Int : b = e - 1
  OBVIOUS
<1>13. PICK U : U = S \cup {Nul}
  OBVIOUS
<1>14. \A i \in a .. b : i \in 1 .. Len(Q) /\ i \in 1 .. Len(R) /\ i \in at + 1 .. e
  BY <1>1, <1>3, <1>11, <1>12 DEF EndsAt
<1>15. \A i \in a .. b : R[i] = Q[i]
  BY <1>4, <1>14
<1>16. \A i \in a .. b : Q[i] \in U /\ R[i] \in U
  BY <1>13, <1>14, ElementOfSeq
<1>17. SubSeq(Q, a, b) = SubSeq(R, a, b)
  BY <1>15, <1>16, SubSeqAlike
<1> QED
  BY <1>1, <1>2, <1>6, <1>7, <1>10, <1>11, <1>12, <1>17 DEF EndsAt

(* What is put behind a queue, with a null behind it, is the text there.   *)
LEMMA TextComes ==
    ASSUME NEW S, AreFine(S), NEW Q \in Seq(S \cup {Nul}), NEW w \in Seq(S)
    PROVE  /\ Append(w, Nul) \in Seq(S \cup {Nul})
           /\ Ends(Q \o Append(w, Nul), Len(Q))
           /\ TextOf(Q \o Append(w, Nul), Len(Q)) = w
<1>1. PICK v : v = Append(w, Nul)
  OBVIOUS
<1>2. w \in Seq(S \cup {Nul}) /\ Len(w) \in Nat /\ Len(Q) \in Nat
  BY SeqMonotonic, LenProperties
<1>3. /\ v \in Seq(S \cup {Nul}) /\ Len(v) = Len(w) + 1
      /\ v[Len(w) + 1] = Nul /\ \A i \in 1 .. Len(w) : v[i] = w[i]
  BY <1>1, <1>2
<1>4. PICK R \in Seq(S \cup {Nul}) : R = Q \o v
  BY <1>3, ConcatProperties
<1>5. /\ Len(R) = Len(Q) + Len(v)
      /\ \A i \in 1 .. Len(Q) + Len(v) : R[i] = IF i <= Len(Q) THEN Q[i] ELSE v[i - Len(Q)]
  <2>1. v \in Seq(S \cup {Nul}) /\ R = Q \o v
    BY <1>3, <1>4
  <2> QED
    BY <2>1, ConcatProperties
<1>6. \A i \in 1 .. Len(w) : R[Len(Q) + i] = w[i]
  <2>1. \A i \in 1 .. Len(w) : /\ Len(Q) + i \in 1 .. Len(Q) + Len(v) /\ ~(Len(Q) + i <= Len(Q))
                               /\ Len(Q) + i - Len(Q) = i
    BY <1>2, <1>3
  <2> QED
    BY <1>3, <1>5, <2>1
<1>7. R[Len(Q) + Len(w) + 1] = Nul /\ Len(Q) + Len(w) + 1 = Len(R)
  <2>1. /\ Len(R) \in 1 .. Len(Q) + Len(v) /\ ~(Len(R) <= Len(Q)) /\ Len(R) - Len(Q) = Len(w) + 1
        /\ Len(Q) + Len(w) + 1 = Len(R)
    BY <1>2, <1>3, <1>5
  <2> QED
    BY <1>3, <1>5, <2>1
<1>8. Ends(R, Len(Q))
  BY <1>2, <1>7 DEF Ends
<1>9. PICK e \in Nat : EndsAt(S, R, Len(Q), e)
  BY <1>8, TextIs
<1>10. \A i \in 1 .. Len(w) : w[i] # Nul
  BY <1>2, ElementOfSeq, FineIsNotNul DEF AreFine
<1>11. e = Len(Q) + Len(w) + 1
  <2>1. ~(e > Len(Q) + Len(w) + 1)
    BY <1>2, <1>7, <1>9 DEF EndsAt
  <2>2. ~(e <= Len(Q) + Len(w))
    <3>1. SUFFICES ASSUME e <= Len(Q) + Len(w) PROVE FALSE
      OBVIOUS
    <3>2. PICK i \in 1 .. Len(w) : e = Len(Q) + i
      <4>1. e - Len(Q) \in 1 .. Len(w) /\ e = Len(Q) + (e - Len(Q))
        BY <1>2, <1>7, <1>9, <3>1 DEF EndsAt
      <4> QED
        BY <4>1
    <3> QED
      BY <1>6, <1>9, <1>10, <3>2 DEF EndsAt
  <2> QED
    BY <1>2, <2>1, <2>2
<1>12. TextOf(R, Len(Q)) = SubSeq(R, Len(Q) + 1, Len(Q) + Len(w))
  BY <1>2, <1>9, <1>11 DEF EndsAt
<1>13. PICK a \in Int : a = Len(Q) + 1
  BY <1>2
<1>14. PICK b \in Int : b = Len(Q) + Len(w)
  BY <1>2
<1>15. PICK U : U = S \cup {Nul}
  OBVIOUS
<1>16. \A i \in a .. b : R[i] \in U
  <2>1. \A i \in a .. b : i \in 1 .. Len(R)
    BY <1>2, <1>7, <1>13, <1>14
  <2> QED
    BY <1>15, <2>1, ElementOfSeq
<1>17. PICK x : x = SubSeq(R, a, b)
  OBVIOUS
<1>18. /\ x \in Seq(U) /\ Len(x) = IF a <= b THEN b - a + 1 ELSE 0
       /\ \A i \in 1 .. b - a + 1 : x[i] = R[a + i - 1]
  BY <1>16, <1>17, SubSeqProperties
<1>19. Len(x) = Len(w)
  BY <1>2, <1>13, <1>14, <1>18
<1>20. \A i \in 1 .. Len(x) : x[i] = w[i]
  <2>1. \A i \in 1 .. Len(w) : i \in 1 .. b - a + 1 /\ a + i - 1 = Len(Q) + i
    BY <1>2, <1>13, <1>14
  <2> QED
    BY <1>6, <1>18, <1>19, <2>1
<1>21. x = w
  BY <1>2, <1>15, <1>18, <1>19, <1>20, SeqEqual
<1> QED
  BY <1>1, <1>3, <1>4, <1>8, <1>12, <1>13, <1>14, <1>17, <1>21

-----------------------------------------------------------------------------
(* The two updates of the table.                                           *)
Removed(T, s)     == [T EXCEPT ![s].name = TOMBSTONE]
Placed(T, s, n, a) == [T EXCEPT ![s] = [name |-> n, at |-> a]]

LEMMA NamesAre ==
    /\ NULL \notin Names /\ TOMBSTONE \notin Names
    /\ NULL # TOMBSTONE
BY NamesAssumption DEF NamesAssumption, NULL, TOMBSTONE

LEMMA RemovedIs ==
    ASSUME NEW T, Sound(T), NEW s \in Slots
    PROVE  /\ Sound(Removed(T, s))
           /\ \A t \in Slots : t # s => Removed(T, s)[t] = T[t]
           /\ Removed(T, s)[s].name = TOMBSTONE
<1>1. PICK R : R = Removed(T, s)
  OBVIOUS
<1>2. T \in [Slots -> [name : Names \cup {NULL, TOMBSTONE}, at : Nat]]
  BY DEF Sound
<1>3. /\ R \in [Slots -> [name : Names \cup {NULL, TOMBSTONE}, at : Nat]]
      /\ \A t \in Slots : t # s => R[t] = T[t]
      /\ R[s].name = TOMBSTONE
  BY <1>1, <1>2 DEF Removed
<1>4. \A t \in Slots : R[t].name \in Names => t # s
  BY <1>3, NamesAre
<1>5. \A t, u \in Slots : R[t].name \in Names /\ R[t].name = R[u].name => t = u
  BY <1>3, <1>4 DEF Sound
<1>6. ASSUME NEW n \in Names, NEW i \in Slots, R[Slot(n, i)].name = n, NEW j \in 0 .. i - 1
      PROVE  R[Slot(n, j)].name # NULL
  <2>1. j \in Slots
    BY TableAssumption DEF TableAssumption, Slots
  <2>2. Slot(n, i) \in Slots /\ Slot(n, j) \in Slots
    BY <2>1, SlotIs
  <2>3. T[Slot(n, i)].name = n
    BY <1>3, <1>4, <1>6, <2>2
  <2>4. T[Slot(n, j)].name # NULL
    BY <2>3 DEF Sound
  <2> QED
    BY <1>3, <2>2, <2>4, NamesAre
<1>7. Sound(R)
  BY <1>3, <1>5, <1>6 DEF Sound
<1> QED
  BY <1>1, <1>3, <1>7

Fits(T, n, s) == Sound(T) /\ n \in Names /\ s = Find(T, n).cptr /\ s # -1

LEMMA PlacedIs ==
    ASSUME NEW T, NEW n, NEW s, Fits(T, n, s), NEW a \in Nat
    PROVE  /\ s \in Slots /\ T[s].name \notin Names \ {n}
           /\ Sound(Placed(T, s, n, a))
           /\ \A t \in Slots : t # s => Placed(T, s, n, a)[t] = T[t]
           /\ Placed(T, s, n, a)[s] = [name |-> n, at |-> a]
<1>1. Sound(T) /\ n \in Names /\ s = Find(T, n).cptr /\ s # -1
  BY DEF Fits
<1> USE <1>1
<1>2. \/ s \in Slots /\ T[s].name = n
      \/ Opening(T, n, s) /\ \A t \in Slots : T[t].name # n
  BY <1>1, FindIs
<1>3. s \in Slots /\ T[s].name \notin Names \ {n}
  BY <1>2 DEF Opening
<1>4. PICK R : R = Placed(T, s, n, a)
  OBVIOUS
<1>5. T \in [Slots -> [name : Names \cup {NULL, TOMBSTONE}, at : Nat]]
  BY DEF Sound
<1>6. /\ R \in [Slots -> [name : Names \cup {NULL, TOMBSTONE}, at : Nat]]
      /\ \A t \in Slots : t # s => R[t] = T[t]
      /\ R[s] = [name |-> n, at |-> a]
  BY <1>3, <1>4, <1>5 DEF Placed
<1>7. \A t \in Slots : T[t].name = n => t = s
  BY <1>2, <1>3 DEF Sound
<1>8. \A t, u \in Slots : R[t].name \in Names /\ R[t].name = R[u].name => t = u
  <2>1. \A t \in Slots : t # s => R[t].name # n
    BY <1>6, <1>7
  <2>2. R[s].name = n
    BY <1>6
  <2> QED
    BY <1>6, <2>1, <2>2 DEF Sound
<1>9. ASSUME NEW k \in Names, NEW i \in Slots, R[Slot(k, i)].name = k, NEW j \in 0 .. i - 1
      PROVE  R[Slot(k, j)].name # NULL
  <2>1. j \in Slots
    BY TableAssumption DEF TableAssumption, Slots
  <2>2. Slot(k, i) \in Slots /\ Slot(k, j) \in Slots
    BY <2>1, SlotIs
  <2>3. T[Slot(k, j)].name # NULL
    <3>1. CASE T[Slot(k, i)].name = k
      BY <3>1 DEF Sound
    <3>2. CASE T[Slot(k, i)].name # k
      <4>1. Slot(k, i) = s /\ k = n
        BY <1>6, <1>9, <2>2, <3>2
      <4>2. Opening(T, n, s)
        BY <1>2, <3>2, <4>1
      <4>3. PICK o \in Slots : s = Slot(n, o) /\ \A l \in 0 .. o - 1 : T[Slot(n, l)].name # NULL
        BY <4>2 DEF Opening
      <4>4. o = i
        BY <4>1, <4>3, SlotIs
      <4> QED
        BY <4>1, <4>3, <4>4
    <3> QED
      BY <3>1, <3>2
  <2>4. R[s].name # NULL
    BY <1>6, NamesAre
  <2> QED
    BY <1>6, <2>2, <2>3, <2>4
<1>10. Sound(R)
  BY <1>6, <1>8, <1>9 DEF Sound
<1> QED
  BY <1>1, <1>3, <1>4, <1>6, <1>10

-----------------------------------------------------------------------------
(* The table with its texts, as a map.                                     *)
Kept(T, Q) ==
    /\ Sound(T) /\ IsQueue(Q)
    /\ \A s \in Slots : T[s].name \in Names => Ends(Q, T[s].at)

MacroOf(T, Q, n) ==
  LET m == Find(T, n) IN IF m.found THEN <<TextOf(Q, T[m.cptr].at)>> ELSE <<>>

(* A macro is what its slot says, and nothing without a slot.              *)
LEMMA MacroIs ==
    ASSUME NEW T, NEW Q, Sound(T), NEW n \in Names
    PROVE  /\ \A s \in Slots : T[s].name = n => MacroOf(T, Q, n) = <<TextOf(Q, T[s].at)>>
           /\ (\A s \in Slots : T[s].name # n) => MacroOf(T, Q, n) = <<>>
BY FindIs DEF MacroOf

(* #undef of a macro that is there.                                        *)
LEMMA MacroGoes ==
    ASSUME NEW T, NEW Q, Kept(T, Q), NEW n \in Names, Find(T, n).found
    PROVE  LET R == Removed(T, Find(T, n).cptr)
           IN /\ Kept(R, Q)
              /\ \A k \in Names : MacroOf(R, Q, k) = IF k = n THEN <<>> ELSE MacroOf(T, Q, k)
<1>1. Sound(T) /\ IsQueue(Q) /\ \A s \in Slots : T[s].name \in Names => Ends(Q, T[s].at)
  BY DEF Kept
<1>2. PICK s \in Slots : T[s].name = n /\ Find(T, n).cptr = s
  BY <1>1, FindIs
<1>3. PICK R : R = Removed(T, s)
  OBVIOUS
<1>4. Sound(R) /\ (\A t \in Slots : t # s => R[t] = T[t]) /\ R[s].name = TOMBSTONE
  BY <1>1, <1>3, RemovedIs
<1>5. Kept(R, Q)
  BY <1>1, <1>4, NamesAre DEF Kept
<1>6. \A t \in Slots : R[t].name # n
  BY <1>1, <1>2, <1>4, NamesAre DEF Sound
<1>7. ASSUME NEW k \in Names
      PROVE  MacroOf(R, Q, k) = IF k = n THEN <<>> ELSE MacroOf(T, Q, k)
  <2>1. CASE k = n
    BY <1>4, <1>6, <2>1, MacroIs
  <2>2. CASE k # n /\ \A t \in Slots : T[t].name # k
    <3>1. \A t \in Slots : R[t].name # k
      BY <1>4, <2>2, NamesAre
    <3>2. MacroOf(R, Q, k) = <<>> /\ MacroOf(T, Q, k) = <<>>
      BY <1>1, <1>4, <2>2, <3>1, MacroIs
    <3> QED
      BY <2>2, <3>2
  <2>3. CASE k # n /\ \E t \in Slots : T[t].name = k
    <3>1. PICK t \in Slots : T[t].name = k
      BY <2>3
    <3>2. R[t] = T[t]
      BY <1>2, <1>4, <2>3, <3>1
    <3>3. MacroOf(R, Q, k) = <<TextOf(Q, R[t].at)>> /\ MacroOf(T, Q, k) = <<TextOf(Q, T[t].at)>>
      BY <1>1, <1>4, <3>1, <3>2, MacroIs
    <3> QED
      BY <2>3, <3>2, <3>3
  <2> QED
    BY <2>1, <2>2, <2>3
<1> QED
  BY <1>2, <1>3, <1>5, <1>7

Gains(T, Q, n, w, R, P) ==
    /\ Kept(R, P)
    /\ \A k \in Names : MacroOf(R, P, k) = IF k = n THEN <<w>> ELSE MacroOf(T, Q, k)

(* #define of a macro, with w for its text.                                *)
LEMMA MacroComes ==
    ASSUME NEW T, NEW Q, Kept(T, Q), NEW n, NEW s, Fits(T, n, s), NEW w, IsLine(w)
    PROVE  Gains(T, Q, n, w, Placed(T, s, n, Len(Q)), Q \o Append(w, Nul))
<1>1. Sound(T) /\ IsQueue(Q) /\ \A t \in Slots : T[t].name \in Names => Ends(Q, T[t].at)
  BY DEF Kept
<1>2. PICK A : AreFine(A) /\ Q \in Seq(A \cup {Nul})
  BY <1>1 DEF IsQueue
<1>3. PICK B : AreFine(B) /\ w \in Seq(B)
  BY DEF IsLine
<1>4. PICK S : S = A \cup B
  OBVIOUS
<1>5. AreFine(S) /\ Q \in Seq(S \cup {Nul}) /\ w \in Seq(S)
  <2>1. A \cup {Nul} \subseteq S \cup {Nul} /\ B \subseteq S
    BY <1>4
  <2> QED
    BY <1>2, <1>3, <1>4, <2>1, SeqMonotonic DEF AreFine
<1>6. PICK v : v = Append(w, Nul)
  OBVIOUS
<1>7. PICK P : P = Q \o v
  OBVIOUS
<1>8. /\ v \in Seq(S \cup {Nul}) /\ Ends(P, Len(Q)) /\ TextOf(P, Len(Q)) = w
  BY <1>5, <1>6, <1>7, TextComes
<1>9. \A at : Ends(Q, at) => Ends(P, at) /\ TextOf(P, at) = TextOf(Q, at)
  <2>1. v \in Seq(S \cup {Nul})
    BY <1>8
  <2> QED
    BY <1>5, <1>7, <2>1, TextStays
<1>10. IsQueue(P)
  <2>1. P \in Seq(S \cup {Nul})
    BY <1>5, <1>7, <1>8, ConcatProperties
  <2> QED
    BY <1>5, <2>1 DEF IsQueue
<1>11. Len(Q) \in Nat
  BY <1>5, LenProperties
<1>12. n \in Names
  BY DEF Fits
<1>13. PICK R : R = Placed(T, s, n, Len(Q))
  OBVIOUS
<1>14. /\ s \in Slots /\ T[s].name \notin Names \ {n}
       /\ Sound(R) /\ \A t \in Slots : t # s => R[t] = T[t]
       /\ R[s] = [name |-> n, at |-> Len(Q)]
  BY <1>1, <1>11, <1>13, PlacedIs
<1>15. \A t \in Slots : R[t].name \in Names => Ends(P, R[t].at)
  BY <1>1, <1>8, <1>9, <1>14
<1>16. Kept(R, P)
  BY <1>10, <1>14, <1>15 DEF Kept
<1>17. ASSUME NEW k \in Names
       PROVE  MacroOf(R, P, k) = IF k = n THEN <<w>> ELSE MacroOf(T, Q, k)
  <2>1. CASE k = n
    <3>1. MacroOf(R, P, k) = <<TextOf(P, R[s].at)>>
      <4>1. R[s].name = k
        BY <1>14, <2>1
      <4> QED
        BY <1>14, <4>1, MacroIs
    <3> QED
      BY <1>8, <1>14, <2>1, <3>1
  <2>2. CASE k # n /\ \A t \in Slots : T[t].name # k
    <3>1. \A t \in Slots : R[t].name # k
      BY <1>14, <2>2
    <3>2. MacroOf(R, P, k) = <<>> /\ MacroOf(T, Q, k) = <<>>
      BY <1>1, <1>14, <2>2, <3>1, MacroIs
    <3> QED
      BY <2>2, <3>2
  <2>3. CASE k # n /\ \E t \in Slots : T[t].name = k
    <3>1. PICK t \in Slots : T[t].name = k
      BY <2>3
    <3>2. t # s /\ R[t] = T[t] /\ Ends(Q, T[t].at)
      BY <1>1, <1>14, <2>3, <3>1
    <3>3. MacroOf(R, P, k) = <<TextOf(P, R[t].at)>> /\ MacroOf(T, Q, k) = <<TextOf(Q, T[t].at)>>
      BY <1>1, <1>14, <3>1, <3>2, MacroIs
    <3> QED
      BY <1>9, <2>3, <3>2, <3>3
  <2> QED
    BY <2>1, <2>2, <2>3
<1>18. Gains(T, Q, n, w, R, P)
  BY <1>16, <1>17 DEF Gains
<1> QED
  BY <1>6, <1>7, <1>13, <1>18

-----------------------------------------------------------------------------
(* The files that are read, and the lines of them.                         *)
FilesOf(p) == {NoFile} \cup [path : DOMAIN p.files, pos : Nat \ {0}]
Places(p, X) == [filearg : Nat, input : FilesOf(p), lineno : X, infn : X,
                 input2 : FilesOf(p), inclno : X, inclfn : X,
                 stack : Seq([fd : FilesOf(p), no : X, fn : X]), mline : X]
Reading(p, g) ==
    /\ \E X : g \in Places(p, X)
    /\ Len(g.stack) <= MAXINCLUDE /\ (g.input2 # NoFile <=> Len(g.stack) > 0)
    /\ \A i \in 1 .. Len(g.stack) : g.stack[i].fd # NoFile <=> i > 1

(* The inductive invariant.                                                *)
Inv == /\ prog \in Programs /\ Reading(prog, f)
       /\ Kept(macn, macq) /\ IsLine(pline)

(* A line of a file, once there is one, is a line.                         *)
LEMMA LineIs ==
    ASSUME Inv, More
    PROVE  IsLine(Line)
<1>1. Unit \in FilesOf(prog)
  BY DEF Inv, Reading, Places, Unit
<1>2. /\ Unit.path \in DOMAIN prog.files /\ Unit.pos \in Nat \ {0}
      /\ Unit.pos <= Len(prog.files[Unit.path])
  BY <1>1 DEF More, FilesOf
<1>3. PICK lines \in Range(prog.files) : lines = prog.files[Unit.path]
  BY <1>2 DEF Range
<1>4. /\ lines \in Seq(Range(lines))
      /\ \A line \in Range(lines) : line \in Seq(Range(line)) /\ \A item \in Range(line) : Fine(item)
  <2>1. PICK p \in Programs : p = prog
    BY DEF Inv
  <2>2. lines \in Range(p.files)
    BY <1>3, <2>1
  <2>3. /\ lines \in Seq(Range(lines))
        /\ \A line \in Range(lines) :
             /\ line \in Seq(Range(line))
             /\ \A item \in Range(line) :
                  /\ item = <<item[1], item[2]>> /\ item[1] # "nul"
                  /\ item[1] = "id" => item[2] \in Names
    BY <2>2, ProgramsAssumption DEF ProgramsAssumption
  <2> QED
    BY <2>3, Zenon DEF Fine
<1>5. Unit.pos \in 1 .. Len(lines)
  BY <1>2, <1>3, <1>4, LenProperties
<1>6. PICK line \in Range(lines) : line = lines[Unit.pos]
  BY <1>4, <1>5, ElementOfSeq
<1>7. line = Line
  BY <1>3, <1>6 DEF Line
<1> QED
  BY <1>4, <1>6, <1>7 DEF IsLine, AreFine

-----------------------------------------------------------------------------
(* findMacro and Text are Find and TextOf of the table and the queue.      *)
LEMMA MacrosAre ==
    /\ \A n : findMacro(n) = Find(macn, n)
    /\ \A at : Text(at) = TextOf(macq, at)
    /\ \A n : Macro(n) = MacroOf(macn, macq, n)
    /\ \A n : Macro(n)' = MacroOf(macn', macq', n)
BY DEF findMacro, Find, Text, TextOf, Macro, MacroOf

(* What replaces an item is made of items that are fine, where the line,   *)
(* the queue and the two predefined macros have no others.                 *)
Items(S) == /\ AreFine(S) /\ macq \in Seq(S \cup {Nul})
            /\ \A i \in 1 .. Len(Line) : Line[i] \in S
            /\ <<"num", LineNo>> \in S /\ <<"str", FileName>> \in S

LEMMA ExpandIs ==
    ASSUME Inv, NEW S, Items(S), NEW item \in S
    PROVE  Expand(item) \in Seq(S)
<1>1. CASE item[1] = "pre"
  <2>1. /\ << <<"num", LineNo>> >> \in Seq(S) /\ << <<"str", FileName>> >> \in Seq(S)
        /\ <<>> \in Seq(S)
    BY DEF Items
  <2>2. tryExpandPredefined(item[2]) \in Seq(S)
    BY <2>1 DEF tryExpandPredefined
  <2> QED
    BY <1>1, <2>2 DEF Expand
<1>2. CASE item[1] # "pre" /\ ~(item[1] = "id" /\ findMacro(item[2]).found)
  <2>1. Expand(item) = <<item>>
    BY <1>2 DEF Expand
  <2> QED
    BY <2>1
<1>3. CASE item[1] # "pre" /\ item[1] = "id" /\ findMacro(item[2]).found
  <2>1. PICK n \in Names : n = item[2]
    BY <1>3 DEF Items, AreFine, Fine
  <2>2. Find(macn, n).found
    BY <1>3, <2>1, MacrosAre
  <2>3. PICK s \in Slots : macn[s].name = n /\ Find(macn, n).cptr = s
    BY <2>2, FindIs DEF Inv, Kept
  <2>4. Ends(macq, macn[s].at)
    BY <2>3 DEF Inv, Kept
  <2>5. TextOf(macq, macn[s].at) \in Seq(S)
    BY <2>4, TextIs DEF Items, EndsAt
  <2>6. Expand(item) = Text(macn[findMacro(item[2]).cptr].at)
    BY <1>3 DEF Expand
  <2>7. Expand(item) = TextOf(macq, macn[s].at)
    BY <2>1, <2>3, <2>6, MacrosAre
  <2> QED
    BY <2>5, <2>7
<1> QED
  BY <1>1, <1>2, <1>3

(* The line so far is a line after each item.                              *)
States(S) == [in : {"code", "comment", "rest"}, pl : Seq(S)]

LEMMA ScanIs ==
    ASSUME Inv, NEW S, Items(S), NEW s \in States(S), NEW item \in S
    PROVE  Scan(s, item) \in States(S)
<1>1. Expand(item) \in Seq(S)
  BY ExpandIs
<1>2. s.pl \in Seq(S)
  BY DEF States
<1>3. s.pl \o Expand(item) \in Seq(S)
  BY <1>1, <1>2, ConcatProperties
<1> QED
  BY <1>3 DEF Scan, States

LEMMA ScannedIs ==
    ASSUME Inv, Expands
    PROVE  IsLine(Expanded)
<1>1. IsLine(Line) /\ More /\ mode \in {"code", "comment"}
  BY LineIs DEF Expands
<1>2. PICK A : AreFine(A) /\ Line \in Seq(A)
  BY <1>1 DEF IsLine
<1>3. PICK B : AreFine(B) /\ pline \in Seq(B)
  BY DEF Inv, IsLine
<1>4. PICK C : AreFine(C) /\ macq \in Seq(C \cup {Nul})
  BY DEF Inv, Kept, IsQueue
<1>5. PICK D : D = {<<"num", LineNo>>, <<"str", FileName>>}
  OBVIOUS
<1>6. AreFine(D)
  BY <1>5 DEF AreFine, Fine
<1>7. PICK S : S = A \cup B \cup C \cup D
  OBVIOUS
<1>8. AreFine(S) /\ Line \in Seq(S) /\ pline \in Seq(S) /\ macq \in Seq(S \cup {Nul})
  <2>1. A \subseteq S /\ B \subseteq S /\ C \cup {Nul} \subseteq S \cup {Nul}
    BY <1>7
  <2>2. Line \in Seq(S) /\ pline \in Seq(S) /\ macq \in Seq(S \cup {Nul})
    BY <1>2, <1>3, <1>4, <2>1, SeqMonotonic
  <2> QED
    BY <1>2, <1>3, <1>4, <1>6, <1>7, <2>2 DEF AreFine
<1>9. Len(Line) \in Nat /\ \A i \in 1 .. Len(Line) : Line[i] \in S
  BY <1>8, ElementOfSeq, LenProperties
<1>10. Items(S)
  BY <1>5, <1>7, <1>8, <1>9 DEF Items
<1> DEFINE start == [in |-> mode, pl |-> pline]
           \* the states are numbered, for a step to know its item
           step == [d \in Nat \X States(S) |->
                      <<d[1] + 1, IF d[1] < Len(Line) THEN Scan(d[2], Line[d[1] + 1]) ELSE d[2]>>]
<1>11. start \in States(S)
  BY <1>1, <1>8 DEF States
<1>12. step \in [Nat \X States(S) -> Nat \X States(S)]
  <2>1. ASSUME NEW k \in Nat, NEW s \in States(S)
        PROVE  /\ <<k, s>> \in Nat \X States(S)
               /\ (IF k < Len(Line) THEN Scan(s, Line[k + 1]) ELSE s) \in States(S)
    <3>1. k < Len(Line) => Line[k + 1] \in S
      BY <1>9
    <3> QED
      BY <1>10, <3>1, ScanIs
  <2> QED
    BY <2>1
<1>13. PICK g : Iteration(g, Nat \X States(S), <<0, start>>, step, Len(Line))
  <2>1. Iterable(Nat \X States(S), <<0, start>>, step, Len(Line))
    BY <1>9, <1>11, <1>12 DEF Iterable
  <2> QED
    BY <2>1, Iterates
<1>14. /\ g \in [0 .. Len(Line) -> Nat \X States(S)] /\ g[0] = <<0, start>>
       /\ \A n \in 1 .. Len(Line) : g[n] = step[g[n - 1]]
  BY <1>13 DEF Iteration
<1> HIDE DEF start, step
<1>15. \A n \in 0 .. Len(Line) : g[n][1] = n
  <2> DEFINE a == [n \in 0 .. Len(Line) |-> g[n][1]]
             b == [n \in 0 .. Len(Line) |-> n]
  <2>1. a[0] = b[0]
    BY <1>9, <1>14
  <2>2. ASSUME NEW n \in 1 .. Len(Line), a[n - 1] = b[n - 1]
        PROVE  a[n] = b[n]
    <3>1. n \in 0 .. Len(Line) /\ n - 1 \in 0 .. Len(Line) /\ g[n - 1] \in Nat \X States(S)
      BY <1>9, <1>14
    <3>2. g[n - 1][1] = n - 1
      BY <2>2, <3>1
    <3>3. g[n][1] = g[n - 1][1] + 1
      <4>1. PICK d \in Nat \X States(S) : d = g[n - 1]
        BY <3>1
      <4>2. g[n] = step[d]
        BY <1>14, <4>1
      <4> QED
        BY <4>1, <4>2 DEF step
    <3> QED
      BY <1>9, <3>1, <3>2, <3>3
  <2>3. GoAlike(a, b, Len(Line))
    <3> HIDE DEF a, b
    <3> QED
      BY <1>9, <2>1, <2>2 DEF GoAlike
  <2>4. \A n \in 0 .. Len(Line) : a[n] = b[n]
    <3> HIDE DEF a, b
    <3> QED
      BY <2>3, Agree
  <2> QED
    BY <2>4
<1> DEFINE Scans(h) == h = [i \in 0 .. Len(Line) |->
                             IF i = 0 THEN start ELSE Scan(h[i - 1], Line[i])]
           after == [i \in 0 .. Len(Line) |-> g[i][2]]
<1>16. Scans(after)
  <2>1. after[0] = start
    BY <1>9, <1>14
  <2>2. ASSUME NEW i \in 1 .. Len(Line)
        PROVE  after[i] = Scan(after[i - 1], Line[i])
    <3>1. i \in 0 .. Len(Line) /\ i - 1 \in 0 .. Len(Line) /\ i - 1 < Len(Line) /\ i - 1 + 1 = i
      BY <1>9
    <3>2. g[i - 1] \in Nat \X States(S) /\ g[i - 1][1] = i - 1
      BY <1>14, <1>15, <3>1
    <3>3. g[i] = step[g[i - 1]]
      BY <1>14
    <3>4. g[i][2] = Scan(g[i - 1][2], Line[i])
      BY <3>1, <3>2, <3>3 DEF step
    <3> QED
      BY <3>1, <3>4
  <2>3. \A i \in 0 .. Len(Line) : i # 0 => i \in 1 .. Len(Line)
    BY <1>9
  <2>4. \A i \in 0 .. Len(Line) : after[i] = IF i = 0 THEN start ELSE Scan(after[i - 1], Line[i])
    BY <2>1, <2>2, <2>3
  <2> QED
    BY <2>4
<1>17. ASSUME NEW h, Scans(h)
       PROVE  h[Len(Line)] \in States(S)
  <2>1. GoAlike(h, after, Len(Line))
    <3>1. ASSUME NEW k, Scans(k)
          PROVE  k[0] = start /\ \A i \in 1 .. Len(Line) : k[i] = Scan(k[i - 1], Line[i])
      BY <1>9, <3>1
    <3> HIDE DEF Scans, after
    <3> QED
      BY <1>9, <1>16, <1>17, <3>1 DEF GoAlike
  <2>2. h[Len(Line)] = after[Len(Line)]
    <3> HIDE DEF Scans, after
    <3> QED
      BY <1>9, <2>1, Agree
  <2> QED
    BY <1>9, <1>14, <2>2
<1>18. Scanned \in States(S)
  <2> DEFINE chosen == CHOOSE h : Scans(h)
  <2>1. Scans(chosen)
    <3> HIDE DEF Scans, after
    <3> QED
      BY <1>16
  <2>2. Scanned = chosen[Len(Line)]
    BY DEF Scanned, ScannedFrom, start
  <2> QED
    <3> HIDE DEF chosen, Scans
    <3> QED
      BY <1>17, <2>1, <2>2
<1> QED
  BY <1>8, <1>18 DEF States, Expanded, IsLine

-----------------------------------------------------------------------------
(* All but the last of a sequence.                                         *)
LEMMA FrontIs ==
    ASSUME NEW E, NEW st \in Seq(E), Len(st) > 0
    PROVE  /\ Front(st) \in Seq(E) /\ Len(Front(st)) = Len(st) - 1
           /\ \A i \in 1 .. Len(Front(st)) : Front(st)[i] = st[i]
<1>1. Len(st) \in Nat
  BY LenProperties
<1>2. PICK b \in Int : b = Len(st) - 1
  BY <1>1
<1>3. PICK x : x = SubSeq(st, 1, b)
  OBVIOUS
<1>4. \A i \in 1 .. b : st[i] \in E
  BY <1>1, <1>2, ElementOfSeq
<1>5. /\ x \in Seq(E) /\ Len(x) = IF 1 <= b THEN b - 1 + 1 ELSE 0
      /\ \A i \in 1 .. b - 1 + 1 : x[i] = st[1 + i - 1]
  BY <1>3, <1>4, SubSeqProperties
<1>6. Len(x) = b
  <2>1. b = 0 \/ 1 <= b
    BY <1>1, <1>2
  <2> QED
    BY <1>5, <2>1
<1>7. \A i \in 1 .. Len(x) : x[i] = st[i]
  <2>1. \A i \in 1 .. Len(x) : i \in 1 .. b - 1 + 1 /\ 1 + i - 1 = i
    BY <1>6
  <2> QED
    BY <1>5, <2>1
<1>8. Front(st) = x
  BY <1>2, <1>3 DEF Front
<1> QED
  BY <1>2, <1>5, <1>6, <1>7, <1>8

(* The places in the files, for each way that f changes.                   *)
LEMMA PlacesGrow ==
    ASSUME NEW p, NEW X, NEW Y, X \subseteq Y
    PROVE  Places(p, X) \subseteq Places(p, Y)
<1>1. PICK A : A = [fd : FilesOf(p), no : X, fn : X]
  OBVIOUS
<1>2. PICK B : B = [fd : FilesOf(p), no : Y, fn : Y]
  OBVIOUS
<1>3. A \subseteq B
  BY <1>1, <1>2
<1>4. Seq(A) \subseteq Seq(B)
  BY <1>3, SeqMonotonic
<1> QED
  BY <1>1, <1>2, <1>4 DEF Places

LEMMA AdvancedIs ==
    ASSUME Inv, More
    PROVE  Reading(prog, Advanced)
<1>1. PICK X : f \in Places(prog, X)
  BY DEF Inv, Reading
<1>2. PICK Y : Y = X \cup {LineNo, mline}
  OBVIOUS
<1>3. f \in Places(prog, Y) /\ LineNo \in Y /\ mline \in Y
  BY <1>1, <1>2, PlacesGrow
<1>4. Unit # NoFile /\ Unit = IF InInclude THEN f.input2 ELSE f.input
  BY DEF More, Unit
<1>5. CASE InInclude
  <2>1. f.input2 \in [path : DOMAIN prog.files, pos : Nat \ {0}]
    BY <1>3, <1>4, <1>5 DEF Places, FilesOf
  <2>2. [f.input2 EXCEPT !.pos = @ + 1] \in FilesOf(prog)
    BY <2>1 DEF FilesOf
  <2>3. Advanced = [f EXCEPT !.input2 = [f.input2 EXCEPT !.pos = @ + 1], !.inclno = LineNo,
                             !.mline = mline]
    BY <1>3, <1>5 DEF Advanced, Places
  <2>4. /\ Advanced \in Places(prog, Y) /\ Advanced.stack = f.stack
        /\ Advanced.input2 = [f.input2 EXCEPT !.pos = @ + 1]
    BY <1>3, <2>2, <2>3 DEF Places
  <2>5. Advanced.input2 # NoFile
    BY <2>1, <2>4 DEF NoFile
  <2> QED
    BY <1>5, <2>4, <2>5 DEF Reading, Inv, InInclude
<1>6. CASE ~InInclude
  <2>1. f.input \in [path : DOMAIN prog.files, pos : Nat \ {0}]
    BY <1>3, <1>4, <1>6 DEF Places, FilesOf
  <2>2. [f.input EXCEPT !.pos = @ + 1] \in FilesOf(prog)
    BY <2>1 DEF FilesOf
  <2>3. Advanced = [f EXCEPT !.input = [f.input EXCEPT !.pos = @ + 1], !.lineno = LineNo,
                             !.mline = mline]
    BY <1>3, <1>6 DEF Advanced, Places
  <2>4. Advanced \in Places(prog, Y) /\ Advanced.stack = f.stack /\ Advanced.input2 = f.input2
    BY <1>3, <2>2, <2>3 DEF Places
  <2> QED
    BY <2>4 DEF Reading, Inv
<1> QED
  BY <1>5, <1>6

LEMMA AdvancedKeeps ==
    ASSUME Inv
    PROVE  Advanced.stack = f.stack
<1>1. PICK X : f \in Places(prog, X)
  BY DEF Inv, Reading
<1> QED
  BY <1>1 DEF Advanced, Places

LEMMA OpenFileReads ==
    ASSUME Inv, OpenFile
    PROVE  Reading(prog, f')
<1>1. PICK X : f \in Places(prog, X)
  BY DEF Inv, Reading
<1>2. PICK fname : fname = prog.args[f.filearg + 1]
  OBVIOUS
<1>3. fname \in DOMAIN prog.files
  <2>1. PICK p \in Programs : p = prog
    BY DEF Inv
  <2>2. p.args \in Seq(DOMAIN p.files)
    BY ProgramsAssumption DEF ProgramsAssumption
  <2>3. f.filearg \in Nat /\ f.filearg < Len(p.args)
    BY <1>1, <2>1 DEF Places, OpenFile
  <2>4. f.filearg + 1 \in 1 .. Len(p.args)
    BY <2>2, <2>3, LenProperties
  <2> QED
    BY <1>2, <2>1, <2>2, <2>4, ElementOfSeq
<1>4. PICK Y : Y = X \cup {fname, 0}
  OBVIOUS
<1>5. f \in Places(prog, Y) /\ fname \in Y /\ 0 \in Y
  BY <1>1, <1>4, PlacesGrow
<1>6. PICK file \in FilesOf(prog) : file = [path |-> fname, pos |-> 1]
  <2>1. [path |-> fname, pos |-> 1] \in FilesOf(prog)
    BY <1>3 DEF FilesOf
  <2> QED
    BY <2>1
<1>7. /\ f' = [f EXCEPT !.filearg = @ + 1, !.input = file, !.infn = fname, !.lineno = 0]
      /\ f.filearg + 1 \in Nat
  BY <1>2, <1>5, <1>6 DEF OpenFile, Places
<1>8. f' \in Places(prog, Y) /\ f'.stack = f.stack /\ f'.input2 = f.input2
  BY <1>5, <1>6, <1>7 DEF Places
<1> QED
  BY <1>8 DEF Reading, Inv

LEMMA CloseFileReads ==
    ASSUME Inv, CloseFile
    PROVE  Reading(prog, f')
<1>1. PICK X : f \in Places(prog, X)
  BY DEF Inv, Reading
<1>2. CASE ~InInclude
  <2>1. f' = [f EXCEPT !.input = NoFile] /\ NoFile \in FilesOf(prog)
    BY <1>2 DEF CloseFile, FilesOf
  <2>2. f' \in Places(prog, X) /\ f'.stack = f.stack /\ f'.input2 = f.input2
    BY <1>1, <2>1 DEF Places
  <2> QED
    BY <2>2 DEF Reading, Inv
<1>3. CASE InInclude
  <2>1. PICK E : E = [fd : FilesOf(prog), no : X, fn : X]
    OBVIOUS
  <2>2. PICK st \in Seq(E) : st = f.stack
    BY <1>1, <2>1 DEF Places
  <2>3. Len(st) \in Nat /\ Len(st) > 0
    BY <1>3, <2>2, LenProperties DEF Inv, Reading, InInclude
  <2>4. PICK e \in E : e = Last(st) /\ e = st[Len(st)]
    BY <2>3, ElementOfSeq DEF Last
  <2>5. PICK rest : rest = Front(st)
    OBVIOUS
  <2>6. /\ rest \in Seq(E) /\ Len(rest) = Len(st) - 1
        /\ \A i \in 1 .. Len(rest) : rest[i] = st[i]
    BY <2>3, <2>5, FrontIs
  <2>7. f' = [f EXCEPT !.input2 = e.fd, !.inclno = e.no, !.inclfn = e.fn, !.stack = rest]
    BY <1>3, <2>2, <2>4, <2>5 DEF CloseFile
  <2>8. f' \in Places(prog, X) /\ f'.stack = rest /\ f'.input2 = e.fd
    BY <1>1, <2>1, <2>4, <2>6, <2>7 DEF Places
  <2>9. \A i \in 1 .. Len(st) : st[i].fd # NoFile <=> i > 1
    BY <2>2 DEF Inv, Reading
  <2>10. e.fd # NoFile <=> Len(rest) > 0
    BY <2>3, <2>4, <2>6, <2>9
  <2>11. \A i \in 1 .. Len(rest) : rest[i].fd # NoFile <=> i > 1
    BY <2>3, <2>6, <2>9
  <2>12. Len(rest) <= MAXINCLUDE
    BY <2>2, <2>3, <2>6, BoundsAssumption DEF Inv, Reading, BoundsAssumption
  <2> QED
    BY <2>8, <2>10, <2>11, <2>12 DEF Reading
<1> QED
  BY <1>2, <1>3

LEMMA doIncludeReads ==
    ASSUME Inv, doInclude
    PROVE  Reading(prog, f')
<1>1. Reading(prog, Advanced)
  BY AdvancedIs DEF doInclude, LineEnds, Expands
<1>2. PICK g : g = Advanced
  OBVIOUS
<1>3. PICK X : g \in Places(prog, X)
  BY <1>1, <1>2 DEF Reading
<1>4. CASE f' = Advanced
  BY <1>1, <1>4
<1>5. CASE f' # Advanced
  <2>1. PICK path \in DOMAIN prog.files :
           f' = [g EXCEPT !.input2 = [path |-> path, pos |-> 1], !.inclno = 0, !.inclfn = path,
                          !.stack = Append(@, [fd |-> g.input2, no |-> g.inclno, fn |-> f.inclfn])]
    BY <1>2, <1>5 DEF doInclude
  <2>2. PICK Y : Y = X \cup {path, 0, f.inclfn}
    OBVIOUS
  <2>3. g \in Places(prog, Y) /\ path \in Y /\ 0 \in Y /\ f.inclfn \in Y
    BY <1>3, <2>2, PlacesGrow
  <2>4. PICK E : E = [fd : FilesOf(prog), no : Y, fn : Y]
    OBVIOUS
  <2>5. PICK e : e = [fd |-> g.input2, no |-> g.inclno, fn |-> f.inclfn]
    OBVIOUS
  <2>6. PICK st \in Seq(E) : st = g.stack
    BY <2>3, <2>4 DEF Places
  <2>7. e \in E
    BY <2>3, <2>4, <2>5 DEF Places
  <2>8. PICK longer : longer = Append(st, e)
    OBVIOUS
  <2>9. /\ longer \in Seq(E) /\ Len(longer) = Len(st) + 1 /\ Len(st) \in Nat
        /\ longer[Len(st) + 1] = e
        /\ \A i \in 1 .. Len(st) : longer[i] = st[i]
    BY <2>7, <2>8, LenProperties
  <2>10. [path |-> path, pos |-> 1] \in FilesOf(prog)
    BY DEF FilesOf
  <2>11. f' \in Places(prog, Y) /\ f'.stack = longer
    BY <2>1, <2>3, <2>4, <2>5, <2>6, <2>8, <2>9, <2>10 DEF Places
  <2>12. \A i \in 1 .. Len(st) : st[i].fd # NoFile <=> i > 1
    BY <1>1, <1>2, <2>6 DEF Reading
  <2>13. g.input2 # NoFile <=> Len(st) > 0
    BY <1>1, <1>2, <2>6 DEF Reading
  <2>14. \A i \in 1 .. Len(longer) : longer[i].fd # NoFile <=> i > 1
    BY <2>5, <2>9, <2>12, <2>13
  <2>15. f'.input2 # NoFile
    <3>1. f'.input2 = [path |-> path, pos |-> 1]
      BY <2>1, <2>3 DEF Places
    <3> QED
      BY <3>1 DEF NoFile
  <2>16. Len(longer) <= MAXINCLUDE
    <3>1. Len(f.stack) < MAXINCLUDE /\ g.stack = f.stack
      <4>1. Len(f.stack) \in Nat
        <5>1. PICK Z : f \in Places(prog, Z)
          BY DEF Inv, Reading
        <5> QED
          BY <5>1, LenProperties DEF Places
      <4>2. ~(Len(f.stack) >= MAXINCLUDE)
        BY <1>5 DEF doInclude
      <4>3. Advanced.stack = f.stack
        BY AdvancedKeeps
      <4> QED
        BY <1>2, <4>1, <4>2, <4>3, BoundsAssumption DEF BoundsAssumption
    <3> QED
      BY <2>6, <2>9, <3>1, BoundsAssumption DEF BoundsAssumption
  <2> QED
    BY <2>9, <2>11, <2>14, <2>15, <2>16 DEF Reading
<1> QED
  BY <1>4, <1>5

LEMMA dolineReads ==
    ASSUME Inv, doline
    PROVE  Reading(prog, f')
<1>1. Reading(prog, Advanced)
  BY AdvancedIs DEF doline
<1>2. PICK g : g = Advanced
  OBVIOUS
<1>3. PICK X : g \in Places(prog, X)
  BY <1>1, <1>2 DEF Reading
<1>4. \E n, fn : \/ f' = g
                 \/ f' = [g EXCEPT !.inclno = n, !.inclfn = fn]
                 \/ f' = [g EXCEPT !.lineno = n, !.infn = fn]
  BY <1>2 DEF doline
<1>5. PICK n, fn : \/ f' = g
                   \/ f' = [g EXCEPT !.inclno = n, !.inclfn = fn]
                   \/ f' = [g EXCEPT !.lineno = n, !.infn = fn]
  BY <1>4
<1>6. PICK Y : Y = X \cup {n, fn}
  OBVIOUS
<1>7. g \in Places(prog, Y) /\ n \in Y /\ fn \in Y
  BY <1>3, <1>6, PlacesGrow
<1>8. f' \in Places(prog, Y) /\ f'.stack = g.stack /\ f'.input2 = g.input2
  BY <1>5, <1>7 DEF Places
<1> QED
  BY <1>1, <1>2, <1>8 DEF Reading

-----------------------------------------------------------------------------
(* What #define does with the words behind it: the texts are those of the  *)
(* macros before, and the new one, where a slot has its name or none.      *)
Gives(words, n) == words[1] = <<"id", n>> /\ ~\A s \in DOMAIN macn : macn[s].name \in Names \ {n}

LEMMA DefinitionIs ==
    ASSUME Inv, NEW words, IsLine(words), words # <<>>, Definition(words)
    PROVE  /\ Kept(macn', macq')
           /\ \A n \in Names : Macro(n)' = IF Gives(words, n) THEN <<Tail(words)>> ELSE Macro(n)
<1>1. Kept(macn, macq) /\ Sound(macn) /\ DOMAIN macn = Slots
  BY DEF Inv, Kept, Sound
<1>2. Fine(words[1]) /\ IsLine(Tail(words))
  BY LineHas
<1>3. PICK name : name = words[1]
  OBVIOUS
<1>4. CASE name[1] # "id"
  <2>1. UNCHANGED <<macn, macq>>
    BY <1>3, <1>4 DEF Definition
  <2>2. \A n \in Names : ~Gives(words, n)
    BY <1>3, <1>4 DEF Gives
  <2>3. \A n \in Names : Macro(n)' = Macro(n)
    BY <2>1, MacrosAre
  <2> QED
    BY <1>1, <2>1, <2>2, <2>3
<1>5. CASE name[1] = "id"
  <2>1. PICK n \in Names : n = name[2] /\ name = <<"id", n>>
    BY <1>2, <1>3, <1>5 DEF Fine
  <2>2. PICK c : c = Find(macn, n).cptr /\ c = findMacro(n).cptr
    BY MacrosAre
  <2>3. CASE c = -1
    <3>1. UNCHANGED <<macn, macq>>
      BY <1>3, <1>5, <2>1, <2>2, <2>3 DEF Definition
    <3>2. \A s \in Slots : macn[s].name \in Names /\ macn[s].name # n
      <4>1. -1 \notin Slots
        BY DEF Slots
      <4>2. ASSUME NEW s \in Slots
            PROVE  macn[s].name # n
        <5>1. macn[s].name = n => Find(macn, n).cptr = s
          BY <1>1, FindIs
        <5> QED
          BY <2>2, <2>3, <4>1, <5>1
      <4>3. ~Find(macn, n).found
        BY <1>1, <4>2, FindIs
      <4>4. ~Opening(macn, n, Find(macn, n).cptr)
        BY <2>2, <2>3, <4>1 DEF Opening
      <4>5. \A s \in Slots : macn[s].name \in Names
        BY <1>1, <4>3, <4>4, FindIs
      <4> QED
        BY <4>2, <4>5
    <3>3. \A k \in Names : ~Gives(words, k)
      BY <1>1, <1>3, <2>1, <3>2 DEF Gives
    <3>4. \A k \in Names : Macro(k)' = Macro(k)
      BY <3>1, MacrosAre
    <3> QED
      BY <1>1, <3>1, <3>3, <3>4
  <2>4. CASE c # -1
    <3>0. Fits(macn, n, c)
      BY <1>1, <2>2, <2>4 DEF Fits
    <3>1. /\ macn' = Placed(macn, c, n, Len(macq))
          /\ macq' = macq \o Append(Tail(words), Nul)
      BY <1>3, <1>5, <2>1, <2>2, <2>4 DEF Definition, Placed
    <3>2. /\ Kept(macn', macq')
          /\ \A k \in Names : MacroOf(macn', macq', k) =
               IF k = n THEN <<Tail(words)>> ELSE MacroOf(macn, macq, k)
      <4>1. Gains(macn, macq, n, Tail(words), Placed(macn, c, n, Len(macq)),
                  macq \o Append(Tail(words), Nul))
        BY <1>1, <1>2, <3>0, MacroComes, Zenon
      <4>2. Gains(macn, macq, n, Tail(words), macn', macq')
        BY <3>1, <4>1, Zenon
      <4> QED
        BY <4>2 DEF Gains
    <3>3. \A k \in Names : Gives(words, k) <=> k = n
      <4>1. Len(macq) \in Nat
        BY <1>1, QueueLen DEF Kept
      <4>2. c \in Slots /\ macn[c].name \notin Names \ {n}
        BY <3>0, <4>1, PlacedIs
      <4>3. Gives(words, n)
        BY <1>1, <1>3, <2>1, <4>2 DEF Gives
      <4> QED
        BY <1>3, <2>1, <4>3 DEF Gives
    <3> QED
      BY <3>2, <3>3, MacrosAre
  <2> QED
    BY <2>3, <2>4
<1> QED
  BY <1>4, <1>5

(* What #undef does.                                                       *)
LEMMA doundefIs ==
    ASSUME Inv, doundef
    PROVE  /\ Kept(macn', macq')
           /\ \A n \in Names : Macro(n)' = IF HasName /\ Line[2][2] = n THEN <<>> ELSE Macro(n)
<1>1. Kept(macn, macq) /\ Sound(macn) /\ macq' = macq
  BY DEF Inv, Kept, doundef
<1>2. CASE ~HasName
  BY <1>1, <1>2, MacrosAre DEF doundef
<1>3. CASE HasName
  <2>1. Line[2][2] \in Names
    <3>1. IsLine(Line)
      BY LineIs DEF doundef, Reads
    <3>2. Len(Line) \in Nat /\ \A i \in 1 .. Len(Line) : Fine(Line[i])
      BY <3>1, LineHas
    <3>3. Fine(Line[2])
      BY <1>3, <3>2 DEF HasName
    <3> QED
      BY <1>3, <3>3 DEF Fine, HasName
  <2>2. PICK n \in Names : n = Line[2][2]
    BY <2>1
  <2>3. PICK m : m = Find(macn, n) /\ m = findMacro(Line[2][2])
    BY <2>2, MacrosAre
  <2>4. CASE m.found
    <3>1. macn' = Removed(macn, m.cptr)
      BY <1>3, <2>3, <2>4 DEF doundef, Removed
    <3> QED
      BY <1>1, <1>3, <2>2, <2>3, <2>4, <3>1, MacroGoes, MacrosAre
  <2>5. CASE ~m.found
    <3>1. macn' = macn
      BY <1>3, <2>3, <2>5 DEF doundef
    <3>2. Macro(n) = <<>>
      BY <2>3, <2>5, MacrosAre DEF MacroOf
    <3>3. \A k \in Names : Macro(k)' = Macro(k)
      BY <1>1, <3>1, MacrosAre
    <3> QED
      BY <1>1, <1>3, <2>2, <3>1, <3>2, <3>3
  <2> QED
    BY <2>4, <2>5
<1> QED
  BY <1>2, <1>3

-----------------------------------------------------------------------------
LEMMA NothingIsALine == IsLine(<<>>) /\ IsQueue(<<>>)
<1>1. AreFine({}) /\ <<>> \in Seq({}) /\ <<>> \in Seq({} \cup {Nul})
  BY EmptySeq DEF AreFine
<1> QED
  BY <1>1 DEF IsLine, IsQueue

LEMMA InitInv == Init => Inv
<1> SUFFICES ASSUME Init PROVE Inv
  OBVIOUS
<1>1. Reading(prog, f)
  <2>1. NoFile \in FilesOf(prog) /\ 0 \in {0, <<>>} /\ <<>> \in {0, <<>>}
    BY DEF FilesOf
  <2>2. PICK E : E = [fd : FilesOf(prog), no : {0, <<>>}, fn : {0, <<>>}]
    OBVIOUS
  <2>3. PICK st \in Seq(E) : st = <<>>
    BY EmptySeq
  <2>4. f = [filearg |-> 0, input |-> NoFile, lineno |-> 0, infn |-> <<>>,
             input2 |-> NoFile, inclno |-> 0, inclfn |-> <<>>, stack |-> st,
             mline |-> <<>>]
    BY <2>3 DEF Init
  <2>5. f \in Places(prog, {0, <<>>}) /\ f.stack = st /\ f.input2 = NoFile
    BY <2>1, <2>2, <2>4 DEF Places
  <2>6. Len(st) = 0
    BY <2>3, EmptySeq
  <2> QED
    BY <2>3, <2>5, <2>6, BoundsAssumption DEF Reading, BoundsAssumption
<1>2. Sound(macn)
  <2>1. macn = [s \in Slots |-> [name |-> NULL, at |-> 0]]
    BY DEF Init, Slots
  <2>2. \A s \in Slots : macn[s].name \notin Names
    BY <2>1, NamesAre
  <2>3. macn \in [Slots -> [name : Names \cup {NULL, TOMBSTONE}, at : Nat]]
    BY <2>1
  <2>4. \A n \in Names : \A i \in Slots : macn[Slot(n, i)].name # n
    BY <2>2, SlotIs
  <2> QED
    BY <2>2, <2>3, <2>4 DEF Sound
<1>3. Kept(macn, macq)
  <2>1. \A s \in Slots : macn[s].name \notin Names
    BY NamesAre DEF Init, Slots
  <2> QED
    BY <1>2, <2>1, NothingIsALine DEF Init, Kept
<1> QED
  BY <1>1, <1>3, NothingIsALine DEF Init, Inv

(* What the two ways to a #define leave to DefinitionIs.                   *)
LEMMA dodefineIs ==
    ASSUME Inv, dodefine
    PROVE  /\ IsLine(Defined) /\ Defined # <<>> /\ Definition(Defined)
           /\ Defined = Tail(Expanded) /\ ~doundef
<1>1. IsLine(Expanded) /\ Expanded # <<>> /\ Len(Expanded) > 1
  BY ScannedIs DEF dodefine, LineEnds, Begins
<1>2. IsLine(Tail(Expanded)) /\ Tail(Expanded) # <<>>
  <2>1. PICK S : AreFine(S) /\ Expanded \in Seq(S)
    BY <1>1 DEF IsLine
  <2>2. Len(Tail(Expanded)) = Len(Expanded) - 1 /\ Len(Expanded) \in Nat
    BY <1>1, <2>1, HeadTailProperties, LenProperties
  <2>3. Len(Tail(Expanded)) # 0
    BY <1>1, <2>2
  <2> QED
    BY <1>1, <2>3, LineHas, EmptySeq
<1>3. ~doundef
  BY DEF dodefine, doundef, LineEnds, Expands, Reads, IfLineDirectives
<1> QED
  BY <1>1, <1>2, <1>3 DEF dodefine, Defined

LEMMA DefineFromNextLineIs ==
    ASSUME Inv, DefineFromNextLine
    PROVE  /\ IsLine(Defined) /\ Defined # <<>> /\ Definition(Defined)
           /\ ~dodefine /\ ~doundef
<1>1. IsLine(Expanded) /\ Expanded # <<>> /\ Definition(Expanded)
  BY ScannedIs DEF DefineFromNextLine, Awaited, LineEnds
<1>2. ~dodefine
  BY DEF DefineFromNextLine, Awaited, dodefine
<1>3. ~doundef
  BY DEF DefineFromNextLine, Awaited, doundef, LineEnds, Expands, Reads, IfLineDirectives
<1> QED
  BY <1>1, <1>2, <1>3 DEF Defined

(* No other step changes the table or the queue.                           *)
LEMMA OthersKeep ==
    ASSUME [Next]_vars, ~doundef, ~dodefine, ~DefineFromNextLine
    PROVE  UNCHANGED <<macn, macq>>
BY DEF Next, vars, OpenFile, EndOfInput, EndInComment, CloseFile, Ifdef, Unmatched, Else, Endif, doerror, doline,
       BlankLine, SkippedLine, CommentGoesOn, NamelessDefine, KillNextLine,
       Awaited, LineEnds, doInclude, Deliver, AsmLine, Stopped

LEMMA TableStep ==
    ASSUME Inv, [Next]_vars
    PROVE  Kept(macn', macq')
<1>1. CASE doundef
  BY <1>1, doundefIs
<1>2. CASE dodefine
  BY <1>2, dodefineIs, DefinitionIs
<1>3. CASE DefineFromNextLine
  BY <1>3, DefineFromNextLineIs, DefinitionIs
<1>4. CASE ~doundef /\ ~dodefine /\ ~DefineFromNextLine
  BY <1>4, OthersKeep DEF Inv
<1> QED
  BY <1>1, <1>2, <1>3, <1>4

LEMMA PlaceStep ==
    ASSUME Inv, [Next]_vars
    PROVE  prog' \in Programs /\ Reading(prog', f')
<1>1. prog' = prog
  BY DEF Next, vars, OpenFile, EndOfInput, EndInComment, CloseFile, Ifdef, Unmatched, Else, Endif, doerror, doundef,
         doline, BlankLine, SkippedLine, CommentGoesOn, dodefine, NamelessDefine, DefineFromNextLine,
         KillNextLine, doInclude, Deliver, AsmLine, Stopped
<1>2. Reading(prog, f')
  <2>1. CASE OpenFile
    BY <2>1, OpenFileReads
  <2>2. CASE CloseFile
    BY <2>2, CloseFileReads
  <2>3. CASE doline
    BY <2>3, dolineReads
  <2>4. CASE doInclude
    BY <2>4, doIncludeReads
  <2>5. CASE Ifdef \/ Unmatched \/ Else \/ Endif \/ doerror \/ doundef
    <3>1. More /\ f' = Advanced
      BY <2>5 DEF Ifdef, Unmatched, Else, Endif, doerror, doundef, Reads
    <3> QED
      BY <3>1, AdvancedIs
  <2>6. CASE BlankLine \/ SkippedLine \/ AsmLine
    <3>1. More /\ f' = Advanced
      BY <2>6 DEF BlankLine, SkippedLine, AsmLine
    <3> QED
      BY <3>1, AdvancedIs
  <2>7. CASE CommentGoesOn \/ dodefine \/ NamelessDefine \/ DefineFromNextLine \/ KillNextLine \/ Deliver
    <3>1. More /\ f' = Advanced
      BY <2>7 DEF CommentGoesOn, dodefine, NamelessDefine, DefineFromNextLine, KillNextLine, Awaited, Deliver,
                  LineEnds, Expands
    <3> QED
      BY <3>1, AdvancedIs
  <2>8. CASE EndOfInput \/ EndInComment \/ Stopped \/ UNCHANGED vars
    BY <2>8 DEF Inv, EndOfInput, EndInComment, Stopped, vars
  <2> QED
    BY <2>1, <2>2, <2>3, <2>4, <2>5, <2>6, <2>7, <2>8 DEF Next
<1> QED
  BY <1>1, <1>2 DEF Inv

LEMMA LineStep ==
    ASSUME Inv, [Next]_vars
    PROVE  IsLine(pline')
<1>1. CASE CommentGoesOn
  BY <1>1, ScannedIs DEF CommentGoesOn
<1>2. CASE \/ dodefine \/ NamelessDefine \/ DefineFromNextLine \/ KillNextLine
           \/ doInclude \/ EndInComment \/ Deliver
  <2>1. pline' = <<>>
    BY <1>2 DEF dodefine, NamelessDefine, DefineFromNextLine, KillNextLine, Awaited, doInclude,
                EndInComment, Deliver, LineEnds
  <2> QED
    BY <2>1, NothingIsALine
<1>3. CASE /\ ~CommentGoesOn /\ ~dodefine /\ ~NamelessDefine /\ ~DefineFromNextLine /\ ~KillNextLine
           /\ ~doInclude /\ ~EndInComment /\ ~Deliver
  <2>1. pline' = pline
    BY <1>3 DEF Next, vars, OpenFile, EndOfInput, CloseFile, Ifdef, Unmatched, Else, Endif, doerror,
                doundef, doline, BlankLine, SkippedLine, AsmLine, Stopped
  <2> QED
    BY <2>1 DEF Inv
<1> QED
  BY <1>1, <1>2, <1>3

LEMMA NextInv == Inv /\ [Next]_vars => Inv'
BY TableStep, PlaceStep, LineStep DEF Inv

LEMMA Invariant == Spec => []Inv
BY InitInv, NextInv, PTL DEF Spec

(* The table is the map its directives describe, for every program, table  *)
(* size and hash.                                                          *)
THEOREM TableIsTheMap == Spec => MacrosAreKept
<1> DEFINE Keeps == \A n \in Names : Macro(n)' = IF Undefines(n) THEN <<>>
                                                 ELSE IF Defines(n) THEN <<Tail(Defined)>>
                                                 ELSE Macro(n)
<1>1. ASSUME Inv, [Next]_vars
      PROVE  Keeps
  <2>1. CASE doundef
    <3>1. ~dodefine /\ ~DefineFromNextLine
      BY <1>1, <2>1, dodefineIs, DefineFromNextLineIs
    <3> QED
      BY <1>1, <2>1, <3>1, doundefIs DEF Undefines, Defines
  <2>2. CASE dodefine
    <3>1. /\ IsLine(Defined) /\ Defined # <<>> /\ Definition(Defined) /\ ~doundef
      BY <1>1, <2>2, dodefineIs
    <3>2. \A n \in Names : Macro(n)' = IF Gives(Defined, n) THEN <<Tail(Defined)>> ELSE Macro(n)
      BY <1>1, <3>1, DefinitionIs
    <3>3. \A n : ~Undefines(n) /\ (Defines(n) <=> Gives(Defined, n))
      BY <2>2, <3>1 DEF Undefines, Defines, Gives
    <3> QED
      BY <3>2, <3>3
  <2>3. CASE DefineFromNextLine
    <3>1. /\ IsLine(Defined) /\ Defined # <<>> /\ Definition(Defined) /\ ~doundef
      BY <1>1, <2>3, DefineFromNextLineIs
    <3>2. \A n \in Names : Macro(n)' = IF Gives(Defined, n) THEN <<Tail(Defined)>> ELSE Macro(n)
      BY <1>1, <3>1, DefinitionIs
    <3>3. \A n : ~Undefines(n) /\ (Defines(n) <=> Gives(Defined, n))
      BY <2>3, <3>1 DEF Undefines, Defines, Gives
    <3> QED
      BY <3>2, <3>3
  <2>4. CASE ~doundef /\ ~dodefine /\ ~DefineFromNextLine
    <3>1. UNCHANGED <<macn, macq>>
      BY <1>1, <2>4, OthersKeep
    <3>2. \A n \in Names : Macro(n)' = Macro(n)
      BY <3>1, MacrosAre
    <3> QED
      BY <2>4, <3>2 DEF Undefines, Defines
  <2> QED
    BY <2>1, <2>2, <2>3, <2>4
<1>2. Inv /\ [Next]_vars => [Keeps]_vars
  BY <1>1
<1>3. Spec => [][Keeps]_vars
  BY <1>2, Invariant, PTL DEF Spec
<1> QED
  BY <1>3 DEF MacrosAreKept

-----------------------------------------------------------------------------
(* Groups, includes and the string queue: levels that stay in their range. *)
Levels == iflevel \in Nat /\ skiplevel \in 0 .. iflevel
Room == Running => Len(macq) < MACMAX

LEMMA LevelStep ==
    ASSUME Levels, [Next]_vars
    PROVE  Levels'
<1>1. CASE Ifdef
  BY <1>1 DEF Levels, Ifdef
<1>2. CASE Else
  BY <1>2 DEF Levels, Else
<1>3. CASE Endif
  BY <1>3 DEF Levels, Endif
<1>4. CASE ~Ifdef /\ ~Else /\ ~Endif
  <2>1. UNCHANGED <<iflevel, skiplevel>>
    BY <1>4 DEF Next, vars, OpenFile, EndOfInput, EndInComment, CloseFile, Unmatched, doerror, doundef, doline,
                BlankLine, SkippedLine, CommentGoesOn, dodefine, NamelessDefine,
                DefineFromNextLine, KillNextLine, doInclude, Deliver, AsmLine, Stopped
  <2> QED
    BY <2>1 DEF Levels
<1> QED
  BY <1>1, <1>2, <1>3, <1>4

\* A text that fills the queue is the last.
LEMMA DefinitionRoom ==
    ASSUME Inv, NEW words, IsLine(words), words # <<>>, Definition(words), Len(macq) < MACMAX
    PROVE  Room'
<1>1. CASE macq' = macq
  BY <1>1 DEF Room
<1>2. CASE macq' # macq
  <2>1. PICK value : value = Append(Tail(words), Nul)
    OBVIOUS
  <2>2. /\ macq' = macq \o value
        /\ mode' = IF Len(macq) + Len(value) >= MACMAX THEN "exit" ELSE "code"
    BY <1>2, <2>1 DEF Definition
  <2>3. PICK A : AreFine(A) /\ macq \in Seq(A \cup {Nul})
    BY DEF Inv, Kept, IsQueue
  <2>4. PICK B : AreFine(B) /\ Tail(words) \in Seq(B)
    BY LineHas DEF IsLine
  <2>5. PICK S : S = A \cup B \cup {Nul}
    OBVIOUS
  <2>6. macq \in Seq(S) /\ value \in Seq(S)
    <3>1. A \cup {Nul} \subseteq S /\ B \subseteq S /\ Nul \in S
      BY <2>5
    <3>2. Tail(words) \in Seq(S) /\ macq \in Seq(S)
      BY <2>3, <2>4, <3>1, SeqMonotonic
    <3> QED
      BY <2>1, <3>1, <3>2
  <2>7. Len(macq') = Len(macq) + Len(value) /\ Len(macq) \in Nat /\ Len(value) \in Nat
    BY <2>2, <2>6, ConcatProperties, LenProperties
  <2> QED
    BY <2>2, <2>7, BoundsAssumption DEF Room, Running, BoundsAssumption
<1> QED
  BY <1>1, <1>2

LEMMA RoomStep ==
    ASSUME Inv, Room, [Next]_vars
    PROVE  Room'
<1>1. CASE dodefine
  <2>1. Running
    BY <1>1 DEF dodefine, LineEnds, Expands, Running
  <2> QED
    BY <1>1, <2>1, dodefineIs, DefinitionRoom DEF Room
<1>2. CASE DefineFromNextLine
  <2>1. Running
    BY <1>2 DEF DefineFromNextLine, Awaited, LineEnds, Expands, Running
  <2> QED
    BY <1>2, <2>1, DefineFromNextLineIs, DefinitionRoom DEF Room
<1>3. CASE ~dodefine /\ ~DefineFromNextLine
  <2>1. macq' = macq
    BY <1>3, OthersKeep DEF doundef
  <2>2. Running' => Running
    BY <1>3 DEF Next, vars, Running, OpenFile, EndOfInput, EndInComment, CloseFile, Ifdef, Unmatched, Else, Endif,
                doerror, doundef, doline, BlankLine, SkippedLine, CommentGoesOn, NamelessDefine,
                KillNextLine, Awaited, doInclude, Deliver, AsmLine, Stopped, Reads, LineEnds, Expands
  <2> QED
    BY <2>1, <2>2 DEF Room
<1> QED
  BY <1>1, <1>2, <1>3

(* Groups and files nest, within the bounds of the code, for every program. *)
THEOREM GroupsAndFilesNest == Spec => []Nested
<1>1. Init => Levels /\ Room
  <2>1. Len(<<>>) = 0
    BY EmptySeq
  <2> QED
    BY <2>1, BoundsAssumption DEF Init, Levels, Room, BoundsAssumption
<1>2. Inv /\ Levels /\ Room /\ [Next]_vars => Levels' /\ Room'
  BY LevelStep, RoomStep
<1>3. Inv /\ Levels /\ Room => Nested
  BY DEF Inv, Reading, InInclude, Levels, Room, Nested
<1> QED
  BY <1>1, <1>2, <1>3, Invariant, PTL DEF Spec
=============================================================================
