-------------------------- MODULE ObjRecords_proofs --------------------------
(***************************************************************************)
(* The object file's data records: between the calls they fit their        *)
(* buffers and their offset is that of what comes next; a call puts the    *)
(* bytes and the fixup it is given in their place and leaves all others    *)
(* where they are, in whatever record they come to lie.                    *)
(***************************************************************************)
EXTENDS ObjRecords, Lemmas, SequenceTheorems

-----------------------------------------------------------------------------
(* Where the pieces of a record are.                                       *)

Sized(r)     == r.start \in Nat /\ r.body \in Seq(Pieces)
Size(p)      == p.rep * Len(p.b)
Ends(f, r, m) == /\ f \in [0 .. m -> Nat] /\ f[0] = r.start
                 /\ \A k \in 1 .. m : f[k] = f[k - 1] + Size(r.body[k])

(* A piece of data takes a number of bytes.                                *)
LEMMA SizeIsNat ==
    ASSUME NEW r, Sized(r), NEW k \in 1 .. Len(r.body)
    PROVE  /\ r.body[k] \in Pieces /\ r.body[k].rep \in Nat /\ Len(r.body[k].b) \in Nat
           /\ Size(r.body[k]) \in Nat
<1>1. PICK p : p = r.body[k]
  OBVIOUS
<1>2. p \in Pieces
  BY <1>1, ElementOfSeq DEF Sized
<1>3. p.rep \in Nat /\ p.b \in Seq(0 .. 255)
  BY <1>2 DEF Pieces
<1>4. Len(p.b) \in Nat
  BY <1>3, LenProperties
<1>5. p.rep * Len(p.b) \in Nat
  BY <1>3, <1>4
<1> QED
  BY <1>1, <1>2, <1>3, <1>4, <1>5 DEF Size

(* The place of a piece is the end of those before it.                     *)
LEMMA PieceEnds ==
    ASSUME NEW r, Sized(r), NEW i \in 1 .. Len(r.body) + 1
    PROVE  \E f : Ends(f, r, i - 1) /\ PieceAt(r, i) = f[i - 1]
<1> DEFINE m == i - 1
           w == [k \in 1 .. m |-> Size(r.body[k])]
           Is(g) == g = [k \in 0 .. i - 1 |-> IF k = 0 THEN r.start
                                          ELSE g[k - 1] + r.body[k].rep * Len(r.body[k].b)]
           end == CHOOSE g : Is(g)
<1>1. Len(r.body) \in Nat /\ r.start \in Nat
  BY LenProperties DEF Sized
<1>2. m \in Nat /\ \A k \in 1 .. m : k \in 1 .. Len(r.body)
  BY <1>1
<1>3. \A k \in 1 .. m : Size(r.body[k]) \in Nat
  BY <1>2, SizeIsNat
<1>4. w \in [1 .. m -> Nat]
  BY <1>3
<1>5. PICK f : IsSum(f, r.start, w, m)
  <2> HIDE DEF w, m
  <2> QED
    BY <1>1, <1>2, <1>4, Sums DEF Summable
<1>6. Ends(f, r, m)
  <2>1. \A k \in 1 .. m : w[k] = Size(r.body[k])
    OBVIOUS
  <2> HIDE DEF w, m
  <2> QED
    BY <1>5, <2>1 DEF Ends, IsSum
<1>7. Is(f)
  <2>1. f = [k \in 0 .. m |-> f[k]]
    BY <1>6 DEF Ends
  <2>2. ASSUME NEW k \in 0 .. m
        PROVE  f[k] = IF k = 0 THEN r.start ELSE f[k - 1] + r.body[k].rep * Len(r.body[k].b)
    <3>1. CASE k = 0
      BY <1>6, <3>1 DEF Ends
    <3>2. CASE k # 0
      <4>1. k \in 1 .. m
        BY <1>2, <3>2
      <4> QED
        BY <1>6, <3>2, <4>1 DEF Ends, Size
    <3> QED
      BY <3>1, <3>2
  <2> QED
    BY <2>1, <2>2
<1>8. Is(end)
  <2> HIDE DEF Is
  <2> QED
    BY <1>7
<1>9. \A k \in 0 .. m : end[k] = f[k]
  <2> HIDE DEF end
  <2>1. end[0] = f[0]
    BY <1>2, <1>6, <1>8 DEF Ends
  <2>2. ASSUME NEW k \in 1 .. m, end[k - 1] = f[k - 1]
        PROVE  end[k] = f[k]
    <3>1. k \in 0 .. i - 1 /\ k # 0
      BY <1>2
    <3>2. end[k] = end[k - 1] + r.body[k].rep * Len(r.body[k].b)
      BY <1>8, <3>1
    <3> QED
      BY <1>6, <2>2, <3>2 DEF Ends, Size
  <2>3. GoAlike(end, f, m)
    <3> HIDE DEF m, Is
    <3> QED
      BY <1>2, <2>1, <2>2 DEF GoAlike
  <2> HIDE DEF m, Is
  <2> QED
    BY <2>3, Agree
<1>10. PieceAt(r, i) = end[i - 1]
  BY DEF PieceAt
<1>11. m \in 0 .. m
  BY <1>2
<1> QED
  BY <1>6, <1>9, <1>10, <1>11

(* Records that begin alike have their first pieces in the same places.    *)
Alike(r, q, m) == r.start = q.start /\ \A k \in 1 .. m : r.body[k] = q.body[k]

LEMMA EndsAgree ==
    ASSUME NEW f, NEW g, NEW r, NEW q, NEW m \in Nat, NEW n \in Nat, m <= n,
           Ends(f, r, m), Ends(g, q, n), Alike(r, q, m)
    PROVE  \A k \in 0 .. m : f[k] = g[k]
<1>1. f[0] = g[0]
  BY DEF Ends, Alike
<1>2. ASSUME NEW k \in 1 .. m, f[k - 1] = g[k - 1]
      PROVE  f[k] = g[k]
  <2>1. k \in 1 .. n
    OBVIOUS
  <2>2. f[k] = f[k - 1] + Size(r.body[k]) /\ g[k] = g[k - 1] + Size(q.body[k])
    BY <2>1 DEF Ends
  <2>3. r.body[k] = q.body[k]
    BY DEF Alike
  <2> QED
    BY <1>2, <2>2, <2>3
<1> QED
  BY <1>1, <1>2, Agree DEF GoAlike

LEMMA PieceAtFirst ==
    ASSUME NEW r, Sized(r)
    PROVE  PieceAt(r, 1) = r.start
<1>1. 1 \in 1 .. Len(r.body) + 1
  BY LenProperties DEF Sized
<1>2. PICK f : Ends(f, r, 1 - 1) /\ PieceAt(r, 1) = f[1 - 1]
  BY <1>1, PieceEnds
<1> QED
  BY <1>2 DEF Ends

LEMMA PieceAtNext ==
    ASSUME NEW r, Sized(r), NEW i \in 1 .. Len(r.body)
    PROVE  PieceAt(r, i + 1) = PieceAt(r, i) + Size(r.body[i]) /\ PieceAt(r, i) \in Nat
<1>1. /\ Len(r.body) \in Nat /\ i \in 1 .. Len(r.body) + 1 /\ i + 1 \in 1 .. Len(r.body) + 1
      /\ (i + 1) - 1 = i /\ i - 1 \in Nat /\ i \in Nat /\ i - 1 <= i /\ i \in 1 .. i /\ i - 1 \in 0 .. i - 1
  BY LenProperties DEF Sized
<1>2. PICK f : Ends(f, r, i - 1) /\ PieceAt(r, i) = f[i - 1]
  BY <1>1, PieceEnds
<1>3. PICK j \in 1 .. Len(r.body) + 1 : j = i + 1
  BY <1>1
<1>4. PICK g : Ends(g, r, j - 1) /\ PieceAt(r, j) = g[j - 1]
  BY <1>3, PieceEnds
<1>5. Ends(g, r, i) /\ PieceAt(r, i + 1) = g[i]
  BY <1>1, <1>3, <1>4
<1>6. f[i - 1] = g[i - 1]
  <2>1. Alike(r, r, i - 1)
    BY DEF Alike
  <2> QED
    BY <1>1, <1>2, <1>5, <2>1, EndsAgree
<1>7. g[i] = g[i - 1] + Size(r.body[i])
  BY <1>1, <1>5 DEF Ends
<1>8. f[i - 1] \in Nat
  BY <1>1, <1>2 DEF Ends
<1> QED
  BY <1>2, <1>5, <1>6, <1>7, <1>8

LEMMA PieceAtSame ==
    ASSUME NEW r, Sized(r), NEW q, Sized(q), NEW i \in 1 .. Len(r.body) + 1,
           i <= Len(q.body) + 1, Alike(r, q, i - 1)
    PROVE  PieceAt(r, i) = PieceAt(q, i)
<1>1. /\ Len(r.body) \in Nat /\ Len(q.body) \in Nat /\ i - 1 \in Nat /\ i - 1 <= i - 1
      /\ i \in 1 .. Len(q.body) + 1 /\ i - 1 \in 0 .. i - 1
  BY LenProperties DEF Sized
<1>2. PICK f : Ends(f, r, i - 1) /\ PieceAt(r, i) = f[i - 1]
  BY PieceEnds
<1>3. PICK g : Ends(g, q, i - 1) /\ PieceAt(q, i) = g[i - 1]
  BY <1>1, PieceEnds
<1>4. f[i - 1] = g[i - 1]
  BY <1>1, <1>2, <1>3, EndsAgree
<1> QED
  BY <1>2, <1>3, <1>4

-----------------------------------------------------------------------------
(* What the object file says once the open record is closed.               *)

Done(o)        == setdata(o, NoRec, 0, 0)
Says(o)        == BytesIn(Image(Done(o)))
Fixes(o)       == Fixups(Done(o))
At(seg, at, b) == { <<seg, at + k - 1, b[k]>> : k \in 1 .. Len(b) }

\* a writer between two calls
Good(o, Fix) == o \in Writers(Fix) /\ RecordFits(o) /\ InStep(o)

(* What the fields of a writer are.                                        *)
LEMMA WriterIs ==
    ASSUME NEW Fix, NEW o \in Writers(Fix)
    PROVE  /\ o.rec \in {NoRec, "LEDATA", "LIDATA"} /\ o.seg \in Nat /\ o.start \in Nat
           /\ o.off \in Nat /\ o.n \in Nat /\ o.fbuf \in Nat
           /\ o.body \in Seq(Pieces) /\ o.fixes \in Seq(Buffered(Fix))
           /\ o.closed \in Seq(Records(Fix))
           /\ Len(o.body) \in Nat /\ Len(o.fixes) \in Nat /\ Len(o.closed) \in Nat
           /\ Sized(o) /\ Sized(Open(o))
<1>1. /\ o.rec \in {NoRec, "LEDATA", "LIDATA"} /\ o.seg \in Nat /\ o.start \in Nat
      /\ o.off \in Nat /\ o.n \in Nat /\ o.fbuf \in Nat
      /\ o.body \in Seq(Pieces) /\ o.fixes \in Seq(Buffered(Fix))
      /\ o.closed \in Seq(Records(Fix))
  BY DEF Writers
<1>2. Open(o).start = o.start /\ Open(o).body = o.body
  BY DEF Open
<1> QED
  BY <1>1, <1>2, LenProperties DEF Sized

LEMMA PlacesIs == Places \in Nat /\ Places > 3
BY DEF Places

LEMMA BufferedIs ==
    ASSUME NEW Fix, NEW f \in Buffered(Fix)
    PROVE  f.at \in Nat /\ f.n \in Nat /\ f.at < Places
<1>1. f.at \in 0 .. Places - 1 /\ f.n \in {1, 2, 4}
  BY DEF Buffered
<1> QED
  BY <1>1, PlacesIs

LEMMA BegunIsOpen == "LEDATA" # NoRec /\ "LIDATA" # NoRec
BY Zenon DEF NoRec

LEMMA WrapIs == Wrap \in Nat \ {0}
BY DEF Wrap

LEMMA SizesAre ==
    /\ ObjSize \in Nat /\ 21 <= ObjSize /\ ObjSize <= Places + 7 /\ FixSize \in Nat /\ 12 < FixSize
BY SizesAssumption, PlacesIs DEF SizesAssumption

(* Another piece is behind those that are there.                           *)
Grown(r, q, p) == /\ Sized(r) /\ Sized(q) /\ p \in Pieces
                  /\ q.seg = r.seg /\ q.start = r.start /\ q.body = Append(r.body, p)
Piece(r, p)    == [seg |-> r.seg, at |-> EndOf(r), rep |-> p.rep, b |-> p.b]

LEMMA PiecesGrow ==
    ASSUME NEW r, NEW q, NEW p, Grown(r, q, p)
    PROVE  /\ PiecesOf(q) = PiecesOf(r) \cup {Piece(r, p)}
           /\ EndOf(r) \in Nat /\ EndOf(q) = EndOf(r) + Size(p)
<1> DEFINE n == Len(r.body)
           Of(x, i) == [seg |-> x.seg, at |-> PieceAt(x, i), rep |-> x.body[i].rep, b |-> x.body[i].b]
<1>1. /\ Sized(r) /\ Sized(q) /\ p \in Pieces /\ n \in Nat
      /\ q.seg = r.seg /\ q.start = r.start /\ Len(q.body) = n + 1 /\ q.body[n + 1] = p
      /\ \A i \in 1 .. n : q.body[i] = r.body[i]
  <2>1. r.body \in Seq(Pieces) /\ p \in Pieces /\ q.body = Append(r.body, p)
    BY DEF Grown, Sized
  <2>2. /\ Len(Append(r.body, p)) = Len(r.body) + 1 /\ Len(r.body) \in Nat
        /\ Append(r.body, p)[Len(r.body) + 1] = p
        /\ \A i \in 1 .. Len(r.body) : Append(r.body, p)[i] = r.body[i]
    BY <2>1, AppendProperties, LenProperties
  <2> QED
    BY <2>1, <2>2 DEF Grown
<1>2. ASSUME NEW i \in 1 .. n + 1
      PROVE  PieceAt(r, i) = PieceAt(q, i)
  <2>1. i \in 1 .. Len(r.body) + 1 /\ i <= Len(q.body) + 1 /\ \A k \in 1 .. i - 1 : k \in 1 .. n
    BY <1>1
  <2>2. Alike(r, q, i - 1)
    BY <1>1, <2>1 DEF Alike
  <2> QED
    BY <1>1, <2>1, <2>2, PieceAtSame
<1>3. \A i \in 1 .. n : Of(q, i) = Of(r, i)
  <2>1. \A i \in 1 .. n : i \in 1 .. n + 1
    BY <1>1
  <2> QED
    BY <1>1, <1>2, <2>1
<1>4. Of(q, n + 1) = Piece(r, p)
  <2>1. n + 1 \in 1 .. n + 1
    BY <1>1
  <2> QED
    BY <1>1, <1>2, <2>1 DEF Piece, EndOf
<1>5. PiecesOf(q) = PiecesOf(r) \cup {Piece(r, p)}
  <2>1. /\ PiecesOf(r) = { Of(r, i) : i \in 1 .. n }
        /\ PiecesOf(q) = { Of(q, i) : i \in 1 .. n + 1 }
    BY <1>1 DEF PiecesOf
  <2>2. \A i \in 1 .. n + 1 : i \in 1 .. n \/ i = n + 1
    BY <1>1
  <2>3. n + 1 \in 1 .. n + 1 /\ \A i \in 1 .. n : i \in 1 .. n + 1
    BY <1>1
  <2> HIDE DEF Of, n
  <2> QED
    BY <1>3, <1>4, <2>1, <2>2, <2>3
<1>6. EndOf(r) \in Nat
  <2>1. CASE n = 0
    BY <1>1, <2>1, PieceAtFirst DEF EndOf, Sized
  <2>2. CASE n # 0
    <3>1. PICK i \in 1 .. Len(r.body) : i = n
      BY <1>1, <2>2
    <3>2. PieceAt(r, i + 1) = PieceAt(r, i) + Size(r.body[i]) /\ PieceAt(r, i) \in Nat
      BY <1>1, PieceAtNext
    <3>3. Size(r.body[i]) \in Nat
      BY <1>1, SizeIsNat
    <3> QED
      BY <3>1, <3>2, <3>3 DEF EndOf
  <2> QED
    BY <2>1, <2>2
<1>7. EndOf(q) = EndOf(r) + Size(p)
  <2>1. PICK i \in 1 .. Len(q.body) : i = n + 1
    BY <1>1
  <2>2. PieceAt(q, i + 1) = PieceAt(q, i) + Size(q.body[i])
    BY <1>1, PieceAtNext
  <2>3. n + 1 \in 1 .. n + 1
    BY <1>1
  <2>4. PieceAt(r, n + 1) = PieceAt(q, n + 1)
    BY <1>2, <2>3
  <2> QED
    BY <1>1, <2>1, <2>2, <2>4 DEF EndOf
<1> QED
  BY <1>5, <1>6, <1>7

(* A record that is closed joins those that are.                           *)
LEMMA EndJoins ==
    ASSUME NEW Fix, NEW o \in Writers(Fix), o.rec # NoRec
    PROVE  /\ endDATA(o) \in Writers(Fix) /\ endDATA(o).rec = NoRec /\ endDATA(o).off = o.off
           /\ endDATA(o).n = o.n /\ endDATA(o).fbuf = o.fbuf /\ endDATA(o).fixes = o.fixes
           /\ Image(endDATA(o)) = Image(o) \cup PiecesOf(Open(o))
           /\ Fixups(endDATA(o)) = Fixups(o) \cup FixupsOf(Open(o))
<1>1. Open(o) \in Records(Fix)
  BY WriterIs DEF Open, Records
<1> DEFINE c == Append(o.closed, Open(o))
           n == Len(o.closed)
<1>2. c \in Seq(Records(Fix))
  BY <1>1, WriterIs, AppendProperties
<1>3. /\ n \in Nat /\ Len(c) = n + 1 /\ c[n + 1] = Open(o) /\ \A i \in 1 .. n : c[i] = o.closed[i]
  <2>1. PICK s \in Seq(Records(Fix)) : s = o.closed
    BY WriterIs
  <2>2. PICK e \in Records(Fix) : e = Open(o)
    BY <1>1
  <2>3. /\ Len(s) \in Nat /\ Len(Append(s, e)) = Len(s) + 1 /\ Append(s, e)[Len(s) + 1] = e
        /\ \A i \in 1 .. Len(s) : Append(s, e)[i] = s[i]
    BY <2>1, <2>2, AppendProperties, LenProperties
  <2> QED
    BY <2>1, <2>2, <2>3
<1>4. endDATA(o) = [o EXCEPT !.rec = NoRec, !.closed = c]
  BY DEF endDATA
<1> HIDE DEF c
<1>5. endDATA(o) \in Writers(Fix)
  BY <1>2, <1>4 DEF Writers
<1>6. /\ endDATA(o).rec = NoRec /\ endDATA(o).off = o.off /\ endDATA(o).closed = c
      /\ endDATA(o).n = o.n /\ endDATA(o).fbuf = o.fbuf /\ endDATA(o).fixes = o.fixes
  BY <1>4 DEF Writers
<1>7. PICK m \in Nat : m = n
  BY <1>3
<1>8. /\ m + 1 \in 1 .. m + 1 /\ \A i \in 1 .. m : i \in 1 .. m + 1
      /\ \A i \in 1 .. m + 1 : i \in 1 .. m \/ i = m + 1
  BY <1>7
<1>9. Image(endDATA(o)) = Image(o) \cup PiecesOf(Open(o))
  <2>1. /\ Image(o) = UNION { PiecesOf(o.closed[k]) : k \in 1 .. n }
        /\ Image(endDATA(o)) = UNION { PiecesOf(c[k]) : k \in 1 .. n + 1 }
    BY <1>3, <1>6 DEF Image
  <2> HIDE DEF n
  <2> QED
    BY <1>3, <1>7, <1>8, <2>1
<1>10. Fixups(endDATA(o)) = Fixups(o) \cup FixupsOf(Open(o))
  <2>1. /\ Fixups(o) = UNION { FixupsOf(o.closed[k]) : k \in 1 .. n }
        /\ Fixups(endDATA(o)) = UNION { FixupsOf(c[k]) : k \in 1 .. n + 1 }
    BY <1>3, <1>6 DEF Fixups
  <2> HIDE DEF n
  <2> QED
    BY <1>3, <1>7, <1>8, <2>1
<1> QED
  BY <1>5, <1>6, <1>9, <1>10

(* What is said once the record that is open is closed.                    *)
LEMMA DoneIs ==
    ASSUME NEW Fix, NEW o \in Writers(Fix)
    PROVE  /\ o.rec = NoRec => Done(o) = o /\ Says(o) = BytesIn(Image(o)) /\ Fixes(o) = Fixups(o)
           /\ o.rec # NoRec =>
                /\ Done(o) = endDATA(o)
                /\ Says(o) = BytesIn(Image(o) \cup PiecesOf(Open(o)))
                /\ Fixes(o) = Fixups(o) \cup FixupsOf(Open(o))
<1>1. o.rec = NoRec => Done(o) = o
  BY DEF Done, setdata
<1>2. o.rec # NoRec => Done(o) = endDATA(o)
  BY DEF Done, setdata
<1> QED
  BY <1>1, <1>2, EndJoins DEF Says, Fixes

(* A record that is begun is empty.                                        *)
LEMMA BeginIs ==
    ASSUME NEW Fix, NEW o \in Writers(Fix), NEW rec \in {"LEDATA", "LIDATA"},
           NEW seg \in Nat, NEW at \in Nat, o.rec = NoRec
    PROVE  LET q == begDATA(o, rec, seg, at)
           IN  /\ Good(q, Fix) /\ q.rec = rec /\ q.seg = seg /\ q.off = at /\ q.n = 0 /\ q.fbuf = 0
               /\ Len(q.fixes) = 0 /\ EndOf(q) = at
               /\ Says(q) = Says(o) /\ Fixes(q) = Fixes(o)
<1> DEFINE q == begDATA(o, rec, seg, at)
<1>1. q = [o EXCEPT !.rec = rec, !.seg = seg, !.start = at, !.off = at, !.n = 0,
                    !.body = <<>>, !.fixes = <<>>, !.fbuf = 0]
  BY DEF begDATA
<1>2. <<>> \in Seq(Pieces) /\ <<>> \in Seq(Buffered(Fix)) /\ Len(<<>>) = 0
  OBVIOUS
<1>3. q \in Writers(Fix)
  <2>1. PICK e : e = <<>>
    OBVIOUS
  <2>2. e \in Seq(Pieces) /\ e \in Seq(Buffered(Fix)) /\ rec \in {NoRec, "LEDATA", "LIDATA"}
    BY <1>2, <2>1
  <2>3. q = [o EXCEPT !.rec = rec, !.seg = seg, !.start = at, !.off = at, !.n = 0,
                      !.body = e, !.fixes = e, !.fbuf = 0]
    BY <1>1, <2>1
  <2> HIDE DEF q
  <2> QED
    BY <2>2, <2>3 DEF Writers
<1>4. /\ q.rec = rec /\ q.seg = seg /\ q.start = at /\ q.off = at /\ q.n = 0
      /\ q.body = <<>> /\ q.fixes = <<>> /\ q.fbuf = 0 /\ q.closed = o.closed
  BY <1>1 DEF Writers
<1> HIDE DEF q
<1>5. EndOf(q) = at
  <2>1. Sized(q) /\ Len(q.body) + 1 = 1
    BY <1>2, <1>3, <1>4, WriterIs
  <2> QED
    BY <1>4, <2>1, PieceAtFirst DEF EndOf
<1>6. Len(q.fixes) = 0 /\ Len(q.body) = 0
  BY <1>2, <1>4
<1>7. RecordFits(q)
  BY <1>4, <1>6, SizesAre DEF RecordFits
<1>8. InStep(q)
  BY <1>4, <1>5 DEF InStep
<1>9. Image(q) = Image(o) /\ Fixups(q) = Fixups(o)
  BY <1>4 DEF Image, Fixups
<1>10. PiecesOf(Open(q)) = {} /\ FixupsOf(Open(q)) = {}
  <2>1. Len(Open(q).body) = 0 /\ Len(Open(q).fixes) = 0
    BY <1>6 DEF Open
  <2> QED
    BY <2>1 DEF PiecesOf, FixupsOf
<1>11. q.rec # NoRec
  BY <1>4, BegunIsOpen
<1>12. Says(q) = Says(o) /\ Fixes(q) = Fixes(o)
  BY <1>3, <1>9, <1>10, <1>11, DoneIs
<1> QED
  BY <1>3, <1>4, <1>5, <1>6, <1>7, <1>8, <1>12 DEF Good, q

(* A record that is full is closed, and the next one goes on where it ends.*)
LEMMA AnotherIs ==
    ASSUME NEW Fix, NEW o \in Writers(Fix), o.rec \in {"LEDATA", "LIDATA"}
    PROVE  LET q == Another(o)
           IN  /\ Good(q, Fix) /\ q.rec = o.rec /\ q.seg = o.seg /\ q.off = o.off /\ q.n = 0 /\ q.fbuf = 0
               /\ Len(q.fixes) = 0 /\ EndOf(q) = o.off
               /\ Says(q) = Says(o) /\ Fixes(q) = Fixes(o)
<1>1. o.rec # NoRec
  BY BegunIsOpen
<1>2. PICK c : c = endDATA(o)
  OBVIOUS
<1>3. c \in Writers(Fix) /\ c.rec = NoRec
  BY <1>1, <1>2, EndJoins
<1>4. Says(c) = Says(o) /\ Fixes(c) = Fixes(o)
  BY <1>1, <1>2, <1>3, DoneIs DEF Says, Fixes
<1>5. o.seg \in Nat /\ o.off \in Nat
  BY WriterIs
<1>6. Another(o) = begDATA(c, o.rec, o.seg, o.off)
  BY <1>2 DEF Another
<1> QED
  BY <1>3, <1>4, <1>5, <1>6, BeginIs

(* Pieces, and the bytes that they are.                                    *)
LEMMA BytesJoin ==
    ASSUME NEW P, NEW Q
    PROVE  BytesIn(P \cup Q) = BytesIn(P) \cup BytesIn(Q)
BY DEF BytesIn

BlockAt(seg, at, rep, b) ==
  { <<seg, at + q[1] * Len(b) + q[2] - 1, b[q[2]]>> : q \in (0 .. rep - 1) \X (1 .. Len(b)) }

LEMMA BytesOfOne ==
    ASSUME NEW p
    PROVE  BytesIn({p}) = BlockAt(p.seg, p.at, p.rep, p.b)
BY DEF BytesIn, BlockAt

LEMMA BlockOnce ==
    ASSUME NEW seg, NEW at \in Nat, NEW b \in Seq(0 .. 255)
    PROVE  BlockAt(seg, at, 1, b) = At(seg, at, b)
<1>1. Len(b) \in Nat
  BY LenProperties
<1>2. ASSUME NEW k \in 1 .. Len(b)
      PROVE  at + 0 * Len(b) + k - 1 = at + k - 1 /\ <<0, k>> \in (0 .. 1 - 1) \X (1 .. Len(b))
  BY <1>1
<1>3. ASSUME NEW q \in (0 .. 1 - 1) \X (1 .. Len(b))
      PROVE  q[1] = 0 /\ q[2] \in 1 .. Len(b) /\ at + q[1] * Len(b) + q[2] - 1 = at + q[2] - 1
  BY <1>1
<1>4. ASSUME NEW x \in BlockAt(seg, at, 1, b)
      PROVE  x \in At(seg, at, b)
  <2>1. PICK q \in (0 .. 1 - 1) \X (1 .. Len(b)) :
               x = <<seg, at + q[1] * Len(b) + q[2] - 1, b[q[2]]>>
    BY DEF BlockAt
  <2> QED
    BY <1>3, <2>1 DEF At
<1>5. ASSUME NEW x \in At(seg, at, b)
      PROVE  x \in BlockAt(seg, at, 1, b)
  <2>1. PICK k \in 1 .. Len(b) : x = <<seg, at + k - 1, b[k]>>
    BY DEF At
  <2>2. PICK q : q = <<0, k>>
    OBVIOUS
  <2>3. q \in (0 .. 1 - 1) \X (1 .. Len(b)) /\ q[1] = 0 /\ q[2] = k
    BY <1>2, <2>2
  <2>4. x = <<seg, at + q[1] * Len(b) + q[2] - 1, b[q[2]]>>
    BY <1>2, <2>1, <2>3
  <2> QED
    BY <2>3, <2>4 DEF BlockAt
<1> QED
  BY <1>4, <1>5

(* A block of bytes goes into the open record.                             *)
LEMMA PieceGoesIn ==
    ASSUME NEW Fix, NEW o \in Writers(Fix), o.rec \in {"LEDATA", "LIDATA"}, NEW p \in Pieces,
           NEW q \in Writers(Fix), q.rec = o.rec, q.seg = o.seg, q.start = o.start,
           q.body = Append(o.body, p), q.fixes = o.fixes, q.closed = o.closed
    PROVE  /\ Says(q) = Says(o) \cup BlockAt(o.seg, EndOf(o), p.rep, p.b)
           /\ Fixes(q) = Fixes(o)
           /\ EndOf(o) \in Nat /\ EndOf(q) = EndOf(o) + Size(p)
<1>1. o.rec # NoRec /\ q.rec # NoRec
  BY BegunIsOpen
<1>2. Image(q) = Image(o) /\ Fixups(q) = Fixups(o)
  BY DEF Image, Fixups
<1>3. FixupsOf(Open(q)) = FixupsOf(Open(o))
  <2>1. /\ Open(q).seg = Open(o).seg /\ Open(q).start = Open(o).start
        /\ Open(q).fixes = Open(o).fixes
    BY DEF Open
  <2> QED
    BY <2>1 DEF FixupsOf
<1>4. Grown(Open(o), Open(q), p) /\ Grown(o, q, p)
  BY WriterIs DEF Grown, Open
<1>5. PiecesOf(Open(q)) = PiecesOf(Open(o)) \cup {Piece(Open(o), p)}
  BY <1>4, PiecesGrow
<1>6. EndOf(Open(o)) = EndOf(o)
  BY DEF EndOf, PieceAt, Open
<1>7. EndOf(o) \in Nat /\ EndOf(q) = EndOf(o) + Size(p)
  BY <1>4, PiecesGrow
<1>8. Piece(Open(o), p) = [seg |-> o.seg, at |-> EndOf(o), rep |-> p.rep, b |-> p.b]
  BY <1>6 DEF Piece, Open
<1>9. BytesIn({Piece(Open(o), p)}) = BlockAt(o.seg, EndOf(o), p.rep, p.b)
  BY <1>8, BytesOfOne
<1>10. Says(q) = Says(o) \cup BlockAt(o.seg, EndOf(o), p.rep, p.b)
  <2>1. Says(q) = BytesIn(Image(q) \cup PiecesOf(Open(q)))
    BY <1>1, DoneIs
  <2>2. Says(o) = BytesIn(Image(o) \cup PiecesOf(Open(o)))
    BY <1>1, DoneIs
  <2>3. Image(q) \cup PiecesOf(Open(q)) = (Image(o) \cup PiecesOf(Open(o))) \cup {Piece(Open(o), p)}
    BY <1>2, <1>5
  <2> QED
    BY <1>9, <2>1, <2>2, <2>3, BytesJoin
<1>11. Fixes(q) = Fixes(o)
  BY <1>1, <1>2, <1>3, DoneIs
<1> QED
  BY <1>7, <1>10, <1>11

-----------------------------------------------------------------------------
(* Bytes.                                                                  *)

(* Bytes for which there is room go behind those that are there.           *)
BytesAdded(o, q, b) ==
  /\ q.rec = "LEDATA" /\ q.seg = o.seg /\ q.off = o.off + Len(b)
  /\ Says(q) = Says(o) \cup At(o.seg, o.off, b)
  /\ Fixes(q) = Fixes(o)

LEMMA NothingAt ==
    ASSUME NEW seg, NEW at, NEW b, Len(b) = 0
    PROVE  At(seg, at, b) = {}
BY DEF At

LEMMA PutBytesIs ==
    ASSUME NEW Fix, NEW o, Good(o, Fix), o.rec = "LEDATA",
           NEW b \in Seq(0 .. 255), Len(b) <= OFREE(o)
    PROVE  LET q == PutBytes(o, b)
           IN  /\ Good(q, Fix) /\ BytesAdded(o, q, b)
               /\ q.start = o.start /\ q.fixes = o.fixes /\ q.fbuf = o.fbuf
               /\ q.n = o.n + Len(b)
<1> DEFINE q == PutBytes(o, b)
<1>0. o \in Writers(Fix) /\ RecordFits(o) /\ InStep(o) /\ Len(b) \in Nat /\ o.off \in Nat /\ o.n \in Nat
  BY WriterIs, LenProperties DEF Good
<1>1. CASE b = <<>>
  <2>1. q = o /\ Len(b) = 0
    BY <1>1 DEF PutBytes
  <2>2. At(o.seg, o.off, b) = {}
    BY <2>1, NothingAt
  <2>3. o.off = o.off + Len(b) /\ o.n = o.n + Len(b)
    BY <1>0, <2>1
  <2> HIDE DEF q
  <2>4. BytesAdded(o, q, b)
    BY <2>1, <2>2, <2>3 DEF BytesAdded
  <2> QED
    BY <2>1, <2>3, <2>4 DEF q
<1>2. CASE b # <<>>
  <2> DEFINE p == [rep |-> 1, b |-> b]
             body2 == Append(o.body, p)
  <2>1. p \in Pieces /\ p.rep = 1 /\ p.b = b /\ Size(p) = Len(b)
    BY <1>0 DEF Pieces, Size
  <2>2. q = [o EXCEPT !.body = body2, !.n = o.n + Len(b), !.off = o.off + Len(b)]
    BY <1>2 DEF PutBytes
  <2>3. body2 \in Seq(Pieces)
    <3>1. PICK e \in Pieces : e = p
      BY <2>1
    <3>2. PICK s \in Seq(Pieces) : s = o.body
      BY <1>0, WriterIs
    <3>3. Append(s, e) \in Seq(Pieces)
      BY <3>1, <3>2, AppendProperties
    <3> QED
      BY <3>1, <3>2, <3>3
  <2> HIDE DEF q, body2
  <2>4. q \in Writers(Fix)
    <3>1. PICK n \in Nat, off \in Nat : n = o.n + Len(b) /\ off = o.off + Len(b)
      BY <1>0
    <3>2. q = [o EXCEPT !.body = body2, !.n = n, !.off = off]
      BY <2>2, <3>1
    <3> QED
      BY <1>0, <2>3, <3>1, <3>2 DEF Writers
  <2>5. /\ q.rec = o.rec /\ q.seg = o.seg /\ q.start = o.start /\ q.body = body2 /\ q.fixes = o.fixes
        /\ q.closed = o.closed /\ q.fbuf = o.fbuf /\ q.n = o.n + Len(b) /\ q.off = o.off + Len(b)
    BY <1>0, <2>2 DEF Writers
  <2>6. /\ Says(q) = Says(o) \cup BlockAt(o.seg, EndOf(o), p.rep, p.b)
        /\ Fixes(q) = Fixes(o) /\ EndOf(o) \in Nat /\ EndOf(q) = EndOf(o) + Size(p)
    <3> HIDE DEF p
    <3> QED
      BY <1>0, <2>1, <2>4, <2>5, PieceGoesIn DEF body2
  <2>7. o.off = EndOf(o) /\ o.off = o.start + o.n
    BY <1>0 DEF InStep
  <2>8. BlockAt(o.seg, EndOf(o), p.rep, p.b) = At(o.seg, o.off, b)
    BY <2>1, <2>6, <2>7, BlockOnce
  <2>9. RecordFits(q)
    <3>1. q.n \in 0 .. ObjSize - 7
      BY <1>0, <2>5, SizesAre DEF RecordFits, OFREE
    <3>2. q.fbuf \in 0 .. FixSize
      BY <1>0, <2>5 DEF RecordFits
    <3>3. ASSUME NEW k \in 1 .. Len(q.fixes)
          PROVE  q.fixes[k].at + q.fixes[k].n <= q.n
      <4>1. PICK f : f = o.fixes[k]
        OBVIOUS
      <4>2. o.fixes \in Seq(Buffered(Fix)) /\ k \in 1 .. Len(o.fixes)
        BY <1>0, <2>5, WriterIs
      <4>3. f \in Buffered(Fix)
        BY <4>1, <4>2, ElementOfSeq
      <4>4. f.at \in Nat /\ f.n \in Nat
        BY <4>3, BufferedIs
      <4>5. f.at + f.n <= o.n
        BY <1>0, <4>1, <4>2 DEF RecordFits
      <4> QED
        BY <1>0, <2>5, <4>1, <4>4, <4>5
    <3> QED
      BY <3>1, <3>2, <3>3 DEF RecordFits
  <2>10. InStep(q)
    <3>1. o.start \in Nat
      BY <1>0, WriterIs
    <3>2. q.off = EndOf(q) /\ q.off = q.start + q.n
      BY <1>0, <2>1, <2>5, <2>6, <2>7, <3>1
    <3> QED
      BY <3>2 DEF InStep
  <2>11. Good(q, Fix)
    BY <2>4, <2>9, <2>10 DEF Good
  <2>12. BytesAdded(o, q, b)
    BY <2>5, <2>6, <2>8 DEF BytesAdded
  <2> QED
    BY <2>5, <2>11, <2>12 DEF q
<1> QED
  BY <1>1, <1>2

(* Some bytes are the first of them and the others.                        *)
AreParts(b, k, seg, at, x, y) ==
  /\ x \in Seq(0 .. 255) /\ Len(x) = k /\ y \in Seq(0 .. 255) /\ Len(y) = Len(b) - k
  /\ At(seg, at, b) = At(seg, at, x) \cup At(seg, at + k, y)

LEMMA CutInTwo ==
    ASSUME NEW b \in Seq(0 .. 255), NEW k \in 0 .. Len(b), NEW seg, NEW at \in Nat
    PROVE  AreParts(b, k, seg, at, SubSeq(b, 1, k), SubSeq(b, k + 1, Len(b)))
<1> DEFINE n == Len(b)
           x == SubSeq(b, 1, k)
           y == SubSeq(b, k + 1, n)
<1>1. n \in Nat /\ k \in Nat /\ k <= n /\ \A i \in 1 .. n : b[i] \in 0 .. 255
  BY LenProperties, ElementOfSeq
<1>2. x \in Seq(0 .. 255) /\ Len(x) = k /\ \A i \in 1 .. k : x[i] = b[i]
  BY <1>1
<1>3. y \in Seq(0 .. 255) /\ Len(y) = n - k /\ \A i \in 1 .. n - k : y[i] = b[k + i]
  BY <1>1
<1> HIDE DEF x, y, n
<1>4. ASSUME NEW z \in At(seg, at, b)
      PROVE  z \in At(seg, at, x) \cup At(seg, at + k, y)
  <2>1. PICK i \in 1 .. n : z = <<seg, at + i - 1, b[i]>>
    BY DEF At, n
  <2>2. CASE i <= k
    <3>1. i \in 1 .. Len(x) /\ b[i] = x[i]
      BY <1>1, <1>2, <2>2
    <3> QED
      BY <2>1, <3>1 DEF At
  <2>3. CASE ~ (i <= k)
    <3>1. PICK j \in 1 .. Len(y) : i = k + j
      BY <1>1, <1>3, <2>3, i - k \in 1 .. Len(y)
    <3>2. y[j] = b[i] /\ (at + k) + j - 1 = at + i - 1
      BY <1>1, <1>3, <3>1
    <3> QED
      BY <2>1, <3>2 DEF At
  <2> QED
    BY <2>2, <2>3
<1>5. ASSUME NEW z \in At(seg, at, x)
      PROVE  z \in At(seg, at, b)
  <2>1. PICK i \in 1 .. Len(x) : z = <<seg, at + i - 1, x[i]>>
    BY DEF At
  <2>2. i \in 1 .. n /\ x[i] = b[i]
    BY <1>1, <1>2, <2>1
  <2> QED
    BY <2>1, <2>2 DEF At, n
<1>6. ASSUME NEW z \in At(seg, at + k, y)
      PROVE  z \in At(seg, at, b)
  <2>1. PICK j \in 1 .. Len(y) : z = <<seg, (at + k) + j - 1, y[j]>>
    BY DEF At
  <2>2. k + j \in 1 .. n /\ y[j] = b[k + j] /\ (at + k) + j - 1 = at + (k + j) - 1
    BY <1>1, <1>3, <2>1
  <2> QED
    BY <2>1, <2>2 DEF At, n
<1> QED
  BY <1>1, <1>2, <1>3, <1>4, <1>5, <1>6 DEF x, y, n, AreParts

LEMMA MinOfTwo ==
    ASSUME NEW x \in Int, NEW y \in Int
    PROVE  (x <= y => Min({x, y}) = x) /\ (y < x => Min({x, y}) = y)
BY DEF Min

(* What putLEDATA does: the bytes are where they belong, and those of a    *)
(* word, or of what there is room for, are in one record.                  *)
LEMMA LEDATAIs ==
    ASSUME NEW Fix, NEW o, Good(o, Fix), o.rec = "LEDATA",
           NEW b \in Seq(0 .. 255), Len(b) <= ObjSize - 7
    PROVE  LET q == putLEDATA(o, b)
           IN  /\ Good(q, Fix) /\ BytesAdded(o, q, b) /\ q.fbuf <= o.fbuf
               /\ Len(b) <= 2 \/ Len(b) <= OFREE(o) => Len(b) <= q.n
               /\ 2 < Len(b) /\ OFREE(o) < Len(b) => q.n = Len(b) - OFREE(o)
<1> DEFINE q  == putLEDATA(o, b)
           n  == Len(b)
           o1 == IF OFREE(o) < Len(b) /\ Len(b) <= 2 THEN Another(o) ELSE o
           k  == Min({OFREE(o1), Len(b)})
           o2 == PutBytes(o1, SubSeq(b, 1, k))
<1>0. /\ o \in Writers(Fix) /\ RecordFits(o) /\ InStep(o) /\ n \in Nat
      /\ o.off \in Nat /\ o.n \in Nat /\ o.fbuf \in Nat
  BY WriterIs, LenProperties DEF Good
<1>1. OFREE(o) \in Nat /\ OFREE(o) = ObjSize - 7 - o.n /\ ObjSize - 7 \in Nat /\ 14 <= ObjSize - 7
  <2>1. o.n \in 0 .. ObjSize - 7 /\ o.n \in Nat
    BY <1>0 DEF RecordFits
  <2>2. PICK m \in Nat : m = o.n
    BY <2>1
  <2>3. OFREE(o) = (ObjSize - 1) - (6 + m)
    BY <2>2 DEF OFREE
  <2> QED
    BY <2>1, <2>2, <2>3, SizesAre
<1>2. SubSeq(b, 1, n) = b
  BY <1>0
<1>3. q = IF k = Len(b) THEN o2 ELSE PutBytes(Another(o2), SubSeq(b, k + 1, Len(b)))
  BY DEF putLEDATA
<1> HIDE DEF q, n
<1>4. CASE OFREE(o) < n /\ n <= 2
  <2>1. PICK a : a = Another(o)
    OBVIOUS
  <2>2. /\ Good(a, Fix) /\ a.rec = "LEDATA" /\ a.seg = o.seg /\ a.off = o.off /\ a.n = 0 /\ a.fbuf = 0
        /\ Says(a) = Says(o) /\ Fixes(a) = Fixes(o)
    BY <1>0, <2>1, AnotherIs
  <2>3. OFREE(a) = ObjSize - 7 /\ n <= OFREE(a)
    BY <1>0, <1>1, <1>4, <2>2, SizesAre DEF OFREE
  <2>4. o1 = a
    BY <1>4, <2>1 DEF n
  <2>5. k = n
    <3>1. OFREE(a) \in Int /\ ~ (OFREE(a) < n) /\ (OFREE(a) = n => Min({OFREE(a), n}) = n)
      BY <1>0, <1>1, <2>3, MinOfTwo
    <3>2. Min({OFREE(a), n}) = n
      BY <1>0, <1>1, <2>3, <3>1, MinOfTwo
    <3> QED
      BY <2>4, <3>2 DEF n
  <2>6. q = PutBytes(a, b)
    BY <1>2, <1>3, <2>4, <2>5 DEF n
  <2>7. Good(q, Fix) /\ BytesAdded(a, q, b) /\ q.fbuf = a.fbuf /\ q.n = a.n + Len(b)
    BY <2>2, <2>3, <2>6, PutBytesIs DEF n
  <2>8. BytesAdded(o, q, b)
    BY <2>2, <2>7 DEF BytesAdded
  <2> QED
    BY <1>0, <1>4, <2>2, <2>7, <2>8 DEF q, n
<1>5. CASE n <= OFREE(o)
  <2>1. o1 = o
    BY <1>0, <1>1, <1>5 DEF n
  <2>2. k = n
    <3>1. Min({OFREE(o), n}) = n
      <4>1. CASE OFREE(o) <= n
        BY <1>0, <1>1, <1>5, <4>1, MinOfTwo
      <4>2. CASE ~ (OFREE(o) <= n)
        BY <1>0, <1>1, <4>2, MinOfTwo
      <4> QED
        BY <4>1, <4>2
    <3> QED
      BY <2>1, <3>1 DEF n
  <2>3. q = PutBytes(o, b)
    BY <1>2, <1>3, <2>1, <2>2 DEF n
  <2>4. Good(q, Fix) /\ BytesAdded(o, q, b) /\ q.fbuf = o.fbuf /\ q.n = o.n + Len(b)
    BY <1>5, <2>3, PutBytesIs DEF n
  <2> QED
    BY <1>0, <1>1, <1>5, <2>4 DEF q, n
<1>6. CASE OFREE(o) < n /\ 2 < n
  <2>1. o1 = o
    BY <1>0, <1>6 DEF n
  <2>2. k = OFREE(o) /\ k # n /\ k \in 0 .. n
    <3>1. Min({OFREE(o), n}) = OFREE(o)
      BY <1>0, <1>1, <1>6, MinOfTwo
    <3>2. k = OFREE(o)
      BY <2>1, <3>1 DEF n
    <3> HIDE DEF k
    <3> QED
      BY <1>0, <1>1, <1>6, <3>2
  <2> DEFINE x == SubSeq(b, 1, k)
             y == SubSeq(b, k + 1, Len(b))
  <2>3. PICK c : c = PutBytes(o, x)
    OBVIOUS
  <2>4. PICK a : a = Another(c)
    OBVIOUS
  <2>5. q = PutBytes(a, y)
    BY <1>3, <2>1, <2>2, <2>3, <2>4 DEF n
  <2> HIDE DEF k, o1, o2
  <2>6. /\ x \in Seq(0 .. 255) /\ Len(x) = k /\ y \in Seq(0 .. 255) /\ Len(y) = n - k
        /\ At(o.seg, o.off, b) = At(o.seg, o.off, x) \cup At(o.seg, o.off + k, y)
    <3>1. k \in 0 .. Len(b)
      BY <2>2 DEF n
    <3>2. AreParts(b, k, o.seg, o.off, x, y)
      BY <1>0, <3>1, CutInTwo
    <3> QED
      BY <3>2 DEF n, AreParts
  <2> HIDE DEF x, y
  <2>7. Good(c, Fix) /\ BytesAdded(o, c, x) /\ c.fbuf = o.fbuf
    BY <1>0, <1>1, <2>2, <2>3, <2>6, PutBytesIs
  <2>8. c \in Writers(Fix) /\ c.rec = "LEDATA"
    BY <2>7 DEF Good, BytesAdded
  <2>9. /\ Good(a, Fix) /\ a.rec = "LEDATA" /\ a.seg = c.seg /\ a.off = c.off /\ a.n = 0 /\ a.fbuf = 0
        /\ Says(a) = Says(c) /\ Fixes(a) = Fixes(c)
    BY <2>4, <2>8, AnotherIs
  <2>10. Len(y) <= OFREE(a)
    <3>1. OFREE(a) = ObjSize - 7
      BY <1>1, <2>9, SizesAre DEF OFREE
    <3> QED
      BY <1>0, <1>1, <2>2, <2>6, <3>1 DEF n
  <2>11. Good(q, Fix) /\ BytesAdded(a, q, y) /\ q.fbuf = a.fbuf /\ q.n = a.n + Len(y)
    BY <2>5, <2>6, <2>9, <2>10, PutBytesIs
  <2>12. c.seg = o.seg /\ c.off = o.off + k
    BY <2>6, <2>7 DEF BytesAdded
  <2>13. q.rec = "LEDATA" /\ q.seg = o.seg /\ q.off = o.off + n
    <3>1. q.off = (o.off + k) + (n - k) /\ q.seg = o.seg /\ q.rec = "LEDATA"
      BY <2>6, <2>9, <2>11, <2>12 DEF BytesAdded
    <3> QED
      BY <1>0, <2>2, <3>1
  <2>14. Says(q) = Says(o) \cup At(o.seg, o.off, b) /\ Fixes(q) = Fixes(o)
    <3>1. Says(q) = Says(a) \cup At(a.seg, a.off, y) /\ Fixes(q) = Fixes(a)
      BY <2>11 DEF BytesAdded
    <3>2. Says(c) = Says(o) \cup At(o.seg, o.off, x) /\ Fixes(c) = Fixes(o)
      BY <2>7 DEF BytesAdded
    <3> QED
      BY <2>6, <2>9, <2>12, <3>1, <3>2
  <2>15. BytesAdded(o, q, b)
    BY <2>13, <2>14 DEF BytesAdded, n
  <2>16. q.n = n - OFREE(o)
    BY <1>0, <1>1, <2>2, <2>6, <2>9, <2>11
  <2> QED
    BY <1>0, <1>1, <1>6, <2>9, <2>11, <2>15, <2>16 DEF q, n
<1>7. (OFREE(o) < n /\ n <= 2) \/ n <= OFREE(o) \/ (OFREE(o) < n /\ 2 < n)
  BY <1>0, <1>1
<1> QED
  BY <1>4, <1>5, <1>6, <1>7

(* putLEDATA puts every byte at the running offset and those after it, in  *)
(* one record or across two, and neither moves nor adds any other; no      *)
(* reference to fix is lost or moved (PUTOBJ.C:205).                       *)
THEOREM DataIsPlaced ==
    ASSUME NEW Fix, NEW o, Good(o, Fix), o.rec = "LEDATA",
           NEW b \in Seq(0 .. 255), Len(b) <= ObjSize - 7
    PROVE  Good(putLEDATA(o, b), Fix) /\ BytesAdded(o, putLEDATA(o, b), b)
BY LEDATAIs

-----------------------------------------------------------------------------
(* References to fix.                                                      *)

(* A fixup is buffered behind those that are there.                        *)
FixAdded(o, q, f) ==
  q = [o EXCEPT !.fixes = Append(@, f), !.fbuf = @ + FixLen(f.fix)]

LEMMA FixAddedIs ==
    ASSUME NEW Fix, NEW o \in Writers(Fix), o.rec = "LEDATA", NEW f \in Buffered(Fix),
           NEW q, FixAdded(o, q, f)
    PROVE  /\ q \in Writers(Fix) /\ Says(q) = Says(o)
           /\ Fixes(q) = Fixes(o) \cup {<<o.seg, o.start + f.at, f.n, f.fix>>}
           /\ q.rec = o.rec /\ q.start = o.start /\ q.off = o.off /\ q.n = o.n
           /\ q.fbuf <= o.fbuf + 8 /\ EndOf(q) = EndOf(o)
           /\ Len(q.fixes) = Len(o.fixes) + 1 /\ q.fixes[Len(o.fixes) + 1] = f
           /\ \A k \in 1 .. Len(o.fixes) : q.fixes[k] = o.fixes[k]
<1>1. FixLen(f.fix) \in 6 .. 8 /\ o.fbuf \in Nat
  BY WriterIs DEF FixLen
<1>2. PICK g \in Nat : g = o.fbuf + FixLen(f.fix) /\ g <= o.fbuf + 8
  BY <1>1
<1>3. PICK s : s = Append(o.fixes, f)
  OBVIOUS
<1>4. /\ s \in Seq(Buffered(Fix)) /\ Len(s) = Len(o.fixes) + 1 /\ s[Len(o.fixes) + 1] = f
      /\ \A k \in 1 .. Len(o.fixes) : s[k] = o.fixes[k]
      /\ Len(o.fixes) \in Nat
  BY <1>3, WriterIs, AppendProperties, LenProperties
<1>5. q = [o EXCEPT !.fixes = s, !.fbuf = g]
  BY <1>2, <1>3 DEF FixAdded
<1>6. q \in Writers(Fix)
  BY <1>2, <1>4, <1>5 DEF Writers
<1>7. /\ q.rec = o.rec /\ q.seg = o.seg /\ q.start = o.start /\ q.off = o.off /\ q.n = o.n
      /\ q.body = o.body /\ q.fixes = s /\ q.fbuf = g /\ q.closed = o.closed
  BY <1>5 DEF Writers
<1>8. Image(q) = Image(o) /\ Fixups(q) = Fixups(o)
  BY <1>7 DEF Image, Fixups
<1>9. PiecesOf(Open(q)) = PiecesOf(Open(o)) /\ EndOf(q) = EndOf(o)
  BY <1>7 DEF PiecesOf, Open, PieceAt, EndOf
<1>10. FixupsOf(Open(q)) = FixupsOf(Open(o)) \cup {<<o.seg, o.start + f.at, f.n, f.fix>>}
  <2> DEFINE Of(e) == <<o.seg, o.start + e.at, e.n, e.fix>>
  <2>1. PICK m \in Nat : m = Len(o.fixes)
    BY <1>4
  <2>2. FixupsOf(Open(o)) = { Of(o.fixes[k]) : k \in 1 .. m }
    BY <2>1 DEF FixupsOf, Open
  <2>3. FixupsOf(Open(q)) = { Of(s[k]) : k \in 1 .. m + 1 }
    BY <1>4, <1>7, <2>1 DEF FixupsOf, Open
  <2>4. /\ \A k \in 1 .. m + 1 : k \in 1 .. m \/ k = m + 1
        /\ m + 1 \in 1 .. m + 1 /\ \A k \in 1 .. m : k \in 1 .. m + 1
    BY <2>1
  <2>5. s[m + 1] = f /\ \A k \in 1 .. m : s[k] = o.fixes[k]
    BY <1>4, <2>1
  <2> HIDE DEF Of
  <2>6. { Of(s[k]) : k \in 1 .. m + 1 } = { Of(o.fixes[k]) : k \in 1 .. m } \cup {Of(f)}
    BY <2>4, <2>5
  <2> QED
    BY <2>2, <2>3, <2>6 DEF Of
<1>11. o.rec # NoRec /\ q.rec # NoRec
  BY <1>7, BegunIsOpen
<1>12. Says(q) = Says(o) /\ Fixes(q) = Fixes(o) \cup {<<o.seg, o.start + f.at, f.n, f.fix>>}
  BY <1>6, <1>8, <1>9, <1>10, <1>11, DoneIs
<1> QED
  BY <1>2, <1>4, <1>6, <1>7, <1>9, <1>12

Zeros(n) == [i \in 1 .. n |-> 0]

(* putLEDFIX: the record that the item goes into, and its fixup.           *)
Room(o) == IF FixSize - o.fbuf < 12 THEN Another(o) ELSE o

LEMMA RoomIs ==
    ASSUME NEW Fix, NEW o, Good(o, Fix), o.rec = "LEDATA"
    PROVE  /\ Good(Room(o), Fix) /\ Room(o).rec = "LEDATA" /\ Room(o).seg = o.seg
           /\ Room(o).off = o.off /\ Room(o).fbuf + 12 <= FixSize /\ Room(o).fbuf \in Nat
           /\ Says(Room(o)) = Says(o) /\ Fixes(Room(o)) = Fixes(o)
           /\ Room(o) = o \/ OFREE(Room(o)) = ObjSize - 7
<1>0. o \in Writers(Fix) /\ o.fbuf \in Nat
  BY WriterIs DEF Good
<1>1. CASE FixSize - o.fbuf < 12
  <2>1. PICK a : a = Another(o)
    OBVIOUS
  <2>2. /\ Good(a, Fix) /\ a.rec = "LEDATA" /\ a.seg = o.seg /\ a.off = o.off /\ a.n = 0 /\ a.fbuf = 0
        /\ Says(a) = Says(o) /\ Fixes(a) = Fixes(o)
    BY <1>0, <2>1, AnotherIs
  <2>3. OFREE(a) = ObjSize - 7 /\ a.fbuf + 12 <= FixSize /\ a.fbuf \in Nat
    BY <2>2, SizesAre DEF OFREE
  <2>4. Room(o) = a
    BY <1>1, <2>1 DEF Room
  <2> QED
    BY <2>2, <2>3, <2>4
<1>2. CASE ~ (FixSize - o.fbuf < 12)
  <2>1. Room(o) = o
    BY <1>2 DEF Room
  <2>2. o.fbuf + 12 <= FixSize
    BY <1>0, <1>2, SizesAre
  <2> QED
    BY <1>0, <2>1, <2>2
<1> QED
  BY <1>1, <1>2

FixFor(c, n, fix) == [at |-> (c.n - n) % Places, n |-> n, fix |-> fix]

LEDFIXPut(Fix, o, c, q, n, fix) ==
  /\ FixAdded(c, q, FixFor(c, n, fix)) /\ FixFor(c, n, fix) \in Buffered(Fix)
  /\ Good(c, Fix) /\ BytesAdded(o, c, Zeros(n)) /\ c.fbuf + 12 <= FixSize
  /\ c.n \in Nat /\ c.start \in Nat /\ c.off = c.start + c.n /\ o.off \in Nat
  /\ n <= 2 \/ n <= OFREE(Room(o)) => n <= c.n
  /\ 2 < n /\ OFREE(Room(o)) < n => c.n = n - OFREE(Room(o))

LEMMA LEDFIXIs ==
    ASSUME NEW Fix, NEW o, Good(o, Fix), o.rec = "LEDATA", NEW n \in {1, 2, 4}, NEW fix \in Fix
    PROVE  LEDFIXPut(Fix, o, putLEDATA(Room(o), Zeros(n)), putLEDFIX(o, n, fix), n, fix)
<1> DEFINE c == putLEDATA(Room(o), Zeros(n))
           f == FixFor(c, n, fix)
<1>1. Zeros(n) \in Seq(0 .. 255) /\ Len(Zeros(n)) = n /\ n \in Nat /\ n <= ObjSize - 7
  <2>1. n \in Nat /\ n <= 4
    OBVIOUS
  <2>2. PICK m \in Nat : m = n
    BY <2>1
  <2>3. Zeros(m) \in Seq(0 .. 255) /\ Len(Zeros(m)) = m
    BY DEF Zeros
  <2> QED
    BY <2>1, <2>2, <2>3, SizesAre
<1>2. PICK r : r = Room(o)
  OBVIOUS
<1>3. PICK z : z = Zeros(n)
  OBVIOUS
<1>4. /\ Good(r, Fix) /\ r.rec = "LEDATA" /\ r.seg = o.seg /\ r.off = o.off
      /\ r.fbuf + 12 <= FixSize /\ r.fbuf \in Nat /\ Says(r) = Says(o) /\ Fixes(r) = Fixes(o)
  BY <1>2, RoomIs
<1>5. c = putLEDATA(r, z)
  BY <1>2, <1>3
<1>6. putLEDFIX(o, n, fix) = [c EXCEPT !.fixes = Append(@, f), !.fbuf = @ + FixLen(fix)]
  BY DEF putLEDFIX, Room, Zeros, FixFor
<1>7. FixAdded(c, putLEDFIX(o, n, fix), f)
  <2>1. f.fix = fix
    BY DEF FixFor
  <2> HIDE DEF c, f
  <2> QED
    BY <1>6, <2>1 DEF FixAdded
<1> HIDE DEF c
<1>8. /\ Good(c, Fix) /\ BytesAdded(r, c, z) /\ c.fbuf <= r.fbuf
      /\ Len(z) <= 2 \/ Len(z) <= OFREE(r) => Len(z) <= c.n
      /\ 2 < Len(z) /\ OFREE(r) < Len(z) => c.n = Len(z) - OFREE(r)
  BY <1>1, <1>3, <1>4, <1>5, LEDATAIs
<1>9. c \in Writers(Fix) /\ c.n \in Nat /\ c.start \in Nat /\ c.off = c.start + c.n /\ c.fbuf \in Nat
  <2>1. c \in Writers(Fix) /\ c.rec = "LEDATA" /\ InStep(c)
    BY <1>8 DEF Good, BytesAdded
  <2> QED
    BY <2>1, WriterIs DEF InStep
<1>10. f \in Buffered(Fix)
  <2>1. PICK at \in 0 .. Places - 1 : at = (c.n - n) % Places
    <3>1. PICK x \in Int : x = c.n - n
      <4>1. c.n \in Nat /\ n \in Nat
        BY <1>1, <1>9
      <4> QED
        BY <4>1
    <3>2. PICK y \in 0 .. Places - 1 : y = x % Places
      BY PlacesIs
    <3> QED
      BY <3>1, <3>2, Zenon
  <2>2. f = [at |-> at, n |-> n, fix |-> fix]
    BY <2>1 DEF FixFor
  <2>3. n \in {1, 2, 4} /\ fix \in Fix
    OBVIOUS
  <2> HIDE DEF f
  <2> QED
    BY <2>2, <2>3, Zenon DEF Buffered
<1>11. BytesAdded(o, c, Zeros(n))
  BY <1>3, <1>4, <1>8 DEF BytesAdded
<1>12. c.fbuf + 12 <= FixSize
  BY <1>4, <1>8, <1>9, SizesAre
<1>13. o.off \in Nat
  BY WriterIs DEF Good
<1> QED
  BY <1>1, <1>2, <1>3, <1>7, <1>8, <1>9, <1>10, <1>11, <1>12, <1>13 DEF c, LEDFIXPut

(* A word or a byte that the linker is to fix, and a pointer for which the *)
(* record has room, go to the running offset as zeroes, whether the fixups *)
(* or the record had to be written first or not; the fixup names just this *)
(* place, its offset survives being cut to ten bits, and it lies within    *)
(* the record (PUTOBJ.C:283).                                              *)
THEOREM FixupIsPlaced ==
    ASSUME NEW Fix, NEW o, Good(o, Fix), o.rec = "LEDATA", NEW n \in {1, 2, 4}, NEW fix \in Fix,
           n <= 2 \/ n <= OFREE(o)
    PROVE  LET q == putLEDFIX(o, n, fix)
           IN  /\ Good(q, Fix)
               /\ Says(q)  = Says(o) \cup At(o.seg, o.off, Zeros(n))
               /\ Fixes(q) = Fixes(o) \cup {<<o.seg, o.off, n, fix>>}
<1> DEFINE f(c) == FixFor(c, n, fix)
<1>1. PICK q : q = putLEDFIX(o, n, fix)
  OBVIOUS
<1>2. PICK c : c = putLEDATA(Room(o), Zeros(n))
  OBVIOUS
<1>3. /\ FixAdded(c, q, f(c)) /\ f(c) \in Buffered(Fix)
      /\ Good(c, Fix) /\ BytesAdded(o, c, Zeros(n)) /\ c.fbuf + 12 <= FixSize
      /\ c.n \in Nat /\ c.start \in Nat /\ c.off = c.start + c.n /\ o.off \in Nat
      /\ n <= 2 \/ n <= OFREE(Room(o)) => n <= c.n
  <2>1. LEDFIXPut(Fix, o, c, q, n, fix)
    BY <1>1, <1>2, LEDFIXIs
  <2> QED
    BY <2>1 DEF LEDFIXPut
<1>4. n \in Nat /\ n > 0 /\ n <= c.n
  <2>1. n \in Nat /\ n <= 4 /\ n > 0
    OBVIOUS
  <2>2. Room(o) = o \/ OFREE(Room(o)) = ObjSize - 7
    BY RoomIs
  <2>3. n <= 2 \/ n <= OFREE(Room(o))
    BY <2>1, <2>2, SizesAre
  <2> QED
    BY <1>3, <2>1, <2>3
<1>5. c \in Writers(Fix) /\ c.n <= ObjSize - 7 /\ RecordFits(c) /\ InStep(c) /\ c.fbuf \in Nat
  <2>1. c \in Writers(Fix) /\ RecordFits(c) /\ InStep(c)
    BY <1>3 DEF Good
  <2>2. c.fbuf \in Nat
    BY <2>1, WriterIs
  <2>3. c.n <= ObjSize - 7
    BY <2>1, SizesAre DEF RecordFits
  <2> QED
    BY <2>1, <2>2, <2>3
<1>6. (c.n - n) % Places = c.n - n
  <2>1. PICK x \in 0 .. Places - 1 : x = c.n - n
    <3>1. c.n - n \in 0 .. Places - 1
      <4>1. PICK y \in Nat, m \in Nat : y = c.n /\ m = n
        BY <1>3, <1>4
      <4>2. m > 0 /\ m <= y /\ y <= ObjSize - 7 /\ ObjSize \in Nat /\ ObjSize <= Places + 7
        BY <1>4, <1>5, <4>1, SizesAre
      <4>3. y - m \in 0 .. Places - 1
        BY <4>2, PlacesIs
      <4> QED
        BY <4>1, <4>3
    <3> QED
      BY <3>1
  <2>2. x % Places = x
    <3>1. IsDivided(x, Places, 0, x)
      BY PlacesIs DEF IsDivided
    <3> QED
      BY <3>1, DivMod
  <2> QED
    BY <2>1, <2>2
<1>7. PICK e \in Buffered(Fix) : e = f(c) /\ e.at = c.n - n /\ e.n = n /\ e.fix = fix
  BY <1>3, <1>6 DEF FixFor
<1>8. /\ q \in Writers(Fix) /\ Says(q) = Says(c)
      /\ Fixes(q) = Fixes(c) \cup {<<c.seg, c.start + e.at, e.n, e.fix>>}
      /\ q.rec = c.rec /\ q.start = c.start /\ q.off = c.off /\ q.n = c.n
      /\ q.fbuf <= c.fbuf + 8 /\ EndOf(q) = EndOf(c)
      /\ Len(q.fixes) = Len(c.fixes) + 1 /\ q.fixes[Len(c.fixes) + 1] = e
      /\ \A k \in 1 .. Len(c.fixes) : q.fixes[k] = c.fixes[k]
  <2>1. FixAdded(c, q, e) /\ c.rec = "LEDATA"
    BY <1>3, <1>7 DEF BytesAdded
  <2> HIDE DEF f
  <2> QED
    BY <1>5, <2>1, FixAddedIs
<1>9. c.seg = o.seg /\ c.start + e.at = o.off
  <2>1. Len(Zeros(n)) = n
    BY <1>4 DEF Zeros
  <2>2. c.off = o.off + n /\ c.seg = o.seg
    BY <1>3, <2>1 DEF BytesAdded
  <2> QED
    BY <1>3, <1>4, <1>7, <2>2
<1>10. RecordFits(q)
  <2>1. q.n \in 0 .. ObjSize - 7
    BY <1>5, <1>8 DEF RecordFits
  <2>2. q.fbuf \in 0 .. FixSize
    <3>1. q.fbuf \in Nat
      BY <1>8, WriterIs
    <3> QED
      BY <1>3, <1>5, <1>8, <3>1, SizesAre
  <2>3. ASSUME NEW k \in 1 .. Len(q.fixes)
        PROVE  q.fixes[k].at + q.fixes[k].n <= q.n
    <3>1. Len(c.fixes) \in Nat
      BY <1>5, WriterIs
    <3>2. CASE k = Len(c.fixes) + 1
      BY <1>3, <1>4, <1>7, <1>8, <3>2
    <3>3. CASE k # Len(c.fixes) + 1
      <4>1. k \in 1 .. Len(c.fixes)
        BY <1>8, <3>1, <3>3
      <4>2. q.fixes[k] = c.fixes[k]
        BY <1>8, <4>1
      <4>3. c.fixes[k].at + c.fixes[k].n <= c.n
        BY <1>5, <4>1 DEF RecordFits
      <4> QED
        BY <1>8, <4>2, <4>3
    <3> QED
      BY <3>2, <3>3
  <2> QED
    BY <2>1, <2>2, <2>3 DEF RecordFits
<1>11. InStep(q)
  BY <1>5, <1>8 DEF InStep
<1>12. Good(q, Fix)
  BY <1>8, <1>10, <1>11 DEF Good
<1>13. Says(q) = Says(o) \cup At(o.seg, o.off, Zeros(n))
  BY <1>3, <1>8 DEF BytesAdded
<1>14. Fixes(q) = Fixes(o) \cup {<<o.seg, o.off, n, fix>>}
  BY <1>3, <1>7, <1>8, <1>9 DEF BytesAdded
<1> QED
  BY <1>1, <1>12, <1>13, <1>14

(* The condition of FixupIsPlaced is needed: putLEDATA holds together what *)
(* has at most two bytes, but a far pointer has four.  When one to three   *)
(* bytes are free, the pointer is cut, and its fixup names a place at the  *)
(* end of the ten bits, behind all that its record holds (PUTOBJ.C:207,    *)
(* 290).                                                                   *)
THEOREM PointerIsCut ==
    ASSUME NEW Fix, NEW o, Good(o, Fix), o.rec = "LEDATA", NEW fix \in Fix,
           OFREE(o) \in 1 .. 3, FixSize - o.fbuf >= 12
    PROVE  LET q == putLEDFIX(o, 4, fix)
           IN  /\ q.n = 4 - OFREE(o) /\ q.fixes[Len(q.fixes)].at = Places - OFREE(o)
               /\ ~ RecordFits(q)
<1> DEFINE f(c) == FixFor(c, 4, fix)
<1>1. PICK q : q = putLEDFIX(o, 4, fix)
  OBVIOUS
<1>2. PICK c : c = putLEDATA(Room(o), Zeros(4))
  OBVIOUS
<1>3. Room(o) = o
  <2>1. o.fbuf \in Nat
    BY WriterIs DEF Good
  <2> QED
    BY <2>1, SizesAre DEF Room
<1>4. /\ FixAdded(c, q, f(c)) /\ f(c) \in Buffered(Fix) /\ Good(c, Fix)
      /\ c.rec = "LEDATA" /\ c.n = 4 - OFREE(o)
  <2>1. PICK n \in {1, 2, 4} : n = 4
    OBVIOUS
  <2>2. LEDFIXPut(Fix, o, c, q, n, fix)
    BY <1>1, <1>2, <2>1, LEDFIXIs
  <2>3. 2 < n /\ OFREE(Room(o)) < n
    BY <1>3, <2>1
  <2> QED
    BY <1>3, <2>1, <2>2, <2>3 DEF BytesAdded, LEDFIXPut
<1>5. (c.n - 4) % Places = Places - OFREE(o)
  <2>1. PICK k \in 1 .. 3 : k = OFREE(o)
    OBVIOUS
  <2>2. c.n - 4 = - k
    BY <1>4, <2>1
  <2>3. (- k) % Places = Places - k
    <3>1. IsDivided(- k, Places, -1, Places - k)
      BY PlacesIs DEF IsDivided
    <3> QED
      BY <3>1, DivMod
  <2> QED
    BY <2>1, <2>2, <2>3
<1>6. PICK e \in Buffered(Fix) : e = f(c) /\ e.at = Places - OFREE(o) /\ e.n = 4
  BY <1>4, <1>5 DEF FixFor
<1>7. /\ q \in Writers(Fix) /\ q.n = c.n /\ Len(q.fixes) = Len(c.fixes) + 1
      /\ q.fixes[Len(c.fixes) + 1] = e
  <2>1. FixAdded(c, q, e) /\ c \in Writers(Fix)
    BY <1>4, <1>6 DEF Good
  <2> HIDE DEF f
  <2> QED
    BY <1>4, <2>1, FixAddedIs
<1>8. ~ RecordFits(q)
  <2>1. Len(q.fixes) \in 1 .. Len(q.fixes)
    <3>1. c \in Writers(Fix)
      BY <1>4 DEF Good
    <3>2. Len(c.fixes) \in Nat
      BY <3>1, WriterIs
    <3> QED
      BY <1>7, <3>2
  <2>2. ~ (e.at + e.n <= q.n)
    <3>1. PICK k \in 1 .. 3 : k = OFREE(o)
      OBVIOUS
    <3>2. ~ ((Places - k) + 4 <= 4 - k)
      BY PlacesIs
    <3> QED
      BY <1>4, <1>6, <1>7, <3>1, <3>2
  <2> QED
    BY <1>7, <2>1, <2>2 DEF RecordFits
<1> QED
  BY <1>1, <1>4, <1>6, <1>7, <1>8

-----------------------------------------------------------------------------
(* Repeated blocks.                                                        *)

BlockAdded(o, q, rep, b, at) ==
  Fixes(q) = Fixes(o) /\ Says(q) = Says(o) \cup BlockAt(o.seg, at, rep, b)

LIDATAPut(Fix, o, q, rep, b) ==
  /\ Good(q, Fix) /\ BlockAdded(o, q, rep, b, EndOf(o))
  /\ EndOf(o) \in Nat /\ EndOf(q) = EndOf(o) + rep * Len(b)
  /\ q.off = (o.off + rep * (Wrap - 1)) % Wrap

LEMMA LIDATAIs ==
    ASSUME NEW Fix, NEW o, Good(o, Fix), o.rec = "LIDATA",
           NEW rep \in Nat, NEW b \in Seq(0 .. 255), Len(b) + 5 <= OFREE(o)
    PROVE  LIDATAPut(Fix, o, putLIDATA(o, rep, b), rep, b)
<1> DEFINE q == putLIDATA(o, rep, b)
           p == [rep |-> rep, b |-> b]
<1>0. o \in Writers(Fix) /\ RecordFits(o) /\ Len(b) \in Nat /\ o.off \in Nat /\ o.n \in Nat
  BY WriterIs, LenProperties DEF Good
<1>1. p \in Pieces /\ p.rep = rep /\ p.b = b /\ Size(p) = rep * Len(b)
  BY DEF Pieces, Size
<1>2. ~ (OFREE(o) < Len(b) + 5)
  <2>1. OFREE(o) \in Int
    BY <1>0, SizesAre DEF OFREE
  <2> QED
    BY <1>0, <2>1
<1>3. PICK n \in Nat, off \in Nat : n = o.n + Len(b) + 5 /\ off = (o.off + rep * (Wrap - 1)) % Wrap
  <2>1. o.off + rep * (Wrap - 1) \in Nat
    <3>1. PICK m \in Nat : m = Wrap - 1
      BY WrapIs
    <3>2. rep * m \in Nat
      OBVIOUS
    <3> QED
      BY <1>0, <3>1, <3>2
  <2>2. (o.off + rep * (Wrap - 1)) % Wrap \in Nat
    <3>1. PICK x \in Nat : x = o.off + rep * (Wrap - 1)
      BY <2>1
    <3>2. x % Wrap \in Nat
      BY WrapIs
    <3> QED
      BY <3>1, <3>2
  <2>3. o.n + Len(b) + 5 \in Nat
    BY <1>0
  <2> QED
    BY <2>2, <2>3
<1>4. PICK body2 \in Seq(Pieces) : body2 = Append(o.body, p)
  <2>1. PICK e \in Pieces : e = p
    BY <1>1
  <2>2. PICK s \in Seq(Pieces) : s = o.body
    BY <1>0, WriterIs
  <2>3. Append(s, e) \in Seq(Pieces)
    BY <2>1, <2>2, AppendProperties
  <2> QED
    BY <2>1, <2>2, <2>3
<1>5. q = [o EXCEPT !.body = body2, !.n = n, !.off = off]
  BY <1>2, <1>3, <1>4 DEF putLIDATA
<1> HIDE DEF q
<1>6. q \in Writers(Fix)
  <2>1. o \in Writers(Fix) /\ n \in Nat /\ off \in Nat /\ body2 \in Seq(Pieces)
    BY <1>0, <1>3, <1>4
  <2> QED
    BY <1>5, <2>1 DEF Writers
<1>7. /\ q.rec = o.rec /\ q.seg = o.seg /\ q.start = o.start /\ q.body = body2 /\ q.fixes = o.fixes
      /\ q.closed = o.closed /\ q.fbuf = o.fbuf /\ q.n = n /\ q.off = off
  BY <1>0, <1>5 DEF Writers
<1>8. /\ Says(q) = Says(o) \cup BlockAt(o.seg, EndOf(o), rep, b)
      /\ Fixes(q) = Fixes(o) /\ EndOf(o) \in Nat /\ EndOf(q) = EndOf(o) + rep * Len(b)
  <2>1. PICK e \in Pieces : e = p /\ e.rep = rep /\ e.b = b /\ Size(e) = rep * Len(b)
    BY <1>1
  <2> HIDE DEF p
  <2>2. q.body = Append(o.body, e) /\ o.rec \in {"LEDATA", "LIDATA"}
    BY <1>4, <1>7, <2>1
  <2>3. /\ Says(q) = Says(o) \cup BlockAt(o.seg, EndOf(o), e.rep, e.b)
        /\ Fixes(q) = Fixes(o) /\ EndOf(o) \in Nat /\ EndOf(q) = EndOf(o) + Size(e)
    BY <1>0, <1>6, <1>7, <2>2, PieceGoesIn
  <2> QED
    BY <2>1, <2>3
<1>9. RecordFits(q)
  <2>1. q.n \in 0 .. ObjSize - 7
    <3>1. PICK x \in Nat, y \in Nat : x = o.n /\ y = Len(b)
      BY <1>0
    <3>2. y + 5 <= (ObjSize - 1) - (6 + x)
      BY <3>1 DEF OFREE
    <3>3. x + y + 5 \in 0 .. ObjSize - 7
      BY <3>2, SizesAre
    <3> QED
      BY <1>3, <1>7, <3>1, <3>3
  <2>2. q.fbuf \in 0 .. FixSize
    BY <1>0, <1>7 DEF RecordFits
  <2>3. ASSUME NEW k \in 1 .. Len(q.fixes)
        PROVE  q.fixes[k].at + q.fixes[k].n <= q.n
    <3>1. PICK f : f = o.fixes[k]
      OBVIOUS
    <3>2. o.fixes \in Seq(Buffered(Fix)) /\ k \in 1 .. Len(o.fixes)
      BY <1>0, <1>7, WriterIs
    <3>3. f \in Buffered(Fix)
      BY <3>1, <3>2, ElementOfSeq
    <3>4. f.at \in Nat /\ f.n \in Nat
      BY <3>3, BufferedIs
    <3>5. f.at + f.n <= o.n
      BY <1>0, <3>1, <3>2 DEF RecordFits
    <3>6. o.n <= n
      BY <1>0, <1>3
    <3>7. f.at + f.n <= n
      <4>1. PICK x \in Nat, y \in Nat : x = f.at /\ y = f.n
        BY <3>4
      <4> QED
        BY <1>0, <3>5, <3>6, <4>1
    <3> QED
      BY <1>7, <3>1, <3>7
  <2> QED
    BY <2>1, <2>2, <2>3 DEF RecordFits
<1>10. InStep(q)
  BY <1>7 DEF InStep
<1> QED
  BY <1>3, <1>6, <1>7, <1>8, <1>9, <1>10 DEF Good, BlockAdded, LIDATAPut, q

(* A repeated block for which there is room goes behind what the record    *)
(* holds, as often as asked; one for which there is none goes to the       *)
(* running offset, in a record of its own (PUTOBJ.C:182).                  *)
THEOREM BlockIsPlaced ==
    ASSUME NEW Fix, NEW o, Good(o, Fix), o.rec = "LIDATA",
           NEW rep \in Nat, NEW b \in Seq(0 .. 255), Len(b) + 5 <= ObjSize - 7
    PROVE  LET q == putLIDATA(o, rep, b)
               at == IF Len(b) + 5 <= OFREE(o) THEN EndOf(o) ELSE o.off
           IN  Good(q, Fix) /\ BlockAdded(o, q, rep, b, at)
<1>0. o \in Writers(Fix) /\ Len(b) \in Nat /\ OFREE(o) \in Int
  <2>1. o \in Writers(Fix)
    BY DEF Good
  <2>2. o.n \in Nat
    BY <2>1, WriterIs
  <2>3. OFREE(o) \in Int
    BY <2>2, SizesAre DEF OFREE
  <2> QED
    BY <2>1, <2>3, LenProperties
<1>1. CASE Len(b) + 5 <= OFREE(o)
  <2>1. LIDATAPut(Fix, o, putLIDATA(o, rep, b), rep, b)
    BY <1>1, LIDATAIs
  <2> QED
    BY <1>1, <2>1 DEF LIDATAPut
<1>2. CASE ~ (Len(b) + 5 <= OFREE(o))
  <2>1. PICK a : a = Another(o)
    OBVIOUS
  <2>2. /\ Good(a, Fix) /\ a.rec = "LIDATA" /\ a.seg = o.seg /\ a.off = o.off /\ a.n = 0
        /\ EndOf(a) = o.off /\ Says(a) = Says(o) /\ Fixes(a) = Fixes(o)
    BY <1>0, <2>1, AnotherIs
  <2>3. Len(b) + 5 <= OFREE(a) /\ OFREE(a) \in Int
    BY <2>2, SizesAre DEF OFREE
  <2>4. putLIDATA(o, rep, b) = putLIDATA(a, rep, b)
    <3>1. OFREE(o) < Len(b) + 5 /\ ~ (OFREE(a) < Len(b) + 5)
      BY <1>0, <1>2, <2>3
    <3> QED
      BY <2>1, <3>1 DEF putLIDATA
  <2>5. Good(putLIDATA(a, rep, b), Fix) /\ BlockAdded(a, putLIDATA(a, rep, b), rep, b, EndOf(a))
    <3>1. LIDATAPut(Fix, a, putLIDATA(a, rep, b), rep, b)
      BY <2>2, <2>3, LIDATAIs
    <3> QED
      BY <3>1 DEF LIDATAPut
  <2>6. BlockAdded(o, putLIDATA(o, rep, b), rep, b, o.off)
    BY <2>2, <2>4, <2>5 DEF BlockAdded
  <2> QED
    BY <1>2, <2>4, <2>5, <2>6
<1> QED
  BY <1>1, <1>2

(* To add a number as often as the greatest unsigned says is to take it   *)
(* away.                                                                   *)
LEMMA GoesBack ==
    ASSUME NEW x \in Nat, NEW y \in Nat, y <= x, x < Wrap
    PROVE  (x + y * (Wrap - 1)) % Wrap = x - y
<1>1. Wrap \in Nat \ {0}
  BY WrapIs
<1>2. PICK r \in 0 .. Wrap - 1 : r = x - y
  BY <1>1
<1>3. y * (Wrap - 1) = y * Wrap - y /\ y * Wrap \in Int
  BY <1>1
<1>4. PICK z \in Int : z = x + y * (Wrap - 1)
  BY <1>3
<1>5. z = y * Wrap + r
  BY <1>2, <1>3, <1>4
<1>6. IsDivided(z, Wrap, y, r)
  BY <1>1, <1>5 DEF IsDivided
<1>7. z % Wrap = r
  BY <1>6, DivMod
<1> QED
  BY <1>2, <1>4, <1>7

(* The running offset is of no use to the record that follows: a repeated  *)
(* block moves it back by the number of its repetitions, as len has been   *)
(* counted down to -1 when it is used (PUTOBJ.C:193).  A record of blocks  *)
(* that is full goes on over what it has just written.                     *)
THEOREM OffsetGoesBack ==
    ASSUME NEW Fix, NEW o, Good(o, Fix), o.rec = "LIDATA", o.off = EndOf(o), o.off < Wrap,
           NEW rep \in 1 .. o.off, NEW b \in Seq(0 .. 255), Len(b) + 5 <= OFREE(o)
    PROVE  LET q == putLIDATA(o, rep, b)
           IN  q.off = o.off - rep /\ EndOf(q) = o.off + rep * Len(b)
<1>0. o.off \in Nat /\ rep \in Nat
  <2>1. o.off \in Nat
    BY WriterIs DEF Good
  <2> QED
    BY <2>1
<1>1. (o.off + rep * (Wrap - 1)) % Wrap = o.off - rep
  BY <1>0, rep <= o.off, GoesBack
<1>2. /\ putLIDATA(o, rep, b).off = (o.off + rep * (Wrap - 1)) % Wrap
      /\ EndOf(putLIDATA(o, rep, b)) = EndOf(o) + rep * Len(b)
  BY <1>0, LIDATAIs DEF LIDATAPut
<1> QED
  BY <1>1, <1>2

-----------------------------------------------------------------------------
(* The records change.                                                     *)

LEMMA EndIsGood ==
    ASSUME NEW Fix, NEW o, Good(o, Fix), o.rec # NoRec
    PROVE  LET c == endDATA(o)
           IN  Good(c, Fix) /\ c.rec = NoRec /\ Says(c) = Says(o) /\ Fixes(c) = Fixes(o)
<1>1. PICK c : c = endDATA(o)
  OBVIOUS
<1>2. o \in Writers(Fix) /\ RecordFits(o)
  BY DEF Good
<1>3. /\ c \in Writers(Fix) /\ c.rec = NoRec
      /\ c.n = o.n /\ c.fbuf = o.fbuf /\ c.fixes = o.fixes
  BY <1>1, <1>2, EndJoins
<1>4. RecordFits(c)
  BY <1>2, <1>3 DEF RecordFits
<1>5. InStep(c)
  BY <1>3, BegunIsOpen DEF InStep
<1>6. Says(c) = Says(o) /\ Fixes(c) = Fixes(o)
  BY <1>1, <1>2, <1>3, DoneIs DEF Says, Fixes
<1> QED
  BY <1>1, <1>3, <1>4, <1>5, <1>6 DEF Good

(* The writer begins well; to go from bytes to repeated blocks, to another *)
(* segment or, behind ORG, to another offset, neither loses nor moves      *)
(* anything, and what comes next goes where the assembler asks for it      *)
(* (asm2.c:1234, 1211).                                                    *)
THEOREM NothingIsLost ==
    ASSUME NEW Fix
    PROVE  /\ Good(NoRecords, Fix)
           /\ \A o : Good(o, Fix) =>
                \A rec \in {NoRec, "LEDATA", "LIDATA"}, seg \in Nat, at \in Nat :
                  LET q == setdata(o, rec, seg, at)
                  IN  /\ Good(q, Fix) /\ q.rec = rec /\ Says(q) = Says(o) /\ Fixes(q) = Fixes(o)
                      /\ rec \notin {NoRec, o.rec} => q.seg = seg /\ q.off = at /\ EndOf(q) = at
           /\ \A o : Good(o, Fix) /\ o.rec # NoRec =>
                \A seg \in Nat, at \in Nat :
                  LET q == begDATA(endDATA(o), o.rec, seg, at)
                  IN  /\ Good(q, Fix) /\ Says(q) = Says(o) /\ Fixes(q) = Fixes(o)
                      /\ q.rec = o.rec /\ q.seg = seg /\ q.off = at /\ EndOf(q) = at
<1>1. Good(NoRecords, Fix)
  <2>1. PICK e : e = <<>>
    OBVIOUS
  <2>2. e \in Seq(Pieces) /\ e \in Seq(Buffered(Fix)) /\ e \in Seq(Records(Fix)) /\ Len(e) = 0
    BY <2>1
  <2>3. NoRecords = [rec |-> NoRec, seg |-> 0, start |-> 0, off |-> 0, n |-> 0,
                     body |-> e, fixes |-> e, fbuf |-> 0, closed |-> e]
    BY <2>1 DEF NoRecords
  <2>4. NoRecords \in Writers(Fix)
    BY <2>2, <2>3 DEF Writers
  <2>5. /\ NoRecords.rec = NoRec /\ NoRecords.n = 0 /\ NoRecords.fbuf = 0 /\ Len(NoRecords.fixes) = 0
    BY <2>2, <2>3
  <2>6. RecordFits(NoRecords)
    BY <2>5, SizesAre DEF RecordFits
  <2>7. InStep(NoRecords)
    BY <2>5, BegunIsOpen DEF InStep
  <2> QED
    BY <2>4, <2>6, <2>7 DEF Good
<1>2. ASSUME NEW o, Good(o, Fix), NEW rec \in {NoRec, "LEDATA", "LIDATA"}, NEW seg \in Nat, NEW at \in Nat,
             NEW q, q = setdata(o, rec, seg, at)
      PROVE  /\ Good(q, Fix) /\ q.rec = rec /\ Says(q) = Says(o) /\ Fixes(q) = Fixes(o)
             /\ rec \notin {NoRec, o.rec} => q.seg = seg /\ q.off = at /\ EndOf(q) = at
  <2>1. CASE o.rec = rec
    BY <1>2, <2>1 DEF setdata
  <2>2. CASE o.rec # rec
    <3>1. PICK c : c = IF o.rec = NoRec THEN o ELSE endDATA(o)
      OBVIOUS
    <3>2. Good(c, Fix) /\ c.rec = NoRec /\ Says(c) = Says(o) /\ Fixes(c) = Fixes(o)
      BY <1>2, <3>1, EndIsGood
    <3>3. q = IF rec = NoRec THEN c ELSE begDATA(c, rec, seg, at)
      BY <1>2, <2>2, <3>1 DEF setdata
    <3>4. CASE rec = NoRec
      BY <3>2, <3>3, <3>4
    <3>5. CASE rec # NoRec
      <4>1. c \in Writers(Fix) /\ rec \in {"LEDATA", "LIDATA"} /\ q = begDATA(c, rec, seg, at)
        BY <3>2, <3>3, <3>5 DEF Good
      <4> QED
        BY <3>2, <4>1, BeginIs
    <3> QED
      BY <3>4, <3>5
  <2> QED
    BY <2>1, <2>2
<1>3. ASSUME NEW o, Good(o, Fix), o.rec # NoRec, NEW seg \in Nat, NEW at \in Nat,
             NEW q, q = begDATA(endDATA(o), o.rec, seg, at)
      PROVE  /\ Good(q, Fix) /\ Says(q) = Says(o) /\ Fixes(q) = Fixes(o)
             /\ q.rec = o.rec /\ q.seg = seg /\ q.off = at /\ EndOf(q) = at
  <2>1. PICK c : c = endDATA(o)
    OBVIOUS
  <2>2. Good(c, Fix) /\ c.rec = NoRec /\ Says(c) = Says(o) /\ Fixes(c) = Fixes(o)
    BY <1>3, <2>1, EndIsGood
  <2>3. c \in Writers(Fix) /\ o.rec \in {"LEDATA", "LIDATA"}
    BY <1>3, <2>2, WriterIs DEF Good
  <2> QED
    BY <1>3, <2>1, <2>2, <2>3, BeginIs
<1> QED
  BY <1>1, <1>2, <1>3
=============================================================================
