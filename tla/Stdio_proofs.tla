---------------------------- MODULE Stdio_proofs ----------------------------
(***************************************************************************)
(* Proofs about Stdio, for every buffer size, disk size, chunk size and    *)
(* byte alphabet.  Good is the inductive invariant of the stream record;   *)
(* each C function has a lemma saying that its outcomes are Good and, as   *)
(* long as nothing failed, what it does to the caller's view.              *)
(***************************************************************************)
EXTENDS Stdio, SequenceTheorems, TLAPS

Good(s) == IsStream(s) /\ Coherent(s)

(* The fields the buffer functions leave alone.                            *)
SameCaller(s, t) ==
    /\ t.mode = s.mode /\ t.nextc = s.nextc /\ t.siz = s.siz
    /\ t.eofbit = s.eofbit /\ t.exists = s.exists

SameView(s, t) == View(t) = View(s) /\ Pos(t) = Pos(s)

LEMMA ConstantTypes ==
    /\ EOF \notin Byte /\ EOF # 0 /\ Gap \in Byte
    /\ CR \in Byte /\ LF \in Byte /\ CtrlZ \in Byte /\ CR # LF /\ CR # CtrlZ /\ LF # CtrlZ
    /\ Disk \in Nat /\ DosErr \in Int /\ DosErr > 0
    /\ \A n \in Sizes : n \in Nat /\ n > 0
    /\ (CHOOSE n \in Sizes : TRUE) \in Sizes
    /\ PushBack \subseteq Byte /\ Faulty \in BOOLEAN
    /\ Rec \in Nat /\ Rec > 0 /\ Records \in Nat /\ Records > 0
    /\ \A off \in Offsets : off \in Int
BY StdioAssumption DEF StdioAssumption

LEMMA StreamTypes ==
    ASSUME NEW s, IsStream(s)
    PROVE  /\ s.dpos \in Nat /\ s.nxt \in Nat /\ s.end \in Int
           /\ s.file \in Seq(Byte) /\ s.buf \in Seq(Byte)
           /\ Len(s.file) \in Nat /\ Len(s.buf) \in Nat
           /\ s.siz \in Nat /\ s.siz > 0
           /\ s.use \in {"empty", "in", "out"}
           /\ s.spoiled \in BOOLEAN /\ s.beof \in BOOLEAN
<1>1. s.siz \in Sizes
  BY DEF IsStream
<1>2. s.siz \in Nat /\ s.siz > 0
  BY <1>1, ConstantTypes
<1>3. s.file \in Seq(Byte) /\ s.buf \in Seq(Byte)
  BY DEF IsStream
<1>4. Len(s.file) \in Nat /\ Len(s.buf) \in Nat
  BY <1>3
<1>. QED BY <1>2, <1>3, <1>4 DEF IsStream

LEMMA OverlayType ==
    ASSUME NEW f \in Seq(Byte), NEW at \in Nat, NEW d \in Seq(Byte)
    PROVE  /\ Overlay(f, at, d) \in Seq(Byte)
           /\ Len(Overlay(f, at, d)) =
                IF Len(d) = 0 THEN Len(f) ELSE Most(Len(f), at + Len(d))
<1>1. CASE Len(d) = 0
  BY <1>1 DEF Overlay
<1>2. CASE Len(d) # 0
  <2> DEFINE n == Most(Len(f), at + Len(d))
  <2>1. n \in Nat
    BY DEF Most
  <2>2. Overlay(f, at, d) \in [1 .. n -> Byte]
    BY <1>2, <2>1, ConstantTypes DEF Overlay, Most
  <2>. QED BY <1>2, <2>1, <2>2
<1>. QED BY <1>1, <1>2

LEMMA EmptiedGood ==
    ASSUME NEW s, IsStream(s)
    PROVE  /\ Good(Emptied(s)) /\ SameCaller(s, Emptied(s))
           /\ Emptied(s).use = "empty" /\ Emptied(s).file = s.file
           /\ Emptied(s).dpos = s.dpos /\ Emptied(s).spoiled = s.spoiled
           /\ Emptied(s).errbit = s.errbit
<1> DEFINE t == Emptied(s)
<1>1. t = [s EXCEPT !.buf = <<>>, !.nxt = 0, !.end = 0, !.beof = FALSE, !.use = "empty"]
  BY DEF Emptied, Empty
<1>2. IsStream(t)
  BY <1>1 DEF IsStream
<1>3. /\ t.file = s.file /\ t.dpos = s.dpos /\ t.spoiled = s.spoiled /\ t.errbit = s.errbit
      /\ t.mode = s.mode /\ t.nextc = s.nextc /\ t.siz = s.siz
      /\ t.eofbit = s.eofbit /\ t.exists = s.exists
      /\ t.buf = <<>> /\ t.nxt = 0 /\ t.end = 0 /\ t.beof = FALSE /\ t.use = "empty"
  BY <1>1 DEF IsStream
<1>. QED BY <1>2, <1>3 DEF Good, Coherent, SameCaller

LEMMA AcceptedRange ==
    ASSUME NEW s, IsStream(s), NEW n \in Nat, NEW k \in Accepted(s, n)
    PROVE  k \in 0 .. n
BY ConstantTypes, StreamTypes DEF Accepted, Least, Most

LEMMA DosWriteType ==
    ASSUME NEW s, IsStream(s), NEW k \in 0 .. Len(s.buf)
    PROVE  /\ IsStream(DosWrite(s, k))
           /\ DosWrite(s, k).dpos = s.dpos + k
           /\ DosWrite(s, k).file = Overlay(s.file, s.dpos, SubSeq(s.buf, 1, k))
           /\ LET t == DosWrite(s, k)
              IN  /\ SameCaller(s, t)
                  /\ t.use = s.use /\ t.buf = s.buf /\ t.nxt = s.nxt /\ t.end = s.end
                  /\ t.beof = s.beof /\ t.spoiled = s.spoiled /\ t.errbit = s.errbit
<1>1. SubSeq(s.buf, 1, k) \in Seq(Byte) /\ s.file \in Seq(Byte) /\ s.dpos \in Nat
  BY DEF IsStream
<1>2. Overlay(s.file, s.dpos, SubSeq(s.buf, 1, k)) \in Seq(Byte)
  BY <1>1, OverlayType
<1>. QED BY <1>1, <1>2 DEF DosWrite, IsStream, SameCaller

LEMMA FailGood ==
    ASSUME NEW s, Good(s)
    PROVE  /\ Good(Fail(s)) /\ SameCaller(s, Fail(s)) /\ Fail(s).spoiled /\ Fail(s).errbit
           /\ Fail(s).use = s.use
<1> DEFINE t == Fail(s)
<1>1. IsStream(t)
  BY DEF Good, Fail, IsStream
<1>2. /\ SameCaller(s, t) /\ t.spoiled = TRUE /\ t.errbit = TRUE
      /\ t.file = s.file /\ t.dpos = s.dpos /\ t.use = s.use /\ t.buf = s.buf
      /\ t.nxt = s.nxt /\ t.end = s.end /\ t.beof = s.beof
  BY DEF Good, Fail, IsStream, SameCaller
<1>. QED BY <1>1, <1>2 DEF Good, Coherent

LEMMA FlushGood ==
    ASSUME NEW s, Good(s), NEW o \in Flush(s)
    PROVE  /\ Good(o.st) /\ SameCaller(s, o.st)
           /\ o.ret \in {0, EOF}
           /\ o.ret = 0 => o.st.use = "empty" /\ o.st.spoiled = s.spoiled /\ o.st.errbit = s.errbit
           /\ o.ret # 0 => o.st.spoiled /\ o.st.errbit /\ o.st.use = "out"
           /\ o.ret = 0 /\ s.use = "out" => SameView(s, o.st)
           /\ o.ret = 0 => o.st.file = View(s)
<1>1. CASE s.use # "out"
  <2>1. o = Ret(Emptied(s), 0)
    BY <1>1 DEF Flush
  <2>. QED BY <1>1, <2>1, EmptiedGood DEF Ret, Good, View
<1>2. CASE s.use = "out"
  <2>1. s.nxt = Len(s.buf) /\ s.nxt \in Nat
    BY <1>2 DEF Good, Coherent, IsStream
  <2>2. PICK k \in Accepted(s, s.nxt) :
           o = IF k = s.nxt THEN Ret(Emptied(DosWrite(s, k)), 0)
                            ELSE Ret(Fail(DosWrite(s, k)), EOF)
    BY <1>2 DEF Flush
  <2> DEFINE t == DosWrite(s, k)
  <2>3. k \in 0 .. Len(s.buf)
    BY <2>1, AcceptedRange DEF Good
  <2>4. /\ IsStream(t) /\ SameCaller(s, t) /\ t.spoiled = s.spoiled /\ t.errbit = s.errbit
        /\ t.dpos = s.dpos + k /\ t.file = Overlay(s.file, s.dpos, SubSeq(s.buf, 1, k))
        /\ t.use = "out" /\ t.buf = s.buf /\ t.nxt = s.nxt /\ t.end = s.end /\ t.beof = s.beof
    BY <1>2, <2>3, DosWriteType DEF Good
  <2> HIDE DEF t
  <2>5. CASE k = s.nxt
    <3>1. o = Ret(Emptied(t), 0)
      BY <2>2, <2>5 DEF t
    <3>2. SubSeq(s.buf, 1, k) = s.buf
      BY <2>1, <2>5 DEF Good, IsStream
    <3>3. /\ Good(o.st) /\ SameCaller(t, o.st) /\ o.ret = 0
          /\ o.st.use = "empty" /\ o.st.file = t.file /\ o.st.dpos = t.dpos
          /\ o.st.spoiled = t.spoiled /\ o.st.errbit = t.errbit
      BY <2>4, <3>1, EmptiedGood DEF Ret
    <3>4. View(o.st) = View(s) /\ o.st.file = View(s)
      BY <1>2, <2>4, <3>2, <3>3 DEF View
    <3>5. Pos(o.st) = Pos(s)
      BY <1>2, <2>4, <2>5, <3>3 DEF Pos
    <3>. QED BY <2>4, <3>3, <3>4, <3>5 DEF SameView, SameCaller
  <2>6. CASE k # s.nxt
    <3>1. o = Ret(Fail(t), EOF)
      BY <2>2, <2>6 DEF t
    <3>2. Good(t)
      BY <2>1, <2>4, <1>2 DEF Good, Coherent
    <3>3. /\ Good(o.st) /\ SameCaller(t, o.st) /\ o.st.spoiled /\ o.ret = EOF
          /\ o.st.errbit /\ o.st.use = "out"
      BY <2>4, <3>1, <3>2, FailGood DEF Ret
    <3>. QED BY <2>4, <3>3, ConstantTypes DEF SameCaller
  <2>. QED BY <2>5, <2>6
<1>. QED BY <1>1, <1>2

LEMMA BackupGood ==
    ASSUME NEW s, Good(s), s.use = "in", NEW o \in Backup(s)
    PROVE  /\ Good(o.st) /\ SameCaller(s, o.st)
           /\ o.ret \in {0, EOF}
           /\ o.ret = 0 => /\ o.st.use = "empty" /\ o.st.file = s.file
                           /\ o.st.spoiled = s.spoiled /\ o.st.errbit = s.errbit
           /\ o.ret # 0 => o.st.spoiled
           /\ o.ret = 0 /\ ~s.spoiled => SameView(s, o.st)
<1>1. CASE s.nxt = s.end
  <2>1. o = Ret(Emptied(s), 0)
    BY <1>1 DEF Backup
  <2>2. /\ Good(o.st) /\ SameCaller(s, o.st) /\ o.ret = 0 /\ o.st.use = "empty"
        /\ o.st.file = s.file /\ o.st.dpos = s.dpos
        /\ o.st.spoiled = s.spoiled /\ o.st.errbit = s.errbit
    BY <2>1, EmptiedGood DEF Ret, Good
  <2>3. SameView(s, o.st)
    BY <1>1, <2>2, StreamTypes DEF SameView, View, Pos, Good
  <2>. QED BY <2>2, <2>3
<1>2. CASE s.nxt # s.end
  <2>1. PICK p \in Reached(BackTarget(s)) :
          o = IF p = EOF THEN Ret(Fail(s), EOF) ELSE Ret(Emptied([s EXCEPT !.dpos = p]), 0)
    BY <1>2 DEF Backup
  <2>2. CASE p = EOF
    <3>1. o = Ret(Fail(s), EOF)
      BY <2>1, <2>2
    <3>. QED BY <3>1, FailGood, ConstantTypes DEF Ret
  <2>3. CASE p # EOF
    <3> DEFINE t == [s EXCEPT !.dpos = p]
    <3>1. o = Ret(Emptied(t), 0)
      BY <2>1, <2>3
    <3>2. p = BackTarget(s) /\ BackTarget(s) >= 0
      BY <2>3 DEF Reached
    <3>3. BackTarget(s) \in Int
      BY StreamTypes DEF Good, BackTarget
    <3>4. IsStream(t)
      BY <3>2, <3>3 DEF Good, IsStream
    <3>5. /\ SameCaller(s, t) /\ t.file = s.file /\ t.dpos = p
          /\ t.spoiled = s.spoiled /\ t.errbit = s.errbit
      BY DEF Good, IsStream, SameCaller
    <3> HIDE DEF t
    <3>6. /\ Good(o.st) /\ SameCaller(s, o.st) /\ o.ret = 0 /\ o.st.use = "empty"
          /\ o.st.file = s.file /\ o.st.dpos = p
          /\ o.st.spoiled = s.spoiled /\ o.st.errbit = s.errbit
      BY <3>1, <3>4, <3>5, EmptiedGood DEF Ret, SameCaller
    <3>7. ~s.spoiled => BackTarget(s) = s.dpos - (s.end - s.nxt)
      BY <1>2, StreamTypes DEF Good, Coherent, BackTarget
    <3>8. ~s.spoiled => SameView(s, o.st)
      BY <3>2, <3>6, <3>7 DEF SameView, View, Pos
    <3>. QED BY <3>6, <3>8
  <2>. QED BY <2>2, <2>3
<1>. QED BY <1>1, <1>2

LEMMA AdjustGood ==
    ASSUME NEW s, Good(s), NEW o \in Adjust(s)
    PROVE  /\ Good(o.st) /\ SameCaller(s, o.st)
           /\ o.ret \in {0, EOF}
           /\ o.ret = 0 => /\ o.st.use = "empty" /\ o.st.file = View(s)
                           /\ o.st.spoiled = s.spoiled /\ o.st.errbit = s.errbit
           /\ o.ret # 0 => o.st.spoiled
           /\ o.ret = 0 /\ ~s.spoiled => SameView(s, o.st)
<1>1. CASE s.use = "out"
  BY <1>1, FlushGood DEF Adjust
<1>2. CASE s.use = "in"
  BY <1>2, BackupGood DEF Adjust, View
<1>3. CASE s.use = "empty"
  BY <1>3 DEF Adjust, Ret, Good, SameCaller, SameView, View
<1>. QED BY <1>1, <1>2, <1>3 DEF Good, IsStream

-----------------------------------------------------------------------------
(* Input.                                                                  *)

LEMMA SubSeqCopy ==
    ASSUME NEW f \in Seq(Byte), NEW p \in Nat, NEW c \in Nat, c = 0 \/ p + c <= Len(f)
    PROVE  /\ SubSeq(f, p + 1, p + c) \in Seq(Byte)
           /\ Len(SubSeq(f, p + 1, p + c)) = c
           /\ \A i \in 1 .. c : SubSeq(f, p + 1, p + c)[i] = f[p + i]
<1>1. \A i \in p + 1 .. p + c : f[i] \in Byte
  OBVIOUS
<1>2. (IF p + 1 <= p + c THEN (p + c) - (p + 1) + 1 ELSE 0) = c
  OBVIOUS
<1>. QED BY <1>1, <1>2, SubSeqProperties

LEMMA LoadedGood ==
    ASSUME NEW s, IsStream(s), NEW c \in 0 .. s.siz, c = 0 \/ s.dpos + c <= Len(s.file)
    PROVE  LET t == Loaded(s, c)
           IN  /\ IsStream(t) /\ SameCaller(s, t)
               /\ t.use = "in" /\ t.nxt = 0 /\ t.end = c /\ (t.beof <=> c < s.siz)
               /\ t.file = s.file /\ t.errbit = s.errbit /\ t.spoiled = s.spoiled
               /\ t.dpos = s.dpos + c /\ Len(t.buf) = c
               /\ \A i \in 1 .. c : t.buf[i] = s.file[s.dpos + i]
<1> DEFINE b == SubSeq(s.file, s.dpos + 1, s.dpos + c)
           t == Loaded(s, c)
<1>1. c \in Nat /\ s.dpos \in Nat /\ s.dpos + c \in Nat /\ s.file \in Seq(Byte)
  BY StreamTypes
<1>2. b \in Seq(Byte) /\ Len(b) = c /\ \A i \in 1 .. c : b[i] = s.file[s.dpos + i]
  BY <1>1, SubSeqCopy
<1>3. t = [s EXCEPT !.buf = b, !.dpos = s.dpos + c, !.nxt = 0, !.end = c,
                    !.beof = (c < s.siz), !.use = "in"]
  BY DEF Loaded
<1> HIDE DEF b, t
<1>4. IsStream(t)
  BY <1>1, <1>2, <1>3 DEF IsStream
<1>5. /\ SameCaller(s, t)
      /\ t.use = "in" /\ t.nxt = 0 /\ t.end = c /\ (t.beof <=> c < s.siz)
      /\ t.file = s.file /\ t.errbit = s.errbit /\ t.spoiled = s.spoiled
      /\ t.dpos = s.dpos + c /\ t.buf = b
  BY <1>3 DEF IsStream, SameCaller
<1>. QED BY <1>2, <1>4, <1>5 DEF t

LEMMA FillGood ==
    ASSUME NEW s, Good(s), s.use # "out", s.nxt >= s.end, NEW f \in Fill(s)
    PROVE  /\ Good(f) /\ SameCaller(s, f) /\ f.use = "in" /\ f.nxt = 0
           /\ f.file = s.file /\ f.errbit = s.errbit
           /\ f.end > 0 \/ f.beof
           /\ ~f.spoiled => ~s.spoiled /\ SameView(s, f)
<1> DEFINE n == Got(s)
<1>0. /\ IsStream(s) /\ s.dpos \in Nat /\ s.siz \in Nat /\ s.siz > 0 /\ Len(s.file) \in Nat
      /\ s.nxt \in Nat /\ s.end \in Int
  BY StreamTypes DEF Good
<1>1. /\ n \in 0 .. s.siz
      /\ n = 0 \/ s.dpos + n <= Len(s.file)
      /\ n < s.siz => s.dpos + n >= Len(s.file)
  BY <1>0 DEF Got, Least, Most
<1>2. \/ CanRead(s) /\ f = Loaded(s, n)
      \/ \E c \in 0 .. n : c < s.siz /\ f = [Loaded(s, c) EXCEPT !.end = c - DosErr, !.spoiled = TRUE]
  <2>1. CASE \E k \in IF CanRead(s) THEN {n} ELSE {} : f = Loaded(s, k)
    BY <2>1
  <2>2. CASE \E c \in Partial(s) : f = [Loaded(s, c) EXCEPT !.end = c - DosErr, !.spoiled = TRUE]
    <3>1. Partial(s) \subseteq {c \in 0 .. n : c < s.siz}
      BY <1>0, <1>1 DEF Partial
    <3>. QED BY <2>2, <3>1
  <2>. QED BY <2>1, <2>2 DEF Fill
<1> HIDE DEF n
<1>3. CASE CanRead(s) /\ f = Loaded(s, n)
  <2>1. /\ IsStream(f) /\ SameCaller(s, f)
        /\ f.use = "in" /\ f.nxt = 0 /\ f.end = n /\ (f.beof <=> n < s.siz)
        /\ f.file = s.file /\ f.errbit = s.errbit /\ f.spoiled = s.spoiled
        /\ f.dpos = s.dpos + n /\ Len(f.buf) = n
        /\ \A i \in 1 .. n : f.buf[i] = s.file[s.dpos + i]
    BY <1>0, <1>1, <1>3, LoadedGood
  <2>2. Coherent(f)
    <3>1. f.beof => f.dpos >= Len(f.file)
      BY <1>0, <1>1, <2>1
    <3>2. /\ f.end <= Len(f.buf) /\ f.nxt <= f.end /\ f.end <= f.dpos
          /\ f.end = 0 \/ f.dpos <= Len(f.file)
      BY <1>0, <1>1, <2>1
    <3>3. \A i \in 1 .. f.end : f.buf[i] = f.file[(f.dpos - f.end) + i]
      <4>1. (f.dpos - f.end) = s.dpos
        BY <1>0, <1>1, <2>1
      <4>. QED BY <2>1, <4>1
    <3>. QED BY <2>1, <3>1, <3>2, <3>3 DEF Coherent
  <2>3. ~s.spoiled => Pos(s) = s.dpos
    BY <1>0 DEF Pos, Good, Coherent, IsStream
  <2>4. ~s.spoiled => Pos(f) = s.dpos
    BY <1>0, <1>1, <2>1 DEF Pos
  <2>5. View(s) = s.file /\ View(f) = s.file
    BY <2>1 DEF View
  <2>6. f.end > 0 \/ f.beof
    BY <1>0, <1>1, <2>1
  <2>. QED BY <2>1, <2>2, <2>3, <2>4, <2>5, <2>6 DEF Good, SameView
<1>4. CASE \E c \in 0 .. n : c < s.siz /\ f = [Loaded(s, c) EXCEPT !.end = c - DosErr, !.spoiled = TRUE]
  <2>1. PICK c \in 0 .. n : c < s.siz /\ f = [Loaded(s, c) EXCEPT !.end = c - DosErr, !.spoiled = TRUE]
    BY <1>4
  <2> DEFINE t == Loaded(s, c)
  <2>2. /\ IsStream(t) /\ SameCaller(s, t)
        /\ t.use = "in" /\ t.nxt = 0 /\ (t.beof <=> c < s.siz)
        /\ t.file = s.file /\ t.errbit = s.errbit /\ Len(t.buf) = c
    BY <1>0, <1>1, <2>1, LoadedGood
  <2>3. f = [t EXCEPT !.end = c - DosErr, !.spoiled = TRUE] /\ c - DosErr \in Int /\ c - DosErr < c
    BY <1>0, <1>1, <2>1, ConstantTypes
  <2> HIDE DEF t
  <2>4. IsStream(f)
    BY <2>2, <2>3 DEF IsStream
  <2>5. /\ SameCaller(s, f) /\ f.use = "in" /\ f.nxt = 0 /\ f.end = c - DosErr
        /\ (f.beof <=> c < s.siz) /\ f.file = s.file /\ f.errbit = s.errbit /\ Len(f.buf) = c
        /\ f.spoiled = TRUE
    BY <2>2, <2>3 DEF IsStream, SameCaller
  <2>6. Coherent(f)
    BY <1>0, <1>1, <2>1, <2>3, <2>5 DEF Coherent
  <2>. QED BY <1>0, <1>1, <2>1, <2>4, <2>5, <2>6 DEF Good
<1>. QED BY <1>2, <1>3, <1>4

(* The fields input leaves alone when the byte comes out of the buffer.    *)
LEMMA TakeGood ==
    ASSUME NEW s, Good(s), s.use # "out", s.nxt < s.end \/ s.beof
    PROVE  LET o == Take(s)
           IN  /\ Good(o.st) /\ o.ret \in Byte \cup {EOF}
               /\ o.st.mode = s.mode /\ o.st.nextc = s.nextc /\ o.st.siz = s.siz
               /\ o.st.exists = s.exists /\ o.st.spoiled = s.spoiled /\ o.st.errbit = s.errbit
               /\ o.st.file = s.file /\ View(o.st) = View(s)
               /\ ~s.spoiled =>
                     IF Pos(s) < Len(View(s))
                     THEN /\ o.ret = Widen(View(s)[Pos(s) + 1]) /\ Pos(o.st) = Pos(s) + 1
                          /\ o.st.eofbit = s.eofbit
                     ELSE o.ret = EOF /\ Pos(o.st) = Pos(s) /\ o.st.eofbit = TRUE
<1> DEFINE o == Take(s)
<1>0. /\ IsStream(s) /\ s.dpos \in Nat /\ s.nxt \in Nat /\ s.end \in Int
      /\ s.file \in Seq(Byte) /\ s.buf \in Seq(Byte) /\ Len(s.file) \in Nat /\ Len(s.buf) \in Nat
  BY StreamTypes DEF Good
<1>1. s.use = "in"
  BY <1>0 DEF Good, Coherent, IsStream
<1>2. CASE s.nxt < s.end
  <2> DEFINE t == [s EXCEPT !.nxt = s.nxt + 1]
  <2>1. o.st = t /\ o.ret = Widen(s.buf[s.nxt + 1])
    BY <1>2 DEF Take, Ret
  <2>2. s.nxt + 1 \in Nat /\ s.nxt + 1 \in 1 .. Len(s.buf)
    BY <1>0, <1>1, <1>2 DEF Good, Coherent
  <2>3. s.buf[s.nxt + 1] \in Byte
    BY <1>0, <2>2
  <2>4. IsStream(t)
    BY <1>0, <2>2 DEF IsStream
  <2>5. /\ SameCaller(s, t) /\ t.spoiled = s.spoiled /\ t.errbit = s.errbit
        /\ t.file = s.file /\ t.use = s.use /\ t.dpos = s.dpos /\ t.buf = s.buf
        /\ t.nxt = s.nxt + 1 /\ t.end = s.end /\ t.beof = s.beof
    BY <1>0 DEF IsStream, SameCaller
  <2> HIDE DEF t
  <2>6. Good(t)
    BY <1>0, <1>1, <1>2, <2>4, <2>5 DEF Good, Coherent
  <2>7. View(s) = s.file /\ View(t) = s.file /\ Pos(t) = Pos(s) + 1
        /\ Pos(s) = s.dpos - (s.end - s.nxt)
    BY <1>0, <1>1, <2>5 DEF View, Pos
  <2>8. ~s.spoiled => s.buf[s.nxt + 1] = s.file[(s.dpos - s.end) + (s.nxt + 1)]
                      /\ s.dpos <= Len(s.file)
    BY <1>0, <1>1, <1>2, <2>2 DEF Good, Coherent
  <2>9. ~s.spoiled => Pos(s) < Len(s.file) /\ s.buf[s.nxt + 1] = s.file[Pos(s) + 1]
    <3>1. (s.dpos - s.end) + (s.nxt + 1) = Pos(s) + 1
      BY <1>0, <2>7
    <3>2. s.dpos <= Len(s.file) => Pos(s) < Len(s.file)
      BY <1>0, <1>2, <2>7
    <3>. QED BY <2>8, <3>1, <3>2
  <2>10. o.ret \in Byte \cup {EOF}
    BY <2>1, <2>3 DEF Widen
  <2>. QED BY <2>1, <2>5, <2>6, <2>7, <2>9, <2>10 DEF SameCaller
<1>3. CASE ~(s.nxt < s.end)
  <2> DEFINE t == [s EXCEPT !.eofbit = TRUE]
  <2>1. o.st = t /\ o.ret = EOF
    BY <1>3 DEF Take, Ret
  <2>2. IsStream(t)
    BY <1>0 DEF IsStream
  <2>3. /\ t.mode = s.mode /\ t.nextc = s.nextc /\ t.siz = s.siz /\ t.exists = s.exists
        /\ t.spoiled = s.spoiled /\ t.errbit = s.errbit
        /\ t.file = s.file /\ t.use = s.use /\ t.dpos = s.dpos /\ t.buf = s.buf
        /\ t.nxt = s.nxt /\ t.end = s.end /\ t.beof = s.beof /\ t.eofbit = TRUE
    BY <1>0 DEF IsStream
  <2> HIDE DEF t
  <2>4. Good(t)
    BY <1>0, <1>1, <2>2, <2>3 DEF Good, Coherent
  <2>5. View(s) = s.file /\ View(t) = s.file /\ Pos(t) = Pos(s)
        /\ Pos(s) = s.dpos - (s.end - s.nxt)
    BY <1>0, <1>1, <2>3 DEF View, Pos
  <2>6. ~s.spoiled => ~(Pos(s) < Len(s.file))
    BY <1>0, <1>1, <1>3, <2>5 DEF Good, Coherent
  <2>. QED BY <2>1, <2>3, <2>4, <2>5, <2>6
<1>. QED BY <1>2, <1>3

(* What one byte of input from the buffer does.                            *)
Input(s, o) ==
    /\ Good(o.st) /\ o.ret \in Byte \cup {EOF}
    /\ o.st.mode = s.mode /\ o.st.nextc = s.nextc /\ o.st.siz = s.siz
    /\ o.st.exists = s.exists
    /\ ~o.st.spoiled =>
          /\ ~s.spoiled /\ o.st.errbit = s.errbit /\ View(o.st) = View(s)
          /\ IF Pos(s) < Len(View(s))
             THEN /\ o.ret = Widen(View(s)[Pos(s) + 1]) /\ Pos(o.st) = Pos(s) + 1
                  /\ o.st.eofbit = s.eofbit
             ELSE o.ret = EOF /\ Pos(o.st) = Pos(s) /\ o.st.eofbit = TRUE

LEMMA InputTake ==
    ASSUME NEW s, Good(s), s.use # "out", s.nxt < s.end \/ s.beof
    PROVE  Input(s, Take(s))
BY TakeGood DEF Input

(* Input that follows a step the caller cannot see.                        *)
LEMMA InputAfter ==
    ASSUME NEW s, NEW t, NEW o, Input(t, o), SameCaller(s, t),
           ~t.spoiled => ~s.spoiled /\ t.errbit = s.errbit /\ SameView(s, t)
    PROVE  Input(s, o)
BY DEF Input, SameCaller, SameView

LEMMA ReadBufGood ==
    ASSUME NEW s, Good(s), NEW o \in ReadBuf(s)
    PROVE  Input(s, o)
<1> DEFINE First == IF s.use = "out" THEN Flush(s) ELSE {Ret(s, 0)}
<1>1. PICK q \in First :
         o \in IF q.ret # 0 THEN {Ret(q.st, EOF)}
               ELSE IF q.st.nxt < q.st.end \/ q.st.beof THEN {Take(q.st)}
               ELSE {Take(f) : f \in Fill(q.st)}
  BY DEF ReadBuf
<1>2. /\ Good(q.st) /\ SameCaller(s, q.st)
      /\ q.ret = 0 => /\ q.st.use # "out" /\ q.st.spoiled = s.spoiled /\ q.st.errbit = s.errbit
                      /\ SameView(s, q.st)
      /\ q.ret # 0 => q.st.spoiled
  <2>1. CASE s.use = "out"
    BY <2>1, FlushGood
  <2>2. CASE s.use # "out"
    BY <2>2 DEF Ret, SameCaller, SameView
  <2>. QED BY <2>1, <2>2
<1> HIDE DEF First
<1>3. CASE q.ret # 0
  BY <1>1, <1>2, <1>3 DEF Input, Ret, SameCaller
<1>4. CASE q.ret = 0 /\ (q.st.nxt < q.st.end \/ q.st.beof)
  <2>1. o = Take(q.st)
    BY <1>1, <1>4
  <2>2. Input(q.st, o)
    BY <1>2, <1>4, <2>1, InputTake
  <2>3. ~q.st.spoiled => ~s.spoiled /\ q.st.errbit = s.errbit /\ SameView(s, q.st)
    BY <1>2, <1>4
  <2>. QED BY <1>2, <2>2, <2>3, InputAfter
<1>5. CASE q.ret = 0 /\ ~(q.st.nxt < q.st.end \/ q.st.beof)
  <2>1. PICK f \in Fill(q.st) : o = Take(f)
    BY <1>1, <1>5
  <2>2. q.st.nxt >= q.st.end
    BY <1>2, <1>5, StreamTypes DEF Good
  <2>3. /\ Good(f) /\ SameCaller(q.st, f) /\ f.use = "in" /\ f.nxt = 0
        /\ (f.errbit = q.st.errbit) /\ (f.nxt < f.end \/ f.beof)
        /\ ~f.spoiled => ~q.st.spoiled /\ SameView(q.st, f)
    BY <1>2, <1>5, <2>2, FillGood
  <2>4. Input(f, o)
    BY <2>1, <2>3, InputTake
  <2>5. Input(q.st, o)
    <3>1. ~f.spoiled => ~q.st.spoiled /\ f.errbit = q.st.errbit /\ SameView(q.st, f)
      BY <2>3
    <3>. QED BY <2>3, <2>4, <3>1, InputAfter
  <2>6. ~q.st.spoiled => ~s.spoiled /\ q.st.errbit = s.errbit /\ SameView(s, q.st)
    BY <1>2, <1>5
  <2>. QED BY <1>2, <2>5, <2>6, InputAfter
<1>. QED BY <1>3, <1>4, <1>5

-----------------------------------------------------------------------------
(* Output.                                                                 *)

LEMMA OverlayAppend ==
    ASSUME NEW f \in Seq(Byte), NEW at \in Nat, NEW d \in Seq(Byte), NEW b \in Byte
    PROVE  Overlay(Overlay(f, at, d), at + Len(d), <<b>>) = Overlay(f, at, Append(d, b))
<1> DEFINE g == Overlay(f, at, d)
           e == Append(d, b)
           h == Overlay(f, at, e)
           n == Most(Len(f), at + Len(e))
<1>1. /\ e \in Seq(Byte) /\ Len(e) = Len(d) + 1 /\ e[Len(e)] = b
      /\ \A i \in 1 .. Len(d) : e[i] = d[i]
      /\ <<b>> \in Seq(Byte) /\ Len(<<b>>) = 1 /\ <<b>>[1] = b
  OBVIOUS
<1>2. /\ g \in Seq(Byte) /\ Len(g) \in Nat /\ Len(f) \in Nat /\ Len(d) \in Nat
      /\ Len(g) = IF Len(d) = 0 THEN Len(f) ELSE Most(Len(f), at + Len(d))
  <2>1. /\ g \in Seq(Byte)
        /\ Len(g) = IF Len(d) = 0 THEN Len(f) ELSE Most(Len(f), at + Len(d))
    BY OverlayType
  <2> HIDE DEF g
  <2>. QED BY <2>1
<1> DEFINE c == <<b>>
           q == at + Len(d)
<1>3. Len(c) = 1 /\ c[1] = b /\ q \in Nat /\ Most(Len(g), q + Len(c)) = n
  <2>1. Len(c) = 1 /\ c[1] = b /\ q \in Nat
    BY <1>1, <1>2
  <2> HIDE DEF g, e, h, c
  <2>. QED BY <1>1, <1>2, <2>1 DEF Most
<1>4. h = [i \in 1 .. n |-> IF i > at /\ i <= at + Len(e) THEN e[i - at]
                            ELSE IF i <= Len(f) THEN f[i] ELSE Gap]
  <2> HIDE DEF e, n
  <2>1. Len(e) # 0 /\ n = Most(Len(f), at + Len(e))
    BY <1>1, <1>2 DEF n
  <2>. QED BY <2>1 DEF Overlay
<1>5. Overlay(g, q, c)
        = [i \in 1 .. n |-> IF i > q /\ i <= q + Len(c) THEN c[i - q]
                            ELSE IF i <= Len(g) THEN g[i] ELSE Gap]
  <2> HIDE DEF g, c, n, q
  <2>. QED BY <1>3 DEF Overlay
<1>6. ASSUME NEW i \in 1 .. n
      PROVE  h[i] = Overlay(g, q, c)[i]
  <2>0. n \in Nat /\ i \in Nat
    BY <1>1, <1>2 DEF Most
  <2>1. CASE i = at + Len(d) + 1
    BY <1>1, <1>2, <1>4, <1>5, <2>0, <2>1
  <2>2. CASE i > at /\ i <= at + Len(d)
    <3>1. g[i] = d[i - at]
      BY <1>2, <2>0, <2>2 DEF Overlay, Most
    <3>2. i <= Len(g)
      BY <1>2, <2>0, <2>2 DEF Most
    <3>. QED BY <1>1, <1>2, <1>4, <1>5, <2>0, <2>2, <3>1, <3>2
  <2>3. CASE i <= at \/ i > at + Len(d) + 1
    <3>1. Len(d) # 0 /\ i <= Len(g) => g[i] = IF i <= Len(f) THEN f[i] ELSE Gap
      BY <1>2, <2>0, <2>3 DEF Overlay, Most
    <3>2. Len(d) = 0 => g = f
      BY DEF Overlay
    <3>3. i <= Len(f) => i <= Len(g)
      BY <1>2, <2>0 DEF Most
    <3>. QED BY <1>1, <1>2, <1>4, <1>5, <2>0, <2>3, <3>1, <3>2, <3>3
  <2>. QED BY <1>2, <2>0, <2>1, <2>2, <2>3
<1>. QED BY <1>4, <1>5, <1>6

(* What storing one byte does.                                             *)
Output(s, b, o) ==
    /\ Good(o.st) /\ SameCaller(s, o.st)
    /\ ~o.st.spoiled =>
          /\ ~s.spoiled /\ o.st.errbit = s.errbit /\ o.ret = b
          /\ View(o.st) = Overlay(View(s), Pos(s), <<b>>) /\ Pos(o.st) = Pos(s) + 1

LEMMA OutputAfter ==
    ASSUME NEW s, NEW t, NEW b, NEW o, Output(t, b, o), SameCaller(s, t),
           ~t.spoiled => ~s.spoiled /\ t.errbit = s.errbit /\ SameView(s, t)
    PROVE  Output(s, b, o)
BY DEF Output, SameCaller, SameView

LEMMA StoreGood ==
    ASSUME NEW s, Good(s), s.use # "in", NEW b \in Byte
    PROVE  /\ Output(s, b, Store(s, b))
           /\ Store(s, b).st.use = "out" /\ Store(s, b).st.errbit = s.errbit
           /\ View(Store(s, b).st) = Overlay(View(s), Pos(s), <<b>>)
           /\ Pos(Store(s, b).st) = Pos(s) + 1
<1> DEFINE t == Store(s, b).st
<1>0. /\ IsStream(s) /\ s.dpos \in Nat /\ s.nxt \in Nat /\ s.end \in Int
      /\ s.file \in Seq(Byte) /\ s.buf \in Seq(Byte) /\ Len(s.buf) \in Nat
  BY StreamTypes DEF Good
<1>1. s.nxt = Len(s.buf) /\ s.end = 0 /\ ~s.beof
  BY <1>0 DEF Good, Coherent, IsStream
<1>2. t = [s EXCEPT !.buf = Append(s.buf, b), !.nxt = s.nxt + 1, !.use = "out"] /\ Store(s, b).ret = b
  BY DEF Store, Ret
<1>3. Append(s.buf, b) \in Seq(Byte) /\ Len(Append(s.buf, b)) = s.nxt + 1 /\ s.nxt + 1 \in Nat
  BY <1>0, <1>1
<1> HIDE DEF t
<1>4. IsStream(t)
  BY <1>0, <1>2, <1>3 DEF IsStream
<1>5. /\ SameCaller(s, t) /\ t.spoiled = s.spoiled /\ t.errbit = s.errbit
      /\ t.file = s.file /\ t.use = "out" /\ t.dpos = s.dpos /\ t.buf = Append(s.buf, b)
      /\ t.nxt = s.nxt + 1 /\ t.end = s.end /\ t.beof = s.beof
  BY <1>0, <1>2 DEF IsStream, SameCaller
<1>6. Good(t)
  BY <1>1, <1>3, <1>4, <1>5 DEF Good, Coherent
<1>7. View(s) = Overlay(s.file, s.dpos, s.buf) /\ Pos(s) = s.dpos + Len(s.buf)
  <2>1. CASE s.use = "out"
    BY <1>1, <2>1 DEF View, Pos
  <2>2. CASE s.use = "empty"
    <3>1. s.buf = <<>> /\ Len(s.buf) = 0
      BY <1>0, <2>2 DEF Good, Coherent
    <3>. QED BY <1>0, <2>2, <3>1 DEF View, Pos, Overlay
  <2>3. s.use = "out" \/ s.use = "empty"
    BY <1>0, StreamTypes
  <2>. QED BY <2>1, <2>2, <2>3
<1>8. View(t) = Overlay(View(s), Pos(s), <<b>>)
  <2>1. View(t) = Overlay(s.file, s.dpos, Append(s.buf, b))
    BY <1>5 DEF View
  <2>2. Overlay(Overlay(s.file, s.dpos, s.buf), s.dpos + Len(s.buf), <<b>>)
          = Overlay(s.file, s.dpos, Append(s.buf, b))
    BY <1>0, OverlayAppend
  <2>. QED BY <1>7, <2>1, <2>2
<1>9. Pos(t) = Pos(s) + 1
  BY <1>0, <1>1, <1>5, <1>7 DEF Pos
<1>. QED BY <1>2, <1>5, <1>6, <1>8, <1>9 DEF Output, t

LEMMA WriteBufGood ==
    ASSUME NEW s, Good(s), NEW b \in Byte, NEW o \in WriteBuf(s, b)
    PROVE  Output(s, b, o)
<1> DEFINE First == IF s.use = "in" THEN Backup(s) ELSE {Ret(s, 0)}
<1>1. PICK q \in First :
         o \in IF q.ret # 0 THEN {Ret(q.st, EOF)}
               ELSE IF q.st.nxt < q.st.siz THEN {Store(q.st, b)}
               ELSE {IF f.ret # 0 THEN Ret(f.st, EOF) ELSE Store(f.st, b) : f \in Flush(q.st)}
  BY DEF WriteBuf
<1>2. /\ Good(q.st) /\ SameCaller(s, q.st)
      /\ q.ret = 0 => q.st.use # "in"
      /\ q.ret = 0 /\ ~q.st.spoiled => ~s.spoiled /\ q.st.errbit = s.errbit /\ SameView(s, q.st)
      /\ q.ret # 0 => q.st.spoiled
  <2>1. CASE s.use = "in"
    BY <2>1, BackupGood
  <2>2. CASE s.use # "in"
    BY <2>2 DEF Ret, SameCaller, SameView
  <2>. QED BY <2>1, <2>2
<1> HIDE DEF First
<1>3. CASE q.ret # 0
  BY <1>1, <1>2, <1>3 DEF Output, Ret, SameCaller
<1>4. CASE q.ret = 0
  <2>1. ~q.st.spoiled => ~s.spoiled /\ q.st.errbit = s.errbit /\ SameView(s, q.st)
    BY <1>2, <1>4
  <2>2. Output(q.st, b, o)
    <3>1. CASE q.st.nxt < q.st.siz
      <4>1. o = Store(q.st, b)
        BY <1>1, <1>4, <3>1
      <4>. QED BY <1>2, <1>4, <4>1, StoreGood
    <3>2. CASE ~(q.st.nxt < q.st.siz)
      <4>1. PICK f \in Flush(q.st) : o = IF f.ret # 0 THEN Ret(f.st, EOF) ELSE Store(f.st, b)
        BY <1>1, <1>4, <3>2
      <4>2. CASE f.ret # 0
        <5>1. o = Ret(f.st, EOF)
          BY <4>1, <4>2
        <5>2. Good(f.st) /\ SameCaller(q.st, f.st) /\ f.st.spoiled
          BY <1>2, <4>2, FlushGood
        <5>. QED BY <5>1, <5>2 DEF Output, Ret
      <4>3. CASE f.ret = 0
        <5>1. o = Store(f.st, b)
          BY <4>1, <4>3
        <5>2. /\ Good(f.st) /\ SameCaller(q.st, f.st) /\ f.st.use = "empty"
              /\ f.st.spoiled = q.st.spoiled /\ f.st.errbit = q.st.errbit
          BY <1>2, <4>3, FlushGood
        <5>3. q.st.use = "out"
          BY <1>2, <1>4, <3>2, StreamTypes DEF Good, Coherent
        <5>4. SameView(q.st, f.st)
          BY <1>2, <4>3, <5>3, FlushGood
        <5>5. Output(f.st, b, o)
          BY <5>1, <5>2, StoreGood
        <5>6. ~f.st.spoiled => ~q.st.spoiled /\ f.st.errbit = q.st.errbit /\ SameView(q.st, f.st)
          BY <5>2, <5>4
        <5>. QED BY <5>2, <5>5, <5>6, OutputAfter
      <4>. QED BY <4>2, <4>3
    <3>. QED BY <3>1, <3>2
  <2>. QED BY <1>2, <2>1, <2>2, OutputAfter
<1>. QED BY <1>3, <1>4

-----------------------------------------------------------------------------
(* The library calls.  Step says of a call from s to t what ByteStream     *)
(* asks of it, once for failures and once for everything else.             *)

Inv ==
    /\ Good(st)
    /\ st.errbit => st.spoiled
    /\ st.mode = None => st.use = "empty"

LEMMA ViewType ==
    ASSUME NEW s, Good(s)
    PROVE  /\ View(s) \in Seq(Byte) /\ Len(View(s)) \in Nat /\ Pos(s) \in Int
           /\ ~s.spoiled => Pos(s) \in Nat
<1>1. View(s) \in Seq(Byte)
  BY OverlayType, StreamTypes DEF Good, View
<1>2. Pos(s) \in Int
  BY StreamTypes DEF Good, Pos
<1>3. ~s.spoiled => Pos(s) \in Nat
  BY StreamTypes DEF Good, Pos, Coherent
<1>. QED BY <1>1, <1>2, <1>3

LEMMA SkipGood ==
    ASSUME NEW s, Good(s), NEW t, IsStream(t),
           t.file = s.file, t.dpos = s.dpos, t.use = s.use, t.buf = s.buf,
           t.nxt = s.nxt, t.end = s.end, t.beof = s.beof, t.spoiled = s.spoiled
    PROVE  Good(t) /\ SameView(s, t)
BY DEF Good, Coherent, SameView, View, Pos

(* One byte of input as ByteStream sees it.                                *)
LEMMA InputAt ==
    ASSUME NEW s, Good(s), NEW o, Input(s, o), ~o.st.spoiled, FF \notin Byte
    PROVE  LET c == Stream!At(View(s), Pos(s))
           IN  /\ ~s.spoiled /\ o.ret = c /\ c \in Byte \cup {EOF} /\ View(o.st) = View(s)
               /\ o.st.errbit = s.errbit
               /\ c = EOF => Pos(o.st) = Pos(s) /\ o.st.eofbit = TRUE
               /\ c # EOF => Pos(o.st) = Pos(s) + 1 /\ o.st.eofbit = s.eofbit
<1> DEFINE c == Stream!At(View(s), Pos(s))
<1>1. /\ ~s.spoiled /\ View(o.st) = View(s) /\ o.st.errbit = s.errbit
      /\ IF Pos(s) < Len(View(s))
         THEN /\ o.ret = Widen(View(s)[Pos(s) + 1]) /\ Pos(o.st) = Pos(s) + 1
              /\ o.st.eofbit = s.eofbit
         ELSE o.ret = EOF /\ Pos(o.st) = Pos(s) /\ o.st.eofbit = TRUE
  BY DEF Input
<1>2. Pos(s) < Len(View(s)) => c = View(s)[Pos(s) + 1] /\ c \in Byte /\ c # EOF /\ Widen(c) = c
  BY <1>1, ViewType, ConstantTypes DEF Stream!At, Widen
<1>3. ~(Pos(s) < Len(View(s))) => c = EOF
  BY DEF Stream!At
<1>. QED BY <1>1, <1>2, <1>3

LEMMA EofGood ==
    ASSUME NEW s, Good(s), NEW t, t = [s EXCEPT !.eofbit = TRUE]
    PROVE  /\ Good(t) /\ SameView(s, t) /\ t.eofbit /\ t.nextc = s.nextc
           /\ t.spoiled = s.spoiled /\ t.errbit = s.errbit /\ t.mode = s.mode /\ t.use = s.use
<1>1. IsStream(s)
  BY DEF Good
<1>2. IsStream(t)
  BY <1>1 DEF IsStream
<1>3. /\ t.file = s.file /\ t.dpos = s.dpos /\ t.use = s.use /\ t.buf = s.buf
      /\ t.nxt = s.nxt /\ t.end = s.end /\ t.beof = s.beof
      /\ t.spoiled = s.spoiled /\ t.errbit = s.errbit /\ t.eofbit = TRUE
      /\ t.mode = s.mode /\ t.nextc = s.nextc
  BY <1>1 DEF IsStream
<1>. QED BY <1>2, <1>3, SkipGood

LEMMA NextcGood ==
    ASSUME NEW s, Good(s), NEW c \in Byte \cup {EOF}, NEW t, t = [s EXCEPT !.nextc = c]
    PROVE  /\ Good(t) /\ SameView(s, t) /\ t.nextc = c /\ t.eofbit = s.eofbit
           /\ t.spoiled = s.spoiled /\ t.errbit = s.errbit /\ t.mode = s.mode /\ t.use = s.use
<1>1. IsStream(s)
  BY DEF Good
<1>2. IsStream(t)
  BY <1>1 DEF IsStream
<1>3. /\ t.file = s.file /\ t.dpos = s.dpos /\ t.use = s.use /\ t.buf = s.buf
      /\ t.nxt = s.nxt /\ t.end = s.end /\ t.beof = s.beof
      /\ t.spoiled = s.spoiled /\ t.errbit = s.errbit /\ t.eofbit = s.eofbit
      /\ t.mode = s.mode /\ t.nextc = c
  BY <1>1 DEF IsStream
<1>. QED BY <1>2, <1>3, SkipGood

(* Taking back the pushed-back byte.                                       *)
LEMMA PopGood ==
    ASSUME Inv, st' = [st EXCEPT !.nextc = EOF]
    PROVE  /\ Inv' /\ SameView(st, st') /\ st'.nextc = EOF
           /\ st'.spoiled = st.spoiled /\ st'.eofbit = st.eofbit /\ st'.mode = st.mode
<1>1. /\ Good(st') /\ SameView(st, st') /\ st'.nextc = EOF /\ st'.eofbit = st.eofbit
      /\ st'.spoiled = st.spoiled /\ st'.errbit = st.errbit /\ st'.mode = st.mode
      /\ st'.use = st.use
  BY NextcGood DEF Inv
<1>. QED BY <1>1 DEF Inv

LEMMA ReadInv ==
    ASSUME Inv, Read
    PROVE  Inv' /\ st'.mode = st.mode
<1>1. st.mode # None
  BY DEF Read, IsOpen
<1>2. PICK o \in ReadByte(st) : st' = o.st
  BY DEF Read
<1>3. CASE st.nextc # EOF
  <2>1. st' = [st EXCEPT !.nextc = EOF]
    BY <1>2, <1>3 DEF ReadByte, Ret
  <2>. QED BY <2>1, PopGood
<1>4. CASE st.nextc = EOF
  <2>1. Input(st, o)
    BY <1>2, <1>4, ReadBufGood DEF ReadByte, Inv
  <2>. QED BY <1>1, <1>2, <2>1 DEF Input, Inv
<1>. QED BY <1>3, <1>4

LEMMA ReadStep ==
    ASSUME Inv, Read, FF \notin Byte
    PROVE  st'.spoiled \/ (~st.spoiled /\ Stream!Read)
<1>1. PICK o \in ReadByte(st) :
         /\ st' = o.st
         /\ res' = [op |-> "read", arg |-> EOF, ret |-> o.ret,
                    cnt |-> IF o.st.errbit \/ o.st.eofbit THEN 0 ELSE 1]
  BY DEF Read
<1>2. CASE st.nextc # EOF
  <2>1. st' = [st EXCEPT !.nextc = EOF] /\ o.ret = st.nextc
    BY <1>1, <1>2 DEF ReadByte, Ret
  <2>2. /\ SameView(st, st') /\ st'.nextc = EOF /\ st'.spoiled = st.spoiled
        /\ st'.eofbit = st.eofbit /\ st'.mode = st.mode
    BY <2>1, PopGood
  <2>3. Stream!Read
    BY <1>1, <1>2, <2>1, <2>2 DEF Stream!Read, Stream!Returns, SameView, IsOpen
  <2>. QED BY <2>2, <2>3
<1>3. CASE st.nextc = EOF
  <2>1. Input(st, o)
    BY <1>1, <1>3, ReadBufGood DEF ReadByte, Inv
  <2>2. o.st.mode = st.mode /\ o.st.nextc = EOF
    BY <1>3, <2>1 DEF Input
  <2> DEFINE c == Stream!At(View(st), Pos(st))
  <2>3. ~o.st.spoiled =>
          /\ ~st.spoiled /\ o.ret = c /\ View(o.st) = View(st)
          /\ c = EOF => Pos(o.st) = Pos(st) /\ o.st.eofbit = TRUE
          /\ c # EOF => Pos(o.st) = Pos(st) + 1 /\ o.st.eofbit = st.eofbit
    BY <2>1, InputAt DEF Inv
  <2>4. ~o.st.spoiled => Stream!Read
    BY <1>1, <1>3, <2>2, <2>3 DEF Stream!Read, Stream!Returns, IsOpen
  <2>. QED BY <1>1, <2>3, <2>4
<1>. QED BY <1>2, <1>3

LEMMA FgetcInv ==
    ASSUME Inv, Fgetc
    PROVE  Inv' /\ st'.mode = st.mode
<1>1. PICK r \in GetC(st) : st' = r.st
  BY DEF Fgetc, Call
<1>2. st.mode # None
  BY DEF Fgetc, IsOpen
<1>3. CASE st.nextc # EOF
  <2>1. st' = [st EXCEPT !.nextc = EOF]
    BY <1>1, <1>3 DEF GetC, Ret
  <2>. QED BY <2>1, PopGood
<1>4. CASE st.nextc = EOF
  <2>1. PICK o \in ReadBuf(st) : r \in Cook(o)
    BY <1>1, <1>4 DEF GetC
  <2>2. Input(st, o)
    BY <2>1, ReadBufGood DEF Inv
  <2>3. /\ Good(o.st) /\ (o.st.errbit => o.st.spoiled) /\ o.st.mode # None
        /\ o.st.nextc = EOF /\ o.st.mode = st.mode
    BY <1>2, <1>4, <2>2 DEF Input, Inv
  <2>4. CASE o.ret = CtrlZ
    <3>1. st' = [o.st EXCEPT !.eofbit = TRUE]
      BY <1>1, <2>1, <2>4 DEF Cook, Ret
    <3>2. /\ Good(st') /\ st'.spoiled = o.st.spoiled /\ st'.errbit = o.st.errbit
          /\ st'.mode = o.st.mode
      BY <2>3, <3>1, EofGood
    <3>. QED BY <2>3, <3>2 DEF Inv
  <2>5. CASE o.ret = CR
    <3>1. PICK p \in ReadByte(o.st) :
            r = Ret(IF p.ret = LF THEN p.st ELSE [p.st EXCEPT !.nextc = p.ret], LF)
      BY <2>1, <2>5, ConstantTypes DEF Cook
    <3>2. Input(o.st, p)
      BY <2>3, <3>1, ReadBufGood DEF ReadByte
    <3>3. /\ Good(p.st) /\ p.ret \in Byte \cup {EOF} /\ (p.st.errbit => p.st.spoiled)
          /\ p.st.mode # None /\ p.st.mode = st.mode
      BY <2>3, <3>2 DEF Input
    <3>4. CASE p.ret = LF
      <4>1. st' = p.st
        BY <1>1, <3>1, <3>4 DEF Ret
      <4>. QED BY <3>3, <4>1 DEF Inv
    <3>5. CASE p.ret # LF
      <4>1. st' = [p.st EXCEPT !.nextc = p.ret]
        BY <1>1, <3>1, <3>5 DEF Ret
      <4>. QED BY <3>3, <4>1, NextcGood DEF Inv
    <3>. QED BY <3>4, <3>5
  <2>6. CASE o.ret # CtrlZ /\ o.ret # CR
    <3>1. st' = o.st
      BY <1>1, <2>1, <2>6 DEF Cook
    <3>. QED BY <2>3, <3>1 DEF Inv
  <2>. QED BY <2>4, <2>5, <2>6
<1>. QED BY <1>3, <1>4

LEMMA FgetcStep ==
    ASSUME Inv, Fgetc, FF \notin Byte
    PROVE  st'.spoiled \/ (~st.spoiled /\ Stream!Fgetc)
<1>1. PICK r \in GetC(st) : st' = r.st /\ Returning("fgetc", EOF, r.ret)
  BY DEF Fgetc, Call
<1>2. IsStream(st) /\ Good(st)
  BY DEF Inv, Good
<1>3. CASE st.nextc # EOF
  <2>1. r = Ret([st EXCEPT !.nextc = EOF], st.nextc)
    BY <1>1, <1>3 DEF GetC
  <2>2. st' = [st EXCEPT !.nextc = EOF] /\ r.ret = st.nextc
    BY <1>1, <2>1 DEF Ret
  <2>3. /\ SameView(st, st') /\ st'.nextc = EOF
        /\ st'.spoiled = st.spoiled /\ st'.eofbit = st.eofbit /\ st'.mode = st.mode
    BY <2>2, PopGood
  <2>4. Stream!Fgetc
    BY <1>1, <1>3, <2>2, <2>3 DEF Stream!Fgetc, Stream!Returns, Returning, SameView, IsOpen
  <2>. QED BY <2>3, <2>4
<1>4. CASE st.nextc = EOF
  <2>1. PICK o \in ReadBuf(st) : r \in Cook(o)
    BY <1>1, <1>4 DEF GetC
  <2>2. Input(st, o)
    BY <1>2, <2>1, ReadBufGood
  <2> DEFINE c == Stream!At(View(st), Pos(st))
  <2>3. ~o.st.spoiled =>
          /\ ~st.spoiled /\ o.ret = c /\ c \in Byte \cup {EOF} /\ View(o.st) = View(st)
          /\ o.st.errbit = st.errbit
          /\ c = EOF => Pos(o.st) = Pos(st) /\ o.st.eofbit = TRUE
          /\ c # EOF => Pos(o.st) = Pos(st) + 1 /\ o.st.eofbit = st.eofbit
    BY <1>2, <2>2, InputAt
  <2>4. /\ Good(o.st) /\ IsStream(o.st) /\ o.ret \in Byte \cup {EOF}
        /\ o.st.mode = st.mode /\ o.st.nextc = EOF
        /\ o.st.errbit => o.st.spoiled
    BY <1>4, <2>2 DEF Input, Good, Inv
  <2> HIDE DEF c
  <2>5. CASE o.ret = CtrlZ
    <3>1. st' = [o.st EXCEPT !.eofbit = TRUE] /\ r.ret = EOF
      BY <1>1, <2>1, <2>5 DEF Cook, Ret
    <3>2. /\ SameView(o.st, st') /\ st'.eofbit = TRUE /\ st'.spoiled = o.st.spoiled
          /\ st'.nextc = EOF /\ st'.mode = st.mode
      BY <2>4, <3>1, EofGood DEF Good, IsStream
    <3>3. ~st'.spoiled => Stream!Cook(c) /\ View(st') = View(st) /\ ~st.spoiled
      BY <1>1, <1>4, <2>3, <2>5, <3>1, <3>2, ConstantTypes
      DEF Stream!Cook, Stream!Returns, Returning, SameView
    <3>. QED BY <1>4, <3>2, <3>3 DEF Stream!Fgetc, IsOpen, c
  <2>6. CASE o.ret = CR
    <3>1. PICK p \in ReadByte(o.st) :
            r = Ret(IF p.ret = LF THEN p.st ELSE [p.st EXCEPT !.nextc = p.ret], LF)
      BY <2>1, <2>6, ConstantTypes DEF Cook
    <3>2. Input(o.st, p)
      BY <2>4, <3>1, ReadBufGood DEF ReadByte
    <3> DEFINE d == Stream!At(View(st), Pos(st) + 1)
    <3>3. ~p.st.spoiled =>
            /\ ~o.st.spoiled /\ p.ret = d /\ d \in Byte \cup {EOF} /\ View(p.st) = View(st)
            /\ p.st.errbit = o.st.errbit
            /\ d = EOF => Pos(p.st) = Pos(o.st) /\ p.st.eofbit = TRUE
            /\ d # EOF => Pos(p.st) = Pos(o.st) + 1 /\ p.st.eofbit = o.st.eofbit
      <4>1. ~p.st.spoiled => ~o.st.spoiled
        BY <3>2 DEF Input
      <4>2. ~o.st.spoiled => View(o.st) = View(st) /\ Pos(o.st) = Pos(st) + 1
        BY <2>3, <2>6, ConstantTypes
      <4> DEFINE e == Stream!At(View(o.st), Pos(o.st))
      <4>3. ~o.st.spoiled => e = d
        BY <4>2
      <4>4. ~p.st.spoiled =>
              /\ ~o.st.spoiled /\ p.ret = e /\ e \in Byte \cup {EOF} /\ View(p.st) = View(o.st)
              /\ p.st.errbit = o.st.errbit
              /\ e = EOF => Pos(p.st) = Pos(o.st) /\ p.st.eofbit = TRUE
              /\ e # EOF => Pos(p.st) = Pos(o.st) + 1 /\ p.st.eofbit = o.st.eofbit
        BY <2>4, <3>2, InputAt
      <4> HIDE DEF d, e
      <4>. QED BY <4>1, <4>2, <4>3, <4>4
    <3> HIDE DEF d
    <3>4. /\ Good(p.st) /\ IsStream(p.st) /\ p.ret \in Byte \cup {EOF}
          /\ p.st.mode = st.mode /\ p.st.nextc = EOF
          /\ p.st.errbit => p.st.spoiled
          /\ p.st.spoiled \/ ~o.st.spoiled
      BY <2>4, <3>2 DEF Input, Good
    <3>5. /\ r.ret = LF
          /\ p.ret = LF => st' = p.st
          /\ p.ret # LF => st' = [p.st EXCEPT !.nextc = p.ret]
      BY <1>1, <3>1 DEF Ret
    <3>9. /\ SameView(p.st, st') /\ st'.spoiled = p.st.spoiled
          /\ st'.errbit = p.st.errbit /\ st'.eofbit = p.st.eofbit /\ st'.mode = st.mode
          /\ st'.nextc = IF p.ret = LF THEN EOF ELSE p.ret
      BY <3>4, <3>5, NextcGood DEF SameView
    <3>11. ~st'.spoiled => c = CR /\ c # EOF /\ ~st.spoiled
      BY <2>3, <2>6, <3>4, <3>9, ConstantTypes
    <3>12. ~st'.spoiled =>
              /\ View(st') = View(st)
              /\ Pos(st') = IF d = EOF THEN Pos(st) + 1 ELSE Pos(st) + 2
              /\ st'.eofbit = (st.eofbit \/ d = EOF)
              /\ st'.nextc = IF d = LF THEN EOF ELSE d
      <4>1. SUFFICES ASSUME ~st'.spoiled
                     PROVE  /\ View(st') = View(st)
                            /\ Pos(st') = IF d = EOF THEN Pos(st) + 1 ELSE Pos(st) + 2
                            /\ st'.eofbit = (st.eofbit \/ d = EOF)
                            /\ st'.nextc = IF d = LF THEN EOF ELSE d
        OBVIOUS
      <4>2. Pos(o.st) = Pos(st) + 1 /\ o.st.eofbit = st.eofbit
        BY <2>3, <3>3, <3>9, <3>11, <4>1
      <4>3. /\ View(st') = View(st) /\ p.ret = d
            /\ d = EOF => Pos(st') = Pos(st) + 1 /\ st'.eofbit = TRUE
            /\ d # EOF => Pos(st') = (Pos(st) + 1) + 1 /\ st'.eofbit = st.eofbit
        BY <3>3, <3>9, <4>1, <4>2 DEF SameView
      <4>4. Pos(st) \in Int /\ st.eofbit \in BOOLEAN
        BY <1>2, ViewType DEF IsStream
      <4>5. Pos(st') = IF d = EOF THEN Pos(st) + 1 ELSE Pos(st) + 2
        BY <4>3, <4>4
      <4>6. st'.eofbit = (st.eofbit \/ d = EOF)
        BY <4>3, <4>4
      <4>. QED BY <3>9, <4>3, <4>5, <4>6
    <3>13. ~st'.spoiled => Stream!Cook(c)
      BY <1>1, <3>5, <3>11, <3>12 DEF Stream!Cook, Stream!Returns, Returning, d
    <3>. QED BY <1>4, <3>9, <3>11, <3>12, <3>13 DEF Stream!Fgetc, IsOpen, c
  <2>7. CASE o.ret # CtrlZ /\ o.ret # CR
    <3>1. r = o
      BY <2>1, <2>7 DEF Cook
    <3>2. st' = o.st
      BY <1>1, <3>1
    <3>3. ~st'.spoiled => Stream!Cook(c) /\ View(st') = View(st) /\ ~st.spoiled
      BY <1>1, <1>4, <2>3, <2>4, <2>7, <3>1, <3>2
      DEF Stream!Cook, Stream!Returns, Returning
    <3>. QED BY <1>4, <2>4, <3>2, <3>3 DEF Stream!Fgetc, IsOpen, c
  <2>. QED BY <2>5, <2>6, <2>7
<1>. QED BY <1>3, <1>4

LEMMA UngetcStep ==
    ASSUME Inv, NEW c \in PushBack, Ungetc(c)
    PROVE  Inv' /\ st'.mode = st.mode /\ (st'.spoiled \/ (~st.spoiled /\ Stream!Ungetc(c)))
<1>1. IsStream(st) /\ Good(st) /\ c \in Byte
  BY ConstantTypes DEF Inv, Good
<1>2. CASE ~IsOpen \/ st.nextc # EOF
  BY <1>2 DEF Ungetc, Returning, Inv, Stream!Ungetc, Stream!Returns, IsOpen
<1>3. CASE ~(~IsOpen \/ st.nextc # EOF)
  <2>1. st' = [st EXCEPT !.nextc = c] /\ Returning("ungetc", c, c)
    BY <1>3 DEF Ungetc
  <2>2. IsStream(st')
    BY <1>1, <2>1 DEF IsStream
  <2>3. /\ st'.file = st.file /\ st'.dpos = st.dpos /\ st'.use = st.use /\ st'.buf = st.buf
        /\ st'.nxt = st.nxt /\ st'.end = st.end /\ st'.beof = st.beof
        /\ st'.spoiled = st.spoiled /\ st'.errbit = st.errbit /\ st'.eofbit = st.eofbit
        /\ st'.mode = st.mode /\ st'.nextc = c
    BY <1>1, <2>1 DEF IsStream
  <2>4. Good(st') /\ SameView(st, st')
    BY <1>1, <2>2, <2>3, SkipGood
  <2>5. Stream!Ungetc(c)
    BY <1>3, <2>1, <2>3, <2>4
    DEF Stream!Ungetc, Stream!Returns, Returning, SameView, IsOpen
  <2>. QED BY <2>3, <2>4, <2>5 DEF Inv
<1>. QED BY <1>2, <1>3

(* One byte put through the buffer is one byte put into the stream.        *)
LEMMA WriteStep ==
    ASSUME Inv, NEW b \in Byte, Write(b)
    PROVE  Inv' /\ st'.mode = st.mode /\ (st'.spoiled \/ (~st.spoiled /\ Stream!Put("write", b, <<b>>)))
<1>0. st.mode # None
  BY DEF Write, IsOpen
<1>1. PICK o \in WriteBuf(st, b) : st' = o.st /\ Returning("write", b, Reported(o.st, b))
  BY DEF Write
<1>2. Output(st, b, o)
  BY <1>1, WriteBufGood DEF Inv
<1>3. Inv'
  BY <1>0, <1>1, <1>2 DEF Inv, Output, SameCaller
<1>4. ~st'.spoiled =>
        /\ ~st.spoiled /\ ~st'.errbit
        /\ View(st') = Overlay(View(st), Pos(st), <<b>>) /\ Pos(st') = Pos(st) + 1
  BY <1>1, <1>2 DEF Output, Inv
<1>5. st'.mode = st.mode /\ st'.nextc = st.nextc /\ st'.eofbit = st.eofbit
  BY <1>1, <1>2 DEF Output, SameCaller
<1>6. Stream!Overlay(View(st), Pos(st), <<b>>) = Overlay(View(st), Pos(st), <<b>>)
  BY DEF Stream!Overlay, Overlay, Most
<1>7. ~st'.spoiled => Stream!Put("write", b, <<b>>)
  BY <1>1, <1>4, <1>5, <1>6 DEF Stream!Put, Stream!Returns, Returning, Reported, IsOpen
<1>. QED BY <1>3, <1>4, <1>5, <1>7

(* A CR and then an LF put into the stream are both of them at once.       *)
LEMMA CrLf ==
    ASSUME NEW f \in Seq(Byte), NEW at \in Nat
    PROVE  Overlay(Overlay(f, at, <<CR>>), at + 1, <<LF>>) = Overlay(f, at, <<CR, LF>>)
<1>1. <<CR>> \in Seq(Byte) /\ Len(<<CR>>) = 1 /\ <<CR>>[1] = CR
  BY ConstantTypes
<1>2. Append(<<CR>>, LF) = <<CR, LF>>
  <2> DEFINE u == Append(<<CR>>, LF)
             v == <<CR, LF>>
  <2>1. u \in Seq(Byte) /\ Len(u) = 2 /\ u[1] = CR /\ u[2] = LF
    BY <1>1, AppendProperties, ConstantTypes
  <2>2. v \in Seq(Byte) /\ Len(v) = 2 /\ v[1] = CR /\ v[2] = LF
    BY ConstantTypes
  <2> HIDE DEF u, v
  <2>3. u = v
    BY <2>1, <2>2, SeqEqual
  <2>. QED BY <2>3 DEF u, v
<1>3. Overlay(Overlay(f, at, <<CR>>), at + Len(<<CR>>), <<LF>>) = Overlay(f, at, Append(<<CR>>, LF))
  <2> DEFINE u == <<CR>>
  <2>1. u \in Seq(Byte) /\ LF \in Byte
    BY <1>1, ConstantTypes
  <2> HIDE DEF u
  <2>2. Overlay(Overlay(f, at, u), at + Len(u), <<LF>>) = Overlay(f, at, Append(u, LF))
    BY <2>1, OverlayAppend
  <2>. QED BY <2>2 DEF u
<1>. QED BY <1>1, <1>2, <1>3

(* What a character of text output puts into the stream.                   *)
PutsText(c) ==
    \/ c = LF /\ Stream!Put("fputc", LF, <<CR, LF>>)
    \/ c = EOF /\ Stream!Put("fputc", EOF, <<CtrlZ>>)
    \/ c \in Byte /\ Stream!Put("fputc", c, <<c>>)

LEMMA FputcStep ==
    ASSUME Inv, NEW c \in Byte \cup {EOF}, Fputc(c)
    PROVE  Inv' /\ st'.mode = st.mode /\ (st'.spoiled \/ (~st.spoiled /\ PutsText(c)))
<1>0. st.mode # None
  BY DEF Fputc, IsOpen
<1>1. PICK o \in PutC(st, c) : st' = o.st /\ Returning("fputc", c, Reported(o.st, c))
  BY DEF Fputc
<1>2. CASE c = LF
  <2>1. PICK q \in WriteBuf(st, CR) : o \in WriteBuf(q.st, LF)
    BY <1>1, <1>2 DEF PutC
  <2>2. Output(st, CR, q)
    BY <2>1, WriteBufGood, ConstantTypes DEF Inv
  <2>3. Output(q.st, LF, o)
    BY <2>1, <2>2, WriteBufGood, ConstantTypes DEF Output
  <2>4. Inv'
    BY <1>0, <1>1, <2>2, <2>3 DEF Inv, Output, SameCaller
  <2>5. ~st'.spoiled =>
          /\ ~st.spoiled /\ ~st'.errbit
          /\ View(st') = Overlay(Overlay(View(st), Pos(st), <<CR>>), Pos(st) + 1, <<LF>>)
          /\ Pos(st') = (Pos(st) + 1) + 1
    BY <1>1, <2>2, <2>3 DEF Output, Inv
  <2>6. st'.mode = st.mode /\ st'.nextc = st.nextc /\ st'.eofbit = st.eofbit
    BY <1>1, <2>2, <2>3 DEF Output, SameCaller
  <2>7. ~st.spoiled => Overlay(Overlay(View(st), Pos(st), <<CR>>), Pos(st) + 1, <<LF>>)
                         = Overlay(View(st), Pos(st), <<CR, LF>>)
    BY ViewType, CrLf DEF Inv
  <2>8. Stream!Overlay(View(st), Pos(st), <<CR, LF>>) = Overlay(View(st), Pos(st), <<CR, LF>>)
    BY DEF Stream!Overlay, Overlay, Most
  <2>9. ~st'.spoiled => Pos(st') = Pos(st) + Len(<<CR, LF>>)
    <3>1. Pos(st) \in Int
      BY ViewType DEF Inv
    <3>2. Len(<<CR, LF>>) = 2
      OBVIOUS
    <3>. QED BY <2>5, <3>1, <3>2
  <2>10. ~st'.spoiled => Stream!Put("fputc", LF, <<CR, LF>>)
    BY <1>1, <1>2, <2>5, <2>6, <2>7, <2>8, <2>9
    DEF Stream!Put, Stream!Returns, Returning, Reported, IsOpen
  <2>11. ~st'.spoiled => PutsText(c)
    BY <1>2, <2>10 DEF PutsText
  <2>. QED BY <2>4, <2>5, <2>6, <2>11
<1>3. CASE c # LF
  <2> DEFINE b == IF c = EOF THEN CtrlZ ELSE c
  <2>1. b \in Byte /\ o \in WriteBuf(st, b)
    BY <1>1, <1>3, ConstantTypes DEF PutC
  <2> HIDE DEF b
  <2>2. Output(st, b, o)
    BY <2>1, WriteBufGood DEF Inv
  <2>3. Inv'
    BY <1>0, <1>1, <2>2 DEF Inv, Output, SameCaller
  <2>4. ~st'.spoiled =>
          /\ ~st.spoiled /\ ~st'.errbit
          /\ View(st') = Overlay(View(st), Pos(st), <<b>>) /\ Pos(st') = Pos(st) + 1
    BY <1>1, <2>2 DEF Output, Inv
  <2>5. st'.mode = st.mode /\ st'.nextc = st.nextc /\ st'.eofbit = st.eofbit
    BY <1>1, <2>2 DEF Output, SameCaller
  <2>6. Stream!Overlay(View(st), Pos(st), <<b>>) = Overlay(View(st), Pos(st), <<b>>)
    BY DEF Stream!Overlay, Overlay, Most
  <2>7. ~st'.spoiled => Stream!Put("fputc", c, <<b>>)
    BY <1>1, <2>4, <2>5, <2>6 DEF Stream!Put, Stream!Returns, Returning, Reported, IsOpen
  <2>8. (c = EOF /\ b = CtrlZ) \/ (c \in Byte /\ b = c)
    BY DEF b
  <2>9. ~st'.spoiled => PutsText(c)
    <3>1. CASE c = EOF /\ b = CtrlZ
      BY <2>7, <3>1 DEF PutsText
    <3>2. CASE c \in Byte /\ b = c
      BY <2>7, <3>2 DEF PutsText
    <3>. QED BY <2>8, <3>1, <3>2
  <2>. QED BY <2>3, <2>4, <2>5, <2>9
<1>. QED BY <1>2, <1>3

LEMMA FflushStep ==
    ASSUME Inv, Fflush
    PROVE  Inv' /\ st'.mode = st.mode /\ (st'.spoiled \/ (~st.spoiled /\ Stream!Quiet))
<1>0. st.mode # None
  BY DEF Fflush, IsOpen
<1>1. PICK o \in (IF st.use = "out" THEN Flush(st) ELSE {Ret(st, 0)}) :
        st' = o.st /\ Returning("fflush", EOF, o.ret)
  BY DEF Fflush, Call
<1>2. /\ Good(o.st) /\ SameCaller(st, o.st)
      /\ ~o.st.spoiled => ~st.spoiled /\ o.st.errbit = st.errbit /\ SameView(st, o.st)
  <2>1. CASE st.use = "out"
    BY <1>1, <2>1, FlushGood DEF Inv
  <2>2. CASE st.use # "out"
    BY <1>1, <2>2 DEF Inv, Ret, SameCaller, SameView
  <2>. QED BY <2>1, <2>2
<1>3. o.ret = o.ret /\ st' = o.st /\ res'.op = "fflush"
  BY <1>1 DEF Returning
<1>6. o.st.errbit => o.st.spoiled
  BY <1>1, <1>2 DEF Inv
<1>4. Inv'
  BY <1>0, <1>2, <1>3, <1>6 DEF Inv, SameCaller
<1>5. ~st'.spoiled => ~st.spoiled /\ Stream!Quiet
  BY <1>1, <1>2, <1>3 DEF Stream!Quiet, Returning, SameView, SameCaller, IsOpen
<1>. QED BY <1>2, <1>3, <1>4, <1>5 DEF SameCaller

(* A stream that a call has spoiled, and otherwise left alone.             *)
LEMMA SpoilGood ==
    ASSUME NEW s, Good(s), NEW t, t = [s EXCEPT !.spoiled = TRUE]
    PROVE  /\ Good(t) /\ SameCaller(s, t) /\ t.spoiled /\ t.errbit = s.errbit
           /\ t.use = s.use /\ t.file = s.file
<1>1. IsStream(t)
  BY DEF Good, IsStream
<1>2. /\ t.file = s.file /\ t.dpos = s.dpos /\ t.use = s.use /\ t.buf = s.buf
      /\ t.nxt = s.nxt /\ t.end = s.end /\ t.beof = s.beof
      /\ t.spoiled = TRUE /\ t.errbit = s.errbit /\ SameCaller(s, t)
  BY DEF Good, IsStream, SameCaller
<1>3. Good(t)
  BY <1>1, <1>2 DEF Good, Coherent
<1>. QED BY <1>2, <1>3

(* What btell and ctell find out: the DOS position, or nothing.            *)
LEMMA ToldGood ==
    ASSUME NEW s, Good(s), NEW q \in Told(s)
    PROVE  /\ Good(q.st) /\ SameCaller(s, q.st) /\ q.st.errbit = s.errbit
           /\ q.st.use = s.use /\ q.st.file = s.file
           /\ s.spoiled => q.st.spoiled
           /\ q.ret \in Int
           /\ ~q.st.spoiled => q.st = s /\ q.ret = s.dpos
           /\ q.ret = EOF => q.st.spoiled
<1>1. PICK p \in Reached(s.dpos) :
        q = IF p = EOF THEN Ret([s EXCEPT !.spoiled = TRUE], 0) ELSE Ret(s, p)
  BY DEF Told
<1>2. s.dpos \in Nat /\ EOF # 0
  BY StreamTypes, ConstantTypes DEF Good
<1>3. CASE p = EOF
  <2>1. q.st = [s EXCEPT !.spoiled = TRUE] /\ q.ret = 0
    BY <1>1, <1>3 DEF Ret
  <2>. QED BY <1>2, <2>1, SpoilGood
<1>4. CASE p # EOF
  <2>1. q.st = s /\ q.ret = p
    BY <1>1, <1>4 DEF Ret
  <2>2. p = s.dpos
    BY <1>2, <1>4 DEF Reached
  <2>. QED BY <1>2, <1>4, <2>1, <2>2 DEF SameCaller
<1>. QED BY <1>3, <1>4

LEMMA BtellStep ==
    ASSUME Inv, Btell
    PROVE  Inv' /\ st'.mode = st.mode /\ (st'.spoiled \/ (~st.spoiled /\ Stream!Quiet))
<1>0. st.mode # None
  BY DEF Btell, IsOpen
<1>1. PICK o \in Adjust(st) :
        IF o.ret # 0 THEN st' = o.st /\ Returning("btell", EOF, EOF)
        ELSE Call("btell", EOF, Told(o.st))
  BY DEF Btell
<1>2. /\ Good(o.st) /\ SameCaller(st, o.st)
      /\ ~o.st.spoiled => /\ ~st.spoiled /\ o.st.errbit = st.errbit /\ SameView(st, o.st)
                          /\ o.ret = 0 /\ o.st.use = "empty"
      /\ o.st.errbit => o.st.spoiled
  BY <1>1, AdjustGood, ConstantTypes DEF Inv
<1>3. CASE o.ret # 0
  BY <1>0, <1>1, <1>2, <1>3 DEF Inv, SameCaller
<1>4. CASE o.ret = 0
  <2>1. PICK q \in Told(o.st) : st' = q.st /\ Returning("btell", EOF, q.ret)
    BY <1>1, <1>4 DEF Call
  <2>2. /\ Good(q.st) /\ SameCaller(o.st, q.st) /\ q.st.errbit = o.st.errbit
        /\ o.st.spoiled => q.st.spoiled
        /\ ~q.st.spoiled => q.st = o.st /\ q.ret = o.st.dpos
    BY <1>2, <2>1, ToldGood
  <2>3. Inv'
    BY <1>0, <1>2, <2>1, <2>2 DEF Inv, SameCaller
  <2>4. ~st'.spoiled => q.ret = Pos(st) /\ SameView(st, st')
    BY <1>2, <2>1, <2>2 DEF SameView, Pos
  <2>5. ~st'.spoiled => ~st.spoiled /\ Stream!Quiet
    BY <1>2, <2>1, <2>2, <2>4 DEF Stream!Quiet, Returning, SameView, SameCaller, IsOpen
  <2>. QED BY <1>2, <2>1, <2>2, <2>3, <2>5 DEF SameCaller
<1>. QED BY <1>3, <1>4

(* A seek of a stream with an idle buffer moves it, or is refused.         *)
LEMMA SeekGood ==
    ASSUME NEW s, Good(s), s.use = "empty", NEW target \in Int, NEW o \in SeekTo(s, target)
    PROVE  /\ Good(o.st) /\ o.st.errbit = s.errbit /\ o.st.mode = s.mode
           /\ s.spoiled => o.st.spoiled
           /\ ~o.st.spoiled =>
                 /\ ~s.spoiled /\ View(o.st) = View(s)
                 /\ \/ /\ o.ret = 0 /\ target >= 0 /\ Pos(o.st) = target
                       /\ o.st.nextc = EOF /\ o.st.eofbit = FALSE
                    \/ /\ o.ret = EOF /\ target < 0 /\ Pos(o.st) = Pos(s)
                       /\ o.st.nextc = s.nextc /\ o.st.eofbit = s.eofbit
<1>1. PICK p \in Reached(target) :
        o = IF p = EOF THEN Ret([s EXCEPT !.spoiled = s.spoiled \/ target >= 0], EOF)
            ELSE Ret([s EXCEPT !.dpos = p, !.nextc = EOF, !.eofbit = FALSE], 0)
  BY DEF SeekTo
<1>2. CASE p = EOF
  <2> DEFINE t == [s EXCEPT !.spoiled = s.spoiled \/ target >= 0]
  <2>1. o.st = t /\ o.ret = EOF
    BY <1>1, <1>2 DEF Ret
  <2>2. IsStream(t)
    BY DEF Good, IsStream
  <2>3. /\ t.file = s.file /\ t.dpos = s.dpos /\ t.use = "empty" /\ t.buf = s.buf
        /\ t.nxt = s.nxt /\ t.end = s.end /\ t.beof = s.beof
        /\ t.errbit = s.errbit /\ t.eofbit = s.eofbit /\ t.nextc = s.nextc /\ t.mode = s.mode
        /\ (t.spoiled <=> s.spoiled \/ target >= 0)
    BY DEF Good, IsStream
  <2> HIDE DEF t
  <2>4. Good(t) /\ View(t) = View(s) /\ Pos(t) = Pos(s)
    BY <2>2, <2>3 DEF Good, Coherent, View, Pos
  <2>. QED BY <2>1, <2>3, <2>4
<1>3. CASE p # EOF
  <2> DEFINE t == [s EXCEPT !.dpos = p, !.nextc = EOF, !.eofbit = FALSE]
  <2>1. o.st = t /\ o.ret = 0
    BY <1>1, <1>3 DEF Ret
  <2>2. p = target /\ target >= 0
    BY <1>3 DEF Reached
  <2>3. IsStream(t)
    BY <2>2 DEF Good, IsStream
  <2>4. /\ t.file = s.file /\ t.dpos = target /\ t.use = "empty" /\ t.buf = s.buf
        /\ t.nxt = s.nxt /\ t.end = s.end /\ t.beof = s.beof /\ t.spoiled = s.spoiled
        /\ t.errbit = s.errbit /\ t.eofbit = FALSE /\ t.nextc = EOF /\ t.mode = s.mode
    BY <2>2 DEF Good, IsStream
  <2> HIDE DEF t
  <2>5. Good(t) /\ View(t) = View(s) /\ Pos(t) = target
    BY <2>3, <2>4 DEF Good, Coherent, View, Pos
  <2>. QED BY <2>1, <2>2, <2>4, <2>5
<1>. QED BY <1>2, <1>3

(* Both seeks first empty the buffer, so that DOS and the caller agree on  *)
(* where the stream is.                                                    *)
LEMMA Adjusted ==
    ASSUME Inv, NEW o \in Adjust(st)
    PROVE  /\ Good(o.st) /\ o.st.mode = st.mode
           /\ o.ret # 0 => o.st.spoiled
           /\ o.ret = 0 =>
                 /\ o.st.use = "empty" /\ (o.st.errbit => o.st.spoiled)
                 /\ \A base \in 0 .. 2 : Origin(o.st, base) \in Int
           /\ ~o.st.spoiled =>
                 /\ ~st.spoiled /\ View(o.st) = View(st) /\ Pos(o.st) = Pos(st)
                 /\ o.st.nextc = st.nextc /\ o.st.eofbit = st.eofbit
                 /\ \A base \in 0 .. 2 : Origin(o.st, base) = Stream!Origin(base)
<1>1. /\ Good(o.st) /\ SameCaller(st, o.st)
      /\ o.ret = 0 => /\ o.st.use = "empty" /\ o.st.file = View(st)
                      /\ o.st.spoiled = st.spoiled /\ o.st.errbit = st.errbit
      /\ o.ret # 0 => o.st.spoiled
      /\ o.ret = 0 /\ ~st.spoiled => SameView(st, o.st)
  BY AdjustGood DEF Inv
<1>2. o.ret = 0 => o.st.dpos \in Int /\ Len(o.st.file) \in Int
  BY <1>1, StreamTypes DEF Good
<1>3. o.ret = 0 => \A base \in 0 .. 2 : Origin(o.st, base) \in Int
  BY <1>2 DEF Origin
<1>4. ~o.st.spoiled => o.st.dpos = Pos(st) /\ o.st.file = View(st)
  BY <1>1 DEF SameView, Pos
<1>5. ~o.st.spoiled => \A base \in 0 .. 2 : Origin(o.st, base) = Stream!Origin(base)
  BY <1>4 DEF Origin, Stream!Origin
<1>. QED BY <1>1, <1>3, <1>5 DEF SameCaller, SameView, Inv

LEMMA BseekStep ==
    ASSUME Inv, NEW base \in 0 .. 2, NEW off \in Offsets, Bseek(base, off)
    PROVE  Inv' /\ st'.mode = st.mode /\ (st'.spoiled \/ (~st.spoiled /\ Stream!Seeks))
<1>0. st.mode # None
  BY DEF Bseek, IsOpen
<1>1. PICK o \in Adjust(st) :
        IF o.ret # 0 THEN st' = o.st
        ELSE Call("bseek", <<base, off>>, SeekTo(o.st, Origin(o.st, base) + off))
  BY DEF Bseek
<1>2. CASE o.ret # 0
  BY <1>0, <1>1, <1>2, Adjusted DEF Inv
<1>3. CASE o.ret = 0
  <2> DEFINE target == Origin(o.st, base) + off
  <2>1. PICK p \in SeekTo(o.st, target) :
          st' = p.st /\ Returning("bseek", <<base, off>>, p.ret)
    BY <1>1, <1>3 DEF Call
  <2>2. target \in Int
    BY <1>3, Adjusted, ConstantTypes
  <2>3. ~o.st.spoiled => target = Stream!Origin(base) + off
    BY Adjusted
  <2> HIDE DEF target
  <2>4. /\ Good(p.st) /\ p.st.errbit = o.st.errbit /\ p.st.mode = o.st.mode
        /\ o.st.spoiled => p.st.spoiled
        /\ ~p.st.spoiled =>
              /\ ~o.st.spoiled /\ View(p.st) = View(o.st)
              /\ \/ /\ p.ret = 0 /\ target >= 0 /\ Pos(p.st) = target
                    /\ p.st.nextc = EOF /\ p.st.eofbit = FALSE
                 \/ /\ p.ret = EOF /\ target < 0 /\ Pos(p.st) = Pos(o.st)
                    /\ p.st.nextc = o.st.nextc /\ p.st.eofbit = o.st.eofbit
    BY <1>3, <2>1, <2>2, Adjusted, SeekGood
  <2>5. o.st.mode = st.mode /\ (o.st.errbit => o.st.spoiled)
    BY <1>3, Adjusted
  <2>6. Inv'
    BY <1>0, <2>1, <2>4, <2>5 DEF Inv
  <2>7. ~o.st.spoiled => /\ ~st.spoiled /\ View(o.st) = View(st) /\ Pos(o.st) = Pos(st)
                         /\ o.st.nextc = st.nextc /\ o.st.eofbit = st.eofbit
    BY Adjusted
  <2>8. ~st'.spoiled => ~st.spoiled /\ Stream!Seek("bseek", <<base, off>>, Stream!Origin(base) + off)
    BY <2>1, <2>3, <2>4, <2>5, <2>7 DEF Stream!Seek, Stream!Returns, Returning, IsOpen
  <2>. QED BY <2>1, <2>4, <2>5, <2>6, <2>8 DEF Stream!Seeks
<1>. QED BY <1>2, <1>3

(* Where cseek counts from, and what finding that out may have moved.      *)
LEMMA FoundGood ==
    ASSUME NEW s, Good(s), s.use = "empty", NEW base \in 0 .. 2, NEW q \in Found(s, base)
    PROVE  /\ Good(q.st) /\ q.st.use = "empty" /\ SameCaller(s, q.st)
           /\ q.st.errbit = s.errbit /\ q.st.file = s.file
           /\ s.spoiled => q.st.spoiled
           /\ q.ret = EOF => q.st.spoiled
           /\ q.ret # EOF => q.ret \in Int
           /\ ~q.st.spoiled => q.ret = Origin(s, base)
<1>1. s.dpos \in Nat /\ Len(s.file) \in Nat /\ EOF # 0
  BY StreamTypes, ConstantTypes DEF Good
<1>2. CASE base = 0
  <2>1. q.st = s /\ q.ret = 0
    BY <1>2 DEF Found, Ret
  <2>. QED BY <1>1, <1>2, <2>1 DEF SameCaller, Origin
<1>3. CASE base = 1
  <2>1. q \in Told(s)
    BY <1>3 DEF Found
  <2>. QED BY <1>3, <2>1, ToldGood DEF Origin
<1>4. CASE base = 2
  <2>1. PICK p \in Reached(Len(s.file)) :
          q = IF p = EOF THEN Ret([s EXCEPT !.spoiled = TRUE], EOF) ELSE Ret([s EXCEPT !.dpos = p], p)
    <3>1. base # 0 /\ base # 1
      BY <1>4
    <3>. QED BY <3>1 DEF Found
  <2>2. CASE p = EOF
    <3>1. q.st = [s EXCEPT !.spoiled = TRUE] /\ q.ret = EOF
      BY <2>1, <2>2 DEF Ret
    <3>. QED BY <3>1, SpoilGood
  <2>3. CASE p # EOF
    <3>1. q.st = [s EXCEPT !.dpos = p] /\ q.ret = p
      BY <2>1, <2>3 DEF Ret
    <3>2. p = Len(s.file) /\ p \in Nat
      BY <1>1, <2>3 DEF Reached
    <3>3. IsStream(q.st)
      BY <3>1, <3>2 DEF Good, IsStream
    <3>4. /\ q.st.file = s.file /\ q.st.use = "empty" /\ q.st.buf = s.buf
          /\ q.st.nxt = s.nxt /\ q.st.end = s.end /\ q.st.beof = s.beof
          /\ q.st.spoiled = s.spoiled /\ q.st.errbit = s.errbit /\ SameCaller(s, q.st)
      BY <3>1 DEF Good, IsStream, SameCaller
    <3>5. Good(q.st)
      BY <3>3, <3>4 DEF Good, Coherent
    <3>. QED BY <1>1, <1>4, <2>3, <3>1, <3>2, <3>4, <3>5 DEF Origin
  <2>. QED BY <2>2, <2>3
<1>. QED BY <1>2, <1>3, <1>4

LEMMA CseekStep ==
    ASSUME Inv, NEW base \in 0 .. 2, NEW off \in Offsets, Cseek(base, off)
    PROVE  Inv' /\ st'.mode = st.mode /\ (st'.spoiled \/ (~st.spoiled /\ Stream!Seeks))
<1> DEFINE Target(origin) == (((origin \div Rec) + off) % Records) * Rec
<1>0. st.mode # None
  BY DEF Cseek, IsOpen
<1>1. PICK o \in Adjust(st) :
        IF o.ret # 0 THEN st' = o.st
        ELSE \E q \in Found(o.st, base) :
                IF q.ret = EOF THEN st' = q.st ELSE CseekFrom(base, off, q.st, q.ret)
  BY DEF Cseek
<1>2. CASE o.ret # 0
  BY <1>0, <1>1, <1>2, Adjusted DEF Inv
<1>3. CASE o.ret = 0
  <2>1. /\ Good(o.st) /\ o.st.use = "empty" /\ o.st.mode = st.mode
        /\ o.st.errbit => o.st.spoiled
        /\ ~o.st.spoiled => /\ ~st.spoiled /\ View(o.st) = View(st)
                            /\ o.st.nextc = st.nextc /\ o.st.eofbit = st.eofbit
                            /\ Origin(o.st, base) = Stream!Origin(base)
    BY <1>3, Adjusted
  <2>2. PICK q \in Found(o.st, base) :
          IF q.ret = EOF THEN st' = q.st ELSE CseekFrom(base, off, q.st, q.ret)
    BY <1>1, <1>3
  <2>3. /\ Good(q.st) /\ q.st.use = "empty" /\ q.st.mode = st.mode
        /\ q.st.errbit => q.st.spoiled
        /\ q.ret = EOF => q.st.spoiled
        /\ q.ret # EOF => q.ret \in Int
        /\ ~q.st.spoiled => /\ ~st.spoiled /\ View(q.st) = View(st)
                            /\ q.ret = Stream!Origin(base)
    BY <2>1, <2>2, FoundGood DEF SameCaller, View
  <2>4. CASE q.ret = EOF
    BY <1>0, <2>2, <2>3, <2>4 DEF Inv
  <2>5. CASE q.ret # EOF
    <3> DEFINE target == Target(q.ret)
    <3>1. PICK p \in SeekTo(q.st, target) :
            st' = p.st /\ Returning("cseek", <<base, off>>, p.ret)
      BY <2>2, <2>5 DEF Call, CseekFrom
    <3>2. target \in Nat
      <4>1. /\ q.ret \in Int /\ off \in Int
            /\ Rec \in Nat /\ Rec > 0 /\ Records \in Nat /\ Records > 0
        BY <2>3, <2>5, ConstantTypes
      <4>2. (((q.ret \div Rec) + off) % Records) \in Nat
        BY <4>1
      <4>. QED BY <4>1, <4>2
    <3>3. ~q.st.spoiled => target = Target(Stream!Origin(base))
      BY <2>3
    <3> HIDE DEF target
    <3>4. /\ Good(p.st) /\ p.st.errbit = q.st.errbit /\ p.st.mode = q.st.mode
          /\ q.st.spoiled => p.st.spoiled
          /\ ~p.st.spoiled =>
                /\ ~q.st.spoiled /\ View(p.st) = View(q.st)
                /\ p.ret = 0 /\ target >= 0 /\ Pos(p.st) = target
                /\ p.st.nextc = EOF /\ p.st.eofbit = FALSE
      <4>1. target \in Int /\ ~(target < 0)
        BY <3>2
      <4>2. /\ Good(p.st) /\ p.st.errbit = q.st.errbit /\ p.st.mode = q.st.mode
            /\ q.st.spoiled => p.st.spoiled
            /\ ~p.st.spoiled =>
                  /\ ~q.st.spoiled /\ View(p.st) = View(q.st)
                  /\ \/ /\ p.ret = 0 /\ target >= 0 /\ Pos(p.st) = target
                        /\ p.st.nextc = EOF /\ p.st.eofbit = FALSE
                     \/ /\ p.ret = EOF /\ target < 0 /\ Pos(p.st) = Pos(q.st)
                        /\ p.st.nextc = q.st.nextc /\ p.st.eofbit = q.st.eofbit
        BY <2>3, <3>1, <4>1, SeekGood
      <4>. QED BY <4>1, <4>2
    <3>5. Inv'
      BY <1>0, <2>3, <3>1, <3>4 DEF Inv
    <3>6. ~st'.spoiled => ~st.spoiled /\ Stream!Seek("cseek", <<base, off>>, Target(Stream!Origin(base)))
      BY <2>3, <3>1, <3>3, <3>4 DEF Stream!Seek, Stream!Returns, Returning, IsOpen
    <3>. QED BY <2>3, <3>1, <3>4, <3>5, <3>6 DEF Stream!Seeks
  <2>. QED BY <2>4, <2>5
<1>. QED BY <1>2, <1>3

LEMMA FcloseStep ==
    ASSUME Inv, Fclose
    PROVE  Inv' /\ (st'.spoiled \/ (~st.spoiled /\ Stream!Close))
<1>1. PICK o \in Flush(st) :
        IF o.ret # 0 THEN st' = o.st ELSE Call("fclose", EOF, Closed(o.st))
  BY DEF Fclose
<1>2. /\ Good(o.st) /\ SameCaller(st, o.st)
      /\ o.ret = 0 => /\ o.st.use = "empty" /\ o.st.spoiled = st.spoiled
                      /\ o.st.errbit = st.errbit /\ o.st.file = View(st)
      /\ o.ret # 0 => o.st.spoiled
  BY <1>1, FlushGood DEF Inv
<1>3. CASE o.ret # 0
  BY <1>1, <1>2, <1>3 DEF Inv, SameCaller, Fclose, IsOpen
<1>4. CASE o.ret = 0
  <2>1. PICK q \in Closed(o.st) : st' = q.st /\ Returning("fclose", EOF, q.ret)
    BY <1>1, <1>4 DEF Call
  <2>2. CASE q = Ret([o.st EXCEPT !.spoiled = TRUE], -2)
    <3>1. st' = [o.st EXCEPT !.spoiled = TRUE]
      BY <2>1, <2>2 DEF Ret
    <3>. QED BY <1>2, <1>4, <3>1, SpoilGood DEF Inv, SameCaller, Fclose, IsOpen
  <2>3. CASE q = Ret([o.st EXCEPT !.mode = None], 0)
    <3> DEFINE t == [o.st EXCEPT !.mode = None]
    <3>1. IsStream(t)
      BY <1>2 DEF Good, IsStream
    <3>2. /\ t.file = o.st.file /\ t.dpos = o.st.dpos /\ t.use = o.st.use /\ t.buf = o.st.buf
          /\ t.nxt = o.st.nxt /\ t.end = o.st.end /\ t.beof = o.st.beof
          /\ t.spoiled = o.st.spoiled /\ t.errbit = o.st.errbit /\ t.eofbit = o.st.eofbit
          /\ t.nextc = o.st.nextc /\ t.mode = None
      BY <1>2 DEF Good, IsStream
    <3>3. st' = t /\ Returning("fclose", EOF, 0)
      BY <2>1, <2>3 DEF Ret
    <3> HIDE DEF t
    <3>4. Good(t) /\ View(t) = View(o.st)
      BY <1>2, <3>1, <3>2, SkipGood DEF SameView
    <3>5. View(o.st) = View(st)
      BY <1>2, <1>4 DEF View
    <3>6. Inv'
      BY <1>2, <1>4, <3>2, <3>3, <3>4 DEF Inv
    <3>7. ~st'.spoiled => ~st.spoiled /\ Stream!Close
      BY <1>2, <1>4, <3>2, <3>3, <3>4, <3>5
      DEF Stream!Close, Stream!Returns, Returning, SameCaller, IsOpen
    <3>. QED BY <3>6, <3>7
  <2>. QED BY <2>1, <2>2, <2>3 DEF Closed
<1>. QED BY <1>3, <1>4

(* Replacing a buffer with nothing in it is harmless.                      *)
LEMMA AuxbufStep ==
    ASSUME Inv, NEW size \in Sizes, Auxbuf(size)
    PROVE  Inv' /\ st'.mode = st.mode /\ (st'.spoiled \/ (~st.spoiled /\ Stream!Quiet))
<1>1. /\ st' = [st EXCEPT !.buf = <<>>, !.nxt = 0, !.end = 0, !.beof = FALSE,
                          !.siz = size, !.spoiled = st.spoiled \/ Busy(st)]
      /\ res'.op = "auxbuf"
  BY DEF Auxbuf, Empty, Returning
<1>2. IsStream(st)
  BY DEF Inv, Good
<1>3. IsStream(st')
  BY <1>1, <1>2 DEF IsStream, Busy
<1>4. /\ st'.file = st.file /\ st'.dpos = st.dpos /\ st'.use = st.use /\ st'.buf = <<>>
      /\ st'.nxt = 0 /\ st'.end = 0 /\ st'.beof = FALSE
      /\ (st'.spoiled <=> st.spoiled \/ st.nxt # st.end)
      /\ st'.errbit = st.errbit /\ st'.eofbit = st.eofbit
      /\ st'.nextc = st.nextc /\ st'.mode = st.mode
  BY <1>1, <1>2 DEF IsStream, Busy
<1>5. st'.dpos \in Nat
  BY <1>3 DEF IsStream
<1>6. Good(st')
  BY <1>3, <1>4, <1>5 DEF Good, Coherent
<1>7. ~st'.spoiled => View(st') = View(st) /\ Pos(st') = Pos(st)
  <2>1. SUFFICES ASSUME ~st'.spoiled PROVE View(st') = View(st) /\ Pos(st') = Pos(st)
    OBVIOUS
  <2>2. st.nxt = st.end /\ ~st.spoiled
    BY <1>4, <2>1
  <2>3. st.use = "out" => Len(st.buf) = 0 /\ st.nxt = 0
    BY <2>2 DEF Inv, Good, Coherent
  <2>4. st.dpos \in Nat /\ st.nxt \in Nat /\ st.end \in Int
    BY <1>2, StreamTypes
  <2>5. View(st') = View(st)
    BY <1>4, <2>3 DEF View, Overlay
  <2>6. Pos(st') = Pos(st)
    BY <1>4, <2>2, <2>3, <2>4 DEF Pos
  <2>. QED BY <2>5, <2>6
<1>8. Inv'
  BY <1>4, <1>6 DEF Inv
<1>9. ~st'.spoiled => ~st.spoiled /\ Stream!Quiet
  BY <1>1, <1>4, <1>7 DEF Stream!Quiet, IsOpen
<1>. QED BY <1>4, <1>8, <1>9

LEMMA ClearerrStep ==
    ASSUME Inv, Clearerr
    PROVE  Inv' /\ st'.mode = st.mode /\ (st'.spoiled \/ (~st.spoiled /\ Stream!Quiet))
<1>1. st' = [st EXCEPT !.errbit = FALSE] /\ res'.op = "clearerr"
  BY DEF Clearerr, Returning
<1>2. IsStream(st) /\ Good(st)
  BY DEF Inv, Good
<1>3. IsStream(st')
  BY <1>1, <1>2 DEF IsStream
<1>4. /\ st'.file = st.file /\ st'.dpos = st.dpos /\ st'.use = st.use /\ st'.buf = st.buf
      /\ st'.nxt = st.nxt /\ st'.end = st.end /\ st'.beof = st.beof
      /\ st'.spoiled = st.spoiled /\ st'.errbit = FALSE /\ st'.eofbit = st.eofbit
      /\ st'.nextc = st.nextc /\ st'.mode = st.mode
  BY <1>1, <1>2 DEF IsStream
<1>5. Good(st') /\ SameView(st, st')
  BY <1>2, <1>3, <1>4, SkipGood
<1>6. Inv'
  BY <1>4, <1>5 DEF Inv
<1>7. ~st'.spoiled => ~st.spoiled /\ Stream!Quiet
  BY <1>1, <1>4, <1>5 DEF Stream!Quiet, SameView, IsOpen
<1>. QED BY <1>4, <1>6, <1>7

(* Opening and creating.                                                   *)
LEMMA OpenedGood ==
    ASSUME NEW s, IsStream(s), NEW m \in Modes, NEW f \in Seq(Byte), NEW p \in Nat,
           NEW o, o = Opened(s, m, f, p)
    PROVE  /\ Good(o.st) /\ o.ret = 1 /\ o.st.mode = m /\ m # None
           /\ ~o.st.errbit /\ ~o.st.eofbit /\ o.st.nextc = EOF
           /\ (o.st.spoiled <=> Appends(m) /\ f # s.file)
           /\ View(o.st) = f /\ Pos(o.st) = p
<1> DEFINE e == Emptied(s)
           t == [e EXCEPT !.file = f, !.exists = TRUE, !.dpos = p, !.mode = m,
                          !.nextc = EOF, !.eofbit = FALSE, !.errbit = FALSE,
                          !.spoiled = Appends(m) /\ f # s.file]
<1>1. o.st = t /\ o.ret = 1
  BY DEF Opened, Ret
<1>2. IsStream(e) /\ e.use = "empty" /\ Coherent(e)
  BY EmptiedGood DEF Good
<1> HIDE DEF e
<1>3. IsStream(t)
  BY <1>2 DEF IsStream, Appends
<1>4. /\ t.file = f /\ t.dpos = p /\ t.mode = m /\ t.nextc = EOF
      /\ ~t.eofbit /\ ~t.errbit
      /\ (t.spoiled <=> Appends(m) /\ f # s.file)
      /\ t.use = "empty" /\ t.buf = e.buf /\ t.nxt = e.nxt /\ t.end = e.end /\ t.beof = e.beof
  BY <1>2 DEF IsStream, Appends
<1> HIDE DEF t
<1>5. Good(t) /\ View(t) = f /\ Pos(t) = p
  BY <1>2, <1>3, <1>4 DEF Good, Coherent, View, Pos
<1>6. m # None
  BY DEF Modes, None
<1>. QED BY <1>1, <1>4, <1>5, <1>6

LEMMA FopenStep ==
    ASSUME Inv, NEW m \in Modes, Fopen(m)
    PROVE  Inv' /\ \/ st'.spoiled
                   \/ Stream!Open(m)
                   \/ ~st.spoiled /\ Stream!CannotOpen(m)
<1>1. st.mode = None /\ IsStream(st) /\ Good(st) /\ View(st) = st.file
  BY DEF Fopen, IsOpen, Inv, Good, View
<1>2. PICK o \in OpenFile(st, m) : st' = o.st /\ Returning("fopen", m, o.ret)
  BY DEF Fopen, Call
<1>3. <<>> \in Seq(Byte) /\ st.file \in Seq(Byte) /\ Len(st.file) \in Nat /\ Len(<<>>) = 0
  BY <1>1, StreamTypes
<1>4. \/ o = Opened(st, m, <<>>, 0) /\ m \notin {"r", "r+"}
      \/ o = Opened(st, m, st.file, IF Appends(m) THEN Len(st.file) ELSE 0) /\ m \notin {"w", "w+"}
      \/ o = Refused(st)
      \/ o = Refused([st EXCEPT !.file = <<>>, !.exists = TRUE, !.spoiled = TRUE])
  BY <1>2 DEF OpenFile, Create, Appends, Modes
<1>5. ASSUME NEW f \in Seq(Byte), NEW p \in Nat, o = Opened(st, m, f, p),
             \/ f = <<>> /\ p = 0 /\ m \notin {"r", "r+"}
             \/ f = st.file /\ p = (IF Appends(m) THEN Len(st.file) ELSE 0) /\ m \notin {"w", "w+"}
      PROVE  Inv' /\ (st'.spoiled \/ Stream!Open(m))
  <2>1. /\ Good(o.st) /\ o.ret = 1 /\ o.st.mode = m /\ m # None
        /\ ~o.st.errbit /\ ~o.st.eofbit /\ o.st.nextc = EOF
        /\ (o.st.spoiled <=> Appends(m) /\ f # st.file)
        /\ View(o.st) = f /\ Pos(o.st) = p
    BY <1>1, <1>5, OpenedGood
  <2>7. st'.eofbit = FALSE
    BY <1>2, <2>1 DEF Good, IsStream
  <2>2. Inv'
    BY <1>2, <2>1 DEF Inv
  <2>3. m \in {"w", "w+"} => f = <<>>
    BY <1>5
  <2>4. ~st'.spoiled => m \in {"w", "w+"} \/ f = st.file
    <3>1. m \in {"w", "w+"} \/ m \in {"r", "r+"} \/ Appends(m)
      BY DEF Appends, Modes
    <3>2. ~st'.spoiled => ~Appends(m) \/ f = st.file
      BY <1>2, <2>1
    <3>. QED BY <1>5, <3>1, <3>2
  <2>5. ~st'.spoiled => p = IF m \in {"a", "a+"} THEN Len(f) ELSE 0
    BY <1>2, <1>3, <1>5, <2>1 DEF Appends
  <2>6. ~st'.spoiled => Stream!Open(m)
    BY <1>1, <1>2, <2>1, <2>3, <2>4, <2>5, <2>7 DEF Stream!Open, Stream!Returns, Returning, IsOpen
  <2>. QED BY <2>2, <2>6
<1>6. CASE o = Refused(st)
  <2>1. st' = st /\ o.ret = 0
    BY <1>2, <1>6 DEF Refused, Ret
  <2>2. Inv'
    BY <2>1 DEF Inv
  <2>3. Stream!CannotOpen(m)
    BY <1>1, <1>2, <2>1 DEF Stream!CannotOpen, Stream!Returns, Returning, IsOpen
  <2>4. ~st'.spoiled => ~st.spoiled
    BY <2>1
  <2>. QED BY <2>2, <2>3, <2>4
<1>7. CASE o = Refused([st EXCEPT !.file = <<>>, !.exists = TRUE, !.spoiled = TRUE])
  <2>1. st' = [st EXCEPT !.file = <<>>, !.exists = TRUE, !.spoiled = TRUE]
    BY <1>2, <1>7 DEF Refused, Ret
  <2>2. IsStream(st')
    BY <1>1, <1>3, <2>1 DEF IsStream
  <2>3. /\ st'.use = "empty" /\ st'.spoiled = TRUE /\ st'.buf = st.buf
        /\ st'.nxt = st.nxt /\ st'.end = st.end /\ st'.beof = st.beof
    BY <1>1, <2>1 DEF IsStream, Inv
  <2>4. Good(st')
    BY <1>1, <2>2, <2>3 DEF Good, Coherent, Inv
  <2>. QED BY <2>3, <2>4 DEF Inv
<1>8. 0 \in Nat /\ (IF Appends(m) THEN Len(st.file) ELSE 0) \in Nat
  BY <1>3
<1>. QED BY <1>3, <1>4, <1>5, <1>6, <1>7, <1>8

-----------------------------------------------------------------------------
LEMMA InitInv ==
    ASSUME Init
    PROVE  Inv
<1>1. PICK f \in Seq(Byte) : st = Fresh(f) \/ st = [Fresh(<<>>) EXCEPT !.exists = FALSE]
  <2>1. <<>> \in Seq(Byte) /\ \A n \in 0 .. Disk : [1 .. n -> Byte] \subseteq Seq(Byte)
    BY ConstantTypes
  <2>2. CASE st = [Fresh(<<>>) EXCEPT !.exists = FALSE]
    BY <2>1, <2>2
  <2>3. CASE \E f \in UNION {[1 .. n -> Byte] : n \in 0 .. Disk} : st = Fresh(f)
    BY <2>1, <2>3
  <2>. QED BY <2>2, <2>3 DEF Init
<1>6. <<>> \in Seq(Byte)
  OBVIOUS
<1>2. \A g \in Seq(Byte) : IsStream(Fresh(g))
  <2>1. (CHOOSE n \in Sizes : TRUE) \in Sizes
    BY ConstantTypes
  <2>. QED BY <2>1 DEF Fresh, IsStream
<1>3. \A g : /\ Fresh(g).use = "empty" /\ Fresh(g).nxt = 0 /\ Fresh(g).end = 0
              /\ Fresh(g).buf = <<>> /\ Fresh(g).beof = FALSE /\ Fresh(g).errbit = FALSE
  BY DEF Fresh
<1>4. CASE st = Fresh(f)
  BY <1>2, <1>3, <1>4 DEF Inv, Good, Coherent
<1>5. CASE st = [Fresh(<<>>) EXCEPT !.exists = FALSE]
  <2>1. IsStream(Fresh(<<>>))
    BY <1>2, <1>6, Zenon
  <2> DEFINE e == Fresh(<<>>)
  <2>2. st = [e EXCEPT !.exists = FALSE] /\ IsStream(e)
    BY <1>5, <2>1
  <2>3. /\ e.use = "empty" /\ e.nxt = 0 /\ e.end = 0
        /\ e.buf = <<>> /\ e.beof = FALSE /\ e.errbit = FALSE
    BY <1>3
  <2> HIDE DEF e
  <2>4. IsStream(st)
    BY <2>2 DEF IsStream
  <2>5. /\ st.use = "empty" /\ st.nxt = 0 /\ st.end = 0
        /\ st.buf = <<>> /\ st.beof = FALSE /\ st.errbit = FALSE
    BY <2>2, <2>3 DEF IsStream
  <2>. QED BY <2>4, <2>5 DEF Inv, Good, Coherent
<1>. QED BY <1>1, <1>4, <1>5

(* Every step keeps Inv; where no byte is 0FFh it is a step of ByteStream. *)
LEMMA StepInv ==
    ASSUME Inv, [Next]_vars
    PROVE  Inv' /\ (FF \notin Byte => [Stream!Next]_(Stream!vars))
<1>1. CASE Read
  BY <1>1, ReadInv, ReadStep DEF Stream!Next, Stream!Calls
<1>2. ASSUME NEW b \in Byte, Write(b)
      PROVE  Inv' /\ Stream!Next
  BY <1>2, WriteStep DEF Stream!Next, Stream!Calls
<1>3. CASE Fgetc
  BY <1>3, FgetcInv, FgetcStep DEF Stream!Next, Stream!Calls
<1>4. ASSUME NEW c \in (Byte \ {FF}) \cup {EOF}, Fputc(c)
      PROVE  Inv' /\ Stream!Next
  BY <1>4, FputcStep DEF PutsText, Stream!Next, Stream!Calls
<1>5. ASSUME NEW c \in PushBack, Ungetc(c)
      PROVE  Inv' /\ Stream!Next
  BY <1>5, UngetcStep, ConstantTypes DEF Stream!Next, Stream!Calls
<1>6. CASE Fflush
  BY <1>6, FflushStep DEF Stream!Next, Stream!Calls
<1>7. ASSUME NEW base \in 0 .. 2, NEW off \in Offsets, Bseek(base, off) \/ Cseek(base, off)
      PROVE  Inv' /\ Stream!Next
  BY <1>7, BseekStep, CseekStep DEF Stream!Next, Stream!Calls
<1>8. CASE Btell
  BY <1>8, BtellStep DEF Stream!Next, Stream!Calls
<1>9. CASE Fclose
  BY <1>9, FcloseStep DEF Stream!Next, Stream!Calls
<1>10. ASSUME NEW size \in Sizes, Auxbuf(size)
       PROVE  Inv' /\ Stream!Next
  BY <1>10, AuxbufStep DEF Stream!Next, Stream!Calls
<1>11. CASE Clearerr
  BY <1>11, ClearerrStep DEF Stream!Next, Stream!Calls
<1>12. ASSUME NEW m \in Modes, Fopen(m)
       PROVE  Inv' /\ Stream!Next
  BY <1>12, FopenStep DEF Stream!Next, Stream!Calls
<1>13. CASE UNCHANGED vars
  <2>1. st' = st /\ res' = res
    BY <1>13 DEF vars
  <2>2. Inv'
    BY <2>1 DEF Inv
  <2>3. UNCHANGED Stream!vars
    BY <2>1 DEF Stream!vars, IsOpen
  <2>. QED BY <2>2, <2>3
<1>. QED
  BY <1>1, <1>2, <1>3, <1>4, <1>5, <1>6, <1>7, <1>8, <1>9, <1>10, <1>11, <1>12, <1>13
  DEF Next, BinaryNext, TextNext, Common

(* What the calls do to output that waits in the buffer, also after        *)
(* failures.  A byte put through a full buffer keeps the ones before it.   *)
LEMMA WriteOut ==
    ASSUME NEW s, Good(s), s.use = "out", NEW b \in Byte, NEW o \in WriteBuf(s, b)
    PROVE  /\ Good(o.st) /\ o.st.use = "out"
           /\ ~o.st.errbit =>
                 /\ ~s.errbit
                 /\ View(o.st) = Overlay(View(s), Pos(s), <<b>>) /\ Pos(o.st) = Pos(s) + 1
<1>1. o \in IF s.nxt < s.siz THEN {Store(s, b)}
            ELSE {IF f.ret # 0 THEN Ret(f.st, EOF) ELSE Store(f.st, b) : f \in Flush(s)}
  BY ConstantTypes DEF WriteBuf, Ret
<1>2. CASE s.nxt < s.siz
  <2>1. o = Store(s, b)
    BY <1>1, <1>2
  <2>. QED BY <2>1, StoreGood DEF Output
<1>3. CASE ~(s.nxt < s.siz)
  <2>1. PICK f \in Flush(s) : o = IF f.ret # 0 THEN Ret(f.st, EOF) ELSE Store(f.st, b)
    BY <1>1, <1>3
  <2>2. CASE f.ret # 0
    <3>1. o.st = f.st
      BY <2>1, <2>2 DEF Ret
    <3>. QED BY <2>2, <3>1, FlushGood
  <2>3. CASE f.ret = 0
    <3>1. o = Store(f.st, b)
      BY <2>1, <2>3
    <3>2. Good(f.st) /\ f.st.use = "empty" /\ f.st.errbit = s.errbit /\ SameView(s, f.st)
      BY <2>3, FlushGood
    <3>. QED BY <3>1, <3>2, StoreGood DEF Output, SameView
  <2>. QED BY <2>2, <2>3
<1>. QED BY <1>2, <1>3

(* Input from a stream with nothing to be written leaves its file alone.   *)
LEMMA ReadIdle ==
    ASSUME NEW s, Good(s), s.use # "out", NEW o \in ReadBuf(s)
    PROVE  Good(o.st) /\ o.st.use # "out" /\ o.st.file = s.file
<1>0. s.nxt \in Nat /\ s.end \in Int
  BY StreamTypes DEF Good
<1>1. o \in IF s.nxt < s.end \/ s.beof THEN {Take(s)} ELSE {Take(f) : f \in Fill(s)}
  BY DEF ReadBuf, Ret
<1>2. ASSUME NEW f, Good(f), f.use # "out"
      PROVE  Take(f).st.use = f.use /\ Take(f).st.file = f.file
  BY <1>2 DEF Take, Ret, Good, IsStream
<1>3. Good(o.st)
  BY ReadBufGood DEF Input
<1>4. CASE s.nxt < s.end \/ s.beof
  BY <1>1, <1>2, <1>3, <1>4
<1>5. CASE ~(s.nxt < s.end \/ s.beof)
  <2>1. PICK f \in Fill(s) : o = Take(f)
    BY <1>1, <1>5
  <2>2. Good(f) /\ f.use = "in" /\ f.file = s.file
    BY <1>0, <1>5, FillGood
  <2>. QED BY <1>2, <1>3, <2>1, <2>2
<1>. QED BY <1>4, <1>5

LEMMA ReadOut ==
    ASSUME NEW s, Good(s), s.use = "out", NEW o \in ReadBuf(s), o.ret # EOF
    PROVE  Good(o.st) /\ o.st.use # "out" /\ o.st.file = View(s)
<1>1. PICK q \in Flush(s) :
        o \in IF q.ret # 0 THEN {Ret(q.st, EOF)}
              ELSE IF q.st.nxt < q.st.end \/ q.st.beof THEN {Take(q.st)}
              ELSE {Take(f) : f \in Fill(q.st)}
  BY DEF ReadBuf
<1>2. q.ret = 0
  BY <1>1 DEF Ret
<1>3. Good(q.st) /\ q.st.use = "empty" /\ q.st.file = View(s)
  BY <1>2, FlushGood
<1>4. o \in ReadBuf(q.st)
  BY <1>1, <1>2, <1>3 DEF ReadBuf, Ret
<1>. QED BY <1>3, <1>4, ReadIdle

(* One byte of input, pushed back or not.                                  *)
LEMMA PopView ==
    ASSUME NEW s, Good(s), NEW t, t = [s EXCEPT !.nextc = EOF]
    PROVE  Good(t) /\ t.use = s.use /\ View(t) = View(s)
<1>1. IsStream(t)
  BY DEF Good, IsStream
<1>2. /\ t.file = s.file /\ t.dpos = s.dpos /\ t.use = s.use /\ t.buf = s.buf
      /\ t.nxt = s.nxt /\ t.end = s.end /\ t.beof = s.beof /\ t.spoiled = s.spoiled
  BY DEF Good, IsStream
<1>. QED BY <1>1, <1>2, SkipGood DEF SameView

LEMMA ReadKeeps ==
    ASSUME NEW s, Good(s), NEW o \in ReadByte(s), s.use = "out" => o.ret # EOF
    PROVE  Good(o.st) /\ View(o.st) = View(s) /\ (s.use # "out" => o.st.use # "out")
<1>1. CASE s.nextc # EOF
  <2>1. o.st = [s EXCEPT !.nextc = EOF]
    BY <1>1 DEF ReadByte, Ret
  <2>. QED BY <2>1, PopView
<1>2. CASE s.nextc = EOF
  <2>1. o \in ReadBuf(s)
    BY <1>2 DEF ReadByte
  <2>. QED BY <2>1, ReadIdle, ReadOut DEF View
<1>. QED BY <1>1, <1>2

LEMMA FgetcKeeps ==
    ASSUME Inv, Fgetc, st.use = "out", res'.ret # EOF
    PROVE  View(st') = View(st)
<1>1. PICK o \in GetC(st) : st' = o.st /\ Returning("fgetc", EOF, o.ret)
  BY DEF Fgetc, Call
<1>2. o.ret # EOF
  BY <1>1 DEF Returning
<1>3. Good(st) /\ CR # EOF /\ CtrlZ # EOF
  BY ConstantTypes DEF Inv
<1>4. CASE st.nextc # EOF
  <2>1. o.st = [st EXCEPT !.nextc = EOF]
    BY <1>1, <1>4 DEF GetC, Ret
  <2>. QED BY <1>1, <1>3, <2>1, PopView
<1>5. CASE st.nextc = EOF
  <2>1. PICK q \in ReadBuf(st) : o \in Cook(q)
    BY <1>1, <1>5 DEF GetC
  <2>2. q.ret # CtrlZ /\ q.ret # EOF
    BY <1>2, <1>3, <2>1 DEF Cook, Ret
  <2>3. Good(q.st) /\ q.st.use # "out" /\ q.st.file = View(st)
    BY <1>3, <2>1, <2>2, ReadOut
  <2>4. CASE q.ret # CR
    <3>1. o = q
      BY <2>1, <2>2, <2>4 DEF Cook
    <3>. QED BY <1>1, <2>3, <3>1 DEF View
  <2>5. CASE q.ret = CR
    <3>1. PICK p \in ReadByte(q.st) :
            o = Ret(IF p.ret = LF THEN p.st ELSE [p.st EXCEPT !.nextc = p.ret], LF)
      BY <2>1, <2>2, <2>5 DEF Cook
    <3>2. Good(p.st) /\ View(p.st) = View(q.st)
      BY <2>3, <3>1, ReadKeeps
    <3>3. View(o.st) = View(p.st)
      BY <3>1, <3>2 DEF Ret, View, Good, IsStream
    <3>. QED BY <1>1, <2>3, <3>2, <3>3 DEF View
  <2>. QED BY <2>4, <2>5
<1>. QED BY <1>4, <1>5

(* A seek of a stream with an idle buffer leaves the file alone.           *)
LEMMA SeekKeeps ==
    ASSUME NEW s, Good(s), s.use = "empty", NEW target, NEW o \in SeekTo(s, target)
    PROVE  View(o.st) = View(s)
<1>1. PICK p \in Reached(target) :
        o = IF p = EOF THEN Ret([s EXCEPT !.spoiled = s.spoiled \/ target >= 0], EOF)
            ELSE Ret([s EXCEPT !.dpos = p, !.nextc = EOF, !.eofbit = FALSE], 0)
  BY DEF SeekTo
<1>2. \/ o.st = [s EXCEPT !.spoiled = s.spoiled \/ target >= 0]
      \/ o.st = [s EXCEPT !.dpos = p, !.nextc = EOF, !.eofbit = FALSE]
  BY <1>1 DEF Ret
<1>3. IsStream(s)
  BY DEF Good
<1>4. o.st.use = s.use /\ o.st.file = s.file
  BY <1>2, <1>3 DEF IsStream
<1>. QED BY <1>4 DEF View

(* All the other calls.                                                    *)
LEMMA CallKeeps ==
    ASSUME Inv, st.use = "out", res'.ret \notin {EOF, -2},
           \/ Read \/ Fgetc \/ Fflush \/ Btell \/ Fclose \/ Clearerr
           \/ \E c \in PushBack : Ungetc(c)
           \/ \E base \in 0 .. 2, off \in Offsets : Bseek(base, off) \/ Cseek(base, off)
    PROVE  View(st') = View(st) /\ Given(res') = <<>>
<1>0. Good(st) /\ IsStream(st) /\ EOF # 0 /\ res'.ret # EOF
  BY ConstantTypes DEF Inv, Good
<1>1. CASE Read
  <2>1. PICK o \in ReadByte(st) : st' = o.st /\ res'.ret = o.ret /\ res'.op = "read"
    BY <1>1 DEF Read
  <2>. QED BY <1>0, <2>1, ReadKeeps DEF Given
<1>2. CASE Fgetc
  <2>1. res'.op = "fgetc"
    BY <1>2 DEF Fgetc, Call, Returning
  <2>. QED BY <1>0, <1>2, <2>1, FgetcKeeps DEF Given
<1>3. CASE Fflush
  <2>1. PICK o \in Flush(st) : st' = o.st /\ res'.op = "fflush" /\ res'.ret = o.ret
    BY <1>3 DEF Fflush, Call, Returning
  <2>. QED BY <1>0, <2>1, FlushGood DEF SameView, Given
<1>4. ASSUME NEW o \in Flush(st), o.ret = 0
      PROVE  Good(o.st) /\ o.st.use = "empty" /\ o.st.file = View(st) /\ View(o.st) = View(st)
  BY <1>0, <1>4, FlushGood DEF View
<1>5. CASE Btell
  <2>1. PICK o \in Flush(st) :
          /\ res'.op = "btell"
          /\ IF o.ret # 0 THEN res'.ret = EOF ELSE \E q \in Told(o.st) : st' = q.st
    BY <1>5 DEF Btell, Adjust, Call, Returning
  <2>2. o.ret = 0
    BY <1>0, <2>1
  <2>3. PICK q \in Told(o.st) : st' = q.st
    BY <2>1, <2>2
  <2>. QED BY <1>4, <2>1, <2>2, <2>3, ToldGood DEF View, Given
<1>6. CASE Fclose
  <2>1. PICK o \in Flush(st) :
          /\ res'.op = "fclose"
          /\ IF o.ret # 0 THEN res'.ret = -2
             ELSE \E q \in Closed(o.st) : st' = q.st /\ res'.ret = q.ret
    BY <1>6 DEF Fclose, Call, Returning
  <2>2. o.ret = 0
    BY <2>1
  <2>3. PICK q \in Closed(o.st) : st' = q.st /\ res'.ret = q.ret
    BY <2>1, <2>2
  <2>4. st' = [o.st EXCEPT !.mode = None]
    BY <2>3 DEF Closed, Ret
  <2>5. View(st') = View(o.st)
    BY <1>4, <2>2, <2>4 DEF View, Good, IsStream
  <2>. QED BY <1>4, <2>1, <2>2, <2>5 DEF Given
<1>7. CASE Clearerr
  <2>1. st' = [st EXCEPT !.errbit = FALSE] /\ res'.op = "clearerr"
    BY <1>7 DEF Clearerr, Returning
  <2>. QED BY <1>0, <2>1 DEF View, IsStream, Given
<1>8. ASSUME NEW c \in PushBack, Ungetc(c)
      PROVE  View(st') = View(st) /\ Given(res') = <<>>
  <2>1. (st' = st \/ st' = [st EXCEPT !.nextc = c]) /\ res'.op = "ungetc"
    BY <1>8 DEF Ungetc, Returning
  <2>. QED BY <1>0, <2>1 DEF View, IsStream, Given
<1>9. ASSUME NEW base \in 0 .. 2, NEW off \in Offsets, Bseek(base, off)
      PROVE  View(st') = View(st) /\ Given(res') = <<>>
  <2>1. PICK o \in Flush(st) :
          /\ res'.op = "bseek"
          /\ IF o.ret # 0 THEN res'.ret = EOF
             ELSE \E p \in SeekTo(o.st, Origin(o.st, base) + off) : st' = p.st
    BY <1>9 DEF Bseek, Adjust, Call, Returning
  <2>2. o.ret = 0
    BY <1>0, <2>1
  <2>3. PICK p \in SeekTo(o.st, Origin(o.st, base) + off) : st' = p.st
    BY <2>1, <2>2
  <2>. QED BY <1>4, <2>1, <2>2, <2>3, SeekKeeps DEF Given
<1>10. ASSUME NEW base \in 0 .. 2, NEW off \in Offsets, Cseek(base, off)
       PROVE  View(st') = View(st) /\ Given(res') = <<>>
  <2>1. PICK o \in Flush(st) :
          /\ res'.op = "cseek"
          /\ IF o.ret # 0 THEN res'.ret = EOF
             ELSE \E q \in Found(o.st, base) :
                     IF q.ret = EOF THEN res'.ret = EOF
                     ELSE \E target : \E p \in SeekTo(q.st, target) : st' = p.st
    BY <1>10 DEF Cseek, CseekFrom, Adjust, Call, Returning
  <2>2. o.ret = 0
    BY <1>0, <2>1
  <2>3. PICK q \in Found(o.st, base) :
          IF q.ret = EOF THEN res'.ret = EOF
          ELSE \E target : \E p \in SeekTo(q.st, target) : st' = p.st
    BY <2>1, <2>2
  <2>4. PICK target : \E p \in SeekTo(q.st, target) : st' = p.st
    BY <1>0, <2>3
  <2>5. Good(q.st) /\ q.st.use = "empty" /\ q.st.file = o.st.file
    BY <1>4, <2>2, FoundGood
  <2>6. View(st') = View(q.st)
    BY <2>4, <2>5, SeekKeeps
  <2>. QED BY <1>4, <2>1, <2>2, <2>5, <2>6 DEF View, Given
<1>. QED BY <1>1, <1>2, <1>3, <1>5, <1>6, <1>7, <1>8, <1>9, <1>10

LEMMA SuccessKeeps ==
    ASSUME Inv, Next, st.use = "out", res'.op # "auxbuf", res'.ret \notin {EOF, -2}
    PROVE  View(st') = Overlay(View(st), Pos(st), Given(res'))
<1>0. Good(st) /\ st.mode # None /\ View(st) \in Seq(Byte) /\ Pos(st) \in Nat
  BY ViewType, StreamTypes DEF Inv, Good, Pos
<1>1. ASSUME NEW b \in Byte, Write(b)
      PROVE  View(st') = Overlay(View(st), Pos(st), Given(res'))
  <2>1. PICK o \in WriteBuf(st, b) : st' = o.st /\ Returning("write", b, Reported(o.st, b))
    BY <1>1 DEF Write
  <2>2. ~o.st.errbit /\ Given(res') = <<b>>
    BY <2>1 DEF Returning, Reported, Given
  <2>. QED BY <1>0, <2>1, <2>2, WriteOut
<1>2. ASSUME NEW c \in (Byte \ {FF}) \cup {EOF}, Fputc(c)
      PROVE  View(st') = Overlay(View(st), Pos(st), Given(res'))
  <2>1. PICK o \in PutC(st, c) : st' = o.st /\ Returning("fputc", c, Reported(o.st, c))
    BY <1>2 DEF Fputc
  <2>2. ~o.st.errbit /\ c # EOF /\ Given(res') = IF c = LF THEN <<CR, LF>> ELSE <<c>>
    <3>1. res'.op = "fputc" /\ res'.arg = c /\ res'.ret = Reported(o.st, c) /\ res'.ret # EOF
      BY <2>1 DEF Returning
    <3>2. ~o.st.errbit /\ c # EOF
      BY <3>1 DEF Reported
    <3>3. CASE c = LF
      BY <3>1, <3>2, <3>3 DEF Given
    <3>4. CASE c # LF
      BY <3>1, <3>2, <3>4 DEF Given
    <3>. QED BY <3>2, <3>3, <3>4
  <2>3. CASE c = LF
    <3>1. PICK q \in WriteBuf(st, CR) : o \in WriteBuf(q.st, LF)
      BY <2>1, <2>3 DEF PutC
    <3>2. /\ Good(q.st) /\ q.st.use = "out"
          /\ ~q.st.errbit => View(q.st) = Overlay(View(st), Pos(st), <<CR>>) /\ Pos(q.st) = Pos(st) + 1
      BY <1>0, <3>1, WriteOut, ConstantTypes
    <3>3. ~q.st.errbit /\ View(o.st) = Overlay(View(q.st), Pos(q.st), <<LF>>)
      BY <2>2, <3>1, <3>2, WriteOut, ConstantTypes
    <3>. QED BY <1>0, <2>1, <2>2, <2>3, <3>2, <3>3, CrLf
  <2>4. CASE c # LF
    <3>1. c \in Byte /\ o \in WriteBuf(st, c)
      BY <2>1, <2>2, <2>4 DEF PutC
    <3>. QED BY <1>0, <2>1, <2>2, <2>4, <3>1, WriteOut
  <2>. QED BY <2>3, <2>4
<1>3. ASSUME View(st') = View(st) /\ Given(res') = <<>>
      PROVE  View(st') = Overlay(View(st), Pos(st), Given(res'))
  BY <1>3 DEF Overlay
<1>4. \A size \in Sizes : ~Auxbuf(size)
  BY DEF Auxbuf, Returning
<1>5. \A m \in Modes : ~Fopen(m)
  BY <1>0 DEF Fopen, IsOpen
<1>. QED BY <1>1, <1>2, <1>3, <1>4, <1>5, CallKeeps DEF Next, BinaryNext, TextNext, Common

(* A call that says it was fgetc was one.                                  *)
LEMMA FgetcOnly ==
    ASSUME Next, res'.op = "fgetc"
    PROVE  Fgetc
<1>1. ~Read
  BY DEF Read
<1>2. \A b \in Byte : ~Write(b)
  BY DEF Write, Returning
<1>3. \A c : ~Fputc(c)
  BY DEF Fputc, Returning
<1>4. \A c \in PushBack : ~Ungetc(c)
  BY DEF Ungetc, Returning
<1>5. ~Fflush
  BY DEF Fflush, Call, Returning
<1>6. \A base \in 0 .. 2, off \in Offsets : ~Bseek(base, off)
  BY DEF Bseek, Call, Returning
<1>7. \A base \in 0 .. 2, off \in Offsets : ~Cseek(base, off)
  BY DEF Cseek, CseekFrom, Call, Returning
<1>8. ~Btell
  BY DEF Btell, Call, Returning
<1>9. ~Fclose
  BY DEF Fclose, Call, Returning
<1>10. \A size \in Sizes : ~Auxbuf(size)
  BY DEF Auxbuf, Returning
<1>11. ~Clearerr
  BY DEF Clearerr, Returning
<1>12. \A m \in Modes : ~Fopen(m)
  BY DEF Fopen, Call, Returning
<1>. QED
  BY <1>1, <1>2, <1>3, <1>4, <1>5, <1>6, <1>7, <1>8, <1>9, <1>10, <1>11, <1>12
  DEF Next, BinaryNext, TextNext, Common

(* What ByteStream says of text input is what Decoded says.                *)
LEMMA FgetcReturns ==
    ASSUME Inv, Fgetc, FF \notin Byte, st.nextc = EOF, ~st'.spoiled
    PROVE  <<res'.ret, Pos(st') - (IF st'.nextc = EOF THEN 0 ELSE 1)>> = Decoded(View(st), Pos(st))
<1> DEFINE c == Stream!At(View(st), Pos(st))
           d == Stream!At(View(st), Pos(st) + 1)
<1>1. Stream!Cook(c)
  BY FgetcStep DEF Stream!Fgetc
<1>2. Pos(st) \in Int /\ CR # CtrlZ /\ EOF # CR /\ EOF # CtrlZ
  BY ViewType, ConstantTypes DEF Inv
<1>3. Decoded(View(st), Pos(st)) =
        CASE c = EOF   -> <<EOF, Pos(st)>>
          [] c = CtrlZ -> <<EOF, Pos(st) + 1>>
          [] c = CR    -> <<LF, IF d = LF THEN Pos(st) + 2 ELSE Pos(st) + 1>>
          [] OTHER     -> <<c, Pos(st) + 1>>
  BY DEF Decoded
<1> HIDE DEF c
<1>4. CASE c = EOF
  <2>1. res'.ret = EOF /\ Pos(st') = Pos(st) /\ st'.nextc = EOF
    BY <1>1, <1>2, <1>4 DEF Stream!Cook, Stream!Returns
  <2>. QED BY <1>2, <1>3, <1>4, <2>1
<1>5. CASE c = CtrlZ
  <2>1. res'.ret = EOF /\ Pos(st') = Pos(st) + 1 /\ st'.nextc = EOF
    BY <1>1, <1>2, <1>5 DEF Stream!Cook, Stream!Returns
  <2>. QED BY <1>2, <1>3, <1>5, <2>1
<1>6. CASE c = CR
  <2>1. /\ res'.ret = LF /\ Pos(st') = IF d = EOF THEN Pos(st) + 1 ELSE Pos(st) + 2
        /\ st'.nextc = IF d = LF THEN EOF ELSE d
    BY <1>1, <1>2, <1>6 DEF Stream!Cook, Stream!Returns
  <2> HIDE DEF d
  <2>2. LF # EOF
    BY ConstantTypes
  <2>. QED BY <1>2, <1>3, <1>6, <2>1, <2>2
<1>7. CASE c \notin {EOF, CtrlZ, CR}
  <2>1. res'.ret = c /\ Pos(st') = Pos(st) + 1 /\ st'.nextc = EOF
    BY <1>1, <1>7 DEF Stream!Cook, Stream!Returns
  <2>. QED BY <1>2, <1>3, <1>7, <2>1
<1>. QED BY <1>4, <1>5, <1>6, <1>7

(* The stream record keeps its type: DOS positions and buffer indices      *)
(* never go negative, whatever DOS refuses.                                *)
THEOREM TypeCorrect == Spec => []TypeOK
<1>1. Init => Inv
  BY InitInv
<1>2. Inv /\ [Next]_vars => Inv'
  BY StepInv
<1>3. Inv => TypeOK
  BY DEF Inv, Good, TypeOK
<1>. QED BY <1>1, <1>2, <1>3, PTL DEF Spec

(* Buffer and disk agree in every reachable state, whatever DOS refuses.   *)
THEOREM BufferIsCoherent == Spec => []BufferCoherent
<1>1. Init => Inv
  BY InitInv
<1>2. Inv /\ [Next]_vars => Inv'
  BY StepInv
<1>3. Inv => BufferCoherent
  BY DEF Inv, Good, BufferCoherent
<1>. QED BY <1>1, <1>2, <1>3, PTL DEF Spec

(* The buffered stream implements the byte stream, for every buffer size,  *)
(* chunk size, record size, disk and alphabet without the byte 0FFh.       *)
THEOREM StreamIsByteStream == ASSUME FF \notin Byte PROVE Spec => IsByteStream
<1>1. Init => Inv
  BY InitInv
<1>2. Init => Stream!Init
  <2>1. \A f : /\ Fresh(f).mode = None /\ Fresh(f).nextc = EOF /\ Fresh(f).eofbit = FALSE
                /\ Fresh(f).spoiled = FALSE
    BY DEF Fresh
  <2>3. \A e : e = [Fresh(<<>>) EXCEPT !.exists = FALSE] =>
                 /\ e.mode = None /\ e.nextc = EOF /\ e.eofbit = FALSE /\ e.spoiled = FALSE
    BY DEF Fresh
  <2>4. Init => st.mode = None /\ st.nextc = EOF /\ st.eofbit = FALSE /\ st.spoiled = FALSE
    BY <2>1, <2>3 DEF Init
  <2>. QED BY <2>4 DEF Stream!Init, IsOpen
<1>3. Inv /\ [Next]_vars => Inv' /\ [Stream!Next]_(Stream!vars)
  BY StepInv
<1>. QED BY <1>1, <1>2, <1>3, PTL DEF Spec, IsByteStream, Stream!Spec

(* Output that waits in the buffer survives every call that reports        *)
(* success, also after failures: CSYSLIB.C _flush and what calls it.       *)
THEOREM SuccessIsLossless == Spec => SuccessLosesNothing
<1>1. Init => Inv
  BY InitInv
<1>2. Inv /\ [Next]_vars => Inv'
  BY StepInv
<1>3. Inv /\ [Next]_vars =>
        [st.use = "out" /\ res'.op # "auxbuf" /\ res'.ret \notin {EOF, -2} =>
            View(st') = Overlay(View(st), Pos(st), Given(res'))]_vars
  BY SuccessKeeps
<1>. QED BY <1>1, <1>2, <1>3, PTL DEF Spec, SuccessLosesNothing

(* fgetc makes one newline of each line end and moves past it, wherever    *)
(* the buffer ends.                                                        *)
THEOREM TextIsDecoded == ASSUME FF \notin Byte PROVE Spec => FgetcDecodes
<1>1. Init => Inv
  BY InitInv
<1>2. Inv /\ [Next]_vars => Inv'
  BY StepInv
<1>3. ASSUME Inv, Next, st.nextc = EOF, res'.op = "fgetc", ~st'.spoiled
      PROVE  <<res'.ret, Pos(st') - (IF st'.nextc = EOF THEN 0 ELSE 1)>>
                 = Decoded(View(st), Pos(st))
  BY <1>3, FgetcOnly, FgetcReturns
<1>4. Inv /\ [Next]_vars =>
        [st.nextc = EOF /\ res'.op = "fgetc" /\ ~st'.spoiled =>
            <<res'.ret, Pos(st') - (IF st'.nextc = EOF THEN 0 ELSE 1)>>
                = Decoded(View(st), Pos(st))]_vars
  BY <1>3
<1>. QED BY <1>1, <1>2, <1>4, PTL DEF Spec, FgetcDecodes
=============================================================================
