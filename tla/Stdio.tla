-------------------------------- MODULE Stdio --------------------------------
(***************************************************************************)
(* One buffered disk stream of the Small-C library (smalllib/clib), as the *)
(* per-descriptor entries of CSYSLIB.C's arrays and the DOS file behind    *)
(* them.  Every library call is one action; inside it, the C functions are *)
(* operators that map a stream state to the set of outcomes [st, ret] they *)
(* can have, because a DOS call may do its work, do part of it, or fail.   *)
(*                                                                         *)
(* Addresses into the buffer are offsets from _bufptr.  The 512-byte loops *)
(* of _readbuf and _flush are kept where their chunks can be told apart.   *)
(***************************************************************************)
EXTENDS Integers, Sequences

CONSTANTS
    Byte,       \* the bytes a file can hold
    CR, LF,     \* carriage return, line feed ('\n' is LF)
    CtrlZ,      \* DOSEOF
    FF,         \* the byte 0FFh, which a signed char widens to -1
    EOF,        \* -1
    Gap,        \* what DOS leaves between the old end and a write beyond it
    Disk,       \* bytes the file can grow to before the disk is full
    Sizes,      \* buffer sizes: the default one and those given to auxbuf
    Chunk,      \* bytes _readbuf asks DOS for at a time (512)
    DosErr,     \* a failed DOS read returns -DosErr
    Rec,        \* bytes in a record of cseek (128)
    Records,    \* records a 23-bit offset can tell apart (65536)
    Offsets,    \* offsets given to bseek and cseek
    PushBack,   \* the bytes callers give to ungetc
    Faulty      \* whether DOS calls can fail for reasons of their own

ASSUME StdioAssumption ==
    /\ EOF \notin Byte /\ EOF # 0 /\ Gap \in Byte
    /\ {CR, LF, CtrlZ} \subseteq Byte /\ CR # LF /\ CR # CtrlZ /\ LF # CtrlZ
    /\ Disk \in Nat
    /\ Sizes \subseteq Nat \ {0} /\ Sizes # {}
    /\ Chunk \in Nat \ {0} /\ DosErr \in Nat \ {0}
    /\ Rec \in Nat \ {0} /\ Records \in Nat \ {0}
    /\ Offsets \subseteq Int
    /\ PushBack \subseteq Byte
    /\ Faulty \in BOOLEAN

Modes == {"r", "r+", "w", "w+", "a", "a+"}
None == "none"

VARIABLES
    st,     \* the stream and its file, see IsStream
    res     \* the last call: its name, argument, result and byte count

vars == <<st, res>>

(* The type of st.                                                         *)
IsStream(s) ==
    /\ DOMAIN s = {"file", "exists", "dpos", "mode", "eofbit", "errbit", "nextc",
                   "use", "buf", "nxt", "end", "beof", "siz", "spoiled"}
    /\ s.file \in Seq(Byte)                \* what DOS holds on disk
    /\ s.exists \in BOOLEAN
    /\ s.dpos \in Nat                      \* the DOS file position
    /\ s.mode \in Modes \cup {None}        \* access rights; None when closed
    /\ s.eofbit \in BOOLEAN                \* _status & EOFBIT
    /\ s.errbit \in BOOLEAN                \* _status & ERRBIT
    /\ s.nextc \in Byte \cup {EOF}         \* _nextc
    /\ s.use \in {"empty", "in", "out"}    \* _bufuse
    /\ s.buf \in Seq(Byte)                 \* the bytes in use at _bufptr
    /\ s.nxt \in Nat                       \* _bufnxt - _bufptr
    /\ s.end \in Int                       \* _bufend - _bufptr
    /\ s.beof \in BOOLEAN                  \* _bufeof
    /\ s.siz \in Sizes                     \* _bufsiz
    /\ s.spoiled \in BOOLEAN               \* ghost: see ByteStream

-----------------------------------------------------------------------------
(* DOS: what a call does to the file and its position.                     *)

Ret(s, r) == [st |-> s, ret |-> r]
Least(a, b) == IF a < b THEN a ELSE b
Most(a, b) == IF a > b THEN a ELSE b

CanRead(s)  == s.mode \in {"r", "r+", "w+", "a+"}
CanWrite(s) == s.mode \in {"r+", "w", "w+", "a", "a+"}

Overlay(f, at, d) ==
    IF Len(d) = 0 THEN f
    ELSE [i \in 1 .. Most(Len(f), at + Len(d)) |->
             IF i > at /\ i <= at + Len(d) THEN d[i - at]
             ELSE IF i <= Len(f) THEN f[i] ELSE Gap]

(* How many of the first n bytes of the buffer DOS may accept: all that    *)
(* fit on the disk, fewer when a write fails, none without write access.   *)
Accepted(s, n) ==
    LET room == Least(n, Most(0, Disk - s.dpos))
    IN  IF ~CanWrite(s) THEN {0}
        ELSE IF Faulty THEN 0 .. room ELSE {room}

DosWrite(s, k) ==
    [s EXCEPT !.file = Overlay(s.file, s.dpos, SubSeq(s.buf, 1, k)),
              !.dpos = s.dpos + k]

(* Positions DOS may be left at by a seek; none when the seek is refused.  *)
Reached(target) ==
    (IF target >= 0 THEN {target} ELSE {}) \cup (IF Faulty \/ target < 0 THEN {EOF} ELSE {})

-----------------------------------------------------------------------------
(* CSYSLIB.C *)

Empty(s) == [s EXCEPT !.buf = <<>>, !.nxt = 0, !.end = 0, !.beof = FALSE]

(* Mutant: the end-of-file mark of the old contents stays.                 *)
EmptiedKeepsMark(s) == [s EXCEPT !.buf = <<>>, !.nxt = 0, !.end = 0, !.use = "empty"]

Emptied(s) == [Empty(s) EXCEPT !.use = "empty"]

Fail(s) == [s EXCEPT !.errbit = TRUE, !.spoiled = TRUE]

(* Mutant: a short write counts as a write.                                *)
FlushUnchecked(s) ==
    IF s.use # "out" THEN {Ret(Emptied(s), 0)}
    ELSE {Ret(Emptied(DosWrite(s, k)), 0) : k \in Accepted(s, s.nxt)}

Flush(s) ==
    IF s.use # "out" THEN {Ret(Emptied(s), 0)}
    ELSE {IF k = s.nxt THEN Ret(Emptied(DosWrite(s, k)), 0)
                       ELSE Ret(Fail(DosWrite(s, k)), EOF) : k \in Accepted(s, s.nxt)}

(* lo is a 16-bit word and hi is always -1, so a positive lo seeks 64K back.*)
BackTarget(s) ==
    LET lo == s.nxt - s.end IN IF lo < 0 THEN s.dpos + lo ELSE s.dpos + lo - 65536

(* Mutant: unread input is dropped without seeking back over it.           *)
BackupWithoutSeek(s) == {Ret(Emptied(s), 0)}

Backup(s) ==
    IF s.nxt = s.end THEN {Ret(Emptied(s), 0)}
    ELSE {IF p = EOF THEN Ret(Fail(s), EOF)
                     ELSE Ret(Emptied([s EXCEPT !.dpos = p]), 0) : p \in Reached(BackTarget(s))}

Adjust(s) ==
    IF s.use = "out" THEN Flush(s)
    ELSE IF s.use = "in" THEN Backup(s)
    ELSE {Ret(s, 0)}

(* What the chunked reads of _readbuf leave in the buffer.  A failed read  *)
(* adds its negative result to ptr and is then taken for a short one.      *)
Loaded(s, n) ==
    [s EXCEPT !.buf = SubSeq(s.file, s.dpos + 1, s.dpos + n), !.dpos = s.dpos + n,
              !.nxt = 0, !.end = n, !.beof = (n < s.siz), !.use = "in"]

(* Bytes a full read gets, and bytes a failing one may have got before.    *)
Got(s) == Least(s.siz, Most(0, Len(s.file) - s.dpos))

Partial(s) ==
    IF ~CanRead(s) THEN {0}
    ELSE IF Faulty THEN {c \in 0 .. Got(s) : c < s.siz /\ c % Chunk = 0} ELSE {}

Fill(s) ==
    {Loaded(s, k) : k \in IF CanRead(s) THEN {Got(s)} ELSE {}}
    \cup {[Loaded(s, c) EXCEPT !.end = c - DosErr, !.spoiled = TRUE] : c \in Partial(s)}

(* A byte leaves the buffer as a sign-extended char.                       *)
Widen(b) == IF b = FF THEN EOF ELSE b

Take(s) ==
    IF s.nxt < s.end THEN Ret([s EXCEPT !.nxt = s.nxt + 1], Widen(s.buf[s.nxt + 1]))
    ELSE Ret([s EXCEPT !.eofbit = TRUE], EOF)

ReadBuf(s) ==
    UNION { IF o.ret # 0 THEN {Ret(o.st, EOF)}
            ELSE IF o.st.nxt < o.st.end \/ o.st.beof THEN {Take(o.st)}
            ELSE {Take(f) : f \in Fill(o.st)}
          : o \in IF s.use = "out" THEN Flush(s) ELSE {Ret(s, 0)} }

ReadByte(s) ==
    IF s.nextc # EOF THEN {Ret([s EXCEPT !.nextc = EOF], s.nextc)} ELSE ReadBuf(s)

Store(s, b) ==
    Ret([s EXCEPT !.buf = Append(s.buf, b), !.nxt = s.nxt + 1, !.use = "out"], b)

WriteBuf(s, b) ==
    UNION { IF o.ret # 0 THEN {Ret(o.st, EOF)}
            ELSE IF o.st.nxt < o.st.siz THEN {Store(o.st, b)}
            ELSE {IF f.ret # 0 THEN Ret(f.st, EOF) ELSE Store(f.st, b) : f \in Flush(o.st)}
          : o \in IF s.use = "in" THEN Backup(s) ELSE {Ret(s, 0)} }
-----------------------------------------------------------------------------
(* The library calls.  Reading and writing take an open stream; the        *)
(* others test _mode themselves.                                           *)

IsOpen == st.mode # None

Returning(op, arg, ret) == res' = [op |-> op, arg |-> arg, ret |-> ret, cnt |-> 0]

(* A call that consists of one operator above.                             *)
Call(op, arg, outcomes) ==
    \E o \in outcomes : st' = o.st /\ Returning(op, arg, o.ret)

(* read(fd, buf, 1): the byte is stored first, then the status decides     *)
(* whether it is counted.  A longer read repeats this until it is not.     *)
Read ==
    /\ IsOpen
    /\ \E o \in ReadByte(st) :
          /\ st' = o.st
          /\ res' = [op |-> "read", arg |-> EOF, ret |-> o.ret,
                     cnt |-> IF o.st.errbit \/ o.st.eofbit THEN 0 ELSE 1]

(* Mutant: the character behind a CR is pushed back whatever it is.        *)
CookPushesNewline(o) ==
    IF o.ret = CtrlZ THEN {Ret([o.st EXCEPT !.eofbit = TRUE], EOF)}
    ELSE IF o.ret = CR
    THEN {Ret([p.st EXCEPT !.nextc = p.ret], LF) : p \in ReadByte(o.st)}
    ELSE {o}

(* fgetc after its first _read has returned o.                             *)
Cook(o) ==
    IF o.ret = CtrlZ THEN {Ret([o.st EXCEPT !.eofbit = TRUE], EOF)}
    ELSE IF o.ret = CR
    THEN {Ret(IF p.ret = LF THEN p.st ELSE [p.st EXCEPT !.nextc = p.ret], LF) : p \in ReadByte(o.st)}
    ELSE {o}

GetC(s) ==
    IF s.nextc # EOF THEN {Ret([s EXCEPT !.nextc = EOF], s.nextc)}
    ELSE UNION {Cook(o) : o \in ReadBuf(s)}

Fgetc == IsOpen /\ Call("fgetc", EOF, GetC(st))

Ungetc(c) ==
    IF ~IsOpen \/ st.nextc # EOF
    THEN Returning("ungetc", c, EOF) /\ UNCHANGED st
    ELSE Returning("ungetc", c, c) /\ st' = [st EXCEPT !.nextc = c]

(* write(fd, buf, 1) and fputc report the sticky error bit, not the byte.  *)
Reported(s, r) == IF s.errbit THEN EOF ELSE r

Write(b) ==
    /\ IsOpen
    /\ \E o \in WriteBuf(st, b) : st' = o.st /\ Returning("write", b, Reported(o.st, b))

(* fputc(c): EOF writes a CtrlZ, a newline writes CR and LF.               *)
PutC(s, c) ==
    IF c = LF THEN UNION {WriteBuf(o.st, LF) : o \in WriteBuf(s, CR)}
    ELSE WriteBuf(s, IF c = EOF THEN CtrlZ ELSE c)

Fputc(c) ==
    /\ IsOpen
    /\ \E o \in PutC(st, c) : st' = o.st /\ Returning("fputc", c, Reported(o.st, c))

Fflush ==
    /\ IsOpen
    /\ Call("fflush", EOF, IF st.use = "out" THEN Flush(st) ELSE {Ret(st, 0)})

(* Mutant: the -1 of a refused seek is taken for a position.               *)
SeekUnchecked(s, target) ==
    {Ret([s EXCEPT !.dpos = p, !.nextc = EOF, !.eofbit = FALSE], 0) : p \in Reached(target)}

(* bseek and cseek adjust first; a refused seek leaves nextc and EOFBIT.   *)
SeekTo(s, target) ==
    {IF p = EOF THEN Ret([s EXCEPT !.spoiled = s.spoiled \/ target >= 0], EOF)
     ELSE Ret([s EXCEPT !.dpos = p, !.nextc = EOF, !.eofbit = FALSE], 0) : p \in Reached(target)}

Origin(s, base) == IF base = 0 THEN 0 ELSE IF base = 1 THEN s.dpos ELSE Len(s.file)

(* Targets past the end of the disk are left out (bound Disk).             *)
Bseek(base, off) ==
    /\ IsOpen
    /\ \E o \in Adjust(st) :
          LET target == Origin(o.st, base) + off
          IN  IF o.ret # 0 THEN st' = o.st /\ Returning("bseek", <<base, off>>, EOF)
              ELSE target <= Disk /\ Call("bseek", <<base, off>>, SeekTo(o.st, target))

(* btell and ctell ask DOS where it is and do not look whether it answers: *)
(* then the zeros they have begun with are the position.                   *)
Told(s) ==
    {IF p = EOF THEN Ret([s EXCEPT !.spoiled = TRUE], 0) ELSE Ret(s, p) : p \in Reached(s.dpos)}

(* Where cseek counts records from.  For the end of the file it goes there *)
(* first, and stays there when the second seek is refused.                 *)
Found(s, base) ==
    IF base = 0 THEN {Ret(s, 0)}
    ELSE IF base = 1 THEN Told(s)
    ELSE {IF p = EOF THEN Ret([s EXCEPT !.spoiled = TRUE], EOF)
                     ELSE Ret([s EXCEPT !.dpos = p], p) : p \in Reached(Len(s.file))}

(* cseek works in records: a negative one keeps 23 bits of its offset.     *)
CseekFrom(base, off, s, from) ==
    LET newrec == (from \div Rec) + off
    IN  /\ newrec \in -1 .. (Disk \div Rec)
        /\ Call("cseek", <<base, off>>, SeekTo(s, (newrec % Records) * Rec))

Cseek(base, off) ==
    /\ IsOpen
    /\ \E o \in Adjust(st) :
          IF o.ret # 0 THEN st' = o.st /\ Returning("cseek", <<base, off>>, EOF)
          ELSE \E q \in Found(o.st, base) :
                  IF q.ret = EOF THEN st' = q.st /\ Returning("cseek", <<base, off>>, EOF)
                  ELSE CseekFrom(base, off, q.st, q.ret)

Btell ==
    /\ IsOpen
    /\ \E o \in Adjust(st) :
          IF o.ret # 0 THEN st' = o.st /\ Returning("btell", EOF, EOF)
          ELSE Call("btell", EOF, Told(o.st))

(* What the DOS close can come to: the stream is closed, or stays open,    *)
(* with nothing in its buffer, when DOS does not know the handle.          *)
Closed(s) ==
    {Ret([s EXCEPT !.mode = None], 0)}
    \cup IF Faulty THEN {Ret([s EXCEPT !.spoiled = TRUE], -2)} ELSE {}

Fclose ==
    /\ IsOpen
    /\ \E o \in Flush(st) :
          IF o.ret # 0 THEN st' = o.st /\ Returning("fclose", EOF, -2)
          ELSE Call("fclose", EOF, Closed(o.st))

(* auxbuf resets the buffer pointers and not _bufuse; what the old buffer  *)
(* held is gone.                                                           *)
Busy(s) == s.nxt # s.end

Auxbuf(size) ==
    /\ st' = [Empty(st) EXCEPT !.siz = size, !.spoiled = st.spoiled \/ Busy(st)]
    /\ Returning("auxbuf", size, 0)

Clearerr ==
    /\ IsOpen
    /\ st' = [st EXCEPT !.errbit = FALSE]
    /\ Returning("clearerr", EOF, 0)

-----------------------------------------------------------------------------
(* _open.  A mode "a" open that DOS refuses, for whatever reason, goes on  *)
(* to create the file; the contents it had are lost.                       *)
Appends(m) == m \in {"a", "a+"}

Opened(s, m, f, p) ==
    Ret([Emptied(s) EXCEPT !.file = f, !.exists = TRUE, !.dpos = p, !.mode = m,
                           !.nextc = EOF, !.eofbit = FALSE, !.errbit = FALSE,
                           !.spoiled = Appends(m) /\ f # s.file], 1)

Refused(s) == Ret(s, 0)

Create(s, m) ==
    {Opened(s, m, <<>>, 0)}
    \cup IF Faulty THEN {Refused(s), Refused([s EXCEPT !.file = <<>>, !.exists = TRUE, !.spoiled = TRUE])}
                   ELSE {}

OpenFile(s, m) ==
    IF m \in {"w", "w+"} THEN Create(s, m)
    ELSE (IF s.exists
          THEN {Opened(s, m, s.file, IF Appends(m) THEN Len(s.file) ELSE 0)} ELSE {})
         \cup (IF s.exists /\ ~Faulty THEN {}
               ELSE IF Appends(m) THEN Create(s, m) ELSE {Refused(s)})

Fopen(m) == ~IsOpen /\ Call("fopen", m, OpenFile(st, m))

Fresh(f) ==
    [file |-> f, exists |-> TRUE, dpos |-> 0, mode |-> None, eofbit |-> FALSE,
     errbit |-> FALSE, nextc |-> EOF, use |-> "empty", buf |-> <<>>, nxt |-> 0, end |-> 0,
     beof |-> FALSE, siz |-> CHOOSE n \in Sizes : TRUE, spoiled |-> FALSE]

(* The program starts with the stream closed over whatever the disk holds. *)
Init ==
    /\ st \in {Fresh(f) : f \in UNION {[1 .. n -> Byte] : n \in 0 .. Disk}}
                 \cup {[Fresh(<<>>) EXCEPT !.exists = FALSE]}
    /\ res = [op |-> "start", arg |-> EOF, ret |-> 0, cnt |-> 0]

BinaryNext == Read \/ \E b \in Byte : Write(b)

TextNext == Fgetc \/ \E c \in (Byte \ {FF}) \cup {EOF} : Fputc(c)

Common ==
    \/ \E c \in PushBack : Ungetc(c)
    \/ Fflush
    \/ \E base \in 0 .. 2, off \in Offsets : Bseek(base, off) \/ Cseek(base, off)
    \/ Btell
    \/ Fclose
    \/ \E size \in Sizes : Auxbuf(size)
    \/ Clearerr
    \/ \E m \in Modes : Fopen(m)

Next == BinaryNext \/ TextNext \/ Common

Spec == Init /\ [][Next]_vars

(* Programs that treat the file as binary, or as text, only.               *)
BinarySpec == Init /\ [][BinaryNext \/ Common]_vars
TextSpec == Init /\ [][TextNext \/ Common]_vars
-----------------------------------------------------------------------------
(* What the stream amounts to for its caller.                              *)

View(s) == IF s.use = "out" THEN Overlay(s.file, s.dpos, s.buf) ELSE s.file

Pos(s) == IF s.use = "out" THEN s.dpos + s.nxt
          ELSE IF s.use = "in" THEN s.dpos - (s.end - s.nxt)
          ELSE s.dpos

Stream == INSTANCE ByteStream WITH
    data <- View(st), pos <- Pos(st), pushed <- st.nextc, eof <- st.eofbit,
    open <- IsOpen, spoiled <- st.spoiled,
    res <- [op |-> res.op, arg |-> res.arg, ret |-> res.ret]

(* The stream is a byte stream: as long as no DOS call has failed and no   *)
(* busy buffer was replaced, every call of every interleaving of reads,    *)
(* writes, flushes, seeks, tells, pushbacks and re-buffering returns what  *)
(* ByteStream says and leaves the contents and position it says.           *)
IsByteStream == Stream!Spec

(* Buffer and disk agree: what is buffered for input is a copy of the      *)
(* bytes that end at the DOS position, and when it is marked as ending the *)
(* file there is nothing behind it; output fills the buffer from its start;*)
(* an idle buffer holds nothing.  After a failure only the bounds are kept *)
(* that make every access to the buffer an access to bytes in it.          *)
(* (CSYSLIB.C _readbuf, _writebuf, _flush, _backup, _empty.)               *)
Coherent(s) ==
    /\ s.use = "in" =>
          /\ s.end <= Len(s.buf)
          /\ ~s.spoiled =>
                /\ s.nxt <= s.end /\ s.end = Len(s.buf) /\ s.end <= s.dpos
                /\ s.end = 0 \/ s.dpos <= Len(s.file)
                /\ \A i \in 1 .. s.end : s.buf[i] = s.file[(s.dpos - s.end) + i]
                /\ s.beof => s.dpos >= Len(s.file)
    /\ s.use = "out" => s.nxt = Len(s.buf) /\ s.end = 0 /\ ~s.beof
    /\ s.use = "empty" => s.nxt = 0 /\ s.end = 0 /\ s.buf = <<>> /\ ~s.beof

BufferCoherent == Coherent(st)

(* The stream stays in its type: in particular no seek, backup or failed   *)
(* read makes a DOS position or a buffer index negative.                   *)
TypeOK == IsStream(st)

(* The bytes a call c of the program adds to the stream.                   *)
Given(c) ==
    IF c.op = "fputc" /\ c.arg = LF THEN <<CR, LF>>
    ELSE IF c.op \in {"write", "fputc"} THEN <<c.arg>> ELSE <<>>

(* A call that reports success does not lose or move a byte that waits in  *)
(* the buffer to be written, and adds just the bytes it was given, also    *)
(* after calls that failed, and after a clearerr that has made the program *)
(* forget them: no short write passes for a whole one (CSYSLIB.C:299), and *)
(* an fclose that returns 0 has written all.  Nothing is claimed of a call *)
(* that reports a failure.  A flush that falls short leaves the buffer as  *)
(* it was, behind the bytes DOS has taken (CSYSLIB.C:288 says its pointers *)
(* are reset in any case), so the next one writes these a second time.     *)
SuccessLosesNothing ==
    [][st.use = "out" /\ res'.op # "auxbuf" /\ res'.ret \notin {EOF, -2} =>
         View(st') = Overlay(View(st), Pos(st), Given(res'))]_vars

(* Text input hands out each line end as one newline and moves past it:    *)
(* fgetc with nothing pushed back returns the decoded character at the     *)
(* position and leaves the reader behind it, the byte it peeked included.  *)
Decoded(d, p) ==
    LET c == Stream!At(d, p)
    IN  CASE c = EOF   -> <<EOF, p>>
          [] c = CtrlZ -> <<EOF, p + 1>>
          [] c = CR    -> <<LF, IF Stream!At(d, p + 1) = LF THEN p + 2 ELSE p + 1>>
          [] OTHER     -> <<c, p + 1>>

FgetcDecodes ==
    [][st.nextc = EOF /\ res'.op = "fgetc" /\ ~st'.spoiled =>
         <<res'.ret, Pos(st') - (IF st'.nextc = EOF THEN 0 ELSE 1)>>
             = Decoded(View(st), Pos(st))]_vars

=============================================================================
