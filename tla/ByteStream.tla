----------------------------- MODULE ByteStream -----------------------------
(***************************************************************************)
(* What the C library promises of one open disk file, with no buffer, no   *)
(* DOS file position and no chunking in sight: a sequence of bytes, a      *)
(* position in it, and at most one byte pushed back in front of it.        *)
(*                                                                         *)
(* "spoiled" records that a DOS call has failed, or that auxbuf replaced a *)
(* buffer that still held data.  The library promises nothing about the    *)
(* stream after that, so neither does this specification.                  *)
(***************************************************************************)
EXTENDS Integers, Sequences

CONSTANTS
    Byte,       \* the bytes a file can hold
    CR, LF,     \* carriage return, line feed ('\n' is LF)
    CtrlZ,      \* DOSEOF, the byte that ends a text file
    EOF,        \* what input functions return at the end of the file
    Modes,      \* the modes of fopen
    Offsets,    \* offsets given to bseek and cseek
    Rec,        \* bytes in a record of cseek
    Records,    \* record numbers wrap around at this one
    Gap         \* what DOS leaves between the old end and a write beyond it

VARIABLES
    data,       \* the contents a reader of the stream is entitled to see
    pos,        \* number of bytes of data in front of the next byte
    pushed,     \* the byte ungetc has put back, or EOF
    eof,        \* what feof reports
    open,       \* whether the stream is open
    spoiled,    \* an earlier failure voids all promises
    res         \* [op, arg, ret]: the last call and what it returned

vars == <<data, pos, pushed, eof, open, spoiled, res>>

(* f with the bytes of d stored from offset at on.                         *)
Overlay(f, at, d) ==
    IF Len(d) = 0 THEN f
    ELSE [i \in 1 .. (IF Len(f) > at + Len(d) THEN Len(f) ELSE at + Len(d)) |->
             IF i > at /\ i <= at + Len(d) THEN d[i - at]
             ELSE IF i <= Len(f) THEN f[i] ELSE Gap]

At(d, p) == IF p < Len(d) THEN d[p + 1] ELSE EOF

Returns(op, arg, ret) == res' = [op |-> op, arg |-> arg, ret |-> ret]

(* One byte of binary input.                                               *)
Read ==
    /\ IF pushed # EOF
       THEN /\ Returns("read", EOF, pushed)
            /\ pushed' = EOF
            /\ UNCHANGED <<pos, eof>>
       ELSE /\ Returns("read", EOF, At(data, pos))
            /\ IF At(data, pos) = EOF
               THEN eof' = TRUE /\ UNCHANGED pos
               ELSE pos' = pos + 1 /\ UNCHANGED eof
            /\ UNCHANGED pushed
    /\ UNCHANGED <<data, open>>

(* One character of text input: CR LF, CR and LF each end a line, CtrlZ is *)
(* the end of the file.  After a lone CR the byte behind it is pushed back.*)
Cook(c) ==
    \/ /\ c = EOF
       /\ Returns("fgetc", EOF, EOF)
       /\ eof' = TRUE
       /\ UNCHANGED <<pos, pushed>>
    \/ /\ c = CtrlZ
       /\ Returns("fgetc", EOF, EOF)
       /\ eof' = TRUE
       /\ pos' = pos + 1
       /\ UNCHANGED pushed
    \/ /\ c = CR
       /\ Returns("fgetc", EOF, LF)
       /\ LET d == At(data, pos + 1)
          IN  /\ pos' = IF d = EOF THEN pos + 1 ELSE pos + 2
              /\ eof' = (eof \/ d = EOF)
              /\ pushed' = IF d = LF THEN EOF ELSE d
    \/ /\ c \notin {EOF, CtrlZ, CR}
       /\ Returns("fgetc", EOF, c)
       /\ pos' = pos + 1
       /\ UNCHANGED <<eof, pushed>>

Fgetc ==
    /\ IF pushed # EOF
       THEN /\ Returns("fgetc", EOF, pushed)
            /\ pushed' = EOF
            /\ UNCHANGED <<pos, eof>>
       ELSE Cook(At(data, pos))
    /\ UNCHANGED <<data, open>>

Ungetc(c) ==
    /\ IF ~open \/ pushed # EOF
       THEN Returns("ungetc", c, EOF) /\ UNCHANGED pushed
       ELSE Returns("ungetc", c, c) /\ pushed' = c
    /\ UNCHANGED <<data, pos, eof, open>>

(* Output replaces the bytes at the position, or extends the file.         *)
Put(op, arg, d) ==
    /\ Returns(op, arg, arg)
    /\ data' = Overlay(data, pos, d)
    /\ pos' = pos + Len(d)
    /\ UNCHANGED <<pushed, eof, open>>

(* Positioning drops a pushed-back byte and the end-of-file condition; one *)
(* that is refused changes nothing.                                        *)
Seek(op, arg, target) ==
    /\ \/ /\ Returns(op, arg, 0)
          /\ target >= 0
          /\ pos' = target
          /\ pushed' = EOF
          /\ eof' = FALSE
       \/ /\ Returns(op, arg, EOF)
          /\ target < 0
          /\ UNCHANGED <<pos, pushed, eof>>
    /\ UNCHANGED <<data, open>>

Origin(base) == IF base = 0 THEN 0 ELSE IF base = 1 THEN pos ELSE Len(data)

Seeks ==
    \E base \in 0 .. 2, off \in Offsets :
       \/ Seek("bseek", <<base, off>>, Origin(base) + off)
       \/ Seek("cseek", <<base, off>>, (((Origin(base) \div Rec) + off) % Records) * Rec)

(* Calls that may move bytes between buffer and disk but change nothing a  *)
(* reader or writer of the stream can see.  btell tells the position; what *)
(* it tells while a byte is pushed back is left open here, because the     *)
(* library does not keep what BTELL.C:5 says of it, "offset to next        *)
(* character": it does not count that byte.                                *)
Quiet ==
    /\ res'.op \in {"fflush", "btell", "auxbuf", "clearerr"}
    /\ res'.op = "btell" /\ pushed = EOF => res'.ret = pos
    /\ UNCHANGED <<data, pos, pushed, eof, open>>

Close ==
    /\ Returns("fclose", EOF, 0)
    /\ open' = FALSE
    /\ UNCHANGED <<data, pushed, eof>>

(* Opening, also after failures: then the contents are what they are.      *)
Open(m) ==
    /\ ~open
    /\ Returns("fopen", m, 1)
    /\ open' = TRUE
    /\ pushed' = EOF
    /\ eof' = FALSE
    /\ IF m \in {"w", "w+"} THEN data' = <<>> ELSE spoiled \/ data' = data
    /\ pos' = IF m \in {"a", "a+"} THEN Len(data') ELSE 0
    /\ ~spoiled'

CannotOpen(m) ==
    /\ ~open
    /\ Returns("fopen", m, 0)
    /\ UNCHANGED <<data, pos, pushed, eof, open>>

Calls ==
    \/ Read
    \/ Fgetc
    \/ \E c \in Byte : Ungetc(c)
    \/ \E b \in Byte : Put("write", b, <<b>>) \/ Put("fputc", b, <<b>>)
    \/ Put("fputc", LF, <<CR, LF>>)
    \/ Put("fputc", EOF, <<CtrlZ>>)
    \/ Seeks
    \/ Quiet
    \/ Close
    \/ \E m \in Modes : CannotOpen(m)

Next ==
    \/ spoiled'
    \/ ~spoiled /\ ~spoiled' /\ Calls
    \/ \E m \in Modes : Open(m)

Init == ~open /\ pushed = EOF /\ ~eof /\ ~spoiled

Spec == Init /\ [][Next]_vars
=============================================================================
