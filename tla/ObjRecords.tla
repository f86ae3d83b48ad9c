----------------------------- MODULE ObjRecords -----------------------------
(***************************************************************************)
(* The data records of an object file, as PUTOBJ.C writes them: one record *)
(* is open at a time, it holds at most ObjSize bytes, and the references   *)
(* that the linker is to fix are buffered until it is closed.              *)
(*                                                                         *)
(* A writer is a record: rec is the kind of the open record (NoRec when    *)
(* there is none), seg and start what its head says, off the running       *)
(* offset, n the bytes of data in it, body the data, fixes the buffered    *)
(* fixups, fbuf the bytes they take, and closed the records written so     *)
(* far.  A piece of a body is a block of bytes and how often it is         *)
(* repeated.                                                               *)
(***************************************************************************)
EXTENDS Integers, Sequences, FiniteSetsExt

CONSTANTS ObjSize,   \* OSIZE: bytes of the record buffer
          FixSize    \* FSIZE: bytes of the fixup buffer

\* the place of a fixup in its record has ten bits (obj1.h: "DON'T INCREASE!")
Places == 1024

ASSUME SizesAssumption == ObjSize \in 21 .. Places + 7 /\ FixSize \in Nat /\ FixSize > 12

\* Mutant: the head of the record is not counted.
OFREENoHead(o) == (ObjSize - 1) - o.n

\* a record has 3 bytes of head, 1 of segment index and 2 of offset
OFREE(o) == (ObjSize - 1) - (6 + o.n)

\* the kind of the record that is open when none is
NoRec == ""

NoRecords == [rec |-> NoRec, seg |-> 0, start |-> 0, off |-> 0, n |-> 0,
              body |-> <<>>, fixes |-> <<>>, fbuf |-> 0, closed |-> <<>>]

begDATA(o, rec, seg, at) ==
  [o EXCEPT !.rec = rec, !.seg = seg, !.start = at, !.off = at, !.n = 0,
            !.body = <<>>, !.fixes = <<>>, !.fbuf = 0]

\* the record that is open, as it is written
Open(o) == [rec |-> o.rec, seg |-> o.seg, start |-> o.start,
            body |-> o.body, fixes |-> o.fixes]

endDATA(o) == [o EXCEPT !.rec = NoRec, !.closed = Append(@, Open(o))]

\* close the open record and go on in one like it, at the running offset
Another(o) == begDATA(endDATA(o), o.rec, o.seg, o.off)

\* setdata: the open record becomes one of kind rec, or none
setdata(o, rec, seg, at) ==
  IF o.rec = rec THEN o
  ELSE LET c == IF o.rec = NoRec THEN o ELSE endDATA(o)
       IN  IF rec = NoRec THEN c ELSE begDATA(c, rec, seg, at)

\* obyte for each byte of b, with room for all of them
PutBytes(o, b) ==
  IF b = <<>> THEN o
  ELSE [o EXCEPT !.body = Append(@, [rep |-> 1, b |-> b]),
                 !.n = @ + Len(b), !.off = @ + Len(b)]

\* what could be a word to fix is kept together, anything longer may be cut
putLEDATA(o, b) ==
  LET o1 == IF OFREE(o) < Len(b) /\ Len(b) <= 2 THEN Another(o) ELSE o
      k  == Min({OFREE(o1), Len(b)})
      o2 == PutBytes(o1, SubSeq(b, 1, k))
  IN  IF k = Len(b) THEN o2
      ELSE PutBytes(Another(o2), SubSeq(b, k + 1, Len(b)))

\* the bytes a fixup takes in the buffer; a displacement of zero is not written
FixLen(fix) == IF fix.dis = 0 THEN 6 ELSE 8

\* Mutant: the place of the fixup is taken before the record is changed.
putLEDFIXEarly(o, n, fix) ==
  LET o1 == IF FixSize - o.fbuf < 12 THEN Another(o) ELSE o
  IN  [putLEDATA(o1, [i \in 1 .. n |-> 0])
         EXCEPT !.fixes = Append(@, [at |-> o1.n, n |-> n, fix |-> fix]), !.fbuf = @ + FixLen(fix)]

\* an item of n bytes that the linker is to fix; its offset has ten bits
putLEDFIX(o, n, fix) ==
  LET o1 == IF FixSize - o.fbuf < 12 THEN Another(o) ELSE o
      o2 == putLEDATA(o1, [i \in 1 .. n |-> 0])
  IN  [o2 EXCEPT !.fixes = Append(@, [at |-> (o2.n - n) % Places, n |-> n, fix |-> fix]),
                 !.fbuf = @ + FixLen(fix)]

\* an unsigned has 16 bits
Wrap == 65536

\* a repeated block; len has been counted down to -1, the greatest one, when
\* it moves off
putLIDATA(o, rep, b) ==
  LET o1 == IF OFREE(o) < Len(b) + 5 THEN Another(o) ELSE o
  IN  [o1 EXCEPT !.body = Append(@, [rep |-> rep, b |-> b]),
                 !.n = @ + Len(b) + 5,
                 !.off = (@ + rep * (Wrap - 1)) % Wrap]

-----------------------------------------------------------------------------
(* What the linker makes of the records.                                   *)

\* the offset in its segment of the i-th piece of a record's body
PieceAt(r, i) ==
  LET end[k \in 0 .. i - 1] == IF k = 0 THEN r.start
                               ELSE end[k - 1] + r.body[k].rep * Len(r.body[k].b)
  IN  end[i - 1]

\* the pieces of data of a record, and of the closed ones: where, how often and
\* which bytes
PiecesOf(r) == { [seg |-> r.seg, at |-> PieceAt(r, i), rep |-> r.body[i].rep, b |-> r.body[i].b] :
                   i \in 1 .. Len(r.body) }
Image(o) == UNION { PiecesOf(o.closed[k]) : k \in 1 .. Len(o.closed) }

\* the bytes of some pieces: segment, offset and value
BytesIn(pieces) ==
  UNION { { <<p.seg, p.at + q[1] * Len(p.b) + q[2] - 1, p.b[q[2]]>> :
              q \in (0 .. p.rep - 1) \X (1 .. Len(p.b)) } : p \in pieces }

\* the references to fix: segment, offset, bytes and what with
FixupsOf(r) == { <<r.seg, r.start + r.fixes[k].at, r.fixes[k].n, r.fixes[k].fix>> :
                   k \in 1 .. Len(r.fixes) }
Fixups(o)   == UNION { FixupsOf(o.closed[k]) : k \in 1 .. Len(o.closed) }

-----------------------------------------------------------------------------
(* What holds between the calls.                                           *)

Pieces       == [rep : Nat, b : Seq(0 .. 255)]
Buffered(Fix) == [at : 0 .. Places - 1, n : {1, 2, 4}, fix : Fix]
Records(Fix) == [rec : {"LEDATA", "LIDATA"}, seg : Nat, start : Nat,
                 body : Seq(Pieces), fixes : Seq(Buffered(Fix))]

\* the writers, when what the linker is to fix with comes from the set Fix
Writers(Fix) ==
  [rec : {NoRec, "LEDATA", "LIDATA"}, seg : Nat, start : Nat, off : Nat, n : Nat,
   body : Seq(Pieces), fixes : Seq(Buffered(Fix)), fbuf : Nat, closed : Seq(Records(Fix))]

\* the open record and its fixups do not outgrow their buffers, and what is to
\* be fixed lies in the record
RecordFits(o) ==
  /\ o.n \in 0 .. ObjSize - 7 /\ o.fbuf \in 0 .. FixSize
  /\ \A k \in 1 .. Len(o.fixes) : o.fixes[k].at + o.fixes[k].n <= o.n

\* where the linker puts what comes next
EndOf(o) == PieceAt(o, Len(o.body) + 1)

\* the running offset is that of what comes next
InStep(o) == o.rec = "LEDATA" => o.off = EndOf(o) /\ o.off = o.start + o.n

=============================================================================
