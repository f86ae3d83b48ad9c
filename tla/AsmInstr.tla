------------------------------ MODULE AsmInstr ------------------------------
(***************************************************************************)
(* Machine instructions (asm2.c): the search of the table for the types    *)
(* the operands may have, the choice between short and near jumps, and the *)
(* code that the table's directives describe.                              *)
(*                                                                         *)
(* What an instruction generates is collected in s.items: an item is some  *)
(* bytes (abs), a word or pointer for the linker to fix (rel), or a block  *)
(* repeated (dup), each at its place.  The caller writes them in pass 2.   *)
(***************************************************************************)
EXTENDS AsmExpr

RECURSIVE First(_, _), Generate(_, _, _), OperandsOf(_, _, _)

Bytes2(n)   == <<n % 256, (n \div 256) % 256>>

\* Mutant: a negative number is filled up with zeroes.
ByteSeqUnsigned(n, sz) == SubSeq(Bytes2(n) \o [i \in 1 .. 8 |-> 0], 1, sz)

\* the low sz bytes of a number
ByteSeq(n, sz) == SubSeq(Bytes2(n) \o (IF n < 0 THEN [i \in 1 .. 8 |-> 255]
                                       ELSE [i \in 1 .. 8 |-> 0]), 1, sz)

\* an item goes behind the others, and the location counter past it (inc32: by
\* a number of 16 bits)
Emit(s, kind, n, b, fix) ==
  [s EXCEPT !.items = Append(@, [kind |-> kind, seg |-> s.segndx, at |-> s.loc,
                                 n |-> n, b |-> b, fix |-> fix]),
            !.loc = @ + ((n * (IF kind = "rel" THEN 1 ELSE Len(b))) % 65536)]

NoFix == [mod |-> "", loc |-> "", tar |-> "", x |-> 0, dis |-> 0]

genabs(s, n, sz) == Emit(s, "abs", 1, ByteSeq(n, sz), NoFix)

\* genrel: value e as a word or pointer that the linker will fix; op is the
\* operand type it was matched as
genrel(s, e, op) ==
  LET self == op \in {"S8", "S1632"}
      len  == CASE op = "S8" -> 1 [] op = "S1632" -> 2 [] op = "P3248" -> 4
                [] OTHER -> IF "FAR" \in e.f THEN 4 ELSE 2
      kind == IF "EXT" \in e.f THEN "EXT" ELSE IF "GRP" \in e.f /\ ~self THEN "GRP" ELSE "SEG"
  IN  Emit(s, "rel", len, <<>>,
           [mod |-> IF self THEN "SELF" ELSE "SEGMENT",
            loc |-> IF self THEN "OFF"
                    ELSE IF e.f \cap {"GRP", "SEG"} /= {} THEN "BASE"
                    ELSE IF "FAR" \in e.f THEN "PTR" ELSE "OFF",
            tar |-> kind,
            x   |-> IF self /\ kind = "SEG" THEN s.segndx ELSE e.x,
            dis |-> e.v])

-----------------------------------------------------------------------------
(* The operands: their values, and which segment they are in.  No row of   *)
(* the table has a destination that must be in ES (strings with operands). *)

OperandsOf(s, args, seed0) ==
  IF args = <<>> THEN <<>>
  ELSE <<expr(s, Head(args), seed0)>> \o OperandsOf(s, Tail(args), seed0)

\* the segment that the last operand in memory lies in, 0 if there is none
SegmentOf(es) ==
  LET inSeg(e) == e.x /= 0 /\ "EXT" \notin e.f /\ e.t.mem
  IN  IF \E i \in DOMAIN es : inSeg(es[i])
      THEN es[SelectLastInSeq(es, inSeg)].x ELSE 0

\* setsize(ex1, ex2): a size that is not known is that of the other operand
setsize(t1, t2) ==
  IF t1.size /= 0 \/ t1.base \notin {"M", "_"} THEN t1
  ELSE [t1 EXCEPT !.size = IF t2.base \in ToSet(ByteRegs) THEN 1 ELSE 2]

\* donext's sizes; the second type is an earlier instruction's when there is
\* only one operand
Sizes(s, es) ==
  LET t2 == IF Len(es) > 1 THEN es[2].t ELSE s.et2
  IN  IF es = <<>> THEN es
      ELSE LET e1 == [es[1] EXCEPT !.t = setsize(@, t2)]
           IN  IF Len(es) = 1 THEN <<e1>>
               ELSE <<e1, [es[2] EXCEPT !.t = setsize(@, e1.t)]>> \o SubSeq(es, 3, Len(es))

\* look: the operand types to try, in its order
Tries(es) ==
  CASE Len(es) = 0 -> << <<>> >>
    [] Len(es) = 1 -> [i \in DOMAIN setmap(TypeName(es[1].t)) |-> <<setmap(TypeName(es[1].t))[i]>>]
    [] OTHER ->
         LET m1 == setmap(TypeName(es[1].t))
             m2 == setmap(TypeName(es[2].t))
         IN  [k \in 1 .. Len(m1) * Len(m2) |->
                <<m1[(k - 1) \div Len(m2) + 1], m2[((k - 1) % Len(m2)) + 1]>>]

-----------------------------------------------------------------------------
(* self: a self-relative operand must be within reach.                     *)

HexBytes(row) == SelectSeq(row.code, LAMBDA d : d[1] = "hex")

\* the NOPs that pad a short jump to the size pass 1 gave it
Adjust(row) ==
  IF \E d \in ToSet(row.code) : d[1] = "hex" /\ d[2] \in \hE0 .. \hE3 THEN 2
  ELSE IF \E d \in ToSet(row.code) : d[1] = "hex" /\ d[2] \in {\hE9, \hEB} THEN 1 ELSE 0

\* a try at a row: ok, the padding, the displacement, whether out of range
Tried(v, ilen) == [ok |-> TRUE, nops |-> 0, v |-> v, range |-> FALSE, ilen |-> ilen, errs |-> {}]

\* the row has a self-relative operand of dlen bytes
Reach(s, row, e, isegx, dlen) ==
  LET ilen == Len(HexBytes(row)) + dlen
      nops == IF e.t.fwd /\ dlen = 1 /\ ~e.t.sho THEN 2 - Adjust(row) ELSE 0
      disp == e.v - s.iloc - ilen
      far  == IF isegx /= 0 /\ (s.segptr = "" \/ isegx /= s.st[s.segptr].x)
              THEN {"SEGMENT"} ELSE {}
      near == [Tried(e.v, ilen) EXCEPT !.errs = far]
  IN  CASE "EXT" \in e.f \/ (e.t.fwd /\ s.pass = 1) -> Tried(e.v, ilen)
        [] OTHER ->
             IF dlen = 1 /\ disp \in -128 .. 127
             THEN [near EXCEPT !.nops = nops, !.v = disp]
             ELSE IF dlen = 1 /\ e.t.sho
             THEN [near EXCEPT !.v = disp, !.errs = @ \cup {"RANGE"}]
             ELSE IF dlen = 2 /\ disp \in -32768 .. 32767
             THEN near
             ELSE [near EXCEPT !.ok = FALSE, !.nops = nops, !.range = TRUE]

self(s, row, e, isegx) ==
  IF row.ops = <<>> \/ row.ops[1] \notin {"S8", "S1632"} THEN Tried(e.v, 0)
  ELSE Reach(s, row, e, isegx, IF row.ops[1] = "S8" THEN 1 ELSE 2)

NoRow == Row("", <<>>, <<>>)

\* what a try at a row leaves: found, or on to the next one
After(t, row, r) ==
  [t EXCEPT !.errs = @ \cup r.errs, !.range = @ \/ r.range, !.ilen = r.ilen,
            !.nops = r.nops, !.found = r.ok, !.row = row, !.tries = Tail(@),
            !.es = IF @ = <<>> \/ ~r.ok THEN @ ELSE [@ EXCEPT ![1].v = r.v]]

Try(s, t, row) == After(t, row, self(s, row, IF t.es = <<>> THEN Null ELSE t.es[1], t.isegx))

\* the first try that the table has and whose reference is within reach
First(s, t) ==
  IF t.found \/ t.tries = <<>> THEN t
  ELSE IF ~HasRow(t.mn, Head(t.tries)) THEN First(s, [t EXCEPT !.tries = Tail(@)])
  ELSE First(s, Try(s, t, TheRow(t.mn, Head(t.tries))))

-----------------------------------------------------------------------------
(* generate: the code of a row, one directive after the other.             *)

RM == [r \in {{"BX", "SI"}, {"BX", "DI"}, {"BP", "SI"}, {"BP", "DI"},
              {"SI"}, {"DI"}, {"BP"}, {"BX"}} |->
         CASE r = {"BX", "SI"} -> 0 [] r = {"BX", "DI"} -> 1 [] r = {"BP", "SI"} -> 2
           [] r = {"BP", "DI"} -> 3 [] r = {"SI"} -> 4 [] r = {"DI"} -> 5
           [] r = {"BP"} -> 6 [] r = {"BX"} -> 7]

\* Mutant: [BP] gets no displacement, as if it were any other register.
genModRMBare(s, xxx, e) ==
  LET rel == e.t.mem
      dsz == IF rel THEN 2
             ELSE IF e.t.con /\ e.v /= 0 THEN (IF e.v \in -128 .. 127 THEN 1 ELSE 2) ELSE 0
      rm  == IF e.t.ind \in DOMAIN RM THEN RM[e.t.ind] ELSE 6
      s1  == genabs(s, (IF e.t.ind /= {} THEN 64 * dsz + rm ELSE IF IsMemory(e.t) THEN 6
                        ELSE \hC0 + enreg(e.t.base)) + 8 * xxx, 1)
  IN  IF e.t.ind = {} /\ ~IsMemory(e.t) THEN s1
      ELSE IF rel THEN genrel(s1, e, "M")
      ELSE IF e.t.ind = {} THEN genabs(s1, e.v, 2)
      ELSE IF dsz > 0 THEN genabs(s1, e.v, dsz) ELSE s1

\* genModRM: the byte that says how operand e is reached, and its displacement
genModRM(s, xxx, e) ==
  LET rel == e.t.mem
      dsz == IF rel THEN 2
             ELSE IF e.t.con /\ e.v /= 0 THEN (IF e.v \in -128 .. 127 THEN 1 ELSE 2)
             ELSE IF e.t.ind = {"BP"} THEN 1 ELSE 0
      rm  == IF e.t.ind \in DOMAIN RM THEN RM[e.t.ind] ELSE 6
  IN  IF e.t.ind /= {}
      THEN LET s1 == genabs(IF e.t.ind \in DOMAIN RM THEN s ELSE err(s, "EXPR"),
                            64 * dsz + 8 * xxx + rm, 1)
           IN  IF rel THEN genrel(s1, e, "M") ELSE IF dsz > 0 THEN genabs(s1, e.v, dsz) ELSE s1
      ELSE IF IsMemory(e.t)
      THEN LET s1 == genabs(s, 8 * xxx + 6, 1)
           IN  IF rel THEN genrel(s1, e, "M") ELSE genabs(s1, e.v, 2)
      ELSE genabs(s, \hC0 + 8 * xxx + enreg(e.t.base), 1)

\* genIMM: an immediate operand, of the size it was matched as
genIMM(s, e, op) ==
  IF e.x /= 0 THEN genrel(s, e, op) ELSE genabs(s, e.v, IF op = "I8" THEN 1 ELSE 2)

InFar(s) == s.proptr /= "" /\ "FAR" \in flags(s, s.proptr)

\* an offset in an operand: a number if it names nothing that can be moved
Offset(s, e, op) ==
  IF e.f \cap {"DAT", "COD", "EXT", "SEG", "GRP"} = {} THEN genabs(s, e.v, 2)
  ELSE genrel(s, e, op)

Directive(s, d, es, ops) ==
  CASE d[1] = "hex"    -> genabs(s, d[2], 1)
    [] d[1] = "hex+f"  -> genabs(s, d[2] + (IF InFar(s) THEN 8 ELSE 0), 1)
    [] d[1] = "hex+r1" -> genabs(s, d[2] + enreg(es[1].t.base), 1)
    [] d[1] = "/x"     -> genModRM(s, d[2], es[1])
    [] d[1] \in {"/r12", "/s12"} -> genModRM(s, enreg(es[1].t.base), es[2])
    [] d[1] \in {"/r21", "/s21"} -> genModRM(s, enreg(es[2].t.base), es[1])
    [] d[1] = "i"      -> genIMM(s, es[d[2]], ops[d[2]])
    [] d[1] = "o"      -> Offset(s, es[d[2]], ops[d[2]])
    [] d[1] = "p"      -> genrel(s, es[d[2]], ops[d[2]])
    [] d[1] = "$"      -> IF ops[1] = "S8" THEN genabs(s, es[1].v, 1)
                          ELSE Offset(s, es[1], ops[1])

Generate(s, row, t) ==
  IF row.code = <<>> THEN s
  ELSE Generate(Directive(s, Head(row.code), t.es, row.ops),
                [row EXCEPT !.code = Tail(@)], t)

\* the padding
Nops(s, n) == IF n <= 0 THEN s ELSE Emit(s, "abs", 1, [i \in 1 .. n |-> \h90], NoFix)

-----------------------------------------------------------------------------
(* donext: one instruction, or a prefix and the instruction behind it.     *)

\* the segment register an operand in segment isegx is reached by
Register(s, es, isegx) ==
  LET over == SelectSeq(es, LAMBDA e : e.over /= "")
  IN  IF over /= <<>> THEN Last(over).over
      ELSE IF isegx = 0 THEN "" ELSE sx2srpx(s, isegx, "DS")

\* the register it is reached by without a prefix
DefaultRegister(es) ==
  IF \E e \in ToSet(es) : "BP" \in e.t.ind THEN "SS" ELSE "DS"

\* Mutant: it is not checked.
CheckCSNever(s) == [s EXCEPT !.CScheck = FALSE]

\* the first instruction of a segment checks that CS is assumed for it.  Behind
\* ENDS the code compares with a byte at a null pointer: it is no segment's index
CheckCS(s) ==
  IF ~s.CScheck THEN s
  ELSE [(IF s.segptr /= "" /\ srpx2sx(s, "CS") = s.st[s.segptr].x
         THEN s ELSE err(s, "CS")) EXCEPT !.CScheck = FALSE]

Begin(s) == [CheckCS(s) EXCEPT !.iloc = s.loc]

\* the operands' errors; the second operand's type outlives the instruction
Noted(s, mn, es, isegx, isr) ==
  [s EXCEPT !.lerr = @ \cup UNION {e.errs : e \in ToSet(es)}
                       \cup (IF isegx /= 0 /\ isr = "" /\ seed(mn) = "M0" THEN {"SEGMENT"} ELSE {}),
            !.et2 = CASE es = <<>> -> @
                      [] Len(es) = 1 -> setsize(@, es[1].t)
                      [] Len(es) > 1 -> es[2].t]

\* the code of what was found; pref is the segment register to name in a prefix
Complete(s, t, pref) ==
  IF t.found
  THEN Nops(Generate(IF pref = "" THEN s ELSE genabs(s, srpref(pref), 1), t.row, t), t.nops)
  ELSE IF t.range THEN [err(s, "RANGE") EXCEPT !.loc = @ + t.ilen]
  ELSE err(s, "INVALID")

Warned(s, t) == [s EXCEPT !.lerr = @ \cup t.errs
                                     \cup (IF t.found /\ future(t.row) THEN {"HARDWARE"} ELSE {})]

Judged(s, t, pref) == Complete(Warned(s, t), t, pref)

\* the instruction whose operands are es
Seek(s, mn, es, isegx, isr) ==
  Judged(Noted(s, mn, es, isegx, isr),
         First(s, [mn |-> mn, tries |-> Tries(es), es |-> es, isegx |-> isegx, found |-> FALSE,
                   row |-> NoRow, errs |-> {}, range |-> FALSE, ilen |-> 0, nops |-> 0]),
         IF isr /= DefaultRegister(es) /\ seed(mn) = "M0" THEN isr ELSE "")

Evaluated(s, mn, es) ==
  Seek(s, mn, Sizes(s, es), SegmentOf(es), Register(s, es, SegmentOf(es)))

Operate(s, mn, args) == Evaluated(s, mn, OperandsOf(s, args, seed(mn)))

donext(s, mn, args) == Operate(Begin(s), mn, args)

\* domach: a line whose operation is a machine instruction; what is behind a
\* prefix has no operands
domach(s, ln) ==
  IF ln.op \in PrefixOps
  THEN donext(donext(s, ln.op, <<>>), ln.args[1], <<>>)
  ELSE donext(s, ln.op, ln.args)
=============================================================================
