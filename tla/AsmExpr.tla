------------------------------- MODULE AsmExpr -------------------------------
(***************************************************************************)
(* Symbol table, segment assumptions and operand analysis of Small         *)
(* Assembler (asm4.c, asm3.c).                                             *)
(*                                                                         *)
(* A line of source comes as its fields (Line), an operand as the parts    *)
(* the analyser tells apart (Operand):                                     *)
(*         [pre [PTR]] [over :] term [ind] + disp                          *)
(* The assembler's variables are one record, s: st and stp the symbol      *)
(* table, loc, iloc, segndx and segptr where it is, assume the segment     *)
(* registers of each segment, lerr the errors of the line, pass the pass.  *)
(***************************************************************************)
EXTENDS AsmTable, TLC

\* the fields of a line: label, name in front of a directive, operation, operands
Line(lab, name, op, args) == [lab |-> lab, name |-> name, op |-> op, args |-> args]

Operand(pre, over, term, sym, num, ind, disp) ==
  [pre |-> pre, over |-> over, term |-> term, sym |-> sym, num |-> num,
   ind |-> ind, disp |-> disp]

NoOperand == Operand("", "", "null", "", 0, {}, 0)

err(s, e) == [s EXCEPT !.lerr = @ \cup {e}]

-----------------------------------------------------------------------------
(* Symbols.                                                                *)

\* a new entry of the table: flags, value, link (alias, class or next external),
\* segments of a group, index in the object file, size, align and combine type
NoSymbol == [fl |-> {}, val |-> 0, link |-> "", list |-> <<>>, x |-> 0, size |-> 0,
             align |-> "", comb |-> ""]

stfind(s, n) == n \in DOMAIN s.st
flags(s, n)  == IF stfind(s, n) THEN s.st[n].fl ELSE {}

addsym(s, n) ==
  IF stfind(s, n) THEN s
  ELSE [s EXCEPT !.st = (n :> NoSymbol) @@ @, !.stp = Append(@, n)]

orflags(s, n, fl) == [s EXCEPT !.st[n].fl = @ \cup fl]

setval2(s, n, v) == [s EXCEPT !.st[n].val = v]

\* newsym: a name may be new to the table or so far only be declared PUBLIC;
\* what is external stays so, and any other name is reported in pass 2
IsNew(s, n) == flags(s, n) \in {{}, {"PUB"}}

newsym(s, n, fl) ==
  IF IsNew(s, n) THEN orflags(addsym(s, n), n, fl)
  ELSE IF "EXT" \in flags(s, n) THEN s
  ELSE IF s.pass = 1 THEN orflags(s, n, {"RED"})
  ELSE IF "RED" \in flags(s, n) THEN err(s, "RED")
  ELSE s

-----------------------------------------------------------------------------
(* Segment registers: assume[x] lists those assumed for segment x.         *)

nosegs(s) == [s EXCEPT !.assume = [x \in DOMAIN @ |-> <<>>]]

\* the register to reach segment x by: the preferred one, or the last assumed
sx2srpx(s, x, prefer) ==
  LET regs == IF x \in DOMAIN s.assume THEN s.assume[x] ELSE <<>>
  IN  IF Contains(regs, prefer) THEN prefer
      ELSE IF regs = <<>> THEN "" ELSE Last(regs)

\* the first segment that sr is assumed for, 0 if there is none
srpx2sx(s, sr) ==
  LET xs == {x \in DOMAIN s.assume : Contains(s.assume[x], sr)}
  IN  IF xs = {} THEN 0 ELSE CHOOSE x \in xs : \A y \in xs : x <= y

-----------------------------------------------------------------------------
(* An expression type: the operand type with its size in bytes (0 when it  *)
(* is not known) and the expression type bits of asm.h.                    *)

Type(base, size) == [base |-> base, size |-> size, mem |-> FALSE, con |-> FALSE,
                     ind |-> {}, fwd |-> FALSE, sho |-> FALSE]
MemType(base, size) == [Type(base, size) EXCEPT !.mem = TRUE]
ConType(base)       == [Type(base, 2) EXCEPT !.con = TRUE]
NullType == Type("", 0)

\* the operand type's name in the table
TypeName(t) == IF t.base \in {"M", "_"} THEN t.base \o ToString(8 * t.size) ELSE t.base

IsReg(t)    == t.base \in Regs
IsMemory(t) == t.base \in {"M", "_", "S8", "S1632", "P32"}
SeedType(seed0) == IF seed0 = "M0" THEN MemType("M", 0) ELSE MemType(seed0, 0)

\* ctype: the type of a constant
ctype(v) == CASE v = 1 -> "ONE"
              [] v = 3 -> "THREE"
              [] v \in 0 .. 63 \ {1, 3} -> "I6"
              [] v \in -128 .. -1 \cup 64 .. 255 -> "I8"
              [] OTHER -> "I16"

\* the value of an expression: value, type, flags, index, segment override
Value(v, t, f, x) == [v |-> v, t |-> t, f |-> f, x |-> x, over |-> "", errs |-> {}]
Null == Value(0, NullType, {}, 0)

forward(s, v, x) == x > s.segndx \/ v > s.iloc

\* the type a defined symbol is first tried as
SymbolType(s, e, seed0) ==
  CASE e.fl \cap {"SET", "EQU"} /= {} -> ConType("I")
    [] e.fl \cap {"SEG", "GRP"} /= {} -> ConType("I16")
    [] "COD" \in e.fl ->
         [(IF "FAR" \in e.fl THEN MemType("P32", 4)
           ELSE IF seed0 = "M0" THEN MemType("M", 0)
           ELSE IF "EXT" \in e.fl THEN MemType("S1632", 0)
           ELSE MemType("S8", 0)) EXCEPT !.fwd = forward(s, e.val, e.x)]
    [] "DAT" \in e.fl -> MemType(IF seed0 = "M0" \/ e.size /= 2 THEN "M" ELSE "_", e.size)
    [] OTHER -> NullType

\* primary, an entry of the table; far: FAR PTR is in front of it
Entry(s, e, seed0, far) ==
  [Value(e.val, SymbolType(s, e, seed0), e.fl, e.x)
     EXCEPT !.errs = {c \in {"FAR", "EXPR"} :
                        IF c = "FAR" THEN ~far /\ "FAR" \in e.fl /\ forward(s, e.val, e.x)
                        ELSE SymbolType(s, e, seed0) = NullType}]

\* primary, a symbol; what it stands for may be another one's entry
Symbol(s, n, seed0, far) ==
  IF flags(s, n) \in {{}, {"PUB"}}
  THEN [Value(0, [(IF seed0 = "M0" THEN MemType("M", 0) ELSE MemType("S1632", 0))
                    EXCEPT !.fwd = TRUE], IF far THEN {"FAR"} ELSE {}, 0)
          EXCEPT !.errs = {"UNDEFINED"}]
  ELSE Entry(s, IF "EQU" \in s.st[n].fl /\ s.st[n].link /= ""
                THEN s.st[s.st[n].link] ELSE s.st[n], seed0, far)

primary(s, op, seed0) ==
  CASE op.term = "null" -> Null
    [] op.term = "num" -> Value(op.num, ConType(IF op.over = "" THEN "I" ELSE "M"), {}, 0)
    [] op.term = "loc" -> Value(s.iloc, SeedType(seed0), {}, s.segndx)
    [] op.term = "reg" -> Value(0, Type(op.sym, 2), {}, 0)
    [] op.term = "sym" -> Symbol(s, op.sym, seed0, op.pre = "FAR")
    [] OTHER           -> Value(0, Type("_", 0), {}, 0)

\* [ind]: what is in the brackets makes the operand an indirect one
Indirect(e, op) ==
  IF op.ind = {} THEN e
  ELSE [e EXCEPT !.t = [Type("_", IF op.term = "none" THEN e.t.size ELSE 0)
                          EXCEPT !.mem = e.t.mem, !.con = e.t.con, !.fwd = e.t.fwd,
                                 !.sho = e.t.sho, !.ind = op.ind]]

Bytes == [BYTE |-> 1, WORD |-> 2, DWORD |-> 4]

\* unary: OFFSET, SEG, SHORT and ... PTR in front of a primary
Prefixed(e, op, seed0) ==
  CASE op.pre = "" -> e
    [] op.pre = "OFFSET" ->
         IF e.t.mem THEN [e EXCEPT !.t = ConType("I"), !.f = @ \ {"SEG", "GRP"}]
         ELSE [e EXCEPT !.errs = @ \cup {"EXPR"}]
    [] op.pre = "SEG" ->
         IF e.t.mem THEN [e EXCEPT !.v = 0, !.t = ConType("I"), !.f = @ \cup {"SEG"}]
         ELSE [e EXCEPT !.errs = @ \cup {"EXPR"}]
    [] op.pre = "SHORT" ->
         [e EXCEPT !.t = [MemType("S8", 0) EXCEPT !.fwd = e.t.fwd, !.sho = TRUE]]
    [] op.pre = "NEAR" -> [e EXCEPT !.f = @ \ {"FAR"}, !.t = SeedType(seed0)]
    [] op.pre = "FAR"  -> [e EXCEPT !.f = @ \cup {"FAR"}, !.t = MemType("P32", 4)]
    [] OTHER -> [e EXCEPT !.t.size = Bytes[op.pre]]

\* + disp: an address or a constant moves, a register cannot
Displaced(e, op) ==
  IF op.disp = 0 THEN e
  ELSE IF op.ind /= {} THEN [e EXCEPT !.v = @ + op.disp, !.t.con = TRUE]
  ELSE IF e.t.con \/ e.t.mem THEN [e EXCEPT !.v = @ + op.disp]
  ELSE [e EXCEPT !.errs = @ \cup {"EXPR"}]

\* a segment register in front needs something in memory; a constant is typed
\* by its value
Typed(e, op) ==
  [e EXCEPT !.over = op.over,
            !.errs = @ \cup (IF op.over /= "" /\ ~IsMemory(e.t) THEN {"SEGMENT"} ELSE {}),
            !.t.base = IF op.over = "" /\ e.t.con /\ ~e.t.mem /\ e.t.ind = {}
                       THEN ctype(e.v) ELSE @]

\* expr: evaluate an operand
expr(s, op, seed0) ==
  Typed(Displaced(Indirect(Prefixed(primary(s, op, seed0), op, seed0), op), op), op)

\* doexpr: an expression of a directive, a constant if con
Demanded(e, con) == IF con /\ ~e.t.con THEN [e EXCEPT !.errs = @ \cup {"EXPR"}] ELSE e
doexpr(s, op, con) == Demanded(expr(s, op, "M0"), con)
=============================================================================
