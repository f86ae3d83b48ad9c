-------------------------------- MODULE Expr --------------------------------
(***************************************************************************)
(* The expression analyzer, cc3.c: a recursive descent over the operator   *)
(* levels that writes p-codes as it goes.                                  *)
(*                                                                         *)
(* c is the compiler's state of Stage with the tokens ahead in c.in, what  *)
(* the last parsed operand is in c.is (the is[] array) and in c.k (1 when  *)
(* the primary register, or the symbol, still has to be fetched through).  *)
(* A token is <<kind, value>>, kind being the operator, "id", "num",       *)
(* "chr", "str", "type" or "sizeof".                                       *)
(***************************************************************************)
EXTENDS Consts, Stage

CONSTANT Extern          \* the addresses of what no declaration defines

\* A symbol table entry.  adr is a label's address, or the offset from BP of
\* an automatic variable; cls is a struct's size and members; strides those
\* of all but the last dimension.
NoClass == [size |-> 0, members |-> <<>>, order |-> <<>>, union |-> FALSE]
Symbol(ident, type, adr) ==
  [ident |-> ident, type |-> type, adr |-> adr, class |-> "global", depth |-> 0,
   const |-> FALSE, cls |-> NoClass, strides |-> <<>>]
NoSym == Symbol(None, None, 0)
Functions == {"function", "ptr_function"}
isPtrLike(sym) == sym.ident \in {"pointer", "fnptr"}

\* The is[] array.  bits is a bit-field's width, offset and sign.
NoBits == [width |-> 0, off |-> 0, signed |-> FALSE]
Cleared == [sym |-> NoSym, obj |-> None, adr |-> None, cnst |-> None, val |-> 0, hi |-> 0,
            last |-> None, stg |-> 0, depth |-> 0, tval |-> None, dim |-> 0, bits |-> NoBits]

isLongVal(is) ==
  \/ SizeOf[is.cnst] = 4
  \/ SizeOf[is.obj] = 4 /\ is.adr = None
  \/ is.obj = None /\ is.adr = None /\ ~isPtrLike(is.sym) /\ SizeOf[is.sym.type] = 4
isUnsigned(is) ==
  \/ is.adr /= None
  \/ is.cnst \in {"uint", "ulong"}
  \/ IsUnsignedType(is.tval)
  \/ IsUnsignedType(is.sym.type)

-----------------------------------------------------------------------------
(* Tokens.                                                                 *)

Tok(c) == IF c.in = <<>> THEN <<"end", 0>> ELSE Head(c.in)
Ahead(c, kind) == Tok(c)[1] = kind
Bumped(c) == IF c.in = <<>> THEN c ELSE [c EXCEPT !.in = Tail(@)]
require(c, kind) == IF Ahead(c, kind) THEN Bumped(c) ELSE error(c)
experr(c) == Bumped(gen(error(c), "GETw1n", 0))

-----------------------------------------------------------------------------
(* Loads, stores and steps.                                                *)

\* Each is given by the p-codes it writes, as <<pcode, value>> pairs.

ConstLoad(is) ==
  <<<<"GETw1n", S(is.val)>>>> \o (IF SizeOf[is.cnst] = 4 THEN <<<<"GETdxn", S(is.hi)>>>> ELSE <<>>)
genConstLoad(c, is) == gens(c, ConstLoad(is))

Mask(width) == IF width >= WordBits THEN -1 ELSE 2^width - 1
\* A field in the word that AX is: to its low bits, and its sign up and back.
Extract(b) ==
  (IF b.off > 0 THEN <<<<"SHR1n", b.off>>>> ELSE <<>>) \o <<<<"AND1n", Mask(b.width)>>>> \o
  (IF b.signed /\ b.width < WordBits
   THEN <<<<"SHL1n", WordBits - b.width>>, <<"SAR1n", WordBits - b.width>>>> ELSE <<>>)
fetchBF(b) == <<<<"GETw1p", 0>>>> \o Extract(b)
storeBF(b) ==
  <<<<"AND1n", Mask(b.width)>>>> \o (IF b.off > 0 THEN <<<<"SHL1n", b.off>>>> ELSE <<>>) \o
  <<<<"PUSH2", 0>>, <<"GETw2p", 0>>, <<"SWAP12", 0>>,
    <<"AND1n", -1 - (IF b.width >= WordBits THEN -1 ELSE S(Mask(b.width) * 2^b.off))>>,
    <<"OR12", 0>>, <<"POP2", 0>>, <<"PUTwp1", 0>>>>
\* What the step gives is kept on the stack over the store: the new value,
\* or the old one when the operator is behind the operand.
genBFStep(oper, b, after) ==
  <<<<"PUSH1", 0>>, <<"GETw1p", 0>>>> \o Extract(b) \o
  (IF after THEN <<<<"PUSH1", 0>>, <<oper, 1>>>> ELSE <<<<oper, 1>>, <<"PUSH1", 0>>>>) \o
  storeBF(b) \o <<<<"POP2", 0>>, <<"SWAP12", 0>>, <<"POP2", 0>>>>

store(is) ==
  CASE is.bits.width /= 0 -> storeBF(is.bits)
    [] is.bits.width = 0 /\ is.obj /= None ->
         <<<<CASE SizeOf[is.obj] = 4 -> "PUTdp1"
               [] SizeOf[is.obj] = 1 -> "PUTbp1"
               [] OTHER -> "PUTwp1", 0>>>>
    [] OTHER ->
         <<<<CASE ~isPtrLike(is.sym) /\ SizeOf[is.sym.type] = 4 -> "PUTdm1"
               [] ~isPtrLike(is.sym) /\ SizeOf[is.sym.type] = 1 -> "PUTbm1"
               [] OTHER -> "PUTwm1", is.sym.adr>>>>

fetch(is) ==
  CASE is.bits.width /= 0 -> fetchBF(is.bits)
    [] is.bits.width = 0 /\ is.obj /= None ->
         <<<<CASE SizeOf[is.obj] = 4 -> "GETd1p"
               [] SizeOf[is.obj] = 2 -> "GETw1p"
               [] OTHER -> IF IsUnsignedType(is.obj) THEN "GETb1pu" ELSE "GETb1p", 0>>>>
    [] OTHER ->
         <<<<CASE isPtrLike(is.sym) \/ SizeOf[is.sym.type] = 2 -> "GETw1m"
               [] ~isPtrLike(is.sym) /\ SizeOf[is.sym.type] = 4 -> "GETd1m"
               [] OTHER -> IF IsUnsignedType(is.sym.type) THEN "GETb1mu" ELSE "GETb1m", is.sym.adr>>>>
\* What the levels do with an operand whose value they need.
Value(c) == IF c.k = 1 THEN gens(c, fetch(c.is)) ELSE c
ValueOrConst(c) ==
  gens(c, IF c.k = 1 THEN fetch(c.is) ELSE IF c.is.cnst /= None THEN ConstLoad(c.is) ELSE <<>>)

Contrary(oper) == IF oper = "rINC1" THEN "rDEC1" ELSE "rINC1"
Wider(oper) == IF oper = "rINC1" THEN "rINCd1" ELSE "rDECd1"
step(oper, is, after) ==
  LET size == IF is.adr = None THEN 1 ELSE IF is.depth > 1 THEN 2 ELSE SizeOf[is.adr]
      By(o) == <<<<IF isLongVal(is) /\ is.adr = None THEN Wider(o) ELSE o, size>>>>
  IN IF is.bits.width /= 0 THEN genBFStep(oper, is.bits, after)
     ELSE fetch(is) \o By(oper) \o store(is) \o (IF after THEN By(Contrary(oper)) ELSE <<>>)

Widen(is) == <<<<IF isUnsigned(is) THEN "WIDENu" ELSE "WIDENs", 0>>>>
widenPrimary(c, is) == gens(c, Widen(is))
widenSecondary(is) == <<<<IF isUnsigned(is) THEN "WIDENu2" ELSE "WIDENs2", 0>>>>
\* The primary register is made long for the sake of the other operand.
WidenFor(long, is) == IF long /\ ~isLongVal(is) THEN Widen(is) ELSE <<>>

-----------------------------------------------------------------------------
(* Binary operators.  op[] and op2[] of cc1.c: the p-codes of an operator  *)
(* for signed and for unsigned operands.                                   *)

op == ("|" :> "OR12") @@ ("^" :> "XOR12") @@ ("&" :> "AND12") @@ ("==" :> "EQ12") @@ ("!=" :> "NE12") @@
      ("<=" :> "LE12") @@ (">=" :> "GE12") @@ ("<" :> "LT12") @@ (">" :> "GT12") @@
      (">>" :> "ASR12") @@ ("<<" :> "ASL12") @@ ("+" :> "ADD12") @@ ("-" :> "SUB12") @@
      ("*" :> "MUL12") @@ ("/" :> "DIV12") @@ ("%" :> "MOD12")
op2 == ("<=" :> "LE12u") @@ (">=" :> "GE12u") @@ ("<" :> "LT12u") @@ (">" :> "GT12u") @@ (">>" :> "LSR12") @@
       ("*" :> "MUL12u") @@ ("/" :> "DIV12u") @@ ("%" :> "MOD12u") @@ op
\* The operators of level5() to level12(), and those of level1().
Operators == (5 :> {"|"}) @@ (6 :> {"^"}) @@ (7 :> {"&"}) @@ (8 :> {"==", "!="}) @@
             (9 :> {"<=", ">=", "<", ">"}) @@ (10 :> {">>", "<<"}) @@ (11 :> {"+", "-"}) @@
             (12 :> {"*", "/", "%"})
Assignment == ("|=" :> "|") @@ ("^=" :> "^") @@ ("&=" :> "&") @@ ("+=" :> "+") @@ ("-=" :> "-") @@
              ("*=" :> "*") @@ ("/=" :> "/") @@ ("%=" :> "%") @@ (">>=" :> ">>") @@ ("<<=" :> "<<") @@
              ("=" :> "")

toLongTab == [ADD12 |-> "ADDd12", SUB12 |-> "SUBd12", MUL12 |-> "MULd12", DIV12 |-> "DIVd12",
              MOD12 |-> "MODd12", AND12 |-> "ANDd12", OR12 |-> "ORd12", XOR12 |-> "XORd12",
              ASL12 |-> "ASLd12", ASR12 |-> "ASRd12", EQ12 |-> "EQd12", NE12 |-> "NEd12",
              LT12 |-> "LTd12", LE12 |-> "LEd12", GT12 |-> "GTd12", GE12 |-> "GEd12",
              MUL12u |-> "MULd12u", DIV12u |-> "DIVd12u", MOD12u |-> "MODd12u", LT12u |-> "LTd12u",
              LE12u |-> "LEd12u", GT12u |-> "GTd12u", GE12u |-> "GEd12u", LSR12 |-> "ASRd12u"]
reverseTab == [LT12 |-> "GT12", GT12 |-> "LT12", LE12 |-> "GE12", GE12 |-> "LE12", LT12u |-> "GT12u",
               GT12u |-> "LT12u", LE12u |-> "GE12u", GE12u |-> "LE12u", EQ12 |-> "EQ12", NE12 |-> "NE12"]
Comparisons == DOMAIN reverseTab
isCmpOp(oper) == oper \in {toLongTab[o] : o \in Comparisons}

ptrScale(oper, p, n) ==
  IF oper \notin {"ADD12", "SUB12"} \/ p.adr \in {None, "void"} \/ n.adr /= None THEN 0
  ELSE IF p.depth > 1 THEN 2 ELSE SizeOf[p.adr]
\* Its error; scalePtrOperands() may report it twice.
NoVoid(c, oper, p, n) ==
  IF oper \in {"ADD12", "SUB12"} /\ p.adr = "void" /\ n.adr = None THEN error(c) ELSE c
Scale(oper, p, n) == IF ptrScale(oper, p, n) = 0 THEN 1 ELSE ptrScale(oper, p, n)

\* The state of down2() between its parts: c, the operators, both operands,
\* whether either is long, and where the stage stood.
tryReverse(q, guard) ==
  IF guard /\ q.oper \in Comparisons /\ q.oper2 \in Comparisons
  THEN [q EXCEPT !.oper = reverseTab[@], !.oper2 = reverseTab[@]] ELSE q
Reversible(q) == q.oper \in Comparisons /\ q.oper2 \in Comparisons

\* Arm A: the left operand is a constant, the right one in the register.
ConstLeft(q) ==
  LET zero == q.is.val = 0 /\ (q.long => q.is.hi = 0)
      Loaded == IF q.long THEN <<<<"GETw2n", S(q.is.val)>>, <<"GETcxn", S(q.is.hi)>>>>
                ELSE <<<<"GETw2n", S(q.is.val * Scale(q.oper, q.is2, q.is))>>>>
      Sound(c) == IF q.long THEN c ELSE NoVoid(c, q.oper, q.is2, q.is)
      Wide(c) == [q EXCEPT !.c = gens(Sound(c), Loaded), !.is.stg = IF zero THEN c.snext ELSE @]
  IN Wide(gens(q.c, WidenFor(q.long, q.is2)))

emitConst32Rhs(q) ==
  LET low == S(q.is2.val)
      high == S(q.is2.hi)
  IN [q EXCEPT !.c = gens(@, WidenFor(TRUE, q.is) \o
        (IF q.oper = "ADD12" THEN <<<<"GETw2n", low>>, <<"GETcxn", high>>>>
         ELSE <<<<"MOVEd21", 0>>, <<"GETw1n", low>>, <<"GETdxn", high>>>>))]
emitConst16Rhs(q) ==
  LET n == S(q.is2.val * Scale(q.oper, q.is, q.is2))
      reversed == q.oper /= "ADD12" /\ Reversible(q) /\ q.is.stg = 0
  IN [tryReverse(q, reversed) EXCEPT
        !.c = gens(NoVoid(@, q.oper, q.is, q.is2), IF q.oper = "ADD12" \/ reversed THEN <<<<"GETw2n", n>>>>
                      ELSE <<<<"MOVE21", 0>>, <<"GETw1n", n>>>>)]

\* Arm B: the right operand is a constant; the push is taken back.
ConstRight(q) ==
  LET zero == q.is2.val = 0 /\ q.is2.hi = 0
      Back(r) == IF r.long THEN emitConst32Rhs(r) ELSE emitConst16Rhs(r)
  IN Back([q EXCEPT !.c = unstage([@ EXCEPT !.csp = @ + (IF q.leftLong THEN 4 ELSE 2)], q.before),
                    !.is.stg = IF zero THEN q.start ELSE 0])

prepLongRegs(q) ==
  WidenFor(TRUE, q.is2) \o (IF q.leftLong THEN <<<<"POPd2", 0>>>> ELSE <<<<"POP2", 0>>>> \o widenSecondary(q.is))
scalePtrOperands(q) ==
  LET Doubled(scale, dbl) == CASE scale = 4 -> <<<<dbl, 0>>, <<dbl, 0>>>>
                               [] scale = 2 -> <<<<dbl, 0>>>>
                               [] OTHER -> <<>>
  IN Doubled(ptrScale(q.oper, q.is, q.is2), "DBL1") \o Doubled(ptrScale(q.oper, q.is2, q.is), "DBL2")

\* Arm C: the left operand is on the stack, the right one in the register,
\* or still to be loaded by the one p-code behind the push.
OneLoad(q) == /\ ~q.long /\ q.before /= 0 /\ q.c.snext = q.before + 2
              /\ q.c.stage[q.before + 1].op \in {"GETw1m", "GETw1s"}
LoadedLate(q) ==
  LET rhs == q.c.stage[q.before + 1]
  IN [tryReverse(q, TRUE) EXCEPT
        !.c = gen(unstage([@ EXCEPT !.csp = @ + 2], q.before),
                  IF rhs.op = "GETw1m" THEN "GETw2m" ELSE "GETw2s", rhs.v)]
BothVariable(q) ==
  IF OneLoad(q) /\ Reversible(q) THEN LoadedLate(q)
  ELSE IF OneLoad(q) THEN [q EXCEPT !.c = gen(@, "POP2", 0)]
  ELSE IF q.long THEN [q EXCEPT !.c = gens(@, prepLongRegs(q))]
  ELSE [q EXCEPT !.c = gens(NoVoid(NoVoid(@, q.oper, q.is, q.is2), q.oper, q.is2, q.is),
                            <<<<"POP2", 0>>>> \o scalePtrOperands(q))]

\* foldConst32() and the folding of two words.
Widened(is) == IF SizeOf[is.cnst] = 4 THEN is.hi * Word + is.val
               ELSE IF is.cnst = "uint" \/ S(is.val) >= 0 THEN is.val ELSE Long - Word + is.val
foldConst32(oper, is, is2) ==
  LET unsigned == isUnsigned(is) \/ isUnsigned(is2)
      Folded(r) ==
        IF oper \in Comparisons THEN [is EXCEPT !.val = lo(r), !.hi = 0, !.cnst = "int"]
        ELSE [is EXCEPT !.val = lo(r), !.hi = hi(r), !.cnst = IF unsigned THEN "ulong" ELSE "long"]
  IN Folded(IF unsigned THEN calcUConst32(Widened(is), oper, Widened(is2))
            ELSE calcConst32(Widened(is), oper, Widened(is2)))
foldConst16(oper, is, is2) ==
  [is EXCEPT !.val = calcConst(is.val, oper, is2.val), !.cnst = IF is2.cnst = "uint" THEN "uint" ELSE @]

applyResultType(oper, is, is2) ==
  LET Typed(t) == IF t.sym = NoSym \/ (is2.sym /= NoSym /\ IsUnsignedType(is2.sym.type))
                  THEN [t EXCEPT !.sym = is2.sym] ELSE t
  IN Typed(CASE oper \notin {"ADD12", "SUB12"} \/ is2.adr = None -> is
             [] is.adr /= None /\ is2.adr /= None -> [is EXCEPT !.adr = None, !.depth = 0]
             [] OTHER -> [is EXCEPT !.sym = is2.sym, !.obj = is2.obj, !.adr = is2.adr, !.depth = is2.depth])

\* The end of down2(): two constants are folded.  Otherwise the operator is
\* written, with the difference of two pointers divided by the size of what
\* they point to.
Folded(q, oper) == IF q.long THEN foldConst32(oper, q.is, q.is2) ELSE foldConst16(oper, q.is, q.is2)
Between(q, oper, element) ==
  IF oper = "SUB12" /\ q.is.adr /= None /\ q.is2.adr /= None /\ element \in {2, 4}
  THEN <<<<"SWAP12", 0>>, <<"GETw1n", IF element = 2 THEN 1 ELSE 2>>, <<"ASR12", 0>>>> ELSE <<>>
Result(q, is) ==
  CASE q.long /\ isCmpOp(is.last) -> [is EXCEPT !.obj = None, !.sym = NoSym]
    [] q.long /\ ~isCmpOp(is.last) ->
         [is EXCEPT !.obj = IF isUnsigned(is) \/ isUnsigned(q.is2) THEN "ulong" ELSE "long", !.sym = NoSym]
    [] OTHER -> is
WithOperator(q, oper, loper) ==
  IF q.is.cnst /= None /\ q.is2.cnst /= None
  THEN [unstage(q.c, q.before) EXCEPT !.is = applyResultType(oper, Folded(q, oper), q.is2)]
  ELSE [gens(q.c, <<<<loper, 0>>>> \o Between(q, oper, IF q.is.depth > 1 THEN 2 ELSE SizeOf[q.is.adr])) EXCEPT
          !.is = applyResultType(oper, Result(q, [q.is EXCEPT !.cnst = None, !.hi = 0, !.last = loper]), q.is2)]
Chosen(q, oper) == WithOperator(q, oper, IF q.long /\ oper \in DOMAIN toLongTab THEN toLongTab[oper] ELSE oper)
Operated(q) == Chosen(q, IF isUnsigned(q.is) \/ isUnsigned(q.is2) THEN q.oper2 ELSE q.oper)

-----------------------------------------------------------------------------
(* The levels.                                                             *)

RECURSIVE level(_, _)

\* down1(): what a constant wrote is discarded.
down1(n, c) ==
  LET Back(r) == IF r.is.cnst /= None THEN unstage(r, c.snext) ELSE r IN Back(level(n, setstage(c)))

\* down2() up to the operator: is describes the left operand, level n parses
\* the right one.  leftLong is given apart, for subscripts.
Arm(q) == CASE q.is.cnst /= None -> ConstLeft(q)
            [] q.is.cnst = None /\ q.is2.cnst /= None -> ConstRight(q)
            [] OTHER -> BothVariable(q)
Prepared(oper, oper2, n, c, is, leftLong) ==
  LET Both(rhs) == [c |-> rhs, oper |-> oper, oper2 |-> oper2, is |-> [is EXCEPT !.stg = 0],
                    is2 |-> rhs.is, leftLong |-> leftLong, long |-> leftLong \/ isLongVal(rhs.is),
                    before |-> c.snext, start |-> setstage(c).snext]
      pushed == IF is.cnst /= None THEN <<>> ELSE <<<<IF leftLong THEN "PUSHd1" ELSE "PUSH1", 0>>>>
  IN Arm(Both(Value(down1(n, gens(setstage(c), pushed)))))
down2(oper, oper2, n, c, is) == Operated(Prepared(oper, oper2, n, c, is, isLongVal(is)))

\* dropout() and skim(): && and ||.
dropout(c, tcode, label) ==
  LET wide == CASE tcode = "NE10f" -> "NEd10f" [] tcode = "EQ10f" -> "EQd10f"
  IN gen(ValueOrConst(c), IF isLongVal(c.is) THEN wide ELSE tcode, label)
Boxed(c, dropval, droplab) ==
  [gens(c, <<<<"JMPm", c.nxtlab>>, <<"LABm", droplab>>, <<"GETw1n", dropval>>, <<"LABm", c.nxtlab>>>>) EXCEPT
     !.k = 0, !.is = [@ EXCEPT !.obj = None, !.adr = None, !.cnst = None, !.val = 0, !.stg = 0, !.sym = NoSym]]
RECURSIVE skim(_, _, _)
\* of is [oper, tcode, dropval, endval, n] of one of the two.
Dropped(c, past, of, label) ==
  IF Ahead(c, of.oper) THEN skim(dropout(past, of.tcode, label), of, label)
  ELSE Boxed(getlabel(gen(dropout(c, of.tcode, label), "GETw1n", of.endval)), of.dropval, label)
Operand(c, of, droplab) ==
  CASE droplab /= 0 -> Dropped(c, Bumped(c), of, droplab)
    [] droplab = 0 /\ Ahead(c, of.oper) -> Dropped(c, getlabel(Bumped(c)), of, c.nxtlab + 1)
    [] OTHER -> c
skim(c, of, droplab) == Operand(down1(of.n, c), of, droplab)

\* down(): left-associative operators.  level5() to level12() call each other
\* first; what comes back to level n is an operand followed by an operator of
\* some level n or looser, or by none.
RECURSIVE downs(_, _), down(_, _)
downs(n, c) ==
  LET t == Tok(c)[1]
  IN IF t \in Operators[n] THEN downs(n, down2(op[t], op2[t], n + 1, Bumped(c), c.is))
     ELSE [c EXCEPT !.k = 0]
down(n, c) ==
  LET here == {x \in n..12 : Tok(c)[1] \in Operators[x]}
      Back(r) == down(n, IF r.is.cnst /= None THEN unstage(r, c.snext) ELSE r)
  IN IF here = {} THEN c ELSE Back(downs(CHOOSE x \in here : TRUE, Value(c)))

\* doStructAssign(): a struct is copied by a call of structcp.
IsStruct(is) == \/ is.obj = "struct"
                \/ is.obj = None /\ is.sym.type = "struct" /\ is.sym.ident = "variable"
StructCopy(r, is, target, csp) ==
  gens(r, (IF r.is.obj = "struct" THEN <<>> ELSE <<<<"POINT1m", r.is.sym.adr>>>>) \o
    <<<<"MOVE21", 0>>, <<"GETw1n", is.sym.cls.size>>, <<"PUSH1", 0>>, <<"SWAP12", 0>>, <<"PUSH1", 0>>, target,
      <<"PUSH1", 0>>, <<"CALLm", Extern["structcp"]>>, <<"ADDSP", csp>>>>)
CopiedStruct(r, is, target, csp) ==
  IF r.k = 1 /\ (r.is.obj = "struct" \/ (r.is.obj = None /\ r.is.sym.type = "struct"))
  THEN StructCopy(r, is, target, csp) ELSE gen(error(r), "ADDSP", csp)
doStructAssign(c, is) ==
  LET far == is.obj = "struct"
  IN [CopiedStruct(level(1, gens(c, IF far THEN <<<<"PUSH1", 0>>>> ELSE <<>>)), is,
                     IF far THEN <<"GETw1s", c.csp - 2>> ELSE <<"POINT1m", is.sym.adr>>, c.csp) EXCEPT
        !.is = is, !.k = 0]

\* level1(): the assignments, from right to left.  The address of what is
\* assigned through is on the stack meanwhile.
Destination(is) == [Cleared EXCEPT !.sym = is.sym, !.obj = is.obj, !.depth = is.depth, !.bits = is.bits]
RightHand(r, is) == [gens(r, WidenFor(isLongVal(Destination(is)), r.is)) EXCEPT !.is = is]
Computed(c, is, oper) ==
  IF oper = "" THEN RightHand(Value(level(1, c)), is)
  ELSE down2(op[oper], op2[oper], 1, gens(c, fetch(is)), is)
Assigned(past, is, oper) ==
  LET address == IF is.obj /= None THEN <<<<"PUSH1", 0>>>> ELSE <<>>
      back == IF is.obj /= None THEN <<<<"POP2", 0>>>> ELSE <<>>
  IN CASE is.sym.const \/ past.k = 0 -> [error(past) EXCEPT !.k = 0]
       [] oper = "" /\ ~is.sym.const /\ past.k = 1 /\ IsStruct(is) -> doStructAssign(past, is)
       [] OTHER -> [gens(Computed(gens(past, address), is, oper), back \o store(Destination(is))) EXCEPT !.k = 0]
Loaded1(c) == gens(c, IF c.is.cnst /= None THEN ConstLoad(c.is) ELSE <<>>)
AssignedTo(c) == IF Tok(c)[1] \in DOMAIN Assignment THEN Assigned(Bumped(c), c.is, Assignment[Tok(c)[1]]) ELSE c
level1(c) == AssignedTo(Loaded1(down1(2, c)))

\* level2(): the conditional operator.
ConditionalIs(first, is2, is3) ==
  LET cleared == [first EXCEPT !.cnst = None, !.val = 0]
      LikeIs(x) == [cleared EXCEPT !.adr = x.adr, !.obj = x.obj, !.stg = x.stg]
  IN CASE is2.cnst /= None /\ is3.cnst /= None -> [cleared EXCEPT !.adr = None, !.obj = None, !.stg = 0]
       [] is2.cnst = None /\ is3.cnst /= None -> LikeIs(is2)
       [] is3.cnst = None /\ (is2.cnst /= None \/ is2.adr = is3.adr) -> LikeIs(is3)
       [] OTHER -> cleared
Mismatched(is2, is3) == is2.cnst = None /\ is3.cnst = None /\ is2.adr /= is3.adr
Alternative(c) == ValueOrConst(down1(2, c))
Joined(c, is2, first, endlab) ==
  [gen(IF Mismatched(is2, c.is) THEN error(c) ELSE c, "LABm", endlab) EXCEPT
     !.is = ConditionalIs(first, is2, @), !.k = 0]
IfFalse(c, first, flab) ==
  Joined(Alternative(gens(c, <<<<"JMPm", c.nxtlab>>, <<"LABm", flab>>>>)), c.is, first, c.nxtlab)
IfTrue(c) == IfFalse(getlabel(require(Alternative(dropout(c, "NE10f", c.nxtlab)), ":")), c.is, c.nxtlab)
Condition(c) == IF Ahead(c, "?") THEN IfTrue(getlabel(Bumped(c))) ELSE c
level2(c) == Condition(down1(3, c))

\* level13(): the unary operators.
checkModifiable(c) == c.k = 1 /\ ~c.is.sym.const
Stepped(c, oper, after) ==
  IF ~checkModifiable(c) THEN [error(c) EXCEPT !.k = 0]
  ELSE [gens(c, step(oper, c.is, after)) EXCEPT !.k = 0]
StepOf == ("++" :> "rINC1") @@ ("--" :> "rDEC1")
IsLongConst(is) == SizeOf[is.cnst] = 4
Complement(is) ==
  [is EXCEPT !.stg = 0, !.val = Word - 1 - @, !.hi = IF IsLongConst(is) THEN Word - 1 - @ ELSE @]
Negation(is) ==
  LET n == negate32(is.hi * Word + is.val)
  IN [is EXCEPT !.stg = 0, !.val = IF IsLongConst(is) THEN lo(n) ELSE W(Word - @),
                !.hi = IF IsLongConst(is) THEN hi(n) ELSE @]
LogicalNot(is0) ==
  LET is == [is0 EXCEPT !.obj = None, !.sym = NoSym, !.stg = 0]
  IN IF is.cnst = None THEN is
     ELSE [is EXCEPT !.cnst = "int", !.val = Truth(is.val = 0 /\ is.hi = 0), !.hi = 0]
Unary == ("~" :> <<"COM1", "COMd1">>) @@ ("!" :> <<"LNEG1", "LNEGd1">>) @@ ("-" :> <<"ANEG1", "ANEGd1">>)
Computed1(c, oper) ==
  [gen(c, Unary[oper][IF isLongVal(c.is) THEN 2 ELSE 1], 0) EXCEPT
     !.k = 0, !.is = CASE oper = "~" -> Complement(@) [] oper = "-" -> Negation(@) [] oper = "!" -> LogicalNot(@)]

resolveDerefType(is) ==
  CASE is.adr /= None -> is.adr
    [] is.adr = None /\ is.sym /= NoSym -> IF is.sym.ident = "ptr_array" THEN "uint" ELSE is.sym.type
    [] OTHER -> "int"
Dereference(c) ==
  LET is == c.is
      type == resolveDerefType(is)
      wrong == type = "void" /\ is.sym.ident /= "fnptr"
  IN IF is.depth > 1
     THEN [c EXCEPT !.k = 1, !.is = [is EXCEPT !.depth = @ - 1, !.obj = "uint", !.stg = 0,
                                               !.cnst = None, !.val = 1]]
     ELSE [(IF wrong THEN error(c) ELSE c) EXCEPT
             !.k = 1, !.is = [is EXCEPT !.obj = IF wrong THEN "int" ELSE type, !.stg = 0, !.adr = None,
                                        !.cnst = None, !.depth = 0, !.val = 1]]
AddressOf(c) ==
  LET is == [c.is EXCEPT !.adr = c.is.sym.type, !.depth = @ + 1, !.obj = None]
  IN IF c.k = 0 \/ c.is.bits.width /= 0 THEN [error(c) EXCEPT !.k = 0]
     ELSE [(IF c.is.obj /= None THEN c ELSE gen(c, "POINT1m", c.is.sym.adr)) EXCEPT !.is = is, !.k = 0]
\* What sizeof leaves in is[] but for these five is not set: junk.
SizeofIs(c, size) == [Cleared EXCEPT !.cnst = "int", !.val = size, !.tval = IF c.junk THEN "uint" ELSE None]

PostStepped(c) == IF Tok(c)[1] \in DOMAIN StepOf THEN Stepped(Bumped(c), StepOf[Tok(c)[1]], TRUE) ELSE c
Prefixed(t, c) ==
  CASE t \in DOMAIN StepOf -> Stepped(c, StepOf[t], FALSE)
    [] t \in DOMAIN Unary -> Computed1(Value(c), t)
    [] t = "*" -> Dereference(Value(c))
    [] t = "&" -> AddressOf(c)
level13(c) ==
  LET t == Tok(c)
  IN CASE t[1] \in DOMAIN StepOf \cup DOMAIN Unary \cup {"*", "&"} -> Prefixed(t[1], level(13, Bumped(c)))
       [] t[1] = "sizeof" -> [Bumped(c) EXCEPT !.is = SizeofIs(c, t[2]), !.k = 0]
       [] OTHER -> PostStepped(level(14, c))

-----------------------------------------------------------------------------
(* level14(): members, subscripts and calls, one after the other.          *)

\* The index is in the primary register, or a constant.
addStrideOff(c, stride, before) ==
  CASE c.is.cnst = None ->
         gens(c, <<<<"PUSH2", 0>>, <<"GETw2n", stride>>, <<"MUL12", 0>>, <<"POP2", 0>>, <<"ADD12", 0>>>>)
    [] c.is.cnst /= None /\ c.is.val = 0 -> unstage(c, before)
    [] OTHER -> gens(unstage(c, before), <<<<"GETw2n", S(c.is.val * stride)>>, <<"ADD12", 0>>>>)
applyElemOffset(c, type, sym, before) ==
  LET size == IF type = "struct" THEN sym.cls.size ELSE SizeOf[type]
      scaled == CASE type = "struct" -> <<<<"PUSH2", 0>>, <<"GETw2n", size>>, <<"MUL12", 0>>, <<"POP2", 0>>>>
                  [] type /= "struct" /\ size = 4 -> <<<<"DBL1", 0>>, <<"DBL1", 0>>>>
                  [] type /= "struct" /\ size = 2 -> <<<<"DBL1", 0>>>>
                  [] OTHER -> <<>>
      fixed == S(c.is.val * (IF size = 0 THEN 1 ELSE size))
  IN CASE c.is.cnst = None -> gens(c, scaled \o <<<<"ADD12", 0>>>>)
       [] c.is.cnst /= None /\ c.is.val = 0 -> unstage(c, before)
       [] OTHER -> gens(unstage(c, before), <<<<"GETw2n", fixed>>, <<"ADD12", 0>>>>)

\* [subscript]: the descriptor that down2() reads as the left operand is not
\* set, so whether it pushes a word or a long is chance.
ElementType(is) ==
  IF is.sym.ident = "ptr_array" \/ is.depth >= 2 THEN "uint" ELSE is.adr
ElementIs(is) ==
  CASE is.sym.ident = "ptr_array" -> [is EXCEPT !.adr = is.sym.type, !.depth = 1, !.sym = NoSym]
    [] is.sym.ident /= "ptr_array" /\ is.depth >= 2 -> [is EXCEPT !.depth = @ - 1]
    [] OTHER -> [is EXCEPT !.adr = None, !.depth = 0]
Subscripted(c, is, before) ==
  IF is.dim > 1
  THEN [addStrideOff(c, is.sym.strides[Len(is.sym.strides) + 2 - is.dim], before) EXCEPT
          !.is = [is EXCEPT !.dim = @ - 1, !.adr = is.sym.type], !.k = 0]
  ELSE [applyElemOffset(c, ElementType(is), is.sym, before) EXCEPT
          !.is = [ElementIs(is) EXCEPT !.dim = 0, !.obj = ElementType(is)], !.k = 1]
Index(c, is, junk) ==
  Subscripted(require(Prepared("", "", 1, setstage(c), Cleared, junk).c, "]"), is, c.snext)
Subscript(c) ==
  IF c.is.adr = None THEN [error(Bumped(c)) EXCEPT !.in = <<>>, !.k = 0]
  ELSE Index(Bumped(Value(c)), c.is, c.junk)

\* structmember(): the base address is in the register.
structmember(c, sym) ==
  LET m == sym.cls.members[Tok(c)[2]]
      tmp == [Symbol(m.ident, m.type, m.off) EXCEPT !.class = "automatic", !.cls = m.cls,
                                                    !.strides = m.strides]
      plain == [c.is EXCEPT !.sym = tmp, !.obj = m.type, !.adr = None, !.cnst = None, !.val = 0,
                            !.last = None, !.stg = 0, !.depth = 0, !.bits = m.bits]
      is == CASE m.bits.width /= 0 -> [plain EXCEPT !.obj = IF m.bits.signed THEN "int" ELSE "uint"]
              [] m.bits.width = 0 /\ m.ident = "array" ->
                   [plain EXCEPT !.adr = m.type, !.dim = IF m.strides = <<>> THEN @ ELSE Len(m.strides) + 1]
              [] m.bits.width = 0 /\ m.ident = "pointer" ->
                   [plain EXCEPT !.obj = "uint", !.adr = m.type, !.depth = m.depth]
              [] OTHER -> plain
  IN IF ~Ahead(c, "id") \/ Tok(c)[2] \notin DOMAIN sym.cls.members THEN [error(c) EXCEPT !.k = 0]
     ELSE [gens(Bumped(c), IF m.off = 0 THEN <<>> ELSE <<<<"GETw2n", m.off>>, <<"ADD12", 0>>>>) EXCEPT
             !.is = is, !.k = Truth(m.bits.width /= 0 \/ m.ident /= "array")]
Member(c) ==
  LET sym == c.is.sym
      d == Bumped(c)
      arrow == Ahead(c, "->")
      through == arrow \/ (sym.ident = "pointer" /\ c.is.obj /= "struct")
  IN IF sym.type /= "struct" \/ (arrow /\ sym.ident = "variable") THEN [error(d) EXCEPT !.k = 0]
     ELSE structmember(gens(d, CASE through /\ c.k = 1 -> fetch(c.is)
                                 [] ~through /\ c.is.obj = None -> <<<<"POINT1m", sym.adr>>>>
                                 [] OTHER -> <<>>), sym)

\* callfunc(): the arguments are compiled from left to right, each apart
\* from the stage, and then put there from the last to the first.
ArgumentEnd(c) == Tok(c)[1] \in {")", ";", "end"}
ArgumentCodes(v, before) ==
  [c |-> [v EXCEPT !.snext = before], long |-> isLongVal(v.is), codes |-> SubSeq(v.stage, before, v.snext - 1)]
ArgumentValue(r) ==
  LET toStruct == r.is.obj = None /\ r.is.sym.type = "struct" /\ r.is.sym.ident \notin Functions
  IN gens(r, CASE r.k = 0 \/ r.is.obj = "struct" -> <<>>
               [] r.k = 1 /\ toStruct -> <<<<"POINT1m", r.is.sym.adr>>>>
               [] OTHER -> fetch(r.is))
collectOneArg(c) == ArgumentCodes(ArgumentValue(level(1, c)), c.snext)
RECURSIVE Collected(_, _)
Collected(c, args) ==
  LET Next1(d, all) == IF Ahead(d, ",") THEN Collected(Bumped(d), all) ELSE [c |-> d, args |-> all]
      One(a) == Next1(a.c, Append(args, [codes |-> a.codes, long |-> a.long]))
  IN IF ArgumentEnd(c) THEN [c |-> c, args |-> args] ELSE One(collectOneArg(c))
RECURSIVE Replayed(_, _)
Replayed(c, args) ==
  LET Rest == SubSeq(args, 1, Len(args) - 1)
      Pushed(a) == gen(StagedAll(c, a.codes), IF a.long THEN "PUSHd1" ELSE "PUSH1", 0)
  IN IF args = <<>> THEN c ELSE Replayed(Pushed(Last(args)), Rest)
RECURSIVE ArgBytes(_)
ArgBytes(args) == IF args = <<>> THEN 0 ELSE (IF Head(args).long THEN 4 ELSE 2) + ArgBytes(Tail(args))

Calling(x, call) == [c |-> gens(Replayed(require(x.c, ")"), x.args), call), bytes |-> ArgBytes(x.args)]
Called(x, hidden, struct) ==
  LET top == x.c.csp + x.bytes + hidden
  IN gens(x.c, <<<<"ADDSP", top>>>> \o (IF struct THEN <<<<"POINT1s", top>>>> ELSE <<>>))
\* A function called through a pointer has the pointer in a word below the
\* arguments, one that returns a struct the room for it and its address.
callfunc(c, sym) ==
  LET indirect == sym.ident \notin Functions
      struct == ~indirect /\ sym.type = "struct"
      room == c.csp - (IF struct THEN sym.cls.size ELSE 2)
      hidden == IF struct \/ indirect THEN 2 ELSE 0
      before == CASE struct -> <<<<"ADDSP", room>>, <<"POINT1s", room>>, <<"PUSH1", 0>>>>
                  [] indirect -> <<<<"ADDSP", room>>, <<"PUTws1", room>>>>
                  [] OTHER -> <<>>
      call == IF indirect THEN <<<<"GETw1s", room>>, <<"CALL1", 0>>>> ELSE <<<<"CALLm", sym.adr>>>>
  IN Called(Calling(Collected(gens(c, before), <<>>), call), hidden, struct)

\* What is[] is after a call; a struct is a scratch variable.
CalledIs(is, sym) ==
  LET plain == [is EXCEPT !.sym = NoSym, !.cnst = None, !.val = 0, !.hi = 0, !.adr = None,
                          !.last = None, !.stg = 0, !.obj = None]
      tmpRetStr == [Symbol("variable", "struct", 0) EXCEPT !.class = "automatic", !.cls = sym.cls]
  IN CASE sym.ident = "function" /\ sym.type = "struct" ->
            [is EXCEPT !.obj = "struct", !.sym = tmpRetStr, !.adr = None, !.cnst = None, !.val = 0,
                       !.last = None, !.stg = 0]
       [] sym.ident = "ptr_function" ->
            [plain EXCEPT !.adr = sym.type, !.depth = IF sym.depth = 0 THEN 1 ELSE sym.depth]
       [] SizeOf[sym.type] = 4 -> [plain EXCEPT !.obj = sym.type]
       [] OTHER -> plain
Invoked(c) ==
  LET sym == c.is.sym
      loaded == IF sym.ident \notin Functions /\ sym /= NoSym /\ c.k = 1 /\ c.is.val = 0
                THEN fetch(c.is) ELSE <<>>
      callee == IF sym.ident \in Functions \cup {"fnptr"} THEN sym ELSE NoSym
  IN [callfunc(gens(Bumped(c), loaded), callee) EXCEPT
        !.is = CalledIs(c.is, sym), !.k = Truth(sym.ident = "function" /\ sym.type = "struct")]

RECURSIVE Postfix(_)
Postfix(c) ==
  CASE Tok(c)[1] \in {".", "->"} -> Postfix(Member(c))
    [] Ahead(c, "[") -> Postfix(Subscript(c))
    [] Ahead(c, "(") -> Postfix(Invoked(c))
    [] OTHER -> IF c.is.sym.ident \in Functions
                THEN [gen(c, "POINT1m", c.is.sym.adr) EXCEPT !.is.sym = NoSym, !.k = 0] ELSE c

-----------------------------------------------------------------------------
(* Casts and primaries.                                                    *)

\* applycast(): a constant is converted, a word widened, nothing narrowed.
ToByte(val, type) ==
  LET b == val % ByteSize
  IN IF ~IsUnsignedType(type) /\ b >= ByteSize \div 2 THEN Word - ByteSize + b ELSE b
applycast(c, type) ==
  LET is == c.is
      long == SizeOf[type] = 4
      wasLong == SizeOf[is.cnst] = 4
      high == IF ~IsUnsignedType(is.cnst) /\ S(is.val) < 0 THEN Word - 1 ELSE 0
      narrow == IF SizeOf[type] = 1 THEN ToByte(is.val, type) ELSE is.val
      casted == [is EXCEPT !.cnst = None, !.sym = NoSym, !.adr = None, !.stg = 0, !.depth = 0,
                           !.tval = type, !.obj = IF long THEN type ELSE None]
  IN CASE is.cnst /= None /\ long /\ ~wasLong ->
            [gen(c, "GETdxn", S(high)) EXCEPT !.is = [is EXCEPT !.hi = high, !.cnst = type]]
       [] is.cnst /= None /\ ~long /\ (wasLong \/ SizeOf[type] = 1) ->
            [c EXCEPT !.is = [is EXCEPT !.hi = 0, !.val = narrow, !.cnst = type]]
       [] is.cnst /= None /\ long = wasLong /\ SizeOf[type] /= 1 -> [c EXCEPT !.is.cnst = type]
       [] OTHER -> [(IF long /\ ~isLongVal(is) THEN widenPrimary(c, is) ELSE c) EXCEPT !.is = casted]

\* trycast(): "(type)" or "(type *...)".
RECURSIVE Stars(_, _)
Stars(c, n) == IF Ahead(c, "*") THEN Stars(Bumped(c), n + 1) ELSE [c |-> c, n |-> n]
cast(c) ==
  LET type == Tok(c)[2]
      As(v, n) == IF n = 0 THEN [applycast(v, type) EXCEPT !.k = 0]
                  ELSE [v EXCEPT !.k = 0, !.is = [@ EXCEPT !.adr = type, !.depth = n, !.obj = None,
                                                           !.tval = None, !.cnst = None]]
      Past(s) == As(Value(level(13, require(s.c, ")"))), s.n)
  IN Past(Stars(Bumped(c), 0))

Dims(sym) == IF sym.strides = <<>> THEN 0 ELSE Len(sym.strides) + 1
\* applyGlbSymInfo(), and what primary() does with an automatic variable.
applyGlbSymInfo(c, sym) ==
  LET is == [Cleared EXCEPT !.sym = sym]
      array == sym.ident \in {"array", "ptr_array"}
      Element(type, dim) == [is EXCEPT !.obj = type, !.adr = type, !.dim = dim]
  IN [gens(c, IF array THEN <<<<"POINT1m", sym.adr>>>> ELSE <<>>) EXCEPT
        !.k = Truth(~array),
        !.is = CASE sym.ident = "array" -> Element(sym.type, Dims(sym))
                 [] sym.ident = "ptr_array" -> Element("uint", 0)
                 [] isPtrLike(sym) -> [is EXCEPT !.adr = sym.type, !.depth = sym.depth, !.dim = Dims(sym)]
                 [] OTHER -> is]
Automatic(c, sym) ==
  LET is == [Cleared EXCEPT !.sym = sym, !.obj = sym.type]
  IN [gen(c, "POINT1s", sym.adr) EXCEPT
        !.k = Truth(sym.ident \notin {"array", "ptr_array"}),
        !.is = CASE sym.ident = "array" -> [is EXCEPT !.adr = sym.type, !.dim = Dims(sym)]
                 [] sym.ident = "ptr_array" -> [is EXCEPT !.adr = "uint"]
                 [] isPtrLike(sym) ->
                      [is EXCEPT !.obj = "uint", !.adr = sym.type, !.depth = sym.depth, !.dim = Dims(sym)]
                 [] OTHER -> is]

\* A name: a local, a static local, an enum constant, a global, a function,
\* or something undeclared that is taken for a function.
Named(c, name) ==
  LET FromGlobal(sym) ==
        CASE sym.class = "enumconst" ->
               [c EXCEPT !.is = [Cleared EXCEPT !.cnst = "int", !.val = sym.adr], !.k = 0]
          [] sym.class /= "enumconst" /\ sym.ident \in Functions -> [c EXCEPT !.is = [Cleared EXCEPT !.sym = sym], !.k = 0]
          [] OTHER -> applyGlbSymInfo(c, sym)
      Local1(sym) == IF sym.ident = "label" THEN [experr(c) EXCEPT !.is = Cleared, !.k = 0] ELSE Automatic(c, sym)
  IN CASE name \in DOMAIN c.locals /\ c.locals[name].class /= "static" -> Local1(c.locals[name])
       [] name \in DOMAIN c.locals /\ c.locals[name].class = "static" -> FromGlobal(c.locals[name])
       [] name \notin DOMAIN c.locals /\ name \in DOMAIN c.globals -> FromGlobal(c.globals[name])
       [] OTHER -> [c EXCEPT !.is = [Cleared EXCEPT !.sym = Symbol("function", "int", Extern[name])], !.k = 0]

\* number(): signs in front of the digits belong to the constant.
Constant(c, type, n) ==
  LET is == [Cleared EXCEPT !.cnst = type, !.val = lo(n), !.hi = hi(n)]
  IN [genConstLoad(c, is) EXCEPT !.is = is, !.k = 0]
RECURSIVE number(_, _)
number(c, minus) ==
  LET t == Tok(c)[2]
      n == IF minus THEN negate32(t.n) ELSE t.n
  IN CASE Ahead(c, "+") -> number(Bumped(c), minus)
       [] Ahead(c, "-") -> number(Bumped(c), TRUE)
       [] Ahead(c, "num") -> Constant(Bumped(c), NumberType([t EXCEPT !.n = n]), n)
       [] OTHER -> [experr(c) EXCEPT !.is = Cleared, !.k = 0]
constant(c) ==
  LET CharConst(n) == Constant(Bumped(c), IF hi(n) = 0 THEN "int" ELSE "long", n)
      t == Tok(c)[2]
  IN CASE Ahead(c, "chr") -> CharConst(CharValue(t, 0))
       [] Ahead(c, "str") ->
            [gen([Bumped(c) EXCEPT !.lits = @ \o t \o <<0>>], "POINT1l", Len(c.lits)) EXCEPT
               !.is = [Cleared EXCEPT !.adr = "char", !.obj = "char"], !.k = 0]
       [] OTHER -> number(c, FALSE)

RECURSIVE Parenthesized(_)
Parenthesized(c) ==
  LET Past(r) == IF Ahead(r, ",") THEN Parenthesized(Bumped(r)) ELSE require(r, ")") IN Past(level(1, c))
primary(c) ==
  CASE Ahead(c, "(") -> IF Ahead(Bumped(c), "type") THEN cast(Bumped(c)) ELSE Parenthesized(Bumped(c))
    [] Ahead(c, "id") -> Named(Bumped(c), Tok(c)[2])
    [] OTHER -> constant(c)

Skims ==
  (3 :> [oper |-> "||", tcode |-> "EQ10f", dropval |-> 1, endval |-> 0, n |-> 4]) @@
  (4 :> [oper |-> "&&", tcode |-> "NE10f", dropval |-> 0, endval |-> 1, n |-> 5])
level(n, c) ==
  CASE n = 1 -> level1(c)
    [] n = 2 -> level2(c)
    [] n \in {3, 4} -> skim(c, Skims[n], 0)
    [] n \in 5..12 -> down(n, down1(13, c))
    [] n = 13 -> level13(c)
    [] n = 14 -> Postfix(primary(c))
=============================================================================
