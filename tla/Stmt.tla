-------------------------------- MODULE Stmt --------------------------------
(***************************************************************************)
(* Statements, local declarations and function definitions: cc1.c and the  *)
(* while queue of cc2.c.                                                   *)
(*                                                                         *)
(* More fields of the compiler's record c: ncmp, declared, nogo, noloc,    *)
(* lastst, wq the while queue of [sp, loop, exit], swactive, swdefault,    *)
(* swislong, swnext the cases so far as [label, lo, hi], rettype with      *)
(* retcls, argtop, hasInlineAsm, hasStaticLocal, midFuncFlush, data the    *)
(* bytes given to static variables and dptr the next free one.             *)
(***************************************************************************)
EXTENDS Expr

CONSTANTS
  SwitchSize,      \* SWTABSZ, in words
  QueueSize        \* WQTABSZ, in entries

BPW == 2
BPD == 4
getTypeElemSz(type, cls) == IF type = "struct" THEN cls.size ELSE IF SizeOf[type] = 0 THEN 1 ELSE SizeOf[type]
reqSemicolon(c) == require(c, ";")
\* An expression in front of a keyword or a name is not looked for.
endst(c) == Tok(c)[1] \in {";", "end"}

\* The while queue.
addwhile(c) ==
  LET d == getlabel(getlabel(c))
  IN IF Len(c.wq) >= QueueSize THEN [error(d) EXCEPT !.in = <<>>]
     ELSE [d EXCEPT !.wq = Append(@, [sp |-> c.csp, loop |-> d.nxtlab - 1, exit |-> d.nxtlab])]
\* Mutant: the loop stays in the queue.
delwhileNever(c) == c
delwhile(c) == IF c.wq = <<>> THEN c ELSE [c EXCEPT !.wq = Front(@)]
Inmost(c) == Last(c.wq)

-----------------------------------------------------------------------------
(* What the statements ask of expressions.                                 *)

\* The parser's functions that call each other: what is the one meant.
RECURSIVE parse(_, _)
doStatement(c) == parse("statement", c)
expression(c) == Value(parse("level1", c))

parseExprWidened(c, destIsLong) ==
  LET Wide(v) == gens(v, WidenFor(destIsLong, v.is)) IN Wide(expression(c))
\* isConstExpr(): its value is in c.is; nothing is written.
isConstExpr(c) ==
  LET Checked(v) == IF v.is.cnst = None THEN error(v) ELSE v IN Checked(unstage(expression(setstage(c)), c.snext))

\* genTestAndJmp(): the jump is taken when the condition is false.  What was
\* compared with zero is tested instead.
ZeroTest == [EQ12 |-> "EQ10f", LE12u |-> "EQ10f", NE12 |-> "NE10f", GT12u |-> "NE10f", GT12 |-> "GT10f",
             GE12 |-> "GE10f", LT12 |-> "LT10f", LT12u |-> "JMPm", LE12 |-> "LE10f"]
Jump(is, label) ==
  CASE is.stg /= 0 /\ is.last \in DOMAIN ZeroTest -> <<<<ZeroTest[is.last], label>>>>
    [] is.stg /= 0 /\ is.last = "GE12u" -> <<>>
    [] OTHER -> <<<<IF isLongVal(is) THEN "NEd10f" ELSE "NE10f", label>>>>
Back1(c, is) == IF is.stg /= 0 /\ is.last \in DOMAIN ZeroTest \cup {"GE12u"} THEN unstage(c, is.stg) ELSE c
TestAndJump(c, start, label) ==
  LET always == c.is.val /= 0 \/ c.is.hi /= 0
  IN IF c.is.cnst /= None THEN gens(unstage(c, start), IF always THEN <<>> ELSE <<<<"JMPm", label>>>>)
     ELSE clearStage(gens(Back1(c, c.is), Jump(c.is, label)), start)
RECURSIVE genTestAndJmp(_, _, _)
TestParsed(v, start, label, reqParens) ==
  IF Ahead(v, ",") THEN genTestAndJmp(clearStage(Bumped(v), start), label, reqParens)
  ELSE TestAndJump(IF reqParens THEN require(v, ")") ELSE v, start, label)
genTestAndJmp(c, label, reqParens) == TestParsed(expression(setstage(c)), c.snext, label, reqParens)

-----------------------------------------------------------------------------
(* flushfunc() at a change of segment, where the function goes on behind.  *)

RECURSIVE Shortened(_)
Shortened(fb) == LET Round(s) == IF s = fb THEN fb ELSE Shortened(s) IN Round(Shorten(fb))
Consolidated(c, fb) ==
  IF Consolidates(fb, c.midFuncFlush)
  THEN [getlabel(c) EXCEPT !.fb = tryEpilogueConsolidation(fb, FALSE, c.nxtlab + 1)]
  ELSE [c EXCEPT !.fb = fb]
WroteOut(c) ==
  [c EXCEPT !.fb = <<>>, !.out = @ \o Shortened(tryPushPopElimination(tryBoxingElimination(c.fb)))]
flushfunc(c) ==
  WroteOut(Consolidated(c, canOptFPOpass(tryPointMoveFold(c.fb), c.hasInlineAsm \/ c.hasStaticLocal)))

-----------------------------------------------------------------------------
(* Declarations.                                                           *)

\* dotype(): None when there is no type.
RECURSIVE dotype(_, _)
dotype(c, const) ==
  LET t == Tok(c)
  IN CASE t[1] = "const" -> dotype(Bumped(c), TRUE)
       [] t[1] = "type" -> [c |-> Bumped(c), type |-> t[2], cls |-> NoClass, const |-> const]
       [] t[1] = "struct" -> [c |-> Bumped(c), type |-> "struct", cls |-> t[2], const |-> const]
       [] OTHER -> [c |-> c, type |-> None, cls |-> NoClass, const |-> FALSE]

parseArraySz(c) ==
  LET Sized(v) ==
        IF S(v.is.val) < 0 THEN [c |-> require(error(v), "]"), n |-> -S(v.is.val)]
        ELSE [c |-> require(v, "]"), n |-> IF v.is.cnst = None THEN 1 ELSE S(v.is.val)]
  IN IF Ahead(c, "]") THEN [c |-> Bumped(c), n |-> 0] ELSE Sized(isConstExpr(c))
RECURSIVE parseArrayDims(_, _)
parseArrayDims(c, dims) ==
  LET Past(d, all) == IF Ahead(d, "[") THEN parseArrayDims(Bumped(d), all) ELSE [c |-> d, dims |-> all]
      One(a) == Past(a.c, Append(dims, a.n))
  IN One(parseArraySz(c))
\* calcArgStrides(): what one step of each dimension but the last is.
calcArgStrides(dims, size) ==
  LET slice[k \in 1..Len(dims)] == IF k = Len(dims) THEN size ELSE dims[k + 1] * slice[k + 1]
  IN [k \in 1..(Len(dims) - 1) |-> slice[k]]

\* parseLocDecl(): one declarator.  argument tells whether arrays are
\* pointers (defArrTyp).
PastParens(c) == IF Ahead(c, "(") THEN require(Bumped(c), ")") ELSE c
parseLocDecl(c0, t, argument) ==
  LET paren == Ahead(c0, "(")
      element == getTypeElemSz(t.type, t.cls)
      Decl(c, name, depth, ident, size, strides) ==
        [c |-> c, name |-> name, ident |-> ident, size |-> size, depth |-> depth, strides |-> strides]
      Array(c, name, size, strides) ==
        Decl(c, name, 0, IF argument THEN "pointer" ELSE "array", size, strides)
      Flat(c, name, total) ==
        IF total > 0 \/ (~argument /\ t.type \in {"char", "uchar"}) THEN Array(c, name, total, <<>>)
        ELSE Array(IF argument THEN c ELSE error(c), name, BPW, <<>>)
      Deep(c, name, n, strides) == Array(c, name, n * strides[1], strides)
      Dimensions(a, name) ==
        IF Len(a.dims) > 1 THEN Deep(a.c, name, a.dims[1], calcArgStrides(a.dims, element))
        ELSE Flat(a.c, name, (IF t.type = "void" THEN BPW ELSE element) * a.dims[1])
      Pointers1(p, name, depth) ==
        IF argument THEN Decl(p.c, name, depth, "pointer", BPW, <<>>)
        ELSE IF p.n <= 0 THEN Decl(error(p.c), name, depth, "ptr_array", BPW, <<>>)
        ELSE Decl(p.c, name, depth, "ptr_array", p.n * BPW, <<>>)
      Behind1(c, name, depth) ==
        CASE ~Ahead(c, "[") /\ depth > 0 -> Decl(c, name, depth, "pointer", BPW, <<>>)
          [] ~Ahead(c, "[") /\ depth = 0 -> Decl(c, name, 0, "variable", IF t.type = "void" THEN BPW ELSE element, <<>>)
          [] Ahead(c, "[") /\ depth > 0 -> Pointers1(parseArraySz(Bumped(c)), name, depth)
          [] OTHER -> Dimensions(parseArrayDims(Bumped(c), <<>>), name)
      Named1(c, name, depth) == Behind1(IF paren /\ Ahead(c, ")") THEN PastParens(Bumped(c)) ELSE c, name, depth)
      Starred(c, depth) == Named1(IF Ahead(c, "id") THEN Bumped(c) ELSE error(c), Tok(c)[2], depth)
      Begun(s) == Starred(IF s.n = 0 /\ t.type = "void" THEN error(s.c) ELSE s.c, s.n)
  IN Begun(Stars(IF paren THEN Bumped(c0) ELSE c0, 0))
Declared(t, d, adr) ==
  [Symbol(d.ident, t.type, adr) EXCEPT !.class = "automatic", !.depth = d.depth, !.const = t.const,
                                       !.cls = t.cls, !.strides = d.strides]
AddLocal(c, name, sym) == [c EXCEPT !.locals = (name :> sym) @@ @]

\* allocPendLoc(): the room for what was declared so far.
allocPendLoc(c) ==
  IF c.declared <= 0 THEN c
  ELSE [gen(c, "ADDSP", c.csp - c.declared) EXCEPT !.declared = 0,
                                                   !.nogo = IF c.ncmp > 1 THEN c.declared ELSE @]

-----------------------------------------------------------------------------
(* Initializers of automatic variables.                                    *)

StoreTo(size) == IF size = BPD THEN "PUTdp1" ELSE IF size = BPW THEN "PUTwp1" ELSE "PUTbp1"
genStoreByte(c, off, val) ==
  gens(c, <<<<"POINT1s", off>>, <<"PUSH1", 0>>, <<"GETw1n", val>>, <<"POP2", 0>>, <<"PUTbp1", 0>>>>)
genZeroElem(c, off, size) ==
  gens(c, <<<<"POINT1s", off>>, <<"PUSH1", 0>>, <<"GETw1n", 0>>, <<"POP2", 0>>>> \o
          (IF size = BPD THEN <<<<"GETdxn", 0>>>> ELSE <<>>) \o <<<<StoreTo(size), 0>>>>)
RECURSIVE ZeroElems(_, _, _, _)
ZeroElems(c, off, size, n) ==
  IF n <= 0 THEN c ELSE ZeroElems(genZeroElem(c, off, size), off + size, size, n - 1)
Addressed(c, off) == gens(c, <<<<"POINT1s", off>>, <<"PUSH1", 0>>>>)
ElemValue(c, size) == clearStage(parseExprWidened(setstage(c), size = BPD), c.snext)
initLocElem(c, off, size, pointer) ==
  gens(ElemValue(Addressed(c, off), size),
       <<<<"POP2", 0>>, <<IF size /= BPD /\ pointer THEN "PUTwp1" ELSE StoreTo(size), 0>>>>)
\* initLocArr1D(): n slots, those without an expression cleared.
PastComma(c) == IF Ahead(c, ",") THEN Bumped(c) ELSE c
RECURSIVE initLocArr1D(_, _, _, _, _, _)
PastElem(c, off, size, n, pointer, closeBrace) ==
  IF n > 1 /\ Ahead(c, ",") THEN initLocArr1D(Bumped(c), off + size, size, n - 1, pointer, closeBrace)
  ELSE ZeroElems(IF closeBrace THEN require(PastComma(c), "}") ELSE PastComma(c), off + size, size, n - 1)
initLocArr1D(c, off, size, n, pointer, closeBrace) ==
  PastElem(initLocElem(c, off, size, pointer), off, size, n, pointer, closeBrace)
RECURSIVE StoreBytes(_, _, _, _)
StoreBytes(c, off, text, n) ==
  IF n <= 0 THEN c
  ELSE StoreBytes(genStoreByte(c, off, IF text = <<>> THEN 0 ELSE Head(text)), off + 1,
                  IF text = <<>> THEN <<>> ELSE Tail(text), n - 1)
\* initLocChrStr(): the symbol name gets the size of the string when it has none.
initLocChrStr(c, name, size) ==
  LET text == Append(Tok(c)[2], 0)
      At(d) == StoreBytes(Bumped(d), d.locals[name].adr, text, IF size = 0 THEN Len(text) ELSE size)
      Grown(d) == allocPendLoc(AddLocal(d, name, [d.locals[name] EXCEPT !.adr = d.csp - d.declared]))
  IN IF ~Ahead(c, "str") THEN error(c)
     ELSE At(IF size = 0 THEN Grown([c EXCEPT !.declared = @ + Len(text)]) ELSE c)

\* initLocMDSub(): dims the dimensions from depth on, with inner braces or
\* without.
Product(dims) == LET p[k \in 0..Len(dims)] == IF k = 0 THEN 1 ELSE dims[k] * p[k - 1] IN p[Len(dims)]
RECURSIVE initLocMDSub(_, _, _, _), Rows(_, _, _, _, _)
initLocMDSub(c, off, size, dims) ==
  IF Len(dims) = 1 \/ ~Ahead(c, "{") THEN initLocArr1D(c, off, size, Product(dims), FALSE, FALSE)
  ELSE Rows(c, off, size, Tail(dims), dims[1])
PastRow(c, next, size, dims, n) ==
  IF n > 1 /\ Ahead(c, ",") THEN Rows(Bumped(c), next, size, dims, n - 1)
  ELSE ZeroElems(c, next, size, (n - 1) * Product(dims))
Rows(c, off, size, dims, n) ==
  PastRow(require(initLocMDSub(require(c, "{"), off, size, dims), "}"), off + Product(dims) * size, size, dims, n)
\* deriveDims(): the dimensions, from the size and the strides.
deriveDims(total, size, strides) ==
  LET n == Len(strides) + 1
  IN [k \in 1..n |-> CASE k = 1 -> total \div strides[1]
                       [] k > 1 /\ k < n -> strides[k - 1] \div strides[k]
                       [] OTHER -> strides[n - 1] \div size]

\* initLocStrMem(): the members in their order; a nested struct and an array
\* have braces of their own.
RECURSIVE ClearedMembers(_, _, _, _)
ClearedMembers(c, cls, base, left) ==
  LET m == cls.members[Head(left)]
  IN IF left = <<>> THEN c
     ELSE ClearedMembers(StoreBytes(c, base + m.off, <<>>, m.size), cls, base, Tail(left))
RECURSIVE initLocStrMem(_, _, _), StrMembers(_, _, _, _)
initLocStrMem(c, cls, base) == StrMembers(c, cls, base, cls.order)
InitMember(c, m, here) ==
  LET size == IF SizeOf[m.type] = 0 THEN 1 ELSE SizeOf[m.type]
  IN CASE m.type = "struct" /\ m.ident = "variable" ->
            require(initLocStrMem(require(c, "{"), m.cls, here), "}")
       [] m.ident = "array" -> initLocArr1D(require(c, "{"), here, size, m.size \div size, FALSE, TRUE)
       [] OTHER -> initLocElem(c, here, size, m.ident = "pointer")
PastMember(c, cls, base, left) ==
  IF Len(left) > 1 /\ Ahead(c, ",") THEN StrMembers(Bumped(c), cls, base, Tail(left))
  ELSE ClearedMembers(c, cls, base, Tail(left))
StrMembers(c, cls, base, left) ==
  PastMember(InitMember(c, cls.members[Head(left)], base + cls.members[Head(left)].off), cls, base, left)

\* initLocUnion(): the first member and no other, and zeros up to the size.
NoMore(c) == IF Ahead(c, ",") THEN error(Bumped(c)) ELSE c
initLocUnion(c, cls, base) ==
  LET m == cls.members[cls.order[1]]
  IN StoreBytes(NoMore(initLocElem(c, base, getTypeElemSz(m.type, NoClass), m.ident = "pointer")),
                base + m.size, <<>>, cls.size - m.size)
initAggregate(c, cls, base) ==
  require(IF cls.union THEN initLocUnion(require(c, "{"), cls, base)
          ELSE initLocStrMem(require(c, "{"), cls, base), "}")
\* initLocStrArr(): n structs, those without braces cleared.
RECURSIVE initLocStrArr(_, _, _, _)
PastStruct(c, cls, next, n) ==
  IF n > 1 /\ Ahead(c, ",") THEN initLocStrArr(Bumped(c), cls, next, n - 1)
  ELSE StoreBytes(require(PastComma(c), "}"), next, <<>>, cls.size * (n - 1))
initLocStrArr(c, cls, base, n) ==
  PastStruct(require(initLocStrMem(require(c, "{"), cls, base), "}"), cls, base + cls.size, n)

\* dispatchLocInit(): past the "=".
InitArray(c, name, t, d, adr, size) ==
  CASE d.strides /= <<>> ->
         require(initLocMDSub(require(c, "{"), adr, size, deriveDims(d.size, size, d.strides)), "}")
    [] d.strides = <<>> /\ t.type = "struct" -> initLocStrArr(require(c, "{"), t.cls, adr, d.size \div size)
    [] d.strides = <<>> /\ t.type /= "struct" /\ t.type \in {"char", "uchar"} /\ ~Ahead(c, "{") ->
         initLocChrStr(c, name, d.size)
    [] OTHER -> initLocArr1D(require(c, "{"), adr, size, d.size \div size, FALSE, TRUE)
InitLocal(c, name, t, d, adr, size) ==
  CASE t.type = "struct" /\ d.ident = "variable" -> initAggregate(c, t.cls, adr)
    [] d.ident = "array" -> InitArray(c, name, t, d, adr, size)
    [] d.ident = "ptr_array" -> initLocArr1D(require(c, "{"), adr, BPW, d.size \div BPW, TRUE, TRUE)
    [] OTHER -> initLocElem(c, adr, IF d.ident = "pointer" THEN SizeOf[t.type] ELSE size, d.ident = "pointer")
dispatchLocInit(c, name, t, d) ==
  IF d.size = 0 /\ d.ident = "array" THEN initLocChrStr(c, name, 0)
  ELSE InitLocal(allocPendLoc(c), name, t, d, c.locals[name].adr, getTypeElemSz(t.type, t.cls))

-----------------------------------------------------------------------------
(* Static variables of a function: the code so far is flushed.             *)

Bytes(val, size) ==
  LET v == val % Long
      byte[k \in 0..3] == IF k = 0 THEN v ELSE byte[k - 1] \div ByteSize
  IN [k \in 1..size |-> byte[k - 1] % ByteSize]
RECURSIVE Emitted(_, _, _)
Emitted(c, bytes, n) ==
  IF n <= 0 THEN c
  ELSE Emitted([c EXCEPT !.data = (c.dptr :> (IF bytes = <<>> THEN 0 ELSE Head(bytes))) @@ @, !.dptr = @ + 1],
               IF bytes = <<>> THEN <<>> ELSE Tail(bytes), n - 1)
emitConstVal(c, size) ==
  LET Value1(v) == Emitted(v, Bytes(v.is.hi * Word + v.is.val, size), size) IN Value1(isConstExpr(c))
RECURSIVE ConstVals(_, _, _)
ConstVals(c, size, n) ==
  LET Past(d) == IF n > 1 /\ Ahead(d, ",") THEN ConstVals(Bumped(d), size, n - 1)
                 ELSE Emitted(require(PastComma(d), "}"), <<>>, size * (n - 1))
  IN Past(emitConstVal(c, size))
emitLocStatic(c0, t, d) ==
  LET pointers == d.ident \in {"pointer", "ptr_array"}
      size == IF pointers THEN BPW ELSE IF SizeOf[t.type] = 0 THEN 1 ELSE SizeOf[t.type]
      n == IF d.size < size THEN 1 ELSE d.size \div size
      Idle(c) == flushfunc([(IF c.snext = 0 THEN c ELSE clearStage(c, 0)) EXCEPT !.hasStaticLocal = TRUE])
      Placed(c) ==
        CASE ~Ahead(c, "=") -> Emitted(c, <<>>, size * n)
          [] Ahead(c, "=") /\ d.ident \in {"array", "ptr_array"} -> ConstVals(require(Bumped(c), "{"), size, n)
          [] OTHER -> emitConstVal(Bumped(c), size)
  IN Placed(Idle(allocPendLoc(c0)))

\* declareLocals(): the declarators of one statement, where they may be.
Static1(c, t, d) ==
  AddLocal(emitLocStatic(getlabel(c), t, d), d.name, [Declared(t, d, c.dptr) EXCEPT !.class = "static"])
Auto(c, t, d) ==
  LET even == IF SizeOf[t.type] >= BPD /\ c.declared % 2 = 1 THEN 1 ELSE 0
      Placed(p) == AddLocal(p, d.name, Declared(t, d, p.csp - p.declared))
  IN Placed([c EXCEPT !.declared = @ + even + d.size])
Initialized(c, t, d) ==
  CASE Ahead(c, "=") -> dispatchLocInit(Bumped(c), d.name, t, d)
    [] ~Ahead(c, "=") /\ d.size = 0 /\ d.ident = "array" -> error(c)
    [] OTHER -> c
OneLocal(t, d, isStatic) == IF isStatic THEN Static1(d.c, t, d) ELSE Initialized(Auto(d.c, t, d), t, d)
RECURSIVE declareLocals(_, _, _)
declareLocals(c0, t, isStatic) ==
  LET Past(c) == IF Ahead(c, ",") THEN declareLocals(Bumped(c), t, isStatic) ELSE c
  IN IF endst(c0) THEN c0 ELSE Past(OneLocal(t, parseLocDecl(c0, t, FALSE), isStatic))
MayDeclare(c) == ~c.swactive /\ ~c.noloc /\ c.declared >= 0

-----------------------------------------------------------------------------
(* Statements.                                                             *)

\* What lastst says of the last statement matters in these two cases.
Leaves(c) == c.lastst \in {"return", "goto"}

\* doExpression(): the value is not used.
RECURSIVE doExpression(_)
Onward(c) == IF Ahead(c, ",") THEN doExpression(Bumped(c)) ELSE [c EXCEPT !.usexpr = TRUE]
doExpression(c0) ==
  Onward(clearStage(expression(setstage([c0 EXCEPT !.usexpr = FALSE])), c0.snext))

RECURSIVE Statements(_)

\* doCompound(): past the "{".  The labels of the block are kept.
Statements(c) == IF Tok(c)[1] \in {"}", "end"} THEN require(c, "}") ELSE Statements(doStatement(c))
LabelsOf(locals) == {n \in DOMAIN locals : locals[n].ident = "label"}
\* Mutant: a block without a return at its end keeps the room of its locals.
doCompoundKept(c0) ==
  LET Left(b) ==
        [b EXCEPT !.ncmp = @ - 1, !.declared = -1,
                  !.locals = [n \in LabelsOf(b.locals) \cup DOMAIN c0.locals |->
                                IF n \in LabelsOf(b.locals) THEN b.locals[n] ELSE c0.locals[n]]]
  IN Left(Statements([c0 EXCEPT !.declared = 0, !.ncmp = @ + 1]))
doCompound(c0) ==
  LET Closed(b, labels) ==
        [(IF b.ncmp > 0 /\ ~Leaves(b) THEN gen(b, "ADDSP", c0.csp) ELSE b) EXCEPT
           !.locals = [n \in labels \cup DOMAIN c0.locals |-> IF n \in labels THEN b.locals[n] ELSE c0.locals[n]]]
      Left(b) == Closed([b EXCEPT !.ncmp = @ - 1, !.declared = -1], LabelsOf(b.locals))
  IN Left(Statements([c0 EXCEPT !.declared = 0, !.ncmp = @ + 1]))

Else(c, leaves, flab1, flab2) ==
  gen(doStatement(gens(c, (IF leaves THEN <<>> ELSE <<<<"JMPm", flab2>>>>) \o <<<<"LABm", flab1>>>>)),
      "LABm", flab2)
Then(c, flab1) == IF Ahead(c, "else") THEN Else(getlabel(Bumped(c)), Leaves(c), flab1, c.nxtlab + 1)
                  ELSE gen(c, "LABm", flab1)
doIf(c) == Then(doStatement(genTestAndJmp(require(getlabel(c), "("), c.nxtlab + 1, TRUE)), c.nxtlab + 1)

\* w is the entry of the queue for the loop.
WhileTest(c, w) == genTestAndJmp(require(gen(c, "LABm", w.loop), "("), w.exit, TRUE)
WhileLoop(c, w) == gens(doStatement(WhileTest(c, w)), <<<<"JMPm", w.loop>>, <<"LABm", w.exit>>>>)
doWhile(c) == LET Begun(d) == WhileLoop(d, Inmost(d)) IN delwhile(Begun(addwhile(c)))

DoLoop(c, w, top) ==
  gens(WhileTest(require(doStatement(gen(c, "LABm", top)), "while"), w),
       <<<<"JMPm", top>>, <<"LABm", w.exit>>>>)
doDo(c) ==
  LET Begun(d) == DoLoop(d, Inmost(d), d.nxtlab) IN reqSemicolon(delwhile(Begun(getlabel(addwhile(c)))))

Clause(c, end) == IF Ahead(c, end) THEN Bumped(c) ELSE require(doExpression(c), end)
ForTest(c, w) == IF Ahead(c, ";") THEN Bumped(c) ELSE reqSemicolon(genTestAndJmp(c, w.exit, FALSE))
ForHead(c, w, lab1, lab2) ==
  gens(ForTest(gen(Clause(require(c, "("), ";"), "LABm", lab1), w), <<<<"JMPm", lab2>>, <<"LABm", w.loop>>>>)
\* Mutant: the body goes back to the test, past the third expression.
ForLoopShort(c, w, lab1, lab2) ==
  gens(doStatement(gens(Clause(ForHead(c, w, lab1, lab2), ")"), <<<<"JMPm", lab1>>, <<"LABm", lab2>>>>)),
       <<<<"JMPm", lab1>>, <<"LABm", w.exit>>>>)
ForLoop(c, w, lab1, lab2) ==
  gens(doStatement(gens(Clause(ForHead(c, w, lab1, lab2), ")"), <<<<"JMPm", lab1>>, <<"LABm", lab2>>>>)),
       <<<<"JMPm", w.loop>>, <<"LABm", w.exit>>>>)
doFor(c) ==
  LET Begun(d) == ForLoop(d, Inmost(d), d.nxtlab - 1, d.nxtlab)
  IN delwhile(Begun(getlabel(getlabel(addwhile(c)))))

\* doSwitch(): the cases found in the statement are written behind it.
RECURSIVE Table(_, _, _)
Table(c, cases, long) ==
  IF cases = <<>> THEN gens(c, IF long THEN <<<<"WORDn", 0>>, <<"WORDn", 0>>, <<"WORDn", 0>>>> ELSE <<<<"WORDn", 0>>>>)
  ELSE LET k == Head(cases)
       IN Table(gens(c, <<<<"NEARm", k.label>>, <<"WORDn", k.lo>>>> \o
                        (IF long THEN <<<<"WORDn", k.hi>>>> ELSE <<>>)), Tail(cases), long)
SwitchExit(c, w) ==
  gens(c, (IF c.swdefault /= 0 THEN <<<<"JMPm", c.swdefault>>>> ELSE <<>>) \o <<<<"LABm", w.exit>>>>)
SwitchTable(c, w, table, before) ==
  Table(gens(c, <<<<"JMPm", w.exit>>, <<"LABm", table>>, <<IF c.swislong THEN "LSWITCHd" ELSE "SWITCH", 0>>>>),
        SubSeq(c.swnext, before + 1, Len(c.swnext)), c.swislong)
SwitchBody(c, w) ==
  SwitchExit(SwitchTable(doStatement(gen(c, "JMPm", c.nxtlab)), w, c.nxtlab, Len(c.swnext)), w)
SwitchValue(v) ==
  getlabel([require(v, ")") EXCEPT !.swislong = isLongVal(v.is), !.swdefault = 0, !.swactive = TRUE])
Selected(c) == SwitchValue(clearStage(expression(setstage([c EXCEPT !.wq[Len(c.wq)].loop = 0])), c.snext))
doSwitch(c0) ==
  LET Begun(c) == SwitchBody(Selected(c), Inmost(c))
  IN [delwhile(Begun(require(addwhile(c0), "("))) EXCEPT
        !.swnext = c0.swnext, !.swdefault = c0.swdefault, !.swactive = c0.swactive, !.swislong = c0.swislong]
TableWords(cases, long) == Len(cases) * (IF long THEN 3 ELSE 2)
doCase(c0) ==
  LET High(is) == IF is.hi = 0 /\ S(is.val) < 0 THEN -1 ELSE S(is.hi)
      Case1(v, label) ==
        require([v EXCEPT !.swnext = Append(@, [label |-> label, lo |-> S(v.is.val), hi |-> High(v.is)])], ":")
      Begun(c) == Case1(isConstExpr(gen(c, "LABm", c.nxtlab)), c.nxtlab)
  IN IF TableWords(c0.swnext, c0.swislong) > SwitchSize - (IF c0.swislong THEN 3 ELSE 2) THEN error(c0)
     ELSE Begun(getlabel(IF c0.swactive THEN c0 ELSE error(c0)))
doDefault(c0) ==
  LET Begun(c) == gen([c EXCEPT !.swdefault = c.nxtlab], "LABm", c.nxtlab)
  IN Begun(getlabel(require(IF c0.swactive /\ c0.swdefault = 0 THEN c0 ELSE error(c0), ":")))

\* addLabel(): the label's number is in the symbol's address.
addLabel(c, name, def) ==
  LET old == c.locals[name]
      sym == [Symbol("label", IF def THEN "yes" ELSE None, c.nxtlab + 1) EXCEPT !.class = "label"]
  IN IF name \notin DOMAIN c.locals THEN AddLocal(getlabel(c), name, sym)
     ELSE IF old.ident /= "label" \/ (def /\ old.type = "yes") THEN error(c)
     ELSE IF def THEN AddLocal(c, name, [old EXCEPT !.type = "yes"]) ELSE c
doGoto(c0) ==
  LET Jumped(c, name) == gen(c, "JMPm", c.locals[name].adr)
      Begun(c) == IF Ahead(c, "id") THEN Jumped(addLabel(Bumped(c), Tok(c)[2], FALSE), Tok(c)[2]) ELSE error(c)
  IN reqSemicolon(Begun(IF c0.nogo > 0 THEN error(c0) ELSE [c0 EXCEPT !.noloc = TRUE]))
doLabel(c) ==
  LET Defined(d, name) == gen(Bumped(Bumped(d)), "LABm", d.locals[name].adr)
  IN Defined(addLabel(c, Tok(c)[2], TRUE), Tok(c)[2])

\* doReturn(): a struct is copied to where the hidden argument points; what
\* level1() staged then stays in the stage.
ReturnStruct(c) ==
  LET near(v) == v.k = 1 /\ v.is.obj = None
      wrong(v) == v.k = 1 /\ v.is.obj /= "struct" /\ v.is.sym.type /= "struct"
      Copied(v) ==
        gens(IF wrong(v) THEN error(v) ELSE v,
             (IF near(v) /\ ~wrong(v) THEN <<<<"POINT1m", v.is.sym.adr>>>> ELSE <<>>) \o
             <<<<"MOVE21", 0>>, <<"GETw1n", c.retcls.size>>, <<"PUSH1", 0>>, <<"SWAP12", 0>>, <<"PUSH1", 0>>,
               <<"POINT1s", c.argtop + BPW>>, <<"GETw1p", 0>>, <<"PUSH1", 0>>, <<"CALLm", Extern["structcp"]>>,
               <<"ADDSP", c.csp>>>>)
  IN Copied(parse("level1", c))
ReturnValue(c) ==
  LET Widened1(v) == gens(v, IF SizeOf[c.rettype] /= 4 \/ isLongVal(v.is) THEN <<>>
                             ELSE <<<<IF c.rettype = "ulong" \/ isUnsigned(v.is) THEN "WIDENu" ELSE "WIDENs", 0>>>>)
  IN clearStage(Widened1(expression(setstage(c))), c.snext)
Returning(v) == [gen(v, "RETURN", 0) EXCEPT !.csp = v.csp]
doReturn(c) ==
  Returning(IF endst(c) THEN c ELSE IF c.rettype = "struct" THEN ReturnStruct(c) ELSE ReturnValue(c))

doBreak(c) ==
  IF c.wq = <<>> THEN error(c)
  ELSE gens(c, <<<<"ADDSP", Inmost(c).sp>>, <<"JMPm", Inmost(c).exit>>>>)
doContinue(c) ==
  LET loops == {i \in DOMAIN c.wq : c.wq[i].loop /= 0}
      w == c.wq[CHOOSE i \in loops : \A j \in loops : j <= i]
  IN IF loops = {} THEN error(c) ELSE gens(c, <<<<"ADDSP", w.sp>>, <<"JMPm", w.loop>>>>)

\* Text between #asm and #endasm is written as it is, behind the code so far.
doAsmBlock(c) ==
  [flushfunc([(IF c.snext = 0 THEN c ELSE clearStage(c, 0)) EXCEPT
                !.hasInlineAsm = TRUE, !.midFuncFlush = TRUE]) EXCEPT !.midFuncFlush = FALSE]

\* What the first statement behind declarations does for them.
Allocated(c) ==
  LET d == IF c.declared > 0 THEN gen(c, "ADDSP", c.csp - c.declared) ELSE c
  IN IF c.declared < 0 THEN c
     ELSE [d EXCEPT !.declared = -1, !.nogo = IF c.ncmp > 1 THEN c.declared ELSE @]
Finish(c, t, past) ==
  CASE t = "if" -> doIf(past)
    [] t = "while" -> doWhile(past)
    [] t = "do" -> doDo(past)
    [] t = "for" -> doFor(past)
    [] t = "switch" -> doSwitch(past)
    [] t = "case" -> doCase(past)
    [] t = "default" -> doDefault(past)
    [] t = "goto" -> doGoto(past)
    [] t = "label" -> doLabel(c)
    [] t = "return" -> reqSemicolon(doReturn(past))
    [] t = "break" -> reqSemicolon(doBreak(past))
    [] t = "continue" -> reqSemicolon(doContinue(past))
    [] t = "asm" -> doAsmBlock(past)
    [] t = "expr" -> reqSemicolon(doExpression(c))
Keywords == {"if", "while", "do", "for", "switch", "case", "default", "goto", "return", "break", "continue", "asm"}
Executable(c) ==
  LET t == Tok(c)[1]
      past == Bumped(c)
      kind == IF t \in Keywords THEN t ELSE IF t = "id" /\ Ahead(past, ":") THEN "label" ELSE "expr"
  IN CASE t = "{" -> doCompound(past)
       [] t = ";" -> past
       [] OTHER -> [Finish(c, kind, past) EXCEPT !.lastst = kind]
Declaration(t, isStatic) ==
  CASE t.type /= None -> reqSemicolon(declareLocals(IF MayDeclare(t.c) THEN t.c ELSE error(t.c), t, isStatic))
    [] t.type = None /\ isStatic -> error(Bumped(t.c))
    [] OTHER -> Executable(Allocated(t.c))
Statement(c) ==
  LET isStatic == Ahead(c, "static")
  IN IF Ahead(c, "end") THEN c ELSE Declaration(dotype(IF isStatic THEN Bumped(c) ELSE c, FALSE), isStatic)

-----------------------------------------------------------------------------
(* Functions.                                                              *)

\* doArgsTyped(): the arguments lie above the return address, the first one
\* lowest.  A struct is passed by its address.
Argument(t, d, adr) ==
  LET s == Declared(t, d, adr)
  IN IF t.type = "struct" /\ d.ident = "variable" THEN [s EXCEPT !.ident = "pointer"] ELSE s
ArgumentBytes(sym) == IF sym.ident /= "pointer" /\ SizeOf[sym.type] = 4 THEN BPD ELSE BPW
RECURSIVE doArgsTyped(_, _)
Added(c, name, sym, argstk) ==
  doArgsTyped(PastComma(IF name \in DOMAIN c.locals THEN error(c) ELSE AddLocal(c, name, sym)),
              argstk + ArgumentBytes(sym))
NextArgument(t, d, argstk) == Added(d.c, d.name, Argument(t, d, argstk + 2 * BPW), argstk)
TypedArgument(t, argstk) ==
  CASE t.type = "void" /\ Ahead(t.c, ")") -> [Bumped(t.c) EXCEPT !.csp = 0, !.argtop = BPW]
    [] t.type = None -> [error(t.c) EXCEPT !.csp = 0, !.argtop = argstk + BPW, !.in = <<>>]
    [] OTHER -> NextArgument(t, parseLocDecl(t.c, t, TRUE), argstk)
doArgsTyped(c, argstk) ==
  IF Ahead(c, ")") THEN [Bumped(c) EXCEPT !.csp = 0, !.argtop = argstk + BPW]
  ELSE TypedArgument(dotype(c, FALSE), argstk)
\* doArgsKR(): the names, then their declarations, then fixArgOffs().
RECURSIVE Names(_, _), KRTypes(_, _, _)
Names(c, names) ==
  CASE Ahead(c, ")") -> [c |-> Bumped(c), names |-> names]
    [] Ahead(c, "id") -> Names(PastComma(Bumped(c)), Append(names, Tok(c)[2]))
    [] OTHER -> [c |-> [error(c) EXCEPT !.in = <<>>], names |-> names]
\* doArgsKRTypes(): one name after the other, left the number still to come.
TypeAhead(t, left) == IF t.type = None THEN error(t.c) ELSE KRTypes(t.c, t, left - 1)
PastKR(c, t, left) ==
  CASE Ahead(c, ",") /\ left > 1 -> KRTypes(Bumped(c), t, left - 1)
    [] ~Ahead(c, ",") /\ left > 1 -> TypeAhead(dotype(reqSemicolon(c), FALSE), left)
    [] OTHER -> reqSemicolon(c)
OneKR(d, t, left) ==
  PastKR(IF d.name \in DOMAIN d.c.locals THEN AddLocal(d.c, d.name, Argument(t, d, 0)) ELSE error(d.c), t, left)
KRTypes(c, t, left) == OneKR(parseLocDecl(c, t, TRUE), t, left)
fixArgOffs(c, names) ==
  LET run[i \in 0..Len(names)] == IF i = 0 THEN 0 ELSE run[i - 1] + ArgumentBytes(c.locals[names[i]])
      Place0(i) == run[i - 1] + 2 * BPW
  IN [c EXCEPT !.argtop = run[Len(names)] + BPW,
               !.locals = [n \in DOMAIN c.locals |-> [c.locals[n] EXCEPT
                             !.adr = Place0(CHOOSE i \in DOMAIN names : names[i] = n)]]]
Untyped(c, names) ==
  [c EXCEPT !.csp = 0, !.locals = [x \in {names[i] : i \in DOMAIN names} |-> Symbol(None, None, 0)]]
AllTypes(t, names) == IF t.type = None THEN error(t.c) ELSE KRTypes(t.c, t, Len(names))
PastNames(c, names) == fixArgOffs(IF names = <<>> THEN c ELSE AllTypes(dotype(c, FALSE), names), names)
doArgsKR(c) == LET Past(n) == PastNames(Untyped(n.c, n.names), n.names) IN Past(Names(c, <<>>))

\* dofunction(): f is [name, type, cls, ident, adr, in], in the tokens from "("
\* on.  The code of the function before is flushed at its label.
ENTERed(c) == gen([c EXCEPT !.hasStaticLocal = FALSE], "ENTER", 0)
Ended(c) == IF Leaves(c) THEN c ELSE gen(c, "RETURN", 0)
Body(c) == Ended(IF c.snext = 0 THEN c ELSE clearStage(c, 0))
Arguments(c) == IF dotype(c, FALSE).type /= None THEN doArgsTyped(c, 0) ELSE doArgsKR(c)
Defined(c) ==
  IF Ahead(c, ";") THEN [Bumped(c) EXCEPT !.locals = <<>>] ELSE Body(doStatement(ENTERed(c)))
Function(c) == Defined(Arguments(require(c, "(")))

parse(what, c) ==
  CASE what = "level1" -> level(1, c)
    [] what = "statement" -> Statement(c)
    [] what = "function" -> Function(c)
dofunction(c, f) ==
  LET sym == [Symbol(f.ident, f.type, f.adr) EXCEPT
                !.cls = f.cls, !.depth = IF f.ident = "ptr_function" THEN 1 ELSE 0]
  IN parse("function", [c EXCEPT
       !.nogo = 0, !.noloc = FALSE, !.lastst = "none", !.locals = <<>>, !.in = f.in,
       !.globals = (f.name :> sym) @@ @, !.rettype = f.type, !.retcls = f.cls])
=============================================================================
