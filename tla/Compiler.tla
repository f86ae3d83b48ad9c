------------------------------ MODULE Compiler ------------------------------
(***************************************************************************)
(* From the text of a program to what its code does.  Function by function *)
(* the compiler parses and generates (Stmt, Expr, Stage), the passes of    *)
(* flushfunc() work over the function's p-codes one after the other        *)
(* (FuncBuf), and what comes out is run p-code by p-code (Machine).  The   *)
(* source's own meaning (Source) is what the run is held against.          *)
(***************************************************************************)
EXTENDS Stmt, Machine, Source

CONSTANTS
  Programs,        \* a sequence of [text, ways]: the functions, of which the last one is run,
                   \* and pairs: whether -no is absent, and what uninitialized reads find
  Globals,         \* the variables all programs share: [t, adr] by name
  Memory,          \* what is in memory when a program starts
  StackTop,        \* where its stack starts
  StaticBase,      \* where the compiler puts static variables
  RefLow, RefTop   \* where the source's meaning keeps its variables

VARIABLES
  text,            \* the program's functions
  phase,           \* what the compiler does next
  fn,              \* the function it is at
  c,               \* the compiler's state
  prog,            \* the program compiled: p-codes, labels, entries
  m,               \* the machine that runs it
  means,           \* what the source means: [ret, mem]
  depth            \* how far SP was from BP at each p-code reached in a frame

vars == <<text, phase, fn, c, prog, m, means, depth>>

-----------------------------------------------------------------------------
(* The symbols of what the source declares.                                *)

RECURSIVE ClassOf(_)
SymbolFor(t, adr, cls) ==
  LET base == Base(t)
      ident == CASE t.k = "array" -> IF Depth(t) > 0 THEN "ptr_array" ELSE "array"
                 [] t.k = "ptr" -> IF base.k = "func" THEN "fnptr" ELSE "pointer"
                 [] OTHER -> "variable"
      dims == DimsOf(t)
  IN [Symbol(ident, IF base.k = "func" THEN base.to.k ELSE base.k, adr) EXCEPT
        !.depth = IF t.k = "ptr" THEN Depth(t) ELSE 0, !.cls = cls,
        !.strides = IF Len(dims) > 1 THEN calcArgStrides(dims, getTypeElemSz(base.k, cls)) ELSE <<>>]
ClassOf(t) ==
  IF t.k /= "struct" THEN NoClass
  ELSE [size |-> t.n, union |-> FALSE, order |-> InOrder(t),
        members |-> [x \in DOMAIN t.members |->
          LET y == t.members[x]
              s == SymbolFor(y.t, 0, ClassOf(Base(y.t)))
          IN [off |-> y.off, ident |-> s.ident, type |-> s.type, depth |-> s.depth, cls |-> s.cls,
              strides |-> s.strides, size |-> Size0(y.t),
              bits |-> [width |-> y.width, off |-> y.at, signed |-> y.t.k = "int"]]]]
SymbolOf(t, adr) == SymbolFor(t, adr, ClassOf(Base(t)))
Tokens(ts) == [i \in DOMAIN ts |-> IF ts[i][1] = "struct" THEN <<"struct", ClassOf(ts[i][2])>> ELSE ts[i]]

\* Where the functions are: any addresses that differ.
Entry(i) == RefLow - i
FunctionOf(i) ==
  LET f == text[i]
  IN [name |-> f.name, type |-> Base(f.ret).k, cls |-> ClassOf(Base(f.ret)), adr |-> Entry(i),
      ident |-> IF f.ret.k = "ptr" THEN "ptr_function" ELSE "function", in |-> Tokens(FunctionText(f))]

\* The compiler before its first function.
Fresh(switches) ==
  [stage |-> <<>>, snext |-> 0, csp |-> 0, nxtlab |-> 0, fb |-> <<>>, out |-> <<>>, usexpr |-> TRUE,
   optimize |-> switches[1], junk |-> switches[2], errors |-> 0, in |-> <<>>, is |-> Cleared, k |-> 0,
   locals |-> <<>>, globals |-> LET vars0 == Globals IN [n \in DOMAIN vars0 |-> SymbolOf(vars0[n].t, vars0[n].adr)],
   lits |-> <<>>, ncmp |-> 0, declared |-> -1, nogo |-> 0, noloc |-> FALSE, lastst |-> "none", wq |-> <<>>,
   swactive |-> FALSE, swdefault |-> 0, swislong |-> FALSE, swnext |-> <<>>, rettype |-> "int",
   retcls |-> NoClass, argtop |-> 0, hasInlineAsm |-> FALSE, hasStaticLocal |-> FALSE,
   midFuncFlush |-> FALSE, data |-> <<>>, dptr |-> StaticBase]

-----------------------------------------------------------------------------
Init ==
  /\ LET ps == Programs
     IN \E n \in DOMAIN ps : text = ps[n].text /\ c \in {Fresh(w) : w \in ps[n].ways}
  /\ phase = "parse"
  /\ fn = 1
  /\ prog = [code |-> <<>>, label |-> <<>>, entry |-> <<>>]
  /\ m = <<>>
  /\ means = <<>>
  /\ depth = <<>>

Quiet == UNCHANGED <<text, fn, prog, m, means, depth>>

\* parseTopLvl() at a function definition; the symbols of a function are
\* forgotten behind it.
DoFunction ==
  /\ phase = "parse"
  /\ fn \in DOMAIN text
  /\ c' = dofunction(c, FunctionOf(fn))
  /\ prog' = [prog EXCEPT !.entry = (Entry(fn) :> Len(c.out) + 1) @@ @]
  /\ phase' = "fold"
  /\ UNCHANGED <<text, fn, m, means, depth>>

TryPointMoveFold ==
  /\ phase = "fold"
  /\ c' = [c EXCEPT !.fb = tryPointMoveFold(@)]
  /\ phase' = "omit"
  /\ Quiet

CanOptFPOpass ==
  /\ phase = "omit"
  /\ c' = [c EXCEPT !.fb = canOptFPOpass(@, c.hasInlineAsm \/ c.hasStaticLocal)]
  /\ phase' = "consolidate"
  /\ Quiet

TryEpilogueConsolidation ==
  /\ phase = "consolidate"
  /\ c' = Consolidated(c, c.fb)
  /\ phase' = "unbox"
  /\ Quiet

TryBoxingElimination ==
  /\ phase = "unbox"
  /\ c' = [c EXCEPT !.fb = tryBoxingElimination(@)]
  /\ phase' = "direct"
  /\ Quiet

TryPushPopElimination ==
  /\ phase = "direct"
  /\ c' = [c EXCEPT !.fb = tryPushPopElimination(@)]
  /\ phase' = "shorten"
  /\ Quiet

\* One round of the loop, until a round changes nothing.
ShortBranchRound ==
  /\ phase = "shorten"
  /\ Shorten(c.fb) /= c.fb
  /\ c' = [c EXCEPT !.fb = Shorten(@)]
  /\ UNCHANGED phase
  /\ Quiet

\* The rest of flushfunc(): the p-codes are written; then the next function.
Emit ==
  /\ phase = "shorten"
  /\ Shorten(c.fb) = c.fb
  /\ c' = [c EXCEPT !.out = @ \o c.fb, !.fb = <<>>]
  /\ fn' = fn + 1
  /\ phase' = "parse"
  /\ UNCHANGED <<text, prog, m, means, depth>>

\* The end of the text: the program is assembled, linked and loaded.
Loaded(mem) ==
  [a \in DOMAIN mem |->
     CASE a \in DOMAIN c.data -> c.data[a]
       [] a \notin DOMAIN c.data /\ a - LitPool \in 0..(Len(c.lits) - 1) -> c.lits[a - LitPool + 1]
       [] OTHER -> mem[a]]
\* What the source means, in the source's own terms: no part of the compiler.
SourceMeans ==
  LET funcs == [n \in {text[i].name : i \in DOMAIN text} \cup DOMAIN Externs |->
                  IF n \in DOMAIN Externs
                  THEN [params |-> <<>>, ret |-> T("int"), body |-> <<"none", 0>>, adr |-> Extern[n]]
                  ELSE LET i == CHOOSE j \in DOMAIN text : text[j].name = n
                       IN [params |-> text[i].params, ret |-> text[i].ret,
                           body |-> text[i].body, adr |-> Entry(i)]]
      names == [n \in DOMAIN funcs |-> [t |-> [T("func") EXCEPT !.to = funcs[n].ret], adr |-> funcs[n].adr]]
  IN Meaning(names @@ Globals, funcs, text[Len(text)].name, Memory, RefLow, RefTop)
Load1 ==
  /\ phase = "parse"
  /\ fn \notin DOMAIN text
  /\ LET p == [prog EXCEPT !.code = c.out, !.label = Labels(c.out)]
     IN /\ prog' = p
        /\ m' = Machine(p, Entry(Len(text)), Loaded(Memory), StackTop)
  /\ means' = SourceMeans
  /\ phase' = "run"
  /\ UNCHANGED <<text, fn, c, depth>>

\* The frame that a p-code runs in: behind the ENTER of its function.
InFrame(pc) ==
  LET before == {i \in 1..(pc - 1) : prog.code[i].op = "ENTER"}
      begun == {prog.entry[f] : f \in DOMAIN prog.entry}
  IN \E i \in before : \A e \in begun : e <= i \/ e > pc
Execute ==
  /\ phase = "run"
  /\ Running(prog, m)
  /\ m' = Step(prog, m)
  /\ depth' = IF InFrame(m.pc) /\ m.pc \notin DOMAIN depth THEN (m.pc :> S(m.sp - m.bp)) @@ depth ELSE depth
  /\ UNCHANGED <<text, phase, fn, c, prog, means>>

\* What the caller finds: AX, or DX:AX.
Returned(t) == IF Size0(t) = 4 THEN Fit(Long1(m), t) ELSE Fit(m.ax, t)
Done ==
  /\ phase = "run"
  /\ ~Running(prog, m)
  /\ phase' = "done"
  /\ UNCHANGED <<text, fn, c, prog, m, means, depth>>

Next ==
  \/ DoFunction \/ TryPointMoveFold \/ CanOptFPOpass \/ TryEpilogueConsolidation \/ TryBoxingElimination
  \/ TryPushPopElimination \/ ShortBranchRound \/ Emit \/ Load1 \/ Execute \/ Done

\* The compiler and the processor do not stop by themselves.  Every phase but
\* the last has a step, so this is WF_vars(Next), without ENABLED.
Fairness == <>[](phase /= "done") => []<><<TRUE>>_vars
Spec == Init /\ [][Next]_vars /\ Fairness

-----------------------------------------------------------------------------
(* Properties.                                                             *)

\* The programs are correct C, and none of the compiler's tables is too
\* small for them: no error is reported, and nothing is written behind
\* the end of the staging buffer or of the function buffer.
Accepted ==
  /\ c.errors = 0
  /\ c.snext \in 0..(StageSize + 1)
  /\ Len(c.fb) <= FuncBufSize

\* The compiled program does what its source says: it returns the value the
\* source returns and leaves the same values in all variables (cc3.c, cc4.c:
\* whatever was folded, scheduled, reversed, staged or optimized away).
BehavesAsSource ==
  phase = "done" =>
    LET ret == text[Len(text)].ret
    IN /\ ret.k \notin {"void", "struct"} => Returned(ret) = means.ret
       /\ LET vars0 == Globals
          IN \A x \in {vars0[n] : n \in DOMAIN vars0} :
               \A a \in x.adr..(x.adr + Size0(x.t) - 1) : m.mem[a] = means.mem[a]

\* A function gives back the stack it took, and BP (the protocol of ENTER,
\* RETURN and RETNOFP), whichever of its frames and pops were optimized away.
GivesBackTheStack == phase = "done" => m.sp = StackTop /\ m.bp = 0

\* The code never branches on flags no instruction set, never jumps where no
\* label is and never falls off its end.
NeverTraps == phase \in {"run", "done"} => ~m.trap

\* The p-codes whose operand is relative to BP.
UsesBP == {"POINT1s", "POINT2s", "GETb1s", "GETb1su", "GETw1s", "GETw2s", "PUSHs", "PUSHds", "PUTws1", "PUTbs1",
           "GETd1s", "GETd2s", "PUTds1", "CMP1s", "ADDws1", "SUBws1", "ANDws1", "ORws1", "XORws1",
           "POSTINCws", "POSTDECws"}

\* The stack is as the compiler counted it when it made a p-code (csp).  In
\* whichever way a p-code is reached, SP is as far from BP as the first time,
\* but for the epilogue that tryEpilogueConsolidation() leaves: it takes SP from
\* BP.  And a local variable, whose offset was csp when it was declared, is
\* addressed only while it is on the stack: what lies below SP the next call
\* overwrites.
StackDepthIsStatic ==
  LET p == prog.code[m.pc]
      below == S(m.sp - m.bp)
  IN phase = "run" /\ Running(prog, m) =>
       /\ m.pc \in DOMAIN depth /\ p.op \notin {"LABm", "RETURN"} => below = depth[m.pc]
       /\ p.op \in UsesBP /\ p.v < 0 /\ InFrame(m.pc) => below <= p.v

\* flushfunc(): every branch made short reaches its label (cc4.c:2420), over the
\* bytes that the assembler makes of the code and not those that flushfunc()
\* estimates.
ShortBranchesReach == phase = "shorten" /\ Shorten(c.fb) = c.fb => AllReach(c.fb)

\* A function that needs no frame pointer gets none, one that does keeps it
\* (canOptFPOpass(), cc4.c:2219): no operand relative to BP without ENTER.
FramelessNeedsNoBP ==
  phase \in {"consolidate", "unbox", "direct", "shorten"} =>
    ((\E i \in DOMAIN c.fb : c.fb[i].op = "RETNOFP") => \A i \in DOMAIN c.fb : c.fb[i].op \notin UsesBP)

\* The short-branch loop ends because the size it computes never grows
\* (cc4.c:2432), and it never touches a branch twice.
SizeNeverGrows ==
  [][phase = "shorten" /\ phase' = "shorten" => Size(c'.fb) < Size(c.fb)]_vars

\* Every program is compiled, run and finished (the loop of flushfunc() ends,
\* and the code does not loop where the source does not).
Finishes == <>(phase = "done")
=============================================================================
