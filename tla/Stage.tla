------------------------------- MODULE Stage --------------------------------
(***************************************************************************)
(* The compiler's output, as cc3.c and cc1.c see it: gen() puts a p-code   *)
(* into the staging buffer, or sends it on when nothing is being staged;   *)
(* clearStage() backs up or sends the buffer through the optimizer;        *)
(* bufout() collects what comes out until flushfunc().                     *)
(*                                                                         *)
(* The globals of the compiler are one record c.  Here: stage and snext (0 *)
(* when nothing is staged), csp, fb the function buffer, out what was      *)
(* written already, usexpr, optimize, errors.                              *)
(***************************************************************************)
EXTENDS Peephole, FuncBuf

CONSTANT StageSize       \* STAGESIZE, in p-codes

ASSUME StageAssumption == StageSize \in Nat \ {0}

error(c) == [c EXCEPT !.errors = @ + 1]

\* bufout(): a full buffer is written as it is, and the p-code behind it.
bufout(c, p) ==
  IF Len(c.fb) >= FuncBufSize THEN [c EXCEPT !.out = Append(@ \o c.fb, p), !.fb = <<>>]
  ELSE [c EXCEPT !.fb = Append(@, p)]
RECURSIVE BufferedAll(_, _)
BufferedAll(c, pcs) == IF pcs = <<>> THEN c ELSE BufferedAll(bufout(c, Head(pcs)), Tail(pcs))

setstage(c) == IF c.snext = 0 THEN [c EXCEPT !.snext = 1] ELSE c

\* clearStage(): before is what setstage() found.  With a start the whole
\* buffer is dumped; without one (unstage) what is behind before is dropped.
unstage(c, before) == [c EXCEPT !.snext = before]
clearStage(c, before) ==
  IF before /= 0 THEN unstage(c, before)
  ELSE BufferedAll(unstage(c, 0), dumpstage(c.stage, c.snext, c.usexpr, c.optimize))

\* The slot snext of the stage; what it held before is lost.
Staged(c, p) ==
  CASE c.snext = 0 -> bufout(c, p)
    [] c.snext > StageSize -> error(c)
    [] c.snext \in DOMAIN c.stage -> [c EXCEPT !.stage[c.snext] = p, !.snext = @ + 1]
    [] OTHER -> [c EXCEPT !.stage = Append(@, p), !.snext = @ + 1]
RECURSIVE StagedAll(_, _)
StagedAll(c, pcs) == IF pcs = <<>> THEN c ELSE StagedAll(Staged(c, Head(pcs)), Tail(pcs))

\* gen(): what some p-codes need in front of them, and what they do to csp.
Preceded == [p \in {"GETb1p", "GETb1pu", "GETw1p"} |-> <<P("MOVE21", 0)>>] @@
            [p \in {"GETd1p"} |-> <<P("MOVEd21", 0)>>] @@
            [p \in {"SUB12", "MOD12", "MOD12u", "DIV12", "DIV12u"} |-> <<P("SWAP12", 0)>>] @@
            [p \in {"SUBd12", "MODd12", "MODd12u", "DIVd12", "DIVd12u"} |-> <<P("SWAPd12", 0)>>] @@
            [p \in PCode |-> <<>>]
Moves(pcode) ==
  CASE pcode \in {"PUSH1", "PUSH2"} -> -2
    [] pcode \in {"PUSHd1", "PUSHdm", "PUSHds"} -> -4
    [] pcode = "POP2" -> 2
    [] pcode = "POPd2" -> 4
    [] OTHER -> 0
ToSP == {"ADDSP", "RETURN"}
Freed(pcode, n) == P(IF pcode = "ADDSP" /\ n = 2 THEN "POPCX"
                     ELSE IF pcode = "ADDSP" /\ n = 4 THEN "POPCX2" ELSE pcode, n)
Written(c, pcode, value) ==
  IF pcode \in ToSP THEN <<Freed(pcode, value - c.csp)>> ELSE Append(Preceded[pcode], P(pcode, value))
gen(c, pcode, value) ==
  StagedAll([c EXCEPT !.csp = IF pcode \in ToSP THEN value ELSE @ + Moves(pcode)], Written(c, pcode, value))
\* Several p-codes, as <<pcode, value>> pairs.
RECURSIVE gens(_, _)
gens(c, seq) == IF seq = <<>> THEN c ELSE gens(gen(c, seq[1][1], seq[1][2]), Tail(seq))

getlabel(c) == [c EXCEPT !.nxtlab = @ + 1]
=============================================================================
