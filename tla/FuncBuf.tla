------------------------------ MODULE FuncBuf -------------------------------
(***************************************************************************)
(* The passes of cc4.c over the p-codes of a whole function, which         *)
(* flushfunc() runs before it writes them: frames and return points are    *)
(* dropped where they are not needed, the 0 and 1 of && and || are not     *)
(* made where they are only tested, stores to locals lose their detour     *)
(* over the stack, and branches become short where they reach.             *)
(***************************************************************************)
EXTENDS PCodes

CONSTANTS
  FuncBufSize,     \* FUNCBUFSIZE, in p-codes
  LabelMax,        \* FL_LABMAX: labels the short-branch loop can record
  Reach,           \* 128: how far a short branch jumps back
  PosMax           \* 32767: the largest int, which positions are

ASSUME FuncBufAssumption ==
  /\ FuncBufSize \in Nat \ {0}
  /\ LabelMax \in Nat
  /\ Reach \in Nat \ {0}
  /\ PosMax \in Nat /\ Reach <= PosMax

Nop == P("NOP_", 0)

-----------------------------------------------------------------------------
\* tryPointMoveFold(): POINT1s MOVE21 becomes POINT2s.
Folds(fb, i) ==
  i \in 1..(Len(fb) - 1) /\ fb[i].op = "POINT1s" /\ fb[i + 1].op = "MOVE21"
tryPointMoveFold(fb) ==
  [i \in DOMAIN fb |->
     IF Folds(fb, i) THEN P("POINT2s", fb[i].v) ELSE IF Folds(fb, i - 1) THEN Nop ELSE fb[i]]

\* canOptFPOpass(): without BP-relative operands and with nothing to free,
\* the function needs no frame.
fpoBlockingPcs == {"POINT1s", "POINT2s", "GETb1s", "GETb1su", "GETw1s", "GETw2s", "PUSHs", "PUSHds",
                   "PUTws1", "PUTbs1", "GETd1s", "GETd2s", "PUTds1", "CMP1s"}
\* Mutants: what RETURN has to free does not count; a load does not count.
NeedsFrameToRead(p) == p.op \in fpoBlockingPcs
NeedsFrameNotToLoad(p) == p.op \in fpoBlockingPcs \ {"GETw1s"} \/ (p.op = "RETURN" /\ p.v /= 0)
NeedsFrame(p) == p.op \in fpoBlockingPcs \/ (p.op = "RETURN" /\ p.v /= 0)
canOptFPOpass(fb, barred) ==
  IF barred \/ \E i \in DOMAIN fb : NeedsFrame(fb[i]) THEN fb
  ELSE [i \in DOMAIN fb |->
          CASE fb[i].op = "ENTER" -> P("NOP_", fb[i].v)
            [] fb[i].op = "RETURN" -> P("RETNOFP", fb[i].v)
            [] OTHER -> fb[i]]

\* tryEpilogueConsolidation(): all returns but the last become jumps to it.
\* label is the one getlabel() gives when there is a use for it.
Returns(fb) == {i \in DOMAIN fb : fb[i].op = "RETURN"}
Consolidates(fb, midFuncFlush) ==
  /\ ~midFuncFlush
  /\ \E i, j \in Returns(fb) : i /= j
  /\ \E i \in Returns(fb) : fb[i].v /= 0
  /\ Len(fb) + 1 <= FuncBufSize
\* Mutant: the return the others jump to gets no label.
tryEpilogueConsolidationBare(fb, midFuncFlush, label) ==
  IF ~Consolidates(fb, midFuncFlush) THEN fb
  ELSE LET lastRet == CHOOSE i \in Returns(fb) : \A j \in Returns(fb) : j <= i
       IN [i \in DOMAIN fb |-> IF i \in Returns(fb) \ {lastRet} THEN P("JMPm", label) ELSE fb[i]]
tryEpilogueConsolidation(fb, midFuncFlush, label) ==
  IF ~Consolidates(fb, midFuncFlush) THEN fb
  ELSE LET lastRet == CHOOSE i \in Returns(fb) : \A j \in Returns(fb) : j <= i
       IN Append([i \in DOMAIN fb |->
                    CASE i = lastRet -> P("LABm", label)
                      [] i \in Returns(fb) \ {lastRet} -> P("JMPm", label)
                      [] OTHER -> fb[i]],
                 P("RETURN", 1))

-----------------------------------------------------------------------------
\* What a pass does to one place makes no place like it elsewhere, so both of
\* these go from one of those found at first to the next.
Nth(slots, n) == CHOOSE i \in slots : Cardinality({j \in slots : j <= i}) = n

\* tryBoxingElimination(): what skim() leaves behind && and ||, in front of
\* a test of it, is replaced by direct branches.
BoxedAt(fb, i) ==
  /\ i \in 1..(Len(fb) - 5)
  /\ <<fb[i].op, fb[i+1].op, fb[i+2].op, fb[i+3].op, fb[i+4].op, fb[i+5].op>> =
       <<"GETw1n", "JMPm", "LABm", "GETw1n", "LABm", "NE10f">>
  /\ fb[i + 4].v = fb[i + 1].v
  /\ <<fb[i].v, fb[i + 3].v>> \in {<<0, 1>>, <<1, 0>>}
EndIsNamed(fb, i) == \E q \in DOMAIN fb : q /= i + 1 /\ fb[q].v = fb[i + 1].v
Unboxed(fb, i) ==
  LET direct == P("JMPm", fb[i + 5].v)
  IN CASE fb[i].v = 0 /\ EndIsNamed(fb, i) -> fb
       [] fb[i].v = 0 /\ ~EndIsNamed(fb, i) ->
            [fb EXCEPT ![i] = direct, ![i+1] = Nop, ![i+3] = Nop, ![i+4] = Nop, ![i+5] = Nop]
       [] OTHER -> [fb EXCEPT ![i] = Nop, ![i+3] = direct, ![i+5] = Nop]
tryBoxingElimination(fb) ==
  LET at == {i \in DOMAIN fb : BoxedAt(fb, i)}
      upTo[n \in 0..Cardinality(at)] == IF n = 0 THEN fb ELSE Unboxed(upTo[n - 1], Nth(at, n))
  IN upTo[Cardinality(at)]

\* tryPushPopElimination(): POINT1s PUSH1 ... POP2 PUTwp1 stores directly.
\* Taken(p) is what the pass counts off the depth of the stack at p.
Taken(p) ==
  CASE p.op \in {"PUSH1", "PUSH2", "PUSHs", "PUSHm", "PUSHp"} -> -1
    [] p.op \in {"PUSHd1", "PUSHdm", "PUSHds"} -> -2
    [] p.op \in {"POP2", "PUTws1", "PUTbs1"} -> 1
    [] p.op = "POPd2" -> 2
    [] p.op \in {"POPCX", "POPCX2", "ADDSP"} -> p.v \div 2
    [] OTHER -> 0
\* The first slot where the depth, 1 behind the push in slot i + 1, is used
\* up; 0 when there is none.
PopOf(fb, i) ==
  LET depth[j \in 0..Len(fb)] == IF j <= i + 1 THEN 1 ELSE depth[j - 1] - Taken(fb[j])
      spent == {j \in (i + 2)..Len(fb) : depth[j] <= 0}
  IN IF spent = {} THEN 0 ELSE CHOOSE j \in spent : \A k \in spent : j <= k
SecFree(fb, from) ==
  \A j \in from..Len(fb) :
    fb[j].op \in UsesSec => \E k \in from..(j - 1) : fb[k].op \in ZapsSec
PushesLocal(fb, i) == i \in 1..(Len(fb) - 1) /\ fb[i].op = "POINT1s" /\ fb[i + 1].op = "PUSH1"
Direct(fb, i) ==
  LET q == PopOf(fb, i)
  IN IF /\ q \in 1..(Len(fb) - 1) /\ fb[q].op = "POP2" /\ fb[q + 1].op \in {"PUTwp1", "PUTbp1"}
        /\ SecFree(fb, q + 2)
     THEN [fb EXCEPT ![i] = Nop, ![i + 1] = Nop, ![q] = Nop,
                     ![q + 1] = P(IF @.op = "PUTwp1" THEN "PUTws1" ELSE "PUTbs1", fb[i].v)]
     ELSE fb
tryPushPopElimination(fb) ==
  LET at == {i \in DOMAIN fb : PushesLocal(fb, i)}
      upTo[n \in 0..Cardinality(at)] == IF n = 0 THEN fb ELSE Direct(upTo[n - 1], Nth(at, n))
  IN upTo[Cardinality(at)]

-----------------------------------------------------------------------------
\* Mutant: code_size[] has the long forms' sizes for the short ones.
OffsetAsLong(fb) ==
  LET long(p) == IF p.op \in ShortForms THEN LongOf(p.op) ELSE p.op
      at[i \in 1..(Len(fb) + 1)] == IF i = 1 THEN 0 ELSE at[i - 1] + CodeSize[long(fb[i - 1])]
  IN at
\* The short-branch loop.  Offset(fb)[i] is what code_size[] adds up to before
\* slot i, Place(fb)[i] the int that pos is there: the 255 bytes of every word
\* of a switch table can wrap it.  A label is found by the first of the
\* recorded slots that has it, and only if its position is not negative.
Offset(fb) ==
  LET at[i \in 1..(Len(fb) + 1)] == IF i = 1 THEN 0 ELSE at[i - 1] + CodeSize[fb[i - 1].op]
  IN at
AsInt(n) == ((n + PosMax + 1) % (2 * (PosMax + 1))) - (PosMax + 1)
Place(fb) == LET offset == Offset(fb) IN [i \in DOMAIN offset |-> AsInt(offset[i])]
Recorded(fb) ==
  {i \in DOMAIN fb : /\ fb[i].op = "LABm"
                     /\ Cardinality({j \in 1..(i - 1) : fb[j].op = "LABm"}) < LabelMax}
\* Mutant: the displacement is taken for an unsigned byte.
ReachesUnsigned(fb, place, i) ==
  LET labels == {j \in Recorded(fb) : fb[j].v = fb[i].v}
      lpos == place[CHOOSE j \in labels : \A k \in labels : j <= k]
      delta == AsInt(lpos - (place[i] + CodeSize[ShortBranch(fb[i].op)]))
  IN labels /= {} /\ lpos >= 0 /\ delta >= -Reach /\ delta < 2 * Reach
Reaches(fb, place, i) ==
  LET labels == {j \in Recorded(fb) : fb[j].v = fb[i].v}
      lpos == place[CHOOSE j \in labels : \A k \in labels : j <= k]
      delta == AsInt(lpos - (place[i] + CodeSize[ShortBranch(fb[i].op)]))
  IN labels /= {} /\ lpos >= 0 /\ delta >= -Reach /\ delta < Reach
\* One round of the loop: every substitution is judged by the sizes that the
\* round began with.
Shorten(fb) ==
  LET place == Place(fb)
  IN [i \in DOMAIN fb |->
        IF fb[i].op \in LongBranch /\ Reaches(fb, place, i) THEN P(ShortBranch(fb[i].op), fb[i].v)
        ELSE fb[i]]
Size(fb) == Offset(fb)[Len(fb) + 1]

\* The most bytes that the assembler makes of a p-code's string in code[]: with
\* numbers and displacements of two bytes, without the parts that outcode()
\* skips for a 0, and INC and DEC as often as the value says.  That is
\* code_size[] or less, but for steps of more than 2 and the three below.
StepsBy == {"rINC1", "rDEC1", "rINC2", "rDEC2"}
LengthOfZero ==
  [ADDSP |-> 0, ADD1n |-> 0, ADD2n |-> 0, SUB1n |-> 0, RETURN |-> 2, GETw1n |-> 2, GETw2n |-> 2,
   GETdxn |-> 2, GETcxn |-> 2, GETw1p |-> 2, GETw2p |-> 2, PUSHp |-> 2, PUSHs |-> 3, GETb1p |-> 3,
   GETb1pu |-> 4]
Underrated == [GETb1su |-> 6, GETb1pu |-> 6, ADD2n |-> 4]
Length(p) ==
  IF p.op \in StepsBy THEN IF p.v > 0 THEN p.v ELSE 0
  ELSE IF p.op \in DOMAIN LengthOfZero /\ p.v = 0 THEN LengthOfZero[p.op]
  ELSE IF p.op \in DOMAIN Underrated THEN Underrated[p.op]
  ELSE CodeSize[p.op]
Address(fb) ==
  LET at[i \in 1..(Len(fb) + 1)] == IF i = 1 THEN 0 ELSE at[i - 1] + Length(fb[i - 1])
  IN at

\* Every branch of the buffer that is short reaches a label of its name over
\* the code that is emitted between them.
AllReach(fb) ==
  LET address == Address(fb)
  IN \A i \in DOMAIN fb : fb[i].op \in ShortForms =>
       \E j \in DOMAIN fb : /\ fb[j] = P("LABm", fb[i].v)
                            /\ address[j] - address[i + 1] \in (-Reach)..(Reach - 1)
=============================================================================
