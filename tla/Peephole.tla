------------------------------ MODULE Peephole ------------------------------
(***************************************************************************)
(* The peephole optimizer of cc4.c: the table seqdata[] of rewrite rules,  *)
(* peep(), which tries one of them, and dumpstage(), which applies them to *)
(* the staging buffer while it empties it.                                 *)
(*                                                                         *)
(* A rule is <<pattern, actions>>.  A pattern is a sequence of p-codes and *)
(* matchers, an action sequence one of pairs <<command, n>>: a command     *)
(* word of seqdata[] with its signed low byte, or a p-code to be written.  *)
(* <<"end", 0>> is the zero that ends a conditional block.                 *)
(***************************************************************************)
EXTENDS PCodes, SequencesExt

Go(n) == <<"go", n>>
Gc(n) == <<"gc", n>>
Gv(n) == <<"gv", n>>
Add(n) == <<"sum", n>>
Neg == <<"neg", 0>>
Ife(n) == <<"ife", n>>
Ifl(n) == <<"ifl", n>>
Swv(n) == <<"swv", n>>
Put(p) == <<p, 0>>
End == <<"end", 0>>
Matchers == {"any", "pfree", "sfree", "comm", "fset", "v1eq"}
Commands == {"go", "gc", "gv", "sum", "neg", "ife", "ifl", "swv", "end"}

\* n slots that are emptied, one after the other
RECURSIVE Nops(_)
Nops(n) == IF n = 0 THEN <<>> ELSE <<Go(1), Put("NOP_")>> \o Nops(n - 1)

\* seqdata[], rules 000 to 011: additions become INC and DEC, and what is
\* incremented or decremented after its use is so in memory.
IncDecRules == <<
  << <<"ADD12","MOVE21">>, <<Go(1), Put("ADD21")>> >>,
  << <<"ADD1n">>, <<Ifl(-2), End, Ifl(0), Put("rDEC1"), Neg, End, Ifl(3), Put("rINC1"), End>> >>,
  << <<"ADD2n">>, <<Ifl(-2), End, Ifl(0), Put("rDEC2"), Neg, End, Ifl(3), Put("rINC2"), End>> >>,
  << <<"SUB1n">>, <<Ifl(-2), End, Ifl(0), Put("rINC1"), Neg, End, Ifl(3), Put("rDEC1"), End>> >>,
  << <<"rDEC1","PUTbp1","rINC1">>, <<Go(2), Ife(1), Put("DECbp"), End, Put("SUBbpn"), End>> >>,
  << <<"rDEC1","PUTwp1","rINC1">>, <<Go(2), Ife(1), Put("DECwp"), End, Put("SUBwpn"), End>> >>,
  << <<"rDEC1","PUTbm1","rINC1">>, <<Go(1), Put("SUB_m_"), Go(1), Put("COMMAn"), Go(-1)>> >>,
  << <<"rDEC1","PUTwm1","rINC1">>, <<Go(1), Put("SUB_m_"), Go(1), Put("COMMAn"), Go(-1)>> >>,
  << <<"rINC1","PUTbm1","rDEC1">>, <<Go(1), Put("ADDm_"), Go(1), Put("COMMAn"), Go(-1)>> >>,
  << <<"rINC1","PUTwm1","rDEC1">>, <<Go(1), Put("ADDm_"), Go(1), Put("COMMAn"), Go(-1)>> >>,
  << <<"rINC1","PUTbp1","rDEC1">>, <<Go(2), Ife(1), Put("INCbp"), End, Put("ADDbpn"), End>> >>,
  << <<"rINC1","PUTwp1","rDEC1">>, <<Go(2), Ife(1), Put("INCwp"), End, Put("ADDwpn"), End>> >> >>

\* Rules 012 to 028: operands are loaded where they are needed.
Indexed(get) == << <<"GETw1m","GETw2n","ADD12","MOVE21",get>>,
                   <<Go(4), Gv(-3), Go(-1), Put("GETw2m"), Gv(-3)>> >>
ToSec(get1, get2) == << <<get1,"MOVE21">>, <<Go(1), Put(get2), Gv(-1)>> >>
Swapped(get1, get2) == << <<get1,"MOVE21",get1,"SWAP12">>,
                          <<Go(3), Put(get1), Gv(-1), Go(-1), Put(get2), Gv(-2)>> >>
LessConst(get2, get1) == << <<get2,"GETw1n","SWAP12","SUB12">>,
                            <<Go(3), Put("SUB1n"), Gv(-2), Go(-1), Put(get1), Gv(-2)>> >>
StoreConst(put) == << <<"GETw1n",put,"pfree">>,
                      <<Put("PUT_m_"), Go(1), Put("COMMAn"), Go(-1), Swv(1)>> >>
PushAt(get, push) == << <<get,"PUSH1","pfree">>, <<Go(1), Put(push), Gv(-1)>> >>

LoadRules == <<
  Indexed("GETb1p"), Indexed("GETb1pu"), Indexed("GETw1p"),
  Swapped("GETw1m", "GETw2m"), ToSec("GETw1m", "GETw2m"), PushAt("GETw1m", "PUSHm"),
  StoreConst("PUTbm1"), StoreConst("PUTwm1"), PushAt("GETw1p", "PUSHp"),
  << <<"GETw1s","GETw2n","ADD12","MOVE21">>,
     <<Go(3), Put("ADD2n"), Gv(-2), Go(-1), Put("GETw2s"), Gv(-2)>> >>,
  Swapped("GETw1s", "GETw2s"), ToSec("GETw1s", "GETw2s"),
  LessConst("GETw2m", "GETw1m"),
  << <<"GETw2n","ADD12">>, <<Go(1), Put("ADD1n"), Gv(-1)>> >>,
  LessConst("GETw2s", "GETw1s"),
  << <<"MOVE21","GETw1n","SWAP12","SUB12">>, <<Go(3), Put("SUB1n"), Gv(-2)>> >>,
  << <<"MOVE21","GETw1n","comm">>, <<Go(1), Put("GETw2n")>> >> >>

\* Rules 029 to 046: an address that is computed only to be used at once.
Via(point, get, to) == << <<point,get,"sfree">>, <<Go(1), Put(to), Gv(-1)>> >>
ViaStack(get, to) == << <<"POINT2s",get,"sfree">>, <<Add(1), Go(1), Put(to), Gv(-1)>> >>
PostStep(step, back, to) ==
  << <<"POINT2s","GETw1p",step,"v1eq","PUTwp1",back,"MOVE21","pfree">>,
     <<Add(1), Put(to)>> \o Nops(5) \o <<Go(-5)>> >>

AddressRules == <<
  << <<"POINT1m","GETw2n","ADD12","MOVE21">>,
     <<Go(3), Put("PLUSn"), Gv(-2), Go(-1), Put("POINT2m_"), Gv(-2)>> >>,
  << <<"POINT1m","GETw2n","ADD12">>,
     <<Go(2), Put("PLUSn"), Gv(-1), Go(-1), Put("POINT1m_"), Gv(-1)>> >>,
  << <<"POINT1m","MOVE21","pfree">>, <<Go(1), Put("POINT2m"), Gv(-1)>> >>,
  << <<"POINT1s","GETw2n","ADD12","MOVE21">>, <<Add(1), Go(3), Put("POINT2s"), Gv(-3)>> >>,
  << <<"POINT1s","PUSH1","MOVE21">>, <<Go(1), Put("POINT2s"), Gv(-1), Go(1), Put("PUSH2"), Go(-1)>> >>,
  ToSec("POINT1s", "POINT2s"),
  Via("POINT2m", "GETb1p", "GETb1m"), Via("POINT2m", "GETb1pu", "GETb1mu"),
  Via("POINT2m", "GETw1p", "GETw1m"),
  << <<"POINT2m_","PLUSn","GETw1p","sfree">>,
     <<Go(2), Gc(-1), Gv(-1), Go(-1), Put("GETw1m_"), Gv(-1)>> >>,
  ViaStack("GETb1p", "GETb1s"), ViaStack("GETb1pu", "GETb1su"),
  << <<"POINT2s","GETw1p","PUSH1","pfree">>, <<Add(1), Go(2), Put("PUSHs"), Gv(-2)>> >>,
  ViaStack("GETw1p", "GETw1s"),
  PostStep("rINC1", "rDEC1", "POSTINCws"), PostStep("rDEC1", "rINC1", "POSTDECws"),
  ViaStack("PUTwp1", "PUTws1"), ViaStack("PUTbp1", "PUTbs1") >>

\* Rules 047 to 058: what goes over the stack without need, shifts by a
\* constant, and a negation in front of a branch.
ShiftRules == <<
  << <<"PUSH1","any","POP2">>, <<Go(2), Gc(-1), Gv(-1), Go(-1), Put("MOVE21")>> >>,
  << <<"PUSHp","any","POP2">>, <<Go(2), Gc(-1), Gv(-1), Go(-1), Put("GETw2p"), Gv(-1)>> >>,
  << <<"MOVE21","GETw1n","ASL12","sfree">>, <<Put("NOP_")>> \o <<Go(1), Put("NOP_"), Go(1), Put("SHL1n"), Gv(-1), Go(-2)>> >>,
  << <<"MOVE21","GETw1n","ASR12","sfree">>, <<Put("NOP_")>> \o <<Go(1), Put("NOP_"), Go(1), Put("SAR1n"), Gv(-1), Go(-2)>> >>,
  << <<"MOVE21","GETw1n","LSR12","sfree">>, <<Put("NOP_")>> \o <<Go(1), Put("NOP_"), Go(1), Put("SHR1n"), Gv(-1), Go(-2)>> >>,
  << <<"GETw1n","ASL12">>, <<Ife(1), Go(1), Put("ASL1_1"), End>> >>,
  << <<"GETw1n","ASL12">>, <<Go(1), Put("ASLsn"), Gv(-1)>> >>,
  << <<"GETw1n","ASR12">>, <<Ife(1), Go(1), Put("ASR1_1"), End>> >>,
  << <<"GETw1n","ASR12">>, <<Ife(2), Go(1), Put("ASR1_2"), End>> >>,
  << <<"GETw1n","ASR12">>, <<Go(1), Put("ASRsn"), Gv(-1)>> >>,
  << <<"LNEG1","NE10f">>, <<Go(1), Put("EQ10f")>> >>,
  << <<"LNEG1","EQ10f">>, <<Go(1), Put("NE10f")>> >> >>

\* Rules 059 to 098: a comparison and the branch on it.  The jump over the
\* JMP is that of the condition, with the operands exchanged (BX is the left
\* one), or of its contrary when the branch is taken on true.
Compared == <<"EQ12", "NE12", "LT12", "GT12", "LE12", "GE12", "LT12u", "GT12u", "LE12u", "GE12u">>
OnFalse == <<"JccE", "JccNE", "JccG", "JccL", "JccGE", "JccLE", "JccA", "JccB", "JccAE", "JccBE">>
OnTrue == <<"JccNE", "JccE", "JccLE", "JccGE", "JccL", "JccG", "JccBE", "JccAE", "JccB", "JccA">>
CmpImm(i, branch, jcc) ==
  << <<"GETw2n",Compared[i],branch,"sfree">>,
     <<Put("CMP1n"), Go(1), Put("NOP_"), Go(1), Put(jcc[i]), Go(-2)>> >>
CmpReg(i, branch, jcc) ==
  << <<Compared[i],branch>>, <<Put("CMP12"), Go(1), Put(jcc[i]), Go(-1)>> >>

CompareRules ==
  [i \in 1..10 |-> CmpImm(i, "NE10f", OnFalse)] \o [i \in 1..10 |-> CmpImm(i, "EQ10f", OnTrue)] \o
  [i \in 1..10 |-> CmpReg(i, "NE10f", OnFalse)] \o [i \in 1..10 |-> CmpReg(i, "EQ10f", OnTrue)]

\* Rules 099 to 105, and 106 to 123: a variable on the stack is set from
\* every kind of operand that is loaded by one p-code.
FlagRules == <<
  << <<"SHL1n">>, <<Ife(0), Put("NOP_"), End>> >>,
  << <<"SAR1n">>, <<Ife(0), Put("NOP_"), End>> >>,
  << <<"SHR1n">>, <<Ife(0), Put("NOP_"), End>> >>,
  << <<"fset","NE10f">>, <<Go(1), Put("NE10fp"), Go(-1)>> >>,
  << <<"fset","EQ10f">>, <<Go(1), Put("EQ10fp"), Go(-1)>> >>,
  << <<"GETw1n","LSR12">>, <<Ife(1), Go(1), Put("LSR1_1"), End>> >>,
  << <<"GETw1n","LSR12">>, <<Go(1), Put("LSRsn"), Gv(-1)>> >> >>

StackStore(get, put) ==
  LET to == IF put = "PUTwp1" THEN "PUTws1" ELSE "PUTbs1"
  IN << <<"POINT1s","PUSH1",get,"POP2",put,"sfree">>,
        <<Go(3), Put(get), Gv(-1), Go(1), Put(to), Gv(-4), Go(-1)>> >>
ThroughPtr(put) ==
  << <<"PUSH1","GETw1s","POP2",put,"sfree">>, <<Put("MOVE21"), Go(2), Put("NOP_"), Go(-2)>> >>
StoredFrom(gets) ==
  FlattenSeq([i \in DOMAIN gets |-> <<StackStore(gets[i], "PUTwp1"), StackStore(gets[i], "PUTbp1")>>])

StoreRules ==
  StoredFrom(<<"GETw1n">>) \o <<ThroughPtr("PUTwp1"), ThroughPtr("PUTbp1")>> \o
  StoredFrom(<<"GETw1m", "POINT1m", "GETw1s", "GETb1m", "GETb1mu", "GETb1s", "GETb1su">>)

\* Rules 124 to 141: a pushed operand is loaded late instead, and compound
\* assignments to a variable on the stack are done in memory.
LateLoad(push, get2, any) ==
  << <<push,any,"POP2">>, <<Go(2), Gc(-1), Gv(-1), Go(-1), Put(get2), Gv(-1)>> >>
Operands == <<"GETw1s", "GETw1n", "POINT1s", "GETw1m", "POINT1m">>
OpAssign(ops, to) ==
  << <<"POINT2s","PUSH2","GETw1p","PUSH1","POINT1s","MOVE21","GETw1p","POP2">> \o ops \o
       <<"POP2","PUTwp1","pfree">>,
     <<Go(4), Put("GETw1s"), Go(1), Put(to), Gv(-5)>> \o Nops(4 + Len(ops)) \o <<Go(-5 - Len(ops))>> >>

AssignRules ==
  [i \in 1..5 |-> LateLoad("PUSHs", "GETw2s", Operands[i])] \o
  << OpAssign(<<"ADD12">>, "ADDws1"), OpAssign(<<"SWAP12", "SUB12">>, "SUBws1"),
     OpAssign(<<"AND12">>, "ANDws1"), OpAssign(<<"OR12">>, "ORws1"), OpAssign(<<"XOR12">>, "XORws1"),
     << <<"POINT2s","PUSH2","GETw1p","GETw2n","ADD12","POP2","PUTwp1","pfree">>,
        Nops(2) \o <<Go(1), Put("ADDwpn")>> \o Nops(3) \o <<Go(-6)>> >>,
     << <<"POINT2s","PUSH2","GETw1p","MOVE21","GETw1n","SWAP12","SUB12","POP2","PUTwp1","pfree">>,
        Nops(3) \o <<Go(1), Put("SUBwpn")>> \o Nops(4) \o <<Go(-8)>> >>,
     PushAt("GETw1s", "PUSHs") >> \o
  [i \in 1..5 |-> LateLoad("PUSHm", "GETw2m", Operands[i])]

seqdata == IncDecRules \o LoadRules \o AddressRules \o ShiftRules \o CompareRules \o
           FlagRules \o StoreRules \o AssignRules

-----------------------------------------------------------------------------
(* stg is the staging buffer as dumpstage() sees it: the array stage, of   *)
(* which what lies behind stail is left from earlier, and the indices      *)
(* snext and stail of the next p-code and of the one behind the last.      *)

\* isfree(): is the register dead at slot i?
RECURSIVE isfree(_, _, _, _)
\* Mutant: what the stage ends with is taken for unused.
isfreeAtEnd(reg, i, stg, usexpr) ==
  LET p == stg.stage[i].op
      uses == IF reg = "PRI" THEN UsesPri ELSE UsesSec
      zaps == IF reg = "PRI" THEN ZapsPri ELSE ZapsSec
  IN i >= stg.stail \/ (p \notin uses /\ (p \in zaps \/ isfree(reg, i + 1, stg, usexpr)))
isfree(reg, i, stg, usexpr) ==
  LET p == stg.stage[i].op IN
  IF i >= stg.stail THEN reg = "SEC" \/ ~usexpr
  ELSE IF p \in (IF reg = "PRI" THEN UsesPri ELSE UsesSec) THEN FALSE
  ELSE p \in (IF reg = "PRI" THEN ZapsPri ELSE ZapsSec) \/ isfree(reg, i + 1, stg, usexpr)

\* The matching half of peep(): the matchers pass a slot too, except v1eq.
RECURSIVE Matches(_, _, _, _)
Matches(pattern, i, stg, usexpr) ==
  \/ pattern = <<>>
  \/ LET m == Head(pattern) IN
     /\ CASE m = "any" -> i < stg.stail
          [] m = "pfree" -> isfree("PRI", i, stg, usexpr)
          [] m = "sfree" -> isfree("SEC", i, stg, usexpr)
          [] m = "comm" -> i <= Len(stg.stage) /\ stg.stage[i].op \in COMMUTES
          [] m = "fset" -> i < stg.stail /\ stg.stage[i].op \in SETSFLG
          [] m = "v1eq" -> stg.stage[i - 1].v = 1
          [] OTHER -> i < stg.stail /\ stg.stage[i].op = m
     /\ Matches(Tail(pattern), IF m = "v1eq" THEN i ELSE i + 1, stg, usexpr)

\* The other half: the actions, with what peep() returns as reply.
RECURSIVE Act(_, _, _)
Skipped(actions) ==
  SubSeq(actions, 1 + CHOOSE j \in DOMAIN actions : actions[j] = End /\ \A h \in 1..(j-1) : actions[h] /= End,
         Len(actions))
Acted(stg, i, c, n, this) ==
  CASE c = "go" -> [stg EXCEPT !.snext = i + n]
    [] c = "gc" -> [stg EXCEPT !.stage[i].op = stg.stage[i + n].op]
    [] c = "gv" -> [stg EXCEPT !.stage[i].v = stg.stage[i + n].v]
    [] c = "sum" -> [stg EXCEPT !.stage[i].v = @ + stg.stage[i + n].v]
    [] c = "neg" -> [stg EXCEPT !.stage[i].v = -@]
    [] c = "swv" -> [stg EXCEPT !.stage[i].v = stg.stage[i + n].v, !.stage[i + n].v = this.v]
    [] OTHER -> [stg EXCEPT !.stage[i].op = c]
Act(actions, stg, reply) ==
  LET One(c, n, this) ==
        CASE c = "ife" -> Act(IF this.v = n THEN Tail(actions) ELSE Skipped(actions), stg, reply)
          [] c = "ifl" -> Act(IF this.v < n THEN Tail(actions) ELSE Skipped(actions), stg, reply)
          [] OTHER -> Act(Tail(actions), Acted(stg, stg.snext, c, n, this), reply \/ c /= "go")
  IN IF actions = <<>> \/ Head(actions) = End THEN [stg |-> stg, reply |-> reply]
     ELSE One(Head(actions)[1], Head(actions)[2], stg.stage[stg.snext])

\* The NOP_s that a rule leaves are taken out of the rest of the buffer.
Compacted(stg) ==
  LET rest == SelectSeq(SubSeq(stg.stage, stg.snext, stg.stail - 1), LAMBDA p : p.op /= "NOP_")
      stail == stg.snext + Len(rest)
  IN [stg EXCEPT !.stail = stail,
                 !.stage = SubSeq(@, 1, stg.snext - 1) \o rest \o SubSeq(@, stail, Len(@))]

\* One round of dumpstage()'s loop at snext: the rules seq are tried in order,
\* and again from the first after each one that has done something.
Beginnings(seq) ==
  [p \in PCode |-> {r \in DOMAIN seq : Head(seq[r][1]) \in {p} \cup (IF p \in SETSFLG THEN {"fset"} ELSE {})}]
BeginningWith == Beginnings(seqdata)
Fitting(seq, from, stg, usexpr) ==
  IF stg.snext >= stg.stail THEN {}
  ELSE {r \in BeginningWith[stg.stage[stg.snext].op] :
          r >= from /\ Matches(seq[r][1], stg.snext, stg, usexpr)}
RECURSIVE Rewritten(_, _, _, _)
Behind(seq, rule, p, usexpr) ==
  IF p.reply THEN Rewritten(seq, 1, Compacted(p.stg), usexpr) ELSE Rewritten(seq, rule + 1, p.stg, usexpr)
Applied(seq, rule, stg, usexpr) == Behind(seq, rule, Act(seq[rule][2], stg, FALSE), usexpr)
ByFirst(seq, fits, stg, usexpr) ==
  IF fits = {} THEN stg ELSE Applied(seq, CHOOSE r \in fits : \A q \in fits : r <= q, stg, usexpr)
Rewritten(seq, from, stg, usexpr) == ByFirst(seq, Fitting(seq, from, stg, usexpr), stg, usexpr)

\* dumpstage(): the p-codes that go to bufout(), in order.
RECURSIVE Dumped(_, _, _)
WrittenOut(seq, s, usexpr) == <<s.stage[s.snext]>> \o Dumped(seq, [s EXCEPT !.snext = @ + 1], usexpr)
Dumped(seq, stg, usexpr) ==
  IF stg.snext >= stg.stail THEN <<>> ELSE WrittenOut(seq, Rewritten(seq, 1, stg, usexpr), usexpr)

dumpstage(stage, snext, usexpr, optimize) ==
  IF optimize THEN Dumped(seqdata, [stage |-> stage, snext |-> 1, stail |-> snext], usexpr)
  ELSE SubSeq(stage, 1, snext - 1)
=============================================================================
