----------------------------- MODULE MC_Assemble -----------------------------
(***************************************************************************)
(* The sources that TLC assembles.  A family is a sequence of sources; the *)
(* instances are small, and the object records too, so that they fill up.  *)
(***************************************************************************)
EXTENDS AsmMeaning

-----------------------------------------------------------------------------
(* How the sources are written down.                                       *)

I(mn, args)     == Line("", "", mn, args)
L(lab)          == Line(lab, "", "", <<>>)
D(n, op, items) == Line("", n, op, items)
Equ(n, op)      == Line("", n, "EQU", <<op>>)
Let(n, op)      == Line("", n, "=", <<op>>)
Segment(n, as)  == Line("", n, "SEGMENT", as)
Ends(n)         == Line("", n, "ENDS", <<>>)
Assume(as)      == Line("", "", "ASSUME", as)
Proc(n, as)     == Line("", n, "PROC", as)
Endp(n)         == Line("", n, "ENDP", <<>>)
Public(ns)      == Line("", "", "PUBLIC", ns)
Extrn(items)    == Line("", "", "EXTRN", items)
Macro(n)        == Line("", n, "MACRO", <<>>)
Endm            == Line("", "", "ENDM", <<>>)
End             == Line("", "", "END", <<>>)

R(r)       == Operand("", "", "reg", r, 0, {}, 0)
N(k)       == Operand("", "", "num", "", k, {}, 0)
S(n)       == Operand("", "", "sym", n, 0, {}, 0)
SD(n, d)   == Operand("", "", "sym", n, 0, {}, d)
Pre(p, n)  == Operand(p, "", "sym", n, 0, {}, 0)
At(ind)    == Operand("", "", "none", "", 0, ind, 0)
AtD(ind, d) == Operand("", "", "none", "", 0, ind, d)
SAt(n, ind) == Operand("", "", "sym", n, 0, ind, 0)
Sized(p, ind) == Operand(p, "", "none", "", 0, ind, 0)
Through(sr, op) == [op EXCEPT !.over = sr]
Par(k)     == Operand("", "", "par", "", k, {}, 0)

Class(n)  == [what |-> "class", class |-> n]
Align(n)  == [what |-> "align", class |-> n]
Comb(n)   == [what |-> "comb", class |-> n]
As(r, n)  == [reg |-> r, seg |-> n]
Near(n)   == [name |-> n, fl |-> {"COD"}, size |-> 0]
Far(n)    == [name |-> n, fl |-> {"COD", "FAR"}, size |-> 0]
Word(n)   == [name |-> n, fl |-> {"DAT"}, size |-> 2]

DataSeg == << Segment("DATA", <<Comb("PUBLIC")>>),
              D("B", "DB", <<N(7), String(<<72, 73>>)>>),
              D("W", "DW", <<N(300), N(-2)>>),
              D("P", "DD", <<N(-1)>>), Ends("DATA") >>

\* code with the data segment in front of it, reached as in ASSUME
Code(as, body) ==
  DataSeg \o <<Segment("CODE", <<Comb("PUBLIC"), Class("TEXT")>>), Assume(as)>>
    \o body \o <<Ends("CODE"), End>>

Usual == <<As("CS", "CODE"), As("DS", "DATA")>>

\* instructions with a label behind each, and jumps back and forth between them
RECURSIVE Labels(_, _)
Labels(is, k) == IF is = <<>> THEN <<>>
                 ELSE <<[Head(is) EXCEPT !.lab = IF k = 1 THEN "BEG" ELSE ""]>>
                      \o <<L(<<"L1", "L2", "L3", "L4", "L5", "L6", "L7", "L8", "L9">>[k])>>
                      \o Labels(Tail(is), k + 1)
Among(is) == Labels(is, 1) \o << I("JMP", <<S("BEG")>>) >>

-----------------------------------------------------------------------------
(* Instructions.                                                           *)

Two(mn, a1, a2) == I(mn, <<a1, a2>>)

Moving ==
  << << Two("MOV", R("AX"), R("BX")), Two("MOV", R("CL"), R("DH")), Two("MOV", R("AX"), N(5)),
        Two("MOV", R("AL"), N(200)), Two("MOV", R("BX"), N(-1)), Two("MOV", R("SI"), N(3000)) >>,
     << Two("MOV", R("AX"), S("W")), Two("MOV", S("W"), R("AX")), Two("MOV", R("AL"), S("B")),
        Two("MOV", S("B"), R("AL")), Two("MOV", R("BX"), S("W")), Two("MOV", S("W"), R("DI")) >>,
     << Two("MOV", S("W"), N(5)), Two("MOV", S("B"), N(5)), Two("MOV", R("DL"), S("B")),
        Two("MOV", SD("W", 2), N(-3)), Two("MOV", S("B"), R("CH")), Two("MOV", R("CX"), SD("W", -2)) >>,
     << Two("MOV", At({"BX"}), R("AX")), Two("MOV", R("AX"), At({"BX"})),
        Two("MOV", R("DX"), At({"BX", "SI"})), Two("MOV", R("AX"), At({"BP"})),
        Two("MOV", AtD({"BP"}, 4), R("CX")), Two("MOV", R("AX"), AtD({"BP"}, 200)) >>,
     << Two("MOV", Sized("BYTE", {"DI"}), N(5)), Two("MOV", Sized("WORD", {"BX"}), N(500)),
        Two("MOV", R("AX"), SAt("W", {"BX"})), Two("MOV", SAt("B", {"SI"}), R("CL")),
        Two("MOV", R("BL"), AtD({"BP", "DI"}, -7)), Two("MOV", At({"SI"}), N(9)) >>,
     << Two("MOV", R("DS"), R("AX")), Two("MOV", R("AX"), R("ES")), Two("MOV", R("ES"), S("W")),
        Two("MOV", R("AX"), Pre("OFFSET", "W")), Two("MOV", R("AX"), S("DATA")),
        Two("MOV", R("DX"), Pre("SEG", "W")) >>,
     << Two("MOV", R("DX"), Through("ES", At({"BX"}))), Two("MOV", R("AX"), Through("ES", S("W"))),
        Two("MOV", R("AX"), Through("CS", N(4))), Two("MOV", R("CX"), Through("SS", At({"BP"}))),
        Two("LEA", R("BX"), SAt("W", {"BP", "SI"})), Two("LEA", R("AX"), AtD({"BP"}, -2)) >> >>

Counting ==
  << << Two("ADD", R("AX"), N(5)), Two("ADD", R("BX"), N(5)), Two("ADD", R("BX"), N(500)),
        Two("ADD", R("BX"), N(-1)), Two("ADD", S("W"), N(1)), Two("ADD", S("W"), N(500)) >>,
     << Two("ADD", R("AL"), N(5)), Two("ADD", R("BL"), N(200)), Two("ADD", S("B"), N(3)),
        Two("ADD", R("BX"), S("W")), Two("ADD", S("W"), R("BX")), Two("ADD", R("SP"), N(100)) >>,
     << Two("CMP", R("AX"), N(200)), Two("CMP", R("BX"), N(-128)), Two("CMP", R("DL"), R("AL")),
        Two("CMP", Sized("BYTE", {"BX"}), N(255)), Two("CMP", R("AX"), R("DX")),
        Two("CMP", At({"DI"}), R("AH")) >>,
     << I("INC", <<R("AX")>>), I("INC", <<R("CL")>>), I("INC", <<S("W")>>), I("INC", <<S("B")>>),
        I("INC", <<R("SP")>>), I("INC", <<Sized("WORD", {"BX"})>>) >>,
     << I("PUSH", <<R("BP")>>), I("PUSH", <<S("W")>>), I("PUSH", <<At({"BX"})>>), I("POP", <<R("BP")>>),
        I("POP", <<S("W")>>), I("POP", <<AtD({"BP"}, 2)>>) >>,
     << I("INT", <<N(3)>>), I("INT", <<N(33)>>), I("NOP", <<>>), I("REP", <<"STOSB">>),
        I("STOSB", <<>>), I("RET", <<>>), I("RET", <<N(4)>>) >>,
     << I("CALL", <<S("W")>>), I("CALL", <<R("BX")>>), I("CALL", <<S("P")>>), I("JMP", <<At({"BX"})>>),
        I("JMP", <<S("P")>>), I("JMP", <<R("SI")>>) >> >>

Map(s, f(_)) == [k \in DOMAIN s |-> f(s[k])]
Instructions == Map(Moving \o Counting, LAMBDA is : Code(Usual, Among(is)))

\* data reached by other registers than DS
Assumed ==
  Map(<< <<As("CS", "CODE"), As("ES", "DATA")>>, <<As("CS", "CODE"), As("SS", "DATA"), As("DS", "DATA")>>,
         <<As("CS", "CODE"), As("CS", "DATA"), As("CS", "CODE"), As("SS", "DATA"), As("ES", "DATA")>>,
         <<As("CS", "CODE"), As("DS", "DATA"), As("DS", "NOTHING")>>,
         <<As("CS", "CODE")>>, <<As("DS", "DATA")>>, <<As("CS", "DATA")>>, <<As("", "NOTHING")>> >>,
      LAMBDA as : Code(as, << Two("MOV", R("AX"), S("W")), Two("MOV", S("B"), R("CL")),
                              Two("MOV", R("AX"), SAt("W", {"BP"})), L("L1"),
                              Two("MOV", R("AX"), Through("ES", S("W"))), Two("LEA", R("AX"), S("B")),
                              I("JMP", <<S("L1")>>) >>))

-----------------------------------------------------------------------------
(* Jumps of every kind over every distance near the limits of a short one. *)

Bytes0(n) == D("", "DB", <<Dup(N(n), N(0))>>)
Target1(p) == <<Pre(p, "L1")>>

Forward(mn, p, n)  == <<I(mn, Target1(p)), Bytes0(n), L("L1"), I("NOP", <<>>), I("JMP", Target1(""))>>
Backward(mn, p, n) == <<L("L1"), I("NOP", <<>>), Bytes0(n), I(mn, Target1(p)), L("L2"), I("JMP", Target1(""))>>

Jump(k) == << <<"JMP", "">>, <<"JMP", "SHORT">>, <<"JE", "">>, <<"JE", "SHORT">>, <<"LOOP", "">>,
              <<"JCXZ", "">>, <<"CALL", "">>, <<"CALL", "NEAR">>, <<"JMP", "FAR">>, <<"CALL", "FAR">> >>[k]

\* the i-th of the sources: ten jumps, forward and backward, over each distance
Far0 == 121
Distances == 10
JumpSource(i) ==
  LET k == (i % 10) + 1
      n == Far0 + ((i \div 20) % Distances)
  IN  Code(Usual, IF (i \div 10) % 2 = 0 THEN Forward(Jump(k)[1], Jump(k)[2], n)
                  ELSE Backward(Jump(k)[1], Jump(k)[2], n))
Jumping == [i \in 1 .. 20 * Distances |-> JumpSource(i)]

\* jumps over jumps: padding that is needed, and padding that is not
JumpsOverJumps ==
  Map(<< 123, 124, 125, 126, 127 >>,
      LAMBDA n : Code(Usual, << L("L3"), I("JMP", <<S("L1")>>), I("JE", <<S("L2")>>), Bytes0(n),
                                I("JMP", <<S("L3")>>), L("L1"), I("JMP", <<S("L2")>>), L("L2"),
                                I("CALL", <<S("L1")>>), I("JMP", <<Operand("", "", "loc", "", 0, {}, 2)>>),
                                I("JMP", <<SD("L1", 2)>>) >>))

-----------------------------------------------------------------------------
(* Data and equates.                                                       *)

Constants == << Equ("TWO", N(2)), Let("VAR", N(5)) >>

DataSources ==
  << Code(Usual, Constants \o << D("", "DW", <<S("TWO"), S("VAR"), SD("TWO", 6)>>), Let("VAR", N(700)),
       Two("MOV", R("AX"), S("VAR")), D("", "DD", <<S("VAR"), N(-5)>>), Let("VAR", SD("VAR", 1)),
       D("", "DB", <<S("TWO"), Dup(S("TWO"), N(9)), String(<<65, 66, 67>>), N(-1)>>),
       D("", "DW", <<Dup(N(3), S("VAR")), Dup(N(2), S("?"))>>), Two("MOV", S("W"), S("VAR")) >>),
     \* addresses in data, also of what is still to come; aliases
     Code(Usual, << L("L1"), D("T", "DW", <<S("W"), S("L1"), S("L2"), Pre("OFFSET", "W"), SD("W", 2)>>),
       Equ("ALSO", S("W")), Two("MOV", R("BX"), S("ALSO")), Equ("HERE", S("L1")),
       Two("MOV", R("AX"), Through("CS", S("T"))), I("JMP", <<S("HERE")>>), L("L2") >>),
     \* an alias of a constant, an EQU by an EQU, an EQU by a register
     Code(Usual, Constants \o << Equ("FOUR", SD("TWO", 2)), D("", "DB", <<S("FOUR")>>) >>),
     Code(Usual, << Equ("ACC", R("AX")) >>),
     Code(Usual, Constants \o << Equ("SAME", S("TWO")), Two("MOV", R("CX"), S("SAME")), Equ("OTHER", SD("W", 2)) >>),
     Code(Usual, << Equ("ALSO", S("W")), Equ("AGAIN", S("ALSO")), I("NOP", <<>>) >>),
     \* names that are there twice, or not at all
     Code(Usual, << L("L1"), I("NOP", <<>>), L("L1") >>),
     Code(Usual, << L("W"), I("NOP", <<>>) >>),
     Code(Usual, << L("CODE"), I("NOP", <<>>) >>),
     Code(Usual, << L("L1"), Equ("L1", N(4)) >>),
     Code(Usual, << L("L1"), Let("L1", N(4)) >>),
     Code(Usual, << I("JMP", <<S("L9")>>) >>),
     Code(Usual, << Two("MOV", R("AX"), S("X9")) >>),
     Code(Usual, << D("", "DW", <<S("X9")>>) >>),
     Code(Usual, << Let("V9", S("X9")) >>),
     \* what does not fit, is not known, or has a label that it may not have
     Code(Usual, << Two("MOV", R("AL"), R("BX")) >>),
     Code(Usual, << Two("MOV", R("AX"), S("B")) >>),
     Code(Usual, << Two("MOV", S("W"), S("W")) >>),
     Code(Usual, << Two("MOV", N(1), R("AX")) >>),
     Code(Usual, << Two("ADD", R("DL"), N(300)) >>),
     Code(Usual, << Two("MOV", R("AX"), At({"BX", "BP"})) >>),
     Code(Usual, << I("MOVE", <<R("AX")>>), I("NOP", <<>>) >>),
     Code(Usual, << [D("", "DB", <<N(1)>>) EXCEPT !.lab = "L1"] >>),
     Code(Usual, << [I("NOP", <<>>) EXCEPT !.lab = "L1"], I("JE", <<S("L1")>>) >>) >>

-----------------------------------------------------------------------------
(* Segments, groups, procedures, and what other modules know.              *)

Nop == I("NOP", <<>>)
Cs(n) == Assume(<<As("CS", n)>>)

SegmentSources ==
  << \* two segments, opened in turn, with a group of them
     << Segment("A", <<Align("WORD"), Class("TEXT")>>), Cs("A"), L("L1"), Nop, Ends("A"),
        Segment("Q", <<Class("TEXT")>>), D("W", "DW", <<N(1)>>), Ends("Q"),
        Line("", "G", "GROUP", <<"A", "Q">>),
        Segment("A", <<Comb("PUBLIC")>>), L("L2"), I("JMP", <<S("L1")>>), Nop, Ends("A"),
        Segment("Q", <<>>), D("", "DW", <<S("L2"), S("W")>>), Ends("Q"),
        Segment("A", <<>>), Two("MOV", R("AX"), S("Q")), Two("MOV", R("BX"), S("G")), I("JMP", <<S("L2")>>), Ends("A"), I("END", <<S("L2")>>) >>,
     \* a group before its segments; ORG; a start address in code
     << Line("", "G", "GROUP", <<"Q", "A">>), Segment("A", <<>>), I("ORG", <<N(256)>>), Cs("A"),
        L("GO"), Two("MOV", R("AX"), Pre("OFFSET", "GO")), I("ORG", <<N(300)>>), L("L2"), I("JMP", <<S("GO")>>),
        Ends("A"), Segment("Q", <<Align("BYTE")>>), D("", "DB", <<N(3)>>), Ends("Q"), I("END", <<S("GO")>>) >>,
     \* a jump into another segment, near and far
     << Segment("A", <<>>), Cs("A"), L("L1"), Nop, Ends("A"),
        Segment("Q", <<>>), Cs("Q"), I("JMP", <<Pre("FAR", "L1")>>), Nop, Ends("Q"), End >>,
     << Segment("A", <<>>), Cs("A"), L("L1"), Nop, Ends("A"),
        Segment("Q", <<>>), Cs("Q"), I("JMP", <<S("L1")>>), Ends("Q"), End >>,
     << Segment("A", <<>>), Cs("A"), I("CALL", <<S("L1")>>), Ends("A"),
        Segment("Q", <<>>), Cs("Q"), L("L1"), Nop, Ends("Q"), End >>,
     \* far procedures: RET, a call behind, a call ahead, one in the other segment
     << Segment("A", <<>>), Cs("A"), Proc("P1", <<"FAR">>), Nop, I("RET", <<>>), I("RET", <<N(2)>>), Endp("P1"),
        Proc("P2", <<"NEAR">>), I("CALL", <<S("P1")>>), I("CALL", <<Pre("FAR", "P3")>>), I("RET", <<>>), Endp("P2"), Ends("A"),
        Segment("Q", <<>>), Cs("Q"), Proc("P3", <<"FAR">>), I("CALL", <<S("P1")>>), I("RET", <<>>), Endp("P3"), Ends("Q"), End >>,
     << Segment("A", <<>>), Cs("A"), I("CALL", <<S("P1")>>), Proc("P1", <<"FAR">>), I("RET", <<>>), Endp("P1"), Ends("A"), End >>,
     << Segment("A", <<>>), Cs("A"), Proc("P1", <<>>), Proc("P2", <<>>), I("RET", <<>>), Endp("P2"), Ends("A"), End >>,
     << Segment("A", <<>>), Cs("A"), I("RET", <<>>), Endp("P2"), Ends("A"), End >>,
     \* as the compiler writes it: externals at the end, publics where they are
     << Segment("CODE", <<Comb("PUBLIC")>>), Assume(<<As("CS", "CODE"), As("SS", "DATA"), As("DS", "DATA")>>),
        Public(<<"_MAIN">>), L("_MAIN"), I("PUSH", <<R("BP")>>), Two("MOV", R("BP"), R("SP")),
        I("CALL", <<S("_PUTS")>>), Two("MOV", R("BX"), S("_ERRNO")), I("JE", <<S("_1")>>),
        Two("MOV", S("_N"), R("AX")), Two("ADD", S("_N"), N(4)), L("_1"), I("POP", <<R("BP")>>), I("RET", <<>>), Ends("CODE"),
        Segment("DATA", <<Comb("PUBLIC")>>), Public(<<"_N">>), D("_N", "DW", <<Dup(N(1), N(0))>>),
        D("", "DW", <<S("_PUTS"), S("_MAIN")>>), Ends("DATA"),
        Extrn(<<Near("_PUTS"), Word("_ERRNO")>>), End >>,
     \* an external twice; one that is far; one that is here after all
     << Extrn(<<Near("X1"), Far("X2")>>), Segment("A", <<>>), Cs("A"), I("CALL", <<S("X1")>>), I("CALL", <<Pre("FAR", "X2")>>),
        I("JMP", <<SD("X1", 3)>>), D("", "DW", <<S("X1")>>), Ends("A"), Extrn(<<Near("X1")>>), End >>,
     << Extrn(<<Near("X1")>>), Segment("A", <<>>), Cs("A"), L("X1"), Nop, Ends("A"), End >>,
     \* segments that are not closed, closed twice, or closed by another name
     << Segment("A", <<>>), Cs("A"), Nop, End >>,
     << Segment("A", <<>>), Cs("A"), Nop, Segment("Q", <<>>), D("", "DB", <<N(1)>>), Ends("Q"), End >>,
     << Segment("A", <<>>), Cs("A"), Nop, Ends("Q"), End >>,
     << Segment("A", <<>>), Cs("A"), Nop, Ends("A"), Ends("A"), End >>,
     << Segment("A", <<>>), Cs("A"), Nop, Ends("A"), D("", "DB", <<N(1)>>), End >>,
     << Segment("A", <<>>), Cs("A"), Nop, Ends("A") >>,
     << Segment("A", <<>>), Assume(<<As("CS", "A"), As("DS", "NIL")>>), Nop, Ends("A"), End >>,
     << Segment("A", <<>>), Ends("A"), Segment("C2", <<>>), Ends("C2"), Segment("C3", <<>>), Ends("C3"),
        Segment("C4", <<>>), Ends("C4"), Segment("C5", <<>>), Ends("C5"), End >> >>

-----------------------------------------------------------------------------
(* Macros.                                                                 *)

SetUp == << Macro("WAITL"), L("@0"), Two("MOV", R("AX"), Par(1)), I("JE", <<S("@0")>>), I("JMP", <<S("@1")>>),
            Two("ADD", Par(2), N(1)), L("@1"), Endm >>

MacroSources ==
  << SetUp \o Code(Usual, << I("WAITL", <<S("W"), R("BX")>>), [I("WAITL", <<N(7), S("B")>>) EXCEPT !.lab = "L1"],
                             I("JMP", <<S("L1")>>), I("WAITL", <<R("CX"), SD("W", 2)>>) >>),
     SetUp \o << Macro("TWICE"), I("INC", <<Par(1)>>), I("JMP", <<S("@2")>>), I("PUSH", <<Par(1)>>), L("@2"), Endm >>
       \o Code(Usual, << I("TWICE", <<R("AX")>>), I("WAITL", <<S("B"), N(1)>>), I("TWICE", <<R("DI")>>) >>),
     \* a macro that is called too early, one that is not closed, one too many ENDM
     Code(Usual, << I("LATER", <<R("AX")>>), L("L1"), Macro("LATER"), I("INC", <<Par(1)>>), Endm, I("JMP", <<S("L1")>>) >>),
     Code(Usual, << Nop, Macro("LATER"), I("INC", <<Par(1)>>) >>) >>

-----------------------------------------------------------------------------
(* Records that fill up: long runs of code and of data, references on the  *)
(* border between two records, more of them than a fixup buffer holds.     *)

Repeat(lines, n) == Repeated(lines, n)

LongSources ==
  [k \in 1 .. 6 |->
     Code(Usual, [j \in 1 .. k |-> D("", "DB", <<N(j)>>)]
            \o Repeat(<< Two("MOV", R("BX"), S("W")), Two("MOV", S("W"), N(500)), I("CALL", <<S("L1")>>) >>, 8)
            \o << L("L1"), D("", "DW", <<S("W"), S("W"), S("L1"), S("W"), S("W"), S("W"), S("W"), N(1), S("W")>>) >>
            \o [j \in 1 .. 4 |-> Bytes0(2)] \o << D("", "DB", <<String([j \in 1 .. 30 |-> j])>>), Nop >>)]

(* Instructions on words with numbers around the border of a signed byte:  *)
(* 128 to 255 are bytes for the assembler, which the processor reads as    *)
(* negative numbers.  MCSources leaves these numbers to AX and to bytes.   *)
WordNumbers ==
  LET Numbers == <<-129, -128, 127, 128, 200, 255, 256>>
      Ops     == <<R("BX"), R("SP"), R("DI"), S("W"), Sized("WORD", {"BX"})>>
  IN  [k \in 1 .. Len(Numbers) * Len(Ops) * 2 |->
         LET op == Ops[(k % Len(Ops)) + 1]
             n  == N(Numbers[((k \div Len(Ops)) % Len(Numbers)) + 1])
         IN  Code(Usual, << Two(IF k > Len(Numbers) * Len(Ops) THEN "CMP" ELSE "ADD", op, n),
                            Two("MOV", op, n) >>)]

MCSources == Instructions \o Assumed \o Jumping \o JumpsOverJumps \o DataSources \o SegmentSources
               \o MacroSources \o LongSources
=============================================================================
