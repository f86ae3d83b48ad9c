------------------------------ MODULE AsmTable ------------------------------
(***************************************************************************)
(* The machine instruction table of Small Assembler: the rows of           *)
(* 80x86.mit that the sources of the instances use, as cmit.c compiles     *)
(* them, the operand types a given type is tried as, and the registers'    *)
(* codes.  Addresses and operands have 16 bits (asa = osa = 2).            *)
(*                                                                         *)
(* An operand type is named as in asm.h and in the table: I.. immediate,   *)
(* M.. memory, _.. register or memory, N.. named memory, S.. self-relative *)
(* and P.. far pointer; "M0" and "_0" are M and _x, whose size is not yet  *)
(* known.                                                                  *)
(***************************************************************************)
EXTENDS Integers, Sequences, SequencesExt

\* asm.h: the registers in the order of the codes of enreg (asm2.c)
ByteRegs == <<"AL", "CL", "DL", "BL", "AH", "CH", "DH", "BH">>
WordRegs == <<"AX", "CX", "DX", "BX", "SP", "BP", "SI", "DI">>
SegRegs  == <<"ES", "CS", "SS", "DS">>
Regs     == ToSet(ByteRegs) \cup ToSet(WordRegs) \cup ToSet(SegRegs)

\* enreg(r): the number of a register in an instruction
enreg(r) == (IF r \in ToSet(ByteRegs) THEN SelectInSeq(ByteRegs, LAMBDA q : q = r)
             ELSE IF r \in ToSet(WordRegs)
                  THEN SelectInSeq(WordRegs, LAMBDA q : q = r)
                  ELSE SelectInSeq(SegRegs, LAMBDA q : q = r)) - 1

\* setmap: the types an operand of type t is tried as, most special first.
\* The steps that map() passes over when osa = 2 are left out.
setmap(t) ==
  CASE t = "ONE"   -> <<"ONE", "I8", "I1632", "I16", "I6">>
    [] t = "THREE" -> <<"THREE", "I8", "I1632", "I16", "I6">>
    [] t = "I6"    -> <<"I8", "I1632", "I16", "I6">>
    [] t = "I8"    -> <<"I8", "I1632", "I16">>
    [] t = "I16"   -> <<"I1632", "I16">>
    [] t = "S8"    -> <<"S8", "S1632">>
    [] t = "S1632" -> <<"S1632", "S8">>
    [] t = "P32"   -> <<"P3248", "P32">>
    [] t = "M8"    -> <<"M8", "N8", "_8", "M">>
    [] t = "M16"   -> <<"M1632", "M16", "N1632", "N16", "_1632", "_16", "M">>
    [] t = "M32"   -> <<"M32", "M3248", "M3264", "N32", "_1632", "_32", "M">>
    [] t = "_8"    -> <<"_8", "M8", "M">>
    [] t = "_16"   -> <<"_1632", "_16", "M1632", "M16", "M">>
    [] t = "_32"   -> <<"_1632", "_32", "M3248", "M32", "M3264", "M">>
    [] t \in {"AL", "CL"}         -> <<t, "R8", "_8">>
    [] t \in ToSet(ByteRegs) \ {"AL", "CL"} -> <<"R8", "_8">>
    [] t = "AX"    -> <<"eAX", "AX", "R1632", "R16", "_1632", "_16">>
    [] t = "DX"    -> <<"DX", "R1632", "R16", "_1632", "_16">>
    [] t \in ToSet(WordRegs) \ {"AX", "DX"} -> <<"R1632", "R16", "_1632", "_16">>
    [] t \in ToSet(SegRegs)       -> <<t, "xS">>
    [] OTHER       -> <<>>

-----------------------------------------------------------------------------
(* A row: mnemonic, operand types, op-code directives (asm.h HEX to S1).   *)
(* "hex+f" and "hex+r1" carry the directive that adds to the byte; "/x" n  *)
(* is /n1, "/r12", "/r21", "/s12", "/s21", "i" n, "o" n, "p" n, "$" n.     *)
Row(mn, ops, code) == [mn |-> mn, ops |-> ops, code |-> code]
Hex(n)  == <<"hex", n>>
Imm(n)  == <<"i", n>>
ModX(n) == <<"/x", n>>
R12     == <<"/r12", 0>>
R21     == <<"/r21", 0>>

\* ADD, OR, AND, CMP ...: nine rows that differ in the operation x
Arithmetic(mn, x) ==
  { Row(mn, <<"AL", "I8">>,        <<Hex(8 * x + 4), Imm(2)>>),
    Row(mn, <<"eAX", "I1632">>,    <<Hex(8 * x + 5), Imm(2)>>),
    Row(mn, <<"_8", "I8">>,        <<Hex(\h80), ModX(x), Imm(2)>>),
    Row(mn, <<"_1632", "I8">>,     <<Hex(\h83), ModX(x), Imm(2)>>),
    Row(mn, <<"_1632", "I1632">>,  <<Hex(\h81), ModX(x), Imm(2)>>),
    Row(mn, <<"_8", "R8">>,        <<Hex(8 * x), R21>>),
    Row(mn, <<"_1632", "R1632">>,  <<Hex(8 * x + 1), R21>>),
    Row(mn, <<"R8", "_8">>,        <<Hex(8 * x + 2), R12>>),
    Row(mn, <<"R1632", "_1632">>,  <<Hex(8 * x + 3), R12>>) }

Moves ==
  { Row("MOV", <<"_8", "R8">>,       <<Hex(\h88), R21>>),
    Row("MOV", <<"_1632", "R1632">>, <<Hex(\h89), R21>>),
    Row("MOV", <<"R8", "_8">>,       <<Hex(\h8A), R12>>),
    Row("MOV", <<"R1632", "_1632">>, <<Hex(\h8B), R12>>),
    Row("MOV", <<"_16", "xS">>,      <<Hex(\h8C), <<"/s21", 0>>>>),
    Row("MOV", <<"xS", "_16">>,      <<Hex(\h8E), <<"/s12", 0>>>>),
    Row("MOV", <<"AL", "N8">>,       <<Hex(\hA0), <<"o", 2>>>>),
    Row("MOV", <<"eAX", "N1632">>,   <<Hex(\hA1), <<"o", 2>>>>),
    Row("MOV", <<"N8", "AL">>,       <<Hex(\hA2), <<"o", 1>>>>),
    Row("MOV", <<"N1632", "eAX">>,   <<Hex(\hA3), <<"o", 1>>>>),
    Row("MOV", <<"R8", "I8">>,       << <<"hex+r1", \hB0>>, Imm(2)>>),
    Row("MOV", <<"R1632", "I1632">>, << <<"hex+r1", \hB8>>, Imm(2)>>),
    Row("MOV", <<"_8", "I8">>,       <<Hex(\hC6), ModX(0), Imm(2)>>),
    Row("MOV", <<"_1632", "I1632">>, <<Hex(\hC7), ModX(0), Imm(2)>>) }

Calls ==
  { Row("CALL", <<"S1632">>, <<Hex(\hE8), <<"$", 1>>>>),
    Row("CALL", <<"_1632">>, <<Hex(\hFF), ModX(2)>>),
    Row("CALL", <<"P3248">>, <<Hex(\h9A), <<"p", 1>>>>),
    Row("CALL", <<"M3248">>, <<Hex(\hFF), ModX(3)>>),
    Row("RET",  <<>>,        << <<"hex+f", \hC3>> >>),
    Row("RET",  <<"I16">>,   << <<"hex+f", \hC2>>, Imm(1)>>) }

Jumps ==
  { Row("JMP",  <<"S8">>,    <<Hex(\hEB), <<"$", 1>>>>),
    Row("JMP",  <<"S1632">>, <<Hex(\hE9), <<"$", 1>>>>),
    Row("JMP",  <<"_1632">>, <<Hex(\hFF), ModX(4)>>),
    Row("JMP",  <<"P3248">>, <<Hex(\hEA), <<"p", 1>>>>),
    Row("JMP",  <<"M3248">>, <<Hex(\hFF), ModX(5)>>),
    Row("JE",   <<"S8">>,    <<Hex(\h74), <<"$", 1>>>>),
    Row("JE",   <<"S1632">>, <<Hex(\h0F), Hex(\h84), <<"$", 1>>>>),
    Row("LOOP", <<"S8">>,    <<Hex(\hE2), <<"$", 1>>>>),
    Row("JCXZ", <<"S8">>,    <<Hex(\hE3), <<"$", 1>>>>) }

Others ==
  { Row("INC",  <<"_8">>,    <<Hex(\hFE), ModX(0)>>),
    Row("INC",  <<"_16">>,   <<Hex(\hFF), ModX(0)>>),
    Row("INC",  <<"R1632">>, << <<"hex+r1", \h40>> >>),
    Row("PUSH", <<"R1632">>, << <<"hex+r1", \h50>> >>),
    Row("PUSH", <<"M">>,     <<Hex(\hFF), ModX(6)>>),
    Row("POP",  <<"R1632">>, << <<"hex+r1", \h58>> >>),
    Row("POP",  <<"M">>,     <<Hex(\h8F), ModX(0)>>),
    Row("LEA",  <<"R1632", "M">>, <<Hex(\h8D), R12>>),
    Row("INT",  <<"THREE">>, <<Hex(\hCC)>>),
    Row("INT",  <<"I8">>,    <<Hex(\hCD), Imm(1)>>),
    Row("NOP",  <<>>,        <<Hex(\h90)>>),
    Row("STOSB", <<>>,       <<Hex(\hAA)>>),
    Row("REP",  <<>>,        <<Hex(\hF3)>>) }

Rows == Arithmetic("ADD", 0) \cup Arithmetic("CMP", 7) \cup Moves \cup Calls
          \cup Jumps \cup Others

\* the near forms of the conditional jumps need a 80386 (hardware code 03)
future(r) == r.mn = "JE" /\ r.ops = <<"S1632">>

Mnemonics == {r.mn : r \in Rows}
PrefixOps == {"REP"}

\* stow_mn: the type a name of code is first tried as in a mnemonic's operand
seed(mn) == CASE mn = "CALL" -> "S1632"
              [] mn \in {"JMP", "JE", "JCXZ", "LOOP"} -> "S8"
              [] OTHER -> "M0"

\* find and findi: is there an instruction, and which
HasRow(mn, ops) == \E r \in Rows : r.mn = mn /\ r.ops = ops
TheRow(mn, ops) == CHOOSE r \in Rows : r.mn = mn /\ r.ops = ops

\* the op-code of a segment register prefix (ES:, CS:, SS:, DS:)
srpref(sr) == \h26 + 8 * enreg(sr)
=============================================================================
