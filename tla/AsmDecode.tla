----------------------------- MODULE AsmDecode -----------------------------
(***************************************************************************)
(* A decoder of machine code, to compare what Small Assembler generates    *)
(* with what the source asks for.  It goes by the fields of the 8086's     *)
(* op-codes, and not by the assembler's table.                             *)
(***************************************************************************)
EXTENDS AsmInstr

-----------------------------------------------------------------------------
(* Cells: the bytes a line has generated, each with the fixup it is in.    *)

RECURSIVE CellsOf(_), Repeated(_, _)
Repeated(b, n) == IF n = 0 THEN <<>> ELSE b \o Repeated(b, n - 1)

\* a fixup's bytes are zero until the linker fills them
CellsOf(items) ==
  IF items = <<>> THEN <<>>
  ELSE LET i == Head(items)
       IN  (CASE i.kind = "abs" -> [k \in DOMAIN i.b |-> [b |-> i.b[k], fix |-> NoFix]]
              [] i.kind = "rel" -> [k \in 1 .. i.n |-> [b |-> 0, fix |-> i.fix]]
              [] i.kind = "dup" -> [k \in 1 .. i.n * Len(i.b) |->
                                      [b |-> i.b[((k - 1) % Len(i.b)) + 1], fix |-> NoFix]])
           \o CellsOf(Tail(items))

\* a place or a number: what a word in the object file will be when it is linked
Ref(to, x, off) == [to |-> to, x |-> x, off |-> off % 65536]
Num(v) == Ref("num", 0, v)
Bad    == Ref("bad", 0, 0)

Signed8(b) == IF b > 127 THEN b - 256 ELSE b

\* the n cells at i are one fixup of the given mode and location
IsFix(c, i, n, mod, loc) ==
  /\ \A k \in i .. i + n - 1 : c[k].fix = c[i].fix
  /\ c[i].fix.mod = mod /\ c[i].fix.loc = loc

\* the word at i: an offset, the base of a segment, or a number
WordAt(c, i) ==
  LET f == c[i].fix IN
  CASE f = NoFix -> Num(c[i].b + 256 * c[i + 1].b)
    [] IsFix(c, i, 2, "SEGMENT", "OFF") -> Ref(f.tar, f.x, f.dis)
    [] IsFix(c, i, 2, "SEGMENT", "BASE") -> Ref("base " \o f.tar, f.x, 0)
    [] OTHER -> Bad

ByteAt(c, i) == IF c[i].fix = NoFix THEN c[i].b ELSE -1

\* where a jump goes whose displacement of n bytes is at i, in segment x; the
\* code begins at offset at
TargetAt(c, i, n, x, at) ==
  LET f == c[i].fix IN
  CASE f = NoFix /\ n = 1 -> Ref("SEG", x, at + i + Signed8(c[i].b))
    [] f = NoFix /\ n = 2 -> Ref("SEG", x, at + i + 1 + c[i].b + 256 * c[i + 1].b)
    [] n = 2 /\ IsFix(c, i, 2, "SELF", "OFF") -> Ref(f.tar, f.x, f.dis)
    [] OTHER -> Bad

FarAt(c, i) == IF IsFix(c, i, 4, "SEGMENT", "PTR")
               THEN Ref(c[i].fix.tar, c[i].fix.x, c[i].fix.dis) ELSE Bad

-----------------------------------------------------------------------------
(* Operands, as the processor sees them: a register, an immediate value, a *)
(* place in memory reached through a segment register, a near or a far     *)
(* address of code.                                                        *)

Op(k, r, ind, val, size) == [k |-> k, r |-> r, ind |-> ind, val |-> val, size |-> size]
RegOp(r)   == Op("reg", r, {}, Num(0), IF r \in ToSet(ByteRegs) THEN 1 ELSE 2)
ImmOp(v)   == Op("imm", "", {}, v, 0)
NearOp(v)  == Op("near", "", {}, v, 0)
FarOp(v)   == Op("far", "", {}, v, 0)
MemOp(ind, v, size) == Op("mem", "", ind, v, size)

GPR(n, w) == RegOp((IF w = 1 THEN <<"AX", "CX", "DX", "BX", "SP", "BP", "SI", "DI">>
                    ELSE <<"AL", "CL", "DL", "BL", "AH", "CH", "DH", "BH">>)[n + 1])

Addressing == << {"BX", "SI"}, {"BX", "DI"}, {"BP", "SI"}, {"BP", "DI"},
                 {"SI"}, {"DI"}, {"BP"}, {"BX"} >>

\* the operand that a ModRM byte at i describes, of w + 1 bytes, and where the
\* instruction goes on
ModRM(c, i, w) ==
  LET m   == c[i].b
      mod == m \div 64
      rm  == m % 8
      ind == Addressing[rm + 1]
      res(op, n) == [op |-> op, reg |-> (m \div 8) % 8, next |-> i + 1 + n]
  IN  CASE mod = 3 -> res(GPR(rm, w), 0)
        [] mod = 0 /\ rm = 6 -> res(MemOp({}, WordAt(c, i + 1), w + 1), 2)
        [] mod = 0 /\ rm /= 6 -> res(MemOp(ind, Num(0), w + 1), 0)
        [] mod = 1 -> res(MemOp(ind, Num(Signed8(c[i + 1].b)), w + 1), 1)
        [] mod = 2 -> res(MemOp(ind, WordAt(c, i + 1), w + 1), 2)

\* an immediate operand of w + 1 bytes at i
ImmAt(c, i, w) == ImmOp(IF w = 1 THEN WordAt(c, i) ELSE Num(ByteAt(c, i)))

Did(mn, ops, next) == [mn |-> mn, ops |-> ops, next |-> next]

\* the instruction at i, without prefixes, of code at offset at of segment x
Instruction(c, i, x, at) ==
  LET b  == c[i].b
      w  == b % 2
      rm == ModRM(c, i + 1, w)
      n  == rm.next
      far2(op) == [op EXCEPT !.size = 4]
  IN  CASE b < 64 /\ b % 8 < 4 ->
             Did(<<"ADD", "OR", "ADC", "SBB", "AND", "SUB", "XOR", "CMP">>[b \div 8 + 1],
                 IF b % 8 < 2 THEN <<rm.op, GPR(rm.reg, w)>> ELSE <<GPR(rm.reg, w), rm.op>>, n)
        [] b < 64 /\ b % 8 \in {4, 5} ->
             Did(<<"ADD", "OR", "ADC", "SBB", "AND", "SUB", "XOR", "CMP">>[b \div 8 + 1],
                 <<GPR(0, w), ImmAt(c, i + 1, w)>>, i + 2 + w)
        [] b \in \h80 .. \h83 ->
             Did(<<"ADD", "OR", "ADC", "SBB", "AND", "SUB", "XOR", "CMP">>[rm.reg + 1],
                 <<rm.op, IF b = \h83 THEN ImmOp(Num(Signed8(c[n].b))) ELSE ImmAt(c, n, w)>>,
                 IF b = \h81 THEN n + 2 ELSE n + 1)
        [] b \div 16 = 4 -> Did(IF b < \h48 THEN "INC" ELSE "DEC", <<GPR(b % 8, 1)>>, i + 1)
        [] b \div 16 = 5 -> Did(IF b < \h58 THEN "PUSH" ELSE "POP", <<GPR(b % 8, 1)>>, i + 1)
        [] b = \h74 -> Did("JE", <<NearOp(TargetAt(c, i + 1, 1, x, at))>>, i + 2)
        [] b = \h0F -> Did(IF c[i + 1].b = \h84 THEN "JE" ELSE "?",
                           <<NearOp(TargetAt(c, i + 2, 2, x, at))>>, i + 4)
        [] b \in {\h88, \h89} -> Did("MOV", <<rm.op, GPR(rm.reg, w)>>, n)
        [] b \in {\h8A, \h8B} -> Did("MOV", <<GPR(rm.reg, w), rm.op>>, n)
        [] b = \h8D -> Did("LEA", <<GPR(rm.reg, 1), [rm.op EXCEPT !.size = 0]>>, n)
        [] b \in {\h8C, \h8E} ->
             LET m == ModRM(c, i + 1, 1)
                 s == RegOp(<<"ES", "CS", "SS", "DS">>[rm.reg + 1])
             IN  Did("MOV", IF b = \h8C THEN <<m.op, s>> ELSE <<s, m.op>>, n)
        [] b = \h8F -> Did("POP", <<rm.op>>, n)
        [] b = \h90 -> Did("NOP", <<>>, i + 1)
        [] b \in {\h9A, \hEA} ->
             Did(IF b = \h9A THEN "CALL" ELSE "JMP", <<FarOp(FarAt(c, i + 1))>>, i + 5)
        [] b \in \hA0 .. \hA3 ->
             LET m == MemOp({}, WordAt(c, i + 1), w + 1)
             IN  Did("MOV", IF b < \hA2 THEN <<GPR(0, w), m>> ELSE <<m, GPR(0, w)>>, i + 3)
        [] b = \hAA -> Did("STOSB", <<>>, i + 1)
        [] b \div 16 = 11 ->
             LET v == (b \div 8) % 2
             IN  Did("MOV", <<GPR(b % 8, v), ImmAt(c, i + 1, v)>>, i + 2 + v)
        [] b \in {\hC2, \hCA} ->
             Did(IF b = \hC2 THEN "RET" ELSE "RETF", <<ImmOp(WordAt(c, i + 1))>>, i + 3)
        [] b \in {\hC3, \hCB} -> Did(IF b = \hC3 THEN "RET" ELSE "RETF", <<>>, i + 1)
        [] b \in {\hC6, \hC7} -> Did("MOV", <<rm.op, ImmAt(c, n, w)>>, n + 1 + w)
        [] b = \hCC -> Did("INT", <<ImmOp(Num(3))>>, i + 1)
        [] b = \hCD -> Did("INT", <<ImmOp(Num(c[i + 1].b))>>, i + 2)
        [] b \in {\hE2, \hE3, \hEB} ->
             Did(CASE b = \hE2 -> "LOOP" [] b = \hE3 -> "JCXZ" [] b = \hEB -> "JMP",
                 <<NearOp(TargetAt(c, i + 1, 1, x, at))>>, i + 2)
        [] b \in {\hE8, \hE9} -> Did(IF b = \hE8 THEN "CALL" ELSE "JMP",
                                     <<NearOp(TargetAt(c, i + 1, 2, x, at))>>, i + 3)
        [] b \in {\hFE, \hFF} ->
             Did(<<"INC", "DEC", "CALL", "CALL", "JMP", "JMP", "PUSH", "?">>[rm.reg + 1],
                 <<IF rm.reg \in {3, 5} THEN far2(rm.op) ELSE rm.op>>, n)
        [] OTHER -> Did("?", <<>>, i + 1)

Overrides == [b \in {\h26, \h2E, \h36, \h3E} |->
                CASE b = \h26 -> "ES" [] b = \h2E -> "CS" [] b = \h36 -> "SS" [] b = \h3E -> "DS"]

\* what stands behind code that ends too early
NoCells == [k \in 1 .. 8 |-> [b |-> -1, fix |-> NoFix]]

\* a line's code: a segment override or a REP, the instruction, and where it ends
Decoded(c, x, at) ==
  LET rep  == c[1].b = \hF3
      over == ~rep /\ c[1].b \in DOMAIN Overrides
      d    == Instruction(c, IF rep \/ over THEN 2 ELSE 1, x, at)
  IN  [rep |-> rep, over |-> IF over THEN Overrides[c[1].b] ELSE "",
       mn |-> d.mn, ops |-> d.ops, next |-> d.next]
=============================================================================
