------------------------------ MODULE Machine -------------------------------
(***************************************************************************)
(* What the p-codes do: the assembly text that code[] of cc4.c gives each  *)
(* one, run on the 8086, with the routines of CALL.ASM and LONGMATH.ASM    *)
(* that the text calls.                                                    *)
(*                                                                         *)
(* A byte has ByteSize values and a word two bytes.  The machine is a      *)
(* record: registers, the operands fl of the last comparison or <<>> when  *)
(* the flags tell nothing, the memory by bytes, the index pc of the next   *)
(* p-code and the half of an instruction that a p-code ending in _ left.   *)
(* A branch on flags that tell nothing, or a jump to nowhere, is a trap.   *)
(***************************************************************************)
EXTENDS LongMath, PCodes, Bitwise, TLC

CONSTANTS
  ByteSyms,        \* addresses of the variables declared char
  LitPool,         \* address of the string literals
  External,        \* addresses of the functions of other modules, with what they do
  Counter          \* the word such a function counts in

Byte(x) == x % ByteSize
SignedByte(x) == IF x >= ByteSize \div 2 THEN x - ByteSize ELSE x

Peek(m, a) == m.mem[W(a)]
PeekW(m, a) == m.mem[W(a)] + ByteSize * m.mem[W(a + 1)]
Poke(m, a, v) == [m EXCEPT !.mem[W(a)] = Byte(W(v))]
PokeW(m, a, v) ==
  [m EXCEPT !.mem[W(a)] = Byte(W(v)), !.mem[W(a + 1)] = W(v) \div ByteSize]

Push(m, v) == LET a == W(m.sp - 2) IN PokeW([m EXCEPT !.sp = a], a, v)
Drop(m, n) == [m EXCEPT !.sp = W(@ + n)]
Trap(m) == [m EXCEPT !.trap = TRUE]
NoFlags(m) == [m EXCEPT !.fl = <<>>]

Ax(m, v) == [m EXCEPT !.ax = W(v)]
Bx(m, v) == [m EXCEPT !.bx = W(v)]
Alu(m, v) == [m EXCEPT !.ax = W(v), !.fl = <<W(v), 0>>]      \* AX and the zero flag
AluB(m, v) == [m EXCEPT !.bx = W(v), !.fl = <<W(v), 0>>]
Long1(m) == m.dx * Word + m.ax
Long2(m) == m.cx * Word + m.bx
SetLong1(m, v) == NoFlags([m EXCEPT !.ax = lo(v), !.dx = hi(v)])
SetLong2(m, v) == [m EXCEPT !.bx = lo(v), !.cx = hi(v)]
ClobberCx(m) == NoFlags([m EXCEPT !.cx = 0])

\* MOV AX,AX of a constant is XOR AX,AX when it is zero, which sets flags.
Const(m, reg, v) == IF W(v) = 0 THEN [m EXCEPT ![reg] = 0, !.fl = <<0, 0>>] ELSE [m EXCEPT ![reg] = W(v)]

ByteOp(m, a, v) == LET r == Byte(Peek(m, a) + v) IN [Poke(m, a, r) EXCEPT !.fl = <<r, 0>>]
WordOp(m, a, v) == [PokeW(m, a, v) EXCEPT !.fl = <<W(v), 0>>]

\* Shifts: the count is CL, and a count of zero leaves the flags.
Shifted(m, v, n) == IF n = 0 THEN Ax(m, v) ELSE Alu(m, v)

\* compare: __lt and its like of CALL.ASM, BX the left operand.  The same
\* conditions are those of the jumps, with AX compared.
Holds(c, a, b) ==
  CASE c \in {"EQ", "E"} -> a = b
    [] c \in {"NE"} -> a /= b
    [] c \in {"LT", "L"} -> S(a) < S(b)
    [] c \in {"GT", "G"} -> S(a) > S(b)
    [] c \in {"LE"} -> S(a) <= S(b)
    [] c \in {"GE"} -> S(a) >= S(b)
    [] c \in {"LTu", "B"} -> a < b
    [] c \in {"GTu", "A"} -> a > b
    [] c \in {"LEu", "BE"} -> a <= b
    [] c \in {"GEu", "AE"} -> a >= b
compare(m, c) == [m EXCEPT !.ax = Truth(Holds(c, m.bx, m.ax)), !.fl = <<>>]

\* IDIV of the sign-extended AX, DIV with DX zero; the remainder is in DX.
IDiv(m) ==
  LET a == S(m.ax)
      b == S(m.bx)
  IN IF b = 0 THEN Trap(m)
     ELSE NoFlags([m EXCEPT !.ax = W(Quot(a, b)), !.dx = W(a - b * Quot(a, b))])
Div(m) == IF m.bx = 0 THEN Trap(m)
          ELSE NoFlags([m EXCEPT !.ax = m.ax \div m.bx, !.dx = m.ax % m.bx])
IMul(m, product) == NoFlags([m EXCEPT !.ax = W(product), !.dx = W(product \div Word)])
Remainder(m) == [m EXCEPT !.ax = m.dx]
Exchange(m) == [m EXCEPT !.ax = m.bx, !.bx = m.ax]
ExchangeLong(m) == [m EXCEPT !.ax = m.bx, !.bx = m.ax, !.dx = m.cx, !.cx = m.dx]

-----------------------------------------------------------------------------
(* The p-codes by families.  v is the value of the p-code.                 *)

Loads == {"POINT1l", "POINT1m", "POINT1s", "GETb1m", "GETb1mu", "GETb1p", "GETb1pu", "GETb1s",
          "GETb1su", "GETw1m", "GETw1n", "GETw1p", "GETw1s", "GETw2n", "GETw2m", "GETw2p",
          "GETw2s", "POINT2m", "POINT2s", "GETd1m", "GETd1p", "GETd1s", "GETdxn", "GETcxn",
          "GETd2m", "GETd2s"}
LongAt(m, a) == PeekW(m, a) + Word * PeekW(m, a + 2)
Load(m, op, v) ==
  LET frame == m.bp + v
      through == m.bx + v
      Signed8(a) == Ax(m, SignedByte(Peek(m, a)))
      Unsigned8(a) == [Ax(m, Peek(m, a)) EXCEPT !.fl = <<0, 0>>]    \* XOR AH,AH
  IN CASE op = "GETw1n" -> Const(m, "ax", v)
       [] op = "GETw2n" -> Const(m, "bx", v)
       [] op = "GETdxn" -> Const(m, "dx", v)
       [] op = "GETcxn" -> Const(m, "cx", v)
       [] op = "POINT1l" -> Ax(m, LitPool + v)
       [] op = "POINT1m" -> Ax(m, v)
       [] op = "POINT1s" -> Ax(m, frame)
       [] op = "POINT2m" -> Bx(m, v)
       [] op = "POINT2s" -> Bx(m, frame)
       [] op = "GETw1m" -> Ax(m, PeekW(m, v))
       [] op = "GETw1s" -> Ax(m, PeekW(m, frame))
       [] op = "GETw1p" -> Ax(m, PeekW(m, through))
       [] op = "GETw2m" -> Bx(m, PeekW(m, v))
       [] op = "GETw2s" -> Bx(m, PeekW(m, frame))
       [] op = "GETw2p" -> Bx(m, PeekW(m, through))
       [] op = "GETb1m" -> Signed8(v)
       [] op = "GETb1s" -> Signed8(frame)
       [] op = "GETb1p" -> Signed8(through)
       [] op = "GETb1mu" -> Unsigned8(v)
       [] op = "GETb1su" -> Unsigned8(frame)
       [] op = "GETb1pu" -> Unsigned8(through)
       [] op = "GETd1m" -> [Ax(m, PeekW(m, v)) EXCEPT !.dx = PeekW(m, v + 2)]
       [] op = "GETd1s" -> [Ax(m, PeekW(m, frame)) EXCEPT !.dx = PeekW(m, frame + 2)]
       [] op = "GETd1p" -> [Ax(m, PeekW(m, m.bx)) EXCEPT !.dx = PeekW(m, m.bx + 2)]
       [] op = "GETd2m" -> SetLong2(m, LongAt(m, v))
       [] op = "GETd2s" -> SetLong2(m, LongAt(m, frame))

Stores == {"PUTbm1", "PUTwm1", "PUTbp1", "PUTwp1", "PUTws1", "PUTbs1", "PUTdm1", "PUTdp1", "PUTds1",
           "ADDws1", "SUBws1", "ANDws1", "ORws1", "XORws1", "POSTINCws", "POSTDECws",
           "ADDbpn", "SUBbpn", "INCbp", "DECbp", "ADDwpn", "SUBwpn", "INCwp", "DECwp"}
Store(m, op, v) ==
  LET frame == m.bp + v
      there == PeekW(m, frame)
      at == PeekW(m, m.bx)
      PokeLong(a) == PokeW(PokeW(m, a, m.ax), a + 2, m.dx)
  IN CASE op = "PUTbm1" -> Poke(m, v, m.ax)
       [] op = "PUTwm1" -> PokeW(m, v, m.ax)
       [] op = "PUTbp1" -> Poke(m, m.bx, m.ax)
       [] op = "PUTwp1" -> PokeW(m, m.bx, m.ax)
       [] op = "PUTbs1" -> Poke(m, frame, m.ax)
       [] op = "PUTws1" -> PokeW(m, frame, m.ax)
       [] op = "PUTdm1" -> PokeLong(v)
       [] op = "PUTdp1" -> PokeLong(m.bx)
       [] op = "PUTds1" -> PokeLong(frame)
       [] op = "ADDws1" -> WordOp(m, frame, there + m.ax)
       [] op = "SUBws1" -> WordOp(m, frame, there - m.ax)
       [] op = "ANDws1" -> WordOp(m, frame, there & m.ax)
       [] op = "ORws1" -> WordOp(m, frame, there | m.ax)
       [] op = "XORws1" -> WordOp(m, frame, there ^^ m.ax)
       [] op = "POSTINCws" -> Bx(WordOp(m, frame, there + 1), there)
       [] op = "POSTDECws" -> Bx(WordOp(m, frame, there - 1), there)
       [] op = "ADDbpn" -> ByteOp(m, m.bx, v)
       [] op = "SUBbpn" -> ByteOp(m, m.bx, -v)
       [] op = "INCbp" -> ByteOp(m, m.bx, 1)
       [] op = "DECbp" -> ByteOp(m, m.bx, -1)
       [] op = "ADDwpn" -> WordOp(m, m.bx, at + v)
       [] op = "SUBwpn" -> WordOp(m, m.bx, at - v)
       [] op = "INCwp" -> WordOp(m, m.bx, at + 1)
       [] op = "DECwp" -> WordOp(m, m.bx, at - 1)

\* An instruction written by two p-codes: the first names the operation and
\* the symbol, the second the number.  The symbol's declaration sets the size.
Halves == {"ADDm_", "SUB_m_", "PUT_m_", "GETw1m_", "POINT1m_", "POINT2m_"}
Finished(m, v) ==
  LET p == m.half
      old == IF p.v \in ByteSyms THEN Peek(m, p.v) ELSE PeekW(m, p.v)
      Into(x) == IF p.v \in ByteSyms THEN [Poke(m, p.v, x) EXCEPT !.fl = <<Byte(W(x)), 0>>]
                 ELSE WordOp(m, p.v, x)
  IN [CASE p.op = "ADDm_" -> Into(old + v)
        [] p.op = "SUB_m_" -> Into(old - v)
        [] p.op = "PUT_m_" -> [Into(v) EXCEPT !.fl = m.fl]
        [] p.op = "GETw1m_" -> Ax(m, PeekW(m, p.v + v))
        [] p.op = "POINT1m_" -> Ax(m, p.v + v)
        [] p.op = "POINT2m_" -> Bx(m, p.v + v)
      EXCEPT !.half = P("NOP_", 0)]

Arithmetic == {"ADD12", "AND12", "ANEG1", "ASL12", "ASR12", "LSR12", "COM1", "DBL1", "DBL2", "DIV12",
               "DIV12u", "MOD12", "MOD12u", "MOVE21", "MUL12", "MUL12u", "OR12", "SUB12", "SWAP12",
               "XOR12", "ADD1n", "ADD21", "ADD2n", "SUB1n", "rINC1", "rDEC1", "rINC2", "rDEC2",
               "ASL1_1", "ASR1_1", "LSR1_1", "ASR1_2", "ASLsn", "ASRsn", "LSRsn", "AND1n", "SHL1n",
               "SAR1n", "SHR1n", "LNEG1", "CMP1n", "CMP12", "CMP1m", "CMP1s"}
Arith(m, op, v) ==
  CASE op = "ADD12" -> Alu(m, m.ax + m.bx)
    [] op = "SUB12" -> Alu(m, m.ax - m.bx)
    [] op = "AND12" -> Alu(m, m.ax & m.bx)
    [] op = "OR12" -> Alu(m, m.ax | m.bx)
    [] op = "XOR12" -> Alu(m, m.ax ^^ m.bx)
    [] op = "ANEG1" -> Alu(m, -m.ax)
    [] op = "COM1" -> Ax(m, -m.ax - 1)
    [] op = "LNEG1" -> [Ax(m, Truth(m.ax = 0)) EXCEPT !.fl = <<>>]
    [] op = "DBL1" -> Alu(m, 2 * m.ax)
    [] op = "DBL2" -> AluB(m, 2 * m.bx)
    [] op = "MUL12" -> IMul(m, S(m.ax) * S(m.bx))
    [] op = "MUL12u" -> IMul(m, m.ax * m.bx)
    [] op = "DIV12" -> IDiv(m)
    [] op = "DIV12u" -> Div(m)
    [] op = "MOD12" -> Remainder(IDiv(m))
    [] op = "MOD12u" -> Remainder(Div(m))
    [] op = "MOVE21" -> Bx(m, m.ax)
    [] op = "SWAP12" -> Exchange(m)
    [] op = "ADD21" -> AluB(m, m.ax + m.bx)
    [] op = "ADD1n" -> IF v = 0 THEN m ELSE Alu(m, m.ax + v)
    [] op = "SUB1n" -> IF v = 0 THEN m ELSE Alu(m, m.ax - v)
    [] op = "ADD2n" -> IF v = 0 THEN m ELSE AluB(m, m.bx + v)
    [] op = "rINC1" -> IF v < 1 THEN m ELSE Alu(m, m.ax + v)
    [] op = "rDEC1" -> IF v < 1 THEN m ELSE Alu(m, m.ax - v)
    [] op = "rINC2" -> IF v < 1 THEN m ELSE AluB(m, m.bx + v)
    [] op = "rDEC2" -> IF v < 1 THEN m ELSE AluB(m, m.bx - v)
    [] op = "ASL12" -> [Shifted(m, Shl(m.bx, Byte(m.ax)), Byte(m.ax)) EXCEPT !.cx = m.ax]
    [] op = "ASR12" -> [Shifted(m, Sar(m.bx, Byte(m.ax)), Byte(m.ax)) EXCEPT !.cx = m.ax]
    [] op = "LSR12" -> [Shifted(m, Shr(m.bx, Byte(m.ax)), Byte(m.ax)) EXCEPT !.cx = m.ax]
    [] op = "ASL1_1" -> Alu(m, Shl(m.bx, 1))
    [] op = "ASR1_1" -> Alu(m, Sar(m.bx, 1))
    [] op = "LSR1_1" -> Alu(m, Shr(m.bx, 1))
    [] op = "ASR1_2" -> Alu(m, Sar(m.bx, 2))
    [] op = "ASLsn" -> Shifted(m, Shl(m.bx, Byte(W(v))), Byte(W(v)))
    [] op = "ASRsn" -> Shifted(m, Sar(m.bx, Byte(W(v))), Byte(W(v)))
    [] op = "LSRsn" -> Shifted(m, Shr(m.bx, Byte(W(v))), Byte(W(v)))
    [] op = "AND1n" -> Alu(m, m.ax & W(v))
    [] op = "SHL1n" -> Shifted(m, Shl(m.ax, Byte(W(v))), Byte(W(v)))
    [] op = "SAR1n" -> Shifted(m, Sar(m.ax, Byte(W(v))), Byte(W(v)))
    [] op = "SHR1n" -> Shifted(m, Shr(m.ax, Byte(W(v))), Byte(W(v)))
    [] op = "CMP1n" -> [m EXCEPT !.fl = <<m.ax, W(v)>>]
    [] op = "CMP12" -> [m EXCEPT !.fl = <<m.ax, m.bx>>]
    [] op = "CMP1m" -> [m EXCEPT !.fl = <<m.ax, PeekW(m, v)>>]
    [] op = "CMP1s" -> [m EXCEPT !.fl = <<m.ax, PeekW(m, m.bp + v)>>]

\* The comparisons that leave 0 or 1 in AX, by condition.
Comparison == [EQ12 |-> "EQ", NE12 |-> "NE", LT12 |-> "LT", GT12 |-> "GT", LE12 |-> "LE", GE12 |-> "GE",
               LT12u |-> "LTu", GT12u |-> "GTu", LE12u |-> "LEu", GE12u |-> "GEu"]

LongArithmetic == {"MOVEd21", "SWAPd12", "WIDENs", "WIDENu", "WIDENs2", "WIDENu2", "ADDd12", "SUBd12",
                   "ANDd12", "ORd12", "XORd12", "COMd1", "ANEGd1", "rINCd1", "rDECd1", "DBLd1", "DBLd2",
                   "MULd12", "MULd12u", "DIVd12", "DIVd12u", "MODd12", "MODd12u", "ASLd12", "ASRd12",
                   "ASRd12u", "EQd12", "NEd12", "LTd12", "LEd12", "GTd12", "GEd12", "LTd12u", "LEd12u",
                   "GTd12u", "GEd12u", "LNEGd1"}
ArithLong(m, op, v) ==
  LET a == Long1(m)
      b == Long2(m)
      Wise(x, y) == SetLong1(m, y * Word + x)
      Divided(x) == SetLong2(SetLong1(m, x), Abs(b))
      ShiftedBy(x) == [SetLong1(m, x) EXCEPT !.bx = m.ax, !.cx = 0]
  IN CASE op = "MOVEd21" -> SetLong2(m, a)
       [] op = "SWAPd12" -> ExchangeLong(m)
       [] op = "WIDENs" -> [m EXCEPT !.dx = IF S(m.ax) < 0 THEN Word - 1 ELSE 0]
       [] op = "WIDENu" -> [m EXCEPT !.dx = 0, !.fl = <<0, 0>>]
       [] op = "WIDENs2" -> NoFlags([m EXCEPT !.cx = IF S(m.bx) < 0 THEN Word - 1 ELSE 0])
       [] op = "WIDENu2" -> [m EXCEPT !.cx = 0, !.fl = <<0, 0>>]
       [] op = "ADDd12" -> SetLong1(m, (a + b) % Long)
       [] op = "SUBd12" -> SetLong1(m, (a - b) % Long)
       [] op = "ANDd12" -> Wise(m.ax & m.bx, m.dx & m.cx)
       [] op = "ORd12" -> Wise(m.ax | m.bx, m.dx | m.cx)
       [] op = "XORd12" -> Wise(m.ax ^^ m.bx, m.dx ^^ m.cx)
       [] op = "COMd1" -> SetLong1(m, (-a - 1) % Long)
       [] op = "ANEGd1" -> SetLong1(m, Negated(a))
       [] op = "rINCd1" -> SetLong1(m, (a + W(v)) % Long)
       [] op = "rDECd1" -> SetLong1(m, (a - W(v)) % Long)
       [] op = "DBLd1" -> SetLong1(m, SHL(a))
       [] op = "DBLd2" -> NoFlags(SetLong2(m, SHL(b)))
       [] op \in {"MULd12", "MULd12u"} -> [SetLong1(m, lmul(a, b)) EXCEPT !.cx = 0]
       [] op = "DIVd12" -> Divided(ldiv(a, b))
       [] op = "DIVd12u" -> SetLong1(m, uldiv(a, b))
       [] op = "MODd12" -> Divided(lmod(a, b))
       [] op = "MODd12u" -> SetLong1(m, ulmod(a, b))
       [] op = "ASLd12" -> ShiftedBy(lshl(b, a))
       [] op = "ASRd12" -> ShiftedBy(lsar(b, a))
       [] op = "ASRd12u" -> ShiftedBy(lshr(b, a))
       [] op = "EQd12" -> SetLong1(m, leq(b, a))
       [] op = "NEd12" -> SetLong1(m, lne(b, a))
       [] op = "LTd12" -> SetLong1(m, llt(b, a))
       [] op = "LEd12" -> SetLong1(m, lle(b, a))
       [] op = "GTd12" -> SetLong1(m, lgt(b, a))
       [] op = "GEd12" -> SetLong1(m, lge(b, a))
       [] op = "LTd12u" -> SetLong1(m, ullt(b, a))
       [] op = "LEd12u" -> SetLong1(m, ulle(b, a))
       [] op = "GTd12u" -> SetLong1(m, ulgt(b, a))
       [] op = "GEd12u" -> SetLong1(m, ulge(b, a))
       [] op = "LNEGd1" -> SetLong1(m, llneg(a))

Stacking == {"PUSH1", "PUSH2", "PUSHm", "PUSHp", "PUSHs", "PUSHd1", "PUSHdm", "PUSHds", "POP2", "POPd2",
             "POPCX", "POPCX2", "ADDSP", "SWAP1s", "ENTER"}
Stack(m, op, v) ==
  LET PushLong(x) == Push(Push(m, hi(x)), lo(x))
      top == PeekW(m, m.sp)
  IN CASE op = "PUSH1" -> Push(m, m.ax)
       [] op = "PUSH2" -> Push(m, m.bx)
       [] op = "PUSHm" -> Push(m, PeekW(m, v))
       [] op = "PUSHp" -> Push(m, PeekW(m, m.bx + v))
       [] op = "PUSHs" -> Push(m, PeekW(m, m.bp + v))
       [] op = "PUSHd1" -> PushLong(Long1(m))
       [] op = "PUSHdm" -> PushLong(LongAt(m, v))
       [] op = "PUSHds" -> PushLong(LongAt(m, m.bp + v))
       [] op = "POP2" -> Bx(Drop(m, 2), top)
       [] op = "POPd2" -> SetLong2(Drop(m, 4), LongAt(m, m.sp))
       [] op = "POPCX" -> [Drop(m, 2) EXCEPT !.cx = top]
       [] op = "POPCX2" -> [Drop(m, 4) EXCEPT !.cx = PeekW(m, m.sp + 2)]
       [] op = "ADDSP" -> IF v = 0 THEN m ELSE NoFlags(Drop(m, v))
       [] op = "SWAP1s" -> [PokeW(m, m.sp, m.ax) EXCEPT !.ax = top, !.bx = m.ax]
       [] op = "ENTER" -> LET f == Push(m, m.bp) IN [f EXCEPT !.bp = f.sp]

-----------------------------------------------------------------------------
(* Control.  A program is the record of its p-codes, the index of each     *)
(* label, and the index of the first p-code of each function.  A return    *)
(* address is an index of code, 0 that of the caller of the program.       *)

Labels(code) ==
  [n \in {code[i].v : i \in {j \in DOMAIN code : code[j].op = "LABm"}} |->
     CHOOSE i \in DOMAIN code : code[i] = P("LABm", n)]
Goto(prog, m, label) ==
  IF label \in DOMAIN prog.label THEN [m EXCEPT !.pc = prog.label[label]] ELSE Trap(m)

\* Which test a branch makes; all of them jump when it does NOT hold.
WordTest == [EQ10f |-> "EQ", NE10f |-> "NE", GE10f |-> "GE", GT10f |-> "GT", LE10f |-> "LE", LT10f |-> "LT"]
FlagTest == [EQ10fp |-> "EQ", NE10fp |-> "NE", JccE |-> "E", JccNE |-> "NE", JccG |-> "G", JccL |-> "L",
             JccGE |-> "GE", JccLE |-> "LE", JccA |-> "A", JccB |-> "B", JccAE |-> "AE", JccBE |-> "BE"]
LongTest == [EQd10f |-> "EQ", NEd10f |-> "NE"]
Branches == LongBranch \cup ShortForms
LongForm == [b \in Branches |-> IF b \in LongBranch THEN b ELSE LongOf(b)]

Tested(prog, m, test, label) ==
  IF m.fl = <<>> THEN Trap(m)
  ELSE IF Holds(test, m.fl[1], m.fl[2]) THEN m ELSE Goto(prog, m, label)
Branch(prog, m, op, label) ==
  LET b == LongForm[op] IN
  CASE b = "JMPm" -> Goto(prog, m, label)
    [] b \in DOMAIN WordTest -> Tested(prog, [m EXCEPT !.fl = <<m.ax, 0>>], WordTest[b], label)
    [] b \in DOMAIN LongTest ->
         LET r == m.ax | m.dx IN Tested(prog, [m EXCEPT !.ax = r, !.fl = <<r, 0>>], LongTest[b], label)
    [] OTHER -> Tested(prog, m, FlagTest[b], label)

\* A function of another module: structcp() copies, the others return their
\* first argument less twice the second, or the number of calls so far.
CopyOut(m) ==
  LET dst == PeekW(m, m.sp)
      src == PeekW(m, m.sp + 2)
      n == PeekW(m, m.sp + 4)
  IN [m EXCEPT !.mem = [a \in DOMAIN @ |-> IF W(a - dst) < n THEN Peek(m, src + W(a - dst)) ELSE @[a]]]
Returns1(m, r) == [m EXCEPT !.ax = r, !.bx = 1, !.cx = 1, !.dx = 1, !.fl = <<>>]
CallOut(m, f) ==
  LET c == W(PeekW(m, Counter) + 1)
  IN CASE f = "structcp" -> Returns1(CopyOut(m), 0)
       [] f = "count" -> Returns1(PokeW(m, Counter, c), c)
       [] f = "sub" -> Returns1(m, W(PeekW(m, m.sp) - 2 * PeekW(m, m.sp + 2)))
Call(prog, m, f) ==
  IF f \in DOMAIN External THEN CallOut(m, External[f])
  ELSE IF f \in DOMAIN prog.entry THEN [Push(m, m.pc) EXCEPT !.pc = prog.entry[f], !.fl = <<>>]
  ELSE Trap(m)
Ret(m) == [Drop(m, 2) EXCEPT !.pc = PeekW(m, m.sp)]
Leave(m, v) ==
  LET f == IF v = 0 THEN m ELSE [m EXCEPT !.sp = m.bp]
  IN Ret([Drop(f, 2) EXCEPT !.bp = PeekW(f, f.sp)])

\* __switch and __lswitch: the table behind the call, entry by entry.
RECURSIVE Switch(_, _, _)
Switch(prog, m, i) ==
  IF i > Len(prog.code) THEN Trap(m)
  ELSE LET p == prog.code[i] IN
       CASE p.op = "WORDn" /\ p.v = 0 -> [m EXCEPT !.bx = 1, !.cx = 0, !.fl = <<>>, !.pc = i + 1]
         [] p.op = "NEARm" /\ i < Len(prog.code) /\ prog.code[i + 1].op = "WORDn" ->
              IF W(prog.code[i + 1].v) = m.ax THEN Goto(prog, NoFlags(m), p.v) ELSE Switch(prog, m, i + 2)
         [] OTHER -> Trap(m)
RECURSIVE LongSwitch(_, _, _)
LongSwitch(prog, m, i) ==
  IF i + 2 > Len(prog.code) \/ {prog.code[j].op : j \in (i + 1)..(i + 2)} /= {"WORDn"} THEN Trap(m)
  ELSE LET p == prog.code[i] IN
       CASE p.op = "WORDn" /\ p.v = 0 -> [m EXCEPT !.bx = 1, !.cx = 0, !.fl = <<>>, !.pc = i + 3]
         [] p.op = "NEARm" ->
              IF W(prog.code[i + 1].v) = m.ax /\ W(prog.code[i + 2].v) = m.dx
              THEN Goto(prog, NoFlags(m), p.v) ELSE LongSwitch(prog, m, i + 3)
         [] OTHER -> Trap(m)

\* One p-code.
Step(prog, m) ==
  LET op == prog.code[m.pc].op
      v == prog.code[m.pc].v
      n == [m EXCEPT !.pc = @ + 1]
  IN IF m.half.op /= "NOP_" THEN (IF op \in {"COMMAn", "PLUSn"} THEN Finished(n, v) ELSE Trap(m))
     ELSE CASE op \in {"NOP_", "LABm"} -> n
            [] op \in Loads -> Load(n, op, v)
            [] op \in Stores -> Store(n, op, v)
            [] op \in Arithmetic -> Arith(n, op, v)
            [] op \in DOMAIN Comparison -> compare(n, Comparison[op])
            [] op \in Branches -> Branch(prog, n, op, v)
            [] op \in Stacking -> Stack(n, op, v)
            [] op \in LongArithmetic -> ArithLong(n, op, v)
            [] op \in Halves -> [n EXCEPT !.half = prog.code[m.pc]]
            [] op = "CALLm" -> Call(prog, n, v)
            [] op = "CALL1" -> Call(prog, n, n.ax)
            [] op = "RETURN" -> Leave(n, v)
            [] op = "RETNOFP" -> Ret(n)
            [] op = "SWITCH" -> Switch(prog, n, n.pc)
            [] op = "LSWITCHd" -> LongSwitch(prog, n, n.pc)
            [] OTHER -> Trap(m)

Running(prog, m) == ~m.trap /\ m.pc \in DOMAIN prog.code

\* A machine about to enter the function at address f, memory given.
Machine(prog, f, mem, top) ==
  Push([ax |-> 0, bx |-> 0, cx |-> 0, dx |-> 0, sp |-> top, bp |-> 0, fl |-> <<>>, mem |-> mem,
        half |-> P("NOP_", 0), pc |-> prog.entry[f], trap |-> FALSE], 0)
=============================================================================
