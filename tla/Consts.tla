------------------------------- MODULE Consts -------------------------------
(***************************************************************************)
(* Types, and the arithmetic the compiler does itself: the constants of    *)
(* the source text and the folding of constant expressions (cc3.c).        *)
(***************************************************************************)
EXTENDS Words, Bitwise, TLC

\* TYPE_ constants: the size in their upper bits, and IS_UNSIGNED.
None == "none"
SizeOf == [t \in {None, "void"} |-> 0] @@ [t \in {"char", "uchar"} |-> 1] @@
          [t \in {"int", "uint", "struct"} |-> 2] @@ [t \in {"long", "ulong"} |-> 4]
IsUnsignedType(t) == t \in {"uchar", "uint", "ulong"}

\* number(): the type of a constant without a sign in front, by its value
\* and suffixes.  A token is [n, decimal, u, l].
fits16s(n) == n < Word \div 2 \/ n >= Long - Word \div 2
fits16u(n) == n < Word
NumberType(t) ==
  CASE t.u /\ t.l -> "ulong"
    [] t.l /\ ~t.u -> IF t.n >= Long \div 2 THEN "ulong" ELSE "long"
    [] t.u /\ ~t.l -> IF fits16u(t.n) THEN "uint" ELSE "ulong"
    [] OTHER -> CASE fits16s(t.n) -> "int"
                  [] ~fits16s(t.n) /\ ~t.decimal /\ fits16u(t.n) -> "uint"
                  [] OTHER -> IF t.n < Long \div 2 THEN "long" ELSE "ulong"
negate32(n) == (Long - n) % Long

\* chrcon(): the characters of 'abc', the last one in the low byte.
RECURSIVE CharValue(_, _)
CharValue(chars, n) ==
  IF chars = <<>> THEN n ELSE CharValue(Tail(chars), (n * ByteSize + Head(chars)) % Long)

-----------------------------------------------------------------------------
\* calcConst(): a constant of two words.  Division by zero is what the
\* compiler's own processor traps.
calcConst(l, oper, r) ==
  LET a == S(l)
      b == S(r)
  IN CASE oper = "ADD12" -> W(a + b)
       [] oper = "SUB12" -> W(a - b)
       [] oper \in {"MUL12", "MUL12u"} -> W(l * r)
       [] oper = "DIV12" -> IF b = 0 THEN 0 ELSE W(Quot(a, b))
       [] oper = "MOD12" -> IF b = 0 THEN 0 ELSE W(a - b * Quot(a, b))
       [] oper = "DIV12u" -> IF r = 0 THEN 0 ELSE l \div r
       [] oper = "MOD12u" -> IF r = 0 THEN 0 ELSE l % r
       [] oper = "EQ12" -> Truth(a = b)
       [] oper = "NE12" -> Truth(a /= b)
       [] oper = "LE12" -> Truth(a <= b)
       [] oper = "GE12" -> Truth(a >= b)
       [] oper = "LT12" -> Truth(a < b)
       [] oper = "GT12" -> Truth(a > b)
       [] oper = "LE12u" -> Truth(l <= r)
       [] oper = "GE12u" -> Truth(l >= r)
       [] oper = "LT12u" -> Truth(l < r)
       [] oper = "GT12u" -> Truth(l > r)
       [] oper = "AND12" -> l & r
       [] oper = "OR12" -> l | r
       [] oper = "XOR12" -> l ^^ r
       [] oper = "ASR12" -> Sar(l, r % ByteSize)
       [] oper = "LSR12" -> Shr(l, r % ByteSize)
       [] oper = "ASL12" -> Shl(l, r % ByteSize)
       [] OTHER -> 0

\* shift32r() and the loop of ASL12: one bit at a time, as often as the low
\* bits of the count say.
Shifted32(x, count, One(_)) ==
  LET by[n \in 0..(LongBits - 1)] == IF n = 0 THEN x ELSE One(by[n - 1])
  IN by[count % LongBits]
Half(x) == x \div 2
HalfSigned(x) == x \div 2 + (IF x >= Long \div 2 THEN Long \div 2 ELSE 0)
Twice(x) == (2 * x) % Long

\* calcConst32(): a constant of two longs.  It does not divide: what is not
\* listed is the left operand.
calcConst32(l, oper, r) ==
  LET a == Signed(l, Long)
      b == Signed(r, Long)
      Wise(x, y) == y * Word + x
  IN CASE oper = "ADD12" -> (l + r) % Long
       [] oper = "SUB12" -> (l - r) % Long
       [] oper = "AND12" -> Wise(lo(l) & lo(r), hi(l) & hi(r))
       [] oper = "OR12" -> Wise(lo(l) | lo(r), hi(l) | hi(r))
       [] oper = "XOR12" -> Wise(lo(l) ^^ lo(r), hi(l) ^^ hi(r))
       [] oper \in {"MUL12", "MUL12u"} ->
            (lo(l) * lo(r) + ((hi(l) * lo(r) + lo(l) * hi(r)) % Word) * Word) % Long
       [] oper = "ASL12" -> Shifted32(l, lo(r), Twice)
       [] oper = "ASR12" -> Shifted32(l, lo(r), HalfSigned)
       [] oper = "LSR12" -> Shifted32(l, lo(r), Half)
       [] oper = "EQ12" -> Truth(l = r)
       [] oper = "NE12" -> Truth(l /= r)
       [] oper = "LT12" -> Truth(a < b)
       [] oper = "LE12" -> Truth(a <= b)
       [] oper = "GT12" -> Truth(a > b)
       [] oper = "GE12" -> Truth(a >= b)
       [] OTHER -> l
calcUConst32(l, oper, r) ==
  CASE oper \in {"LT12", "LT12u"} -> Truth(l < r)
    [] oper \in {"LE12", "LE12u"} -> Truth(l <= r)
    [] oper \in {"GT12", "GT12u"} -> Truth(l > r)
    [] oper \in {"GE12", "GE12u"} -> Truth(l >= r)
    [] oper \in {"DIV12u", "MOD12u"} -> l
    [] OTHER -> calcConst32(l, oper, r)
=============================================================================
