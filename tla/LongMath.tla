------------------------------ MODULE LongMath ------------------------------
(***************************************************************************)
(* The 32-bit arithmetic of LONGMATH.ASM.  A long is the pair of registers *)
(* DX:AX (the primary, an operator's right operand) or CX:BX (the          *)
(* secondary), read here as one number below Long = Word * Word.  What the *)
(* instructions carry out of the pair is lost.                             *)
(***************************************************************************)
EXTENDS Words

Negative(x) == hi(x) >= Word \div 2        \* TEST DX,DX / JNS
Negated(x) == (Long - x) % Long                \* NEG DX, NEG AX, SBB DX,0

\* lmul, ulmul: the low words of the three products that reach them.
lmul(a, b) ==
  LET cx == (lo(hi(a) * lo(b)) + lo(lo(a) * hi(b))) % Word
      low == lo(a) * lo(b)
  IN ((hi(low) + cx) % Word) * Word + lo(low)

\* A round of the four divisions: the remainder takes the top bit of the
\* dividend, and the divisor is taken off it when it goes in.
DivRound(p, divisor) ==
  LET shifted == (2 * p.quot) % Long
      taken == (2 * p.rem + p.quot \div (Long \div 2)) % Long
  IN IF taken >= divisor THEN [quot |-> shifted + 1, rem |-> taken - divisor]
     ELSE [quot |-> shifted, rem |-> taken]

DivLoop(dividend, divisor) ==
  LET after[n \in 0..LongBits] ==
        IF n = 0 THEN [quot |-> dividend, rem |-> 0] ELSE DivRound(after[n - 1], divisor)
  IN after[LongBits]

Abs(x) == IF Negative(x) THEN Negated(x) ELSE x
uldiv(a, b) == DivLoop(a, b).quot
ulmod(a, b) == DivLoop(a, b).rem
\* Mutant: the sign of the dividend decides, as for lmod.
ldivOneSign(a, b) ==
  LET q == DivLoop(Abs(a), Abs(b)).quot
  IN IF Negative(a) THEN Negated(q) ELSE q
ldiv(a, b) ==
  LET q == DivLoop(Abs(a), Abs(b)).quot
  IN IF Negative(a) /= Negative(b) THEN Negated(q) ELSE q
lmod(a, b) ==
  LET r == DivLoop(Abs(a), Abs(b)).rem
  IN IF Negative(a) THEN Negated(r) ELSE r

\* The shifts: the value is the secondary, the count the low word of the
\* primary; one bit at a time.
Count(c) == lo(c) % LongBits
SHL(x) == (2 * x) % Long
SHR(x) == x \div 2
SAR(x) == x \div 2 + (IF Negative(x) THEN Long \div 2 ELSE 0)
lshl(x, c) == LET by[n \in 0..LongBits] == IF n = 0 THEN x ELSE SHL(by[n - 1]) IN by[Count(c)]
lshr(x, c) == LET by[n \in 0..LongBits] == IF n = 0 THEN x ELSE SHR(by[n - 1]) IN by[Count(c)]
lsar(x, c) == LET by[n \in 0..LongBits] == IF n = 0 THEN x ELSE SAR(by[n - 1]) IN by[Count(c)]

\* The comparisons, BX:CX with the secondary as the left operand: high words
\* first, signed or not, low words unsigned.
Above(a, b, signed) ==
  LET ha == IF signed THEN Signed(hi(a), Word) ELSE hi(a)
      hb == IF signed THEN Signed(hi(b), Word) ELSE hi(b)
  IN ha > hb \/ (ha = hb /\ lo(a) > lo(b))
leq(a, b) == Truth(hi(a) = hi(b) /\ lo(a) = lo(b))
lne(a, b) == Truth(hi(a) /= hi(b) \/ lo(a) /= lo(b))
llt(a, b) == Truth(Above(b, a, TRUE))
lle(a, b) == Truth(~Above(a, b, TRUE))
lgt(a, b) == Truth(Above(a, b, TRUE))
lge(a, b) == Truth(~Above(b, a, TRUE))
ullt(a, b) == Truth(Above(b, a, FALSE))
ulle(a, b) == Truth(~Above(a, b, FALSE))
ulgt(a, b) == Truth(Above(a, b, FALSE))
ulge(a, b) == Truth(~Above(b, a, FALSE))
llneg(a) == Truth(lo(a) = 0 /\ hi(a) = 0)

\* _udiv3216: a long by a word, as two divisions of a word pair by a word.
udiv3216(x, divisor) ==
  LET mid == (hi(x) % divisor) * Word + lo(x)
  IN [quot |-> (hi(x) \div divisor) * Word + mid \div divisor, rem |-> mid % divisor]
=============================================================================
