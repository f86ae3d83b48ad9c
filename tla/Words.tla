------------------------------- MODULE Words --------------------------------
(***************************************************************************)
(* Bytes, words and longs: a byte has ByteSize values (256 in the program, *)
(* fewer in a bounded instance), a word is two bytes, a long two words.    *)
(* All are kept as the natural numbers of their bits.  The number of bits  *)
(* is a power of two, so that a mask can take a count modulo it.           *)
(***************************************************************************)
EXTENDS Integers, Sequences

CONSTANT ByteSize

ASSUME ByteSizeAssumption == ByteSize \in {2^k : k \in {2, 4, 8}}

Word == ByteSize * ByteSize
Long == Word * Word
WordBits == CHOOSE k \in 1..16 : Word = 2^k
LongBits == 2 * WordBits

lo(x) == x % Word
hi(x) == x \div Word
Signed(x, modulus) == IF x >= modulus \div 2 THEN x - modulus ELSE x
W(x) == x % Word
S(x) == Signed(W(x), Word)
Truth(b) == IF b THEN 1 ELSE 0

\* Division and shifts as the processor does them: towards zero, and by a
\* count that may exceed the word.
Quot(a, b) == IF b > 0 THEN (IF a >= 0 THEN a \div b ELSE -((-a) \div b))
              ELSE (IF a >= 0 THEN -(a \div (-b)) ELSE (-a) \div (-b))
Power(n) == IF n >= WordBits THEN 0 ELSE 2^n
Shl(x, n) == W(x * Power(n))
Shr(x, n) == IF Power(n) = 0 THEN 0 ELSE x \div Power(n)
Sar(x, n) == W(IF Power(n) = 0 THEN (IF S(x) < 0 THEN -1 ELSE 0) ELSE S(x) \div Power(n))
=============================================================================
