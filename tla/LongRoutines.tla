---------------------------- MODULE LongRoutines ----------------------------
(***************************************************************************)
(* The routines of LONGMATH.ASM one call after the other, on all operands  *)
(* of a small machine, against the arithmetic they stand for.              *)
(***************************************************************************)
EXTENDS LongMath

CONSTANTS Lefts, Rights  \* the operands: longs, as numbers below Long

ASSUME OperandsAssumption == Lefts \subseteq 0..(Long - 1) /\ Rights \subseteq 0..(Long - 1)

VARIABLES
  a, b,        \* the operands, left and right
  called,      \* the routine called last
  result       \* what it left in DX:AX

vars == <<a, b, called, result>>

\* The labels, without their underscores; udiv3216 gives two results.
Routines == {"lmul", "ldiv", "uldiv", "lmod", "ulmod", "lshl", "lsar", "lshr", "leq", "lne", "llt", "lle", "lgt", "lge",
             "ullt", "ulle", "ulgt", "ulge", "llneg", "udiv3216"}
Ran(routine) ==
  CASE routine = "lmul" -> lmul(a, b)
    [] routine = "ldiv" -> ldiv(a, b)
    [] routine = "uldiv" -> uldiv(a, b)
    [] routine = "lmod" -> lmod(a, b)
    [] routine = "ulmod" -> ulmod(a, b)
    [] routine = "lshl" -> lshl(a, b)
    [] routine = "lsar" -> lsar(a, b)
    [] routine = "lshr" -> lshr(a, b)
    [] routine = "leq" -> leq(a, b)
    [] routine = "lne" -> lne(a, b)
    [] routine = "llt" -> llt(a, b)
    [] routine = "lle" -> lle(a, b)
    [] routine = "lgt" -> lgt(a, b)
    [] routine = "lge" -> lge(a, b)
    [] routine = "ullt" -> ullt(a, b)
    [] routine = "ulle" -> ulle(a, b)
    [] routine = "ulgt" -> ulgt(a, b)
    [] routine = "ulge" -> ulge(a, b)
    [] routine = "llneg" -> llneg(a)
    [] OTHER -> udiv3216(a, lo(b)).quot

\* Nothing divides by zero; every other operand is one a program may have.
Divides == {"ldiv", "uldiv", "lmod", "ulmod"}
Callable(routine) ==
  /\ routine \in Divides => b /= 0
  /\ routine = "udiv3216" => lo(b) /= 0

Init ==
  /\ a \in Lefts
  /\ b \in Rights
  /\ called = "none"
  /\ result = 0

Call(routine) ==
  /\ Callable(routine)
  /\ called' = routine
  /\ result' = Ran(routine)
  /\ UNCHANGED <<a, b>>
Next == called = "none" /\ \E routine \in Routines : Call(routine)
Spec == Init /\ [][Next]_vars

-----------------------------------------------------------------------------
\* What C says of the operators, of numbers of either sign.
Left == Signed(a, Long)
Right == Signed(b, Long)
Times(x, n) == x * 2^n
Meant ==
  CASE called = "lmul" -> (Left * Right) % Long
    [] called = "ldiv" -> Quot(Left, Right) % Long
    [] called = "uldiv" -> a \div b
    [] called = "lmod" -> (Left - Right * Quot(Left, Right)) % Long
    [] called = "ulmod" -> a % b
    [] called = "lshl" -> Times(a, b % LongBits) % Long
    [] called = "lsar" -> (Left \div Times(1, b % LongBits)) % Long
    [] called = "lshr" -> a \div Times(1, b % LongBits)
    [] called = "leq" -> Truth(a = b)
    [] called = "lne" -> Truth(a /= b)
    [] called = "llt" -> Truth(Left < Right)
    [] called = "lle" -> Truth(Left <= Right)
    [] called = "lgt" -> Truth(Left > Right)
    [] called = "lge" -> Truth(Left >= Right)
    [] called = "ullt" -> Truth(a < b)
    [] called = "ulle" -> Truth(a <= b)
    [] called = "ulgt" -> Truth(a > b)
    [] called = "ulge" -> Truth(a >= b)
    [] called = "llneg" -> Truth(a = 0)
    [] OTHER -> a \div lo(b)

\* Every routine computes its operator, for all operands up to the largest and
\* the smallest of them, though it works in words and loses what it carries out
\* of the pair.  So RCL DX of a division loses nothing that counts (LONGMATH.ASM
\* 130), for no divisor: the remainder that is doubled is never more than what
\* is shifted in of the dividend before it, and that is 31 bits at most.
Computes == called /= "none" => result = Meant
=============================================================================
