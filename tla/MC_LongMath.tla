----------------------------- MODULE MC_LongMath -----------------------------
(***************************************************************************)
(* Bytes of two bits, so there are 256 longs: all of them, by all of them. *)
(***************************************************************************)
EXTENDS LongRoutines

AllLongs == 0..(Long - 1)
=============================================================================
