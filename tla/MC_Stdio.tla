------------------------------ MODULE MC_Stdio ------------------------------
(* Offsets for TLC: one step back, in place, one step on.                  *)
EXTENDS Stdio
Deltas == {-1, 0, 1}
=============================================================================
