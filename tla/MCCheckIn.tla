----------------------------- MODULE MCCheckIn -----------------------------
(* Model values of the CheckIn runs. *)
EXTENDS CheckIn, TLC

Symmetry == Permutations(Scanners) \cup Permutations(Operators)
=============================================================================
