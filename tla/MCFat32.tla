------------------------------ MODULE MCFat32 ------------------------------
(* Fat32 for TLC. *)
EXTENDS Fat32, TLC

\* Which task and which file is which does not matter.
Symmetry == Permutations(Users) \cup Permutations(Files)
=============================================================================
