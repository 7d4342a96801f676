------------------------------ MODULE MCMemory ------------------------------
(* Memory for TLC. *)
EXTENDS Memory, TLC

Symmetry == Permutations(Callers)

Boot == [c \in Caches |-> IF c = "small" THEN 1 ELSE 2]
=============================================================================
