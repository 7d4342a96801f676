---------------------------- MODULE MCSchedule ----------------------------
(* Schedule for TLC. *)
EXTENDS Schedule, TLC

CONSTANT MaxHits   \* bound on the kinds of windows an interrupt lands in

\* Which of the tasks still to be forked is which does not matter.
Symmetry == Permutations(Tasks \ {InitTask})

WithinHits == Cardinality(hit) <= MaxHits
=============================================================================
