----------------------------- MODULE MCKBSync -----------------------------
(* KBSync on small instances; the values are those of each .cfg. *)
EXTENDS KBSync, TLC

Symmetry == Permutations(Refreshers)
===========================================================================
