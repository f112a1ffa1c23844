--------------------------- MODULE MCTokenStore ---------------------------
(* TokenStore on small instances; the values are those of each .cfg. *)
EXTENDS TokenStore, TLC

\* Tasks, values and labels are interchangeable (never used with liveness).
Symmetry == Permutations(Tasks) \cup Permutations(Values) \cup Permutations(Labels)
===========================================================================
