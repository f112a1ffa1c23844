----------------------------- MODULE MCScanJobs -----------------------------
(* Instances of ScanJobs. *)
EXTENDS ScanJobs, TLC

CONSTANTS c1, c2, k1, k2

\* Two columns of their own; two columns of one table name in two schemas.
Apart == c1 :> k1 @@ c2 :> k2
Shared == c1 :> k1 @@ c2 :> k1

\* Two scans of a source differ in nothing but when they run.
Alike == Permutations(Jobs)
=============================================================================
