---------------------------- MODULE MCJobManager ----------------------------
(* Instances of JobManager for TLC. *)
EXTENDS JobManager, TLC

Symmetry == Permutations(Jobs) \cup Permutations(Cancellers)
=============================================================================
