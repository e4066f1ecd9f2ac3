---------------------------- MODULE MCAssignments ----------------------------
(* Assignments on a small instance. *)
EXTENDS Assignments, TLC

CONSTANTS u1, u2, r1, r2

Symmetry == Permutations({u1, u2}) \cup Permutations({r1, r2})
=============================================================================
