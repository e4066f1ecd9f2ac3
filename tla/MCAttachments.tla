---------------------------- MODULE MCAttachments ----------------------------
(* Attachments on a small instance. *)
EXTENDS Attachments, TLC

CONSTANTS r1, r2, r3, k1, k2, k3, k4

Symmetry == Permutations({r1, r2, r3}) \cup Permutations({k1, k2, k3, k4})
=============================================================================
