-------------------------- MODULE MCWorkspaceCache --------------------------
(* WorkspaceCache on a small instance. *)
EXTENDS WorkspaceCache

CONSTANTS r1, r2
=============================================================================
