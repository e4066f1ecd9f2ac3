------------------------- MODULE MCWorkspaceMembers -------------------------
(***************************************************************************)
(* WorkspaceMembers on small instances: two requests that overlap in one   *)
(* workspace, or two workspaces and a longer history of requests that do   *)
(* not overlap.                                                            *)
(***************************************************************************)
EXTENDS WorkspaceMembersAlone, TLC

CONSTANTS acme, beta, u1, u2, u3, r1, r2,
          MaxOverlapped  \* bound: membership rows, once requests have overlapped

Symmetry == Permutations({acme, beta}) \cup Permutations({u1, u2, u3})
              \cup Permutations({r1, r2})

Overlapped == /\ Cardinality(workspaces) <= 1
              /\ nextMember <= MaxOverlapped

MCNext == AloneNext /\ (~alone' => Overlapped')

MCSpec == AloneInit /\ [][MCNext]_<<vars, alone>>
=============================================================================
