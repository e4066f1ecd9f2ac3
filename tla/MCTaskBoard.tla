---------------------------- MODULE MCTaskBoard -----------------------------
(***************************************************************************)
(* TaskBoard on small instances: two requests that overlap on two tasks,   *)
(* or a longer history of requests that do not overlap on three.           *)
(***************************************************************************)
EXTENDS TaskBoardAlone, TLC

CONSTANTS c1, c2, r1, r2,
          MaxOverlapped,  \* bound: tasks, once requests have overlapped
          MaxHeight       \* bound: positions, once requests have overlapped

Symmetry == Permutations({c1, c2}) \cup Permutations({r1, r2})

Overlapped == /\ nextTask <= MaxOverlapped
              /\ \A t \in tasks : t.pos <= MaxHeight

MCNext == AloneNext /\ (~alone' => Overlapped')

MCSpec == AloneInit /\ [][MCNext]_<<vars, alone>>
=============================================================================
