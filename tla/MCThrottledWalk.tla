--------------------------- MODULE MCThrottledWalk ---------------------------
(* ThrottledWalk on a small instance. *)
EXTENDS ThrottledWalk

CONSTANT other

\* Creation times with a tie; due dates matter to lists sorted by them.
MCInit ==
  /\ Init
  /\ createdAt = [t \in Ids |-> IF t = 3 THEN 1 ELSE 0]
  /\ \/ P!ByDueDate /\ rows = Ids
     \/ /\ ~P!ByDueDate /\ dueAt = [t \in Ids |-> Null]
        /\ \E S \in SUBSET {t \in Ids : t <= 2} : rows = Ids \ S

\* Either the rows change during the walk, or others ask and requests fail.
MCNext == Next /\ (changes' = 0 \/ (others' = 0 /\ faults' = 0))

MCSpec == MCInit /\ [][MCNext]_vars /\ Fairness
=============================================================================
