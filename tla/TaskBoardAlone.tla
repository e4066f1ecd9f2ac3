--------------------------- MODULE TaskBoardAlone ---------------------------
(***************************************************************************)
(* TaskBoard with a history variable: what its documents promise of the    *)
(* order of tasks and of the activity log holds for requests that come one *)
(* at a time.                                                              *)
(***************************************************************************)
EXTENDS TaskBoard

VARIABLE alone  \* history: no two requests have been in flight together so far

Busy == {r \in Reqs : req[r] # Idle}

OneAtATime == \A r, s \in Busy : r = s

AloneInit == Init /\ alone = TRUE

AloneNext == Next /\ alone' = (alone /\ OneAtATime')

AloneSpec == AloneInit /\ [][AloneNext]_<<vars, alone>>

-----------------------------------------------------------------------------
\* "concurrent moves can't interleave into an inconsistent order" (the design of
\* milestone 3), for requests that come one at a time: no two tasks of a column
\* share a position, so every reader sees the same order.
PositionsDistinctAlone == alone => PositionsDistinct

\* "an activity row never exists without its change (and vice versa)", for
\* requests that come one at a time: the last record says where the task is.
LogAgreesWithBoardAlone == alone => LogAgreesWithBoard

\* A move lands at the index it asked for, also when it takes a rebalancing to make
\* room, and the tasks that it does not move keep their order, even when it renumbers
\* them, for requests that come one at a time.
MovesLandAlone == [][alone' => Landed /\ Kept]_<<vars, alone>>

-----------------------------------------------------------------------------
(***************************************************************************)
(* The inductive invariant: what the request in flight has computed still  *)
(* agrees with the rows it was computed from.                              *)
(***************************************************************************)
IdsAreUnique == \A t, u \in tasks : t.id = u.id => t = u

\* No other task of the column is where q will write, and those below are as many
\* as its index says.
PlaceIsFree(q) ==
  /\ \A t \in Others(q.col, q.id) : t.pos # q.pos
  /\ q.index # NoIndex =>
       Cardinality({t \in Others(q.col, q.id) : t.pos < q.pos}) =
         Lower(q.index, Cardinality(Others(q.col, q.id)))

\* A rebalancing lists all other tasks of the column, once each and in their order.
ListsTheOthers(q) ==
  /\ \A i, j \in DOMAIN q.order : q.order[i] = q.order[j] => i = j
  /\ \A i \in DOMAIN q.order : \E t \in Others(q.col, q.id) : t.id = q.order[i]
  /\ \A t \in Others(q.col, q.id) : \E i \in DOMAIN q.order : t.id = q.order[i]
  /\ \A i, j \in DOMAIN q.order, t, u \in Others(q.col, q.id) :
       t.id = q.order[i] /\ u.id = q.order[j] /\ t.pos < u.pos => i < j

Rebalances(q) == q.order # <<>>

Fresh(q) ==
  /\ q.at = "create.insert" => \A t \in InColumn(q.col) : t.pos # q.pos
  /\ q.at = "update.write" /\ ~q.moved =>
       /\ q.index = NoIndex /\ ~Rebalances(q)
       /\ \E t \in TargetRow(q) : t.col = q.col /\ t.pos = q.pos
  /\ q.at = "update.write" /\ q.moved /\ ~Rebalances(q) => PlaceIsFree(q)
  /\ q.at = "update.write" /\ q.moved /\ Rebalances(q) =>
       /\ q.index \in Index /\ q.pos = q.index * Gap + Half
       /\ ListsTheOthers(q)

InOrder == /\ OneAtATime
           /\ IdsAreUnique
           /\ PositionsDistinct
           /\ LogAgreesWithBoard
           /\ \A r \in Reqs : Fresh(req[r])

AloneInv == IInv /\ (alone => InOrder)
=============================================================================
