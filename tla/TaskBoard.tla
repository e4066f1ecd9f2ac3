----------------------------- MODULE TaskBoard ------------------------------
(***************************************************************************)
(* The order of tasks on a board (tasks.service.ts): creating, editing,    *)
(* moving and deleting tasks, with integer positions that leave gaps and   *)
(* the rebalancing of a column whose gaps are used up.                     *)
(*                                                                         *)
(* Requests interleave at each `await`, as in WorkspaceMembers.  A handler *)
(* first reads its task (requireTask), then opens a transaction that reads *)
(* the neighbours and writes; at READ COMMITTED each of those reads sees   *)
(* what is committed when it starts, and all writes appear at the commit,  *)
(* the later of two committed writes to a row being the one that stays.    *)
(*                                                                         *)
(* Columns come with their board and are never added or removed.  Titles,  *)
(* descriptions, priorities and due dates do not influence the order; what *)
(* the handlers do after the commit (emit, cache keys, notifications)      *)
(* touches none of these tables.                                           *)
(***************************************************************************)
EXTENDS Integers, Sequences, FiniteSets

CONSTANTS Columns,   \* the columns of the board
          Reqs,      \* request slots: how many requests are in flight at once
          Gap,       \* the gap left between positions: 1000 in the code
          MaxTasks,  \* bound: tasks ever created
          MaxIndex,  \* bound: indexes that a move request names
          MaxPos     \* bound: positions in the column

ASSUME GapAssumption == Gap \in Nat /\ Gap >= 2
ASSUME IndexAssumption == MaxIndex \in Nat

VARIABLES tasks,     \* rows of Task
          nextTask,  \* the next fresh task id
          deleted,   \* tasks that have a task.deleted record in ActivityLog
          req        \* what each request slot is doing

vars == <<tasks, nextTask, deleted, req>>

-----------------------------------------------------------------------------
\* `logged` is history: the column named by the task's last task.created or
\* task.moved record in ActivityLog.
Task == [id: Nat, col: Columns, pos: Nat, logged: Columns]

\* dto.position left out.
NoIndex == -1
Index == 0..MaxIndex

\* dto.columnId: a column of the board, one of another board, or left out.
NoColumn == "none"
OtherColumn == "of another board"
BodyColumn == Columns \cup {NoColumn, OtherColumn}

\* 400 for any other.
assertColumnBelongsToBoard(c) == c \in Columns

\* The first column, whichever that is, for a body that names none.
resolveTargetColumn(c) == {col \in Columns : c \in {NoColumn, col}}

Half == Gap \div 2

TaskRow(id) == {t \in tasks : t.id = id}

InColumn(col) == {t \in tasks : t.col = col}

\* The tasks of a column that a moved task is placed among.
Others(col, id) == {t \in InColumn(col) : t.id # id}

\* The results of ORDER BY position: rows with equal positions come in any order.
Ordered(S) ==
  {s \in [1..Cardinality(S) -> S] :
     \A i, j \in 1..Cardinality(S) : i < j => s[i] # s[j] /\ s[i].pos <= s[j].pos}

(***************************************************************************)
(* Requests in flight, by the point of the handler they have reached.      *)
(* `order` lists the ids a rebalancing renumbers.                          *)
(***************************************************************************)
Idle == [at |-> "idle"]

Creating == [at: {"create.insert"}, col: Columns, pos: Nat]
Moving == [at: {"move.place"}, id: Nat, col: Columns, index: Index \cup {NoIndex}]
Rebalancing == [at: {"move.rebalance"}, id: Nat, col: Columns, index: Index]
Updating == [at: {"update.write"}, id: Nat, col: Columns, pos: Nat,
             moved: BOOLEAN, index: Index \cup {NoIndex}, order: Seq(Nat)]
Deleting == [at: {"delete.write"}, id: Nat]

Request == {Idle} \cup Creating \cup Moving \cup Rebalancing \cup Updating \cup Deleting

Goto(r, q) == req' = [req EXCEPT ![r] = q]

Init == /\ tasks = {}
        /\ nextTask = 0
        /\ deleted = {}
        /\ req = [r \in Reqs |-> Idle]

-----------------------------------------------------------------------------
\* A bug to catch: one position for every task appended to a column.
SameEnd(col) == {Gap}

\* nextPositionAtEnd, the only element: (max(position) ?? 0) + 1000.
EndPositions(col) ==
  IF InColumn(col) = {}
  THEN {Gap}
  ELSE {t.pos + Gap : t \in {u \in InColumn(col) :
                               \A v \in InColumn(col) : v.pos <= u.pos}}

\* POST /boards/:boardId/tasks: append to a column.
CreateStart(r, c) ==
  /\ req[r] = Idle
  /\ \E col \in resolveTargetColumn(c) : \E pos \in EndPositions(col) :
       Goto(r, [at |-> "create.insert", col |-> col, pos |-> pos])
  /\ UNCHANGED <<tasks, nextTask, deleted>>

CreateCommit(r) ==
  /\ req[r].at = "create.insert"
  /\ nextTask < MaxTasks
  /\ req[r].pos <= MaxPos
  /\ tasks' = tasks \cup {[id |-> nextTask, col |-> req[r].col, pos |-> req[r].pos,
                           logged |-> req[r].col]}
  /\ nextTask' = nextTask + 1
  /\ Goto(r, Idle)
  /\ UNCHANGED deleted

-----------------------------------------------------------------------------
(***************************************************************************)
(* PATCH /tasks/:taskId.  An edit that is not a move writes back the       *)
(* column and the position of the row read before the transaction.         *)
(***************************************************************************)
EditStart(r, t) ==
  /\ req[r] = Idle
  /\ Goto(r, [at |-> "update.write", id |-> t.id, col |-> t.col, pos |-> t.pos,
              moved |-> FALSE, index |-> NoIndex, order |-> <<>>])
  /\ UNCHANGED <<tasks, nextTask, deleted>>

TargetColumn(t, c) == IF c = NoColumn THEN t.col ELSE c

\* A body with another column or with a position is a move.
MoveStart(r, t, c, index) ==
  /\ req[r] = Idle
  /\ assertColumnBelongsToBoard(TargetColumn(t, c))
  /\ TargetColumn(t, c) # t.col \/ index # NoIndex
  /\ Goto(r, [at |-> "move.place", id |-> t.id, col |-> TargetColumn(t, c),
              index |-> index])
  /\ UNCHANGED <<tasks, nextTask, deleted>>

PlacedWrite(q, pos, order) ==
  [at |-> "update.write", id |-> q.id, col |-> q.col, pos |-> pos,
   moved |-> TRUE, index |-> q.index, order |-> order]

\* positionForIndex with no index.
PlaceAtEnd(r) ==
  /\ req[r].at = "move.place"
  /\ req[r].index = NoIndex
  /\ \E pos \in EndPositions(req[r].col) : Goto(r, PlacedWrite(req[r], pos, <<>>))
  /\ UNCHANGED <<tasks, nextTask, deleted>>

\* A bug to catch: positions one apart taken for room.
RoomInAnyGap(s, index) ==
  \/ s = <<>>
  \/ index = 0 /\ s[1].pos > Gap
  \/ index > 0 /\ index < Len(s) /\ s[index + 1].pos > s[index].pos
  \/ index > 0 /\ index >= Len(s)

\* A bug to catch: a first position of 1000 taken for room to go below it.
RoomDownToZero(s, index) ==
  \/ s = <<>>
  \/ index = 0 /\ s[1].pos >= Gap
  \/ index > 0 /\ index < Len(s) /\ s[index + 1].pos - s[index].pos > 1
  \/ index > 0 /\ index >= Len(s)

\* Is there room at this index, counted from 0, among the tasks s of a column?
HasRoom(s, index) ==
  \/ s = <<>>
  \/ index = 0 /\ s[1].pos > Gap
  \/ index > 0 /\ index < Len(s) /\ s[index + 1].pos - s[index].pos > 1
  \/ index > 0 /\ index >= Len(s)

PositionAt(s, index) ==
  CASE s = <<>> -> Gap
    [] s # <<>> /\ index = 0 -> s[1].pos - Gap
    [] s # <<>> /\ index > 0 /\ index < Len(s) -> (s[index].pos + s[index + 1].pos) \div 2
    [] s # <<>> /\ index > 0 /\ index >= Len(s) -> s[Len(s)].pos + Gap

\* positionForIndex with an index, up to the rebalancing if it takes one.
PlaceAmong(r, s) ==
  /\ req[r].at = "move.place"
  /\ req[r].index # NoIndex
  /\ Goto(r, IF HasRoom(s, req[r].index)
             THEN PlacedWrite(req[r], PositionAt(s, req[r].index), <<>>)
             ELSE [req[r] EXCEPT !.at = "move.rebalance"])
  /\ UNCHANGED <<tasks, nextTask, deleted>>

\* rebalanceColumn reads the column again, to renumber it 1000, 2000, ...
Rebalance(r, s) ==
  /\ req[r].at = "move.rebalance"
  /\ Goto(r, PlacedWrite(req[r], req[r].index * Gap + Half, [i \in DOMAIN s |-> s[i].id]))
  /\ UNCHANGED <<tasks, nextTask, deleted>>

\* Each update finds its row by id alone.
TargetRow(q) == TaskRow(q.id)

\* One that is gone aborts the transaction (P2025).
AllThere(q) ==
  /\ TargetRow(q) # {}
  /\ \A i \in DOMAIN q.order : TaskRow(q.order[i]) # {}

\* A bug to catch: moves recorded with the column they came from.
UpdatedUnlogged(q) ==
  {[t EXCEPT !.col = q.col, !.pos = q.pos] : t \in TargetRow(q)}

Updated(q) ==
  {[t EXCEPT !.col = q.col, !.pos = q.pos, !.logged = IF q.moved THEN q.col ELSE @] :
     t \in TargetRow(q)}

Renumbered(order) ==
  UNION {{[t EXCEPT !.pos = i * Gap] : t \in TaskRow(order[i])} : i \in DOMAIN order}

Untouched(q) ==
  {t \in tasks : t.id # q.id /\ \A i \in DOMAIN q.order : q.order[i] # t.id}

UpdateCommit(r) ==
  /\ req[r].at = "update.write"
  /\ AllThere(req[r])
  /\ req[r].pos <= MaxPos
  /\ tasks' = Untouched(req[r]) \cup Renumbered(req[r].order) \cup Updated(req[r])
  /\ Goto(r, Idle)
  /\ UNCHANGED <<nextTask, deleted>>

-----------------------------------------------------------------------------
\* DELETE /tasks/:taskId
DeleteStart(r, t) ==
  /\ req[r] = Idle
  /\ Goto(r, [at |-> "delete.write", id |-> t.id])
  /\ UNCHANGED <<tasks, nextTask, deleted>>

DeleteCommit(r) ==
  /\ req[r].at = "delete.write"
  /\ TaskRow(req[r].id) # {}
  /\ tasks' = tasks \ TaskRow(req[r].id)
  /\ deleted' = deleted \cup {req[r].id}
  /\ Goto(r, Idle)
  /\ UNCHANGED nextTask

\* A request ends without writing: a check fails, its transaction aborts (P2025,
\* a deadlock of row locks, a lost connection), or the process dies.
Abandon(r) ==
  /\ req[r] # Idle
  /\ Goto(r, Idle)
  /\ UNCHANGED <<tasks, nextTask, deleted>>

UpdateStep(r) ==
  \/ \E t \in tasks : EditStart(r, t)
  \/ \E t \in tasks, c \in BodyColumn, index \in Index \cup {NoIndex} :
       MoveStart(r, t, c, index)
  \/ PlaceAtEnd(r)
  \/ /\ req[r].at = "move.place"
     /\ \E s \in Ordered(Others(req[r].col, req[r].id)) : PlaceAmong(r, s)
  \/ /\ req[r].at = "move.rebalance"
     /\ \E s \in Ordered(Others(req[r].col, req[r].id)) : Rebalance(r, s)
  \/ UpdateCommit(r)

Next ==
  \E r \in Reqs :
    \/ \E c \in BodyColumn : CreateStart(r, c)
    \/ CreateCommit(r)
    \/ UpdateStep(r)
    \/ \E t \in tasks : DeleteStart(r, t)
    \/ DeleteCommit(r)
    \/ Abandon(r)

Spec == Init /\ [][Next]_vars

-----------------------------------------------------------------------------
(***************************************************************************)
(* Properties                                                              *)
(***************************************************************************)

\* Rows and requests of their types.
TypeOK ==
  /\ tasks \subseteq Task
  /\ nextTask \in Nat
  /\ deleted \subseteq Nat
  /\ req \in [Reqs -> Request]

\* "rebalance if it would go <= 0": no position is ever zero or negative, however
\* many moves compute theirs from the same neighbours or from a column that is
\* being renumbered.
PositionsPositive ==
  /\ \A t \in tasks : t.pos > 0
  /\ \A r \in Reqs : req[r].at \in {"create.insert", "update.write"} => req[r].pos > 0

\* A deleted task stays deleted: no update in flight brings its row back.
DeletedStayDeleted == \A t \in tasks : t.id \notin deleted

\* "concurrent moves can't interleave into an inconsistent order": two tasks of a
\* column never share a position, so every reader sees the same order.
PositionsDistinct ==
  \A t, u \in tasks : t.col = u.col /\ t.pos = u.pos => t = u

\* "an activity row never exists without its change (and vice versa)": the last
\* creation or move on record says where the task is.
LogAgreesWithBoard == \A t \in tasks : t.logged = t.col

Before(S, t) == Cardinality({u \in S : u.col = t.col /\ u.id # t.id /\ u.pos < t.pos})

Lower(m, n) == IF m < n THEN m ELSE n

\* A move puts the task at the index it asked for, or last when the column is
\* shorter, whether or not the column had to be rebalanced.
Landed ==
  \A r \in Reqs :
    UpdateCommit(r) /\ req[r].index # NoIndex =>
      \A t \in tasks' :
        t.id = req[r].id =>
          /\ t.col = req[r].col
          /\ Before(tasks', t) =
               Lower(req[r].index, Cardinality(Others(t.col, t.id)))

\* No request changes the order of two tasks that it does not move.
Kept ==
  \A t, u \in tasks, v, w \in tasks' :
    /\ t.id = v.id /\ u.id = w.id
    /\ t.col = u.col /\ v.col = t.col /\ w.col = u.col
    /\ \A r \in Reqs : req[r].at = "update.write" => req[r].id \notin {t.id, u.id}
    /\ t.pos < u.pos
    => v.pos < w.pos

\* Ids of rows on file and of rows deleted have all been issued.
IdsAreFresh ==
  /\ \A t \in tasks : t.id < nextTask
  /\ \A id \in deleted : id < nextTask

\* The inductive invariant.  The tasks being finite, Ordered yields sequences.
IInv ==
  /\ TypeOK
  /\ IsFiniteSet(tasks)
  /\ IdsAreFresh
  /\ PositionsPositive
  /\ DeletedStayDeleted
=============================================================================
