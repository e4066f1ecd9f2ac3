--------------------------- MODULE TaskBoardProofs ---------------------------
(***************************************************************************)
(* Proofs about TaskBoard for every set of columns and request slots, any  *)
(* gap of 2 or more and any number of tasks: IInv is inductive, and the    *)
(* properties that survive concurrent requests follow from it.             *)
(***************************************************************************)
EXTENDS TaskBoardAlone, FiniteSetTheorems, TLAPS

\* What ORDER BY returns: a sequence of the rows, each of them there.
LEMMA OrderedIsSeq ==
  ASSUME IInv, NEW col \in Columns, NEW id, NEW s \in Ordered(Others(col, id))
  PROVE  s \in Seq(Task) /\ \A i \in 1..Len(s) : s[i] \in tasks
<1> DEFINE S == Others(col, id)
<1>1. S \subseteq tasks /\ S \subseteq Task
  BY DEF IInv, TypeOK, Others, InColumn
<1>2. Cardinality(S) \in Nat
  BY <1>1, FS_Subset, FS_CardinalityType DEF IInv
<1>3. s \in [1..Cardinality(S) -> S]
  BY DEF Ordered
<1> HIDE DEF S
<1> QED
  BY <1>1, <1>2, <1>3

\* nextPositionAtEnd is positive.
LEMMA EndPositionsPositive ==
  ASSUME IInv, NEW col, NEW pos \in EndPositions(col)
  PROVE  pos \in Nat /\ pos > 0
BY GapAssumption DEF IInv, TypeOK, PositionsPositive, EndPositions, InColumn, Task

\* positionForIndex, where there is room: below 1000, above the last or strictly
\* between two positions, and positive if those of the column are.
LEMMA PositionAtPositive ==
  ASSUME NEW s \in Seq(Task), NEW index \in Nat, HasRoom(s, index),
         \A i \in 1..Len(s) : s[i].pos > 0
  PROVE  PositionAt(s, index) \in Nat /\ PositionAt(s, index) > 0
<1> DEFINE n == Len(s)
<1>1. n \in Nat /\ (s # <<>> => n >= 1) /\ \A i \in 1..n : s[i] \in Task /\ s[i].pos > 0
  OBVIOUS
<1>2. \A i \in 1..n : s[i].pos \in Nat
  BY <1>1 DEF Task
<1>3. CASE s = <<>>
  BY <1>3, GapAssumption DEF PositionAt
<1>4. CASE s # <<>> /\ index = 0
  <2>1. s[1].pos \in Nat
    BY <1>1, <1>4, <1>2
  <2> QED
    BY <1>4, <2>1, GapAssumption DEF HasRoom, PositionAt
<1>5. CASE s # <<>> /\ index > 0 /\ index < Len(s)
  <2>1. s[index] \in Task /\ s[index + 1] \in Task /\ s[index].pos > 0
    BY <1>5
  <2>2. /\ s[index].pos \in Nat /\ s[index].pos >= 1
        /\ s[index + 1].pos \in Nat /\ s[index + 1].pos - s[index].pos > 1
    BY <1>5, <2>1 DEF Task, HasRoom
  <2>3. PositionAt(s, index) = (s[index].pos + s[index + 1].pos) \div 2
    BY <1>5 DEF PositionAt
  <2> QED
    BY <2>2, <2>3
<1>6. CASE s # <<>> /\ index > 0 /\ index >= Len(s)
  <2>1. s[Len(s)].pos \in Nat
    BY <1>1, <1>6, <1>2
  <2> QED
    BY <1>6, <2>1, GapAssumption DEF PositionAt
<1> QED
  BY <1>3, <1>4, <1>5, <1>6

-----------------------------------------------------------------------------
\* A step that only moves a request on, to a positive position if it names one.
LEMMA GotoKeepsIInv ==
  ASSUME IInv, NEW r \in Reqs, NEW q \in Request, Goto(r, q),
         q.at \in {"create.insert", "update.write"} => q.pos > 0,
         UNCHANGED <<tasks, nextTask, deleted>>
  PROVE  IInv'
<1>1. req' \in [Reqs -> Request] /\ \A p \in Reqs : req'[p] = req[p] \/ req'[p] = q
  BY DEF IInv, TypeOK, Goto
<1> QED
  BY <1>1 DEF IInv, TypeOK, IdsAreFresh, PositionsPositive, DeletedStayDeleted

LEMMA CreateKeepsIInv ==
  ASSUME IInv, NEW r \in Reqs,
         (\E c \in BodyColumn : CreateStart(r, c)) \/ CreateCommit(r)
  PROVE  IInv'
<1>1. ASSUME NEW c \in BodyColumn, CreateStart(r, c)
      PROVE  IInv'
  <2>1. PICK col \in Columns : \E pos \in EndPositions(col) :
          Goto(r, [at |-> "create.insert", col |-> col, pos |-> pos])
    BY <1>1 DEF CreateStart, resolveTargetColumn
  <2>4. PICK pos \in EndPositions(col) :
          Goto(r, [at |-> "create.insert", col |-> col, pos |-> pos])
    BY <2>1
  <2>2. pos \in Nat /\ pos > 0
    BY EndPositionsPositive
  <2>3. [at |-> "create.insert", col |-> col, pos |-> pos] \in Request
    BY <2>2 DEF Request, Creating
  <2> QED
    BY <1>1, <2>2, <2>3, <2>4, GotoKeepsIInv DEF CreateStart
<1>2. ASSUME CreateCommit(r)
      PROVE  IInv'
  <2> DEFINE t == [id |-> nextTask, col |-> req[r].col, pos |-> req[r].pos,
                   logged |-> req[r].col]
  <2>1. req[r].col \in Columns /\ req[r].pos \in Nat /\ req[r].pos > 0 /\ nextTask \in Nat
    BY <1>2 DEF CreateCommit, IInv, TypeOK, PositionsPositive, Request, Idle, Creating,
       Moving, Rebalancing, Updating, Deleting
  <2>2. t \in Task /\ t.id = nextTask /\ t.pos > 0
    BY <2>1 DEF Task
  <2>3. /\ tasks' = tasks \cup {t} /\ nextTask' = nextTask + 1 /\ deleted' = deleted
        /\ Goto(r, Idle)
    BY <1>2 DEF CreateCommit
  <2> HIDE DEF t
  <2>4. \A u \in tasks : u.id \in Nat
    BY DEF IInv, TypeOK, Task
  <2>5. TypeOK'
    BY <2>1, <2>2, <2>3 DEF IInv, TypeOK, Goto, Request
  <2>6. IsFiniteSet(tasks)'
    BY <2>3, FS_AddElement DEF IInv
  <2>7. IdsAreFresh' /\ DeletedStayDeleted'
    BY <2>1, <2>2, <2>3, <2>4 DEF IInv, TypeOK, IdsAreFresh, DeletedStayDeleted
  <2>8. PositionsPositive'
    BY <2>2, <2>3 DEF IInv, TypeOK, PositionsPositive, Goto, Idle
  <2> QED
    BY <2>5, <2>6, <2>7, <2>8 DEF IInv
<1> QED
  BY <1>1, <1>2

\* What a commit leaves of the tasks: no row that was not there, and each row
\* that changed at a positive position.
LEMMA RewriteKeepsIInv ==
  ASSUME IInv, NEW r \in Reqs, Goto(r, Idle), nextTask' = nextTask,
         tasks' \subseteq Task, IsFiniteSet(tasks'), deleted' \subseteq Nat,
         \A t \in tasks' : t.pos > 0 /\ \E u \in tasks : u.id = t.id,
         \A t \in tasks' : t.id \notin deleted',
         \A id \in deleted' : id < nextTask
  PROVE  IInv'
<1>1. TypeOK'
  BY DEF IInv, TypeOK, Goto, Request
<1>2. IdsAreFresh' /\ DeletedStayDeleted'
  BY DEF IInv, IdsAreFresh, DeletedStayDeleted
<1>3. PositionsPositive'
  BY DEF IInv, TypeOK, PositionsPositive, Goto, Idle
<1> QED
  BY <1>1, <1>2, <1>3 DEF IInv

-----------------------------------------------------------------------------
\* A function takes finitely many values on a finite set.
LEMMA ValuesFinite ==
  ASSUME NEW S, IsFiniteSet(S), NEW f, f = [x \in S |-> f[x]]
  PROVE  IsFiniteSet({f[x] : x \in S})
<1>1. f \in Surjection(S, {f[x] : x \in S})
  BY DEF Surjection
<1> QED
  BY <1>1, FS_Surjection

\* The rows a rebalancing rewrites.
LEMMA RenumberedOK ==
  ASSUME IInv, NEW order \in Seq(Nat)
  PROVE  /\ IsFiniteSet(Renumbered(order))
         /\ \A t \in Renumbered(order) :
              t \in Task /\ t.pos > 0 /\ \E u \in tasks : u.id = t.id
<1> DEFINE row(t, i) == [t EXCEPT !.pos = i * Gap]
           rows(i) == {row(t, i) : t \in TaskRow(order[i])}
<1>1. Renumbered(order) = UNION {rows(i) : i \in DOMAIN order}
  BY DEF Renumbered
<1>2. ASSUME NEW i \in DOMAIN order, NEW t \in TaskRow(order[i])
      PROVE  row(t, i) \in Task /\ row(t, i).pos > 0 /\ row(t, i).id = t.id /\ t \in tasks
  <2>1. i \in Nat /\ i >= 1 /\ t \in tasks /\ t \in Task
    BY DEF TaskRow, IInv, TypeOK
  <2>2. i * Gap \in Nat /\ i * Gap > 0
    BY <2>1, GapAssumption
  <2> QED
    BY <2>1, <2>2 DEF Task
<1>3. ASSUME NEW i \in DOMAIN order
      PROVE  IsFiniteSet(rows(i))
  <2> DEFINE f == [t \in TaskRow(order[i]) |-> row(t, i)]
  <2>1. IsFiniteSet(TaskRow(order[i]))
    BY FS_Subset DEF IInv, TaskRow
  <2>2. IsFiniteSet({f[t] : t \in TaskRow(order[i])})
    <3>1. f = [t \in TaskRow(order[i]) |-> f[t]]
      OBVIOUS
    <3> HIDE DEF f
    <3> QED
      BY <2>1, <3>1, ValuesFinite
  <2> QED
    BY <2>2
<1>4. IsFiniteSet({rows(i) : i \in DOMAIN order})
  <2> DEFINE f == [i \in DOMAIN order |-> rows(i)]
  <2>1. IsFiniteSet(DOMAIN order)
    BY FS_Interval
  <2>2. f = [i \in DOMAIN order |-> f[i]]
    OBVIOUS
  <2>3. {rows(i) : i \in DOMAIN order} = {f[i] : i \in DOMAIN order}
    OBVIOUS
  <2> HIDE DEF f, rows
  <2>4. IsFiniteSet({f[i] : i \in DOMAIN order})
    BY <2>1, <2>2, ValuesFinite
  <2> QED
    BY <2>3, <2>4
<1>5. IsFiniteSet(Renumbered(order))
  <2>1. \A T \in {rows(i) : i \in DOMAIN order} : IsFiniteSet(T)
    BY <1>3
  <2> HIDE DEF rows
  <2> QED
    BY <1>1, <1>4, <2>1, FS_UNION
<1>6. \A t \in Renumbered(order) : \E i \in DOMAIN order : \E u \in TaskRow(order[i]) : t = row(u, i)
  BY <1>1
<1> HIDE DEF row
<1> QED
  BY <1>2, <1>5, <1>6

\* The row of the task that is moved or edited.
LEMMA UpdatedOK ==
  ASSUME IInv, NEW q \in Updating, q.pos > 0
  PROVE  /\ IsFiniteSet(Updated(q))
         /\ \A t \in Updated(q) :
              t \in Task /\ t.pos > 0 /\ \E u \in tasks : u.id = t.id
<1> DEFINE f == [t \in TaskRow(q.id) |->
                   [t EXCEPT !.col = q.col, !.pos = q.pos,
                             !.logged = IF q.moved THEN q.col ELSE @]]
<1>1. Updated(q) = {f[t] : t \in TaskRow(q.id)}
  BY DEF Updated, TargetRow
<1>2. IsFiniteSet(TaskRow(q.id))
  BY FS_Subset DEF IInv, TaskRow
<1>3. f = [t \in TaskRow(q.id) |-> f[t]]
  OBVIOUS
<1>4. \A t \in TaskRow(q.id) : t \in tasks /\ f[t] \in Task /\ f[t].pos > 0 /\ f[t].id = t.id
  <2>1. q.col \in Columns /\ q.pos \in Nat
    BY DEF Updating
  <2> QED
    BY <2>1 DEF IInv, TypeOK, Task, TaskRow
<1> HIDE DEF f
<1>5. IsFiniteSet(Updated(q))
  BY <1>1, <1>2, <1>3, ValuesFinite
<1> QED
  BY <1>1, <1>4, <1>5

LEMMA UpdateCommitKeepsIInv ==
  ASSUME IInv, NEW r \in Reqs, UpdateCommit(r)
  PROVE  IInv'
<1> DEFINE q == req[r]
<1>1. /\ q \in Updating /\ q.pos > 0 /\ q.order \in Seq(Nat)
      /\ tasks' = Untouched(q) \cup Renumbered(q.order) \cup Updated(q)
      /\ Goto(r, Idle) /\ nextTask' = nextTask /\ deleted' = deleted
  BY DEF UpdateCommit, IInv, TypeOK, PositionsPositive, Request, Idle, Creating, Moving,
     Rebalancing, Updating, Deleting
<1> HIDE DEF q
<1>2. /\ Untouched(q) \subseteq tasks /\ IsFiniteSet(Untouched(q))
      /\ \A t \in tasks : t \in Task /\ t.pos > 0
  <2>1. Untouched(q) \subseteq tasks
    BY DEF Untouched
  <2> QED
    BY <2>1, FS_Subset DEF IInv, TypeOK, PositionsPositive
<1>3. IsFiniteSet(tasks')
  BY <1>1, <1>2, RenumberedOK, UpdatedOK, FS_Union
<1>4. \A t \in tasks' : t \in Task /\ t.pos > 0 /\ \E u \in tasks : u.id = t.id
  BY <1>1, <1>2, RenumberedOK, UpdatedOK
<1>5. /\ \A t \in tasks' : t.id \notin deleted'
      /\ deleted' \subseteq Nat /\ \A id \in deleted' : id < nextTask
  BY <1>1, <1>4 DEF IInv, TypeOK, DeletedStayDeleted, IdsAreFresh
<1> QED
  BY <1>1, <1>3, <1>4, <1>5, RewriteKeepsIInv

-----------------------------------------------------------------------------
\* Where a move or an edit will write is computed from positive positions.
LEMMA UpdateStepKeepsIInv ==
  ASSUME IInv, NEW r \in Reqs, UpdateStep(r)
  PROVE  IInv'
<1>1. req[r] \in Request /\ \A t \in tasks : t \in Task /\ t.pos > 0
  BY DEF IInv, TypeOK, PositionsPositive
<1>2. ASSUME req[r].at \in {"move.place", "move.rebalance"}
      PROVE  req[r].id \in Nat /\ req[r].col \in Columns /\ req[r].index \in Index \cup {NoIndex}
  BY <1>1, <1>2 DEF Request, Idle, Creating, Moving, Rebalancing, Updating, Deleting
<1>3. ASSUME NEW t \in tasks, EditStart(r, t)
      PROVE  IInv'
  <2> DEFINE q == [at |-> "update.write", id |-> t.id, col |-> t.col, pos |-> t.pos,
                   moved |-> FALSE, index |-> NoIndex, order |-> <<>>]
  <2>1. q \in Request /\ q.pos > 0
    BY <1>1 DEF Task, Request, Updating
  <2>2. Goto(r, q) /\ UNCHANGED <<tasks, nextTask, deleted>>
    BY <1>3 DEF EditStart
  <2> HIDE DEF q
  <2> QED
    BY <2>1, <2>2, GotoKeepsIInv
<1>4. ASSUME NEW t \in tasks, NEW c \in BodyColumn, NEW index \in Index \cup {NoIndex},
             MoveStart(r, t, c, index)
      PROVE  IInv'
  <2> DEFINE col == TargetColumn(t, c)
             q == [at |-> "move.place", id |-> t.id, col |-> col, index |-> index]
  <2>1. q \in Request /\ q.at = "move.place"
    BY <1>1, <1>4 DEF Task, Request, Moving, MoveStart, assertColumnBelongsToBoard
  <2>2. Goto(r, q) /\ UNCHANGED <<tasks, nextTask, deleted>>
    BY <1>4 DEF MoveStart
  <2> HIDE DEF q
  <2> QED
    BY <2>1, <2>2, GotoKeepsIInv
\* PlacedWrite is a request to write at the position it is given.
<1>5. ASSUME req[r].at \in {"move.place", "move.rebalance"},
             NEW pos \in Nat, pos > 0, NEW order \in Seq(Nat),
             Goto(r, PlacedWrite(req[r], pos, order)),
             UNCHANGED <<tasks, nextTask, deleted>>
      PROVE  IInv'
  <2>1. PlacedWrite(req[r], pos, order) \in Request /\ PlacedWrite(req[r], pos, order).pos = pos
    BY <1>2, <1>5 DEF PlacedWrite, Request, Updating
  <2> QED
    BY <1>5, <2>1, GotoKeepsIInv
<1>6. <<>> \in Seq(Nat)
  OBVIOUS
<1>7. ASSUME PlaceAtEnd(r)
      PROVE  IInv'
  <2>1. PICK pos \in EndPositions(req[r].col) : Goto(r, PlacedWrite(req[r], pos, <<>>))
    BY <1>7 DEF PlaceAtEnd
  <2>2. pos \in Nat /\ pos > 0
    BY EndPositionsPositive
  <2> QED
    BY <1>5, <1>6, <1>7, <2>1, <2>2 DEF PlaceAtEnd
<1>8. ASSUME req[r].at = "move.place",
             NEW s \in Ordered(Others(req[r].col, req[r].id)), PlaceAmong(r, s)
      PROVE  IInv'
  <2>1. req[r].index \in Nat
    BY <1>2, <1>8, IndexAssumption DEF PlaceAmong, Index
  <2>2. s \in Seq(Task) /\ \A i \in 1..Len(s) : s[i].pos > 0
    BY <1>1, <1>2, <1>8, OrderedIsSeq
  <2>3. UNCHANGED <<tasks, nextTask, deleted>>
    BY <1>8 DEF PlaceAmong
  <2>4. CASE HasRoom(s, req[r].index)
    <3>1. Goto(r, PlacedWrite(req[r], PositionAt(s, req[r].index), <<>>))
      BY <1>8, <2>4 DEF PlaceAmong
    <3>2. PositionAt(s, req[r].index) \in Nat /\ PositionAt(s, req[r].index) > 0
      BY <2>1, <2>2, <2>4, PositionAtPositive
    <3> QED
      BY <1>5, <1>6, <1>8, <2>3, <3>1, <3>2
  <2>5. CASE ~HasRoom(s, req[r].index)
    <3> DEFINE q == [req[r] EXCEPT !.at = "move.rebalance"]
    <3>1. Goto(r, q)
      BY <1>8, <2>5 DEF PlaceAmong
    <3>2. req[r] \in Moving /\ req[r].index \in Index
      BY <1>1, <1>2, <1>8 DEF PlaceAmong, Request, Idle, Creating, Moving, Rebalancing,
         Updating, Deleting
    <3>3. q \in Request /\ q.at = "move.rebalance"
      BY <3>2 DEF Request, Moving, Rebalancing
    <3> HIDE DEF q
    <3> QED
      BY <2>3, <3>1, <3>3, GotoKeepsIInv
  <2> QED
    BY <2>4, <2>5
<1>9. ASSUME req[r].at = "move.rebalance",
             NEW s \in Ordered(Others(req[r].col, req[r].id)), Rebalance(r, s)
      PROVE  IInv'
  <2> DEFINE pos == req[r].index * Gap + Half
             order == [i \in DOMAIN s |-> s[i].id]
  <2>1. s \in Seq(Task)
    BY <1>2, <1>9, OrderedIsSeq
  <2>2. order \in Seq(Nat)
    <3>1. DOMAIN s = 1..Len(s) /\ Len(s) \in Nat /\ \A i \in DOMAIN s : s[i].id \in Nat
      <4>1. DOMAIN s = 1..Len(s) /\ Len(s) \in Nat /\ \A i \in 1..Len(s) : s[i] \in Task
        BY <2>1
      <4> QED
        BY <4>1 DEF Task
    <3>2. order \in [1..Len(s) -> Nat]
      BY <3>1
    <3> QED
      BY <3>1, <3>2
  <2>3. pos \in Nat /\ pos > 0
    <3>1. req[r].index \in Nat
      BY <1>1, <1>9, IndexAssumption DEF Index, Request, Idle, Creating, Moving, Rebalancing,
         Updating, Deleting
    <3>2. req[r].index * Gap \in Nat
      BY <3>1, GapAssumption
    <3>3. Half \in Nat /\ Half > 0
      BY GapAssumption DEF Half
    <3> QED
      BY <3>2, <3>3
  <2>4. Goto(r, PlacedWrite(req[r], pos, order)) /\ UNCHANGED <<tasks, nextTask, deleted>>
    BY <1>9 DEF Rebalance
  <2> HIDE DEF pos, order
  <2> QED
    BY <1>5, <1>9, <2>2, <2>3, <2>4
<1> QED
  BY <1>3, <1>4, <1>7, <1>8, <1>9, UpdateCommitKeepsIInv DEF UpdateStep

LEMMA DeleteKeepsIInv ==
  ASSUME IInv, NEW r \in Reqs, (\E t \in tasks : DeleteStart(r, t)) \/ DeleteCommit(r)
  PROVE  IInv'
<1>1. ASSUME NEW t \in tasks, DeleteStart(r, t)
      PROVE  IInv'
  <2>1. [at |-> "delete.write", id |-> t.id] \in Request
    BY DEF IInv, TypeOK, Task, Request, Deleting
  <2> QED
    BY <1>1, <2>1, GotoKeepsIInv DEF DeleteStart
<1>2. ASSUME DeleteCommit(r)
      PROVE  IInv'
  <2>1. PICK t \in tasks : t.id = req[r].id
    BY <1>2 DEF DeleteCommit, TaskRow
  <2>2. t.id \in Nat /\ t.id < nextTask
    BY DEF IInv, TypeOK, IdsAreFresh, Task
  <2>3. /\ tasks' = tasks \ TaskRow(t.id) /\ deleted' = deleted \cup {t.id}
        /\ nextTask' = nextTask /\ Goto(r, Idle)
    BY <1>2, <2>1 DEF DeleteCommit
  <2>4. IsFiniteSet(tasks')
    BY <2>3, FS_Subset DEF IInv
  <2>5. \A u \in tasks' : u \in Task /\ u.pos > 0 /\ u.id \notin deleted' /\ u \in tasks
    BY <2>3 DEF IInv, TypeOK, PositionsPositive, DeletedStayDeleted, TaskRow
  <2>6. deleted' \subseteq Nat /\ \A id \in deleted' : id < nextTask
    BY <2>2, <2>3 DEF IInv, TypeOK, IdsAreFresh
  <2> QED
    BY <2>3, <2>4, <2>5, <2>6, RewriteKeepsIInv
<1> QED
  BY <1>1, <1>2

LEMMA NextKeepsIInv ==
  ASSUME IInv, [Next]_vars
  PROVE  IInv'
<1>1. ASSUME NEW r \in Reqs, Abandon(r)
      PROVE  IInv'
  BY <1>1, GotoKeepsIInv DEF Abandon, Idle, Request
<1>2. ASSUME UNCHANGED vars
      PROVE  IInv'
  BY <1>2 DEF vars, IInv, TypeOK, IdsAreFresh, PositionsPositive, DeletedStayDeleted
<1> QED
  BY <1>1, <1>2, CreateKeepsIInv, UpdateStepKeepsIInv, DeleteKeepsIInv DEF Next

LEMMA InitIInv == Init => IInv
BY FS_EmptySet DEF Init, IInv, TypeOK, IdsAreFresh, PositionsPositive, DeletedStayDeleted,
   Request, Idle

\* The inductive invariant, for any number of columns, requests and tasks.
THEOREM Invariance == Spec => []IInv
  BY InitIInv, NextKeepsIInv, PTL DEF Spec

\* Rows and requests keep their types; in particular positions stay numbers.
THEOREM TypeCorrect == Spec => []TypeOK
  BY Invariance, PTL DEF IInv

\* positionForIndex and rebalanceColumn: no position is zero or negative, however
\* many moves compute theirs from neighbours that are being moved or renumbered.
THEOREM PositionsStayPositive == Spec => []PositionsPositive
  BY Invariance, PTL DEF IInv

\* update's transaction against remove: no update brings a deleted task back.
THEOREM NoTaskComesBack == Spec => []DeletedStayDeleted
  BY Invariance, PTL DEF IInv

-----------------------------------------------------------------------------
(***************************************************************************)
(* Requests that come one at a time: AloneInv.                             *)
(***************************************************************************)

\* The first k values of an injective sequence are k.
LEMMA FirstOnes ==
  ASSUME NEW n \in Nat, NEW k \in 0..n, NEW f, NEW T, DOMAIN f = 1..n,
         \A i, j \in 1..n : f[i] = f[j] => i = j,
         \A i \in 1..k : f[i] \in T,
         \A t \in T : \E i \in 1..k : f[i] = t
  PROVE  Cardinality(T) = k
<1> DEFINE g == [i \in 1..k |-> f[i]]
<1>1. k \in Nat /\ 1..k \subseteq 1..n
  OBVIOUS
<1>2. g \in Bijection(1..k, T)
  BY <1>1 DEF Bijection, Injection, IsInjective, Surjection
<1>3. ExistsBijection(1..k, T)
  BY <1>2 DEF ExistsBijection
<1> QED
  BY <1>1, <1>3, FS_CountingElements

\* Where positions are distinct, ORDER BY lists each row once, at rising positions.
LEMMA OrderedRises ==
  ASSUME IInv, PositionsDistinct, NEW col \in Columns, NEW id,
         NEW s \in Ordered(Others(col, id))
  PROVE  LET S == Others(col, id)
             n == Cardinality(S)
         IN  /\ n \in Nat /\ s \in [1..n -> S] /\ Len(s) = n
             /\ \A t \in S : \E i \in 1..n : s[i] = t
             /\ \A i, j \in 1..n : s[i] = s[j] => i = j
             /\ \A i, j \in 1..n : i < j => s[i].pos < s[j].pos
<1> DEFINE S == Others(col, id)
           n == Cardinality(S)
<1>1. S \subseteq tasks /\ (\A t \in S : t.col = col /\ t \in Task)
  BY DEF IInv, TypeOK, Others, InColumn
<1>2. IsFiniteSet(S) /\ n \in Nat
  BY <1>1, FS_Subset, FS_CardinalityType DEF IInv
<1>3. /\ s \in [1..n -> S]
      /\ \A i, j \in 1..n : i < j => s[i] # s[j] /\ s[i].pos <= s[j].pos
  BY DEF Ordered
<1>4. \A t, u \in S : t.pos = u.pos => t = u
  BY <1>1 DEF PositionsDistinct
<1>5. \A t \in S : t.pos \in Nat
  BY <1>1 DEF Task
<1> HIDE DEF S
<1>6. \A i, j \in 1..n : s[i] = s[j] => i = j
  BY <1>2, <1>3
<1>7. \A t \in S : \E i \in 1..n : s[i] = t
  <2>1. s \in Injection(1..n, S)
    BY <1>3, <1>6 DEF Injection, IsInjective
  <2>2. IsFiniteSet(1..n) /\ Cardinality(1..n) = n
    BY <1>2, FS_Interval
  <2>3. s \in Surjection(1..n, S)
    BY <1>2, <2>1, <2>2, FS_Injection
  <2> QED
    BY <2>3 DEF Surjection
<1>8. \A i, j \in 1..n : i < j => s[i].pos < s[j].pos
  <2> SUFFICES ASSUME NEW i \in 1..n, NEW j \in 1..n, i < j
               PROVE  s[i].pos < s[j].pos
    OBVIOUS
  <2>1. s[i] \in S /\ s[j] \in S /\ s[i] # s[j] /\ s[i].pos <= s[j].pos
    BY <1>3
  <2> QED
    BY <1>4, <1>5, <2>1
<1>9. Len(s) = n
  BY <1>2, <1>3
<1> QED
  BY <1>2, <1>3, <1>6, <1>7, <1>8, <1>9 DEF S

\* nextPositionAtEnd is above the column.
LEMMA EndIsAbove ==
  ASSUME IInv, NEW col, NEW pos \in EndPositions(col), NEW t \in InColumn(col)
  PROVE  t.pos < pos
<1>1. PICK u \in InColumn(col) : (\A v \in InColumn(col) : v.pos <= u.pos) /\ pos = u.pos + Gap
  BY DEF EndPositions
<1>2. t.pos \in Nat /\ u.pos \in Nat
  BY DEF IInv, TypeOK, InColumn, Task
<1> QED
  BY <1>1, <1>2, GapAssumption

\* positionForIndex, where there is room: above the rows before the index and below
\* the others.
LEMMA PositionAtSplits ==
  ASSUME NEW n \in Nat, NEW s, NEW S \in SUBSET Task, s \in [1..n -> S], Len(s) = n,
         \A i, j \in 1..n : i < j => s[i].pos < s[j].pos,
         NEW index \in Nat, HasRoom(s, index)
  PROVE  \A i \in 1..n : IF i <= index THEN s[i].pos < PositionAt(s, index)
                                      ELSE PositionAt(s, index) < s[i].pos
<1> SUFFICES ASSUME NEW i \in 1..n
             PROVE  IF i <= index THEN s[i].pos < PositionAt(s, index)
                                  ELSE PositionAt(s, index) < s[i].pos
  OBVIOUS
<1>1. s # <<>> /\ n >= 1
  OBVIOUS
<1>2. \A j \in 1..n : s[j].pos \in Nat
  BY DEF Task
<1>3. CASE index = 0
  <2>1. PositionAt(s, index) = s[1].pos - Gap
    BY <1>1, <1>3 DEF PositionAt
  <2>2. s[1].pos <= s[i].pos /\ s[1].pos \in Nat /\ s[i].pos \in Nat
    <3>1. 1 \in 1..n /\ (i = 1 \/ 1 < i)
      BY <1>1
    <3> QED
      BY <1>2, <3>1
  <2> QED
    BY <1>3, <2>1, <2>2, GapAssumption
<1>4. CASE index > 0 /\ index < n
  <2>1. PositionAt(s, index) = (s[index].pos + s[index + 1].pos) \div 2
    BY <1>1, <1>4 DEF PositionAt
  <2>2. s[index + 1].pos - s[index].pos > 1
    BY <1>1, <1>4 DEF HasRoom
  <2>3. index \in 1..n /\ index + 1 \in 1..n
    BY <1>4
  <2>4. s[index].pos \in Nat /\ s[index + 1].pos \in Nat /\ s[i].pos \in Nat
    BY <1>2, <2>3
  <2>5. i <= index => s[i].pos <= s[index].pos
    BY <2>3, <2>4
  <2>6. ~(i <= index) => s[index + 1].pos <= s[i].pos
    <3>1. ~(i <= index) => i = index + 1 \/ index + 1 < i
      OBVIOUS
    <3> QED
      BY <2>3, <2>4, <3>1
  <2> QED
    BY <2>1, <2>2, <2>4, <2>5, <2>6
<1>5. CASE index > 0 /\ index >= n
  <2>1. PositionAt(s, index) = s[n].pos + Gap
    BY <1>1, <1>5 DEF PositionAt
  <2>2. s[i].pos <= s[n].pos /\ s[n].pos \in Nat /\ s[i].pos \in Nat
    <3>1. n \in 1..n /\ (i = n \/ i < n)
      BY <1>1
    <3> QED
      BY <1>2, <3>1
  <2> QED
    BY <1>5, <2>1, <2>2, GapAssumption
<1> QED
  BY <1>3, <1>4, <1>5

\* So it is a free place, with as many rows below it as the index says.
LEMMA PlacedIsFree ==
  ASSUME IInv, PositionsDistinct, NEW q, q.col \in Columns, q.index \in Nat,
         NEW s \in Ordered(Others(q.col, q.id)), HasRoom(s, q.index),
         q.pos = PositionAt(s, q.index)
  PROVE  PlaceIsFree(q)
<1> DEFINE S == Others(q.col, q.id)
           n == Cardinality(S)
           k == Lower(q.index, n)
<1>1. /\ n \in Nat /\ s \in [1..n -> S] /\ Len(s) = n
      /\ \A t \in S : \E i \in 1..n : s[i] = t
      /\ \A i, j \in 1..n : s[i] = s[j] => i = j
      /\ \A i, j \in 1..n : i < j => s[i].pos < s[j].pos
  BY OrderedRises
<1>2. S \in SUBSET Task
  BY DEF IInv, TypeOK, Others, InColumn
<1> HIDE DEF S
<1>3. \A i \in 1..n : IF i <= q.index THEN s[i].pos < q.pos ELSE q.pos < s[i].pos
  <2> HIDE DEF n
  <2>1. \A i \in 1..n : IF i <= q.index THEN s[i].pos < PositionAt(s, q.index)
                                        ELSE PositionAt(s, q.index) < s[i].pos
    BY <1>1, <1>2, PositionAtSplits, Zenon
  <2> QED
    BY <2>1
<1>4. \A i \in 1..n : s[i].pos \in Nat
  BY <1>1, <1>2 DEF Task
<1>5. k \in 0..n /\ \A i \in 1..n : i <= k <=> i <= q.index
  BY <1>1 DEF Lower
<1> HIDE DEF k
<1>6. q.pos \in Int
  <2>1. \A i \in 1..n : s[i] \in Task
    BY <1>1, <1>2
  <2>2. CASE s = <<>>
    BY <2>2, GapAssumption DEF PositionAt
  <2>3. CASE s # <<>>
    <3>1. 1 \in 1..n /\ n \in 1..n
      BY <1>1, <2>3
    <3>2. s[1].pos \in Nat /\ s[n].pos \in Nat
      BY <1>4, <3>1
    <3>3. q.index > 0 /\ q.index < n => s[q.index].pos \in Nat /\ s[q.index + 1].pos \in Nat
      BY <1>1, <1>4
    <3> QED
      BY <1>1, <2>3, <3>2, <3>3, GapAssumption DEF PositionAt
  <2> QED
    BY <2>2, <2>3
<1>7. \A t \in S : t.pos # q.pos
  <2> SUFFICES ASSUME NEW t \in S
               PROVE  t.pos # q.pos
    OBVIOUS
  <2>1. PICK i \in 1..n : s[i] = t
    BY <1>1
  <2> QED
    BY <1>3, <1>4, <1>6, <2>1
<1> DEFINE T == {t \in S : t.pos < q.pos}
<1>8. Cardinality(T) = k
  <2>1. \A t \in T : \E i \in 1..k : s[i] = t
    <3> SUFFICES ASSUME NEW t \in T
                 PROVE  \E i \in 1..k : s[i] = t
      OBVIOUS
    <3>1. PICK i \in 1..n : s[i] = t
      BY <1>1
    <3>2. i <= q.index
      BY <1>3, <1>4, <1>6, <3>1
    <3> QED
      BY <1>5, <3>1, <3>2
  <2>2. \A i \in 1..k : s[i] \in T
    <3> SUFFICES ASSUME NEW i \in 1..k
                 PROVE  s[i] \in T
      OBVIOUS
    <3>1. i \in 1..n /\ i <= q.index
      BY <1>1, <1>5
    <3> QED
      BY <1>1, <1>3, <3>1
  <2>3. n \in Nat /\ k \in 0..n /\ DOMAIN s = 1..n
    BY <1>1, <1>5
  <2>4. \A i, j \in 1..n : s[i] = s[j] => i = j
    BY <1>1
  <2> HIDE DEF n, T
  <2> QED
    BY <2>1, <2>2, <2>3, <2>4, FirstOnes
<1> QED
  BY <1>7, <1>8 DEF PlaceIsFree, S, k

\* Nothing of a request depends on rows that the step leaves alone.
LEMMA GotoKeepsInOrder ==
  ASSUME IInv, InOrder, tasks' = tasks, OneAtATime', NEW r \in Reqs, NEW q, Fresh(q), Goto(r, q)
  PROVE  InOrder'
<1>1. ASSUME NEW x \in Reqs
      PROVE  Fresh(req[x])'
  <2>1. req'[x] = (IF x = r THEN q ELSE req[x])
    BY DEF IInv, TypeOK, Goto
  <2>2. Fresh(req'[x])
    BY <2>1 DEF InOrder
  <2> QED
    BY <2>2 DEF Fresh, PlaceIsFree, ListsTheOthers, TargetRow, TaskRow, Others, InColumn, Rebalances
<1> QED
  BY <1>1 DEF InOrder, IdsAreUnique, PositionsDistinct, LogAgreesWithBoard

\* The only request in flight ends.
LEMMA EndKeepsInOrder ==
  ASSUME IInv, OneAtATime, NEW r \in Reqs, req[r] # Idle, Goto(r, Idle),
         IdsAreUnique', PositionsDistinct', LogAgreesWithBoard'
  PROVE  InOrder'
<1>1. \A x \in Reqs : req'[x] = Idle
  BY DEF IInv, TypeOK, Goto, OneAtATime, Busy
<1>2. OneAtATime'
  BY <1>1 DEF OneAtATime, Busy
<1>3. \A x \in Reqs : req'[x].at = "idle"
  BY <1>1 DEF Idle
<1>4. \A x \in Reqs : Fresh(req[x])'
  BY <1>3 DEF Fresh
<1> QED
  BY <1>2, <1>4 DEF InOrder

LEMMA CreateKeepsInOrder ==
  ASSUME IInv, InOrder, OneAtATime', NEW r \in Reqs,
         CreateCommit(r) \/ \E c \in BodyColumn : CreateStart(r, c)
  PROVE  InOrder'
<1>1. ASSUME NEW c \in BodyColumn, CreateStart(r, c)
      PROVE  InOrder'
  <2>1. PICK col \in resolveTargetColumn(c) : \E pos \in EndPositions(col) :
               Goto(r, [at |-> "create.insert", col |-> col, pos |-> pos])
    BY <1>1 DEF CreateStart
  <2>2. PICK pos \in EndPositions(col) :
               Goto(r, [at |-> "create.insert", col |-> col, pos |-> pos])
    BY <2>1
  <2> DEFINE q == [at |-> "create.insert", col |-> col, pos |-> pos]
  <2>3. \A t \in InColumn(q.col) : t.pos # q.pos
    <3>1. \A t \in InColumn(col) : t.pos \in Nat
      BY DEF IInv, TypeOK, InColumn, Task
    <3>2. \A t \in InColumn(col) : t.pos < pos
      BY EndIsAbove
    <3>3. pos \in Nat
      BY EndPositionsPositive
    <3> QED
      BY <3>1, <3>2, <3>3
  <2>4. Fresh(q)
    BY <2>3 DEF Fresh
  <2>5. Goto(r, q) /\ tasks' = tasks
    BY <1>1, <2>2 DEF CreateStart
  <2> HIDE DEF q
  <2> QED
    BY <2>4, <2>5, GotoKeepsInOrder
<1>2. CASE CreateCommit(r)
  <2> DEFINE q == req[r]
             new == [id |-> nextTask, col |-> q.col, pos |-> q.pos, logged |-> q.col]
  <2>1. /\ tasks' = tasks \cup {new} /\ q.at = "create.insert" /\ q # Idle /\ Goto(r, Idle)
    BY <1>2 DEF CreateCommit, Idle
  <2>2. \A t \in InColumn(q.col) : t.pos # q.pos
    BY <2>1 DEF InOrder, Fresh
  <2>3. \A t \in tasks : t.id # new.id
    BY DEF IInv, IdsAreFresh, TypeOK, Task
  <2>4. new.col = q.col /\ new.pos = q.pos /\ new.logged = q.col
    OBVIOUS
  <2> HIDE DEF q, new
  <2>5. IdsAreUnique'
    BY <2>1, <2>3 DEF InOrder, IdsAreUnique
  <2>6. PositionsDistinct'
    BY <2>1, <2>2, <2>4 DEF InOrder, PositionsDistinct, InColumn
  <2>7. LogAgreesWithBoard'
    BY <2>1, <2>4 DEF InOrder, LogAgreesWithBoard
  <2> QED
    BY <2>1, <2>5, <2>6, <2>7, EndKeepsInOrder DEF InOrder, q
<1> QED
  BY <1>1, <1>2

LEMMA DeleteKeepsInOrder ==
  ASSUME IInv, InOrder, OneAtATime', NEW r \in Reqs,
         DeleteCommit(r) \/ \E t \in tasks : DeleteStart(r, t)
  PROVE  InOrder'
<1>1. ASSUME NEW t \in tasks, DeleteStart(r, t)
      PROVE  InOrder'
  <2> DEFINE q == [at |-> "delete.write", id |-> t.id]
  <2>1. Fresh(q)
    BY DEF Fresh
  <2>2. Goto(r, q) /\ tasks' = tasks
    BY <1>1 DEF DeleteStart
  <2> HIDE DEF q
  <2> QED
    BY <2>1, <2>2, GotoKeepsInOrder
<1>2. CASE DeleteCommit(r)
  <2>1. tasks' \subseteq tasks /\ req[r] # Idle /\ Goto(r, Idle)
    BY <1>2 DEF DeleteCommit, Idle
  <2>2. IdsAreUnique' /\ PositionsDistinct' /\ LogAgreesWithBoard'
    BY <2>1 DEF InOrder, IdsAreUnique, PositionsDistinct, LogAgreesWithBoard
  <2> QED
    BY <2>1, <2>2, EndKeepsInOrder DEF InOrder
<1> QED
  BY <1>1, <1>2

\* A renumbered row never lands on the place between two multiples of the gap, and
\* is below it when its rank is within the index.
LEMMA HalfWay ==
  ASSUME NEW i \in Nat, NEW index \in Nat
  PROVE  /\ i * Gap \in Nat /\ index * Gap + Half \in Nat
         /\ i * Gap # index * Gap + Half
         /\ i * Gap < index * Gap + Half <=> i <= index
<1> DEFINE a == i * Gap
           b == index * Gap
<1>1. a \in Nat /\ b \in Nat /\ Gap \in Nat /\ Half \in Nat /\ 1 <= Half /\ Half < Gap
  BY GapAssumption DEF Half
<1>2. CASE i <= index
  <2>1. PICK d \in Nat : index = i + d
    BY <1>2
  <2>2. b = a + d * Gap /\ d * Gap \in Nat
    BY <2>1, GapAssumption
  <2> HIDE DEF a, b
  <2> QED
    BY <1>1, <1>2, <2>2 DEF a, b
<1>3. CASE ~(i <= index)
  <2>1. PICK d \in Nat : i = index + 1 + d
    BY <1>3
  <2>2. a = b + Gap + d * Gap /\ d * Gap \in Nat
    BY <2>1, GapAssumption
  <2> HIDE DEF a, b
  <2> QED
    BY <1>1, <1>3, <2>2 DEF a, b
<1> QED
  BY <1>2, <1>3

LEMMA GapKeepsOrder ==
  ASSUME NEW i \in Nat, NEW j \in Nat
  PROVE  /\ i * Gap = j * Gap => i = j
         /\ i < j => i * Gap < j * Gap
<1>1. ASSUME NEW k \in Nat, NEW l \in Nat, k < l
      PROVE  k * Gap < l * Gap
  <2>1. PICK d \in Nat : l = k + 1 + d
    BY <1>1
  <2>2. l * Gap = k * Gap + Gap + d * Gap /\ d * Gap \in Nat /\ k * Gap \in Nat
    BY <2>1, GapAssumption
  <2> QED
    BY <2>2, GapAssumption
<1>2. i * Gap \in Nat /\ j * Gap \in Nat
  BY GapAssumption
<1> QED
  BY <1>1, <1>2

\* What a transaction in flight will write, seen from the rows.
LEMMA WritesApart ==
  ASSUME IInv, InOrder, NEW r \in Reqs, req[r].at = "update.write"
  PROVE  LET q == req[r]
             S == Others(q.col, q.id)
         IN  /\ \A i, j \in DOMAIN q.order : q.order[i] = q.order[j] => i = j
             /\ \A i \in DOMAIN q.order : \E t \in S : t.id = q.order[i]
             /\ \A t \in S : \/ q.order = <<>> /\ t.pos # q.pos
                             \/ \E i \in DOMAIN q.order : t.id = q.order[i]
             /\ q.order # <<>> => q.index \in Nat /\ q.pos = q.index * Gap + Half
             /\ ~q.moved => \A t \in TargetRow(q) : t.col = q.col
<1> DEFINE q == req[r]
           S == Others(q.col, q.id)
<1>1. Fresh(q) /\ q.at = "update.write"
  BY DEF InOrder
<1> HIDE DEF q
<1>2. CASE ~q.moved
  <2>1. q.order = <<>>
    BY <1>1, <1>2 DEF Fresh, Rebalances
  <2>2. PICK t \in TargetRow(q) : t.col = q.col /\ t.pos = q.pos
    BY <1>1, <1>2 DEF Fresh
  <2>3. \A u \in TargetRow(q) : u = t
    BY DEF InOrder, IdsAreUnique, TargetRow, TaskRow
  <2>4. \A u \in S : u.pos # q.pos
    <3>1. \A u \in S : u.col = t.col /\ u # t /\ u \in tasks
      BY <2>2 DEF Others, InColumn, TargetRow, TaskRow
    <3> QED
      BY <2>2, <3>1 DEF InOrder, PositionsDistinct, TargetRow, TaskRow
  <2> QED
    BY <2>1, <2>2, <2>3, <2>4 DEF q
<1>3. CASE q.moved /\ q.order = <<>>
  <2>1. \A u \in S : u.pos # q.pos
    BY <1>1, <1>3 DEF Fresh, Rebalances, PlaceIsFree
  <2> QED
    BY <1>3, <2>1 DEF q
<1>4. CASE q.moved /\ q.order # <<>>
  <2>1. ListsTheOthers(q) /\ q.index \in Nat /\ q.pos = q.index * Gap + Half
    BY <1>1, <1>4, IndexAssumption DEF Fresh, Rebalances, Index
  <2> QED
    BY <1>4, <2>1 DEF q, ListsTheOthers
<1> QED
  BY <1>2, <1>3, <1>4

\* The rows after the commit: untouched, renumbered or the target's.
LEMMA RowsAfter ==
  ASSUME IInv, NEW r \in Reqs, UpdateCommit(r), NEW v \in tasks'
  PROVE  LET q == req[r]
         IN  \E t \in tasks :
               /\ v.id = t.id
               /\ \/ /\ v = t /\ t.id # q.id
                     /\ \A i \in DOMAIN q.order : q.order[i] # t.id
                  \/ \E i \in DOMAIN q.order :
                       /\ v.col = t.col /\ v.logged = t.logged /\ q.order[i] = t.id
                       /\ v = [t EXCEPT !.pos = i * Gap] /\ v.pos = i * Gap
                  \/ /\ t.id = q.id /\ v.col = q.col /\ v.pos = q.pos
                     /\ v.logged = (IF q.moved THEN q.col ELSE t.logged)
                     /\ v = [t EXCEPT !.col = q.col, !.pos = q.pos,
                                      !.logged = IF q.moved THEN q.col ELSE @]
<1> DEFINE q == req[r]
<1>1. v \in Untouched(q) \cup Renumbered(q.order) \cup Updated(q)
  BY DEF UpdateCommit
<1>2. tasks \subseteq Task
  BY DEF IInv, TypeOK
<1> HIDE DEF q
<1>3. CASE v \in Untouched(q)
  BY <1>3 DEF Untouched, q
<1>4. CASE v \in Renumbered(q.order)
  <2>1. PICK i \in DOMAIN q.order : v \in {[t EXCEPT !.pos = i * Gap] : t \in TaskRow(q.order[i])}
    BY <1>4 DEF Renumbered
  <2>2. PICK t \in TaskRow(q.order[i]) : v = [t EXCEPT !.pos = i * Gap]
    BY <2>1
  <2>3. t \in tasks /\ t.id = q.order[i] /\ t \in Task
    BY <1>2 DEF TaskRow
  <2>4. v.id = t.id /\ v.col = t.col /\ v.logged = t.logged /\ v.pos = i * Gap
    BY <2>2, <2>3 DEF Task
  <2> QED
    BY <2>2, <2>3, <2>4 DEF q
<1>5. CASE v \in Updated(q)
  <2>1. PICK t \in TargetRow(q) : v = [t EXCEPT !.col = q.col, !.pos = q.pos,
                                                !.logged = IF q.moved THEN q.col ELSE @]
    BY <1>5 DEF Updated
  <2>2. t \in tasks /\ t.id = q.id /\ t \in Task
    BY <1>2 DEF TargetRow, TaskRow
  <2>3. v.id = t.id /\ v.col = q.col /\ v.pos = q.pos /\ v.logged = (IF q.moved THEN q.col ELSE t.logged)
    BY <2>1, <2>2 DEF Task
  <2> QED
    BY <2>1, <2>2, <2>3 DEF q
<1> QED
  BY <1>1, <1>3, <1>4, <1>5

LEMMA UpdateCommitKeepsInOrder ==
  ASSUME IInv, InOrder, NEW r \in Reqs, UpdateCommit(r)
  PROVE  InOrder'
<1> DEFINE q == req[r]
           Kept1(v, t) == v = t /\ t.id # q.id /\ \A i \in DOMAIN q.order : q.order[i] # t.id
           Renum(v, t, i) == /\ v.col = t.col /\ v.logged = t.logged /\ q.order[i] = t.id
                             /\ v = [t EXCEPT !.pos = i * Gap] /\ v.pos = i * Gap
           New(t) == [t EXCEPT !.col = q.col, !.pos = q.pos,
                               !.logged = IF q.moved THEN q.col ELSE @]
           Targ(v, t) == /\ t.id = q.id /\ v.col = q.col /\ v.pos = q.pos
                         /\ v.logged = (IF q.moved THEN q.col ELSE t.logged)
                         /\ v = New(t)
           Was(v, t) == /\ v.id = t.id
                        /\ \/ Kept1(v, t)
                           \/ \E i \in DOMAIN q.order : Renum(v, t, i)
                           \/ Targ(v, t)
           S == Others(q.col, q.id)
<1>1. ASSUME NEW v \in tasks'
      PROVE  \E t \in tasks : Was(v, t)
  BY RowsAfter
<1>2. q.at = "update.write" /\ q # Idle /\ Goto(r, Idle)
  BY DEF UpdateCommit, Idle
<1>3. /\ \A i, j \in DOMAIN q.order : q.order[i] = q.order[j] => i = j
      /\ \A i \in DOMAIN q.order : \E t \in S : t.id = q.order[i]
      /\ \A t \in S : \/ q.order = <<>> /\ t.pos # q.pos
                      \/ \E i \in DOMAIN q.order : t.id = q.order[i]
      /\ q.order # <<>> => q.index \in Nat /\ q.pos = q.index * Gap + Half
      /\ ~q.moved => \A t \in TargetRow(q) : t.col = q.col
  BY <1>2, WritesApart
<1>4. \A t \in tasks : t \in S <=> t.col = q.col /\ t.id # q.id
  BY DEF Others, InColumn
<1>5. \A t, u \in tasks : t.id = u.id => t = u
  BY DEF InOrder, IdsAreUnique
<1>6. \A i \in DOMAIN q.order, t \in tasks : q.order[i] = t.id => t \in S
  <2>1. S \subseteq tasks
    BY DEF Others, InColumn
  <2> QED
    BY <1>3, <1>5, <2>1
<1>7. q.order \in Seq(Nat)
  BY <1>2 DEF IInv, TypeOK, Request, Idle, Creating, Moving, Rebalancing, Updating, Deleting
<1>8. DOMAIN q.order \subseteq Nat /\ (DOMAIN q.order # {} => q.order # <<>>)
  BY <1>7
<1>9. \A t \in TargetRow(q) : t \in tasks /\ t.id = q.id
  BY DEF TargetRow, TaskRow
<1>10. \A t \in tasks : t.id = q.id => t \in TargetRow(q)
  BY DEF TargetRow, TaskRow
<1> HIDE DEF q, S
<1>11. IdsAreUnique'
  <2> SUFFICES ASSUME NEW v \in tasks', NEW w \in tasks', v.id = w.id
               PROVE  v = w
    BY DEF IdsAreUnique
  <2>1. PICK t \in tasks : Was(v, t)
    BY <1>1
  <2>2. PICK u \in tasks : Was(w, u)
    BY <1>1
  <2>3. t = u
    <3>1. v.id = t.id /\ w.id = u.id
      BY <2>1, <2>2
    <3> QED
      BY <1>5, <3>1
  <2>4. CASE Kept1(v, t)
    BY <2>1, <2>2, <2>3, <2>4
  <2>5. ASSUME NEW i \in DOMAIN q.order, Renum(v, t, i)
        PROVE  v = w
    <3>1. t.id # q.id
      BY <1>4, <1>6, <2>5
    <3>2. PICK j \in DOMAIN q.order : Renum(w, u, j)
      BY <2>2, <2>3, <2>5, <3>1
    <3>3. i = j
      BY <1>3, <2>3, <2>5, <3>2
    <3> QED
      BY <2>3, <2>5, <3>2, <3>3
  <2>6. CASE Targ(v, t)
    <3>1. Targ(w, u)
      BY <1>4, <1>6, <2>2, <2>3, <2>6
    <3> QED
      BY <2>3, <2>6, <3>1
  <2> QED
    BY <2>1, <2>4, <2>5, <2>6
<1>12. \A v \in tasks' : v.col = q.col /\ v.id # q.id /\ v.pos = q.pos => FALSE
  <2> SUFFICES ASSUME NEW v \in tasks', v.col = q.col, v.id # q.id, v.pos = q.pos
               PROVE  FALSE
    OBVIOUS
  <2>1. PICK t \in tasks : Was(v, t)
    BY <1>1
  <2>2. CASE Kept1(v, t)
    BY <1>3, <1>4, <2>2
  <2>3. ASSUME NEW i \in DOMAIN q.order, Renum(v, t, i)
        PROVE  FALSE
    <3>1. i \in Nat /\ q.index \in Nat /\ i * Gap = q.index * Gap + Half
      BY <1>3, <1>8, <2>3
    <3> QED
      BY <3>1, HalfWay
  <2> QED
    BY <2>1, <2>2, <2>3
<1>13. PositionsDistinct'
  <2> SUFFICES ASSUME NEW v \in tasks', NEW w \in tasks', v.col = w.col, v.pos = w.pos
               PROVE  v.id = w.id
    BY <1>11 DEF IdsAreUnique, PositionsDistinct
  <2>1. PICK t \in tasks : Was(v, t)
    BY <1>1
  <2>2. PICK u \in tasks : Was(w, u)
    BY <1>1
  <2>3. CASE Targ(v, t)
    BY <1>12, <2>1, <2>3
  <2>4. CASE Targ(w, u)
    BY <1>12, <2>2, <2>4
  <2>5. CASE Kept1(v, t) /\ Kept1(w, u)
    BY <2>5 DEF InOrder, PositionsDistinct
  <2>6. ASSUME NEW i \in DOMAIN q.order, Renum(v, t, i), Kept1(w, u)
        PROVE  FALSE
    <3>1. t.col = q.col
      BY <1>4, <1>6, <2>6
    <3>2. u \in S
      BY <1>4, <2>6, <3>1
    <3> QED
      BY <1>3, <1>8, <2>6, <3>2
  <2>7. ASSUME NEW i \in DOMAIN q.order, Renum(w, u, i), Kept1(v, t)
        PROVE  FALSE
    <3>1. u.col = q.col
      BY <1>4, <1>6, <2>7
    <3>2. t \in S
      BY <1>4, <2>7, <3>1
    <3> QED
      BY <1>3, <1>8, <2>7, <3>2
  <2>8. ASSUME NEW i \in DOMAIN q.order, Renum(v, t, i),
               NEW j \in DOMAIN q.order, Renum(w, u, j)
        PROVE  v.id = w.id
    <3>1. i \in Nat /\ j \in Nat /\ i * Gap = j * Gap
      BY <1>8, <2>8
    <3>2. i = j
      BY <3>1, GapKeepsOrder
    <3> QED
      BY <2>1, <2>2, <2>8, <3>2
  <2> QED
    BY <2>1, <2>2, <2>3, <2>4, <2>5, <2>6, <2>7, <2>8
<1>14. LogAgreesWithBoard'
  <2> SUFFICES ASSUME NEW v \in tasks'
               PROVE  v.logged = v.col
    BY DEF LogAgreesWithBoard
  <2>1. PICK t \in tasks : Was(v, t)
    BY <1>1
  <2>2. t.logged = t.col
    BY DEF InOrder, LogAgreesWithBoard
  <2> QED
    BY <1>3, <1>10, <2>1, <2>2
<1> QED
  BY <1>2, <1>11, <1>13, <1>14, EndKeepsInOrder DEF InOrder, q

\* positionForIndex at the end of the column.
LEMMA EndIsFree ==
  ASSUME IInv, NEW q, q.index = NoIndex, q.pos \in EndPositions(q.col)
  PROVE  PlaceIsFree(q)
<1>1. \A t \in InColumn(q.col) : t.pos < q.pos /\ t.pos \in Nat
  <2>1. \A t \in InColumn(q.col) : t.pos \in Nat
    BY DEF IInv, TypeOK, InColumn, Task
  <2> QED
    BY <2>1, EndIsAbove
<1>2. q.pos \in Nat
  BY EndPositionsPositive
<1>3. \A t \in Others(q.col, q.id) : t.pos # q.pos
  BY <1>1, <1>2 DEF Others
<1> QED
  BY <1>3 DEF PlaceIsFree

\* rebalanceColumn's list is the column as it is.
LEMMA RenumberingIsFresh ==
  ASSUME IInv, InOrder, NEW q, q.col \in Columns, q.index \in Index,
         NEW s \in Ordered(Others(q.col, q.id)),
         q.at = "update.write", q.moved = TRUE, q.pos = q.index * Gap + Half,
         q.order = [i \in DOMAIN s |-> s[i].id]
  PROVE  Fresh(q)
<1> DEFINE S == Others(q.col, q.id)
           n == Cardinality(S)
<1>1. PositionsDistinct
  BY DEF InOrder
<1>2. /\ n \in Nat /\ s \in [1..n -> S] /\ Len(s) = n
      /\ \A t \in S : \E i \in 1..n : s[i] = t
      /\ \A i, j \in 1..n : s[i] = s[j] => i = j
      /\ \A i, j \in 1..n : i < j => s[i].pos < s[j].pos
  BY <1>1, OrderedRises
<1>3. S \subseteq tasks /\ S \subseteq Task /\ IsFiniteSet(S)
  BY FS_Subset DEF IInv, TypeOK, Others, InColumn
<1>4. \A t, u \in S : t.id = u.id => t = u
  BY <1>3 DEF InOrder, IdsAreUnique
<1> HIDE DEF S
<1>5. DOMAIN s = 1..n /\ DOMAIN q.order = 1..n /\ \A i \in 1..n : q.order[i] = s[i].id
  BY <1>2
<1>6. CASE n = 0
  <2>1. S = {}
    BY <1>3, <1>6, FS_EmptySet
  <2>2. PlaceIsFree(q)
    <3>1. {t \in S : t.pos < q.pos} = {} /\ Cardinality({}) = 0
      BY <2>1, FS_EmptySet
    <3>2. Lower(q.index, n) = 0
      BY <1>6, IndexAssumption DEF Lower, Index
    <3> QED
      BY <2>1, <3>1, <3>2 DEF PlaceIsFree, S
  <2>3. q.order = <<>>
    BY <1>5, <1>6
  <2> QED
    BY <2>2, <2>3 DEF Fresh, Rebalances
<1>7. CASE n # 0
  <2>1. q.order # <<>>
    BY <1>2, <1>5, <1>7
  <2>2. \A i, j \in 1..n : q.order[i] = q.order[j] => i = j
    <3> SUFFICES ASSUME NEW i \in 1..n, NEW j \in 1..n, q.order[i] = q.order[j]
                 PROVE  i = j
      OBVIOUS
    <3>1. s[i] \in S /\ s[j] \in S /\ s[i].id = s[j].id
      BY <1>2, <1>5
    <3> QED
      BY <1>2, <1>4, <3>1
  <2>3. \A i \in 1..n : \E t \in S : t.id = q.order[i]
    BY <1>2, <1>5
  <2>4. \A t \in S : \E i \in 1..n : t.id = q.order[i]
    BY <1>2, <1>5
  <2>5. \A i, j \in 1..n, t, u \in S :
           t.id = q.order[i] /\ u.id = q.order[j] /\ t.pos < u.pos => i < j
    <3> SUFFICES ASSUME NEW i \in 1..n, NEW j \in 1..n, NEW t \in S, NEW u \in S,
                        t.id = q.order[i], u.id = q.order[j], t.pos < u.pos
                 PROVE  i < j
      OBVIOUS
    <3>1. s[i] = t /\ s[j] = u
      <4>1. s[i] \in S /\ s[j] \in S /\ s[i].id = t.id /\ s[j].id = u.id
        BY <1>2, <1>5
      <4> QED
        BY <1>4, <4>1
    <3>2. t.pos \in Nat /\ u.pos \in Nat
      BY <1>3 DEF Task
    <3>3. i # j
      BY <3>1, <3>2
    <3>4. ~(j < i)
      BY <1>2, <3>1, <3>2
    <3> QED
      BY <1>2, <3>3, <3>4
  <2>6. ListsTheOthers(q)
    BY <1>5, <2>2, <2>3, <2>4, <2>5 DEF ListsTheOthers, S
  <2> QED
    BY <2>1, <2>6 DEF Fresh, Rebalances
<1> QED
  BY <1>6, <1>7

LEMMA UpdateStepKeepsInOrder ==
  ASSUME IInv, InOrder, OneAtATime', NEW r \in Reqs, UpdateStep(r)
  PROVE  InOrder'
<1>1. req[r] \in Request
  BY DEF IInv, TypeOK
<1>2. ASSUME req[r].at \in {"move.place", "move.rebalance"}
      PROVE  req[r].col \in Columns /\ req[r].index \in Index \cup {NoIndex}
  BY <1>1, <1>2 DEF Request, Idle, Creating, Moving, Rebalancing, Updating, Deleting
<1>3. ASSUME NEW t \in tasks, EditStart(r, t)
      PROVE  InOrder'
  <2> DEFINE q == [at |-> "update.write", id |-> t.id, col |-> t.col, pos |-> t.pos,
                   moved |-> FALSE, index |-> NoIndex, order |-> <<>>]
  <2>1. Fresh(q)
    BY DEF Fresh, Rebalances, TargetRow, TaskRow
  <2>2. Goto(r, q) /\ tasks' = tasks
    BY <1>3 DEF EditStart
  <2> HIDE DEF q
  <2> QED
    BY <2>1, <2>2, GotoKeepsInOrder
<1>4. ASSUME NEW t \in tasks, NEW c \in BodyColumn, NEW index \in Index \cup {NoIndex},
             MoveStart(r, t, c, index)
      PROVE  InOrder'
  <2> DEFINE q == [at |-> "move.place", id |-> t.id, col |-> TargetColumn(t, c),
                   index |-> index]
  <2>1. Fresh(q)
    BY DEF Fresh
  <2>2. Goto(r, q) /\ tasks' = tasks
    BY <1>4 DEF MoveStart
  <2> HIDE DEF q
  <2> QED
    BY <2>1, <2>2, GotoKeepsInOrder
<1>5. CASE PlaceAtEnd(r)
  <2>1. PICK pos \in EndPositions(req[r].col) : Goto(r, PlacedWrite(req[r], pos, <<>>))
    BY <1>5 DEF PlaceAtEnd
  <2> DEFINE q == PlacedWrite(req[r], pos, <<>>)
  <2>2. /\ q.index = NoIndex /\ q.col = req[r].col /\ q.pos = pos
        /\ q.at = "update.write" /\ q.moved = TRUE /\ q.order = <<>>
    BY <1>5 DEF PlaceAtEnd, PlacedWrite
  <2>3. Goto(r, q) /\ tasks' = tasks
    BY <1>5, <2>1 DEF PlaceAtEnd
  <2> HIDE DEF q
  <2>4. Fresh(q)
    BY <2>2, EndIsFree DEF Fresh, Rebalances
  <2> QED
    BY <2>3, <2>4, GotoKeepsInOrder
<1>6. ASSUME req[r].at = "move.place", NEW s \in Ordered(Others(req[r].col, req[r].id)),
             PlaceAmong(r, s)
      PROVE  InOrder'
  <2>1. req[r].index \in Nat /\ req[r].col \in Columns
    BY <1>2, <1>6, IndexAssumption DEF PlaceAmong, Index
  <2>2. CASE HasRoom(s, req[r].index)
    <3> DEFINE q == PlacedWrite(req[r], PositionAt(s, req[r].index), <<>>)
    <3>1. /\ q.index = req[r].index /\ q.col = req[r].col /\ q.id = req[r].id
          /\ q.pos = PositionAt(s, req[r].index)
          /\ q.at = "update.write" /\ q.moved = TRUE /\ q.order = <<>>
      BY DEF PlacedWrite
    <3>2. Goto(r, q) /\ tasks' = tasks
      BY <1>6, <2>2 DEF PlaceAmong
    <3> HIDE DEF q
    <3>3. PlaceIsFree(q)
      BY <1>6, <2>1, <2>2, <3>1, PlacedIsFree DEF InOrder
    <3>4. Fresh(q)
      BY <3>1, <3>3 DEF Fresh, Rebalances
    <3> QED
      BY <3>2, <3>4, GotoKeepsInOrder
  <2>3. CASE ~HasRoom(s, req[r].index)
    <3> DEFINE q == [req[r] EXCEPT !.at = "move.rebalance"]
    <3>1. q.at = "move.rebalance"
      BY <1>1, <1>6 DEF Request, Idle, Creating, Moving, Rebalancing, Updating, Deleting
    <3>2. Goto(r, q) /\ tasks' = tasks
      BY <1>6, <2>3 DEF PlaceAmong
    <3> HIDE DEF q
    <3>3. Fresh(q)
      BY <3>1 DEF Fresh
    <3> QED
      BY <3>2, <3>3, GotoKeepsInOrder
  <2> QED
    BY <2>2, <2>3
<1>7. ASSUME req[r].at = "move.rebalance", NEW s \in Ordered(Others(req[r].col, req[r].id)),
             Rebalance(r, s)
      PROVE  InOrder'
  <2> DEFINE q == PlacedWrite(req[r], req[r].index * Gap + Half, [i \in DOMAIN s |-> s[i].id])
  <2>1. req[r].index \in Index /\ req[r].col \in Columns
    BY <1>1, <1>7 DEF Request, Idle, Creating, Moving, Rebalancing, Updating, Deleting
  <2>2. /\ q.index = req[r].index /\ q.col = req[r].col /\ q.id = req[r].id
        /\ q.pos = q.index * Gap + Half /\ q.at = "update.write" /\ q.moved = TRUE
        /\ q.order = [i \in DOMAIN s |-> s[i].id]
    BY DEF PlacedWrite
  <2>3. Goto(r, q) /\ tasks' = tasks
    BY <1>7 DEF Rebalance
  <2> HIDE DEF q
  <2>4. Fresh(q)
    BY <1>7, <2>1, <2>2, RenumberingIsFresh
  <2> QED
    BY <2>3, <2>4, GotoKeepsInOrder
<1>8. CASE UpdateCommit(r)
  BY <1>8, UpdateCommitKeepsInOrder
<1> QED
  BY <1>3, <1>4, <1>5, <1>6, <1>7, <1>8 DEF UpdateStep

LEMMA NextKeepsAloneInv ==
  ASSUME AloneInv, [AloneNext]_<<vars, alone>>
  PROVE  AloneInv'
<1>1. CASE AloneNext
  <2>1. IInv'
    BY <1>1, NextKeepsIInv DEF AloneInv, AloneNext
  <2>2. ASSUME alone'
        PROVE  InOrder'
    <3>1. OneAtATime' /\ IInv /\ InOrder /\ Next
      BY <1>1, <2>2 DEF AloneInv, AloneNext
    <3>2. ASSUME NEW r \in Reqs, Abandon(r)
          PROVE  InOrder'
      <4>1. Fresh(Idle)
        BY DEF Fresh, Idle
      <4> QED
        BY <3>1, <3>2, <4>1, GotoKeepsInOrder DEF Abandon
    <3> QED
      BY <3>1, <3>2, CreateKeepsInOrder, UpdateStepKeepsInOrder, DeleteKeepsInOrder DEF Next
  <2> QED
    BY <2>1, <2>2 DEF AloneInv
<1>2. CASE UNCHANGED <<vars, alone>>
  <2>1. IInv'
    BY <1>2, NextKeepsIInv DEF AloneInv, vars
  <2>2. InOrder => InOrder'
    <3>1. tasks' = tasks /\ req' = req
      BY <1>2 DEF vars
    <3>2. \A r \in Reqs : Fresh(req[r]) => Fresh(req[r])'
      BY <3>1 DEF Fresh, PlaceIsFree, ListsTheOthers, TargetRow, TaskRow, Others, InColumn, Rebalances
    <3> QED
      BY <3>1, <3>2 DEF InOrder, OneAtATime, Busy, IdsAreUnique, PositionsDistinct, LogAgreesWithBoard
  <2> QED
    BY <1>2, <2>1, <2>2 DEF AloneInv
<1> QED
  BY <1>1, <1>2

LEMMA InitAloneInv == AloneInit => AloneInv
<1> SUFFICES ASSUME AloneInit
             PROVE  AloneInv
  OBVIOUS
<1>1. IInv
  BY InitIInv DEF AloneInit
<1>2. tasks = {} /\ \A r \in Reqs : req[r] = Idle
  BY DEF AloneInit, Init
<1>3. OneAtATime /\ IdsAreUnique /\ PositionsDistinct /\ LogAgreesWithBoard
  BY <1>2 DEF OneAtATime, Busy, IdsAreUnique, PositionsDistinct, LogAgreesWithBoard
<1>4. \A r \in Reqs : Fresh(req[r])
  BY <1>2 DEF Fresh, Idle
<1> QED
  BY <1>1, <1>3, <1>4 DEF AloneInv, InOrder

\* The inductive invariant of a board whose requests come one at a time.
THEOREM AloneInvariance == AloneSpec => []AloneInv
  BY InitAloneInv, NextKeepsAloneInv, PTL DEF AloneSpec

\* positionForIndex and rebalanceColumn: while requests come one at a time, no two
\* tasks of a column share a position.
THEOREM PositionsStayDistinct == AloneSpec => []PositionsDistinctAlone
<1>1. AloneInv => PositionsDistinctAlone
  BY DEF AloneInv, InOrder, PositionsDistinctAlone
<1> QED
  BY <1>1, AloneInvariance, PTL

\* create and update: while requests come one at a time, the last record of a task
\* says where it is.
THEOREM LogStaysTrue == AloneSpec => []LogAgreesWithBoardAlone
<1>1. AloneInv => LogAgreesWithBoardAlone
  BY DEF AloneInv, InOrder, LogAgreesWithBoardAlone
<1> QED
  BY <1>1, AloneInvariance, PTL

-----------------------------------------------------------------------------
\* Rows that are not the target's: left alone, or renumbered with their column.
LEMMA OtherRowsAfter ==
  ASSUME IInv, InOrder, NEW r \in Reqs, UpdateCommit(r),
         NEW t \in tasks, NEW v \in tasks', v.id = t.id, t.id # req[r].id
  PROVE  LET q == req[r]
         IN  /\ v.col = t.col
             /\ \/ v = t /\ \A i \in DOMAIN q.order : q.order[i] # t.id
                \/ \E i \in DOMAIN q.order : q.order[i] = t.id /\ v.pos = i * Gap
<1> DEFINE q == req[r]
<1>1. PICK u \in tasks :
        /\ v.id = u.id
        /\ \/ v = u /\ u.id # q.id /\ \A i \in DOMAIN q.order : q.order[i] # u.id
           \/ v.col = u.col /\ \E i \in DOMAIN q.order : q.order[i] = u.id /\ v.pos = i * Gap
           \/ u.id = q.id
  <2>1. \E u \in tasks :
               /\ v.id = u.id
               /\ \/ /\ v = u /\ u.id # q.id
                     /\ \A i \in DOMAIN q.order : q.order[i] # u.id
                  \/ \E i \in DOMAIN q.order :
                       /\ v.col = u.col /\ v.logged = u.logged /\ q.order[i] = u.id
                       /\ v = [u EXCEPT !.pos = i * Gap] /\ v.pos = i * Gap
                  \/ /\ u.id = q.id /\ v.col = q.col /\ v.pos = q.pos
                     /\ v.logged = (IF q.moved THEN q.col ELSE u.logged)
                     /\ v = [u EXCEPT !.col = q.col, !.pos = q.pos,
                                      !.logged = IF q.moved THEN q.col ELSE @]
    BY RowsAfter
  <2> HIDE DEF q
  <2> QED
    BY <2>1
<1>2. u = t
  <2> HIDE DEF q
  <2> QED
    BY <1>1 DEF InOrder, IdsAreUnique
<1> QED
  BY <1>1, <1>2

\* The target is in the column and at the place that its request computed.
LEMMA TargetAfter ==
  ASSUME IInv, InOrder, NEW r \in Reqs, UpdateCommit(r), NEW v \in tasks', v.id = req[r].id
  PROVE  v.col = req[r].col /\ v.pos = req[r].pos
<1> DEFINE q == req[r]
<1>1. \E u \in tasks :
             /\ v.id = u.id
             /\ \/ /\ v = u /\ u.id # q.id
                   /\ \A i \in DOMAIN q.order : q.order[i] # u.id
                \/ \E i \in DOMAIN q.order :
                     /\ v.col = u.col /\ v.logged = u.logged /\ q.order[i] = u.id
                     /\ v = [u EXCEPT !.pos = i * Gap] /\ v.pos = i * Gap
                \/ /\ u.id = q.id /\ v.col = q.col /\ v.pos = q.pos
                   /\ v.logged = (IF q.moved THEN q.col ELSE u.logged)
                   /\ v = [u EXCEPT !.col = q.col, !.pos = q.pos,
                                    !.logged = IF q.moved THEN q.col ELSE @]
  BY RowsAfter
<1>2. \A i \in DOMAIN q.order : q.order[i] # q.id
  <2>1. \A i \in DOMAIN q.order : \E t \in Others(q.col, q.id) : t.id = q.order[i]
    BY WritesApart DEF UpdateCommit
  <2> HIDE DEF q
  <2> QED
    BY <2>1 DEF Others
<1>3. v.id = q.id
  OBVIOUS
<1> HIDE DEF q
<1>4. v.col = q.col /\ v.pos = q.pos
  BY <1>1, <1>2, <1>3
<1> QED
  BY <1>4 DEF q

\* No row is lost: the others of a column before and after the commit have one id each.
LEMMA OthersRemain ==
  ASSUME IInv, InOrder, NEW r \in Reqs, UpdateCommit(r)
  PROVE  LET q == req[r]
         IN  \A t \in Others(q.col, q.id) :
               \E v \in tasks' : v.id = t.id /\ v.col = q.col /\ v.id # q.id
<1> DEFINE q == req[r]
<1> SUFFICES ASSUME NEW t \in Others(q.col, q.id)
             PROVE  \E v \in tasks' : v.id = t.id /\ v.col = q.col /\ v.id # q.id
  OBVIOUS
<1>1. tasks' = Untouched(q) \cup Renumbered(q.order) \cup Updated(q)
  BY DEF UpdateCommit
<1>2. t \in tasks /\ t \in Task /\ t.col = q.col /\ t.id # q.id
  BY DEF IInv, TypeOK, Others, InColumn
<1> HIDE DEF q
<1>3. CASE \A i \in DOMAIN q.order : q.order[i] # t.id
  BY <1>1, <1>2, <1>3 DEF Untouched
<1>4. ASSUME NEW i \in DOMAIN q.order, q.order[i] = t.id
      PROVE  \E v \in tasks' : v.id = t.id /\ v.col = q.col /\ v.id # q.id
  <2> DEFINE v == [t EXCEPT !.pos = i * Gap]
  <2>1. v \in Renumbered(q.order)
    <3>1. t \in TaskRow(q.order[i])
      BY <1>2, <1>4 DEF TaskRow
    <3>2. v \in {[u EXCEPT !.pos = i * Gap] : u \in TaskRow(q.order[i])}
      BY <3>1
    <3> HIDE DEF v
    <3> QED
      BY <3>2 DEF Renumbered
  <2>2. v.id = t.id /\ v.col = t.col
    BY <1>2 DEF Task
  <2> QED
    BY <1>1, <1>2, <2>1, <2>2
<1> QED
  BY <1>3, <1>4

LEMMA LandsWithRoom ==
  ASSUME IInv, InOrder, NEW r \in Reqs, UpdateCommit(r), req[r].moved,
         req[r].order = <<>>, req[r].index # NoIndex, NEW v \in tasks', v.id = req[r].id
  PROVE  Before(tasks', v) =
           Lower(req[r].index, Cardinality(Others(req[r].col, req[r].id)))
<1> DEFINE q == req[r]
           S == Others(q.col, q.id)
           T == {u \in tasks' : u.col = v.col /\ u.id # v.id /\ u.pos < v.pos}
<1>1. v.col = q.col /\ v.pos = q.pos /\ v.id = q.id
  BY TargetAfter
<1>2. q.at = "update.write" /\ q.order = <<>> /\ q.moved /\ q.index # NoIndex
  BY DEF UpdateCommit
<1>3. Fresh(q)
  BY DEF InOrder
<1>4. \A u \in tasks' : \E t \in tasks : u.id = t.id
  BY RowsAfter
<1>5. \A t \in tasks, u \in tasks' : u.id = t.id /\ t.id # q.id => u = t
  <2>1. \A t \in tasks, u \in tasks' : u.id = t.id /\ t.id # q.id =>
           (u = t \/ \E i \in DOMAIN q.order : q.order[i] = t.id /\ u.pos = i * Gap)
    BY OtherRowsAfter
  <2> HIDE DEF q
  <2> QED
    BY <1>2, <2>1
<1>6. \A t \in S : \E u \in tasks' : u.id = t.id
  BY OthersRemain
<1> HIDE DEF q
<1>7. \A t \in S : t \in tasks /\ t.col = q.col /\ t.id # q.id
  BY DEF Others, InColumn
<1>8. \A t \in tasks : t.col = q.col /\ t.id # q.id => t \in S
  BY DEF Others, InColumn
<1> HIDE DEF S
<1>9. T = {t \in S : t.pos < q.pos}
  <2>1. ASSUME NEW u \in T
        PROVE  u \in {t \in S : t.pos < q.pos}
    <3>1. PICK t \in tasks : u.id = t.id
      BY <1>4
    <3>2. u = t
      BY <1>1, <1>5, <3>1
    <3> QED
      BY <1>1, <1>8, <3>2
  <2>2. ASSUME NEW t \in S, t.pos < q.pos
        PROVE  t \in T
    <3>1. PICK u \in tasks' : u.id = t.id
      BY <1>6
    <3>2. u = t
      BY <1>5, <1>7, <3>1
    <3> QED
      BY <1>1, <1>7, <2>2, <3>2
  <2> QED
    BY <2>1, <2>2
<1>10. Cardinality({t \in S : t.pos < q.pos}) = Lower(q.index, Cardinality(S))
  BY <1>2, <1>3 DEF Fresh, Rebalances, PlaceIsFree, S
<1> QED
  BY <1>9, <1>10 DEF Before, S, q

LEMMA LandsByRebalancing ==
  ASSUME IInv, InOrder, IdsAreUnique', NEW r \in Reqs, UpdateCommit(r), req[r].moved,
         req[r].order # <<>>, NEW v \in tasks', v.id = req[r].id
  PROVE  Before(tasks', v) =
           Lower(req[r].index, Cardinality(Others(req[r].col, req[r].id)))
<1> DEFINE q == req[r]
           S == Others(q.col, q.id)
           T == {u \in tasks' : u.col = v.col /\ u.id # v.id /\ u.pos < v.pos}
           n == Len(q.order)
           k == Lower(q.index, n)
           old == [i \in 1..n |-> CHOOSE t \in S : t.id = q.order[i]]
           new == [i \in 1..n |-> CHOOSE u \in tasks' : u.id = q.order[i]]
<1>1. v.col = q.col /\ v.pos = q.pos /\ v.id = q.id
  BY TargetAfter
<1>2. q.order \in Seq(Nat)
  BY DEF UpdateCommit, IInv, TypeOK, Request, Idle, Creating, Moving, Rebalancing, Updating, Deleting
<1>3. q.index \in Nat /\ q.pos = q.index * Gap + Half
  BY WritesApart DEF UpdateCommit
<1>4. \A i, j \in DOMAIN q.order : q.order[i] = q.order[j] => i = j
  BY WritesApart DEF UpdateCommit
<1>5. \A i \in DOMAIN q.order : \E t \in S : t.id = q.order[i]
  BY WritesApart DEF UpdateCommit
<1>6. \A t \in S : \E i \in DOMAIN q.order : t.id = q.order[i]
  BY WritesApart DEF UpdateCommit
<1>7. \A u \in tasks' : \E t \in tasks : u.id = t.id
  BY RowsAfter
<1>8. \A t \in tasks, u \in tasks' : u.id = t.id /\ t.id # q.id =>
         /\ u.col = t.col
         /\ \/ u = t /\ \A i \in DOMAIN q.order : q.order[i] # t.id
            \/ \E i \in DOMAIN q.order : q.order[i] = t.id /\ u.pos = i * Gap
  BY OtherRowsAfter
<1>9. \A t \in S : \E u \in tasks' : u.id = t.id
  BY OthersRemain
<1> HIDE DEF q
<1>10. \A t \in S : t \in tasks /\ t.col = q.col /\ t.id # q.id
  BY DEF Others, InColumn
<1>11. \A t \in tasks : t.col = q.col /\ t.id # q.id => t \in S
  BY DEF Others, InColumn
<1>12. \A t, u \in S : t.id = u.id => t = u
  BY <1>10 DEF InOrder, IdsAreUnique
<1> HIDE DEF S
<1>13. n \in Nat /\ DOMAIN q.order = 1..n
  BY <1>2
<1>14. Cardinality(S) = n
  <2>1. \A i \in 1..n : old[i] \in S /\ old[i].id = q.order[i]
    BY <1>5, <1>13
  <2> DOMAIN old = 1..n
    OBVIOUS
  <2> HIDE DEF old
  <2>2. \A i, j \in 1..n : old[i] = old[j] => i = j
    BY <1>4, <1>13, <2>1
  <2>3. \A t \in S : \E i \in 1..n : old[i] = t
    <3> SUFFICES ASSUME NEW t \in S
                 PROVE  \E i \in 1..n : old[i] = t
      OBVIOUS
    <3>1. PICK i \in 1..n : t.id = q.order[i]
      BY <1>6, <1>13
    <3> QED
      BY <1>12, <2>1, <3>1
  <2> HIDE DEF n
  <2>4. /\ n \in Nat /\ n \in 0..n /\ DOMAIN old = 1..n
        /\ \A i, j \in 1..n : old[i] = old[j] => i = j
        /\ \A i \in 1..n : old[i] \in S
        /\ \A t \in S : \E i \in 1..n : old[i] = t
    BY <1>13, <2>1, <2>2, <2>3
  <2> QED
    BY <2>4, FirstOnes
<1>15. \A i \in 1..n : /\ new[i] \in tasks' /\ new[i].id = q.order[i]
                       /\ new[i].col = q.col /\ new[i].id # q.id /\ new[i].pos = i * Gap
  <2> SUFFICES ASSUME NEW i \in 1..n
               PROVE  /\ new[i] \in tasks' /\ new[i].id = q.order[i]
                      /\ new[i].col = q.col /\ new[i].id # q.id /\ new[i].pos = i * Gap
    OBVIOUS
  <2>1. PICK t \in S : t.id = q.order[i]
    BY <1>5, <1>13
  <2>2. new[i] \in tasks' /\ new[i].id = q.order[i]
    BY <1>9, <2>1
  <2> HIDE DEF new
  <2>3. t \in tasks /\ t.id # q.id /\ t.col = q.col
    BY <1>10
  <2>4. new[i].col = t.col /\ \E j \in DOMAIN q.order : q.order[j] = t.id /\ new[i].pos = j * Gap
    BY <1>8, <1>13, <2>1, <2>2, <2>3
  <2> QED
    BY <1>4, <1>13, <2>1, <2>2, <2>3, <2>4
<1> DOMAIN new = 1..n
  OBVIOUS
<1> HIDE DEF new, n
<1>16. \A i \in 1..n : i * Gap < q.pos <=> i <= q.index
  <2>1. \A i \in 1..n : i \in Nat
    BY <1>13
  <2>2. \A i \in 1..n : i * Gap < q.index * Gap + Half <=> i <= q.index
    BY <1>3, <2>1, HalfWay
  <2> QED
    BY <1>3, <2>2
<1>17. k \in 0..n /\ \A i \in 1..n : i <= k <=> i <= q.index
  BY <1>3, <1>13 DEF Lower
<1>18. \A i \in 1..k : i \in 1..n
  BY <1>13, <1>17
<1> HIDE DEF k
<1>19. \A i \in 1..k : new[i] \in T
  <2> SUFFICES ASSUME NEW i \in 1..k
               PROVE  new[i] \in T
    OBVIOUS
  <2>1. i \in 1..n /\ i <= k
    BY <1>13, <1>17, <1>18
  <2>2. i * Gap < q.pos
    BY <1>16, <1>17, <2>1
  <2> QED
    BY <1>1, <1>15, <2>1, <2>2
<1>20. \A u \in T : \E i \in 1..k : new[i] = u
  <2> SUFFICES ASSUME NEW u \in T
               PROVE  \E i \in 1..k : new[i] = u
    OBVIOUS
  <2>1. PICK t \in tasks : u.id = t.id
    BY <1>7
  <2>2. u \in tasks' /\ u.col = q.col /\ u.id # q.id /\ u.pos < q.pos
    BY <1>1
  <2>3. t \in S
    BY <1>8, <1>11, <2>1, <2>2
  <2>4. PICK i \in 1..n : q.order[i] = t.id
    BY <1>6, <1>13, <2>3
  <2>5. new[i] = u
    BY <1>15, <2>1, <2>2, <2>4 DEF IdsAreUnique
  <2>6. i <= k
    BY <1>15, <1>16, <1>17, <2>2, <2>5
  <2>7. i \in 1..k
    BY <1>13, <1>17, <2>6
  <2> QED
    BY <2>5, <2>7
<1>21. \A i, j \in 1..n : new[i] = new[j] => i = j
  BY <1>4, <1>13, <1>15
<1> HIDE DEF T
<1>22. /\ n \in Nat /\ k \in 0..n /\ DOMAIN new = 1..n
       /\ \A i, j \in 1..n : new[i] = new[j] => i = j
       /\ \A i \in 1..k : new[i] \in T
       /\ \A u \in T : \E i \in 1..k : new[i] = u
  BY <1>13, <1>17, <1>19, <1>20, <1>21
<1>23. Cardinality(T) = k
  BY <1>22, FirstOnes
<1> QED
  BY <1>14, <1>23 DEF Before, T, S, q, k

\* The move that commits puts its task where it was asked to.
LEMMA CommitLands ==
  ASSUME IInv, InOrder, IdsAreUnique'
  PROVE  Landed
<1> SUFFICES ASSUME NEW r \in Reqs, UpdateCommit(r), req[r].index # NoIndex,
                    NEW v \in tasks', v.id = req[r].id
             PROVE  /\ v.col = req[r].col
                    /\ Before(tasks', v) =
                         Lower(req[r].index, Cardinality(Others(v.col, v.id)))
  BY DEF Landed
<1>1. v.col = req[r].col
  BY TargetAfter
<1>2. req[r].moved
  <2>1. Fresh(req[r]) /\ req[r].at = "update.write"
    BY DEF InOrder, UpdateCommit
  <2> QED
    BY <2>1 DEF Fresh
<1>3. Before(tasks', v) =
        Lower(req[r].index, Cardinality(Others(req[r].col, req[r].id)))
  BY <1>2, LandsWithRoom, LandsByRebalancing
<1> QED
  BY <1>1, <1>3

\* Rows that the commit does not move keep their order, renumbered or not.
LEMMA CommitKeepsOrder ==
  ASSUME IInv, InOrder, NEW r \in Reqs, UpdateCommit(r),
         NEW t \in tasks, NEW u \in tasks, NEW v \in tasks', NEW w \in tasks',
         t.id = v.id, u.id = w.id, t.col = u.col,
         t.id # req[r].id, u.id # req[r].id, t.pos < u.pos
  PROVE  v.pos < w.pos
<1> DEFINE q == req[r]
           S == Others(q.col, q.id)
           Same(x, y) == y = x /\ \A i \in DOMAIN q.order : q.order[i] # x.id
           Renum(x, y) == \E i \in DOMAIN q.order : q.order[i] = x.id /\ y.pos = i * Gap
<1>1. Same(t, v) \/ Renum(t, v)
  BY OtherRowsAfter
<1>2. Same(u, w) \/ Renum(u, w)
  BY OtherRowsAfter
<1>3. \A i \in DOMAIN q.order : \E x \in S : x.id = q.order[i]
  BY WritesApart DEF UpdateCommit
<1>4. \A x \in S : \/ q.order = <<>> /\ x.pos # q.pos
                   \/ \E i \in DOMAIN q.order : x.id = q.order[i]
  BY WritesApart DEF UpdateCommit
<1>5. Fresh(q) /\ q.at = "update.write" /\ q.order \in Seq(Nat)
  BY DEF InOrder, UpdateCommit, IInv, TypeOK, Request, Idle, Creating, Moving, Rebalancing,
         Updating, Deleting
<1>6. \A x \in tasks : x \in S <=> x.col = q.col /\ x.id # q.id
  BY DEF Others, InColumn
<1>7. S \subseteq tasks
  BY DEF Others, InColumn
<1>8. t.id # q.id /\ u.id # q.id
  OBVIOUS
<1>9. DOMAIN q.order \subseteq Nat /\ (q.order = <<>> => DOMAIN q.order = {})
  BY <1>5
<1> HIDE DEF q
<1>10. \A x, y \in tasks : x.id = y.id => x = y
  BY DEF InOrder, IdsAreUnique
<1>11. \A x \in tasks, i \in DOMAIN q.order : q.order[i] = x.id => x \in S
  BY <1>3, <1>7, <1>10
<1> HIDE DEF S
<1>12. CASE Renum(t, v) /\ Renum(u, w)
  <2>1. PICK i \in DOMAIN q.order : q.order[i] = t.id /\ v.pos = i * Gap
    BY <1>12
  <2>2. PICK j \in DOMAIN q.order : q.order[j] = u.id /\ w.pos = j * Gap
    BY <1>12
  <2>3. t \in S /\ u \in S
    BY <1>11, <2>1, <2>2
  <2>4. ListsTheOthers(q)
    BY <1>5, <1>9, <2>1 DEF Fresh, Rebalances
  <2>5. i < j
    BY <2>1, <2>2, <2>3, <2>4 DEF ListsTheOthers, S
  <2> QED
    BY <1>9, <2>1, <2>2, <2>5, GapKeepsOrder
<1>13. CASE Same(t, v) /\ Same(u, w)
  BY <1>13
<1>14. ASSUME Renum(t, v) \/ Renum(u, w)
       PROVE  ~Same(t, v) /\ ~Same(u, w)
  <2>1. t \in S \/ u \in S
    BY <1>11, <1>14
  <2>2. t \in S /\ u \in S
    BY <1>6, <1>8, <2>1
  <2>3. q.order # <<>>
    BY <1>9, <1>14
  <2> QED
    BY <1>4, <2>2, <2>3
<1> QED
  BY <1>1, <1>2, <1>12, <1>13, <1>14

\* Where no row changes, or one only comes or goes, the order stays.
LEMMA StepKeepsOrder ==
  ASSUME IInv, InOrder, [Next]_vars
  PROVE  Kept
<1> SUFFICES ASSUME NEW t \in tasks, NEW u \in tasks, NEW v \in tasks', NEW w \in tasks',
                    t.id = v.id, u.id = w.id, t.col = u.col,
                    \A r \in Reqs : req[r].at = "update.write" => req[r].id \notin {t.id, u.id},
                    t.pos < u.pos
             PROVE  v.pos < w.pos
  BY DEF Kept
<1>1. CASE \E r \in Reqs : UpdateCommit(r)
  <2>1. PICK r \in Reqs : UpdateCommit(r)
    BY <1>1
  <2>2. req[r].at = "update.write"
    BY <2>1 DEF UpdateCommit
  <2>3. t.id # req[r].id /\ u.id # req[r].id
    BY <2>2
  <2> QED
    BY <2>1, <2>3, CommitKeepsOrder
<1>2. CASE \E r \in Reqs : CreateCommit(r)
  <2>1. PICK r \in Reqs : CreateCommit(r)
    BY <1>2
  <2>2. \A x \in tasks' : x \in tasks \/ x.id = nextTask
    BY <2>1 DEF CreateCommit
  <2>3. \A x \in tasks : x.id < nextTask /\ x.id \in Nat /\ nextTask \in Nat
    BY DEF IInv, IdsAreFresh, TypeOK, Task
  <2>4. v \in tasks /\ w \in tasks
    BY <2>2, <2>3
  <2> QED
    BY <2>4 DEF InOrder, IdsAreUnique
<1>3. CASE tasks' \subseteq tasks
  BY <1>3 DEF InOrder, IdsAreUnique
<1>4. \/ \E r \in Reqs : UpdateCommit(r)
      \/ \E r \in Reqs : CreateCommit(r)
      \/ tasks' \subseteq tasks
  BY DEF Next, vars, CreateStart, UpdateStep, EditStart, MoveStart, PlaceAtEnd, PlaceAmong,
         Rebalance, DeleteStart, DeleteCommit, Abandon
<1> QED
  BY <1>1, <1>2, <1>3, <1>4

\* update: while requests come one at a time, a move lands at the index it asked for,
\* and no other two tasks change their order, also when their column is renumbered.
THEOREM MovesLand == AloneSpec => MovesLandAlone
<1>1. AloneInv /\ AloneInv' /\ [AloneNext]_<<vars, alone>>
        => [alone' => Landed /\ Kept]_<<vars, alone>>
  <2> SUFFICES ASSUME AloneInv, AloneInv', AloneNext, alone'
               PROVE  Landed /\ Kept
    OBVIOUS
  <2>1. IInv /\ InOrder /\ Next /\ IdsAreUnique'
    BY DEF AloneInv, AloneNext, InOrder
  <2> QED
    BY <2>1, CommitLands, StepKeepsOrder
<1> QED
  BY <1>1, AloneInvariance, PTL DEF AloneSpec, MovesLandAlone
=============================================================================
