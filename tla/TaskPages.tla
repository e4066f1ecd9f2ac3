------------------------------ MODULE TaskPages ------------------------------
(***************************************************************************)
(* Keyset pagination: a client walks the pages of a project's tasks        *)
(* (listProjectTasks), or of a task's activity (listActivity), following   *)
(* nextCursor until it is null, while others create, delete and edit tasks.*)
(***************************************************************************)
EXTENDS Naturals, FiniteSets

CONSTANTS Ids,        \* ids of tasks, in their order as strings
          Times,      \* createdAt and dueAt
          Null,       \* no dueAt
          limit,      \* clampLimit: at least 1
          MaxChanges  \* bound: changes during the walk

VARIABLES sort,       \* the query's sort; "activity" for the other list
          rows,       \* tasks that are there and pass the query's filters
          createdAt,  \* never changes
          dueAt,      \* Null if the task has none
          cursor,     \* Start, a value and an id, or End
          seen,       \* how often the walk has listed each task
          stayed,     \* history: rows since the walk began
          moved,      \* history: tasks whose sort value has changed since
          cut,        \* history: a page ended in a task with a null value
          changes

vars == <<sort, rows, createdAt, dueAt, cursor, seen, stayed, moved, cut, changes>>

-----------------------------------------------------------------------------
At(t, value) == [at |-> "row", value |-> value, id |-> t]
Start == [at |-> "start"]
End == [at |-> "end"]

Sorts == {"createdAt", "-createdAt", "dueAt", "-dueAt", "activity"}

ByDueDate == sort \in {"dueAt", "-dueAt"}
Descending == sort \in {"-createdAt", "-dueAt", "activity"}

Value(t) == IF ByDueDate THEN dueAt[t] ELSE createdAt[t]

\* x before y in the order of the list, for two values or two ids.
Precedes(x, y) == IF Descending THEN x > y ELSE x < y

\* orderBy: PostgreSQL has nulls last in ascending order and first in descending order.
Before(s, t) ==
  \/ Value(s) = Value(t) /\ Precedes(s, t)
  \/ Value(s) = Null /\ Value(t) # Null /\ Descending
  \/ Value(s) # Null /\ Value(t) = Null /\ ~Descending
  \/ Value(s) # Null /\ Value(t) # Null /\ Precedes(Value(s), Value(t))

\* A bug to catch: a cursor without the id.
AfterValue(t) == cursor = Start \/ (Value(t) # Null /\ Precedes(cursor.value, Value(t)))

\* A bug to catch: `lte` where it should be `lt`.
AtOrAfter(t) ==
  \/ cursor = Start
  \/ /\ Value(t) # Null
     /\ Precedes(cursor.value, Value(t)) \/ (Value(t) = cursor.value /\ ~Precedes(t, cursor.id))

\* where.OR: a comparison with null is not true.
After(t) ==
  \/ cursor = Start
  \/ /\ Value(t) # Null
     /\ \/ Precedes(cursor.value, Value(t))
        \/ Value(t) = cursor.value /\ Precedes(cursor.id, t)

Init == /\ sort \in Sorts
        /\ rows \in SUBSET Ids
        /\ createdAt \in [Ids -> Times]
        /\ dueAt \in [Ids -> Times \cup {Null}]
        /\ cursor = Start
        /\ seen = [t \in Ids |-> 0]
        /\ stayed = rows /\ moved = {} /\ cut = FALSE /\ changes = 0

-----------------------------------------------------------------------------

\* take: limit + 1, rows.length > limit
IsMore(matching) == Cardinality(matching) > limit

\* cursorValue instanceof Date
IsDate(value) == value # Null

\* A call of listProjectTasks or listActivity with the cursor of the page before.
NextPage ==
  /\ cursor # End
  /\ LET matching == {t \in rows : After(t)}
         items == {t \in matching : Cardinality({s \in matching : Before(s, t)}) < limit}
         last == CHOOSE t \in items : \A s \in items : s = t \/ Before(s, t)
         more == IsMore(matching)
     IN /\ seen' = [t \in Ids |-> IF t \in items THEN seen[t] + 1 ELSE seen[t]]
        /\ cursor' = IF more /\ IsDate(Value(last))
                     THEN At(last, Value(last)) ELSE End
        /\ cut' = (more /\ Value(last) = Null)
  /\ UNCHANGED <<sort, rows, createdAt, dueAt, stayed, moved, changes>>

\* The others.  Rows of the activity log are not edited, and deleted with the task only.
Changed == cursor # End /\ changes < MaxChanges /\ changes' = changes + 1

\* A task is created, or an edit lets it pass the filters.
Enter(t) ==
  /\ Changed /\ t \notin rows
  /\ rows' = rows \cup {t}
  /\ UNCHANGED <<sort, createdAt, dueAt, cursor, seen, stayed, moved, cut>>

Leave(t) ==
  /\ Changed /\ t \in rows /\ sort # "activity"
  /\ rows' = rows \ {t} /\ stayed' = stayed \ {t}
  /\ UNCHANGED <<sort, createdAt, dueAt, cursor, seen, moved, cut>>

\* update with a dueAt: there is no way back to none.
Reschedule(t, due) ==
  /\ Changed /\ t \in rows /\ ByDueDate /\ due # dueAt[t]
  /\ dueAt' = [dueAt EXCEPT ![t] = due]
  /\ moved' = moved \cup {t}
  /\ UNCHANGED <<sort, rows, createdAt, cursor, seen, stayed, cut>>

OthersWrite == \E t \in Ids : Enter(t) \/ Leave(t) \/ \E due \in Times : Reschedule(t, due)

Next == NextPage \/ OthersWrite

Spec == Init /\ [][Next]_vars

-----------------------------------------------------------------------------
Cursor == [at: {"row"}, value: Times, id: Ids] \cup {Start, End}

TypeOK ==
  /\ sort \in Sorts
  /\ rows \subseteq Ids /\ stayed \subseteq rows /\ moved \subseteq Ids
  /\ createdAt \in [Ids -> Times]
  /\ dueAt \in [Ids -> Times \cup {Null}]
  /\ cursor \in Cursor
  /\ seen \in [Ids -> Nat]
  /\ cut \in BOOLEAN /\ (cut => cursor = End)
  /\ changes \in 0 .. MaxChanges

\* "walk pages via nextCursor until null, assert no dupes": also while others write, as
\* long as the task's own sort value does not change.
NoTaskTwice == \A t \in Ids \ moved : seen[t] <= 1

\* "... no missing": a task that was there all the time has been listed at the end,
\* unless its due date was changed, or the list is sorted by due dates and either it has
\* none, or a page before ended in a task that has none.
NoTaskMissing ==
  cursor = End =>
    \A t \in stayed \ moved : seen[t] = 1 \/ (ByDueDate /\ (dueAt[t] = Null \/ cut))
=============================================================================
