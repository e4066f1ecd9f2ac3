----------------------------- MODULE Assignments -----------------------------
(***************************************************************************)
(* The assignees of one task: create, update and delete of                 *)
(* tasks.service.ts behind the checks of workspace-access.service.ts, the  *)
(* buttons of task-panel.tsx, and the notification jobs of jobs.service.ts.*)
(*                                                                         *)
(* An update's transaction starts with the write to the task's row, whose  *)
(* lock it then holds: it reads the assignees it replaces under the lock.  *)
(* PostgreSQL's locks and BullMQ's queue are external; a job here is known *)
(* by its user, as there is one task and one type of notification.         *)
(***************************************************************************)
EXTENDS Roles, Sequences, FiniteSets

CONSTANTS Users,
          Reqs,       \* request slots: how many requests are in flight at once
          MaxLog,     \* bound: replacements of the assignees
          MaxChanges  \* bound: changes of a role, and faults

ASSUME UsersAssumption == IsFiniteSet(Users)

Nobody == "nobody"

ASSUME ReqsAssumption == Nobody \notin Reqs

VARIABLES role,         \* WorkspaceMember.role, NotMember without a row
          ever,         \* history: who has been a member
          task,         \* "none", "there", "gone"
          assignees,    \* the TaskAssignee rows
          first,        \* history: the assignees it was created with
          log,          \* its task.assignees_changed records
          lock,         \* the request that holds the lock of the task's row
          req,          \* the requests, and the open panels they come from
          job,          \* the notification job of each user
          undelivered,  \* history: assigned by another, no delivery since
          why,          \* history: what became of that delivery
          changes       \* how many of MaxChanges have happened

rows == <<task, assignees, first, log>>
queue == <<job, undelivered, why>>
vars == <<role, ever, rows, lock, req, queue, changes>>

-----------------------------------------------------------------------------
NotMember == "none"
Idle == [at |-> "idle"]

Members == {u \in Users : role[u] # NotMember}

\* requireBoard, requireTask
requireMembership(a) == role[a] # NotMember

\* assertCanWrite
assertCanWrite(a) == requireMembership(a) /\ HasAtLeast(role[a], "MEMBER")

\* count equals the number of ids; uniqueIds has removed repeated ones.
assertWorkspaceMembers(op, ids) == ids \subseteq Members

\* A bug to catch: an update that reads the previous assignees without the lock.
AnyTime == task = "there"

LockIsFree == task = "there" /\ lock = Nobody

Init == /\ role \in [Users -> {NotMember, "MEMBER"}]
        /\ ever = Members
        /\ task = "none" /\ assignees = {} /\ first = {} /\ log = <<>>
        /\ lock = Nobody
        /\ req = [r \in Reqs |-> Idle]
        /\ job = [u \in Users |-> "none"]
        /\ undelivered = {}
        /\ why = [u \in Users |-> {}]
        /\ changes = 0

-----------------------------------------------------------------------------
\* Invites, roles and removals: WorkspaceMembers.  No row of the task changes.
ChangeRole(u, to) ==
  /\ changes < MaxChanges /\ to # role[u]
  /\ role' = [role EXCEPT ![u] = to]
  /\ ever' = ever \cup {v \in {u} : to # NotMember}
  /\ changes' = changes + 1
  /\ UNCHANGED <<rows, lock, req, queue>>

Request(a, op, want, previous) ==
  [at |-> "checked", op |-> op, by |-> a, want |-> want, previous |-> previous,
   toggled |-> a, base |-> Len(log), left |-> {}]

Start(r, request) ==
  /\ req[r] = Idle
  /\ req' = [req EXCEPT ![r] = request]
  /\ UNCHANGED <<role, ever, rows, lock, queue, changes>>

\* POST boards/:boardId/tasks, DELETE tasks/:taskId
AskCreate(r, a, want) ==
  /\ task = "none" /\ \A s \in Reqs : req[s] = Idle
  /\ assertCanWrite(a)
  /\ Start(r, Request(a, "create", want, {}))

AskDelete(r, a) ==
  /\ task = "there"
  /\ assertCanWrite(a)
  /\ Start(r, Request(a, "delete", {}, {}))

\* GET tasks/:taskId: the panel of user a, with the assignees as they are now.
getDetail(r, a) ==
  /\ task = "there" /\ Len(log) < MaxLog
  /\ requireMembership(a)
  /\ Start(r, [Request(a, "update", assignees, {}) EXCEPT !.at = "open"])

\* A bug to catch: the button sends the one user.
OnlyThat(shown, u) == {u}

\* What the button sends: the assignees the panel shows, with or without u.
Toggled(shown, u) == IF u \in shown THEN shown \ {u} ELSE shown \cup {u}

\* PATCH tasks/:taskId
toggleAssignee(r, u) ==
  /\ req[r].at = "open"
  /\ assertCanWrite(req[r].by)
  /\ req' = [req EXCEPT ![r].at = "checked", ![r].toggled = u,
                        ![r].want = Toggled(req[r].want, u)]
  /\ UNCHANGED <<role, ever, rows, lock, queue, changes>>

-----------------------------------------------------------------------------
\* The transaction of create or update up to its writes to TaskAssignee.
BeginWrite(r) ==
  /\ req[r].at = "checked" /\ req[r].op # "delete"
  /\ req[r].op = "update" => LockIsFree
  /\ assertWorkspaceMembers(req[r].op, req[r].want)
  /\ req' = [req EXCEPT ![r].at = "writing", ![r].previous = assignees]
  /\ lock' = IF req[r].op = "update" THEN r ELSE lock
  /\ UNCHANGED <<role, ever, rows, queue, changes>>

\* 400, 403, 404, or an error of the database: the transaction is rolled back.  Or the
\* panel is closed.
Refused(r) ==
  /\ req[r].at \in {"open", "checked", "writing"}
  /\ req' = [req EXCEPT ![r] = Idle]
  /\ lock' = IF lock = r THEN Nobody ELSE lock
  /\ UNCHANGED <<role, ever, rows, queue, changes>>

Added(r) == req[r].want \ req[r].previous

create(r) ==
  /\ req[r].op = "create"
  /\ task = "none" /\ task' = "there"
  /\ assignees' = req[r].want /\ first' = req[r].want
  /\ UNCHANGED log

\* task.assignees_changed, in the transaction of the change.
recordActivity(r) ==
  log' = Append(log, [added |-> Added(r), removed |-> req[r].previous \ req[r].want,
                      toggled |-> req[r].toggled, base |-> req[r].base])

\* With the lock held the row is still there.
update(r) ==
  /\ req[r].op = "update"
  /\ task = "there"
  /\ assignees' = req[r].want
  /\ recordActivity(r)
  /\ UNCHANGED <<task, first>>

\* notifyAssignees has `left` users to go; then the request is answered.
Notifying(r, left) ==
  IF left = {} THEN Idle ELSE [at |-> "notifying", by |-> req[r].by, left |-> left]

\* deleteMany, createMany, the record and the commit; then notifyAssignees starts.
Commit(r) ==
  /\ req[r].at = "writing"
  /\ create(r) \/ update(r)
  /\ lock' = IF lock = r THEN Nobody ELSE lock
  /\ req' = [req EXCEPT ![r] = Notifying(r, Added(r))]
  /\ undelivered' = undelivered \cup (Added(r) \ {req[r].by})
  /\ why' = [u \in Users |-> IF u \in Added(r) \ {req[r].by} THEN {} ELSE why[u]]
  /\ UNCHANGED <<role, ever, job, changes>>

\* A bug to catch: a foreign key that keeps the rows.
RowsKept == assignees

\* onDelete: Cascade
Cascaded == {}

delete(r) ==
  /\ req[r].at = "checked" /\ req[r].op = "delete"
  /\ LockIsFree
  /\ task' = "gone" /\ assignees' = Cascaded
  /\ req' = [req EXCEPT ![r] = Idle]
  /\ UNCHANGED <<role, ever, first, log, lock, queue, changes>>

-----------------------------------------------------------------------------
\* A bug to catch: `return` where the actor is skipped.
UpToTheActor(r, u) == IF u = req[r].by THEN {} ELSE req[r].left \ {u}

Remaining(r, u) == req[r].left \ {u}

Lost(S, reason) ==
  why' = [u \in Users |-> IF u \in S \cap undelivered THEN why[u] \cup {reason} ELSE why[u]]

\* addBestEffort: an id that is on record, also of a finished job, adds nothing.
enqueueNotification(u) ==
  /\ job' = [job EXCEPT ![u] = IF @ = "none" THEN "waiting" ELSE @]
  /\ Lost({v \in {u} : job[v] = "kept"}, "on record")
  /\ UNCHANGED changes

\* It only logs that Redis is away.
NotEnqueued(u) ==
  /\ changes < MaxChanges /\ changes' = changes + 1
  /\ Lost({u}, "redis")
  /\ UNCHANGED job

NotifyNext(r, u) ==
  /\ req[r].at = "notifying" /\ u \in req[r].left
  /\ req' = [req EXCEPT ![r] = Notifying(r, Remaining(r, u))]
  /\ IF u = req[r].by THEN UNCHANGED <<job, why, changes>>
                      ELSE enqueueNotification(u) \/ NotEnqueued(u)
  /\ UNCHANGED <<role, ever, rows, lock, undelivered>>

Notifiers == {r \in Reqs : req[r].at = "notifying"}

\* The process dies; the database rolls back what was not committed.
Crash ==
  /\ changes < MaxChanges /\ changes' = changes + 1
  /\ \E r \in Reqs : req[r] # Idle
  /\ req' = [r \in Reqs |-> Idle]
  /\ lock' = Nobody
  /\ Lost(UNION {req[r].left : r \in Notifiers}, "crash")
  /\ UNCHANGED <<role, ever, rows, job, undelivered>>

-----------------------------------------------------------------------------
\* The worker: process logs the delivery and cannot fail.
process(u) ==
  /\ job[u] = "waiting"
  /\ job' = [job EXCEPT ![u] = "kept"]
  /\ undelivered' = undelivered \ {u}
  /\ UNCHANGED <<role, ever, rows, lock, req, why, changes>>

\* removeOnComplete: 1000 others have finished since.
Removed(u) ==
  /\ job[u] = "kept"
  /\ job' = [job EXCEPT ![u] = "none"]
  /\ UNCHANGED <<role, ever, rows, lock, req, undelivered, why, changes>>

Next ==
  \/ \E u \in Users, to \in {NotMember, "VIEWER", "MEMBER"} : ChangeRole(u, to)
  \/ \E r \in Reqs, a \in Users :
       \/ \E want \in SUBSET Users : AskCreate(r, a, want)
       \/ getDetail(r, a) \/ toggleAssignee(r, a)
       \/ AskDelete(r, a)
       \/ NotifyNext(r, a)
  \/ \E r \in Reqs : BeginWrite(r) \/ Refused(r) \/ Commit(r) \/ delete(r)
  \/ Crash
  \/ \E u \in Users : process(u) \/ Removed(u)

Spec == Init /\ [][Next]_vars

-----------------------------------------------------------------------------
(***************************************************************************)
(* Properties                                                              *)
(***************************************************************************)
Record == [added: SUBSET Users, removed: SUBSET Users, toggled: Users, base: Nat]

TypeOK ==
  /\ role \in [Users -> Role \cup {NotMember}]
  /\ Members \subseteq ever /\ ever \subseteq Users
  /\ task \in {"none", "there", "gone"}
  /\ assignees \subseteq Users /\ (task # "there" => assignees = {})
  /\ first \subseteq Users
  /\ log \in Seq(Record)
  /\ lock \in Reqs \cup {Nobody} /\ (lock # Nobody => req[lock].at = "writing")
  /\ \A r \in Reqs : req[r] = Idle \/ (req[r].by \in Users /\ req[r].left \subseteq Users)
  /\ job \in [Users -> {"none", "waiting", "kept"}]
  /\ undelivered \subseteq Users

Mentions(u) == {i \in DOMAIN log : u \in log[i].added \cup log[i].removed}

\* The activity of a task tells who is assigned: a user is, if the last record that
\* names him says `added`, or none names him and the task was created with him; and no
\* record adds whom the one before has added.  However many replacements run at once.
LogTellsTheAssignees ==
  task = "there" =>
    \A u \in Users :
      LET last == {i \in Mentions(u) : \A j \in Mentions(u) : j <= i}
          Was(i) == IF \E j \in Mentions(u) : j < i
                    THEN \E j \in Mentions(u) : /\ j < i /\ u \in log[j].added
                                                /\ \A k \in Mentions(u) : k <= j \/ k >= i
                    ELSE u \in first
      IN /\ u \in assignees <=> (IF last = {} THEN u \in first
                                 ELSE \E i \in last : u \in log[i].added)
         /\ \A i \in Mentions(u) : u \in log[i].added <=> ~Was(i)

\* A button of the panel assigns or unassigns its user and nobody else, unless others
\* changed the assignees after the panel had read them.
TogglesAreNarrow ==
  \A i \in DOMAIN log :
    log[i].added \cup log[i].removed \subseteq {log[i].toggled} \/ log[i].base < i - 1

\* Whoever was assigned by another will hear of it from the queue ("durable delivery"),
\* or the process died, or Redis was away, or the job of an earlier assignment was still
\* on record.
AssignedAreTold ==
  \A u \in undelivered :
    \/ why[u] # {}
    \/ job[u] = "waiting"
    \/ \E r \in Notifiers : u \in req[r].left /\ u # req[r].by
=============================================================================
