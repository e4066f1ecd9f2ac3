------------------------- MODULE AssignmentsProofs -------------------------
(***************************************************************************)
(* Proofs about Assignments, for any number of users, requests and         *)
(* replacements.  The log agrees with the assignees because an update that *)
(* has read them holds the lock of the task's row until it commits         *)
(* (`RequestOK`); a button changes one user because what a panel showed is *)
(* what there is as long as no record has been added since.                *)
(***************************************************************************)
EXTENDS Assignments, TLAPS

InFlight(r) == req[r].at \in {"open", "checked", "writing"}

\* A request on its way to a commit, and one that has committed and notifies.
Flight == [at: {"open", "checked", "writing"}, op: {"create", "update", "delete"}, by: Users,
           want: SUBSET Users, previous: SUBSET Users, toggled: Users, base: Nat,
           left: {{}}]

Notification == [at: {"notifying"}, by: Users, left: (SUBSET Users) \ {{}}]

Creating(r) == InFlight(r) /\ req[r].op = "create"

RequestOK(r) ==
  /\ req[r] = Idle \/ req[r] \in Flight \/ req[r] \in Notification
  /\ InFlight(r) =>
       /\ req[r].base <= Len(log)
       /\ IF Creating(r) THEN task = "none" /\ req[r].at # "open" ELSE task # "none"
       /\ req[r].op = "delete" => req[r].at = "checked"
       /\ req[r].at = "writing" => req[r].previous = assignees
       /\ req[r].at = "writing" /\ req[r].op = "update" => lock = r /\ task = "there"
       /\ req[r].op = "update" /\ task = "there" /\ req[r].base = Len(log) =>
            req[r].want = IF req[r].at = "open" THEN assignees
                          ELSE Toggled(assignees, req[r].toggled)

\* One request creates the task, and an update holds the lock.
RequestsOK ==
  /\ req = [r \in Reqs |-> req[r]]
  /\ lock # Nobody => req[lock].op = "update"
  /\ \A r, s \in Reqs : Creating(r) /\ Creating(s) => r = s
  /\ \A r \in Reqs : RequestOK(r)

\* A user who is mentioned at all is mentioned a last time.
LogOK ==
  /\ task = "none" => log = <<>>
  /\ \A u \in Users : Mentions(u) # {} =>
       \E i \in Mentions(u) : \A j \in Mentions(u) : j <= i
  /\ LogTellsTheAssignees
  /\ TogglesAreNarrow

JobsOK ==
  /\ why \in [Users -> SUBSET {"on record", "redis", "crash"}]
  /\ AssignedAreTold

IInv == TypeOK /\ RequestsOK /\ LogOK /\ JobsOK

-----------------------------------------------------------------------------
\* The slots' records tell their kinds.
LEMMA Shapes ==
  ASSUME NEW r, RequestOK(r)
  PROVE  /\ InFlight(r) => req[r] \in Flight
         /\ req[r].at = "notifying" => req[r] \in Notification
         /\ ~InFlight(r) /\ req[r].at # "notifying" => req[r] = Idle
BY DEF RequestOK, InFlight, Flight, Notification, Idle

\* A request that a step does not touch, when the rows stay as they are.
LEMMA Untouched ==
  ASSUME NEW r, RequestOK(r), req'[r] = req[r], UNCHANGED rows, lock = r => lock' = r
  PROVE  RequestOK(r)' /\ (Creating(r)' <=> Creating(r))
BY DEF RequestOK, InFlight, Creating, rows

\* What is told of the rows stays so when the rows stay.
LEMMA SameRows ==
  ASSUME LogOK, UNCHANGED rows
  PROVE  LogOK'
BY DEF LogOK, LogTellsTheAssignees, TogglesAreNarrow, Mentions, rows

\* Who waits for a delivery goes on to, if the queue and the notifying requests stay.
LEMMA StillTold ==
  ASSUME JobsOK, UNCHANGED queue, \A r \in Notifiers : req'[r] = req[r]
  PROVE  JobsOK'
<1>1. UNCHANGED <<job, undelivered, why>> /\ Notifiers \subseteq Notifiers'
  BY DEF queue, Notifiers
<1>2. ASSUME NEW u \in undelivered, NEW r \in Notifiers, u \in req[r].left, u # req[r].by
      PROVE  \E s \in Notifiers' : u \in req'[s].left /\ u # req'[s].by
  BY <1>1, <1>2
<1>3. AssignedAreTold'
  BY <1>1, <1>2 DEF JobsOK, AssignedAreTold
<1>4. QED  BY <1>1, <1>3 DEF JobsOK

LEMMA InitOK == Init => IInv
<1> SUFFICES ASSUME Init  PROVE IInv
  OBVIOUS
<1>1. TypeOK
  BY DEF Init, TypeOK, Members, NotMember, Role, Idle, Record
<1>2. RequestsOK
  BY DEF Init, RequestsOK, RequestOK, Creating, InFlight, Idle
<1>3. LogOK
  BY DEF Init, LogOK, LogTellsTheAssignees, TogglesAreNarrow, Mentions
<1>4. JobsOK
  BY DEF Init, JobsOK, AssignedAreTold
<1>5. QED  BY <1>1, <1>2, <1>3, <1>4 DEF IInv

-----------------------------------------------------------------------------
\* Others change their roles; the task's rows stay.
LEMMA ChangeRoleOK ==
  ASSUME IInv, NEW u \in Users, NEW to \in {NotMember, "VIEWER", "MEMBER"}, ChangeRole(u, to)
  PROVE  IInv'
<1>1. /\ role' = [role EXCEPT ![u] = to]
      /\ ever' = ever \cup {v \in {u} : to # NotMember}
      /\ UNCHANGED <<rows, lock, req, queue>>
  BY DEF ChangeRole
<1>2. TypeOK'
  BY <1>1 DEF IInv, TypeOK, Members, rows, queue, Role, Record
<1>3. RequestsOK'
  <2>1. ASSUME NEW r \in Reqs  PROVE RequestOK(r)' /\ (Creating(r)' <=> Creating(r))
    BY <1>1, Untouched DEF IInv, RequestsOK
  <2>2. QED  BY <1>1, <2>1 DEF IInv, RequestsOK
<1>4. LogOK' /\ JobsOK'
  BY <1>1, SameRows, StillTold DEF IInv, Notifiers
<1>5. QED  BY <1>2, <1>3, <1>4 DEF IInv

\* A slot takes a request that has read the assignees as they are, or creates the task
\* when nothing else is in flight.
LEMMA StartOK ==
  ASSUME IInv, NEW r \in Reqs, NEW q \in Flight, Start(r, q), task # "gone",
         q.base = Len(log), q.at # "writing",
         \/ task = "none" /\ q.op = "create" /\ q.at = "checked" /\ \A s \in Reqs : req[s] = Idle
         \/ task = "there" /\ q.op = "delete" /\ q.at = "checked"
         \/ task = "there" /\ q.op = "update" /\ q.at = "open" /\ q.want = assignees
  PROVE  IInv'
<1>1. /\ req[r] = Idle /\ req' = [req EXCEPT ![r] = q]
      /\ UNCHANGED <<role, ever, rows, lock, queue>>
  BY DEF Start
<1>2. req'[r] = q /\ \A s \in Reqs : s # r => req'[s] = req[s]
  BY <1>1 DEF IInv, RequestsOK
<1>3. TypeOK'
  BY <1>1, <1>2 DEF IInv, TypeOK, Members, rows, queue, Flight, Idle, Record
<1>4. RequestsOK'
  <2>1. ASSUME NEW s \in Reqs, s # r  PROVE RequestOK(s)' /\ (Creating(s)' <=> Creating(s))
    BY <1>1, <1>2, <2>1, Untouched DEF IInv, RequestsOK
  <2>2. RequestOK(r)'
    BY <1>1, <1>2 DEF IInv, TypeOK, RequestOK, InFlight, Creating, Flight, rows
  <2>3. Creating(r)' => \A s \in Reqs : s # r => ~Creating(s)
    BY <1>1, <1>2 DEF IInv, RequestsOK, RequestOK, Creating, InFlight, Flight, Idle
  <2>4. lock' # Nobody => req'[lock'].op = "update"
    BY <1>1, <1>2 DEF IInv, TypeOK, RequestsOK, Idle
  <2>5. QED  BY <1>1, <2>1, <2>2, <2>3, <2>4 DEF IInv, RequestsOK
<1>5. LogOK' /\ JobsOK'
  BY <1>1, <1>2, SameRows, StillTold DEF IInv, Notifiers, Idle
<1>6. QED  BY <1>3, <1>4, <1>5 DEF IInv

LEMMA StartsOK ==
  ASSUME IInv, NEW r \in Reqs, NEW a \in Users,
         \/ \E want \in SUBSET Users : AskCreate(r, a, want)
         \/ getDetail(r, a) \/ AskDelete(r, a)
  PROVE  IInv'
<1> USE DEF Request
<1>1. Len(log) \in Nat /\ assignees \in SUBSET Users
  BY DEF IInv, TypeOK
<1>2. ASSUME NEW want \in SUBSET Users, AskCreate(r, a, want)  PROVE IInv'
  <2> DEFINE q == Request(a, "create", want, {})
  <2>1. q \in Flight /\ q.base = Len(log) /\ q.at = "checked" /\ q.op = "create"
    BY <1>1 DEF Flight
  <2>2. QED  BY <1>2, <2>1, StartOK DEF AskCreate
<1>3. CASE getDetail(r, a)
  <2> DEFINE q == [Request(a, "update", assignees, {}) EXCEPT !.at = "open"]
  <2>1. q \in Flight /\ q.base = Len(log) /\ q.at = "open" /\ q.op = "update" /\ q.want = assignees
    BY <1>1 DEF Flight
  <2>2. QED  BY <1>3, <2>1, StartOK DEF getDetail
<1>4. CASE AskDelete(r, a)
  <2> DEFINE q == Request(a, "delete", {}, {})
  <2>1. q \in Flight /\ q.base = Len(log) /\ q.at = "checked" /\ q.op = "delete"
    BY <1>1 DEF Flight
  <2>2. QED  BY <1>4, <2>1, StartOK DEF AskDelete
<1>5. QED  BY <1>2, <1>3, <1>4

\* A slot goes on, or is given up, and the rows stay: the other requests are as they were.
LEMMA SlotOK ==
  ASSUME IInv, NEW r \in Reqs, NEW q, InFlight(r), req' = [req EXCEPT ![r] = q],
         UNCHANGED <<role, ever, rows, queue>>,
         \/ lock' = lock
         \/ lock = Nobody /\ lock' = r /\ q.op = "update" /\ q.at = "writing"
         \/ lock = r /\ lock' = Nobody,
         lock' = r => q.op = "update" /\ q.at = "writing",
         q = Idle \/ q \in Flight,
         RequestOK(r)',
         Creating(r)' => Creating(r)
  PROVE  IInv'
<1>1. req'[r] = q /\ \A s \in Reqs : s # r => req'[s] = req[s]
  BY DEF IInv, RequestsOK
<1>2. TypeOK'
  BY <1>1, ReqsAssumption DEF IInv, TypeOK, Members, rows, queue, Flight, Idle, Record, Nobody
<1>3. RequestsOK'
  <2>1. ASSUME NEW s \in Reqs, s # r  PROVE RequestOK(s)' /\ (Creating(s)' <=> Creating(s))
    <3>1. lock = s => lock' = s
      BY <2>1, ReqsAssumption DEF Nobody
    <3>2. QED  BY <1>1, <2>1, <3>1, Untouched DEF IInv, RequestsOK
  <2>2. lock' # Nobody => req'[lock'].op = "update"
    BY <1>1, ReqsAssumption DEF IInv, TypeOK, RequestsOK, Nobody
  <2>3. QED  BY <1>1, <2>1, <2>2 DEF IInv, RequestsOK
<1>4. LogOK'
  BY SameRows DEF IInv
<1>5. JobsOK'
  BY <1>1, StillTold DEF IInv, Notifiers, InFlight, TypeOK, RequestsOK
<1>6. QED  BY <1>2, <1>3, <1>4, <1>5 DEF IInv

\* The button: what the panel showed, with or without the user.
LEMMA ToggleOK ==
  ASSUME IInv, NEW r \in Reqs, NEW u \in Users, toggleAssignee(r, u)
  PROVE  IInv'
<1> DEFINE q == [req[r] EXCEPT !.at = "checked", !.toggled = u, !.want = Toggled(req[r].want, u)]
<1>1. /\ req[r].at = "open" /\ InFlight(r) /\ req[r] \in Flight /\ RequestOK(r)
      /\ req' = [req EXCEPT ![r] = q]
      /\ UNCHANGED <<role, ever, rows, lock, queue>>
  BY Shapes DEF IInv, RequestsOK, toggleAssignee, InFlight
<1>2. /\ q \in Flight /\ q.at = "checked" /\ q.op = req[r].op /\ q.base = req[r].base
      /\ q.toggled = u /\ q.want = Toggled(req[r].want, u)
  BY <1>1 DEF Flight, Toggled
<1> HIDE DEF q
<1>3. req'[r] = q
  BY <1>1 DEF IInv, RequestsOK
<1>4. q.op # "create" /\ q.op # "delete"
  BY <1>1, <1>2 DEF RequestOK, Creating
<1>5. RequestOK(r)'
  BY <1>1, <1>2, <1>3, <1>4 DEF RequestOK, InFlight, Creating, rows
<1>6. ~Creating(r)' /\ lock # r
  BY <1>1, <1>2, <1>3, <1>4, ReqsAssumption DEF IInv, TypeOK, Creating, Nobody
<1>7. QED  BY <1>1, <1>2, <1>5, <1>6, SlotOK

\* The lock of the task's row, and the assignees read under it.
LEMMA BeginWriteOK ==
  ASSUME IInv, NEW r \in Reqs, BeginWrite(r)
  PROVE  IInv'
<1> DEFINE q == [req[r] EXCEPT !.at = "writing", !.previous = assignees]
<1>1. /\ req[r].at = "checked" /\ InFlight(r) /\ req[r] \in Flight /\ RequestOK(r)
      /\ req[r].op # "delete" /\ (req[r].op = "update" => LockIsFree)
      /\ req' = [req EXCEPT ![r] = q]
      /\ lock' = IF req[r].op = "update" THEN r ELSE lock
      /\ UNCHANGED <<role, ever, rows, queue>>
  BY Shapes DEF IInv, RequestsOK, BeginWrite, InFlight
<1>2. /\ q \in Flight /\ q.at = "writing" /\ q.op = req[r].op /\ q.base = req[r].base
      /\ q.toggled = req[r].toggled /\ q.want = req[r].want /\ q.previous = assignees
  BY <1>1 DEF IInv, TypeOK, Flight
<1> HIDE DEF q
<1>3. req'[r] = q
  BY <1>1 DEF IInv, RequestsOK
<1>4. lock # r
  BY <1>1, ReqsAssumption DEF IInv, TypeOK, Nobody
<1>5. RequestOK(r)'
  BY <1>1, <1>2, <1>3 DEF RequestOK, InFlight, Creating, rows, LockIsFree
<1>6. Creating(r)' => Creating(r)
  BY <1>1, <1>2, <1>3 DEF Creating
<1>7. QED  BY <1>1, <1>2, <1>4, <1>5, <1>6, SlotOK DEF LockIsFree

\* A transaction that is rolled back gives its lock up.
LEMMA RefusedOK ==
  ASSUME IInv, NEW r \in Reqs, Refused(r)
  PROVE  IInv'
<1>1. /\ InFlight(r) /\ RequestOK(r)
      /\ req' = [req EXCEPT ![r] = Idle]
      /\ lock' = IF lock = r THEN Nobody ELSE lock
      /\ UNCHANGED <<role, ever, rows, queue>>
  BY DEF IInv, RequestsOK, Refused, InFlight
<1>2. req'[r] = Idle
  BY <1>1 DEF IInv, RequestsOK
<1>3. RequestOK(r)' /\ ~Creating(r)'
  BY <1>2 DEF RequestOK, InFlight, Creating, Idle
<1>4. lock' # r
  BY <1>1, ReqsAssumption DEF Nobody
<1>5. QED  BY <1>1, <1>3, <1>4, SlotOK

-----------------------------------------------------------------------------
\* What a commit makes of its own request: it notifies whom it has added.
LEMMA Notifies ==
  ASSUME IInv, NEW r \in Reqs, Commit(r)
  PROVE  /\ req[r] \in Flight /\ req[r].at = "writing" /\ InFlight(r) /\ RequestOK(r)
         /\ req'[r] = Notifying(r, Added(r)) /\ (req'[r] = Idle \/ req'[r] \in Notification)
         /\ ~InFlight(r)' /\ ~Creating(r)' /\ RequestOK(r)' /\ lock' # r
         /\ \A s \in Reqs : s # r => req'[s] = req[s] /\ (lock = s => lock' = s)
<1>1. /\ req[r] \in Flight /\ req[r].at = "writing" /\ InFlight(r) /\ RequestOK(r)
      /\ req' = [req EXCEPT ![r] = Notifying(r, Added(r))]
      /\ lock' = IF lock = r THEN Nobody ELSE lock
  BY Shapes DEF IInv, RequestsOK, Commit, InFlight
<1>2. /\ req'[r] = Notifying(r, Added(r))
      /\ \A s \in Reqs : s # r => req'[s] = req[s]
  BY <1>1 DEF IInv, RequestsOK
<1>3. req'[r] = Idle \/ req'[r] \in Notification
  <2>1. Added(r) \in SUBSET Users /\ req[r].by \in Users
    BY <1>1 DEF Added, Flight
  <2>2. CASE Added(r) = {}
    BY <1>2, <2>2 DEF Notifying
  <2>3. CASE Added(r) # {}
    BY <1>2, <2>1, <2>3 DEF Notifying, Notification
  <2>4. QED  BY <2>2, <2>3
<1>4. ~InFlight(r)' /\ ~Creating(r)' /\ RequestOK(r)'
  BY <1>3 DEF InFlight, Creating, RequestOK, Notification, Idle
<1>5. lock' # r
  BY <1>1, ReqsAssumption DEF Nobody
<1>6. QED  BY <1>1, <1>2, <1>3, <1>4, <1>5

\* They wait for a delivery from then on, and the request will enqueue it.
LEMMA CommitTold ==
  ASSUME IInv, NEW r \in Reqs, Commit(r)
  PROVE  JobsOK'
<1> DEFINE new == Added(r) \ {req[r].by}
<1>1. /\ req'[r] = Notifying(r, Added(r)) /\ req[r].at = "writing"
      /\ \A s \in Reqs : s # r => req'[s] = req[s]
      /\ undelivered' = undelivered \cup new
      /\ why' = [u \in Users |-> IF u \in new THEN {} ELSE why[u]]
      /\ job' = job
  BY Notifies DEF Commit
<1>2. new \subseteq Users
  BY Notifies DEF Added, Flight
<1>3. Notifiers \subseteq Notifiers' /\ \A s \in Notifiers : req'[s] = req[s]
  BY <1>1 DEF Notifiers
<1>4. why' \in [Users -> SUBSET {"on record", "redis", "crash"}]
  BY <1>1 DEF IInv, JobsOK
<1>5. ASSUME NEW u \in new  PROVE \E s \in Notifiers' : u \in req'[s].left /\ u # req'[s].by
  BY <1>1, <1>5 DEF Notifiers, Notifying
<1>6. ASSUME NEW u \in undelivered, u \notin new
      PROVE  \/ why'[u] # {} \/ job'[u] = "waiting"
             \/ \E s \in Notifiers' : u \in req'[s].left /\ u # req'[s].by
  <2>1. u \in Users /\ why'[u] = why[u] /\ job'[u] = job[u]
    BY <1>1, <1>6 DEF IInv, TypeOK
  <2>2. \/ why[u] # {} \/ job[u] = "waiting"
        \/ \E s \in Notifiers : u \in req[s].left /\ u # req[s].by
    BY DEF IInv, JobsOK, AssignedAreTold
  <2>3. QED  BY <1>3, <2>1, <2>2
<1>7. AssignedAreTold'
  BY <1>1, <1>5, <1>6 DEF AssignedAreTold
<1>8. QED  BY <1>4, <1>7 DEF JobsOK

\* The other requests, when the commit has made what they have read old.
LEMMA CommitRequests ==
  ASSUME IInv, NEW r \in Reqs, Commit(r),
         \A s \in Reqs : s # r /\ InFlight(s) => RequestOK(s)'
  PROVE  RequestsOK'
<1>1. ASSUME NEW s \in Reqs, s # r  PROVE RequestOK(s)' /\ (Creating(s)' => Creating(s))
  <2>1. req'[s] = req[s] /\ RequestOK(s)
    BY <1>1, Notifies DEF IInv, RequestsOK
  <2>2. CASE ~InFlight(s)
    BY <2>1, <2>2 DEF RequestOK, InFlight, Creating
  <2>3. QED  BY <1>1, <2>1, <2>2 DEF InFlight, Creating
<1>2. lock' # Nobody => req'[lock'].op = "update"
  BY Notifies, ReqsAssumption DEF IInv, TypeOK, RequestsOK, Nobody, Commit
<1>3. req' = [s \in Reqs |-> req'[s]]
  BY DEF IInv, RequestsOK, Commit
<1>4. \A s, t \in Reqs : Creating(s)' /\ Creating(t)' => s = t
  BY <1>1, Notifies DEF IInv, RequestsOK
<1>5. QED  BY <1>1, <1>2, <1>3, <1>4, Notifies DEF RequestsOK

\* The task is there with the assignees that were asked for; nothing else is in flight.
LEMMA CreateOK ==
  ASSUME IInv, NEW r \in Reqs, Commit(r), create(r)
  PROVE  IInv'
<1>1. /\ req[r].op = "create" /\ task = "none" /\ task' = "there"
      /\ assignees' = req[r].want /\ first' = req[r].want /\ log' = log /\ log = <<>>
      /\ UNCHANGED <<role, ever, job>> /\ undelivered' = undelivered \cup (Added(r) \ {req[r].by})
      /\ lock' = IF lock = r THEN Nobody ELSE lock
  BY DEF create, Commit, IInv, LogOK
<1>2. Creating(r) /\ req[r].want \in SUBSET Users
  BY <1>1, Notifies DEF Creating, Flight
<1>3. \A s \in Reqs : s # r => ~InFlight(s)
  BY <1>1, <1>2 DEF IInv, RequestsOK, RequestOK
<1>4. RequestsOK'
  BY <1>3, CommitRequests
<1>5. lock = Nobody /\ lock' = Nobody
  BY <1>1, <1>3, Notifies DEF IInv, TypeOK, RequestsOK, InFlight
<1>6. TypeOK'
  <2>1. undelivered' \subseteq Users
    BY <1>1, <1>2 DEF IInv, TypeOK, Added
  <2>2. \A s \in Reqs : req'[s] = Idle \/ (req'[s].by \in Users /\ req'[s].left \subseteq Users)
    BY Notifies DEF IInv, TypeOK, Notification
  <2>3. QED  BY <1>1, <1>2, <1>5, <2>1, <2>2 DEF IInv, TypeOK, Members
<1>7. LogOK'
  BY <1>1, <1>2 DEF LogOK, LogTellsTheAssignees, TogglesAreNarrow, Mentions
<1>8. QED  BY <1>4, <1>6, <1>7, CommitTold DEF IInv

\* The parts of LogTellsTheAssignees: the last record that names u, whether u was assigned
\* before record i, and what the log tells of u.
Last(u) == {i \in Mentions(u) : \A j \in Mentions(u) : j <= i}

Was(u, i) == IF \E j \in Mentions(u) : j < i
             THEN \E j \in Mentions(u) : /\ j < i /\ u \in log[j].added
                                         /\ \A k \in Mentions(u) : k <= j \/ k >= i
             ELSE u \in first

TellsOf(u) ==
  /\ u \in assignees <=> (IF Last(u) = {} THEN u \in first
                          ELSE \E i \in Last(u) : u \in log[i].added)
  /\ \A i \in Mentions(u) : u \in log[i].added <=> ~Was(u, i)

LEMMA Tells == LogTellsTheAssignees <=> (task = "there" => \A u \in Users : TellsOf(u))
BY DEF LogTellsTheAssignees, TellsOf, Last, Was

\* A record of what an update changes, read under the lock, keeps the log true.
LEMMA RecordedOK ==
  ASSUME LogOK, log \in Seq(Record), task = "there", NEW want, NEW e \in Record,
         e.added = want \ assignees, e.removed = assignees \ want,
         e.added \cup e.removed \subseteq {e.toggled} \/ e.base < Len(log),
         log' = Append(log, e), assignees' = want, UNCHANGED <<task, first>>
  PROVE  LogOK'
<1>0. PICK n \in Nat : n = Len(log) + 1
  OBVIOUS
<1>1. /\ Len(log) \in Nat /\ DOMAIN log = 1 .. Len(log) /\ DOMAIN log' = 1 .. n
      /\ log'[n] = e /\ \A i \in DOMAIN log : log'[i] = log[i]
  BY <1>0
<1>2. n \in Nat /\ n \notin DOMAIN log /\ \A i \in DOMAIN log : i \in Nat /\ i < n
  BY <1>0, <1>1
<1>3. DOMAIN log' = DOMAIN log \cup {n}
  BY <1>0, <1>1
<1>4. TogglesAreNarrow'
  BY <1>0, <1>1, <1>3 DEF LogOK, TogglesAreNarrow
<1>5. ASSUME NEW u \in Users  PROVE TellsOf(u)' /\ (Mentions(u)' # {} => Last(u)' # {})
  <2>1. /\ TellsOf(u) /\ (Mentions(u) # {} => Last(u) # {})
        /\ Mentions(u) \subseteq DOMAIN log
    BY Tells DEF LogOK, Last, Mentions
  <2>2. Mentions(u)' = Mentions(u) \cup {i \in {n} : u \in e.added \cup e.removed}
    BY <1>1, <1>2, <1>3 DEF Mentions
  <2>3. \A i \in Mentions(u) : i \in Nat /\ i < n /\ log'[i] = log[i]
    BY <1>1, <1>2, <2>1
  <2>4. ASSUME NEW i \in Mentions(u)  PROVE u \in log'[i].added <=> ~Was(u, i)'
    <3>1. Was(u, i)' <=> Was(u, i)
      <4>1. ASSUME NEW j  PROVE j \in Mentions(u)' /\ j < i <=> j \in Mentions(u) /\ j < i
        BY <1>2, <2>2, <2>3, <4>1
      <4>2. ASSUME NEW j \in Mentions(u)
            PROVE  (\A k \in Mentions(u)' : k <= j \/ k >= i)
                      <=> (\A k \in Mentions(u) : k <= j \/ k >= i)
        BY <1>2, <2>2, <2>3
      <4>3. QED  BY <2>3, <4>1, <4>2 DEF Was
    <3>2. QED  BY <2>1, <2>3, <3>1 DEF TellsOf
  <2>5. CASE u \notin e.added \cup e.removed
    <3>1. Mentions(u)' = Mentions(u) /\ Last(u)' = Last(u) /\ (u \in want <=> u \in assignees)
      BY <2>2, <2>5 DEF Last
    <3>2. \A i \in Last(u) : log'[i] = log[i]
      BY <2>3 DEF Last
    <3>3. QED  BY <2>1, <2>4, <3>1, <3>2 DEF TellsOf
  <2>6. CASE u \in e.added \cup e.removed
    <3>1. Mentions(u)' = Mentions(u) \cup {n} /\ n \notin Mentions(u)
      BY <1>2, <2>1, <2>2, <2>6
    <3>2. Last(u)' = {n}
      BY <1>2, <2>3, <3>1 DEF Last
    <3>3. u \in want <=> u \in e.added
      BY <2>6
    <3>4. Was(u, n)' <=> u \in assignees
      <4>1. CASE Mentions(u) = {}
        <5>1. Mentions(u)' = {n} /\ Last(u) = {}
          BY <3>1, <4>1 DEF Last
        <5>2. Was(u, n)' <=> u \in first
          BY <1>2, <5>1 DEF Was
        <5>3. QED  BY <2>1, <5>1, <5>2 DEF TellsOf
      <4>2. CASE Mentions(u) # {}
        <5>1. PICK m \in Mentions(u) : \A j \in Mentions(u) : j <= m
          BY <2>1, <4>2 DEF Last
        <5>2. Last(u) = {m}
          BY <2>3, <5>1 DEF Last
        <5>3. u \in assignees <=> u \in log[m].added
          BY <2>1, <5>2 DEF TellsOf
        <5>4. \A j \in Mentions(u)' : j < n /\ (\A k \in Mentions(u)' : k <= j \/ k >= n) <=> j = m
          <6>1. ASSUME NEW j \in Mentions(u)', j < n, \A k \in Mentions(u)' : k <= j \/ k >= n
                PROVE  j = m
            <7>1. j \in Mentions(u) /\ m <= j /\ j <= m
              BY <1>2, <2>3, <3>1, <5>1, <6>1
            <7>2. QED  BY <2>3, <7>1
          <6>2. m < n /\ \A k \in Mentions(u)' : k <= m \/ k >= n
            BY <1>2, <2>3, <3>1, <5>1
          <6>3. QED  BY <6>1, <6>2
        <5>5. (\E j \in Mentions(u)' : j < n) /\ (Was(u, n)' <=> u \in log'[m].added)
          BY <2>3, <3>1, <5>1, <5>4 DEF Was
        <5>6. QED  BY <2>3, <5>3, <5>5
      <4>3. QED  BY <4>1, <4>2
    <3>5. u \in assignees' <=> (IF Last(u)' = {} THEN u \in first'
                               ELSE \E i \in Last(u)' : u \in log'[i].added)
      BY <1>1, <3>2, <3>3
    <3>6. u \in log'[n].added <=> ~Was(u, n)'
      BY <1>1, <2>6, <3>4
    <3>7. QED  BY <2>4, <3>1, <3>2, <3>5, <3>6 DEF TellsOf
  <2>7. QED  BY <2>1, <2>5, <2>6, <2>2 DEF Last
<1>6. LogTellsTheAssignees' /\ \A u \in Users : Mentions(u)' # {} =>
        \E i \in Mentions(u)' : \A j \in Mentions(u)' : j <= i
  BY <1>5 DEF LogTellsTheAssignees, TellsOf, Last, Was
<1>7. QED  BY <1>4, <1>6 DEF LogOK

\* With the lock held, what was read is what is replaced; others have read it too early
\* for their records to be narrow.
LEMMA UpdateOK ==
  ASSUME IInv, NEW r \in Reqs, Commit(r), update(r)
  PROVE  IInv'
<1> DEFINE e == [added |-> Added(r), removed |-> req[r].previous \ req[r].want,
                 toggled |-> req[r].toggled, base |-> req[r].base]
<1>1. /\ req[r].op = "update" /\ task = "there" /\ assignees' = req[r].want
      /\ log' = Append(log, e)
      /\ UNCHANGED <<role, ever, task, first, job>>
      /\ undelivered' = undelivered \cup (Added(r) \ {req[r].by})
      /\ lock' = IF lock = r THEN Nobody ELSE lock
  BY DEF update, recordActivity, Commit
<1>2. /\ req[r] \in Flight /\ lock = r /\ req[r].previous = assignees
      /\ req[r].base <= Len(log)
      /\ req[r].base = Len(log) => req[r].want = Toggled(assignees, req[r].toggled)
  BY <1>1, Notifies DEF RequestOK
<1>3. Added(r) = req[r].want \ assignees /\ Added(r) \in SUBSET Users /\ e \in Record
  BY <1>2 DEF Added, Flight, Record, IInv, TypeOK
<1>4. Len(log) \in Nat /\ Len(log') = Len(log) + 1 /\ log \in Seq(Record) /\ log' \in Seq(Record)
  BY <1>1, <1>3 DEF IInv, TypeOK
<1>5. LogOK'
  <2>1. CASE req[r].base = Len(log)
    <3>1. e.added \cup e.removed \subseteq {e.toggled}
      BY <1>2, <1>3, <2>1 DEF Toggled
    <3>2. QED  BY <1>1, <1>2, <1>3, <1>4, <3>1, RecordedOK DEF IInv
  <2>2. CASE req[r].base < Len(log)
    BY <1>1, <1>2, <1>3, <1>4, <2>2, RecordedOK DEF IInv
  <2>3. QED  BY <1>2, <1>4, <2>1, <2>2 DEF Flight
<1>6. ASSUME NEW s \in Reqs, s # r, InFlight(s)  PROVE RequestOK(s)'
  <2>1. req'[s] = req[s] /\ RequestOK(s) /\ req[s] \in Flight
    BY <1>6, Notifies, Shapes DEF IInv, RequestsOK
  <2>2. req[s].base \in Nat /\ req[s].base <= Len(log)
    BY <1>6, <2>1 DEF RequestOK, Flight
  <2>3. ~Creating(s) /\ req[s].at # "writing"
    BY <1>1, <1>2, <1>6, <2>1 DEF RequestOK, Creating, Flight
  <2>4. QED  BY <1>1, <1>4, <1>6, <2>1, <2>2, <2>3 DEF RequestOK, InFlight, Creating
<1>7. RequestsOK'
  BY <1>6, CommitRequests
<1>8. TypeOK'
  <2>1. undelivered' \subseteq Users /\ assignees' \subseteq Users
    BY <1>1, <1>2, <1>3 DEF IInv, TypeOK, Flight
  <2>2. \A s \in Reqs : req'[s] = Idle \/ (req'[s].by \in Users /\ req'[s].left \subseteq Users)
    BY Notifies DEF IInv, TypeOK, Notification
  <2>3. lock' = Nobody
    BY <1>1, <1>2
  <2>4. QED  BY <1>1, <1>4, <2>1, <2>2, <2>3 DEF IInv, TypeOK, Members
<1>9. QED  BY <1>5, <1>7, <1>8, CommitTold DEF IInv

\* The task goes, and its assignees with it; nobody holds the lock.
LEMMA DeleteOK ==
  ASSUME IInv, NEW r \in Reqs, delete(r)
  PROVE  IInv'
<1>1. /\ req[r].at = "checked" /\ task = "there" /\ lock = Nobody /\ task' = "gone" /\ assignees' = {}
      /\ req' = [req EXCEPT ![r] = Idle]
      /\ UNCHANGED <<role, ever, first, log, lock, queue>>
  BY DEF delete, LockIsFree, Cascaded
<1>2. req'[r] = Idle /\ \A s \in Reqs : s # r => req'[s] = req[s]
  BY <1>1 DEF IInv, RequestsOK
<1>3. TypeOK'
  BY <1>1, <1>2 DEF IInv, TypeOK, Members, queue
<1>4. RequestsOK'
  <2>1. ASSUME NEW s \in Reqs, s # r  PROVE RequestOK(s)' /\ (Creating(s)' => Creating(s))
    <3>1. req'[s] = req[s] /\ RequestOK(s)
      BY <1>2, <2>1 DEF IInv, RequestsOK
    <3>2. InFlight(s) => req[s].at # "writing" /\ ~Creating(s)
      BY <1>1, <3>1, Shapes, ReqsAssumption DEF RequestOK, Creating, Flight, InFlight, Nobody
    <3>3. QED  BY <1>1, <3>1, <3>2 DEF RequestOK, InFlight, Creating
  <2>2. RequestOK(r)' /\ ~Creating(r)'
    BY <1>2 DEF RequestOK, InFlight, Creating, Idle
  <2>3. QED  BY <1>1, <2>1, <2>2 DEF IInv, RequestsOK
<1>5. LogOK'
  BY <1>1 DEF IInv, LogOK, LogTellsTheAssignees, TogglesAreNarrow, Mentions
<1>6. JobsOK'
  BY <1>1, <1>2, StillTold DEF IInv, Notifiers
<1>7. QED  BY <1>3, <1>4, <1>5, <1>6 DEF IInv

-----------------------------------------------------------------------------
\* The reasons of those who lose their delivery.
LEMMA LostOK ==
  ASSUME JobsOK, NEW S, NEW reason \in {"on record", "redis", "crash"}, Lost(S, reason)
  PROVE  /\ why' \in [Users -> SUBSET {"on record", "redis", "crash"}]
         /\ \A u \in Users : why[u] \subseteq why'[u] /\ (u \in S \cap undelivered => why'[u] # {})
BY DEF JobsOK, Lost

\* One user is told, or his job is lost for a reason; the rest of the set stays.
LEMMA NotifyOK ==
  ASSUME IInv, NEW r \in Reqs, NEW u \in Users, NotifyNext(r, u)
  PROVE  IInv'
<1>1. /\ req[r].at = "notifying" /\ u \in req[r].left /\ req[r] \in Notification /\ RequestOK(r)
      /\ req' = [req EXCEPT ![r] = Notifying(r, req[r].left \ {u})]
      /\ UNCHANGED <<role, ever, rows, lock, undelivered>>
  BY Shapes DEF IInv, RequestsOK, NotifyNext, Remaining
<1>2. /\ req'[r] = Notifying(r, req[r].left \ {u})
      /\ \A s \in Reqs : s # r => req'[s] = req[s]
  BY <1>1 DEF IInv, RequestsOK
<1>3. req'[r] = Idle \/ req'[r] \in Notification
  <2>1. CASE req[r].left \ {u} = {}
    BY <1>2, <2>1 DEF Notifying
  <2>2. CASE req[r].left \ {u} # {}
    BY <1>1, <1>2, <2>2 DEF Notifying, Notification
  <2>3. QED  BY <2>1, <2>2
<1>4. /\ job' \in [Users -> {"none", "waiting", "kept"}]
      /\ \A v \in Users : job[v] = "waiting" => job'[v] = "waiting"
      /\ why' \in [Users -> SUBSET {"on record", "redis", "crash"}]
      /\ \A v \in Users : why[v] \subseteq why'[v]
      /\ u # req[r].by /\ u \in undelivered => job'[u] = "waiting" \/ why'[u] # {}
  <2>1. JobsOK /\ job \in [Users -> {"none", "waiting", "kept"}]
    BY DEF IInv, TypeOK
  <2>2. CASE u = req[r].by
    BY <2>1, <2>2 DEF NotifyNext, JobsOK
  <2>3. CASE u # req[r].by /\ enqueueNotification(u)
    <3>1. /\ job' = [job EXCEPT ![u] = IF job[u] = "none" THEN "waiting" ELSE job[u]]
          /\ Lost({v \in {u} : job[v] = "kept"}, "on record")
      BY <2>3 DEF enqueueNotification
    <3>2. /\ why' \in [Users -> SUBSET {"on record", "redis", "crash"}]
          /\ \A v \in Users : why[v] \subseteq why'[v]
          /\ job[u] = "kept" /\ u \in undelivered => why'[u] # {}
      <4> DEFINE S == {v \in {u} : job[v] = "kept"}
      <4>1. Lost(S, "on record") /\ (job[u] = "kept" => u \in S)
        BY <3>1
      <4> HIDE DEF S
      <4>2. QED  BY <2>1, <4>1, LostOK
    <3>3. QED  BY <2>1, <3>1, <3>2
  <2>4. CASE u # req[r].by /\ NotEnqueued(u)
    <3>1. job' = job /\ Lost({u}, "redis")
      BY <2>4 DEF NotEnqueued
    <3>2. QED  BY <2>1, <3>1, LostOK
  <2>5. QED  BY <2>2, <2>3, <2>4 DEF NotifyNext
<1>5. TypeOK'
  BY <1>1, <1>2, <1>3, <1>4 DEF IInv, TypeOK, Members, rows, Notification, Idle
<1>6. RequestsOK'
  <2>1. ASSUME NEW s \in Reqs, s # r  PROVE RequestOK(s)' /\ (Creating(s)' <=> Creating(s))
    BY <1>1, <1>2, <2>1, Untouched DEF IInv, RequestsOK
  <2>2. ~InFlight(r)' /\ RequestOK(r)' /\ ~Creating(r)'
    <3>1. ~InFlight(r)'
      BY <1>3 DEF InFlight, Idle, Notification
    <3>2. QED  BY <1>3, <3>1 DEF RequestOK, Creating
  <2>3. lock # r
    BY <1>1, ReqsAssumption DEF IInv, TypeOK, Nobody
  <2>4. QED  BY <1>1, <1>2, <2>1, <2>2, <2>3 DEF IInv, TypeOK, RequestsOK
<1>7. LogOK'
  BY <1>1, SameRows DEF IInv
<1>8. ASSUME NEW v \in undelivered
      PROVE  \/ why'[v] # {} \/ job'[v] = "waiting"
             \/ \E s \in Notifiers' : v \in req'[s].left /\ v # req'[s].by
  <2>1. v \in Users
    BY DEF IInv, TypeOK
  <2>2. CASE why[v] # {} \/ job[v] = "waiting"
    BY <1>4, <2>1, <2>2
  <2>3. ASSUME NEW s \in Notifiers, v \in req[s].left, v # req[s].by
        PROVE  \/ why'[v] # {} \/ job'[v] = "waiting"
               \/ \E t \in Notifiers' : v \in req'[t].left /\ v # req'[t].by
    <3>1. CASE s # r
      BY <1>2, <2>3, <3>1 DEF Notifiers
    <3>2. CASE s = r /\ v # u
      <4>1. req'[r] = [at |-> "notifying", by |-> req[r].by, left |-> req[r].left \ {u}]
        BY <1>2, <2>3, <3>2 DEF Notifying
      <4>2. QED  BY <2>3, <3>2, <4>1 DEF Notifiers
    <3>3. CASE s = r /\ v = u
      BY <1>4, <2>3, <3>3
    <3>4. QED  BY <3>1, <3>2, <3>3
  <2>4. QED  BY <2>2, <2>3 DEF IInv, JobsOK, AssignedAreTold
<1>9. JobsOK'
  BY <1>1, <1>4, <1>8 DEF JobsOK, AssignedAreTold
<1>10. QED  BY <1>5, <1>6, <1>7, <1>9 DEF IInv

\* The process dies: no request is left, and who was still to be told is not.
LEMMA CrashOK ==
  ASSUME IInv, Crash
  PROVE  IInv'
<1> DEFINE S == UNION {req[r].left : r \in Notifiers}
<1>1. /\ req' = [r \in Reqs |-> Idle] /\ lock' = Nobody /\ Lost(S, "crash")
      /\ UNCHANGED <<role, ever, rows, job, undelivered>>
  BY DEF Crash
<1>2. \A r \in Reqs : req'[r] = Idle
  BY <1>1
<1>3. TypeOK'
  BY <1>1, <1>2 DEF IInv, TypeOK, Members, rows
<1>4. RequestsOK'
  <2>1. ASSUME NEW r \in Reqs  PROVE RequestOK(r)' /\ ~Creating(r)'
    BY <1>2 DEF RequestOK, InFlight, Creating, Idle
  <2>2. QED  BY <1>1, <2>1 DEF RequestsOK
<1>5. LogOK'
  BY <1>1, SameRows DEF IInv
<1> HIDE DEF S
<1>6. /\ why' \in [Users -> SUBSET {"on record", "redis", "crash"}]
      /\ \A u \in Users : why[u] \subseteq why'[u] /\ (u \in S \cap undelivered => why'[u] # {})
  BY <1>1, LostOK DEF IInv
<1>7. ASSUME NEW u \in undelivered  PROVE why'[u] # {} \/ job'[u] = "waiting"
  <2>1. u \in Users
    BY DEF IInv, TypeOK
  <2>2. CASE \E r \in Notifiers : u \in req[r].left
    BY <1>6, <2>1, <2>2 DEF S
  <2>3. CASE why[u] # {} \/ job[u] = "waiting"
    BY <1>1, <1>6, <2>1, <2>3
  <2>4. QED  BY <2>2, <2>3 DEF IInv, JobsOK, AssignedAreTold
<1>8. JobsOK'
  BY <1>1, <1>6, <1>7 DEF JobsOK, AssignedAreTold
<1>9. QED  BY <1>3, <1>4, <1>5, <1>8 DEF IInv

\* The worker delivers, and forgets jobs that are done: a delivery to come stays.
LEMMA WorkerOK ==
  ASSUME IInv, NEW u \in Users, process(u) \/ Removed(u)
  PROVE  IInv'
<1>1. /\ UNCHANGED <<role, ever, rows, lock, req, why>>
      /\ job' \in [Users -> {"none", "waiting", "kept"}]
      /\ undelivered' \subseteq undelivered
      /\ \A v \in Users : job[v] = "waiting" => job'[v] = "waiting" \/ v \notin undelivered'
  BY DEF process, Removed, IInv, TypeOK
<1>2. TypeOK'
  BY <1>1 DEF IInv, TypeOK, Members, rows
<1>3. RequestsOK'
  <2>1. ASSUME NEW r \in Reqs  PROVE RequestOK(r)' /\ (Creating(r)' <=> Creating(r))
    BY <1>1, Untouched DEF IInv, RequestsOK
  <2>2. QED  BY <1>1, <2>1 DEF IInv, RequestsOK
<1>4. LogOK'
  BY <1>1, SameRows DEF IInv
<1>5. JobsOK'
  BY <1>1 DEF IInv, TypeOK, JobsOK, AssignedAreTold, Notifiers
<1>6. QED  BY <1>2, <1>3, <1>4, <1>5 DEF IInv

LEMMA StutterOK == IInv /\ UNCHANGED vars => IInv'
<1> SUFFICES ASSUME IInv, UNCHANGED vars  PROVE IInv'
  OBVIOUS
<1>1. UNCHANGED <<role, ever, rows, lock, req, queue>>
  BY DEF vars
<1>2. TypeOK'
  BY <1>1 DEF IInv, TypeOK, Members, rows, queue
<1>3. RequestsOK'
  <2>1. ASSUME NEW r \in Reqs  PROVE RequestOK(r)' /\ (Creating(r)' <=> Creating(r))
    BY <1>1, Untouched DEF IInv, RequestsOK
  <2>2. QED  BY <1>1, <2>1 DEF IInv, RequestsOK
<1>4. LogOK' /\ JobsOK'
  BY <1>1, SameRows, StillTold DEF IInv, Notifiers
<1>5. QED  BY <1>2, <1>3, <1>4 DEF IInv

-----------------------------------------------------------------------------
LEMMA StepOK == IInv /\ [Next]_vars => IInv'
<1> SUFFICES ASSUME IInv, [Next]_vars  PROVE IInv'
  OBVIOUS
<1>1. CASE \E u \in Users, to \in {NotMember, "VIEWER", "MEMBER"} : ChangeRole(u, to)
  BY <1>1, ChangeRoleOK
<1>2. ASSUME NEW r \in Reqs, NEW a \in Users,
             \/ \E want \in SUBSET Users : AskCreate(r, a, want)
             \/ getDetail(r, a) \/ toggleAssignee(r, a) \/ AskDelete(r, a) \/ NotifyNext(r, a)
      PROVE  IInv'
  BY <1>2, StartsOK, ToggleOK, NotifyOK
<1>3. ASSUME NEW r \in Reqs, BeginWrite(r) \/ Refused(r) \/ Commit(r) \/ delete(r)
      PROVE  IInv'
  <2>1. CASE Commit(r)
    BY <2>1, CreateOK, UpdateOK DEF Commit
  <2>2. QED  BY <1>3, <2>1, BeginWriteOK, RefusedOK, DeleteOK
<1>4. CASE Crash
  BY <1>4, CrashOK
<1>5. CASE \E u \in Users : process(u) \/ Removed(u)
  BY <1>5, WorkerOK
<1>6. CASE UNCHANGED vars
  BY <1>6, StutterOK
<1>7. QED  BY <1>1, <1>2, <1>3, <1>4, <1>5, <1>6 DEF Next

\* The invariant holds in every reachable state: any number of users, of requests and
\* open panels at once, of replacements, changes of roles and faults.
THEOREM Invariance == Spec => []IInv
BY InitOK, StepOK, PTL DEF Spec

\* Rows, requests and jobs keep their types; a task that is gone has no assignees.
THEOREM TypeCorrect == Spec => []TypeOK
BY Invariance, PTL DEF IInv

\* recordActivity: the activity of a task tells who is assigned to it, however many
\* replacements run at once, because each reads what it replaces under the row's lock.
THEOREM TheLogTellsWhoIsAssigned == Spec => []LogTellsTheAssignees
BY Invariance, PTL DEF IInv, LogOK

\* toggleAssignee: a button changes its user alone unless the panel is out of date.
THEOREM ButtonsAreNarrow == Spec => []TogglesAreNarrow
BY Invariance, PTL DEF IInv, LogOK

\* notifyAssignees: whoever is assigned by another has a job waiting, or a request that
\* will enqueue it, unless the process died, Redis was away, or an id was on record.
THEOREM AssigneesAreTold == Spec => []AssignedAreTold
BY Invariance, PTL DEF IInv, JobsOK
=============================================================================
