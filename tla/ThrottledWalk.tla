---------------------------- MODULE ThrottledWalk ----------------------------
(***************************************************************************)
(* A client's walk through the pages of a list (TaskPages) behind the rate *)
(* limit (Throttle): each page takes a request that the guard lets         *)
(* through; a request that is refused or fails is repeated with the same   *)
(* cursor.  Other requests of the client's address share its limit.        *)
(***************************************************************************)
EXTENDS Naturals, FiniteSets

CONSTANTS Calls, Limit, MaxFaults, Ids, Times, Null, limit, MaxChanges,
          walker,    \* the call that fetches the pages
          MaxOthers  \* bound: requests of the others

ASSUME LimitAssumption == Limit \in Nat \ {0} /\ MaxFaults \in Nat
ASSUME CallsAssumption == IsFiniteSet(Calls)
ASSUME WalkerAssumption == walker \in Calls
ASSUME PagesAssumption ==
  /\ Ids \subseteq Nat /\ IsFiniteSet(Ids)
  /\ Times \subseteq Nat /\ Null \notin Times
  /\ limit \in Nat \ {0}
  /\ MaxChanges \in Nat /\ MaxOthers \in Nat

VARIABLES hits, expires, block, call, granted, stuck, faults,
          sort, rows, createdAt, dueAt, cursor, seen, stayed, moved, cut, changes,
          others     \* how many of MaxOthers have been made

T == INSTANCE Throttle
P == INSTANCE TaskPages

throttle == <<hits, expires, block, call, granted, stuck, faults>>
pages == <<sort, rows, createdAt, dueAt, cursor, seen, stayed, moved, cut, changes>>
vars == <<throttle, pages, others>>

Init == T!Init /\ P!Init /\ others = 0

Counting(c) == T!Incr(c) \/ T!Pexpire(c) \/ T!LetThrough(c) \/ T!Block(c)

Ask == cursor # P!End /\ T!CheckBlock(walker) /\ UNCHANGED <<pages, others>>

OtherAsks(c) ==
  /\ others < MaxOthers /\ others' = others + 1
  /\ T!CheckBlock(c)
  /\ UNCHANGED pages

Guard(c) == Counting(c) /\ UNCHANGED <<pages, others>>

Fails(c) == T!Fail(c) /\ UNCHANGED <<pages, others>>

\* ThrottlerGuard, requireProject, then the query.
PageServed == T!Handled(walker) /\ P!NextPage /\ UNCHANGED others

OtherServed(c) == T!Handled(c) /\ UNCHANGED <<pages, others>>

Time == (T!WindowEnds \/ T!BlockEnds) /\ UNCHANGED <<pages, others>>

OthersWrite == P!OthersWrite /\ UNCHANGED <<throttle, others>>

Next ==
  \/ Ask \/ PageServed \/ Time \/ OthersWrite
  \/ \E c \in Calls : Guard(c) \/ Fails(c)
  \/ \E c \in Calls \ {walker} : OtherAsks(c) \/ OtherServed(c)

\* The client repeats its request, requests are processed, keys expire.
Fairness ==
  /\ WF_vars(Ask) /\ WF_vars(PageServed)
  /\ \A c \in Calls : WF_vars(Guard(c))
  /\ WF_vars(T!WindowEnds /\ UNCHANGED <<pages, others>>)
  /\ WF_vars(T!BlockEnds /\ UNCHANGED <<pages, others>>)

Spec == Init /\ [][Next]_vars /\ Fairness

-----------------------------------------------------------------------------
\* Of the requests that one window counts at most Limit are let through, however many are
\* counted at once and whenever the window ends: with those it has let through, the ones
\* on their way, which may come through when it is over, are no more than that.  (Requests
\* of two windows may well come through in one: the limit is on what is counted.)
AtMostTheLimit == granted + Cardinality(T!OnTheirWay) <= Limit

EveryWindowEnds == T!EveryWindowEnds
NoTaskTwice == P!NoTaskTwice
NoTaskMissing == P!NoTaskMissing

TypeOK == T!TypeOK /\ P!TypeOK /\ others \in 0 .. MaxOthers

\* The walk comes to its end, however often it is refused, unless the counter was left
\* without an expiry.
WalkEnds == <>(cursor = P!End \/ stuck)
=============================================================================
