------------------------------ MODULE BoardLive ------------------------------
(***************************************************************************)
(* What a tab shows of a board and of an open task while others write: the *)
(* emits that follow each commit (tasks.service.ts), the project room, the *)
(* listeners of use-realtime.ts and the two cached queries of hooks.ts.    *)
(*                                                                         *)
(* The board query shows the tasks, the panel's query a task and its       *)
(* comments; data is the number of changes of each kind it includes.  A    *)
(* change is an update of the open task or a comment on it: the board      *)
(* learns of tasks created and deleted in the way it learns of updates.    *)
(* The rest of React Query is external: an invalidation restarts a fetch   *)
(* that replaces data, but not a first fetch, and a fetch that succeeds    *)
(* clears the invalidation.                                                *)
(***************************************************************************)
EXTENDS Naturals, Sequences

CONSTANT MaxWrites  \* bound: changes

ASSUME MaxWritesAssumption == MaxWrites \in Nat

Kinds == {"task", "comment"}
Queries == {"board", "panel"}

Shows(q) == IF q = "board" THEN {"task"} ELSE Kinds

VARIABLES db,      \* committed changes of each kind
          unsent,  \* commits whose emit is still to come
          mine,    \* the tab's own mutation
          conn,    \* the socket is connected
          room,    \* "out" of the project's room, "joining", "in", or "refused"
          inbox,   \* events under way to the tab
          opened,  \* the queries in use: the board's page, the panel on it
          data,    \* what each query holds; NoData before its first fetch
          fetch,   \* its fetch: "none", "asked", "read"
          got,     \* what the fetch has read
          old,     \* the queries that are invalidated: fetched when next opened
          missed   \* history: why a query may not hear of a change it lacks, if so

changes == <<db, unsent>>
socket == <<conn, room, inbox>>
cache == <<opened, data, fetch, got, old, missed>>
boardVars == <<changes, mine, socket, cache>>

-----------------------------------------------------------------------------
Version == [Kinds -> 0 .. MaxWrites]
NoData == <<>>
NoMutation == "none"

Reasons == {"away", "refused", "lost emit", "fetch failed", "fetching", "no listener"}

BoardInit == /\ db = [k \in Kinds |-> 0]
             /\ unsent = [k \in Kinds |-> 0]
             /\ mine = NoMutation
             /\ conn = FALSE
             /\ room = "out"
             /\ inbox = <<>>
             /\ opened = {}
             /\ data = [q \in Queries |-> NoData]
             /\ fetch = [q \in Queries |-> "none"]
             /\ got = [q \in Queries |-> NoData]
             /\ old = {}
             /\ missed = [q \in Queries |-> ""]

\* What q will show, without another fetch, lacks a change of kind k.
Behind(q, k) ==
  /\ k \in Shows(q)
  /\ fetch[q] # "asked"
  /\ LET v == IF fetch[q] = "read" THEN got[q] ELSE data[q]
     IN v # NoData /\ v[k] < db[k]

\* The queries in S will not hear of changes of the kinds in K.
Miss(S, K, why) ==
  missed' = [q \in Queries |-> IF q \in S /\ missed[q] = "" /\ \E k \in K : Behind(q, k)
                               THEN why ELSE missed[q]]

-----------------------------------------------------------------------------
(***************************************************************************)
(* The server: update, createComment.                                      *)
(***************************************************************************)
Committed(k) ==
  /\ db["task"] + db["comment"] < MaxWrites
  /\ db' = [db EXCEPT ![k] = @ + 1]
  /\ unsent' = [unsent EXCEPT ![k] = @ + 1]

Commit(k) ==
  /\ Committed(k)
  /\ UNCHANGED <<mine, socket, cache>>

\* emitToProject: to the sockets in the room now.
Emit(k) ==
  /\ unsent[k] > 0
  /\ unsent' = [unsent EXCEPT ![k] = @ - 1]
  /\ IF room = "in"
     THEN inbox' = Append(inbox, k) /\ UNCHANGED missed
     ELSE inbox' = inbox /\ Miss(Queries, {k}, IF room = "refused" THEN "refused" ELSE "away")
  /\ UNCHANGED <<db, mine, conn, room, opened, data, fetch, got, old>>

\* The process dies between commits and their emits.
Crash ==
  /\ unsent # [k \in Kinds |-> 0]
  /\ unsent' = [k \in Kinds |-> 0]
  /\ conn' = FALSE /\ room' = "out" /\ inbox' = <<>>
  /\ Miss(Queries, Kinds, "lost emit")
  /\ UNCHANGED <<db, mine, opened, data, fetch, got, old>>

-----------------------------------------------------------------------------
(***************************************************************************)
(* The socket.  The effect of useBoardRealtime runs once the board, and    *)
(* with it the projectId, is there.                                        *)
(***************************************************************************)

Listening == "board" \in opened /\ data["board"] # NoData

Connect ==
  /\ ~conn
  /\ conn' = TRUE
  /\ room' = IF Listening THEN "joining" ELSE "out"
  /\ UNCHANGED <<changes, mine, inbox, cache>>

\* joinProject has looked the project and the membership up.
JoinProject ==
  /\ room = "joining"
  /\ room' = "in"
  /\ UNCHANGED <<changes, mine, conn, inbox, cache>>

\* The project is gone, or the user is no member any more, or a look-up fails: the client
\* does not look at the answer, and asks again only on the next connection or page.
JoinRefused ==
  /\ room = "joining"
  /\ room' = "refused"
  /\ UNCHANGED <<changes, mine, conn, inbox, cache>>

\* Also when the access token is replaced: the provider opens a new socket.
Disconnect ==
  /\ conn
  /\ conn' = FALSE /\ room' = "out" /\ inbox' = <<>>
  /\ Miss(Queries, {inbox[i] : i \in DOMAIN inbox}, "away")
  /\ UNCHANGED <<changes, mine, opened, data, fetch, got, old>>

-----------------------------------------------------------------------------
(***************************************************************************)
(* React Query.                                                            *)
(***************************************************************************)
Restarted(S) == {q \in S : q \in opened /\ (data[q] # NoData \/ fetch[q] = "none")}

\* invalidateQueries.
Invalidate(S) ==
  /\ fetch' = [q \in Queries |-> IF q \in Restarted(S) THEN "asked" ELSE fetch[q]]
  /\ old' = old \cup {q \in S \ opened : data[q] # NoData}

Fetched(S) == fetch' = [q \in Queries |-> IF q \in S THEN "asked" ELSE fetch[q]]

\* To a socket in the room a second project:join makes no difference.
join == room' = IF room = "in" THEN "in" ELSE "joining"

\* The effect on a page whose board is in the cache.
JoinsAtOnce == conn /\ data["board"] # NoData

\* The page, or the panel on it, is opened: fetched if the cache does not have it, if
\* it was invalidated, or if it is `stale`, older than 15 seconds.
Open(q, stale) ==
  /\ q \notin opened
  /\ q = "panel" => "board" \in opened /\ data["board"] # NoData
  /\ opened' = opened \cup {q}
  /\ Fetched(IF fetch[q] = "none" /\ (stale \/ data[q] = NoData \/ q \in old)
             THEN {q} ELSE {})
  /\ IF q = "board" /\ JoinsAtOnce THEN join ELSE UNCHANGED room
  /\ UNCHANGED <<changes, mine, conn, inbox, data, got, old, missed>>

ClosePanel ==
  /\ "panel" \in opened
  /\ opened' = opened \ {"panel"}
  /\ UNCHANGED <<changes, mine, socket, data, fetch, got, old, missed>>

\* The room is left at once; a project:join that is still looking the project up
\* enters it afterwards.
leaveProject == room' \in {"out"} \cup ({room} \cap {"joining"})

\* The listeners go, and the room is left.
CloseBoard ==
  /\ opened = {"board"}
  /\ opened' = {}
  /\ leaveProject
  /\ UNCHANGED <<changes, mine, conn, inbox, data, fetch, got, old, missed>>

\* getById, getDetail: whatever was missed so far is in it.
FetchRead(q) ==
  /\ fetch[q] = "asked"
  /\ fetch' = [fetch EXCEPT ![q] = "read"]
  /\ got' = [got EXCEPT ![q] = db]
  /\ missed' = [missed EXCEPT ![q] = ""]
  /\ UNCHANGED <<changes, mine, socket, opened, data, old>>

\* With the first board comes the projectId, and the page joins.
FetchArrives(q) ==
  /\ fetch[q] = "read"
  /\ fetch' = [fetch EXCEPT ![q] = "none"]
  /\ data' = [data EXCEPT ![q] = got[q]]
  /\ got' = [got EXCEPT ![q] = NoData]
  /\ old' = old \ {q}
  /\ IF q = "board" /\ q \in opened /\ data[q] = NoData /\ conn
     THEN join ELSE UNCHANGED room
  /\ UNCHANGED <<changes, mine, conn, inbox, opened, missed>>

\* The second attempt has failed, too.
FetchFails(q) ==
  /\ fetch[q] # "none"
  /\ fetch' = [fetch EXCEPT ![q] = "none"]
  /\ got' = [got EXCEPT ![q] = NoData]
  /\ old' = old \cup {p \in {q} : data[p] # NoData}
  /\ missed' = [missed EXCEPT ![q] = "fetch failed"]
  /\ UNCHANGED <<changes, mine, socket, opened, data>>

-----------------------------------------------------------------------------
\* A bug to catch: an onComment that invalidates the board only.
BoardOnly(k) == {"board"}

\* Which queries an event invalidates: the board on any, the task on comments.
InvalidatedBy(k) == IF k = "comment" THEN Queries ELSE {"board"}

\* No task event concerns the panel; and a first fetch that has read already is not
\* restarted.
Hear(k, S) ==
  /\ Invalidate(S)
  /\ missed' = [q \in Queries |->
       IF missed[q] # "" \/ ~Behind(q, k) \/ q \in Restarted(S) THEN missed[q]
       ELSE IF q = "panel" /\ k = "task" THEN "no listener"
       ELSE IF fetch[q] = "read" THEN "fetching" ELSE ""]

\* An event that comes while the board is closed finds no listener.
Deliver ==
  /\ inbox # <<>>
  /\ inbox' = Tail(inbox)
  /\ IF Listening
     THEN Hear(Head(inbox), InvalidatedBy(Head(inbox)))
     ELSE Miss(Queries, {Head(inbox)}, "no listener") /\ UNCHANGED <<fetch, old>>
  /\ UNCHANGED <<changes, mine, conn, room, opened, data, got>>

-----------------------------------------------------------------------------
\* The tab's own change; of two at once, the model has one.
OwnCommit(k) ==
  /\ mine = NoMutation
  /\ Committed(k)
  /\ mine' = k
  /\ UNCHANGED <<socket, cache>>

PageShown(q) == q \in opened /\ data[q] # NoData

\* On the page: to the next column.
moveTask == PageShown("board") /\ OwnCommit("task")

\* On the panel: a field of the task; a comment.
saveField == PageShown("panel") /\ OwnCommit("task")

addComment == PageShown("panel") /\ OwnCommit("comment")

\* onSuccess
OwnAnswered ==
  /\ mine # NoMutation
  /\ mine' = NoMutation
  /\ Invalidate(IF mine = "comment" THEN {"panel"} ELSE Queries)
  /\ UNCHANGED <<changes, socket, opened, data, got, missed>>

OwnAnswerLost ==
  /\ mine # NoMutation
  /\ mine' = NoMutation
  /\ UNCHANGED <<changes, socket, cache>>

BoardNext ==
  \/ \E k \in Kinds : Commit(k) \/ Emit(k)
  \/ moveTask \/ saveField \/ addComment \/ OwnAnswered \/ OwnAnswerLost
  \/ Deliver \/ Crash \/ Connect \/ JoinProject \/ JoinRefused \/ Disconnect
  \/ \E q \in Queries : Open(q, TRUE) \/ Open(q, FALSE)
                       \/ FetchRead(q) \/ FetchArrives(q) \/ FetchFails(q)
  \/ ClosePanel \/ CloseBoard

BoardSpec == BoardInit /\ [][BoardNext]_boardVars

-----------------------------------------------------------------------------
(***************************************************************************)
(* Properties                                                              *)
(***************************************************************************)
BoardTypeOK ==
  /\ db \in Version /\ unsent \in Version
  /\ mine \in Kinds \cup {NoMutation}
  /\ conn \in BOOLEAN
  /\ room \in {"out", "joining", "in", "refused"} /\ (room # "out" => conn)
  /\ inbox \in Seq(Kinds)
  /\ opened \in SUBSET Queries /\ ("panel" \in opened => "board" \in opened)
  /\ data \in [Queries -> Version \cup {NoData}]
  /\ fetch \in [Queries -> {"none", "asked", "read"}]
  /\ got \in [Queries -> Version \cup {NoData}]
  /\ old \subseteq Queries
  /\ missed \in [Queries -> Reasons \cup {""}]

\* What the open board or panel does not show is on its way, as an emit to come, an event
\* or a fetch, unless the change or its event was missed for a reason on the list; and
\* while it is connected, an open board has asked to join the room.  One reason is that
\* the panel listens to comments only: no task event invalidates it, as the comment on
\* useBoardRealtime says it would ("any task or comment event").
BehindForAReason ==
  /\ conn /\ PageShown("board") => room # "out"
  /\ \A q \in opened :
       (\E k \in Kinds : Behind(q, k)) =>
         \/ missed[q] # ""
         \/ \E k \in Shows(q) : unsent[k] > 0 \/ \E i \in DOMAIN inbox : inbox[i] = k
=============================================================================
