--------------------------- MODULE WorkspaceCache ---------------------------
(***************************************************************************)
(* The cached summary and dashboard of one workspace (cache.service.ts and *)
(* getSummary, getDashboard of workspaces.service.ts), filled by readers   *)
(* on a miss and deleted by the handlers that write, once they have        *)
(* committed.                                                              *)
(*                                                                         *)
(* What is counted is abstracted to a version number per table: the cache  *)
(* is up to date when it holds the current versions.  Rows that fall out   *)
(* of the dashboard's seven-day window are not counted as a change.        *)
(*                                                                         *)
(* Every Redis command is best-effort: a get that fails is a miss, a set   *)
(* or a del that fails is logged and forgotten.                            *)
(***************************************************************************)
EXTENDS Naturals

CONSTANTS Reqs,      \* request slots: how many requests are in flight at once
          MaxWrites  \* bound: writes to the database

VARIABLES version,      \* how often each table was changed, in the database
          cache,        \* what Redis holds, by key
          unannounced,  \* history: the last version of each table whose del
                        \* never reached Redis
          silent,       \* history: the last version of each table whose writer
                        \* deletes no key at all
          req           \* what each request slot is doing

cacheVars == <<version, cache, unannounced, silent, req>>

-----------------------------------------------------------------------------
Table == {"projects", "members", "tasks", "activity"}

Key == {"summary", "dashboard"}

\* The tables that getSummary and getDashboard count.
Counted == [summary |-> {"projects", "members", "tasks"},
            dashboard |-> {"tasks", "activity"}]

\* A bug to catch: one key forgotten.
SummaryKeyOnly == {"summary"}

workspaceCacheKeys == Key

(***************************************************************************)
(* The writing handlers: what their transactions change, and which of them *)
(* delete the keys after the commit.  Creating a board, adding and         *)
(* deleting an attachment log an activity, which the dashboard counts, and *)
(* delete no key.                                                          *)
(***************************************************************************)
Operation == {"project", "member", "task", "comment", "board", "attachment"}

Touched == [project    |-> {"projects", "activity"},
            member     |-> {"members"},
            task       |-> {"tasks", "activity"},
            comment    |-> {"activity"},
            board      |-> {"activity"},
            attachment |-> {"activity"}]

Invalidating == Operation \ {"board", "attachment"}

(***************************************************************************)
(* What was read of the tables in `loaded`, 0 standing for the others.     *)
(* `raced` is history: the keys were deleted after the loader had begun to *)
(* read.                                                                   *)
(***************************************************************************)
Entry(k) == [loaded: {Counted[k]}, value: [Table -> Nat], raced: BOOLEAN]

Idle == [at |-> "idle"]

Deleting == [at: {"del"}, touched: SUBSET Table]

\* A loader's statements run concurrently and are answered one by one.
Loading == [at: {"load"}, key: Key, loaded: SUBSET Table, value: [Table -> Nat],
            raced: BOOLEAN]

Request == {Idle} \cup Deleting \cup Loading

Goto(r, q) == req' = [req EXCEPT ![r] = q]

CacheInit == /\ version = [t \in Table |-> 0]
             /\ cache = [k \in {} |-> 0]
             /\ unannounced = [t \in Table |-> 0]
             /\ silent = [t \in Table |-> 0]
             /\ req = [r \in Reqs |-> Idle]

-----------------------------------------------------------------------------
Bumped(tables) == [t \in Table |-> IF t \in tables THEN version[t] + 1 ELSE version[t]]

\* A history f once the present versions of these tables are noted in it.
Noted(f, tables) == [t \in Table |-> IF t \in tables THEN version'[t] ELSE f[t]]

\* Every operation changes one of these two tables.
Writes == version["activity"] + version["members"]

\* A transaction commits; the cache is next, if the handler thinks of it.
Write(r, op) ==
  /\ req[r] = Idle
  /\ Writes < MaxWrites
  /\ version' = Bumped(Touched[op])
  /\ IF op \in Invalidating
     THEN /\ Goto(r, [at |-> "del", touched |-> Touched[op]])
          /\ UNCHANGED silent
     ELSE /\ silent' = Noted(silent, Touched[op])
          /\ UNCHANGED req
  /\ UNCHANGED <<cache, unannounced>>

HasRead(q) == q.at = "load" /\ q.loaded # {}

\* cache.del of both keys
Del(r) ==
  /\ req[r].at = "del"
  /\ cache' = [k \in DOMAIN cache \ workspaceCacheKeys |-> cache[k]]
  /\ req' = [p \in Reqs |->
               IF p = r THEN Idle
               ELSE IF HasRead(req[p]) /\ req[p].key \in workspaceCacheKeys
               THEN [req[p] EXCEPT !.raced = TRUE]
               ELSE req[p]]
  /\ UNCHANGED <<version, unannounced, silent>>

\* Redis refuses the del, or the process dies before it.
DelLost(r) ==
  /\ req[r].at = "del"
  /\ Goto(r, Idle)
  /\ UNCHANGED <<version, cache, silent>>
  /\ unannounced' = Noted(unannounced, req[r].touched)

-----------------------------------------------------------------------------
(***************************************************************************)
(* cache.remember: on a miss, load and set.  A hit changes nothing; as a   *)
(* get may fail, any read can be a miss.                                   *)
(***************************************************************************)
Miss(r, k) ==
  /\ req[r] = Idle
  /\ Goto(r, [at |-> "load", key |-> k, loaded |-> {}, value |-> [t \in Table |-> 0],
              raced |-> FALSE])
  /\ UNCHANGED <<version, cache, unannounced, silent>>

\* The statements of Promise.all, one by one.  The dashboard's two counts of the
\* tasks are one read here, and the read of the columns, which only names them, is
\* left out.
Load(r, t) ==
  /\ req[r].at = "load"
  /\ t \in Counted[req[r].key] \ req[r].loaded
  /\ Goto(r, [req[r] EXCEPT !.loaded = @ \cup {t}, !.value[t] = version[t]])
  /\ UNCHANGED <<version, cache, unannounced, silent>>

Loaded(q) == q.loaded = Counted[q.key]

Fill(r) ==
  /\ req[r].at = "load"
  /\ Loaded(req[r])
  /\ LET q == req[r]
     IN cache' = [k \in DOMAIN cache \cup {q.key} |->
                    IF k = q.key
                    THEN [loaded |-> q.loaded, value |-> q.value, raced |-> q.raced]
                    ELSE cache[k]]
  /\ Goto(r, Idle)
  /\ UNCHANGED <<version, unannounced, silent>>

\* The loader fails, Redis refuses the set, or the process dies.
Abandon(r) ==
  /\ req[r].at = "load"
  /\ Goto(r, Idle)
  /\ UNCHANGED <<version, cache, unannounced, silent>>

\* A bug to catch: the dashboard set without EX.
SummaryExpires(k) == k = "summary"

Expires(k) == k \in Key

\* 60 or 30 seconds pass.
Expire(k) ==
  /\ Expires(k)
  /\ k \in DOMAIN cache
  /\ cache' = [j \in DOMAIN cache \ {k} |-> cache[j]]
  /\ UNCHANGED <<version, unannounced, silent, req>>

CacheNext ==
  \/ \E r \in Reqs :
       \/ \E op \in Operation : Write(r, op)
       \/ Del(r)
       \/ DelLost(r)
       \/ \E k \in Key : Miss(r, k)
       \/ \E t \in Table : Load(r, t)
       \/ Fill(r)
       \/ Abandon(r)
  \/ \E k \in Key : Expire(k)

CacheSpec == CacheInit /\ [][CacheNext]_cacheVars

\* Redis drops what has expired.
CacheFairSpec == CacheSpec /\ \A k \in Key : WF_cacheVars(Expire(k))

-----------------------------------------------------------------------------
(***************************************************************************)
(* Properties                                                              *)
(***************************************************************************)

\* Types; in particular every cached value has all of its counts.
CacheTypeOK ==
  /\ version \in [Table -> Nat]
  /\ DOMAIN cache \subseteq Key
  /\ \A k \in DOMAIN cache : cache[k] \in Entry(k)
  /\ unannounced \in [Table -> Nat]
  /\ silent \in [Table -> Nat]
  /\ req \in [Reqs -> Request]

DelPending(t) == \E r \in Reqs : req[r].at = "del" /\ t \in req[r].touched

\* The del after a commit is still to come, or it never reached Redis.
Excused(t, v) == DelPending(t) \/ unannounced[t] > v

\* A later writer of the table deletes no key.
NotTold(t, v) == silent[t] > v

\* cache.remember against the del after each commit: an old value stays in the
\* cache only because a writer is between its commit and its del, because the del
\* was lost, because the writer is one of those that delete no key, or because a
\* del fell between a loader's first read and its set.  No other interleaving of
\* writers, readers, outages and crashes leaves one behind.  The third reason is
\* no accident: it departs from the rule that WritesInvalidateBothKeys states.
StaleForAReason ==
  \A k \in DOMAIN cache : \A t \in Counted[k] :
    cache[k].value[t] < version[t] =>
      cache[k].raced \/ Excused(t, cache[k].value[t]) \/ NotTold(t, cache[k].value[t])

\* "any write that changes a count or aggregate the cached endpoints return must
\* invalidate both keys for that workspace" (milestone 6, section 5): without an
\* accident nothing old is cached once every writer is done.
\* files.service.ts:41, :77 and boards.service.ts:30 break it.
WritesInvalidateBothKeys ==
  \A k \in DOMAIN cache : \A t \in Counted[k] :
    cache[k].value[t] < version[t] => cache[k].raced \/ Excused(t, cache[k].value[t])

Fresh == \A k \in DOMAIN cache : \A t \in Counted[k] : cache[k].value[t] = version[t]

\* Once the writes stop, whatever races and outages there were, the cache is up
\* to date for good: every value carries a TTL.
EventuallyFresh == <>[][version' = version]_version => <>[]Fresh

(***************************************************************************)
(* The inductive invariant: what a loader has read so far is as stale as   *)
(* what it will store.                                                     *)
(***************************************************************************)
LoadsStaleForAReason ==
  \A r \in Reqs :
    req[r].at = "load" =>
      \A t \in req[r].loaded :
        req[r].value[t] < version[t] =>
          req[r].raced \/ Excused(t, req[r].value[t]) \/ NotTold(t, req[r].value[t])

CacheInv == CacheTypeOK /\ StaleForAReason /\ LoadsStaleForAReason
=============================================================================
