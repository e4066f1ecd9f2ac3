# DevSync in TLA+

DevSync is a multi-tenant work tracker: a NestJS API (`apps/api`), a BullMQ worker
that shares its code, a Next.js client (`apps/web`), PostgreSQL through Prisma
(`packages/db`), Redis, and an S3 store. This directory models the parts whose
correctness depends on the order in which concurrent requests, messages and browser
tabs read and write shared state, model-checks them with TLC and proves the most
important results with TLAPS.

    tlc -workers 2 -config members.cfg MCWorkspaceMembers.tla
    tlapm WorkspaceMembersProofs.tla

`PROJECT.json` lists the runs with their properties, one mutant of the model per
property that the property catches, the source lines of every definition, the hazards
of the code and the theorems.

## The system

| Part | State | Operations | Hard because | Module |
| --- | --- | --- | --- | --- |
| Workspaces and roles (`workspaces/`, `common/rbac`) | `Workspace`, `WorkspaceMember`, `WorkspaceInvite` | create, invite, accept, change role, remove | the guard's membership and the target are read before the write, which finds its row by id alone | `Roles`, `WorkspaceMembers`, `WorkspaceMembersAlone` |
| Accounts and sessions (`auth/`, `users/`) | `User`, `RefreshToken`, `EmailVerificationToken`, `PasswordResetToken` | register, login, refresh, logout, verify, forgot, reset | tokens are checked before the transaction that spends them | `Sessions`, `SessionsHistory`, `LiveSessions` |
| Order of tasks (`tasks/`, `boards/`) | `Task` (column, position), `ActivityLog` | create, edit, move, rebalance, delete | positions are computed from neighbours read at READ COMMITTED; an edit writes back a stale column and position | `TaskBoard`, `TaskBoardAlone` |
| Assignees (`tasks/`, `workspace-access.service.ts`, `jobs/`) | `TaskAssignee`, `ActivityLog`, the notification queue | create, replace, delete; enqueue, deliver | the panel sends whole sets; a job id that de-duplicates; best-effort enqueue | `Assignments` |
| Lists (`tasks/`, `common/pagination`) | none on the server; the client's cursor | `listProjectTasks`, `listActivity` | rows come, go and change between pages; ties and nulls in the sort value | `TaskPages` |
| Cache (`cache/`) | Redis `ws:summary:*`, `ws:dashboard:*` | remember, del | a fill races the del of a writer; every command may fail | `WorkspaceCache` |
| Presence (`realtime/`) | Socket.IO rooms, Redis `presence:ws:*` | connect, join, leave, disconnect | counters in several commands, a TTL nobody renews, handlers that overtake each other | `Presence` |
| Events of a board (`realtime/`, `lib/realtime`, `lib/query`) | the project's room, two cached queries, the panel's inputs | emit, join, invalidate, fetch, save | events against fetches, reconnects, late answers | `BoardLive`, `TaskPanel` |
| Throttling (`redis/redis-throttler.storage.ts`) | Redis counters and blocks | increment | `incr` and `pexpire` are two commands | `Throttle`, `ThrottledWalk` |
| Files (`files/`, `storage/`) | `Attachment`, `User.avatarKey`, objects, the bucket promise | add, delete, set avatar | two systems, no transaction over both | `Attachments` |
| Session in the browser (`lib/api/client.ts`, `lib/store`) | tokens in memory and in localStorage, the shared refresh promise | log in, log out, call, refresh, retry, load | concurrent 401s, several tabs, late and lost answers | `WebSession` |
| Worker (`jobs/processors`) | none of its own | clean-up, notifications | runs between the steps of requests | in `WorkspaceMembers`, `Sessions`, `Assignments` |
| Projects, search, health, metrics, logging, validation, other pages | little or none | one transaction, reads, formatting | | not modelled, but for the cache keys that creating a project deletes |

The parts meet in four ways. Handlers share PostgreSQL tables: the guard and the
services read memberships, the worker deletes invites and refresh tokens under running
requests. Once a transaction has committed, a handler emits to Socket.IO rooms, deletes
the workspace's cache keys and enqueues jobs, in that order, each best-effort. Every
request passes the rate limit first. And the client reacts to what it is told by the
emits and to the 401s of its requests.

Four modules compose others: `SessionsHistory` shows that `Sessions` implements
`LiveSessions`; `WebSession` has `LiveSessions` as its server; `TaskPanel` extends
`BoardLive`; `ThrottledWalk` puts the client of `TaskPages` behind `Throttle`.

## How the models read the code

* **Requests.** A request occupies a slot of `Reqs` (`Ops`, `Calls`). `req[r]` is a
  record whose field `at` names the point of the handler it has reached and whose other
  fields are what the handler has read or computed so far. Each `await` whose result the
  handler goes on to use, or after which it writes, is a boundary between two actions,
  so that other requests, and the worker, run in between. API processes are not told
  apart: handlers keep no state between requests (`Presence` and the promise of the
  bucket in `Attachments` do; they model one process).
* **Transactions.** Prisma uses PostgreSQL's default isolation, READ COMMITTED. A
  statement sees what is committed when it starts: reads inside a transaction are
  actions of their own. The writes of a transaction appear together, in the action
  called `...Commit`; an `update` by id finds whatever that row holds by then, and a
  `deleteMany` or `updateMany` applies to the rows of its snapshot (`doomed`) that still
  satisfy its WHERE clause. A unique index, or an `update` whose row is gone (P2002,
  P2025), disables the commit. Where a read is made under the lock of a row that the
  transaction has written (the assignees of an update), the lock is modelled.
* **Redis.** Each command is atomic and takes effect in the step that issues it; what
  the code does with the answer is the next step. Any command may fail.
* **Failure.** `Abandon(r)` (`Fail`, a crash) ends a request without its further steps,
  at any point: a check that fails, an aborted transaction, a lost connection, the death
  of the process. A request whose next step is disabled can only do that.
* **Time.** `Expire...` actions let a TTL pass at any moment.
* **Ids.** Row ids, tokens and object keys are fresh. A token (48 random bytes, stored
  as a hash under a unique index) is identified with its row, an e-mail address with the
  user registered under it.
* **Libraries** that hold state (PostgreSQL's locks, BullMQ, Socket.IO, React Query,
  zustand, S3) are modelled as far as the code uses them; their definitions are
  marked `external` in the map.
* **History.** Variables and fields that the code does not have are marked "history" in
  the module. They record where something came from so that a property can speak of it.
  No guard reads them, but for `ExpireToken`, which uses `from` for the order of issue,
  and the bounds of the faults in `Presence`.

An operator under a comment "A bug to catch" is not part of the model: nothing uses it.
It is a plausible wrong version of the operator after it; with it in place, TLC finds the
property named in `PROJECT.json` violated.

Many properties have the form "X, unless Y": the code does lose presence counts, leave
objects behind and cache stale values. What the property says then is that the list Y is
complete, and that without an accident on it X holds. The accidents are recorded by
history variables (`why`, `missed`, `left`, `unannounced`, `silent`, `overtaken`, `spared`,
`outrun`, `mixed`, `cut`, `stuck`) in the step in which they happen. Where the list names
something that the code does against its documents, "Where the code departs" says so.

## Modules

**Roles** has the `Role` enum and the ranking of `common/rbac/roles.ts`.

**WorkspaceMembers** is the membership of workspaces. `CreateWorkspace` is the nested
create of workspace and OWNER row. `InviteStart` (guard and role checks),
`InviteLookup` (is the address a member?), `InviteDelete` and `InviteCommit` (the
transaction) are `inviteMember`; `AcceptStart` and `AcceptCommit` are `acceptInvite`;
`ManageStart` (the guard), `ReadTargetForRole`/`ReadTargetForRemove` (with the checks)
and `RoleWrite`/`RemoveWrite` are the two managing routes; `ExpireInvite` and
`CleanupExpired` are time and the worker.

**Sessions** is `auth.service.ts`: `RegisterStart`, `RegisterCreate`, `RegisterMail`
and `Issue` (`issueAuthResponse`, shared with `Login`), `RefreshStart`/`RefreshCommit`,
`Logout`, `VerifyStart`/`VerifyCommit`, `ForgotPassword`,
`ResetStart`/`ResetRevoke`/`ResetCommit`, and `ExpireToken`, `ExpireMail`, `Cleanup`.
`passwordHash[u]` counts replacements; `login` of a token is the count at the login that
opened its chain of rotations.

**LiveSessions** is what the refresh tokens promise, of requests that overlap too: a
session is opened at a login and holds a token; a refresh is accepted while the token's
session is open (`Accept`) and gets a new token for it later (`Rotate`), whatever has
become of the session by then. So two refreshes that were accepted with one token make two
sessions of one, and a refresh that was accepted before a logout or a reset brings the
session back; nothing else does.

**SessionsHistory** adds to `Sessions` the history its rows do not keep: the first token of
each token's chain (`chainOf`), which names its session; the requests in flight whose user's
password was replaced since they began (`overtaken`); the tokens a reset could not see
(`spared`): those an overtaken request issued, those issued between a reset's `updateMany`
and its commit, and what they are rotated to; the requests whose mailed token another request
spent after they had checked it (`outrun`). With it, it states what resets and mailed tokens
promise when requests overlap, and the mapping to `LiveSessions`: the open sessions are the
rows that are not revoked, the accepted refreshes the requests past their check.

**WebSession** is the session in the browser, for several tabs: the auth store in memory
(`mem`) and its copy in localStorage (`stored`), which a tab reads when it loads;
`refreshPromise`; and calls that are sent, refused with 401, wait for the one refresh of
their tab or run it, and are repeated. A request and its answer are separate steps and
either may be lost. Its server is `LiveSessions`, which accepts a refresh first and rotates
the token later, so that two tabs may both have the token accepted. `spenders` are the tabs
that know that they have had a token rotated. `mixed` records that a refresh was
answered to a tab that had signed out or in again meanwhile.

**TaskBoard** is the order of tasks on a board: `CreateStart`/`CreateCommit`; an edit
(`EditStart`) or a move (`MoveStart`, `PlaceAtEnd` or `PlaceAmong`, `Rebalance`) that
ends in `UpdateCommit`; `DeleteStart`/`DeleteCommit`. A body names no column, one of the
board or one of another board (`BodyColumn`, `resolveTargetColumn`), and the last is
refused. `Ordered` is `ORDER BY position`, any order among equals. `Gap` is 1000 in the
code.

**WorkspaceMembersAlone** and **TaskBoardAlone** add the history variable `alone`: no two
requests have been in flight together so far. They state what the documents promise of
requests that come one at a time, and the inductive invariants behind it.

**Assignments** is the set of assignees of one task: creating, replacing and deleting
behind `requireTask` and `assertCanWrite`, while members leave, come back and change
roles; the write of the task's row that takes its lock, the assignees read under it, the
activity record of the difference; the panel's buttons, which send the whole set the
panel showed, toggled; and `notifyAssignees`, one enqueue per user, with the job ids that
de-duplicate and the removal of finished jobs.

**TaskPages** is keyset pagination: a client follows `nextCursor` over `listProjectTasks`
(four sorts) or `listActivity` while tasks enter and leave the list and are rescheduled.
`Before` is PostgreSQL's order with its place for nulls, `After` the where clause.

**Throttle** is `RedisThrottlerStorage.increment` for one client: `CheckBlock`, `Incr`,
`Pexpire`, then `LetThrough` or `Block`, which compare what `incr` told this request.
`granted` counts the requests let through that the present window has counted; a request
that was counted by a window that ended before its answer is `late`. **ThrottledWalk** is the composition: each page
of the walk takes a request that the guard lets through; a refused one is repeated.

**WorkspaceCache** is the cached summary and dashboard of one workspace: `Write` is the
commit of any of the writing handlers, by what they change and whether they delete the
keys: creating a board, adding and deleting an attachment do not (`silent`). `Del` and `DelLost` the deletion and its failure; `Miss`, `Load` (one per table
counted, they run concurrently) and `Fill` are `cache.remember`; `Expire` is the TTL.

**Presence** is who is online in a workspace: tabs that show a page of it and send join
and leave (`mail`: in order, buffered while the socket is down), the gateway's handlers,
which overtake each other from their first `await` on, the hash with its counters and its
expiry, the room, and the users each page shows (`seen`).

**BoardLive** is what a tab shows of a board and of an open task while others write. The
two queries are abstracted to the number of changes of each kind (of the task, or
comments) their data includes. A commit is followed by its emit, the emit reaches the tab
if it is in the project's room, the listener invalidates queries, an invalidated query in
use is fetched. The effect of `useBoardRealtime` runs once the board is there, so that a
page joins late; a `project:join` whose look-up is still running when the page leaves
enters the room afterwards; one that is refused, or whose look-up fails, leaves the tab
out of the room (`JoinRefused`), because the client does not look at the answer.
**TaskPanel** adds the panel's title input (`draft`, `typed`), set by an
effect and saved on blur, and the typing indicator of another user with its timer.

**Attachments** is rows and objects: `addAttachment`, `deleteAttachment`, `setAvatar`,
each with its S3 call and its row as separate steps that fail or are cut short, the
bucket that is created with the first upload, and the deletion of the task.

`MC<Module>` declares the model values of the runs and their symmetry. The theorems are
in `WorkspaceMembersProofs`, `SessionsProofs`, `TaskBoardProofs`, `AssignmentsProofs`,
`AttachmentsProofs`, `PresenceProofs`, `RedisProofs` (rate limit, pages, cache) and
`WebClientProofs` (session; board and panel). Where two components share a proof module,
their names differ: `CacheSpec`, `BoardSpec`.

## Runs

Where a property holds only for requests that come one at a time, the run checks the
`...Alone` module: one run has both kinds of behaviours, overlapping requests and longer histories without
overlap, each with its bounds; `...Alone` properties speak of the second. In the same way
`MCWebSession`, `MCTaskPanel` and `MCPresence` check instances of several kinds, chosen
initially, instead of their product.

| Run | Instance | Shows |
| --- | --- | --- |
| `members` | 3 users, 2 requests, 2 invites; overlapping: 1 workspace, 3 memberships ever; alone: 2 workspaces, 4 memberships | `OneOwner`, `OwnerRowsAreForever`, `AdminsComeFromTheOwner`, `MembersWereInvited` and `WritesStayInTheWorkspace` survive snapshots of actor, target and invite that go out of date, and the clean-up; alone, one live invite per address and managers outrank whom they change |
| `sessions` | 2 requests, 2 mailed tokens of which one may expire; one user, 3 rows of tokens, or two users, 2 rows; fair | rotation is all or nothing (`RotationIsAtomic`); a reset ends every session but those of requests it overlaps (`ResetEndsSessions`); accounts change at the cost of a mailed token, which pays twice only in requests that overlap (`AccountChangesCostAToken`); nobody is signed out by others or by the clean-up (`SignedOutByTheUser`); the rows implement `LiveSessions` (`ImplementsLiveSessions`); the row of a revoked token goes away (`RevokedTokensArePruned`) |
| `board` | 2 columns, 2 requests, `Gap` 4; overlapping: 2 tasks, positions to 12; alone: 3 tasks, positions to 16 | positions stay positive; alone, they are distinct, a move lands at its index and keeps the others' order, the log says where each task is |
| `board_live` | 2 changes, 2 messages; kinds: changes with connections, joins and fetches that fail, pages left and opened again, a typed title, another user typing | `BehindForAReason`, `SavedTextWasTyped`, `TypingIsReal`, and the types of the two modules |
| `assignments` | 2 users, 2 requests, 2 replacements, 2 changes of roles and faults | `LogTellsTheAssignees`, `TogglesAreNarrow`, `AssignedAreTold` |
| `cache_staleness` | 2 requests, 2 writes, fair | `StaleForAReason`: four reasons; after the last write the cache ends up fresh (`EventuallyFresh`) |
| `presence` | 2 tabs, 2 handlers, 1 message under way per tab, counts to 2, 1 fault; kinds: one user with faults and removal, two users without | `MiscountsHaveAReason`, `NobodyIsListedAtZero`, `PagesShowWhoIsOnline`, `LeaksExpire` |
| `web_session` | 3 tokens; kinds: 1 tab with 2 calls, 2 tabs and 2 users with 1 call each; fair | `NoTabSpendsATokenTwice`, `TokensBelongToTheUser`; every call ends (`FirstCallEnds`) |
| `attachments` | 3 requests, 4 keys, 2 faults | what is listed can be downloaded (`RowsHaveObjects`); objects nobody refers to were left by one of six accidents (`OrphansHaveAReason`) |
| `throttled_walk` | 3 tasks with ties and nulls, pages of 1, limit 2, 2 requests of others, 1 fault, 1 change, fair | `AtMostTheLimit`, `NoTaskTwice`, `NoTaskMissing`; the walk ends (`WalkEnds`) |
| `sessions_revoked_rotation` | as `sessions` | violation of `RevokedTokensYieldNothing`: the token is revoked between `refresh`'s check and its transaction, which issues a successor all the same (`auth.e2e-spec.ts:135`, `:169`) |
| `cache_silent_writes` | 2 requests, 2 writes | violation of `WritesInvalidateBothKeys`: an attachment is added, or a board created, and the cached dashboard keeps the old count of activities though nothing raced, failed or is under way (milestone 6, section 5) |

**Bounds.** They are chosen by what an interleaving needs. Two requests are enough for a
stale snapshot; the third user of `members` is the target of an ADMIN who has just
been demoted or removed; three memberships allow a member to be removed and invited again
in a workspace of two; two invites allow one to replace the other while it is accepted.
Three
rows of tokens, of all three tables, allow a login, a mailed token and a refresh that overlaps
the reset, or two rotations of one token; two of them are what another user's requests need
to get in the way. In `web_session`, two tabs have two tokens between them, a login and a
refresh of it, or two logins; a refresh while two users are signed in is covered by the proof
alone. With `Gap` 4 a gap is used up in two moves
and the middle of a column is reached. Two writes and a reader are what a stale fill
needs. Two tabs are what it takes for a tab's count to be spoiled by another, and for a
stored token to be spent by another; two calls share a refresh or come too late for it.
Two replacements of assignees at once need two requests, and a third has nothing new to
read. Four keys let an avatar be replaced by two uploads at once beside an attachment.
Three tasks on pages of one give a first, a middle and a last page, with a tie between two
of them; limit 2 with two requests of others puts a refusal into the middle of the walk and has three
requests counted at once around the limit. Every bound is a CONSTANT and
a guard of the action that would exceed it (`MaxPos` is one on `CreateCommit` and
`UpdateCommit`).

**Deadlock** is checked but in `assignments`, `attachments` and `throttled_walk`: these
stop when the bounds of log, keys or changes are reached or the walk is over.

**Fairness.** Safety needs none. `RevokedTokensArePruned` assumes that time passes
(`WF` of `ExpireToken`) and that the repeatable clean-up job runs (`WF` of `Cleanup`;
`maintenance.processor.ts` schedules it every ten minutes). `EventuallyFresh` assumes
that Redis drops expired keys (`WF` of `Expire`). `FirstCallEnds` assumes that each
request of the tab is answered or fails and that the answer is handled (`WF` of the steps
of a call: a fetch settles, and the browser runs its continuation); nothing is assumed of
what the answer is, nor of the user. `WalkEnds` assumes that the client repeats its
request, that the server processes what it has accepted and that the two keys expire; it
holds although others use up the limit, because their requests are bounded, and fails if
a counter was left without an expiry, which the property excepts. Runs with liveness use
no symmetry.

## Where the code departs from its documents

Two departures are runs that find a violation.

* `auth.e2e-spec.ts:135`, `:169`: a token that was rotated or logged out can no longer be
  refreshed. A refresh past its check can (`sessions_revoked_rotation`).
* `milestone-6-redis-caching-rate-limiting.md:140`: "any write that changes a count or
  aggregate the cached endpoints return must invalidate both keys". Creating a board
  (`boards.service.ts:30`), adding and deleting an attachment (`files.service.ts:41`, `:77`)
  log an activity, which the dashboard counts, and delete no key (`cache_silent_writes`).

Four more show up when a property that holds `alone` is checked without that premise; they
are the reason for the premise.

* `workspaces.service.ts:179` says that "a workspace only ever has one live invite per
  address": two transactions delete what each sees, both insert (`OneLiveInvite`).
* `workspaces.service.ts:272`: the actor must outrank the target's role. The owner can
  promote a MEMBER between an ADMIN's check and the ADMIN's update (`Outranked`).
* `milestone-3-projects-boards-tasks.md:258` expects the transaction to keep concurrent
  moves from "an inconsistent order": two moves read the same neighbours and commit the
  same position (`PositionsDistinct`).
* `milestone-3-projects-boards-tasks.md:229`: no change without its activity record. An
  edit of the title that read the task before a move writes its old column back, with no
  `task.moved` (`LogAgreesWithBoard`; `tasks.service.ts:111`).

The others are exceptions that a property names.

* `milestone-3-projects-boards-tasks.md:295` (section 6): "If `limit+1` rows come back,
  there's a next page", and :344 (section 8) has the pages miss nothing. Sorted by due date,
  a row whose due date is null is never after a cursor, and a page that ends in one has no
  next though more rows came back (`tasks.service.ts:317`, `:341`): such rows are left out
  and the walk stops early (`NoTaskMissing`).
* `use-realtime.ts:52`: the hook "invalidates the cached board/task on any task or comment
  event". No task event invalidates the open panel (:104-108), which shows the old task until
  a comment or the user's own change fetches it (`BehindForAReason`, reason "no listener").
* `milestone-6-redis-caching-rate-limiting.md`, section 7: the expiry is there "so a crashed
  instance can't leak presence forever". Every join and leave sets it again, so in a workspace
  that is never idle for 120 s a count left by a crash stays (`LeaksExpire` says only that
  the expiry is set).
* Not against a document, but what its reader would not expect: a login or refresh that
  overlaps a password reset survives it (`ResetEndsSessions`, `spared`); a mailed token that
  two requests have both checked pays for two changes (`auth.service.ts:130`, `:179`;
  `AccountChangesCostAToken`, `outrun`); a registration that loses the race for an address is
  answered 500, not 409.

## Proofs

`tlapm` checks the proofs for every value of the constants: any number of users,
workspaces, tabs, requests and rows. Each safety and action property that a run checks is
a theorem; only liveness is not. The properties are not inductive by themselves: each
module states an inductive invariant, proves it of the initial states and of every action,
one lemma per handler, and derives the properties from it.

Assumptions on the constants: bounds are numbers (`MaxIdsAssumption`,
`MaxWritesAssumption`, `BoundsAssumption`, `FaultsAssumption`, `LimitAssumption` with a
limit of at least 1, `IndexAssumption`); `GapAssumption`: a gap is 2 or more (with 1, half
a gap would be 0); request bodies name roles (`RequestedAssumption`); sockets, users, the
rows of a list and the requests counted at once are finitely many (`SocketsAssumption`,
`UsersAssumption`, `PagesAssumption`, `CallsAssumption`); and the names of nobody, no key, no
call and no tab are nobody's. The theorems about requests that come one at a time say so:
their properties have the premise `alone`. "Where the code departs" shows that the premise is
needed.

**WorkspaceMembersProofs**: `TypeCorrect`, `ExactlyOneOwner`, `OwnersAreNeverTouched`,
`NoLateralEscalation`, `NoMemberWithoutInvite`, `TenantIsolation`. Whether a role write is
harmless depends on what its request read long ago. `IInv` adds that ids are fresh and
unique and, for each request in flight, what its snapshot still has in common with the
database (`RequestOK`): an actor that was OWNER still is; a target's row, if there, is in
the same workspace and no OWNER; an ADMIN role on its way into a row or an invite comes
from the owner. `TablesEvolve` says how far tables may change under a request in flight,
`RequestsStayOK` that `RequestOK` survives it. For requests that come one at a time,
`OneInvitePerAddress` and `ManagersOutrank`: `AloneInv` adds that what the request in
flight has read is still so, though invites expire and are cleaned up at any point of it:
the actor's and the target's rows are the ones it checked, and the ids an invite is about to
delete (`doomed`) include all pending ones of its address.

**SessionsProofs**: `TypeCorrect`, `RotationKeepsTheChain`, `NobodyElseSignsOut`. A rotated token's successor stays on file while the token lives
because the clean-up removes expired rows only and the successor expires later:
`ExpiryFollowsIssue` says so. The others say that a mailed token read by a request is still
there, with its user and kind, and that a refresh token is, if there, of the same user and
login; the ids that a reset is about to revoke belong to its user.

The other theorems are about `HistorySpec`, which adds history variables to `Spec` and
disables no step, and hold for any number of overlapping requests: `AccountsArePaidFor`,
`ResetsEndSessions`, `Refinement`. `HistoryInv` says of each request in flight that what it
has read is still so, or that the history knows what overtook it: a request that will issue a
token has read the present password, or is `overtaken`; a reset about to commit has listed
every unrevoked token of its user, or the token is `spared`; a mailed token that a request is
about to spend is unused, or the request is `outrun`. `Refinement` maps the rows that are not
revoked to the sessions of `LiveSessions` and the requests past their check to the accepted
ones; each step of `Sessions` opens, accepts, rotates, drops or ends, or leaves the sessions
alone. It needs that an id, once issued, is not issued again though its row be deleted
(`HistoryOK`).

**TaskBoardProofs**: `TypeCorrect`, `PositionsStayPositive`, `NoTaskComesBack`. A position
in a column is positive because one below the first is only taken when the first is above
`Gap`, and a midpoint only between positions two or more apart (`PositionAtPositive`);
whether the neighbours are still there when it is written does not matter. For requests
that come one at a time, `PositionsStayDistinct`, `LogStaysTrue` and `MovesLand`.
`AloneInv` says what a move that has computed its place knows (`PlaceIsFree`): nothing is
there, and as many tasks are below as its index says; and what a rebalancing has listed
(`ListsTheOthers`): the other tasks, once each and in their order. The new positions are
increasing in that order (`RenumberedOK`), so the others keep their order and leave the
index free (`LandsByRebalancing`, `LandsWithRoom`).

**AssignmentsProofs**: `TypeCorrect`, `TheLogTellsWhoIsAssigned`, `ButtonsAreNarrow`,
`AssigneesAreTold`. An update that has read the assignees holds the lock of the task's row
until it commits, so that what it records as added and removed is the difference
(`RequestOK`); the assignees a panel shows are those there are as long as no record has
been added since (`base = Len(log)`), so that its button changes one.

**WebClientProofs**, the session: `TypeCorrect`, `NoTokenIsSpentTwice`,
`TokensAreTheUsers`, `NobodyWaitsForNothing`. A tab never presents a token it has had
rotated because the token leaves its memory and localStorage with the answer, and no
refresh starts before (`SpentIsGone`, `OneRefresh`); the token an answer brings is nowhere
else in the browser until then (`AnswersAreNew`), so no other tab can put it, or the one it
replaces, back. The server is known only by `LiveSessions`.

**WebClientProofs**, board and panel: `PanelTypeCorrect`, `WhatIsMissingHasAReason`,
`SavedTextIsTyped`, `TypingEnds`. `BehindForAReason` speaks of queries in use; `BoardInv`
extends it to those that are not: what a closed query lacks is also accounted for by its
mark as invalidated (`Waits`), which the next opening turns into a fetch. `PanelInv` says
that the input holds the task as it is shown, and whoever has last said that he types has
a timer, on whichever leg of its way that message is (`Said`).

**RedisProofs**, the rate limit: `TheLimitHolds`, `WindowsEnd`, `CountersKeepTheirTypes`.
Each step of the composition is a step of `Throttle` or leaves it alone
(`ImplementsThrottle`). `GrantsAreCounted`: the requests of the present window that were let
through and those still on their way with a count within the limit are together no more than
the counter and than the limit. `incr` adds one to both sides, or to neither when the request
is past the limit; `LetThrough` moves one from those on their way to those let through; the end
of the window makes those on their way `late`.

**RedisProofs**, the pages: `NoTaskIsListedTwice`, `NoTaskIsMissing`. `Walked` says that a
task that was listed is not after the cursor, and that one that was there all along is
after it or was listed. A page moves the cursor over what it lists because the order of
rows is total and a finite set of them has a first one.

**RedisProofs**, the cache: `CacheTypeCorrect`, `StalenessIsExplained`. `CacheInv` adds to
`StaleForAReason` the same statement of what a loader has read so far.

**PresenceProofs**: `TypeCorrect`, `CountsAreSockets`, `ZeroIsDeleted`, `ListsExpire`. The
three properties become inductive together with `Sane`: a field that is not there counts
for 0, and a handler whose socket it does not know to be gone has it connected. A count and
a room change in different steps, so the proof goes by the number of a user's sockets in
the room, one more or one less (`OneMore`). `PagesAreRight`: `PagesInv` says, unless there
was an accident, where a page's last join or leave is on its way (`Course`) and that a page
in the room shows the hash unless a handler that will broadcast is under way (`UpToDate`).

**AttachmentsProofs**: `TypeCorrect`, `NothingListedIsMissing`, `OrphansAreExplained`. A
deletion never hits an object that is referred to because the key of an upload is nobody
else's until its row is written, and the object a request is about to delete has left both
tables for good (`KeysOK`).

Only model-checked is what must eventually happen, which is out of the prover's reach:
`RevokedTokensArePruned`, `EventuallyFresh`, `FirstCallEnds`, `WalkEnds`. And
`RevokedTokensYieldNothing` is violated.

## Not modelled

* Search, health, metrics, logging, validation and error bodies: stateless.
* Projects: one transaction; what it does to the cache is in `WorkspaceCache`.
* The pages that only render or submit a form, and drag and drop, which the board's page
  does not have.
* Access tokens are stateless JWTs: `WebSession` has their expiry. Argon2, hashing, slugs,
  base64 cursors and wording are abstracted. Cursors are those the server issued.
* Several server processes in `Presence`: the Redis adapter between them.
* Rows leaving the dashboard's seven-day window; the 32-bit limit of positions (some two
  million moves to the end of a column away).
* The repeatable job's registration, and e-mail delivery: best-effort calls whose failure
  changes nothing that is read again.

Hazards seen while reading that no module covers: a logout leaves the React Query cache in
place, and the next user of the tab may see it for a moment; a page whose first fetch fails
keeps its spinner; a removed member's socket stays in its rooms and receives events until it
disconnects; `dueAt: null` in a task's body is read as 1970; two workspaces of one name may
pass the look-up of the slug at once, and the unique index refuses the second with a 500; a
crash between a registration's user and its token leaves an account that can no more be
verified (no route sends the e-mail again); the seed script deletes every workspace and user
before it writes.

## Next

1. The board's abstract specification (a sequence of tasks per column), implemented by
   `TaskBoard` for requests that come one at a time.
2. `Presence` over two processes.
3. The members page over `WorkspaceMembers`, with the queries it invalidates.
