------------------------------ MODULE Presence ------------------------------
(***************************************************************************)
(* Who is online in a workspace: the sockets of the browser tabs that show *)
(* one of its pages (use-realtime.ts), the handlers of                     *)
(* realtime.gateway.ts, and the counters of presence.service.ts, a Redis   *)
(* hash with an expiry.                                                    *)
(*                                                                         *)
(* A tab's messages reach the server in order, but each handler runs on    *)
(* its own from its first `await` on, so a leave can overtake a join.  The *)
(* server's Redis commands share one connection: they are executed in the  *)
(* order in which they are issued, and their answers come in that order.   *)
(* So a command takes effect in the step that issues it, and what the      *)
(* handler does with the answer is the next step.                          *)
(*                                                                         *)
(* One workspace, one server process.                                      *)
(***************************************************************************)
EXTENDS Integers, Sequences, FiniteSets

CONSTANTS Users, Sockets,
          Ops,       \* handler slots: how many handlers are in flight at once
          MaxMail,   \* bound: messages under way from one tab
          MaxCount,  \* bound: the count of one user
          MaxFaults  \* bound: kinds of disturbance before the last fault

ASSUME SocketsAssumption == IsFiniteSet(Sockets)

VARIABLES userOf,   \* who is signed in in each tab; never changes here
          members,  \* users with a WorkspaceMember row
          conn,     \* sockets that are connected
          shows,    \* tabs that show a page of the workspace
          mail,     \* what each tab has sent and the server not received
          joined,   \* sockets in the room, and with the workspace in client.data
          listed,   \* the fields of the hash presence:ws:<workspace>
          count,    \* their values, 0 of a field that is not there
          ttl,      \* whether the hash has an expiry
          op,       \* what each handler slot is doing
          seen,     \* the users each tab shows as online
          why       \* history: why counts may differ from the sockets

vars == <<userOf, members, conn, shows, mail, joined, listed, count, ttl, op, seen, why>>

hash == <<listed, count, ttl>>

-----------------------------------------------------------------------------
Idle == [at |-> "idle"]

\* `gone`: the socket was disconnected while the handler ran.
Handling == [at: {"join.check", "join.room", "remove.del", "expire", "broadcast"},
             s: Sockets, gone: BOOLEAN]

Races == {"sneaked in", "joined late", "stray leave"}

Reasons == Races \cup {"crash", "redis", "stuck", "expired"}

\* A fault of the process or of Redis, at most one of a kind; `happens` FALSE: all
\* is well.
Fault(kind, happens) ==
  /\ happens => kind \notin why
  /\ why' = IF happens THEN why \cup {kind} ELSE why

\* A race counts if nothing else has gone wrong before.
Race(kind, happens) ==
  why' = IF happens /\ why = {} THEN {kind} ELSE why

Goto(r, at) == op' = [op EXCEPT ![r].at = at]

Finish(r) == op' = [op EXCEPT ![r] = Idle]

Of(r) == userOf[op[r].s]

JoinedOf(u) == {s \in joined : userOf[s] = u}

Init == /\ userOf \in [Sockets -> Users]
        /\ members = Users
        /\ conn = {}
        /\ shows = {}
        /\ mail = [s \in Sockets |-> <<>>]
        /\ joined = {}
        /\ listed = {}
        /\ count = [u \in Users |-> 0]
        /\ ttl = FALSE
        /\ op = [r \in Ops |-> Idle]
        /\ seen = [s \in Sockets |-> {}]
        /\ why = {}

-----------------------------------------------------------------------------
(***************************************************************************)
(* Redis.                                                                  *)
(***************************************************************************)

\* A key that springs into being has no expiry.
Hincrby(u, d) ==
  /\ listed' = listed \cup {u}
  /\ count' = [count EXCEPT ![u] = @ + d]
  /\ ttl' = (ttl /\ listed # {})

\* A hash without fields is no key.
Hdel(u) ==
  /\ listed' = listed \ {u}
  /\ count' = [count EXCEPT ![u] = 0]
  /\ ttl' = (ttl /\ listed' # {})

\* 120 seconds have passed.
Expire ==
  /\ ttl
  /\ listed' = {}
  /\ count' = [u \in Users |-> 0]
  /\ ttl' = FALSE
  /\ Fault("expired", TRUE)
  /\ UNCHANGED <<members, conn, shows, mail, joined, op, seen>>

-----------------------------------------------------------------------------
(***************************************************************************)
(* The tab: useWorkspacePresence, and useBoardRealtime for the workspace.  *)
(***************************************************************************)

\* The `connect` listener of a page on show.
JoinsOnConnect(s) == IF s \in shows THEN <<"join">> ELSE <<>>

\* A handshake with a valid access token.  Messages written while the socket was
\* down have been buffered and go first.
Connect(s) ==
  /\ s \notin conn
  /\ conn' = conn \cup {s}
  /\ mail' = [mail EXCEPT ![s] = @ \o JoinsOnConnect(s)]
  /\ UNCHANGED <<members, shows, joined, hash, op, seen, why>>

Mount(s) ==
  /\ s \notin shows
  /\ Len(mail[s]) < MaxMail
  /\ shows' = shows \cup {s}
  /\ seen' = [seen EXCEPT ![s] = {}]
  /\ mail' = IF s \in conn THEN [mail EXCEPT ![s] = Append(@, "join")] ELSE mail
  /\ UNCHANGED <<members, conn, joined, hash, op, why>>

\* The clean-up of the effect emits the leave, connected or not.
Unmount(s) ==
  /\ s \in shows
  /\ Len(mail[s]) < MaxMail
  /\ shows' = shows \ {s}
  /\ mail' = [mail EXCEPT ![s] = Append(@, "leave")]
  /\ UNCHANGED <<members, conn, joined, hash, op, seen, why>>

-----------------------------------------------------------------------------
(***************************************************************************)
(* The gateway.  `ok`: whether Redis executes the command; PresenceService *)
(* catches and logs it when it does not.                                   *)
(***************************************************************************)
Receive(r, s, message) ==
  /\ op[r] = Idle
  /\ s \in conn
  /\ mail[s] # <<>>
  /\ Head(mail[s]) = message
  /\ mail' = [mail EXCEPT ![s] = Tail(@)]

Joining(u) == {r \in Ops : op[r] # Idle /\ op[r].at \in {"join.check", "join.room"} /\ Of(r) = u}

JoinReceived(r, s) ==
  /\ Receive(r, s, "join")
  /\ count[userOf[s]] + Cardinality(Joining(userOf[s])) < MaxCount
  /\ op' = [op EXCEPT ![r] = [at |-> "join.check", s |-> s, gone |-> FALSE]]
  /\ UNCHANGED <<members, conn, shows, joined, hash, seen, why>>

\* isMember
JoinChecked(r) ==
  /\ op[r].at = "join.check"
  /\ IF Of(r) \in members THEN Goto(r, "join.room") ELSE Finish(r)
  /\ UNCHANGED <<members, conn, shows, mail, joined, hash, seen, why>>

\* client.join on a socket that has gone changes nothing.
Entering(r) == IF op[r].gone THEN {} ELSE {op[r].s}

\* PresenceService.add counts the socket all the same.
JoinRoom(r, ok) ==
  /\ op[r].at = "join.room"
  /\ joined' = joined \cup Entering(r)
  /\ IF ok THEN Race("joined late", op[r].gone \/ op[r].s \in joined) ELSE Fault("redis", TRUE)
  /\ IF ok THEN Hincrby(Of(r), 1) ELSE UNCHANGED hash
  /\ Goto(r, IF ok THEN "expire" ELSE "broadcast")
  /\ UNCHANGED <<members, conn, shows, mail, seen>>

\* A bug to catch: fields that stay until they go below zero.
DeletedBelowZero(u) == count[u] - 1 < 0

\* next <= 0, of the answer to hincrby -1.
DeletedAtZero(u) == count[u] - 1 <= 0

\* PresenceService.remove, on behalf of socket s, up to its first answer.
Remove(r, s, ok) ==
  /\ IF ok THEN Hincrby(userOf[s], -1) ELSE UNCHANGED hash
  /\ op' = [q \in Ops |->
              IF q = r
              THEN [at |-> IF ~ok THEN "broadcast"
                           ELSE IF DeletedAtZero(userOf[s]) THEN "remove.del" ELSE "expire",
                    s |-> s, gone |-> s \notin conn']
              ELSE IF op[q] # Idle /\ s \notin conn' /\ op[q].s = s
                   THEN [op[q] EXCEPT !.gone = TRUE]
                   ELSE op[q]]

\* A bug to catch: client.data still has the workspace after the leave.
NotForgotten(s) == {}

Forgotten(s) == {s}

\* leaveWorkspace asks neither for membership nor whether the socket has joined.
LeaveReceived(r, s, ok) ==
  /\ Receive(r, s, "leave")
  /\ conn' = conn
  /\ joined' = joined \ Forgotten(s)
  /\ Remove(r, s, ok)
  /\ IF ok THEN Race("stray leave", s \notin joined) ELSE Fault("redis", TRUE)
  /\ UNCHANGED <<members, shows, seen>>

\* The connection is lost, and with it what was under way; handleDisconnect removes
\* a socket that has joined.
Disconnect(r, s, ok) ==
  /\ s \in joined
  /\ op[r] = Idle
  /\ conn' = conn \ {s}
  /\ mail' = [mail EXCEPT ![s] = <<>>]
  /\ joined' = joined \ {s}
  /\ Remove(r, s, ok)
  /\ Fault("redis", ~ok)
  /\ UNCHANGED <<members, shows, seen>>

DisconnectUnjoined(s) ==
  /\ s \in conn \ joined
  /\ conn' = conn \ {s}
  /\ mail' = [mail EXCEPT ![s] = <<>>]
  /\ op' = [q \in Ops |-> IF op[q] # Idle /\ op[q].s = s
                          THEN [op[q] EXCEPT !.gone = TRUE] ELSE op[q]]
  /\ UNCHANGED <<members, shows, joined, hash, seen, why>>

RemoveField(r, ok) ==
  /\ op[r].at = "remove.del"
  /\ IF ok THEN Race("sneaked in", count[Of(r)] > 0) ELSE Fault("stuck", TRUE)
  /\ IF ok THEN Hdel(Of(r)) ELSE UNCHANGED hash
  /\ Goto(r, IF ok THEN "expire" ELSE "broadcast")
  /\ UNCHANGED <<members, conn, shows, mail, joined, seen>>

\* A bug to catch: an expiry that an active workspace never gets.
ExpiryKept == ttl

\* expire, of a key that is there.
ExpirySet == listed # {}

SetExpiry(r, ok) ==
  /\ op[r].at = "expire"
  /\ ttl' = IF ok THEN ExpirySet ELSE ttl
  /\ Fault("stuck", ~ok)
  /\ Goto(r, "broadcast")
  /\ UNCHANGED <<members, conn, shows, mail, joined, listed, count, seen>>

\* A bug to catch: the news only for the socket that caused it.
ToldAlone(r) == {op[r].s} \cap joined \cap shows

\* Who hears of it: the sockets in the room, on a page that listens.
Told(r) == joined \cap shows

\* broadcastPresence: the keys are read and sent on in the order of the answers, so
\* hkeys and the emit after its await are one step: a tab that joins between them
\* gets, from the older answer, what its own broadcast corrects.
\* A failing hkeys is not caught (presence.service.ts returns the promise).
Broadcast(r, ok) ==
  /\ op[r].at = "broadcast"
  /\ seen' = IF ok THEN [s \in Sockets |-> IF s \in Told(r) THEN listed ELSE seen[s]]
             ELSE seen
  /\ Fault("redis", ~ok)
  /\ Finish(r)
  /\ UNCHANGED <<members, conn, shows, mail, joined, hash>>

\* The process dies: no handleDisconnect runs.
Crash ==
  /\ conn # {}
  /\ conn' = {}
  /\ joined' = {}
  /\ mail' = [s \in Sockets |-> <<>>]
  /\ op' = [r \in Ops |-> Idle]
  /\ Fault(IF listed # {} /\ ~ttl THEN "stuck" ELSE "crash", TRUE)
  /\ UNCHANGED <<members, shows, hash, seen>>

\* DELETE .../members/:memberId: the sockets of the member stay where they are.
RemoveMember(u) ==
  /\ \E s \in Sockets : userOf[s] = u
  /\ members' = members \ {u}
  /\ members' # members
  /\ UNCHANGED <<conn, shows, mail, joined, hash, op, seen, why>>

-----------------------------------------------------------------------------
TabStep(s) == Connect(s) \/ Mount(s) \/ Unmount(s) \/ DisconnectUnjoined(s)

HandlerStep(r) ==
  \/ JoinChecked(r)
  \/ \E ok \in BOOLEAN : JoinRoom(r, ok) \/ RemoveField(r, ok)
                         \/ SetExpiry(r, ok) \/ Broadcast(r, ok)

Step ==
  \/ \E s \in Sockets : TabStep(s)
  \/ \E r \in Ops, s \in Sockets :
       \/ JoinReceived(r, s)
       \/ \E ok \in BOOLEAN : LeaveReceived(r, s, ok) \/ Disconnect(r, s, ok)
  \/ \E r \in Ops : HandlerStep(r)
  \/ Expire
  \/ Crash
  \/ \E u \in Users : RemoveMember(u)

Next == Step /\ userOf' = userOf /\ Cardinality(why') <= MaxFaults

Spec == Init /\ [][Next]_vars

-----------------------------------------------------------------------------
(***************************************************************************)
(* Properties                                                              *)
(***************************************************************************)

\* The state is of its type, and only sockets that are connected have joined.
TypeOK ==
  /\ userOf \in [Sockets -> Users]
  /\ members \subseteq Users /\ conn \subseteq Sockets /\ shows \subseteq Sockets
  /\ mail \in [Sockets -> Seq({"join", "leave"})]
  /\ joined \subseteq conn
  /\ listed \subseteq Users
  /\ count \in [Users -> Int]
  /\ ttl \in BOOLEAN
  /\ op \in [Ops -> {Idle} \cup Handling]
  /\ seen \in [Sockets -> SUBSET Users]
  /\ why \subseteq Reasons

\* "field {userId} = integer socket count": a user's count is the number of sockets
\* the user has in the room, unless the process or Redis failed, the hash expired, a
\* join slipped in between hincrby and hdel, a join ended after its socket was gone
\* or was the socket's second, or a leave came from a socket that had not joined.
MiscountsHaveAReason ==
  why = {} => \A u \in Users : count[u] = Cardinality(JoinedOf(u))

\* "HDEL when it hits 0": a user who is shown online has a positive count, or the
\* handler that took it to zero or below has yet to delete the field.
NobodyIsListedAtZero ==
  why \cap {"crash", "stuck"} # {} \/
  \A u \in listed :
    count[u] > 0 \/ \E r \in Ops : op[r] # Idle /\ op[r].at = "remove.del" /\ Of(r) = u

\* What the pages show: once all is handled, every tab in the room shows exactly the
\* users with a socket in the room, if nothing on the list of reasons has happened; and
\* unless a member was removed, those sockets are the connected ones that show a page.
PagesShowWhoIsOnline ==
  why = {} /\ (\A r \in Ops : op[r] = Idle) /\ (\A s \in Sockets : mail[s] = <<>>) =>
    /\ \A s \in joined \cap shows : seen[s] = {u \in Users : JoinedOf(u) # {}}
    /\ members = Users => joined = conn \cap shows

\* "so a crashed instance can't leak presence forever": a list that is not empty has an
\* expiry, or a handler that will set it, unless a failure left it without one.  It
\* does not say that a leaked count goes away: every join and leave sets the expiry
\* again, so in a workspace that is never idle for its length the count stays.
LeaksExpire ==
  "stuck" \in why \/ listed = {} \/ ttl
  \/ \E r \in Ops : op[r] # Idle /\ op[r].at \in {"remove.del", "expire"}
=============================================================================
