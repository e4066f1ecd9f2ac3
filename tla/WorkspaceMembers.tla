-------------------------- MODULE WorkspaceMembers --------------------------
(***************************************************************************)
(* Membership of workspaces: creating a workspace, inviting, accepting an  *)
(* invite, changing a role and removing a member                           *)
(* (workspaces.service.ts behind workspace-roles.guard.ts).                *)
(*                                                                         *)
(* The API runs many requests at once, in several processes.  A request    *)
(* occupies a slot of Reqs; each `await` of its handler is a point where   *)
(* other requests run, and what the handler read before it stays in the    *)
(* slot.  A Prisma transaction runs at PostgreSQL's default isolation,     *)
(* READ COMMITTED: the rows a statement sees are those committed when it   *)
(* starts, a row it changes is checked against the WHERE clause once more  *)
(* when its lock is granted, and the transaction's writes appear together  *)
(* at its commit.                                                          *)
(*                                                                         *)
(* An address is identified with the user registered under it: users       *)
(* register with a unique, lower-cased email, invites store it lower-cased.*)
(* What the handlers send to Redis once their transaction has committed    *)
(* (cache keys deleted, e-mails enqueued) touches none of these tables.    *)
(***************************************************************************)
EXTENDS Roles, FiniteSets

CONSTANTS Users,       \* registered users, and their addresses
          Workspaces,  \* workspaces that may be created
          Reqs,        \* request slots: how many requests are in flight at once
          Requested,   \* the roles that request bodies name
          MaxMembers,  \* bound: membership rows ever created
          MaxInvites   \* bound: invite rows ever created

ASSUME RequestedAssumption == Requested \subseteq Role

VARIABLES workspaces,  \* the workspaces created so far; none is ever deleted
          members,     \* rows of WorkspaceMember
          invites,     \* rows of WorkspaceInvite
          nextMember,  \* the next fresh WorkspaceMember id; ids are not reused
          nextInvite,  \* the next fresh WorkspaceInvite id
          req          \* what each request slot is doing

vars == <<workspaces, members, invites, nextMember, nextInvite, req>>

-----------------------------------------------------------------------------
(***************************************************************************)
(* Rows.  `by` of a member is history, not a column: the user who gave the *)
(* row its role.  `by` of an invite is the column invitedById.             *)
(***************************************************************************)
Member == [id: Nat, ws: Workspaces, user: Users, role: Role, by: Users]

Invite == [id: Nat, ws: Workspaces, email: Users, role: GrantableRole,
           by: Users, accepted: BOOLEAN, expired: BOOLEAN]

\* @@unique([workspaceId, userId]): the index every membership read uses.
MemberIn(ws, u) == {m \in members : m.ws = ws /\ m.user = u}

MemberRow(ws, u, role, by) ==
  [id |-> nextMember, ws |-> ws, user |-> u, role |-> role, by |-> by]

InviteRow(q) ==
  [id |-> nextInvite, ws |-> q.ws, email |-> q.email, role |-> q.role,
   by |-> q.by, accepted |-> FALSE, expired |-> FALSE]

(***************************************************************************)
(* Requests in flight, by the point of the handler they have reached.      *)
(***************************************************************************)
Idle == [at |-> "idle"]

Inviting == [at: {"invite.lookup", "invite.delete"},
             ws: Workspaces, email: Users, role: GrantableRole, by: Users]
InviteTx == [at: {"invite.commit"}, doomed: SUBSET Nat,
             ws: Workspaces, email: Users, role: GrantableRole, by: Users]
Accepting == [at: {"accept.commit"}, invite: Invite]
Managing == [at: {"manage"}, actor: Member]
ChangingRole == [at: {"role.write"}, actor: Member, target: Member, role: GrantableRole]
Removing == [at: {"remove.write"}, actor: Member, target: Member]

Request == {Idle} \cup Inviting \cup InviteTx \cup Accepting
             \cup Managing \cup ChangingRole \cup Removing

Goto(r, q) == req' = [req EXCEPT ![r] = q]

Init == /\ workspaces = {}
        /\ members = {}
        /\ invites = {}
        /\ nextMember = 0
        /\ nextInvite = 0
        /\ req = [r \in Reqs |-> Idle]

-----------------------------------------------------------------------------
(***************************************************************************)
(* POST /workspaces.  One nested create inserts the workspace and its      *)
(* OWNER row.                                                              *)
(***************************************************************************)
CreateWorkspace(ws, u) ==
  /\ ws \notin workspaces
  /\ nextMember < MaxMembers
  /\ workspaces' = workspaces \cup {ws}
  /\ members' = members \cup {MemberRow(ws, u, "OWNER", u)}
  /\ nextMember' = nextMember + 1
  /\ UNCHANGED <<invites, nextInvite, req>>

-----------------------------------------------------------------------------
(***************************************************************************)
(* POST /workspaces/:workspaceId/invites.  The guard reads the actor's     *)
(* membership; the checks on the role use that snapshot.                   *)
(***************************************************************************)

MayInvite(actor, role) == role # "OWNER" /\ Outranks(actor.role, role)

InviteStart(r, actor, email, role) ==
  /\ req[r] = Idle
  /\ actor.role \in ManagerRole
  /\ MayInvite(actor, role)
  /\ Goto(r, [at |-> "invite.lookup", ws |-> actor.ws, email |-> email,
              role |-> role, by |-> actor.user])
  /\ UNCHANGED <<workspaces, members, invites, nextMember, nextInvite>>

\* The address must not belong to a member (409 otherwise).
InviteLookup(r) ==
  /\ req[r].at = "invite.lookup"
  /\ MemberIn(req[r].ws, req[r].email) = {}
  /\ Goto(r, [req[r] EXCEPT !.at = "invite.delete"])
  /\ UNCHANGED <<workspaces, members, invites, nextMember, nextInvite>>

Pending(i) == ~i.accepted

PendingFor(ws, email) == {i \in invites : i.ws = ws /\ i.email = email /\ Pending(i)}

\* The transaction's deleteMany: its snapshot holds the pending invites of now.
InviteDelete(r) ==
  /\ req[r].at = "invite.delete"
  /\ LET q == req[r]
     IN Goto(r, [at |-> "invite.commit",
                 doomed |-> {i.id : i \in PendingFor(q.ws, q.email)},
                 ws |-> q.ws, email |-> q.email, role |-> q.role, by |-> q.by])
  /\ UNCHANGED <<workspaces, members, invites, nextMember, nextInvite>>

\* A bug to catch: rows deleted by id alone, accepted since or not.
DeletedById(doomed) == {i \in invites : i.id \in doomed}

\* A bug to catch: the prior invites left in place.
NoneDeleted(doomed) == {}

\* The rows of the snapshot that still satisfy the WHERE clause.
Deleted(doomed) == {i \in invites : i.id \in doomed /\ Pending(i)}

InviteCommit(r) ==
  /\ req[r].at = "invite.commit"
  /\ nextInvite < MaxInvites
  /\ invites' = (invites \ Deleted(req[r].doomed)) \cup {InviteRow(req[r])}
  /\ nextInvite' = nextInvite + 1
  /\ Goto(r, Idle)
  /\ UNCHANGED <<workspaces, members, nextMember>>

-----------------------------------------------------------------------------
(***************************************************************************)
(* POST /workspaces/invites/:token/accept, by the user whose address the   *)
(* invite names (403 for any other).  The invite is checked once, before   *)
(* the transaction.                                                        *)
(***************************************************************************)
AcceptStart(r, i) ==
  /\ req[r] = Idle
  /\ ~i.accepted
  /\ ~i.expired
  /\ Goto(r, [at |-> "accept.commit", invite |-> i])
  /\ UNCHANGED <<workspaces, members, invites, nextMember, nextInvite>>

\* workspaceInvite.update finds its row by id alone.
Accepted(i) == {[j EXCEPT !.accepted = TRUE] : j \in {k \in invites : k.id = i.id}}

(***************************************************************************)
(* The transaction inserts the membership (P2002 when there is one) and    *)
(* marks the invite (P2025 when its row is gone): both or neither.         *)
(***************************************************************************)
AcceptCommit(r) ==
  /\ req[r].at = "accept.commit"
  /\ nextMember < MaxMembers
  /\ LET i == req[r].invite
     IN /\ MemberIn(i.ws, i.email) = {}
        /\ Accepted(i) # {}
        /\ members' = members \cup {MemberRow(i.ws, i.email, i.role, i.by)}
        /\ invites' = {j \in invites : j.id # i.id} \cup Accepted(i)
  /\ nextMember' = nextMember + 1
  /\ Goto(r, Idle)
  /\ UNCHANGED <<workspaces, nextInvite>>

-----------------------------------------------------------------------------
(***************************************************************************)
(* PATCH .../members/:memberId/role and DELETE .../members/:memberId.  The *)
(* guard reads the actor, findMemberInWorkspace the target; the write      *)
(* finds the target's row by id alone.                                     *)
(***************************************************************************)
ManageStart(r, actor) ==
  /\ req[r] = Idle
  /\ actor.role \in ManagerRole
  /\ Goto(r, [at |-> "manage", actor |-> actor])
  /\ UNCHANGED <<workspaces, members, invites, nextMember, nextInvite>>

\* A bug to catch: memberId trusted, its workspaceId not compared.
AnyWorkspace(target, ws) == target.ws \in workspaces

InWorkspace(target, ws) == target.ws = ws

\* A bug to catch: the actor must outrank the new role, never mind the old one.
MayAssignAnyone(actor, target, role) ==
  /\ role # "OWNER"
  /\ target.id # actor.id
  /\ Outranks(actor.role, role)

MayAssign(actor, target, role) ==
  /\ role # "OWNER"
  /\ target.id # actor.id
  /\ Outranks(actor.role, target.role)
  /\ Outranks(actor.role, role)

\* A bug to catch: the guard's roles taken as enough to remove any other member.
MayRemoveOthers(actor, target) == target.id # actor.id

MayRemove(actor, target) ==
  /\ target.id # actor.id
  /\ Outranks(actor.role, target.role)

ReadTargetForRole(r, target, role) ==
  /\ req[r].at = "manage"
  /\ InWorkspace(target, req[r].actor.ws)
  /\ MayAssign(req[r].actor, target, role)
  /\ Goto(r, [at |-> "role.write", actor |-> req[r].actor, target |-> target,
              role |-> role])
  /\ UNCHANGED <<workspaces, members, invites, nextMember, nextInvite>>

ReadTargetForRemove(r, target) ==
  /\ req[r].at = "manage"
  /\ InWorkspace(target, req[r].actor.ws)
  /\ MayRemove(req[r].actor, target)
  /\ Goto(r, [at |-> "remove.write", actor |-> req[r].actor, target |-> target])
  /\ UNCHANGED <<workspaces, members, invites, nextMember, nextInvite>>

RoleWrite(r, m) ==
  /\ req[r].at = "role.write"
  /\ m.id = req[r].target.id
  /\ members' = (members \ {m})
                  \cup {[m EXCEPT !.role = req[r].role, !.by = req[r].actor.user]}
  /\ Goto(r, Idle)
  /\ UNCHANGED <<workspaces, invites, nextMember, nextInvite>>

RemoveWrite(r, m) ==
  /\ req[r].at = "remove.write"
  /\ m.id = req[r].target.id
  /\ members' = members \ {m}
  /\ Goto(r, Idle)
  /\ UNCHANGED <<workspaces, invites, nextMember, nextInvite>>

-----------------------------------------------------------------------------
(***************************************************************************)
(* A request ends without writing: a check fails (400, 403, 404, 409), a   *)
(* statement aborts its transaction (P2002, P2025, a lost connection), or  *)
(* the process dies.  A request whose next step is disabled can only do    *)
(* this.                                                                   *)
(***************************************************************************)
Abandon(r) ==
  /\ req[r] # Idle
  /\ Goto(r, Idle)
  /\ UNCHANGED <<workspaces, members, invites, nextMember, nextInvite>>

\* INVITE_TTL_MS passes.  The expiry of an accepted invite is never read.
ExpireInvite(i) ==
  /\ ~i.accepted
  /\ ~i.expired
  /\ invites' = (invites \ {i}) \cup {[i EXCEPT !.expired = TRUE]}
  /\ UNCHANGED <<workspaces, members, nextMember, nextInvite, req>>

\* The worker's maintenance job, every ten minutes.
CleanupExpired ==
  /\ \E i \in invites : i.expired /\ Pending(i)
  /\ invites' = {i \in invites : ~(i.expired /\ Pending(i))}
  /\ UNCHANGED <<workspaces, members, nextMember, nextInvite, req>>

InviteStep(r) ==
  \/ \E actor \in members, email \in Users, role \in Requested :
       InviteStart(r, actor, email, role)
  \/ InviteLookup(r)
  \/ InviteDelete(r)
  \/ InviteCommit(r)

AcceptStep(r) ==
  \/ \E i \in invites : AcceptStart(r, i)
  \/ AcceptCommit(r)

ManageStep(r) ==
  \/ \E actor \in members : ManageStart(r, actor)
  \/ \E target \in members, role \in Requested : ReadTargetForRole(r, target, role)
  \/ \E target \in members : ReadTargetForRemove(r, target)
  \/ \E m \in members : RoleWrite(r, m)
  \/ \E m \in members : RemoveWrite(r, m)

RequestStep(r) == InviteStep(r) \/ AcceptStep(r) \/ ManageStep(r) \/ Abandon(r)

Next ==
  \/ \E ws \in Workspaces, u \in Users : CreateWorkspace(ws, u)
  \/ \E r \in Reqs : RequestStep(r)
  \/ \E i \in invites : ExpireInvite(i)
  \/ CleanupExpired

Spec == Init /\ [][Next]_vars

-----------------------------------------------------------------------------
(***************************************************************************)
(* Properties                                                              *)
(***************************************************************************)

\* Every table holds rows of its type, with ids already issued, and every slot
\* a request of a known shape; in particular nobody is ever invited as OWNER.
TypeOK ==
  /\ workspaces \subseteq Workspaces
  /\ members \subseteq Member
  /\ invites \subseteq Invite
  /\ nextMember \in Nat
  /\ nextInvite \in Nat
  /\ req \in [Reqs -> Request]

Owners(ws) == {m \in members : m.ws = ws /\ m.role = "OWNER"}

\* A workspace has exactly one OWNER, whatever requests are in flight: the
\* service has no ownership transfer and nobody outranks OWNER
\* ("last-owner demotion impossible by construction", updateMemberRole).
OneOwner == \A ws \in workspaces : \E o \in Owners(ws) : Owners(ws) = {o}

\* No step demotes or removes an owner or moves ownership, even one that writes
\* from a stale snapshot of the target.
OwnerRowsAreForever == [][\A ws \in workspaces : Owners(ws)' = Owners(ws)]_vars

IsOwner(ws, u) == \E o \in Owners(ws) : o.user = u

\* Every ADMIN holds that role from the owner, by role change or by invite:
\* an ADMIN cannot make another ADMIN (inviteMember's "escalating laterally"),
\* even with snapshots of the actor and the target that are out of date.
AdminsComeFromTheOwner ==
  \A m \in members : m.role = "ADMIN" => IsOwner(m.ws, m.by)

\* Every member but the owner has an accepted invite of that workspace to their
\* address on file: neither a re-invite nor the clean-up job that races the
\* acceptance leaves a membership whose invite is gone.
MembersWereInvited ==
  \A m \in members :
    m.role # "OWNER" =>
      \E i \in invites : i.accepted /\ i.ws = m.ws /\ i.email = m.user

\* "a workspace only ever has one live invite per address" (inviteMember).
OneLiveInvite ==
  \A i, j \in invites :
    Pending(i) /\ Pending(j) /\ i.ws = j.ws /\ i.email = j.email => i = j

Removed(m) == \A n \in members' : n.id # m.id

\* Both rows of a change, at the write: the actor's outranks the target's old
\* role and the new one, or the old one for a removal.
Outranked ==
  \A m \in members :
    /\ Removed(m) =>
         \E r \in Reqs, a \in members :
           /\ req[r].at = "remove.write"
           /\ a.id = req[r].actor.id
           /\ Outranks(a.role, m.role)
    /\ \A n \in members' :
         n.id = m.id /\ n.role # m.role =>
           \E a \in members :
             /\ a.ws = m.ws /\ a.user = n.by
             /\ Outranks(a.role, m.role) /\ Outranks(a.role, n.role)

Written(m) == m \notin members'

\* Tenant isolation (workspace-roles.guard.ts): a membership row is changed or
\* removed by a request whose actor was let in as a member of the same
\* workspace, however long ago that was and whatever the row's id has become.
WritesStayInTheWorkspace ==
  [][\A m \in members :
       Written(m) => \E r \in Reqs :
                       /\ req[r].at \in {"role.write", "remove.write"}
                       /\ req[r].actor.ws = m.ws
                       /\ req[r].target.id = m.id]_vars
-----------------------------------------------------------------------------
(***************************************************************************)
(* The inductive invariant: the properties above need to know that ids are *)
(* unique and what the snapshots of requests in flight still agree on with *)
(* the rows they were read from.                                           *)
(***************************************************************************)
IdsAreFresh ==
  /\ \A m \in members : m.id < nextMember
  /\ \A i \in invites : i.id < nextInvite

IdsAreUnique ==
  /\ \A m, n \in members : m.id = n.id => m = n
  /\ \A i, j \in invites : i.id = j.id => i = j

RowsHaveWorkspaces ==
  /\ \A m \in members : m.ws \in workspaces
  /\ \A i \in invites : i.ws \in workspaces

\* An ADMIN role on its way to a row is on its way from the owner.
GrantOK(ws, role, by) ==
  /\ ws \in workspaces
  /\ role = "ADMIN" => IsOwner(ws, by)

\* A snapshot of an owner is still the owner's row: an actor that was OWNER is.
ActorOK(actor) ==
  /\ actor.ws \in workspaces
  /\ actor.role = "OWNER" => actor \in members

\* A target's row, if it is still there, is in the same workspace and no OWNER.
TargetOK(actor, target) ==
  /\ target.ws = actor.ws
  /\ target.id < nextMember
  /\ \A m \in members : m.id = target.id => m.ws = target.ws /\ m.role # "OWNER"

\* An invite's row, if it is still there, is for the same address and workspace.
InviteSnapshotOK(i) ==
  /\ i.id < nextInvite
  /\ \A j \in invites : j.id = i.id => j.ws = i.ws /\ j.email = i.email
  /\ GrantOK(i.ws, i.role, i.by)

RequestOK(q) ==
  /\ q.at \in {"invite.lookup", "invite.delete", "invite.commit"} =>
       GrantOK(q.ws, q.role, q.by)
  /\ q.at = "accept.commit" => InviteSnapshotOK(q.invite)
  /\ q.at \in {"manage", "role.write", "remove.write"} => ActorOK(q.actor)
  /\ q.at \in {"role.write", "remove.write"} => TargetOK(q.actor, q.target)
  /\ q.at = "role.write" => GrantOK(q.actor.ws, q.role, q.actor.user)

InvitesOK == \A i \in invites : GrantOK(i.ws, i.role, i.by)

\* The inductive invariant: the safety properties above, and what the snapshots
\* held by requests in flight have in common with the rows they were read from.
IInv ==
  /\ TypeOK
  /\ IdsAreFresh
  /\ IdsAreUnique
  /\ RowsHaveWorkspaces
  /\ OneOwner
  /\ AdminsComeFromTheOwner
  /\ MembersWereInvited
  /\ InvitesOK
  /\ \A r \in Reqs : RequestOK(req[r])
=============================================================================
