----------------------- MODULE WorkspaceMembersProofs -----------------------
(***************************************************************************)
(* Proofs about WorkspaceMembers for every set of users, workspaces and    *)
(* request slots and every bound: IInv is inductive, and the properties    *)
(* follow from it.                                                         *)
(***************************************************************************)
EXTENDS WorkspaceMembersAlone, TLAPS

\* How the tables may change under the feet of a request in flight: workspaces
\* are not deleted, owner rows stay, and a row keeps its id, its workspace and
\* its address.
TablesEvolve ==
  /\ workspaces \subseteq workspaces'
  /\ \A ws \in workspaces : Owners(ws)' = Owners(ws)
  /\ nextMember <= nextMember'
  /\ nextInvite <= nextInvite'
  /\ \A n \in members' : n.id < nextMember =>
       \E m \in members : m.id = n.id /\ m.ws = n.ws
                          /\ (n.role = "OWNER" => m.role = "OWNER")
  /\ \A j \in invites' : j.id < nextInvite =>
       \E i \in invites : i.id = j.id /\ i.ws = j.ws /\ i.email = j.email

\* Who outranks whom, in the three cases the invariant needs: nobody outranks
\* OWNER, only OWNER outranks ADMIN (roles.ts).
LEMMA RankFacts ==
  ASSUME NEW a \in Role, NEW b \in Role, Outranks(a, b)
  PROVE  b # "OWNER" /\ (b = "ADMIN" => a = "OWNER")
BY DEF Outranks, RoleRank, Role

\* IInv holds of the empty database.
LEMMA InitIInv == Init => IInv
<1> SUFFICES ASSUME Init PROVE IInv
  OBVIOUS
<1>1. TypeOK
  BY DEF Init, TypeOK, Request
<1>2. \A r \in Reqs : RequestOK(req[r])
  BY DEF Init, RequestOK, Idle
<1> QED
  BY <1>1, <1>2 DEF Init, IInv, IdsAreFresh, IdsAreUnique, RowsHaveWorkspaces,
     OneOwner, AdminsComeFromTheOwner, MembersWereInvited, InvitesOK

\* A grant that was in order stays so: owners are not replaced.
LEMMA GrantsStayOK ==
  ASSUME NEW ws, NEW role, NEW by, TablesEvolve, GrantOK(ws, role, by)
  PROVE  GrantOK(ws, role, by)'
BY DEF TablesEvolve, GrantOK, IsOwner

\* What a request in flight knows stays true when the tables evolve.
LEMMA RequestsStayOK ==
  ASSUME IInv, TablesEvolve, nextMember' \in Nat, nextInvite' \in Nat,
         NEW q \in Request, RequestOK(q)
  PROVE  RequestOK(q)'
<1>0. /\ nextMember \in Nat /\ nextInvite \in Nat
      /\ members \subseteq Member /\ invites \subseteq Invite
  BY DEF IInv, TypeOK
<1>1. ASSUME q.at \in {"invite.lookup", "invite.delete", "invite.commit"}
      PROVE  GrantOK(q.ws, q.role, q.by)'
  BY <1>1, GrantsStayOK DEF RequestOK
<1>2. ASSUME q.at = "accept.commit"
      PROVE  InviteSnapshotOK(q.invite)'
  <2>1. q.invite \in Invite
    BY <1>2 DEF Request, Idle, Inviting, InviteTx, Accepting, Managing,
       ChangingRole, Removing
  <2>2. q.invite.id \in Nat /\ InviteSnapshotOK(q.invite)
    BY <1>2, <2>1 DEF RequestOK, Invite
  <2>3. GrantOK(q.invite.ws, q.invite.role, q.invite.by)'
    BY <2>2, GrantsStayOK DEF InviteSnapshotOK
  <2>4. q.invite.id < nextInvite'
    BY <1>0, <2>2 DEF InviteSnapshotOK, TablesEvolve
  <2> QED
    BY <2>2, <2>3, <2>4 DEF InviteSnapshotOK, TablesEvolve
<1>3. ASSUME q.at \in {"manage", "role.write", "remove.write"}
      PROVE  ActorOK(q.actor)'
  <2>1. ActorOK(q.actor)
    BY <1>3 DEF RequestOK
  <2>2. ASSUME q.actor.role = "OWNER"
        PROVE  q.actor \in members'
    <3>1. q.actor \in Owners(q.actor.ws)
      BY <2>1, <2>2 DEF ActorOK, Owners
    <3> QED
      BY <2>1, <3>1 DEF ActorOK, TablesEvolve, Owners
  <2> QED
    BY <2>1, <2>2 DEF ActorOK, TablesEvolve
<1>4. ASSUME q.at \in {"role.write", "remove.write"}
      PROVE  TargetOK(q.actor, q.target)'
  <2>1. q.target.id \in Nat
    BY <1>4 DEF Request, Idle, Inviting, InviteTx, Accepting, Managing,
       ChangingRole, Removing, Member
  <2>2. TargetOK(q.actor, q.target)
    BY <1>4 DEF RequestOK
  <2> QED
    BY <1>0, <2>1, <2>2 DEF TargetOK, TablesEvolve
<1>5. ASSUME q.at = "role.write"
      PROVE  GrantOK(q.actor.ws, q.role, q.actor.user)'
  BY <1>5, GrantsStayOK DEF RequestOK
<1> QED
  BY <1>1, <1>2, <1>3, <1>4, <1>5 DEF RequestOK

Tables == <<workspaces, members, invites, nextMember, nextInvite>>

\* A step that only moves a request to a point whose snapshots are in order.
LEMMA GotoKeepsIInv ==
  ASSUME IInv, NEW r \in Reqs, NEW q \in Request, RequestOK(q), Goto(r, q),
         UNCHANGED Tables
  PROVE  IInv'
<1>1. TypeOK'
  BY DEF IInv, TypeOK, Goto, Tables
<1>2. \A p \in Request : RequestOK(p)' <=> RequestOK(p)
  BY DEF Tables, RequestOK, GrantOK, ActorOK, TargetOK, InviteSnapshotOK, IsOwner, Owners
<1>3. \A s \in Reqs : RequestOK(req[s])'
  BY <1>2 DEF IInv, TypeOK, Goto
<1>4. /\ IdsAreFresh' /\ IdsAreUnique' /\ RowsHaveWorkspaces' /\ OneOwner'
      /\ AdminsComeFromTheOwner' /\ MembersWereInvited' /\ InvitesOK'
  BY DEF IInv, Tables, IdsAreFresh, IdsAreUnique, RowsHaveWorkspaces, OneOwner,
     AdminsComeFromTheOwner, MembersWereInvited, InvitesOK, GrantOK, IsOwner, Owners
<1> QED
  BY <1>1, <1>3, <1>4 DEF IInv

\* What is left to show for a step that changes tables and frees its slot (or
\* touches no slot): the rows' own part of the invariant.
LEMMA TablesKeepIInv ==
  ASSUME IInv, TypeOK', TablesEvolve,
         \A r \in Reqs : req'[r] = req[r] \/ req'[r] = Idle,
         IdsAreFresh', IdsAreUnique', RowsHaveWorkspaces', OneOwner',
         AdminsComeFromTheOwner', MembersWereInvited', InvitesOK'
  PROVE  IInv'
<1> SUFFICES ASSUME NEW r \in Reqs PROVE RequestOK(req[r])'
  BY DEF IInv
<1>1. RequestOK(Idle)'
  BY DEF RequestOK, Idle
<1>2. req[r] \in Request /\ RequestOK(req[r])
  BY DEF IInv, TypeOK
<1>3. nextMember' \in Nat /\ nextInvite' \in Nat
  BY DEF TypeOK
<1>4. ASSUME NEW q \in Request, RequestOK(q) PROVE RequestOK(q)'
  BY <1>3, <1>4, RequestsStayOK
<1>5. \A q : req'[r] = q /\ RequestOK(q)' => RequestOK(req[r])'
  BY DEF RequestOK, GrantOK, ActorOK, TargetOK, InviteSnapshotOK
<1> QED
  BY <1>1, <1>2, <1>4, <1>5

-----------------------------------------------------------------------------
\* POST /workspaces
LEMMA CreateWorkspaceKeepsIInv ==
  ASSUME IInv, NEW ws \in Workspaces, NEW u \in Users, CreateWorkspace(ws, u)
  PROVE  IInv' /\ TablesEvolve
<1> DEFINE o == MemberRow(ws, u, "OWNER", u)
<1>0. /\ nextMember \in Nat
      /\ \A m \in members : m \in Member /\ m.ws # ws /\ m.id < nextMember
      /\ o \in Member /\ o.ws = ws /\ o.id = nextMember /\ o.user = u
      /\ o.role = "OWNER"
      /\ members' = members \cup {o} /\ nextMember' = nextMember + 1
      /\ workspaces' = workspaces \cup {ws} /\ ws \notin workspaces
      /\ UNCHANGED <<invites, nextInvite, req>>
  BY DEF IInv, TypeOK, RowsHaveWorkspaces, IdsAreFresh, CreateWorkspace, MemberRow,
     Member, Role
<1> HIDE DEF o
<1>1. TypeOK'
  BY <1>0 DEF IInv, TypeOK
<1>2. \A w \in workspaces : Owners(w)' = Owners(w)
  BY <1>0 DEF Owners
<1>3. Owners(ws)' = {o}
  BY <1>0 DEF Owners
<1>4. TablesEvolve
  BY <1>0, <1>2 DEF TablesEvolve, Member, IInv, TypeOK
<1>5. IdsAreFresh' /\ IdsAreUnique' /\ RowsHaveWorkspaces'
  BY <1>0 DEF IInv, TypeOK, IdsAreFresh, IdsAreUnique, RowsHaveWorkspaces, Member
<1>6. OneOwner'
  BY <1>0, <1>2, <1>3 DEF IInv, OneOwner
<1>7. AdminsComeFromTheOwner' /\ MembersWereInvited'
  BY <1>0, <1>2 DEF IInv, AdminsComeFromTheOwner, MembersWereInvited, IsOwner,
     RowsHaveWorkspaces
<1>8. InvitesOK'
  BY <1>0, <1>4, GrantsStayOK DEF IInv, InvitesOK
<1> QED
  BY <1>0, <1>1, <1>4, <1>5, <1>6, <1>7, <1>8, TablesKeepIInv

\* A step of an inviting request.
LEMMA InviteKeepsIInv ==
  ASSUME IInv, NEW r \in Reqs, InviteStep(r)
  PROVE  IInv' /\ TablesEvolve
<1>0. TypeOK /\ req[r] \in Request /\ RequestOK(req[r])
  BY DEF IInv, TypeOK
<1>1. ASSUME UNCHANGED Tables PROVE TablesEvolve
  BY <1>0, <1>1 DEF TablesEvolve, Tables, Owners, TypeOK, Member, Invite
<1>2. ASSUME NEW actor \in members, NEW email \in Users, NEW role \in Requested,
             InviteStart(r, actor, email, role)
      PROVE  IInv' /\ TablesEvolve
  <2> DEFINE q == [at |-> "invite.lookup", ws |-> actor.ws, email |-> email,
                   role |-> role, by |-> actor.user]
  <2>1. actor \in Member /\ role \in Role
    BY <1>0, RequestedAssumption DEF TypeOK
  <2>2. role # "OWNER" /\ (role = "ADMIN" => actor.role = "OWNER")
    BY <1>2, <2>1, RankFacts DEF InviteStart, MayInvite, Member
  <2>3. q \in Request
    BY <2>1, <2>2 DEF Request, Inviting, Member, GrantableRole
  <2>4. GrantOK(actor.ws, role, actor.user)
    BY <2>2 DEF GrantOK, IsOwner, Owners, IInv, RowsHaveWorkspaces
  <2>5. RequestOK(q)
    BY <2>4 DEF RequestOK
  <2>6. Goto(r, q) /\ UNCHANGED Tables
    BY <1>2 DEF InviteStart, Tables
  <2> QED
    BY <1>1, <2>3, <2>5, <2>6, GotoKeepsIInv
<1>3. ASSUME InviteLookup(r)
      PROVE  IInv' /\ TablesEvolve
  <2> DEFINE q == [req[r] EXCEPT !.at = "invite.delete"]
  <2>1. req[r] \in Inviting
    BY <1>0, <1>3 DEF InviteLookup, Request, Idle, Inviting, InviteTx, Accepting,
       Managing, ChangingRole, Removing
  <2>2. q \in Request
    BY <2>1 DEF Request, Inviting
  <2>3. GrantOK(req[r].ws, req[r].role, req[r].by)
    BY <1>0, <1>3 DEF InviteLookup, RequestOK
  <2>4. RequestOK(q)
    BY <2>1, <2>3 DEF RequestOK, Inviting
  <2>5. Goto(r, q) /\ UNCHANGED Tables
    BY <1>3 DEF InviteLookup, Tables
  <2> QED
    BY <1>1, <2>2, <2>4, <2>5, GotoKeepsIInv
<1>4. ASSUME InviteDelete(r)
      PROVE  IInv' /\ TablesEvolve
  <2> DEFINE d == {i.id : i \in PendingFor(req[r].ws, req[r].email)}
             q == [at |-> "invite.commit", doomed |-> d, ws |-> req[r].ws,
                   email |-> req[r].email, role |-> req[r].role, by |-> req[r].by]
  <2>1. req[r] \in Inviting
    BY <1>0, <1>4 DEF InviteDelete, Request, Idle, Inviting, InviteTx, Accepting,
       Managing, ChangingRole, Removing
  <2>2. d \in SUBSET Nat
    BY <1>0 DEF PendingFor, TypeOK, Invite
  <2>3. q \in Request
    BY <2>1, <2>2 DEF Request, Inviting, InviteTx
  <2>4. GrantOK(req[r].ws, req[r].role, req[r].by)
    BY <1>0, <1>4 DEF InviteDelete, RequestOK
  <2>5. RequestOK(q)
    BY <2>4 DEF RequestOK
  <2>6. Goto(r, q) /\ UNCHANGED Tables
    BY <1>4 DEF InviteDelete, Tables
  <2> QED
    BY <1>1, <2>3, <2>5, <2>6, GotoKeepsIInv
<1>5. ASSUME InviteCommit(r)
      PROVE  IInv' /\ TablesEvolve
  <2> DEFINE new == InviteRow(req[r])
             q == req[r]
  <2>1. q \in InviteTx
    BY <1>0, <1>5 DEF InviteCommit, Request, Idle, Inviting, InviteTx, Accepting,
       Managing, ChangingRole, Removing
  <2>2. GrantOK(q.ws, q.role, q.by)
    BY <1>0, <1>5 DEF InviteCommit, RequestOK
  <2>3. /\ new \in Invite /\ new.id = nextInvite /\ ~new.accepted
        /\ new.ws = q.ws /\ new.role = q.role /\ new.by = q.by
    BY <1>0, <2>1 DEF InviteRow, Invite, InviteTx, TypeOK
  <2>4. /\ \A i \in invites' : i \in invites \/ i = new
        /\ \A i \in invites : i.accepted => i \in invites'
        /\ nextInvite' = nextInvite + 1
        /\ UNCHANGED <<workspaces, members, nextMember>>
        /\ req' = [req EXCEPT ![r] = Idle]
    BY <1>5 DEF InviteCommit, Deleted, Pending, Goto
  <2> HIDE DEF new, q
  <2>5. TypeOK'
    BY <1>0, <2>3, <2>4 DEF TypeOK, Request
  <2>6. \A w : Owners(w)' = Owners(w)
    BY <2>4 DEF Owners
  <2>7. TablesEvolve
    BY <1>0, <2>3, <2>4, <2>6 DEF TablesEvolve, TypeOK, Member, Invite
  <2>8. IdsAreFresh' /\ IdsAreUnique' /\ RowsHaveWorkspaces'
    BY <1>0, <2>2, <2>3, <2>4 DEF IInv, TypeOK, IdsAreFresh, IdsAreUnique,
       RowsHaveWorkspaces, GrantOK, Invite, Member
  <2>9. OneOwner' /\ AdminsComeFromTheOwner'
    BY <2>4, <2>6 DEF IInv, OneOwner, AdminsComeFromTheOwner, IsOwner
  <2>10. MembersWereInvited'
    BY <2>4 DEF IInv, MembersWereInvited
  <2>11. InvitesOK'
    BY <2>2, <2>3, <2>4, <2>7, GrantsStayOK DEF IInv, InvitesOK
  <2>12. \A s \in Reqs : req'[s] = req[s] \/ req'[s] = Idle
    BY <1>0, <2>4 DEF TypeOK
  <2> QED
    BY <2>5, <2>7, <2>8, <2>9, <2>10, <2>11, <2>12, TablesKeepIInv
<1> QED
  BY <1>2, <1>3, <1>4, <1>5 DEF InviteStep

-----------------------------------------------------------------------------
\* A step of an accepting request.
LEMMA AcceptKeepsIInv ==
  ASSUME IInv, NEW r \in Reqs, AcceptStep(r)
  PROVE  IInv' /\ TablesEvolve
<1>0. TypeOK /\ req[r] \in Request /\ RequestOK(req[r])
  BY DEF IInv, TypeOK
<1>1. ASSUME NEW i \in invites, AcceptStart(r, i)
      PROVE  IInv' /\ TablesEvolve
  <2> DEFINE q == [at |-> "accept.commit", invite |-> i]
  <2>1. i \in Invite /\ InviteSnapshotOK(i)
    BY <1>0 DEF IInv, TypeOK, IdsAreFresh, IdsAreUnique, InvitesOK, InviteSnapshotOK
  <2>2. q \in Request /\ RequestOK(q)
    BY <2>1 DEF Request, Accepting, RequestOK
  <2>3. Goto(r, q) /\ UNCHANGED Tables
    BY <1>1 DEF AcceptStart, Tables
  <2>4. TablesEvolve
    BY <1>0, <2>3 DEF TablesEvolve, Tables, Owners, TypeOK, Member, Invite
  <2> QED
    BY <2>2, <2>3, <2>4, GotoKeepsIInv
<1>2. ASSUME AcceptCommit(r)
      PROVE  IInv' /\ TablesEvolve
  <2> DEFINE i == req[r].invite
             new == MemberRow(i.ws, i.email, i.role, i.by)
  <2>1. req[r] \in Accepting
    BY <1>0, <1>2 DEF AcceptCommit, Request, Idle, Inviting, InviteTx, Accepting,
       Managing, ChangingRole, Removing
  <2>2. i \in Invite /\ InviteSnapshotOK(i)
    BY <1>0, <2>1 DEF Accepting, RequestOK
  <2>3. /\ new \in Member /\ new.id = nextMember /\ new.ws = i.ws
        /\ new.user = i.email /\ new.role = i.role /\ new.by = i.by
        /\ new.role # "OWNER"
    BY <1>0, <2>2 DEF MemberRow, Member, Invite, GrantableRole, TypeOK
  <2>4. /\ members' = members \cup {new} /\ nextMember' = nextMember + 1
        /\ UNCHANGED <<workspaces, nextInvite>>
        /\ req' = [req EXCEPT ![r] = Idle]
        /\ Accepted(i) # {}
        /\ invites' = {j \in invites : j.id # i.id} \cup Accepted(i)
    BY <1>2 DEF AcceptCommit, Goto
  <2> HIDE DEF new
  <2>5. \A j \in Accepted(i) :
          /\ j \in Invite /\ j.accepted /\ j.ws = i.ws /\ j.email = i.email
          /\ j.id = i.id
          /\ \E k \in invites : k.id = i.id /\ k.ws = j.ws /\ k.email = j.email
                               /\ k.role = j.role /\ k.by = j.by
    BY <1>0, <2>2 DEF Accepted, InviteSnapshotOK, TypeOK, Invite
  <2>6. \A j, k \in Accepted(i) : j = k
    BY <1>0 DEF Accepted, IInv, IdsAreUnique
  <2>7. TypeOK'
    BY <1>0, <2>3, <2>4, <2>5 DEF TypeOK, Request
  <2>8. \A w : Owners(w)' = Owners(w)
    BY <2>3, <2>4 DEF Owners
  <2>9. TablesEvolve
    <3>1. \A j \in invites' : \E k \in invites : k.id = j.id /\ k.ws = j.ws /\ k.email = j.email
      BY <2>4, <2>5
    <3> QED
      BY <1>0, <2>3, <2>4, <2>8, <3>1 DEF TablesEvolve, TypeOK, Member, Invite
  <2>10. IdsAreFresh' /\ IdsAreUnique'
    BY <1>0, <2>2, <2>3, <2>4, <2>5, <2>6 DEF IInv, TypeOK, IdsAreFresh, IdsAreUnique,
       InviteSnapshotOK, Member, Invite
  <2>11. RowsHaveWorkspaces'
    BY <2>2, <2>3, <2>4, <2>5 DEF IInv, RowsHaveWorkspaces, InviteSnapshotOK, GrantOK
  <2>12. OneOwner'
    BY <2>4, <2>8 DEF IInv, OneOwner
  <2>13. AdminsComeFromTheOwner'
    BY <2>2, <2>3, <2>4, <2>8 DEF IInv, AdminsComeFromTheOwner, InviteSnapshotOK,
       GrantOK, IsOwner
  <2>14. MembersWereInvited'
    <3> SUFFICES ASSUME NEW m \in members', m.role # "OWNER"
                 PROVE  \E j \in invites' : j.accepted /\ j.ws = m.ws /\ j.email = m.user
      BY DEF MembersWereInvited
    <3>1. PICK a \in Accepted(i) : TRUE
      BY <2>4
    <3>2. CASE m = new
      BY <2>3, <2>4, <2>5, <3>1, <3>2
    <3>3. CASE m \in members
      <4>1. PICK j \in invites : j.accepted /\ j.ws = m.ws /\ j.email = m.user
        BY <3>3 DEF IInv, MembersWereInvited
      <4>2. CASE j.id # i.id
        BY <2>4, <4>1, <4>2
      <4>3. CASE j.id = i.id
        <5>1. j.ws = i.ws /\ j.email = i.email
          BY <2>2, <4>3 DEF InviteSnapshotOK
        <5> QED
          BY <2>4, <2>5, <3>1, <4>1, <5>1
      <4> QED
        BY <4>2, <4>3
    <3> QED
      BY <2>4, <3>2, <3>3
  <2>15. InvitesOK'
    <3>1. \A j \in invites' : GrantOK(j.ws, j.role, j.by)
      BY <2>4, <2>5 DEF IInv, InvitesOK
    <3> QED
      BY <2>9, <3>1, GrantsStayOK DEF InvitesOK
  <2>16. \A s \in Reqs : req'[s] = req[s] \/ req'[s] = Idle
    BY <1>0, <2>4 DEF TypeOK
  <2> QED
    BY <2>7, <2>9, <2>10, <2>11, <2>12, <2>13, <2>14, <2>15, <2>16, TablesKeepIInv
<1> QED
  BY <1>1, <1>2 DEF AcceptStep

-----------------------------------------------------------------------------
\* A step of a request that changes a role or removes a member.
LEMMA ManageKeepsIInv ==
  ASSUME IInv, NEW r \in Reqs, ManageStep(r)
  PROVE  IInv' /\ TablesEvolve
<1>0. TypeOK /\ req[r] \in Request /\ RequestOK(req[r])
  BY DEF IInv, TypeOK
<1>1. ASSUME UNCHANGED Tables PROVE TablesEvolve
  BY <1>0, <1>1 DEF TablesEvolve, Tables, Owners, TypeOK, Member, Invite
<1>2. ASSUME req[r].at \in {"manage", "role.write", "remove.write"}
      PROVE  /\ req[r].actor \in Member /\ ActorOK(req[r].actor)
             /\ req[r].at = "role.write" => req[r].role \in GrantableRole
             /\ req[r].at # "manage" => TargetOK(req[r].actor, req[r].target)
  BY <1>0, <1>2 DEF RequestOK, Request, Idle, Inviting, InviteTx, Accepting, Managing,
     ChangingRole, Removing
<1>3. ASSUME NEW t \in members, req[r].at = "manage",
             InWorkspace(t, req[r].actor.ws), t.role # "OWNER"
      PROVE  t \in Member /\ TargetOK(req[r].actor, t)
  BY <1>0, <1>3 DEF TargetOK, InWorkspace, IInv, TypeOK, IdsAreFresh, IdsAreUnique
<1>4. ASSUME NEW actor \in members, ManageStart(r, actor)
      PROVE  IInv' /\ TablesEvolve
  <2> DEFINE q == [at |-> "manage", actor |-> actor]
  <2>1. q \in Request /\ RequestOK(q)
    BY <1>0 DEF Request, Managing, RequestOK, ActorOK, IInv, TypeOK, RowsHaveWorkspaces
  <2>2. Goto(r, q) /\ UNCHANGED Tables
    BY <1>4 DEF ManageStart, Tables
  <2> QED
    BY <1>1, <2>1, <2>2, GotoKeepsIInv
<1>5. ASSUME NEW t \in members, NEW role \in Requested, ReadTargetForRole(r, t, role)
      PROVE  IInv' /\ TablesEvolve
  <2> DEFINE a == req[r].actor
             q == [at |-> "role.write", actor |-> a, target |-> t, role |-> role]
  <2>1. req[r].at = "manage" /\ a \in Member /\ ActorOK(a) /\ role \in Role
    BY <1>2, <1>5, RequestedAssumption DEF ReadTargetForRole
  <2>2. t \in Member /\ role # "OWNER" /\ t.role # "OWNER"
        /\ (role = "ADMIN" => a.role = "OWNER")
    BY <1>0, <1>5, <2>1, RankFacts DEF ReadTargetForRole, MayAssign, TypeOK, Member
  <2>3. TargetOK(a, t)
    BY <1>3, <1>5, <2>1, <2>2 DEF ReadTargetForRole
  <2>4. GrantOK(a.ws, role, a.user)
    BY <2>1, <2>2 DEF ActorOK, GrantOK, IsOwner, Owners
  <2>5. q \in Request /\ RequestOK(q)
    BY <2>1, <2>2, <2>3, <2>4 DEF Request, ChangingRole, GrantableRole, RequestOK
  <2>6. Goto(r, q) /\ UNCHANGED Tables
    BY <1>5 DEF ReadTargetForRole, Tables
  <2> QED
    BY <1>1, <2>5, <2>6, GotoKeepsIInv
<1>6. ASSUME NEW t \in members, ReadTargetForRemove(r, t)
      PROVE  IInv' /\ TablesEvolve
  <2> DEFINE a == req[r].actor
             q == [at |-> "remove.write", actor |-> a, target |-> t]
  <2>1. req[r].at = "manage" /\ a \in Member /\ ActorOK(a)
    BY <1>2, <1>6 DEF ReadTargetForRemove
  <2>2. t \in Member /\ t.role # "OWNER"
    BY <1>0, <1>6, <2>1, RankFacts DEF ReadTargetForRemove, MayRemove, TypeOK, Member
  <2>3. TargetOK(a, t)
    BY <1>3, <1>6, <2>1, <2>2 DEF ReadTargetForRemove
  <2>4. q \in Request /\ RequestOK(q)
    BY <2>1, <2>2, <2>3 DEF Request, Removing, RequestOK
  <2>5. Goto(r, q) /\ UNCHANGED Tables
    BY <1>6 DEF ReadTargetForRemove, Tables
  <2> QED
    BY <1>1, <2>4, <2>5, GotoKeepsIInv
<1>7. ASSUME NEW m \in members, RoleWrite(r, m)
      PROVE  IInv' /\ TablesEvolve
  <2> DEFINE a == req[r].actor
             n == [m EXCEPT !.role = req[r].role, !.by = a.user]
  <2>1. /\ a \in Member /\ TargetOK(a, req[r].target) /\ req[r].role \in GrantableRole
        /\ GrantOK(a.ws, req[r].role, a.user) /\ m \in Member
    BY <1>0, <1>2, <1>7 DEF RoleWrite, RequestOK, TypeOK
  <2>2. m.ws = a.ws /\ m.role # "OWNER"
    BY <1>7, <2>1 DEF RoleWrite, TargetOK
  <2>3. /\ n \in Member /\ n.id = m.id /\ n.ws = m.ws /\ n.user = m.user
        /\ n.role # "OWNER" /\ GrantOK(n.ws, n.role, n.by)
    BY <2>1, <2>2 DEF Member, GrantableRole
  <2>4. /\ members' = (members \ {m}) \cup {n}
        /\ UNCHANGED <<workspaces, invites, nextMember, nextInvite>>
        /\ req' = [req EXCEPT ![r] = Idle]
    BY <1>7 DEF RoleWrite, Goto
  <2> HIDE DEF n
  <2>5. TypeOK'
    BY <1>0, <2>3, <2>4 DEF TypeOK, Request
  <2>6. \A w : Owners(w)' = Owners(w)
    BY <2>2, <2>3, <2>4 DEF Owners
  <2>7. TablesEvolve
    BY <1>0, <2>3, <2>4, <2>6 DEF TablesEvolve, TypeOK, Member, Invite
  <2>8. IdsAreFresh' /\ IdsAreUnique' /\ RowsHaveWorkspaces'
    BY <1>0, <2>3, <2>4 DEF IInv, TypeOK, IdsAreFresh, IdsAreUnique, RowsHaveWorkspaces
  <2>9. OneOwner'
    BY <2>4, <2>6 DEF IInv, OneOwner
  <2>10. AdminsComeFromTheOwner'
    BY <2>3, <2>4, <2>6 DEF IInv, AdminsComeFromTheOwner, IsOwner, GrantOK
  <2>11. MembersWereInvited'
    BY <2>2, <2>3, <2>4 DEF IInv, MembersWereInvited
  <2>12. InvitesOK'
    BY <2>4, <2>7, GrantsStayOK DEF IInv, InvitesOK
  <2>13. \A s \in Reqs : req'[s] = req[s] \/ req'[s] = Idle
    BY <1>0, <2>4 DEF TypeOK
  <2> QED
    BY <2>5, <2>7, <2>8, <2>9, <2>10, <2>11, <2>12, <2>13, TablesKeepIInv
<1>8. ASSUME NEW m \in members, RemoveWrite(r, m)
      PROVE  IInv' /\ TablesEvolve
  <2>1. m.role # "OWNER"
    BY <1>2, <1>8 DEF RemoveWrite, TargetOK
  <2>2. /\ members' = members \ {m}
        /\ UNCHANGED <<workspaces, invites, nextMember, nextInvite>>
        /\ req' = [req EXCEPT ![r] = Idle]
    BY <1>8 DEF RemoveWrite, Goto
  <2>3. TypeOK'
    BY <1>0, <2>2 DEF TypeOK, Request
  <2>4. \A w : Owners(w)' = Owners(w)
    BY <2>1, <2>2 DEF Owners
  <2>5. TablesEvolve
    BY <1>0, <2>2, <2>4 DEF TablesEvolve, TypeOK, Member, Invite
  <2>6. IdsAreFresh' /\ IdsAreUnique' /\ RowsHaveWorkspaces'
    BY <2>2 DEF IInv, IdsAreFresh, IdsAreUnique, RowsHaveWorkspaces
  <2>7. OneOwner' /\ AdminsComeFromTheOwner'
    BY <2>2, <2>4 DEF IInv, OneOwner, AdminsComeFromTheOwner, IsOwner
  <2>8. MembersWereInvited'
    BY <2>2 DEF IInv, MembersWereInvited
  <2>9. InvitesOK'
    BY <2>2, <2>5, GrantsStayOK DEF IInv, InvitesOK
  <2>10. \A s \in Reqs : req'[s] = req[s] \/ req'[s] = Idle
    BY <1>0, <2>2 DEF TypeOK
  <2> QED
    BY <2>3, <2>5, <2>6, <2>7, <2>8, <2>9, <2>10, TablesKeepIInv
<1> QED
  BY <1>4, <1>5, <1>6, <1>7, <1>8 DEF ManageStep

-----------------------------------------------------------------------------
\* Every step of the specification.
LEMMA NextKeepsIInv ==
  ASSUME IInv, [Next]_vars
  PROVE  IInv' /\ TablesEvolve
<1>0. TypeOK
  BY DEF IInv
<1>1. ASSUME UNCHANGED vars
      PROVE  IInv' /\ TablesEvolve
  <2>1. TablesEvolve
    BY <1>0, <1>1 DEF vars, TablesEvolve, Owners, TypeOK, Member, Invite
  <2>2. IInv'
    BY <1>1, <2>1 DEF vars, IInv, TypeOK, IdsAreFresh, IdsAreUnique,
       RowsHaveWorkspaces, OneOwner, AdminsComeFromTheOwner, MembersWereInvited,
       InvitesOK, RequestOK, GrantOK, ActorOK, TargetOK, InviteSnapshotOK, IsOwner, Owners
  <2> QED
    BY <2>1, <2>2
<1>2. ASSUME NEW r \in Reqs, Abandon(r)
      PROVE  IInv' /\ TablesEvolve
  <2>1. Idle \in Request /\ RequestOK(Idle)
    BY DEF Request, RequestOK, Idle
  <2>2. Goto(r, Idle) /\ UNCHANGED Tables
    BY <1>2 DEF Abandon, Tables
  <2>3. TablesEvolve
    BY <1>0, <2>2 DEF TablesEvolve, Tables, Owners, TypeOK, Member, Invite
  <2> QED
    BY <2>1, <2>2, <2>3, GotoKeepsIInv
\* Expiry and clean-up touch invites that are not accepted only.
<1>3. ASSUME UNCHANGED <<workspaces, members, nextMember, nextInvite, req>>,
             \A j \in invites' : \E i \in invites :
               j = i \/ j = [i EXCEPT !.expired = TRUE],
             \A i \in invites : i.accepted => i \in invites',
             \A j, k \in invites' : j.id = k.id => j = k
      PROVE  IInv' /\ TablesEvolve
  <2>1. \A j \in invites' : j \in Invite /\ \E i \in invites :
           i.id = j.id /\ i.ws = j.ws /\ i.email = j.email /\ i.role = j.role /\ i.by = j.by
    BY <1>0, <1>3 DEF TypeOK, Invite
  <2>2. TypeOK'
    BY <1>0, <1>3, <2>1 DEF TypeOK
  <2>3. TablesEvolve
    BY <1>0, <1>3, <2>1 DEF TablesEvolve, Owners, TypeOK, Member, Invite
  <2>4. IdsAreFresh' /\ IdsAreUnique' /\ RowsHaveWorkspaces'
    BY <1>3, <2>1 DEF IInv, IdsAreFresh, IdsAreUnique, RowsHaveWorkspaces
  <2>5. OneOwner' /\ AdminsComeFromTheOwner' /\ MembersWereInvited'
    BY <1>3 DEF IInv, OneOwner, AdminsComeFromTheOwner, MembersWereInvited, IsOwner, Owners
  <2>6. \A j \in invites' : GrantOK(j.ws, j.role, j.by)
    BY <2>1 DEF IInv, InvitesOK
  <2>7. InvitesOK'
    BY <2>3, <2>6, GrantsStayOK DEF InvitesOK
  <2>8. \A s \in Reqs : req'[s] = req[s] \/ req'[s] = Idle
    BY <1>3
  <2> QED
    BY <2>2, <2>3, <2>4, <2>5, <2>7, <2>8, TablesKeepIInv
<1>4. ASSUME NEW i \in invites, ExpireInvite(i)
      PROVE  IInv' /\ TablesEvolve
  <2>1. [i EXCEPT !.expired = TRUE].id = i.id
    BY <1>0 DEF TypeOK, Invite
  <2>2. /\ \A j \in invites' : (j \in invites /\ j # i) \/ j = [i EXCEPT !.expired = TRUE]
        /\ \A j \in invites : j.accepted => j \in invites'
    BY <1>4 DEF ExpireInvite
  <2>3. \A j, k \in invites' : j.id = k.id => j = k
    BY <2>1, <2>2 DEF IInv, IdsAreUnique
  <2>4. UNCHANGED <<workspaces, members, nextMember, nextInvite, req>>
    BY <1>4 DEF ExpireInvite
  <2> QED
    BY <1>3, <2>2, <2>3, <2>4
<1>5. ASSUME CleanupExpired
      PROVE  IInv' /\ TablesEvolve
  <2>1. invites' \subseteq invites /\ \A i \in invites : i.accepted => i \in invites'
    BY <1>5 DEF CleanupExpired, Pending
  <2>2. \A j, k \in invites' : j.id = k.id => j = k
    BY <2>1 DEF IInv, IdsAreUnique
  <2>3. UNCHANGED <<workspaces, members, nextMember, nextInvite, req>>
    BY <1>5 DEF CleanupExpired
  <2> QED
    BY <1>3, <2>1, <2>2, <2>3
<1>6. CASE Next
  BY <1>2, <1>4, <1>5, <1>6, CreateWorkspaceKeepsIInv, InviteKeepsIInv,
     AcceptKeepsIInv, ManageKeepsIInv DEF Next, RequestStep
<1> QED
  BY <1>1, <1>6

\* The invariant holds in every reachable state of every instance.
THEOREM Invariance == Spec => []IInv
<1>1. IInv /\ [Next]_vars => IInv'
  BY NextKeepsIInv
<1> QED
  BY InitIInv, <1>1, PTL DEF Spec

\* Tables and slots stay well typed.
THEOREM TypeCorrect == Spec => []TypeOK
<1>1. IInv => TypeOK
  BY DEF IInv
<1> QED
  BY <1>1, Invariance, PTL

\* A workspace never has two owners and never none.
THEOREM ExactlyOneOwner == Spec => []OneOwner
<1>1. IInv => OneOwner
  BY DEF IInv
<1> QED
  BY <1>1, Invariance, PTL

\* Every ADMIN was made by the owner.
THEOREM NoLateralEscalation == Spec => []AdminsComeFromTheOwner
<1>1. IInv => AdminsComeFromTheOwner
  BY DEF IInv
<1> QED
  BY <1>1, Invariance, PTL

\* Every member but the owner has an accepted invite on file.
THEOREM NoMemberWithoutInvite == Spec => []MembersWereInvited
<1>1. IInv => MembersWereInvited
  BY DEF IInv
<1> QED
  BY <1>1, Invariance, PTL

\* No step touches an owner's row.
THEOREM OwnersAreNeverTouched == Spec => OwnerRowsAreForever
<1>1. IInv /\ [Next]_vars => [\A ws \in workspaces : Owners(ws)' = Owners(ws)]_vars
  BY NextKeepsIInv DEF TablesEvolve
<1> QED
  BY <1>1, Invariance, PTL DEF Spec, OwnerRowsAreForever

\* A write to a membership row belongs to a request let into its workspace.
LEMMA WritersAreInside ==
  ASSUME IInv, NEW r \in Reqs, NEW m \in members, NEW n \in members,
         RoleWrite(r, n) \/ RemoveWrite(r, n), m \notin members'
  PROVE  /\ req[r].at \in {"role.write", "remove.write"}
         /\ req[r].actor.ws = m.ws
         /\ req[r].target.id = m.id
<1>1. m = n
  BY DEF RoleWrite, RemoveWrite
<1>2. req[r].at \in {"role.write", "remove.write"} /\ n.id = req[r].target.id
  BY DEF RoleWrite, RemoveWrite
<1>3. TargetOK(req[r].actor, req[r].target)
  BY <1>2 DEF IInv, RequestOK
<1> QED
  BY <1>1, <1>2, <1>3 DEF TargetOK

\* Tenant isolation: a membership row is written by its own workspace's requests.
THEOREM TenantIsolation == Spec => WritesStayInTheWorkspace
<1> DEFINE Inside(m) == \E r \in Reqs : /\ req[r].at \in {"role.write", "remove.write"}
                                        /\ req[r].actor.ws = m.ws
                                        /\ req[r].target.id = m.id
<1>1. ASSUME IInv, Next, NEW m \in members, m \notin members'
      PROVE  Inside(m)
  <2>1. CASE members \subseteq members'
    BY <1>1, <2>1
  <2>2. CASE ~(members \subseteq members')
    <3>1. \E r \in Reqs : ManageStep(r)
      BY <1>1, <2>2 DEF Next, RequestStep, CreateWorkspace, InviteStep, InviteStart,
         InviteLookup, InviteDelete, InviteCommit, AcceptStep, AcceptStart,
         AcceptCommit, Abandon, ExpireInvite, CleanupExpired
    <3>2. \E r \in Reqs, n \in members : RoleWrite(r, n) \/ RemoveWrite(r, n)
      BY <2>2, <3>1 DEF ManageStep, ManageStart, ReadTargetForRole, ReadTargetForRemove
    <3> QED
      BY <1>1, <3>2, WritersAreInside
  <2> QED
    BY <2>1, <2>2
<1>2. ASSUME IInv, [Next]_vars
      PROVE  [\A m \in members : Written(m) => Inside(m)]_vars
  BY <1>1, <1>2 DEF Written, vars
<1> QED
  BY <1>2, Invariance, PTL DEF Spec, WritesStayInTheWorkspace

-----------------------------------------------------------------------------
(***************************************************************************)
(* Requests that come one at a time: AloneInv.                             *)
(***************************************************************************)

\* No invite becomes pending: all steps but the commit of an invite.
NoNewPending ==
  \A j \in invites' :
    Pending(j) => \E i \in invites : Pending(i) /\ i.id = j.id /\ i.ws = j.ws /\ i.email = j.email

\* What a request has read stays so while no row it depends on changes.
LEMMA FreshStays ==
  ASSUME NEW q, Fresh(q), members \subseteq members', NoNewPending
  PROVE  Fresh(q)'
<1>1. q.at = "invite.commit" => DoomedIsCurrent(q)'
  BY DEF Fresh, DoomedIsCurrent, PendingFor, NoNewPending
<1>2. q.at \in {"manage", "role.write", "remove.write"} => q.actor \in members'
  BY DEF Fresh
<1>3. q.at \in {"role.write", "remove.write"} => TargetIsCurrent(q.actor, q.target)'
  BY DEF Fresh, TargetIsCurrent
<1> QED
  BY <1>1, <1>2, <1>3 DEF Fresh

LEMMA PendingStaysUnique ==
  ASSUME OneLiveInvite, NoNewPending, IdsAreUnique'
  PROVE  OneLiveInvite'
<1> SUFFICES ASSUME NEW j \in invites', NEW k \in invites', Pending(j), Pending(k),
                    j.ws = k.ws, j.email = k.email
             PROVE  j = k
  BY DEF OneLiveInvite, Pending
<1>1. PICK i \in invites : Pending(i) /\ i.id = j.id /\ i.ws = j.ws /\ i.email = j.email
  BY DEF NoNewPending
<1>2. PICK l \in invites : Pending(l) /\ l.id = k.id /\ l.ws = k.ws /\ l.email = k.email
  BY DEF NoNewPending
<1>3. i = l
  BY <1>1, <1>2 DEF OneLiveInvite
<1> QED
  BY <1>1, <1>2, <1>3 DEF IdsAreUnique

\* Steps that write no row another request has read.
LEMMA QuietKeepsInOrder ==
  ASSUME InOrder, IdsAreUnique', OneAtATime', members \subseteq members', NoNewPending,
         \A r \in Reqs : Fresh(req'[r])
  PROVE  InOrder'
<1>1. \A r \in Reqs : Fresh(req[r])'
  <2>1. ASSUME NEW r \in Reqs
        PROVE  Fresh(req[r])'
    <3>1. \A q : Fresh(q) => Fresh(q)'
      BY FreshStays
    <3>2. \A q : req'[r] = q => Fresh(req[r])' \/ ~Fresh(q)'
      BY DEF Fresh, DoomedIsCurrent, TargetIsCurrent
    <3> QED
      BY <3>1, <3>2
  <2> QED
    BY <2>1
<1> QED
  BY <1>1, PendingStaysUnique DEF InOrder

LEMMA GotoKeepsInOrder ==
  ASSUME IInv, IInv', InOrder, OneAtATime', NEW r \in Reqs, NEW q, Fresh(q), Goto(r, q),
         members' = members, invites' = invites
  PROVE  InOrder'
<1>1. \A x \in Reqs : Fresh(req'[x])
  BY DEF IInv, TypeOK, Goto, InOrder
<1>2. NoNewPending
  BY DEF NoNewPending
<1> QED
  BY <1>1, <1>2, QuietKeepsInOrder DEF IInv

\* The only request in flight ends.
LEMMA EndKeepsInOrder ==
  ASSUME IInv, OneAtATime, OneLiveInvite', NEW r \in Reqs, req[r] # Idle, Goto(r, Idle)
  PROVE  InOrder'
<1>1. \A x \in Reqs : req'[x] = Idle
  BY DEF IInv, TypeOK, Goto, OneAtATime, Busy
<1>2. OneAtATime'
  BY <1>1 DEF OneAtATime, Busy
<1>3. \A x \in Reqs : req'[x].at = "idle"
  BY <1>1 DEF Idle
<1>4. \A x \in Reqs : Fresh(req[x])'
  BY <1>3 DEF Fresh
<1> QED
  BY <1>2, <1>4 DEF InOrder

LEMMA InviteKeepsInOrder ==
  ASSUME IInv, IInv', InOrder, OneAtATime', NEW r \in Reqs, InviteStep(r)
  PROVE  InOrder'
<1>1. ASSUME NEW actor \in members, NEW email \in Users, NEW role \in Requested,
             InviteStart(r, actor, email, role)
      PROVE  InOrder'
  <2> DEFINE q == [at |-> "invite.lookup", ws |-> actor.ws, email |-> email,
                   role |-> role, by |-> actor.user]
  <2>1. Fresh(q)
    BY DEF Fresh
  <2>2. Goto(r, q) /\ members' = members /\ invites' = invites
    BY <1>1 DEF InviteStart
  <2> HIDE DEF q
  <2> QED
    BY <2>1, <2>2, GotoKeepsInOrder
<1>2. CASE InviteLookup(r)
  <2> DEFINE q == [req[r] EXCEPT !.at = "invite.delete"]
  <2>1. req[r] \in Inviting
    BY <1>2 DEF InviteLookup, IInv, TypeOK, Request, Idle, Inviting, InviteTx, Accepting,
       Managing, ChangingRole, Removing
  <2>2. Fresh(q)
    BY <2>1 DEF Fresh, Inviting
  <2>3. Goto(r, q) /\ members' = members /\ invites' = invites
    BY <1>2 DEF InviteLookup
  <2> HIDE DEF q
  <2> QED
    BY <2>2, <2>3, GotoKeepsInOrder
<1>3. CASE InviteDelete(r)
  <2> DEFINE d == {i.id : i \in PendingFor(req[r].ws, req[r].email)}
             q == [at |-> "invite.commit", doomed |-> d, ws |-> req[r].ws,
                   email |-> req[r].email, role |-> req[r].role, by |-> req[r].by]
  <2>1. DoomedIsCurrent(q)
    BY DEF DoomedIsCurrent
  <2>2. Fresh(q)
    BY <2>1 DEF Fresh
  <2>3. Goto(r, q) /\ members' = members /\ invites' = invites
    BY <1>3 DEF InviteDelete
  <2> HIDE DEF q
  <2> QED
    BY <2>2, <2>3, GotoKeepsInOrder
<1>4. CASE InviteCommit(r)
  <2> DEFINE q == req[r]
             new == InviteRow(q)
  <2>1. /\ invites' = (invites \ Deleted(q.doomed)) \cup {new}
        /\ q.at = "invite.commit" /\ q # Idle /\ Goto(r, Idle)
    BY <1>4 DEF InviteCommit, Idle
  <2>2. DoomedIsCurrent(q)
    BY <2>1 DEF InOrder, Fresh
  <2>3. new.ws = q.ws /\ new.email = q.email
    BY DEF InviteRow
  <2> HIDE DEF q, new
  <2>4. \A i \in invites \ Deleted(q.doomed) : Pending(i) => ~(i.ws = q.ws /\ i.email = q.email)
    BY <2>2 DEF DoomedIsCurrent, PendingFor, Deleted
  <2>5. OneLiveInvite'
    BY <2>1, <2>3, <2>4 DEF InOrder, OneLiveInvite, Pending
  <2> QED
    BY <2>1, <2>5, EndKeepsInOrder DEF InOrder, q
<1> QED
  BY <1>1, <1>2, <1>3, <1>4 DEF InviteStep

LEMMA AcceptKeepsInOrder ==
  ASSUME IInv, IInv', InOrder, OneAtATime', NEW r \in Reqs, AcceptStep(r)
  PROVE  InOrder'
<1>1. ASSUME NEW i \in invites, AcceptStart(r, i)
      PROVE  InOrder'
  <2> DEFINE q == [at |-> "accept.commit", invite |-> i]
  <2>1. Fresh(q)
    BY DEF Fresh
  <2>2. Goto(r, q) /\ members' = members /\ invites' = invites
    BY <1>1 DEF AcceptStart
  <2> HIDE DEF q
  <2> QED
    BY <2>1, <2>2, GotoKeepsInOrder
<1>2. CASE AcceptCommit(r)
  <2>1. req[r] # Idle /\ Goto(r, Idle)
    BY <1>2 DEF AcceptCommit, Idle
  <2>2. \A j \in invites' : j \in invites \/ j.accepted
    <3>1. invites \subseteq Invite
      BY DEF IInv, TypeOK
    <3> QED
      BY <1>2, <3>1 DEF AcceptCommit, Accepted, Invite
  <2>3. NoNewPending
    BY <2>2 DEF NoNewPending, Pending
  <2>4. OneLiveInvite'
    BY <2>3, PendingStaysUnique DEF InOrder, IInv
  <2> QED
    BY <2>1, <2>4, EndKeepsInOrder DEF InOrder
<1> QED
  BY <1>1, <1>2 DEF AcceptStep

LEMMA ManageKeepsInOrder ==
  ASSUME IInv, IInv', InOrder, OneAtATime', NEW r \in Reqs, ManageStep(r)
  PROVE  InOrder'
<1>0. Fresh(req[r])
  BY DEF InOrder
<1>1. ASSUME NEW actor \in members, ManageStart(r, actor)
      PROVE  InOrder'
  <2> DEFINE q == [at |-> "manage", actor |-> actor]
  <2>1. Fresh(q)
    BY DEF Fresh
  <2>2. Goto(r, q) /\ members' = members /\ invites' = invites
    BY <1>1 DEF ManageStart
  <2> HIDE DEF q
  <2> QED
    BY <2>1, <2>2, GotoKeepsInOrder
<1>2. ASSUME NEW target \in members, NEW role \in Requested, ReadTargetForRole(r, target, role)
      PROVE  InOrder'
  <2> DEFINE q == [at |-> "role.write", actor |-> req[r].actor, target |-> target,
                   role |-> role]
  <2>1. req[r].actor \in members
    BY <1>0, <1>2 DEF Fresh, ReadTargetForRole
  <2>2. Fresh(q)
    BY <1>2, <2>1 DEF Fresh, ReadTargetForRole, TargetIsCurrent, InWorkspace, MayAssign
  <2>3. Goto(r, q) /\ members' = members /\ invites' = invites
    BY <1>2 DEF ReadTargetForRole
  <2> HIDE DEF q
  <2> QED
    BY <2>2, <2>3, GotoKeepsInOrder
<1>3. ASSUME NEW target \in members, ReadTargetForRemove(r, target)
      PROVE  InOrder'
  <2> DEFINE q == [at |-> "remove.write", actor |-> req[r].actor, target |-> target]
  <2>1. req[r].actor \in members
    BY <1>0, <1>3 DEF Fresh, ReadTargetForRemove
  <2>2. Fresh(q)
    BY <1>3, <2>1 DEF Fresh, ReadTargetForRemove, TargetIsCurrent, InWorkspace, MayRemove
  <2>3. Goto(r, q) /\ members' = members /\ invites' = invites
    BY <1>3 DEF ReadTargetForRemove
  <2> HIDE DEF q
  <2> QED
    BY <2>2, <2>3, GotoKeepsInOrder
<1>4. ASSUME NEW m \in members, RoleWrite(r, m) \/ RemoveWrite(r, m)
      PROVE  InOrder'
  <2>1. req[r] # Idle /\ Goto(r, Idle) /\ invites' = invites
    BY <1>4 DEF RoleWrite, RemoveWrite, Idle
  <2>2. OneLiveInvite'
    BY <2>1 DEF InOrder, OneLiveInvite
  <2> QED
    BY <2>1, <2>2, EndKeepsInOrder DEF InOrder
<1> QED
  BY <1>1, <1>2, <1>3, <1>4 DEF ManageStep

LEMMA NextKeepsAloneInv ==
  ASSUME AloneInv, [AloneNext]_<<vars, alone>>
  PROVE  AloneInv'
<1>1. IInv'
  BY NextKeepsIInv DEF AloneInv, AloneNext, vars
<1>2. ASSUME AloneNext, alone'
      PROVE  InOrder'
  <2>1. OneAtATime' /\ IInv /\ IdsAreUnique' /\ InOrder /\ Next
    BY <1>1, <1>2 DEF AloneInv, AloneNext, IInv
  <2>2. ASSUME UNCHANGED req, members \subseteq members', NoNewPending
        PROVE  InOrder'
    <3>1. \A r \in Reqs : Fresh(req'[r])
      BY <2>1, <2>2 DEF InOrder
    <3> QED
      BY <2>1, <2>2, <3>1, QuietKeepsInOrder
  <2>3. ASSUME NEW ws \in Workspaces, NEW u \in Users, CreateWorkspace(ws, u)
        PROVE  InOrder'
    BY <2>2, <2>3 DEF CreateWorkspace, NoNewPending
  <2>4. ASSUME NEW i \in invites, ExpireInvite(i)
        PROVE  InOrder'
    <3>1. i \in Invite
      BY <2>1 DEF IInv, TypeOK
    <3>2. NoNewPending
      BY <2>4, <3>1 DEF ExpireInvite, NoNewPending, Pending, Invite
    <3> QED
      BY <2>2, <2>4, <3>2 DEF ExpireInvite
  <2>5. CASE CleanupExpired
    BY <2>2, <2>5 DEF CleanupExpired, NoNewPending
  <2>6. ASSUME NEW r \in Reqs, Abandon(r)
        PROVE  InOrder'
    <3>1. Fresh(Idle)
      BY DEF Fresh, Idle
    <3> QED
      BY <1>1, <2>1, <2>6, <3>1, GotoKeepsInOrder DEF Abandon
  <2> QED
    BY <1>1, <2>1, <2>3, <2>4, <2>5, <2>6, InviteKeepsInOrder, AcceptKeepsInOrder,
       ManageKeepsInOrder DEF Next, RequestStep
<1>3. ASSUME UNCHANGED <<vars, alone>>, InOrder
      PROVE  InOrder'
  <2>1. OneAtATime' /\ members' = members /\ NoNewPending /\ \A r \in Reqs : Fresh(req'[r])
    BY <1>3 DEF vars, InOrder, OneAtATime, Busy, NoNewPending
  <2> QED
    BY <1>1, <1>3, <2>1, QuietKeepsInOrder DEF IInv
<1> QED
  BY <1>1, <1>2, <1>3 DEF AloneInv

LEMMA InitAloneInv == AloneInit => AloneInv
<1> SUFFICES ASSUME AloneInit
             PROVE  AloneInv
  OBVIOUS
<1>1. IInv /\ invites = {} /\ \A r \in Reqs : req[r] = Idle
  BY InitIInv DEF AloneInit, Init
<1>2. \A r \in Reqs : Fresh(req[r])
  BY <1>1 DEF Fresh, Idle
<1> QED
  BY <1>1, <1>2 DEF AloneInv, InOrder, OneAtATime, Busy, OneLiveInvite

\* The inductive invariant of a service whose requests come one at a time.
THEOREM AloneInvariance == AloneSpec => []AloneInv
  BY InitAloneInv, NextKeepsAloneInv, PTL DEF AloneSpec

\* inviteMember: while requests come one at a time, an address has one live invite
\* per workspace.
THEOREM OneInvitePerAddress == AloneSpec => []OneLiveInviteAlone
<1>1. AloneInv => OneLiveInviteAlone
  BY DEF AloneInv, InOrder, OneLiveInviteAlone
<1> QED
  BY <1>1, AloneInvariance, PTL

\* updateMemberRole and removeMember: while requests come one at a time, the rows at
\* the write bear out what was checked on snapshots.
LEMMA WritersOutrank ==
  ASSUME IInv, InOrder, Next
  PROVE  Outranked
<1> SUFFICES ASSUME NEW m \in members
             PROVE  /\ Removed(m) =>
                         \E r \in Reqs, a \in members :
                           /\ req[r].at = "remove.write"
                           /\ a.id = req[r].actor.id
                           /\ Outranks(a.role, m.role)
                    /\ \A n \in members' :
                         n.id = m.id /\ n.role # m.role =>
                           \E a \in members :
                             /\ a.ws = m.ws /\ a.user = n.by
                             /\ Outranks(a.role, m.role) /\ Outranks(a.role, n.role)
  BY DEF Outranked
<1>0. members \subseteq Member /\ nextMember \in Nat /\ (\A n \in members : n.id < nextMember)
      /\ \A n \in members : n.id = m.id => n = m
  BY DEF IInv, TypeOK, IdsAreFresh, IdsAreUnique
<1>1. CASE members \subseteq members' /\ \A n \in members' : n \in members \/ n.id = nextMember
  <2>1. \A n \in members' : n.id = m.id => n = m
    BY <1>0, <1>1 DEF Member
  <2> QED
    BY <1>1, <2>1 DEF Removed
<1>2. ASSUME NEW r \in Reqs, NEW n \in members, RemoveWrite(r, n)
      PROVE  /\ Removed(m) =>
                  \E a \in members : /\ req[r].at = "remove.write"
                                     /\ a.id = req[r].actor.id
                                     /\ Outranks(a.role, m.role)
             /\ \A k \in members' : k.id = m.id => k = m
  <2>1. members' = members \ {n} /\ n.id = req[r].target.id /\ req[r].at = "remove.write"
    BY <1>2 DEF RemoveWrite
  <2>2. req[r].actor \in members /\ TargetIsCurrent(req[r].actor, req[r].target)
    BY <2>1 DEF InOrder, Fresh
  <2>3. n = req[r].target
    BY <2>1, <2>2 DEF TargetIsCurrent, IInv, IdsAreUnique
  <2>4. Removed(m) => m = n
    BY <2>1 DEF Removed
  <2> QED
    BY <1>0, <2>1, <2>2, <2>3, <2>4 DEF TargetIsCurrent
<1>3. ASSUME NEW r \in Reqs, NEW n \in members, RoleWrite(r, n)
      PROVE  /\ ~Removed(m)
             /\ \A k \in members' :
                  k.id = m.id /\ k.role # m.role =>
                    \E a \in members :
                      /\ a.ws = m.ws /\ a.user = k.by
                      /\ Outranks(a.role, m.role) /\ Outranks(a.role, k.role)
  <2> DEFINE new == [n EXCEPT !.role = req[r].role, !.by = req[r].actor.user]
  <2>1. members' = (members \ {n}) \cup {new} /\ n.id = req[r].target.id /\ req[r].at = "role.write"
    BY <1>3 DEF RoleWrite
  <2>2. /\ req[r].actor \in members /\ TargetIsCurrent(req[r].actor, req[r].target)
        /\ Outranks(req[r].actor.role, req[r].role)
    BY <2>1 DEF InOrder, Fresh
  <2>3. n = req[r].target
    BY <2>1, <2>2 DEF TargetIsCurrent, IInv, IdsAreUnique
  <2>4. new.id = n.id /\ new.role = req[r].role /\ new.by = req[r].actor.user
    BY <1>0 DEF Member
  <2> HIDE DEF new
  <2>5. ~Removed(m)
    BY <2>1, <2>4 DEF Removed
  <2>6. \A k \in members' : k.id = m.id /\ k.role # m.role => k = new /\ m = n
    BY <1>0, <2>1, <2>4
  <2> QED
    BY <2>2, <2>3, <2>4, <2>5, <2>6 DEF TargetIsCurrent
<1>4. \/ members \subseteq members' /\ \A n \in members' : n \in members \/ n.id = nextMember
      \/ \E r \in Reqs, n \in members : RoleWrite(r, n) \/ RemoveWrite(r, n)
  <2>1. \A ws, u, role, by : MemberRow(ws, u, role, by).id = nextMember
    BY DEF MemberRow
  <2>2. ASSUME NEW r \in Reqs, InviteStep(r) \/ Abandon(r)
        PROVE  members' = members
    BY <2>2 DEF InviteStep, InviteStart, InviteLookup, InviteDelete, InviteCommit, Abandon
  <2>3. ASSUME NEW r \in Reqs, AcceptStep(r)
        PROVE  members \subseteq members' /\ \A n \in members' : n \in members \/ n.id = nextMember
    <3>1. CASE AcceptCommit(r)
      <4>1. \E ws, u, role, by : members' = members \cup {MemberRow(ws, u, role, by)}
        BY <3>1 DEF AcceptCommit
      <4> QED
        BY <2>1, <4>1
    <3>2. CASE \E i \in invites : AcceptStart(r, i)
      BY <3>2 DEF AcceptStart
    <3> QED
      BY <2>3, <3>1, <3>2 DEF AcceptStep
  <2>4. ASSUME NEW r \in Reqs, ManageStep(r)
        PROVE  members' = members \/ \E n \in members : RoleWrite(r, n) \/ RemoveWrite(r, n)
    BY <2>4 DEF ManageStep, ManageStart, ReadTargetForRole, ReadTargetForRemove
  <2>5. ASSUME NEW ws \in Workspaces, NEW u \in Users, CreateWorkspace(ws, u)
        PROVE  members \subseteq members' /\ \A n \in members' : n \in members \/ n.id = nextMember
    BY <2>1, <2>5 DEF CreateWorkspace
  <2>6. CASE CleanupExpired \/ \E i \in invites : ExpireInvite(i)
    BY <2>6 DEF ExpireInvite, CleanupExpired
  <2> QED
    BY <2>2, <2>3, <2>4, <2>5, <2>6 DEF Next, RequestStep
<1> QED
  BY <1>1, <1>2, <1>3, <1>4

\* "The actor must outrank both the member's current role and the role being
\* assigned", by the rows at the write, while requests come one at a time.
THEOREM ManagersOutrank == AloneSpec => ManagersOutrankAlone
<1>1. AloneInv /\ AloneInv' /\ [AloneNext]_<<vars, alone>>
        => [alone' => Outranked]_<<vars, alone>>
  <2> SUFFICES ASSUME AloneInv, AloneInv', AloneNext, alone'
               PROVE  Outranked
    OBVIOUS
  <2>1. IInv /\ InOrder /\ Next
    BY DEF AloneInv, AloneNext
  <2> QED
    BY <2>1, WritersOutrank
<1> QED
  BY <1>1, AloneInvariance, PTL DEF AloneSpec, ManagersOutrankAlone
=============================================================================
