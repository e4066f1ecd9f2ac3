------------------------ MODULE WorkspaceMembersAlone ------------------------
(***************************************************************************)
(* WorkspaceMembers with a history variable: what its documents promise of *)
(* invites and of role changes holds for requests that come one at a time. *)
(* Workspaces are created, invites expire and the clean-up job runs at any *)
(* point of the request in flight.                                         *)
(***************************************************************************)
EXTENDS WorkspaceMembers

VARIABLE alone  \* history: no two requests have been in flight together so far

Busy == {r \in Reqs : req[r] # Idle}

OneAtATime == \A r, s \in Busy : r = s

AloneInit == Init /\ alone = TRUE

AloneNext == Next /\ alone' = (alone /\ OneAtATime')

AloneSpec == AloneInit /\ [][AloneNext]_<<vars, alone>>

-----------------------------------------------------------------------------
\* "a workspace only ever has one live invite per address" (inviteMember), as
\* long as requests come one at a time: the deleteMany and the create of one
\* transaction leave one, whatever was invited, accepted or cleaned up before.
OneLiveInviteAlone == alone => OneLiveInvite

\* "The actor must outrank both the member's current role and the role being
\* assigned" (updateMemberRole), judged by the rows at the write and not by the
\* snapshots it was checked on: so for requests that come one at a time.
ManagersOutrankAlone == [][alone' => Outranked]_<<vars, alone>>

-----------------------------------------------------------------------------
(***************************************************************************)
(* The inductive invariant: what the request in flight has read is still   *)
(* so.                                                                     *)
(***************************************************************************)
DoomedIsCurrent(q) == \A i \in PendingFor(q.ws, q.email) : i.id \in q.doomed

TargetIsCurrent(actor, target) ==
  /\ target \in members
  /\ target.ws = actor.ws
  /\ Outranks(actor.role, target.role)

Fresh(q) ==
  /\ q.at = "invite.commit" => DoomedIsCurrent(q)
  /\ q.at \in {"manage", "role.write", "remove.write"} => q.actor \in members
  /\ q.at \in {"role.write", "remove.write"} => TargetIsCurrent(q.actor, q.target)
  /\ q.at = "role.write" => Outranks(q.actor.role, q.role)

InOrder == /\ OneAtATime
           /\ OneLiveInvite
           /\ \A r \in Reqs : Fresh(req[r])

AloneInv == IInv /\ (alone => InOrder)
=============================================================================
