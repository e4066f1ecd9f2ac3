------------------------------- MODULE Roles -------------------------------
(***************************************************************************)
(* Workspace roles and their ranking: common/rbac/roles.ts and the Role    *)
(* enum of schema.prisma.                                                  *)
(***************************************************************************)
EXTENDS Naturals

Role == {"OWNER", "ADMIN", "MEMBER", "VIEWER"}

\* ROLE_RANK: higher rank, more authority.
RoleRank == [role \in Role |->
               CASE role = "OWNER"  -> 3
                 [] role = "ADMIN"  -> 2
                 [] role = "MEMBER" -> 1
                 [] role = "VIEWER" -> 0]

HasAtLeast(role, minimum) == RoleRank[role] >= RoleRank[minimum]

\* A bug to catch: "at or above" where the code says "strictly above".
OutranksOrEquals(actor, target) == RoleRank[actor] >= RoleRank[target]

Outranks(actor, target) == RoleRank[actor] > RoleRank[target]

\* The roles the @Roles(OWNER, ADMIN) routes of workspaces.controller.ts admit.
ManagerRole == {"OWNER", "ADMIN"}

\* The roles a request body may name and the services accept: all but OWNER.
GrantableRole == Role \ {"OWNER"}
=============================================================================
