SPECIFICATION MCSpec
CONSTANTS
  acme = acme
  beta = beta
  u1 = u1
  u2 = u2
  u3 = u3
  r1 = r1
  r2 = r2
  Users = {u1, u2, u3}
  Workspaces = {acme, beta}
  Reqs = {r1, r2}
  Requested = {"OWNER", "ADMIN", "MEMBER"}
  MaxMembers = 4
  MaxOverlapped = 3
  MaxInvites = 2
SYMMETRY Symmetry
INVARIANTS OneOwner AdminsComeFromTheOwner MembersWereInvited OneLiveInviteAlone
PROPERTIES OwnerRowsAreForever WritesStayInTheWorkspace ManagersOutrankAlone
