SPECIFICATION MCSpec
CONSTANTS
  u1 = u1
  u2 = u2
  r1 = r1
  r2 = r2
  Users = {u1, u2}
  Reqs = {r1, r2}
  MaxIds = 3
PROPERTY RevokedTokensYieldNothing
