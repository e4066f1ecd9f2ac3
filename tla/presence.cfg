SPECIFICATION MCSpec
CONSTANTS
  u1 = u1
  u2 = u2
  s1 = s1
  s2 = s2
  r1 = r1
  r2 = r2
  Users = {u1, u2}
  Sockets = {s1, s2}
  Ops = {r1, r2}
  MaxMail = 1
  MaxCount = 2
  MaxFaults = 1
SYMMETRY Symmetry
INVARIANTS MiscountsHaveAReason NobodyIsListedAtZero PagesShowWhoIsOnline LeaksExpire
