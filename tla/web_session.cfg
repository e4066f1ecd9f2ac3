SPECIFICATION MCSpec
CONSTANTS
  u1 = u1
  u2 = u2
  t1 = t1
  t2 = t2
  c1 = c1
  c2 = c2
  Users = {u1, u2}
  Tabs = {t1, t2}
  Calls = {c1, c2}
  MaxTokens = 3
INVARIANTS NoTabSpendsATokenTwice TokensBelongToTheUser
PROPERTIES FirstCallEnds
