SPECIFICATION Spec
CONSTANTS
  u1 = u1
  u2 = u2
  r1 = r1
  r2 = r2
  Users = {u1, u2}
  Reqs = {r1, r2}
  MaxLog = 2
  MaxChanges = 2
CHECK_DEADLOCK FALSE
SYMMETRY Symmetry
INVARIANTS TypeOK LogTellsTheAssignees TogglesAreNarrow AssignedAreTold
