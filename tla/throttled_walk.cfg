SPECIFICATION MCSpec
CONSTANTS
  walker = walker
  other = other
  Calls = {walker, other}
  Limit = 2
  MaxFaults = 1
  Ids = {1, 2, 3}
  Times = {0, 1}
  Null = Null
  limit = 1
  MaxChanges = 1
  MaxOthers = 2
CHECK_DEADLOCK FALSE
INVARIANTS AtMostTheLimit NoTaskTwice NoTaskMissing
PROPERTIES WalkEnds
