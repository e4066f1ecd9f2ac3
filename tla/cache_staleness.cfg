SPECIFICATION CacheFairSpec
CONSTANTS
  r1 = r1
  r2 = r2
  Reqs = {r1, r2}
  MaxWrites = 2
INVARIANTS StaleForAReason
PROPERTIES EventuallyFresh
