SPECIFICATION MCSpec
CONSTANTS
  c1 = c1
  c2 = c2
  r1 = r1
  r2 = r2
  Columns = {c1, c2}
  Reqs = {r1, r2}
  Gap = 4
  MaxTasks = 3
  MaxIndex = 2
  MaxPos = 16
  MaxOverlapped = 2
  MaxHeight = 12
SYMMETRY Symmetry
INVARIANTS PositionsPositive PositionsDistinctAlone LogAgreesWithBoardAlone
PROPERTIES MovesLandAlone
