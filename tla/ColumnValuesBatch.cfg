SPECIFICATION Spec
CONSTANTS
  Workers = {w1}
  g1 = g1
  g2 = g2
  v1 = v1
  v2 = v2
  Geos = {g1, g2}
  Vals = {v1, v2}
  Null = Null
  Absent = Absent
  Batches <- AllBatches
  MaxTime = 3
  MaxInFlight = 1
INVARIANTS
  AssertionHolds
CHECK_DEADLOCK FALSE
