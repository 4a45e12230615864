SPECIFICATION FairSpec
CONSTANTS
  Workers = {w1, w2}
  g1 = g1
  g2 = g2
  v1 = v1
  v2 = v2
  Geos = {g1, g2}
  Vals = {v1, v2}
  Null = Null
  Absent = Absent
  Batches <- OverlappingBatches
  MaxTime = 3
  MaxInFlight = 2
INVARIANTS
  TypeOK
  NoValueLost
  NeverBlank
PROPERTIES
  HistoryKept
  RequestsFinish
CHECK_DEADLOCK FALSE
