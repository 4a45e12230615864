SPECIFICATION Spec
CONSTANTS
  Workers = {w1, w2}
  s1 = s1
  s2 = s2
  g1 = g1
  g2 = g2
  p1 = p1
  p2 = p2
  p3 = p3
  Null = Null
  Slots = {s1, s2}
  Geos = {g1, g2}
  PlanPaths = {p1, p2, p3}
  Paths <- MCPaths
  Requests <- MCRequests
  MaxPlans = 1
  MaxTime = 2
  MaxSets = 3
SYMMETRY Symmetry
INVARIANTS
  TypeOK
  StaysMapped
  OpenSetsBounded
  WithinSet
  PlansBounded
PROPERTIES
  SetsFrozen
CHECK_DEADLOCK FALSE
