SPECIFICATION Spec
CONSTANTS
  Workers = {w1, w2}
  p1 = p1
  p2 = p2
  h1 = h1
  h2 = h2
  i1 = i1
  i2 = i2
  i3 = i3
  EmptyHash = EmptyHash
  Null = Null
  Paths = {p1, p2}
  Hashes = {h1, h2, EmptyHash}
  Imports = {i1, i2, i3}
  Requests <- MCRequests
  MaxTime = 3
SYMMETRY Symmetry
INVARIANTS
  TypeOK
  EveryGeographyCurrent
  References
  NoGap
PROPERTIES
  HistoryFrozen
CHECK_DEADLOCK FALSE
