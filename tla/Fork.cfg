SPECIFICATION Spec
CONSTANTS
  Workers = {w1, w2}
  Namespaces = {n1, n2}
  Public = {n1}
  Requests <- MCRequests
  n1 = n1
  n2 = n2
  Paths = {p1, p2}
  Hashes = {h1, empty}
  EmptyHash = empty
  Null = Null
  MaxTime = 2
  MaxSkew = 1
  MaxWrites = 4
INVARIANTS
  TypeOK
PROPERTIES
  ForkedAsListed
  ForkSyncs
SYMMETRY Symmetric
CHECK_DEADLOCK FALSE
