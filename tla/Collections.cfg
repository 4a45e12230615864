SPECIFICATION Spec
CONSTANTS
  Workers = {w1, w2}
  Readers = {r1}
  Paths <- MCPaths
  Requests <- MCRequests
  MaxWrites = 4
INVARIANTS
  TypeOK
  OneObjectPerName
  NothingDangles
  ColumnsOnce
  CacheCoherent
  LocksOrdered
SYMMETRY Symmetric
CHECK_DEADLOCK FALSE
