SPECIFICATION Spec
CONSTANTS
  Workers = {w1, w2}
  Readers = {r1}
  Paths <- MCPaths
  Requests <- MCRequests
  MaxWrites = 3
INVARIANTS
  NoneForgotten
CHECK_DEADLOCK FALSE
