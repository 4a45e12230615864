SPECIFICATION Spec
CONSTANTS
  Workers = {w1, w2}
  u1 = u1
  u2 = u2
  Users = {u1, u2}
  Paths = {n1, n2}
  Null = Null
  MaxCreate = 1
  Teams = {}
  Grantable <- MCGrantable
  MaxGrants = 1
  MaxPerUser <- Overlapping
SYMMETRY Symmetry
INVARIANTS
  TypeOK
  CountNotAhead
  LimitExact
  CreatorCanRead
  PrivateIsExplicit
CHECK_DEADLOCK FALSE
