SPECIFICATION Spec
CONSTANTS
  home = home
  other = other
  p1 = p1
  p2 = p2
  h1 = h1
  h2 = h2
  Null = Null
  Namespaces = {home, other}
  Paths = {p1, p2}
  Home = home
  Vals = {0, 1}
  Hashes = {h1, h2}
  FirstHash = h1
  SetIds = {s1, s2, s3}
  Batches <- MCBatches
  Patches <- MCPatches
  Remaps <- MCRemaps
  EdgeLists <- MCEdgeLists
  ViewPaths = {v1}
  Instants = {2}
  MaxTime = 3
  MaxRows = 10
  MaxDerived = 1
SYMMETRY Symmetry
INVARIANT TypeOK
INVARIANT Checksum
INVARIANT CachedWhole
INVARIANT EdgesRendered
PROPERTY Pinned
CHECK_DEADLOCK FALSE
