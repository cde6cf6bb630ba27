CONSTANTS
  n1 = n1
  n2 = n2
  id = id
  c1 = c1
  Record = {n1, n2}
  Identity = {id}
  Coord = {c1}
  IdOf <- OneIdentity
  CoordOf <- OneLedger
  Installer = {i1, i2}
  Loader = {}
  Collector = {g1}
  Nobody = Nobody
  VariantBound = 2
  MaxFaults = 1
  Pruner = {p1}
SPECIFICATION PSpec
INVARIANTS
  PruneKeepsCountedLedgers
CHECK_DEADLOCK FALSE
