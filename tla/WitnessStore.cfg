CONSTANTS
  n1 = n1
  n2 = n2
  n3 = n3
  id = id
  c1 = c1
  c2 = c2
  Record = {n1, n2, n3}
  Identity = {id}
  Coord = {c1, c2}
  IdOf <- OneIdentity
  CoordOf <- SharedLedger
  Installer = {i1, i2}
  Loader = {l1}
  Collector = {}
  Nobody = Nobody
  VariantBound = 2
  MaxFaults = 1
SPECIFICATION Spec
INVARIANTS
  TypeOK
  RecordsFindLedgers
  VariantsBounded
PROPERTIES
  EvictsOldest
SYMMETRY Symm
CHECK_DEADLOCK FALSE
