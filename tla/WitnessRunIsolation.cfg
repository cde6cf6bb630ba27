SPECIFICATION Spec
CONSTANTS
  a = a
  b = b
  c = c
  p = p
  q = q
  g1 = g1
  g2 = g2
  i1 = i1
  i2 = i2
  i3 = i3
  i4 = i4
  x = x
  y = y
  NoGroup = NoGroup
  NoTree = NoTree
  Packages = {p, q}
  Files = {x, y}
  Rank <- IsoRank
  Subjects = {a, b, c}
  Groups = {g1}
  Invocations = {i1}
  PkgOf <- IsoPkgOf
  GroupOf <- IsoGroupOf
  Selects <- IsoSelects
  Reads <- IsoReads
  Versions <- IsoVersions
  Caches <- IsoCaches
  Scopes <- IsoScopes
  NeverServes = {}
  Alone = {b}
  Outcomes = {"passed", "failed", "none"}
  Dispositions = {"healthy", "red", "build", "never"}
  MaxFaults = 1
INVARIANT FailuresStand
INVARIANT RecordsTrue
INVARIANT ReusableStored
INVARIANT DegradedKeepsOut
