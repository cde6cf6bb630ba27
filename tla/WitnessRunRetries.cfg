SPECIFICATION Spec
CONSTANTS
  a = a
  b = b
  c = c
  p = p
  q = q
  g1 = g1
  g2 = g2
  i1 = i1
  i2 = i2
  i3 = i3
  i4 = i4
  x = x
  y = y
  NoGroup = NoGroup
  NoTree = NoTree
  Packages = {p, q}
  Files = {x, y}
  Rank <- RetryRank
  Subjects = {a, b}
  Groups = {g1, g2}
  Invocations = {i1, i2, i3, i4}
  PkgOf <- RetryPkgOf
  GroupOf <- RetryGroupOf
  Selects <- RetrySelects
  Reads <- RetryReads
  Versions <- RetryVersions
  Caches <- RetryCaches
  Scopes <- RetryScopes
  NeverServes = {}
  Alone = {}
  Outcomes = {"passed", "failed"}
  Dispositions = {"healthy", "red"}
  MaxFaults = 0
INVARIANT ProvedLast
INVARIANT RevokedGrantsNothing
INVARIANT Conserved
INVARIANT ScopeHeld
INVARIANT NoNeedlessRun
