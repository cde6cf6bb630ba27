CONSTANTS
  a1 = a1
  a2 = a2
  p1 = p1
  p2 = p2
  p3 = p3
  p4 = p4
  Inv = {a1, a2}
  Pkg = {p1, p2, p3, p4}
  InvOf <- LastAlone
  Scope = {p1}
  Bound <- TwoOrOne
  Floor = 1
  Host = 2
  TreeMax <- LastTwice
  PassMax = 0
  PassMark = 3
  OutsideMax = 0
  Readable <- Measured
  MaxSpawns <- LastAgain
SPECIFICATION Spec
INVARIANTS
  SlotsCounted
  EstimateHonest
  NoOvercommit
PROPERTIES
  NoStaleRefusal
SYMMETRY Symm
CHECK_DEADLOCK FALSE
