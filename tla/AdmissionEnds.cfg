CONSTANTS
  a1 = a1
  a2 = a2
  p1 = p1
  p2 = p2
  p3 = p3
  p4 = p4
  Inv = {a1, a2}
  Pkg = {p2, p3, p4}
  InvOf <- LastAlone
  Scope = {}
  Bound <- OneEach
  Floor = 1
  Host = 1
  TreeMax <- Nothing
  PassMax = 1
  PassMark = 0
  OutsideMax = 1
  Readable <- Unmeasured
  MaxSpawns <- OneSpawns
SPECIFICATION FairSpec
PROPERTIES
  AdmitEnds
CHECK_DEADLOCK FALSE
