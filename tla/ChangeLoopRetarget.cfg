CONSTANTS
  None = None
  r1 = r1
  r2 = r2
  s1 = s1
  s2 = s2
  f1 = f1
  d1 = d1
  p1 = p1
  p2 = p2
  Reqs = {r1, r2}
  Syms = {s1, s2}
  Files = {f1}
  Docs = {d1}
  Procs = {p1, p2}
  MemberOf <- MCMember
  Override <- NoOverride
  AllowWhole = FALSE
  FileOf <- MCFileOf
  DocOf <- MCDocOf
  Texts <- MCTexts
  CodeStates <- MCCodeStates
  Moves <- MCMoves
  Claimable <- MCClaimable
  GapTerms <- MCGapTerms
  Trees <- MCTrees
  Codes <- MCCodes
  MaxCanon = 1
  MaxEdits = 2
  MaxVerbs = 2
SPECIFICATION Spec
PROPERTY StaleUntilNamed
SYMMETRY Symmetry
CHECK_DEADLOCK FALSE
