CONSTANTS
  Line = {"run", "end", "PASS"}
  PipeCap = 1
  MaxLines = 2
  MaxFaults = 1
SPECIFICATION FairSpec
INVARIANTS
  NothingLeftBehind
  VerdictIsWhole
PROPERTIES
  NoStraySignal
  GraceKept
  CallerEscalates
  RunReturns
CHECK_DEADLOCK FALSE
