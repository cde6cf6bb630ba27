CONSTANTS
  i1 = i1
  u1 = u1
  u2 = u2
  None = None
  Inv = {i1}
  Unit = {u1, u2}
  InvOf <- Pair
  Groups = 1
  SinkBuffer = 1
  MaxTicks = 1
SPECIFICATION FairSpec
INVARIANTS
  EndingNamesUnits
PROPERTIES
  FeedSpec
  DisplayAdvances
  OperationReturns
  EndingShown
CHECK_DEADLOCK FALSE
