CONSTANTS
  o1 = o1
  o2 = o2
  p1 = p1
  p2 = p2
  a = a
  b = b
  r1 = r1
  r2 = r2
  Reread = {p1}
  NoFile = NoFile
  NoOp = NoOp
  Path = {p1, p2}
  Rec = {a}
  Op = {o1, o2}
  Proc = {r1}
  ProcOf <- OneProcess
  MaxForeign = 1
SPECIFICATION FairSpec
INVARIANTS
  TypeOK
  ReservationAccounted
  NoRecordLost
PROPERTIES
  NoSilentClobber
  ReturnAccounted
  ApplyEnds
CHECK_DEADLOCK FALSE
