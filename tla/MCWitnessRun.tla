---------------------------- MODULE MCWitnessRun ----------------------------
(* Instances of WitnessRun for TLC.  "Retries": two invocations of the first  *)
(* group cover b's package, the one of the second covers it alone, and every  *)
(* member is served at first.  "Isolation": one invocation of two packages,   *)
(* one of two tests that execute, one of them judged alone, and one whose     *)
(* test is served.                                                            *)
EXTENDS WitnessRun, TLC

CONSTANTS a, b, c, p, q, g1, g2, i1, i2, i3, i4, x, y

Variant(version, licensed, grown) ==
  [version |-> version, licensed |-> licensed, grown |-> grown,
   ledger |-> TRUE, outcome |-> "passed"]
Fresh == Variant(1, TRUE, FALSE)
Grown == Variant(1, TRUE, TRUE)
Withdrawn == Variant(1, FALSE, FALSE)
Old == Variant(0, TRUE, FALSE)

RetryPkgOf == a :> p @@ b :> q
RetryGroupOf == i1 :> g1 @@ i2 :> g2 @@ i3 :> g1 @@ i4 :> NoGroup
RetrySelects == i1 :> {p, q} @@ i2 :> {q} @@ i3 :> {q} @@ i4 :> {p}
RetryRank == i1 :> 1 @@ i2 :> 2 @@ i3 :> 3 @@ i4 :> 4
RetryReads == a :> {x} @@ b :> {y}
RetryVersions == x :> 2 @@ y :> 3
RetryCaches == {<<g1, a>> :> <<Withdrawn, Fresh>> @@ <<g2, b>> :> <<Grown>>}
RetryScopes == {{a, b}, {a}}

IsoPkgOf == a :> p @@ b :> p @@ c :> q
IsoGroupOf == i1 :> g1
IsoSelects == i1 :> {p, q}
IsoRank == i1 :> 1
IsoReads == a :> {x} @@ b :> {y} @@ c :> {x}
IsoVersions == x :> 2 @@ y :> 1
IsoCaches ==
  {<<g1, a>> :> <<>> @@ <<g1, b>> :> <<Old>> @@
   <<g1, c>> :> <<[Fresh EXCEPT !.outcome = "skipped"]>>}
IsoScopes == {{a, b, c}}
=============================================================================
