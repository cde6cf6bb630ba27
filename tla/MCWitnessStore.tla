---------------------------- MODULE MCWitnessStore ----------------------------
(* Small instances of WitnessStore for TLC. *)
EXTENDS WitnessStore, TLC

CONSTANTS n1, n2, n3, id, c1, c2

OneIdentity == [n \in Record |-> id]
SharedLedger == [n \in Record |-> IF n = n3 THEN c2 ELSE c1]
Symm == Permutations(Installer)
=============================================================================
