----------------------------- MODULE MCStorePrune -----------------------------
(* Small instances of StorePrune for TLC. *)
EXTENDS StorePrune

CONSTANTS n1, n2, id, c1

OneIdentity == [n \in Record |-> id]
OneLedger == [n \in Record |-> c1]
=============================================================================
