---------------------------- MODULE MCRecordApply ----------------------------
(* Small instances of RecordApply for TLC. *)
EXTENDS RecordApply, TLC

CONSTANTS o1, o2, p1, p2, a, b, r1, r2

OneProcess == [o \in Op |-> r1]
Files == Permutations(Path)
Records == Permutations(Rec)
Symm == Files \cup Records
=============================================================================
