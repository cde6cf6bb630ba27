----------------------------- MODULE MCProgress ------------------------------
(* Small instances of Progress for TLC. *)
EXTENDS Progress, TLC

CONSTANTS i1, u1, u2

\* Two packages of one invocation race their counts.
Pair == [u \in Unit |-> i1]
=============================================================================
