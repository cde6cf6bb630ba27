----------------------------- MODULE MCAdmission -----------------------------
(* Small instances of Admission for TLC. *)
EXTENDS Admission, TLC

CONSTANTS a1, a2, p1, p2, p3, p4

\* Packages of one invocation beside one of another.
LastAlone == [p \in Pkg |-> IF p = p4 THEN a2 ELSE a1]
TwoOrOne == [a \in Inv |-> IF a = a1 THEN 2 ELSE 1]
OneEach == [a \in Inv |-> 1]
Nothing == [p \in Pkg |-> 0]
LastTwice == [p \in Pkg |-> IF p = p4 THEN 2 ELSE 1]
\* The coverage compilation ends without a process, as when its spawn is refused...
LastAgain == [p \in Pkg |-> IF p = p1 THEN 0 ELSE IF p = p4 THEN 2 ELSE 1]
\* ... and so do all but one.
OneSpawns == [p \in Pkg |-> IF p = p2 THEN 1 ELSE 0]
Measured == {TRUE}
Unmeasured == {TRUE, FALSE}
Symm == Permutations({p2, p3})
=============================================================================
