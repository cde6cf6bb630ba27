-------------------------- MODULE AdmissionProofs --------------------------
(***************************************************************************)
(* Theorems about Admission, for any host, invocations, packages and        *)
(* bounds.  The slots: a slot counted is a slot held, and whoever waits has  *)
(* somebody to wake it.  The memory term: the estimate's maxima are what     *)
(* the invocation's own trees took, a reading in use shows nothing of        *)
(* packages that have completed, and what is admitted fits.                  *)
(***************************************************************************)
EXTENDS Admission, FiniteSetTheorems, WellFoundedInduction, TLAPS

-----------------------------------------------------------------------------
(* Slots. *)

Types ==
  /\ pc \in [Pkg -> {"new", "admitted"} \cup Asking \cup Over]
  /\ running \in [Inv -> Nat]
  /\ member \subseteq Inv

IInv == Types /\ SlotsCounted /\ WaitersHaveWaker

LEMMA AdmittedFinite == \A a \in Inv : IsFiniteSet(Admitted(a))
<1> TAKE a \in Inv
<1>1. Admitted(a) \subseteq Pkg
  BY DEF Admitted, Of
<1> QED BY <1>1, Finite, FS_Subset

\* A counted slot is some package's.
LEMMA RunningSlot ==
  ASSUME IInv, NEW a \in Inv, running[a] > 0
  PROVE  \E q \in Pkg : pc[q] = "admitted"
<1>1. Cardinality(Admitted(a)) > 0
  BY DEF IInv, SlotsCounted
<1>2. Admitted(a) # {}
  BY <1>1, FS_EmptySet
<1> QED BY <1>2 DEF Admitted, Of

\* A step that moves no package into a slot, out of one, or to the wait.
LEMMA Keeps ==
  ASSUME IInv, Types', UNCHANGED running,
         \A q \in Pkg : pc'[q] = "admitted" <=> pc[q] = "admitted",
         \A q \in Pkg : pc'[q] = "waiting" => pc[q] = "waiting"
  PROVE  IInv'
<1>1. \A a \in Inv : Admitted(a)' = Admitted(a)
  BY DEF Admitted, Of
<1>2. SlotsCounted'
  BY <1>1 DEF IInv, SlotsCounted
<1>3. WaitersHaveWaker'
  BY DEF IInv, WaitersHaveWaker
<1> QED BY <1>2, <1>3 DEF IInv

\* A package that begins to wait while a slot is taken.
LEMMA Waits ==
  ASSUME IInv, NEW p \in Pkg, pc[p] \in {"ask", "woken"},
         pc' = [pc EXCEPT ![p] = "waiting"], UNCHANGED <<running, member>>,
         \E q \in Pkg : pc[q] = "admitted"
  PROVE  IInv'
<1>1. Types'
  BY DEF IInv, Types, Asking
<1>2. \A q \in Pkg : pc'[q] = "admitted" <=> pc[q] = "admitted"
  BY DEF IInv, Types
<1>3. \A a \in Inv : Admitted(a)' = Admitted(a)
  BY <1>2 DEF Admitted, Of
<1>4. SlotsCounted'
  BY <1>3 DEF IInv, SlotsCounted
<1>5. WaitersHaveWaker'
  BY <1>2 DEF WaitersHaveWaker
<1> QED BY <1>1, <1>4, <1>5 DEF IInv

LEMMA AdmitStep ==
  ASSUME IInv, NEW p \in Pkg, NEW r, Admit(p, r)
  PROVE  IInv'
<1> DEFINE o == InvOf[p]
<1>1. o \in Inv
  BY PackagesOwned
<1>2. /\ pc' = [pc EXCEPT ![p] = "admitted"] /\ pc[p] # "admitted"
      /\ running' = [running EXCEPT ![o] = @ + 1] /\ member' = member
  BY DEF Admit, Judge
<1>3. Types'
  BY <1>1, <1>2 DEF IInv, Types
<1>4. ASSUME NEW a \in Inv PROVE running'[a] = Cardinality(Admitted(a)')
  <2>1. CASE a = o
    <3>1. Admitted(a)' = Admitted(a) \cup {p} /\ p \notin Admitted(a)
      BY <1>2, <2>1 DEF Admitted, Of, IInv, Types
    <3>2. Cardinality(Admitted(a) \cup {p}) = Cardinality(Admitted(a)) + 1
      BY <3>1, AdmittedFinite, FS_AddElement
    <3> QED BY <1>1, <1>2, <2>1, <3>1, <3>2 DEF IInv, Types, SlotsCounted
  <2>2. CASE a # o
    <3>1. Admitted(a)' = Admitted(a)
      BY <1>2, <2>2 DEF Admitted, Of, IInv, Types
    <3> QED BY <1>2, <2>2, <3>1 DEF IInv, Types, SlotsCounted
  <2> QED BY <2>1, <2>2
<1>5. pc'[p] = "admitted"
  BY <1>2 DEF IInv, Types
<1>6. WaitersHaveWaker'
  BY <1>5 DEF WaitersHaveWaker
<1> QED BY <1>3, <1>4, <1>6 DEF IInv, SlotsCounted

LEMMA ReleaseStep ==
  ASSUME IInv, NEW p \in Pkg, Release(p)
  PROVE  IInv'
<1> DEFINE o == InvOf[p]
<1>1. o \in Inv
  BY PackagesOwned
<1>2. pc[p] = "admitted" /\ running' = [running EXCEPT ![o] = @ - 1] /\ member' = member
  BY DEF Release
<1>3. pc' = [q \in Pkg |-> IF [pc EXCEPT ![p] = "done"][q] = "waiting" THEN "woken"
                           ELSE [pc EXCEPT ![p] = "done"][q]]
  BY DEF Release, Wake
<1>4. \A q \in Pkg : pc'[q] = "admitted" <=> q # p /\ pc[q] = "admitted"
  BY <1>3 DEF IInv, Types
<1>5. \A q \in Pkg : pc'[q] # "waiting"
  BY <1>3
<1>6. p \in Admitted(o)
  BY <1>2 DEF Admitted, Of
<1>7. Cardinality(Admitted(o) \ {p}) = Cardinality(Admitted(o)) - 1
  BY <1>1, <1>6, AdmittedFinite, FS_RemoveElement
<1>8. Cardinality(Admitted(o) \ {p}) \in Nat
  BY <1>1, AdmittedFinite, FS_RemoveElement, FS_CardinalityType
<1>9. running[o] - 1 \in Nat
  BY <1>1, <1>7, <1>8 DEF IInv, SlotsCounted
<1>10. Types'
  <2>1. pc' \in [Pkg -> {"new", "admitted"} \cup Asking \cup Over]
    BY <1>3 DEF IInv, Types, Asking, Over
  <2>2. running' \in [Inv -> Nat]
    BY <1>1, <1>2, <1>9 DEF IInv, Types
  <2> QED BY <1>2, <2>1, <2>2 DEF IInv, Types
<1>11. ASSUME NEW a \in Inv PROVE running'[a] = Cardinality(Admitted(a)')
  <2>1. CASE a = o
    <3>1. Admitted(a)' = Admitted(a) \ {p}
      BY <1>4 DEF Admitted, Of
    <3> QED BY <1>1, <1>2, <1>7, <2>1, <3>1 DEF IInv, Types, SlotsCounted
  <2>2. CASE a # o
    <3>1. Admitted(a)' = Admitted(a)
      BY <1>4, <2>2 DEF Admitted, Of
    <3> QED BY <1>2, <2>2, <3>1 DEF IInv, Types, SlotsCounted
  <2> QED BY <2>1, <2>2
<1>12. WaitersHaveWaker'
  BY <1>5 DEF WaitersHaveWaker
<1> QED BY <1>10, <1>11, <1>12 DEF IInv, SlotsCounted

\* Nobody waits after a broadcast.
LEMMA WakeKeeps ==
  ASSUME IInv, Wake(pc), UNCHANGED running, member' \subseteq Inv
  PROVE  IInv'
<1>1. pc' = [q \in Pkg |-> IF pc[q] = "waiting" THEN "woken" ELSE pc[q]]
  BY DEF Wake
<1>2. Types'
  BY <1>1 DEF IInv, Types, Asking
<1>3. \A q \in Pkg : pc'[q] = "admitted" <=> pc[q] = "admitted"
  BY <1>1
<1>4. \A q \in Pkg : pc'[q] = "waiting" => pc[q] = "waiting"
  BY <1>1
<1> QED BY <1>2, <1>3, <1>4, Keeps

\* A package outside the slots and the wait goes on to another such place.
LEMMA MoveKeeps ==
  ASSUME IInv, NEW p \in Pkg, NEW to \in {"ask"} \cup Over,
         pc[p] \in {"new", "ask", "woken"},
         pc' = [pc EXCEPT ![p] = to], UNCHANGED <<running, member>>
  PROVE  IInv'
<1>1. Types'
  BY DEF IInv, Types, Asking
<1>2. \A q \in Pkg : pc'[q] = "admitted" <=> pc[q] = "admitted"
  BY DEF IInv, Types, Over
<1>3. \A q \in Pkg : pc'[q] = "waiting" => pc[q] = "waiting"
  BY DEF IInv, Types, Over
<1> QED BY <1>1, <1>2, <1>3, Keeps

LEMMA StutterKeeps ==
  ASSUME IInv, UNCHANGED <<pc, running>>, member' \subseteq Inv
  PROVE  IInv'
<1>1. Types'
  BY DEF IInv, Types
<1> QED BY <1>1, Keeps

LEMMA AsksStep ==
  ASSUME IInv, NEW p \in Pkg, Asks(p)
  PROVE  IInv'
<1>1. InvOf[p] \in Inv
  BY PackagesOwned
<1>2. ASSUME NEW r, Refuse(p, r) PROVE IInv'
  <2>1. pc' = [pc EXCEPT ![p] = "refused"] /\ pc[p] \in {"new", "ask", "woken"}
        /\ UNCHANGED <<running, member>> /\ "refused" \in {"ask"} \cup Over
    BY <1>2 DEF Refuse, Judge, Over
  <2> QED BY <2>1, MoveKeeps
<1>3. ASSUME NEW r, Hold(p, r) PROVE IInv'
  <2>1. pc' = [pc EXCEPT ![p] = "waiting"] /\ pc[p] \in {"ask", "woken"}
        /\ UNCHANGED <<running, member>>
    BY <1>3 DEF Hold, Judge
  <2>2. \E b \in Inv : running[b] > 0
    BY <1>1, <1>3 DEF Hold, OthersRunning, IInv, Types
  <2>3. \E q \in Pkg : pc[q] = "admitted"
    BY <2>2, RunningSlot
  <2> QED BY <2>1, <2>3, Waits
<1>4. CASE Queue(p)
  <2>1. pc' = [pc EXCEPT ![p] = "waiting"] /\ pc[p] \in {"ask", "woken"}
        /\ UNCHANGED <<running, member>> /\ running[InvOf[p]] >= Bound[InvOf[p]]
    BY <1>4 DEF Queue
  <2>2. running[InvOf[p]] > 0
    BY <1>1, <2>1, SomeBound DEF IInv, Types
  <2>3. \E q \in Pkg : pc[q] = "admitted"
    BY <1>1, <2>2, RunningSlot
  <2> QED BY <2>1, <2>3, Waits
<1>5. CASE GiveUp(p)
  <2>1. pc' = [pc EXCEPT ![p] = "ended"] /\ pc[p] \in {"new", "ask", "woken"}
        /\ UNCHANGED <<running, member>> /\ "ended" \in {"ask"} \cup Over
    BY <1>5 DEF GiveUp, Over
  <2> QED BY <2>1, MoveKeeps
<1> QED BY <1>2, <1>3, <1>4, <1>5, AdmitStep DEF Asks

LEMMA PackageStep ==
  ASSUME IInv, NEW p \in Pkg, Ask(p) \/ Dispose(p) \/ Asks(p) \/ Runs(p) \/ Exit(p)
  PROVE  IInv'
<1>1. CASE Ask(p)
  <2>1. pc' = [pc EXCEPT ![p] = "ask"] /\ pc[p] \in {"new", "ask", "woken"}
        /\ UNCHANGED <<running, member>>
    BY <1>1 DEF Ask
  <2> QED BY <2>1, MoveKeeps
<1>2. CASE Dispose(p)
  <2>1. PICK s \in Scope : pc[s] \in {"refused", "ended"} /\ pc' = [pc EXCEPT ![p] = pc[s]]
    BY <1>2 DEF Dispose
  <2>2. pc[p] \in {"new", "ask", "woken"} /\ UNCHANGED <<running, member>>
        /\ pc[s] \in {"ask"} \cup Over
    BY <1>2, <2>1 DEF Dispose, Over
  <2> QED BY <2>1, <2>2, MoveKeeps
<1>3. CASE Runs(p)
  <2>1. CASE Reaped(p)
    <3>1. Wake(pc) /\ UNCHANGED <<running, member>> /\ member' \subseteq Inv
      BY <2>1 DEF Reaped, IInv, Types
    <3> QED BY <3>1, WakeKeeps
  <2>2. CASE Spawn(p) \/ Register(p) \/ Fold(p)
    <3>1. UNCHANGED <<pc, running>> /\ member' \subseteq Inv
      BY <2>2 DEF Spawn, Register, Fold, IInv, Types
    <3> QED BY <3>1, StutterKeeps
  <2> QED BY <1>3, <2>1, <2>2, ReleaseStep DEF Runs
<1>4. CASE Exit(p)
  <2>1. UNCHANGED <<pc, running>> /\ member' \subseteq Inv
    BY <1>4 DEF Exit, IInv, Types
  <2> QED BY <2>1, StutterKeeps
<1> QED BY <1>1, <1>2, <1>3, <1>4, AsksStep

LEMMA InvocationStep ==
  ASSUME IInv, NEW a \in Inv, Join(a) \/ Expire(a) \/ Tell(a) \/ Leave(a)
  PROVE  IInv'
<1>1. CASE Join(a) \/ Expire(a)
  <2>1. UNCHANGED <<pc, running>> /\ member' \subseteq Inv
    BY <1>1 DEF Join, Expire, IInv, Types
  <2> QED BY <2>1, StutterKeeps
<1>2. CASE Tell(a) \/ Leave(a)
  <2>1. Wake(pc) /\ UNCHANGED running /\ member' \subseteq Inv
    BY <1>2 DEF Tell, Leave, IInv, Types
  <2> QED BY <2>1, WakeKeeps
<1> QED BY <1>1, <1>2

LEMMA InitIInv == Init => IInv
<1> SUFFICES ASSUME Init PROVE IInv
  OBVIOUS
<1>1. Types
  BY DEF Init, Types
<1>2. \A a \in Inv : Admitted(a) = {}
  BY DEF Init, Admitted, Of
<1>3. SlotsCounted
  BY <1>2, FS_EmptySet DEF Init, SlotsCounted
<1>4. WaitersHaveWaker
  BY DEF Init, WaitersHaveWaker
<1> QED BY <1>1, <1>3, <1>4 DEF IInv

LEMMA NextIInv == IInv /\ [Next]_vars => IInv'
<1> SUFFICES ASSUME IInv, [Next]_vars PROVE IInv'
  OBVIOUS
<1>1. CASE UNCHANGED vars
  <2>1. UNCHANGED <<pc, running>> /\ member' \subseteq Inv
    BY <1>1 DEF vars, IInv, Types
  <2> QED BY <2>1, StutterKeeps
<1>2. ASSUME (\E p \in Pkg : \E m \in 0..TreeMax[p] : TreeMoves(p, m))
             \/ (\E m \in 0..PassMax : PassMoves(m))
             \/ (\E m \in 0..OutsideMax : OutsideMoves(m))
      PROVE  IInv'
  <2>1. UNCHANGED <<pc, running>> /\ member' \subseteq Inv
    BY <1>2 DEF TreeMoves, PassMoves, OutsideMoves, IInv, Types
  <2> QED BY <2>1, StutterKeeps
<1> QED BY <1>1, <1>2, InvocationStep, PackageStep DEF Next

\* The slots the terms count are the packages in one, whatever the interleaving.
THEOREM SlotsExact == Spec => []SlotsCounted
<1>1. IInv => SlotsCounted
  BY DEF IInv
<1> QED BY <1>1, InitIInv, NextIInv, PTL DEF Spec

\* No wakeup is lost: a waiting package always has one in a slot to wake it.
THEOREM NoLostWakeup == Spec => []WaitersHaveWaker
<1>1. IInv => WaitersHaveWaker
  BY DEF IInv
<1> QED BY <1>1, InitIInv, NextIInv, PTL DEF Spec

-----------------------------------------------------------------------------
(* Maxima. *)

LEMMA Largest ==
  ASSUME NEW B \in Nat, NEW S \in SUBSET (0..B), S # {}
  PROVE  Max(S) \in S /\ \A x \in S : x <= Max(S)
<1> DEFINE T == {B - x : x \in S}
           R == OpToRel(<, Nat)
<1>0. \A x \in S : x \in 0..B /\ B - x \in Nat
  <2> TAKE x \in S
  <2>1. x \in 0..B
    OBVIOUS
  <2> QED BY <2>1
<1>1. T \subseteq Nat /\ T # {}
  BY <1>0
<1>2. PICK k \in T : \A j \in T : ~ (<<j, k>> \in R)
  BY <1>1, NatLessThanWellFounded, WFMin
<1>3. PICK m \in S : k = B - m
  OBVIOUS
<1>4. ASSUME NEW x \in S PROVE m >= x
  <2>1. B - x \in T /\ B - x \in Nat /\ k \in Nat /\ x \in Nat /\ m \in Nat
    BY <1>0, <1>1
  <2>2. B - x < k => <<B - x, k>> \in R
    BY <2>1 DEF OpToRel
  <2> HIDE DEF R
  <2>3. ~ (B - x < k)
    BY <1>2, <2>1, <2>2
  <2> HIDE DEF T
  <2> QED BY <1>3, <2>1, <2>3
<1>5. \E x \in S : \A y \in S : x >= y
  BY <1>4
<1>6. Max(S) \in S /\ \A y \in S : Max(S) >= y
  BY <1>5 DEF Max
<1> QED BY <1>6

LEMMA MaxPair ==
  ASSUME NEW m \in Nat, NEW n \in Nat
  PROVE  Max({m, n}) = IF m >= n THEN m ELSE n
BY DEF Max

LEMMA MaxNat == \A m, n \in Nat : Max({m, n}) \in Nat
<1> TAKE m, n \in Nat
<1>1. Max({m, n}) \in {m, n}
  BY MaxPair
<1> QED BY <1>1

LEMMA MinPair ==
  ASSUME NEW m \in Nat, NEW n \in Nat
  PROVE  Min({m, n}) = IF m <= n THEN m ELSE n
BY DEF Min

\* What a completed process is priced at: its own use, or the floor.
LEMMA Priced ==
  ASSUME NEW raw \in Nat, NEW shown \in Nat, NEW B \in Nat, shown <= B, Floor <= B,
         raw <= B \/ (PassMark > Floor /\ raw <= PassMark)
  PROVE  ChildPeak(raw, shown) \in Nat /\ ChildPeak(raw, shown) <= B
<1>1. Floor \in Nat
  BY Units
<1>2. Min({raw, Floor}) \in Nat /\ Min({raw, Floor}) <= B
  BY <1>1, MinPair
<1>3. \A n \in Nat : Max({shown, n}) = IF shown >= n THEN shown ELSE n
  BY MaxPair
<1>4. Max({raw, shown}) = IF raw >= shown THEN raw ELSE shown
  BY MaxPair
<1>5. CASE PassMark > Floor /\ raw <= PassMark
  <2>1. ChildPeak(raw, shown) = Max({shown, Min({raw, Floor})})
    BY <1>5 DEF ChildPeak
  <2> QED BY <1>2, <1>3, <2>1
<1>6. CASE ~ (PassMark > Floor /\ raw <= PassMark)
  <2>1. ChildPeak(raw, shown) = Max({raw, shown})
    BY <1>6 DEF ChildPeak
  <2> QED BY <1>4, <1>6, <2>1
<1> QED BY <1>5, <1>6

LEMMA PeakHonest ==
  ASSUME NEW own \in Nat, NEW mark \in {0, PassMark}, NEW shown \in Nat, NEW B \in Nat,
         own <= B, shown <= B, Floor <= B
  PROVE  LET paid == ChildPeak(Max({own, mark}), shown) IN paid \in Nat /\ paid <= B
<1>1. Floor \in Nat /\ PassMark \in Nat /\ mark \in Nat /\ mark <= PassMark
  BY Units
<1>2. Max({own, mark}) = IF own >= mark THEN own ELSE mark
  BY <1>1, MaxPair
<1>3. PICK raw \in Nat : raw = Max({own, mark})
  BY <1>1, <1>2
<1>4. raw <= B \/ (PassMark > Floor /\ raw <= PassMark)
  BY <1>1, <1>2, <1>3
<1>5. ChildPeak(raw, shown) \in Nat /\ ChildPeak(raw, shown) <= B
  BY <1>4, Priced
<1> QED BY <1>3, <1>5

-----------------------------------------------------------------------------
(* Sums. *)

\* Among finite sets one has none of the others below it: how the lemmas on sums
\* go about every set at once.
LEMMA Minimal ==
  ASSUME NEW C, C # {}, \A s \in C : IsFiniteSet(s)
  PROVE  \E s \in C : \A t \in C : t \subseteq s => t = s
<1> DEFINE T == {Cardinality(s) : s \in C}
           R == OpToRel(<, Nat)
<1>1. T \subseteq Nat /\ T # {}
  BY FS_CardinalityType
<1>2. PICK k \in T : \A j \in T : ~ (<<j, k>> \in R)
  BY <1>1, NatLessThanWellFounded, WFMin
<1>3. PICK s \in C : k = Cardinality(s)
  OBVIOUS
<1>4. ASSUME NEW t \in C, t \subseteq s, t # s PROVE FALSE
  <2>1. Cardinality(t) < Cardinality(s) /\ Cardinality(t) \in Nat /\ Cardinality(s) \in Nat
    BY <1>4, FS_Subset, FS_CardinalityType
  <2>2. <<Cardinality(t), k>> \in R
    BY <1>3, <2>1 DEF OpToRel
  <2> QED BY <1>2, <2>2
<1> QED BY <1>4

\* The recursion the sum is defined by.
Pick(s) == CHOOSE x \in s : TRUE
Sums(g, f, S) == g = [s \in SUBSET S |-> IF s = {} THEN 0 ELSE f[Pick(s)] + g[s \ {Pick(s)}]]

LEMMA TotalIs ==
  ASSUME NEW f, NEW S
  PROVE  Total(f, S) = (CHOOSE g : Sums(g, f, S))[S]
BY DEF Total, SumFunctionOnSet, FoldFunctionOnSet, MapThenFoldSet, Sums, Pick

LEMMA Picked == \A s : s # {} => Pick(s) \in s
BY DEF Pick

LEMMA SumsAgree ==
  ASSUME NEW f, NEW S, NEW T, IsFiniteSet(S), NEW g, NEW h, Sums(g, f, S), Sums(h, f, T)
  PROVE  \A s \in SUBSET (S \cap T) : g[s] = h[s]
<1> DEFINE C == {s \in SUBSET (S \cap T) : g[s] # h[s]}
<1> SUFFICES ASSUME C # {} PROVE FALSE
  OBVIOUS
<1>1. \A s \in C : IsFiniteSet(s)
  BY FS_Subset
<1>2. PICK s \in C : \A t \in C : t \subseteq s => t = s
  <2> HIDE DEF C
  <2> QED BY <1>1, Minimal
<1>3. s # {}
  BY DEF Sums
<1>4. s \ {Pick(s)} \notin C /\ s \ {Pick(s)} \in SUBSET (S \cap T)
  BY <1>2, <1>3, Picked
<1>5. g[s] = f[Pick(s)] + g[s \ {Pick(s)}] /\ h[s] = f[Pick(s)] + h[s \ {Pick(s)}]
  BY <1>3, s \in SUBSET S, s \in SUBSET T DEF Sums
<1> QED BY <1>4, <1>5

LEMMA SumsExist ==
  ASSUME NEW f, NEW S, IsFiniteSet(S)
  PROVE  \E g : Sums(g, f, S)
<1> DEFINE C == {s \in SUBSET S : ~ \E g : Sums(g, f, s)}
<1> SUFFICES ASSUME C # {} PROVE FALSE
  OBVIOUS
<1>1. \A s \in C : IsFiniteSet(s)
  BY FS_Subset
<1>2. PICK s \in C : \A t \in C : t \subseteq s => t = s
  <2> HIDE DEF C
  <2> QED BY <1>1, Minimal
<1> DEFINE On(u) == CHOOSE g : Sums(g, f, u)
           G == [u \in SUBSET s |-> IF u = {} THEN 0 ELSE f[Pick(u)] + On(u \ {Pick(u)})[u \ {Pick(u)}]]
<1>3. ASSUME NEW u \in SUBSET s, u # s PROVE Sums(On(u), f, u)
  <2>1. \E g : Sums(g, f, u)
    BY <1>2, <1>3
  <2> QED BY <2>1
<1>4. ASSUME NEW u \in SUBSET s, u # {} PROVE G[u \ {Pick(u)}] = On(u \ {Pick(u)})[u \ {Pick(u)}]
  <2> DEFINE v == u \ {Pick(u)}
  <2>1. v \in SUBSET s /\ v # s /\ IsFiniteSet(v)
    BY <1>1, <1>4, Picked, FS_Subset
  <2>2. Sums(On(v), f, v)
    BY <1>3, <2>1
  <2>3. CASE v = {}
    BY <2>1, <2>2, <2>3 DEF Sums
  <2>4. CASE v # {}
    <3> DEFINE w == v \ {Pick(v)}
    <3>1. w \in SUBSET s /\ w # s /\ w \in SUBSET v /\ IsFiniteSet(w)
      BY <2>1, <2>4, Picked, FS_Subset
    <3>2. Sums(On(w), f, w)
      BY <1>3, <3>1
    <3>3. On(v)[w] = On(w)[w]
      <4> HIDE DEF On, w, v
      <4>1. \A x \in SUBSET (v \cap w) : On(v)[x] = On(w)[x]
        BY <2>1, <2>2, <3>2, SumsAgree
      <4> QED BY <3>1, <4>1
    <3>4. On(v)[v] = f[Pick(v)] + On(v)[w]
      <4> HIDE DEF On
      <4> QED BY <2>2, <2>4 DEF Sums
    <3>5. G[v] = f[Pick(v)] + On(w)[w]
      <4> HIDE DEF On
      <4> QED BY <2>1, <2>4
    <3> QED BY <3>3, <3>4, <3>5
  <2> QED BY <2>3, <2>4
<1>5. Sums(G, f, s)
  <2> HIDE DEF On
  <2> QED BY <1>4 DEF Sums
<1> QED BY <1>2, <1>5

\* A sum is its definition's recursion.
LEMMA TotalStep ==
  ASSUME NEW f, NEW S, IsFiniteSet(S)
  PROVE  Total(f, S) = IF S = {} THEN 0 ELSE f[Pick(S)] + Total(f, S \ {Pick(S)})
<1> DEFINE On(u) == CHOOSE g : Sums(g, f, u)
<1>1. ASSUME NEW u \in SUBSET S PROVE Sums(On(u), f, u) /\ Total(f, u) = On(u)[u]
  <2>1. IsFiniteSet(u)
    BY FS_Subset
  <2> QED BY <2>1, SumsExist, TotalIs
<1> HIDE DEF On
<1>2. CASE S = {}
  BY <1>1, <1>2 DEF Sums
<1>3. CASE S # {}
  <2> DEFINE v == S \ {Pick(S)}
  <2>1. v \in SUBSET S
    OBVIOUS
  <2>2. On(S)[v] = On(v)[v]
    <3> HIDE DEF v
    <3>1. Sums(On(S), f, S) /\ Sums(On(v), f, v)
      BY <1>1, <2>1
    <3>2. \A x \in SUBSET (S \cap v) : On(S)[x] = On(v)[x]
      BY <3>1, SumsAgree
    <3> QED BY <2>1, <3>2
  <2>3. On(S)[S] = f[Pick(S)] + On(S)[v]
    BY <1>1, <1>3 DEF Sums
  <2> QED BY <1>1, <1>3, <2>1, <2>2, <2>3
<1> QED BY <1>2, <1>3

LEMMA TotalEmpty == \A f : Total(f, {}) = 0
BY FS_EmptySet, TotalStep

LEMMA TotalNat ==
  ASSUME NEW f, NEW S, IsFiniteSet(S), \A x \in S : f[x] \in Nat
  PROVE  Total(f, S) \in Nat
<1> DEFINE C == {s \in SUBSET S : Total(f, s) \notin Nat}
<1> SUFFICES ASSUME C # {} PROVE FALSE
  OBVIOUS
<1>1. \A s \in C : IsFiniteSet(s)
  BY FS_Subset
<1>2. PICK s \in C : \A t \in C : t \subseteq s => t = s
  <2> HIDE DEF C
  <2> QED BY <1>1, Minimal
<1>3. Total(f, s) = IF s = {} THEN 0 ELSE f[Pick(s)] + Total(f, s \ {Pick(s)})
  BY <1>1, TotalStep
<1>4. s # {} /\ Pick(s) \in S /\ Total(f, s \ {Pick(s)}) \in Nat
  BY <1>2, <1>3, Picked
<1> QED BY <1>3, <1>4

\* The order of summation does not matter.
LEMMA TotalAny ==
  ASSUME NEW f, NEW S, IsFiniteSet(S), \A x \in S : f[x] \in Nat
  PROVE  \A x \in S : Total(f, S) = f[x] + Total(f, S \ {x})
<1> DEFINE Any(s) == \A x \in s : Total(f, s) = f[x] + Total(f, s \ {x})
           C == {s \in SUBSET S : ~ Any(s)}
<1> SUFFICES ASSUME C # {} PROVE FALSE
  OBVIOUS
<1>1. \A s \in SUBSET S : IsFiniteSet(s) /\ Total(f, s) \in Nat
  BY FS_Subset, TotalNat
<1>2. PICK s \in C : \A t \in C : t \subseteq s => t = s
  <2>1. \A s \in C : IsFiniteSet(s)
    BY <1>1
  <2> HIDE DEF C
  <2> QED BY <2>1, Minimal
<1>3. PICK x \in s : Total(f, s) # f[x] + Total(f, s \ {x})
  OBVIOUS
<1> DEFINE c == Pick(s)
<1>4. c \in s /\ Total(f, s) = f[c] + Total(f, s \ {c})
  BY <1>1, <1>3, Picked, TotalStep
<1>5. x # c
  BY <1>3, <1>4
<1> HIDE DEF c
<1>6. Any(s \ {c}) /\ Any(s \ {x})
  BY <1>2, <1>4
<1>7. (s \ {c}) \ {x} = (s \ {x}) \ {c}
  OBVIOUS
<1>8. Total(f, s \ {c}) = f[x] + Total(f, (s \ {c}) \ {x})
  BY <1>5, <1>6
<1>9. Total(f, s \ {x}) = f[c] + Total(f, (s \ {c}) \ {x})
  BY <1>4, <1>5, <1>6, <1>7
<1>10. f[x] \in Nat /\ f[c] \in Nat /\ Total(f, (s \ {c}) \ {x}) \in Nat
  BY <1>1, <1>4
<1> QED BY <1>3, <1>4, <1>8, <1>9, <1>10

LEMMA TotalUnion ==
  ASSUME NEW f, NEW A, NEW B, IsFiniteSet(A), IsFiniteSet(B), A \cap B = {},
         \A x \in A \cup B : f[x] \in Nat
  PROVE  Total(f, A \cup B) = Total(f, A) + Total(f, B)
<1> DEFINE C == {s \in SUBSET A : Total(f, s \cup B) # Total(f, s) + Total(f, B)}
<1> SUFFICES ASSUME C # {} PROVE FALSE
  OBVIOUS
<1>1. \A s \in SUBSET A : IsFiniteSet(s) /\ Total(f, s) \in Nat
  BY FS_Subset, TotalNat
<1>2. PICK s \in C : \A t \in C : t \subseteq s => t = s
  <2>1. \A s \in C : IsFiniteSet(s)
    BY <1>1
  <2> HIDE DEF C
  <2> QED BY <2>1, Minimal
<1>3. Total(f, B) \in Nat
  BY TotalNat
<1>4. s # {}
  <2>1. Total(f, {}) = 0
    BY TotalEmpty
  <2>2. {} \cup B = B
    OBVIOUS
  <2> QED BY <1>3, <2>1, <2>2
<1>5. PICK x \in s : TRUE
  BY <1>4
<1>6. Total(f, s) = f[x] + Total(f, s \ {x})
  BY <1>1, TotalAny
<1>7. IsFiniteSet(s \cup B)
  BY <1>1, FS_Union
<1>8. Total(f, s \cup B) = f[x] + Total(f, (s \ {x}) \cup B)
  <2>1. (s \cup B) \ {x} = (s \ {x}) \cup B
    BY <1>5
  <2>2. \A y \in s \cup B : f[y] \in Nat
    OBVIOUS
  <2> QED BY <1>5, <1>7, <2>1, <2>2, TotalAny
<1>9. Total(f, (s \ {x}) \cup B) = Total(f, s \ {x}) + Total(f, B)
  BY <1>2, <1>5
<1>10. Total(f, s \ {x}) \in Nat /\ f[x] \in Nat
  BY <1>1
<1> QED BY <1>3, <1>6, <1>8, <1>9, <1>10

LEMMA Times == \A F, n \in Nat : F * n \in Nat /\ F * (n + 1) = F * n + F /\ F * 0 = 0
OBVIOUS

\* Two functions that make up F everywhere make up F * |S| together.
LEMMA TotalAtLeast ==
  ASSUME NEW f, NEW g, NEW S, IsFiniteSet(S), NEW F \in Nat,
         \A x \in S : f[x] \in Nat /\ g[x] \in Nat /\ f[x] + g[x] >= F
  PROVE  Total(f, S) + Total(g, S) >= F * Cardinality(S)
<1> DEFINE C == {s \in SUBSET S : ~ (Total(f, s) + Total(g, s) >= F * Cardinality(s))}
<1> SUFFICES ASSUME C # {} PROVE FALSE
  BY S \in SUBSET S
<1>1. \A s \in SUBSET S : /\ IsFiniteSet(s) /\ Cardinality(s) \in Nat
                          /\ Total(f, s) \in Nat /\ Total(g, s) \in Nat
  BY FS_Subset, FS_CardinalityType, TotalNat
<1>2. PICK s \in C : \A t \in C : t \subseteq s => t = s
  <2>1. \A s \in C : IsFiniteSet(s)
    BY <1>1
  <2> HIDE DEF C
  <2> QED BY <2>1, Minimal
<1>3. s # {}
  <2> SUFFICES ASSUME s = {} PROVE FALSE
    OBVIOUS
  <2>1. Cardinality(s) = 0 /\ Total(f, s) = 0 /\ Total(g, s) = 0
    BY FS_EmptySet, TotalEmpty
  <2>2. F * Cardinality(s) = 0
    BY <2>1, Times
  <2> HIDE DEF C
  <2> QED BY <1>2, <2>1, <2>2 DEF C
<1>4. PICK x \in s : TRUE
  BY <1>3
<1>5. Total(f, s) = f[x] + Total(f, s \ {x}) /\ Total(g, s) = g[x] + Total(g, s \ {x})
  BY <1>1, TotalAny
<1> DEFINE n == Cardinality(s \ {x})
<1>6. n \in Nat /\ Cardinality(s) = n + 1
  BY <1>1, FS_RemoveElement
<1>7. Total(f, s \ {x}) + Total(g, s \ {x}) >= F * n
  BY <1>2, <1>4
<1>8. F * Cardinality(s) = F * n + F /\ F * n \in Nat
  <2> HIDE DEF n
  <2> QED BY <1>6, Times
<1>9. Total(f, s \ {x}) \in Nat /\ Total(g, s \ {x}) \in Nat
  BY <1>1
<1> HIDE DEF n
<1>10. Total(f, s) + Total(g, s) >= F * n + F
  BY <1>5, <1>7, <1>8, <1>9
<1> QED BY <1>8, <1>10

LEMMA TotalAtMost ==
  ASSUME NEW f, NEW S, IsFiniteSet(S), NEW F \in Nat,
         \A x \in S : f[x] \in Nat /\ f[x] <= F
  PROVE  Total(f, S) <= F * Cardinality(S)
<1> DEFINE C == {s \in SUBSET S : ~ (Total(f, s) <= F * Cardinality(s))}
<1> SUFFICES ASSUME C # {} PROVE FALSE
  BY S \in SUBSET S
<1>1. \A s \in SUBSET S : /\ IsFiniteSet(s) /\ Cardinality(s) \in Nat /\ Total(f, s) \in Nat
  BY FS_Subset, FS_CardinalityType, TotalNat
<1>2. PICK s \in C : \A t \in C : t \subseteq s => t = s
  <2>1. \A s \in C : IsFiniteSet(s)
    BY <1>1
  <2> HIDE DEF C
  <2> QED BY <2>1, Minimal
<1>3. s # {}
  <2> SUFFICES ASSUME s = {} PROVE FALSE
    OBVIOUS
  <2>1. Cardinality(s) = 0 /\ Total(f, s) = 0
    BY FS_EmptySet, TotalEmpty
  <2>2. F * Cardinality(s) = 0
    BY <2>1, Times
  <2> HIDE DEF C
  <2> QED BY <1>2, <2>1, <2>2 DEF C
<1>4. PICK x \in s : TRUE
  BY <1>3
<1>5. Total(f, s) = f[x] + Total(f, s \ {x})
  BY <1>1, TotalAny
<1> DEFINE n == Cardinality(s \ {x})
<1>6. n \in Nat /\ Cardinality(s) = n + 1
  BY <1>1, FS_RemoveElement
<1>7. Total(f, s \ {x}) <= F * n
  BY <1>2, <1>4
<1>8. F * Cardinality(s) = F * n + F /\ F * n \in Nat
  <2> HIDE DEF n
  <2> QED BY <1>6, Times
<1>9. Total(f, s \ {x}) \in Nat /\ f[x] \in Nat /\ f[x] <= F
  BY <1>1
<1> HIDE DEF n
<1>10. Total(f, s) <= F * n + F
  BY <1>5, <1>7, <1>8, <1>9
<1> QED BY <1>8, <1>10

-----------------------------------------------------------------------------
(* Types. *)

Reads(r) == r.ok \in BOOLEAN /\ r.pass \in Nat /\ r.trees \in [Pkg -> Nat]

LEMMA ReadingTyped ==
  ASSUME TypeOK, NEW p \in Pkg, NEW r \in ReadingFor(p)
  PROVE  Reads(r)
<1>1. Reads(reading)
  BY DEF TypeOK, Reads
<1>2. Reads(Snapshot) /\ Reads(NoReading)
  BY DEF TypeOK, Reads, Snapshot, NoReading
<1> QED BY <1>1, <1>2 DEF ReadingFor, Readings

LEMMA JudgeTypes ==
  ASSUME TypeOK, NEW p \in Pkg, NEW r, Reads(r), Judge(p, r)
  PROVE  /\ treePeak' \in [Pkg -> Nat] /\ passPeak' \in [Inv -> Nat]
         /\ reading'.ok \in BOOLEAN /\ reading'.pass \in Nat /\ reading'.trees \in [Pkg -> Nat]
         /\ cached' \in BOOLEAN
<1>1. Noted(r) \in [Pkg -> Nat]
  BY DEF Noted, TypeOK, Reads
<1>2. PassNoted(InvOf[p], r) \in [Inv -> Nat]
  <2>1. r.pass \in Nat /\ \A a \in Inv : passPeak[a] \in Nat
    BY DEF TypeOK, Reads
  <2>2. \A a \in Inv : Max({passPeak[a], r.pass}) \in Nat
    BY <2>1, MaxNat
  <2> QED BY <2>2 DEF PassNoted, TypeOK
<1> QED BY <1>1, <1>2 DEF Judge, TypeOK, Reads

\* A step of the control moves neither memory nor what was noted of it.
LEMMA ControlTypes ==
  ASSUME TypeOK, NEW p \in Pkg, Queue(p) \/ GiveUp(p) \/ Ask(p) \/ Dispose(p) \/ Register(p) \/ Release(p)
  PROVE  UNCHANGED <<member, ctx, spawns, memory, evidence, reading>> /\ cached' \in BOOLEAN
         /\ proc' \in [Pkg -> {"none", "started"} \cup Tracked]
BY DEF Queue, GiveUp, Ask, Dispose, Register, Release, Wake, TypeOK, Tracked

LEMMA NextTypeOK == IInv /\ TypeOK /\ [Next]_vars => TypeOK'
<1> SUFFICES ASSUME IInv, TypeOK, [Next]_vars PROVE TypeOK'
  OBVIOUS
<1>0. Types'
  BY NextIInv DEF IInv
<1> DEFINE Rest == /\ ctx' \in [Inv -> {"on", "ended", "told"}]
                   /\ proc' \in [Pkg -> {"none", "started"} \cup Tracked]
                   /\ spawns' \in [Pkg -> Nat]
                   /\ tree' \in [Pkg -> Nat] /\ high' \in [Pkg -> Nat]
                   /\ treePeak' \in [Pkg -> Nat] /\ live' \in [Pkg -> Nat]
                   /\ peak' \in [Inv -> Nat] /\ passPeak' \in [Inv -> Nat] /\ reached' \in [Inv -> Nat]
                   /\ pass' \in Nat /\ outside' \in Nat
                   /\ reading'.ok \in BOOLEAN /\ reading'.pass \in Nat /\ reading'.trees \in [Pkg -> Nat]
                   /\ cached' \in BOOLEAN /\ beyond' \in BOOLEAN
<1>1. ASSUME NEW a \in Inv, Join(a) \/ Expire(a) \/ Tell(a) \/ Leave(a) PROVE Rest
  BY <1>1 DEF Join, Expire, Tell, Leave, Wake, TypeOK, memory, evidence
<1>2. ASSUME NEW p \in Pkg, Queue(p) \/ GiveUp(p) \/ Ask(p) \/ Dispose(p) \/ Register(p) \/ Release(p)
      PROVE  Rest
  BY <1>2, ControlTypes DEF TypeOK, memory, evidence
<1>3. ASSUME NEW p \in Pkg, NEW r \in ReadingFor(p), Admit(p, r) \/ Refuse(p, r) \/ Hold(p, r)
      PROVE  Rest
  <2>1. Judge(p, r) /\ Reads(r)
    BY <1>3, ReadingTyped DEF Admit, Refuse, Hold
  <2>2. UNCHANGED <<member, ctx, proc, spawns, live, peak, memory>>
    BY <2>1 DEF Judge
  <2> QED BY <2>1, <2>2, JudgeTypes DEF TypeOK, memory
<1>4. ASSUME NEW p \in Pkg, Spawn(p) PROVE Rest
  BY <1>4 DEF Spawn, TypeOK, memory, evidence
<1>5. ASSUME NEW p \in Pkg, Exit(p) PROVE Rest
  BY <1>5 DEF Exit, TypeOK, evidence, Tracked
<1>6. ASSUME NEW p \in Pkg, Fold(p) PROVE Rest
  BY <1>6 DEF Fold, TypeOK, memory, Tracked
<1>7. ASSUME NEW p \in Pkg, Reaped(p) PROVE Rest
  <2>1. InvOf[p] \in Inv /\ Floor \in Nat
    BY PackagesOwned, Units
  <2> PICK own \in 0..high[p], mark \in {0, PassMark} :
         peak' = [peak EXCEPT ![InvOf[p]] = Max({@, ChildPeak(Max({own, mark}), live[p])})]
    BY <1>7 DEF Reaped
  <2>2. own \in Nat /\ live[p] \in Nat
    BY DEF TypeOK
  <2>3. ChildPeak(Max({own, mark}), live[p]) \in Nat
    BY <2>1, <2>2, PeakHonest, own <= own + live[p] + Floor, live[p] <= own + live[p] + Floor,
       Floor <= own + live[p] + Floor, own + live[p] + Floor \in Nat
  <2>4. Max({peak[InvOf[p]], ChildPeak(Max({own, mark}), live[p])}) \in Nat
    <3>1. peak[InvOf[p]] \in Nat
      BY <2>1 DEF TypeOK
    <3> QED BY <2>3, <3>1, MaxNat
  <2>5. peak' \in [Inv -> Nat]
    BY <2>4 DEF TypeOK
  <2>6. /\ UNCHANGED <<member, ctx, running, spawns, tree, pass, outside, reached, beyond,
                        passPeak, reading>>
        /\ cached' = FALSE /\ proc' = [proc EXCEPT ![p] = "none"]
        /\ treePeak' = [treePeak EXCEPT ![p] = 0] /\ live' = [live EXCEPT ![p] = 0]
        /\ high' = [high EXCEPT ![p] = 0]
    BY <1>7 DEF Reaped, Wake
  <2> QED BY <2>5, <2>6 DEF TypeOK
<1>8. ASSUME NEW p \in Pkg, NEW m \in 0..TreeMax[p], TreeMoves(p, m) PROVE Rest
  <2>1. Max({high[p], m}) \in Nat /\ Max({reached[InvOf[p]], m}) \in Nat /\ m \in Nat
    <3>1. m \in Nat /\ high[p] \in Nat /\ reached[InvOf[p]] \in Nat
      BY PackagesOwned DEF TypeOK
    <3> QED BY <3>1, MaxNat
  <2> QED BY <1>8, <2>1 DEF TreeMoves, TypeOK, evidence
<1>9. ASSUME NEW m \in 0..PassMax, PassMoves(m) PROVE Rest
  BY <1>9 DEF PassMoves, TypeOK, evidence
<1>10. ASSUME NEW m \in 0..OutsideMax, OutsideMoves(m) PROVE Rest
  BY <1>10 DEF OutsideMoves, TypeOK, evidence
<1>11. ASSUME UNCHANGED vars PROVE Rest
  BY <1>11 DEF vars, TypeOK
<1>12. Rest
  <2> HIDE DEF Rest
  <2>1. ASSUME NEW p \in Pkg, Asks(p) PROVE Rest
    BY <1>2, <1>3, <2>1 DEF Asks
  <2>2. ASSUME NEW p \in Pkg, Runs(p) PROVE Rest
    BY <1>2, <1>4, <1>6, <1>7, <2>2 DEF Runs
  <2>3. CASE \E p \in Pkg : Ask(p) \/ Dispose(p) \/ Asks(p) \/ Runs(p) \/ Exit(p)
    BY <1>2, <1>5, <2>1, <2>2, <2>3
  <2>4. CASE \E a \in Inv : Join(a) \/ Expire(a) \/ Tell(a) \/ Leave(a)
    BY <1>1, <2>4
  <2>5. CASE \/ \E p \in Pkg : \E m \in 0..TreeMax[p] : TreeMoves(p, m)
             \/ \E m \in 0..PassMax : PassMoves(m)
             \/ \E m \in 0..OutsideMax : OutsideMoves(m)
    BY <1>8, <1>9, <1>10, <2>5
  <2> QED BY <1>11, <2>3, <2>4, <2>5 DEF Next
<1> QED BY <1>0, <1>12 DEF TypeOK, Types

LEMMA InitTypeOK == Init => TypeOK
<1> SUFFICES ASSUME Init PROVE TypeOK
  OBVIOUS
<1>1. /\ reading.ok \in BOOLEAN /\ reading.pass \in Nat /\ reading.trees \in [Pkg -> Nat]
      /\ cached \in BOOLEAN /\ beyond \in BOOLEAN
  BY DEF Init, NoReading
<1>2. pass \in Nat /\ outside \in Nat
  BY DEF Init
<1> QED BY <1>1, <1>2 DEF Init, TypeOK

\* The gate's and the packages' state keeps its types.
THEOREM AdmissionTypes == Spec => []TypeOK
<1>1. IInv /\ TypeOK /\ [Next]_vars => (IInv /\ TypeOK)'
  BY NextIInv, NextTypeOK
<1> QED BY <1>1, InitIInv, InitTypeOK, PTL DEF Spec

-----------------------------------------------------------------------------
(* The estimate. *)

\* Whatever is noted of a package's memory, its invocation's trees took.
Taken ==
  /\ \A p \in Pkg : /\ tree[p] <= reached[InvOf[p]] /\ high[p] <= reached[InvOf[p]]
                    /\ treePeak[p] <= reached[InvOf[p]] /\ live[p] <= reached[InvOf[p]]
                    /\ reading.trees[p] <= reached[InvOf[p]]
  /\ \A a \in Inv : peak[a] <= Floor \/ peak[a] <= reached[a]

LEMMA ReadingTaken ==
  ASSUME TypeOK, Taken, NEW p \in Pkg, NEW r \in ReadingFor(p), NEW q \in Pkg
  PROVE  r.trees[q] <= reached[InvOf[q]]
<1>1. InvOf[q] \in Inv /\ reached[InvOf[q]] \in Nat
  BY PackagesOwned DEF TypeOK
<1>2. CASE r = reading
  BY <1>2 DEF Taken
<1>3. CASE r = NoReading
  BY <1>1, <1>3 DEF NoReading
<1>4. CASE r = Snapshot
  BY <1>4 DEF Taken, Snapshot
<1> QED BY <1>2, <1>3, <1>4 DEF ReadingFor, Readings

LEMMA NextTaken ==
  ASSUME TypeOK, Taken, [Next]_vars
  PROVE  Taken'
<1>0. \A q \in Pkg : 0 <= reached[InvOf[q]]
  BY PackagesOwned DEF TypeOK
<1>1. ASSUME UNCHANGED <<tree, high, treePeak, live, peak, reading, reached>> PROVE Taken'
  BY <1>1 DEF Taken
<1>2. ASSUME NEW a \in Inv, Join(a) \/ Expire(a) \/ Tell(a) \/ Leave(a) PROVE Taken'
  BY <1>1, <1>2 DEF Join, Expire, Tell, Leave, memory, evidence
<1>3. ASSUME NEW p \in Pkg, Queue(p) \/ GiveUp(p) \/ Ask(p) \/ Dispose(p) \/ Register(p) \/ Release(p)
      PROVE  Taken'
  BY <1>1, <1>3, ControlTypes DEF memory, evidence
<1>4. ASSUME NEW p \in Pkg, NEW r \in ReadingFor(p), Admit(p, r) \/ Refuse(p, r) \/ Hold(p, r)
      PROVE  Taken'
  <2>1. Judge(p, r)
    BY <1>4 DEF Admit, Refuse, Hold
  <2>2. UNCHANGED <<tree, high, live, peak, reached>> /\ reading' = r
    BY <2>1 DEF Judge, memory
  <2>3. \A q \in Pkg : r.trees[q] <= reached[InvOf[q]]
    BY ReadingTaken
  <2>4. \A q \in Pkg : treePeak'[q] \in {treePeak[q], r.trees[q]}
    BY <2>1 DEF Judge, Noted, TypeOK
  <2> QED BY <2>2, <2>3, <2>4 DEF Taken
<1>5. ASSUME NEW p \in Pkg, Spawn(p) PROVE Taken'
  <2>1. UNCHANGED <<tree, high, treePeak, live, peak, reading, reached>>
    BY <1>5 DEF Spawn, memory, evidence
  <2> QED BY <1>1, <2>1
<1>6. ASSUME NEW p \in Pkg, Exit(p) PROVE Taken'
  <2>1. UNCHANGED <<high, treePeak, live, peak, reading, reached>> /\ tree' = [tree EXCEPT ![p] = 0]
    BY <1>6 DEF Exit, evidence
  <2>2. \A q \in Pkg : tree'[q] \in {tree[q], 0}
    BY <2>1 DEF TypeOK
  <2>3. \A q \in Pkg : tree'[q] <= reached[InvOf[q]]
    BY <1>0, <2>2 DEF Taken
  <2> QED BY <2>1, <2>3 DEF Taken
<1>7. ASSUME NEW p \in Pkg, Fold(p) PROVE Taken'
  <2>1. UNCHANGED <<tree, high, treePeak, peak, reading, reached>> /\ live' = [live EXCEPT ![p] = treePeak[p]]
    BY <1>7 DEF Fold, memory
  <2>2. \A q \in Pkg : live'[q] <= reached[InvOf[q]]
    BY <2>1 DEF Taken, TypeOK
  <2> QED BY <2>1, <2>2 DEF Taken
<1>8. ASSUME NEW p \in Pkg, Reaped(p) PROVE Taken'
  <2> DEFINE o == InvOf[p]
             B == IF Floor <= reached[o] THEN reached[o] ELSE Floor
  <2>1. o \in Inv /\ Floor \in Nat /\ reached[o] \in Nat
    BY PackagesOwned, Units DEF TypeOK
  <2>2. B \in Nat /\ Floor <= B /\ reached[o] <= B /\ (B = Floor \/ B = reached[o])
    BY <2>1
  <2> HIDE DEF B
  <2> PICK own \in 0..high[p], mark \in {0, PassMark} :
         peak' = [peak EXCEPT ![o] = Max({@, ChildPeak(Max({own, mark}), live[p])})]
    BY <1>8 DEF Reaped
  <2>3. own \in Nat /\ own <= high[p] /\ high[p] \in Nat /\ live[p] \in Nat
    BY DEF TypeOK
  <2>4. own <= B /\ live[p] <= B
    BY <2>1, <2>2, <2>3 DEF Taken
  <2> DEFINE paid == ChildPeak(Max({own, mark}), live[p])
  <2>5. paid \in Nat /\ paid <= B
    BY <2>2, <2>3, <2>4, PeakHonest
  <2> HIDE DEF paid
  <2>6. peak[o] \in Nat /\ peak' = [peak EXCEPT ![o] = Max({peak[o], paid})]
    BY <2>1 DEF paid, TypeOK
  <2>7. Max({peak[o], paid}) = IF peak[o] >= paid THEN peak[o] ELSE paid
    BY <2>5, <2>6, MaxPair
  <2>8. paid <= Floor \/ paid <= reached[o]
    BY <2>2, <2>5
  <2>9. \A a \in Inv : peak'[a] \in {peak[a]} \/ (a = o /\ peak'[a] = paid)
    BY <2>6, <2>7 DEF TypeOK
  <2>10. /\ UNCHANGED <<tree, reading, reached>> /\ high' = [high EXCEPT ![p] = 0]
         /\ treePeak' = [treePeak EXCEPT ![p] = 0] /\ live' = [live EXCEPT ![p] = 0]
    BY <1>8 DEF Reaped
  <2>11. \A q \in Pkg : /\ treePeak'[q] <= reached[InvOf[q]] /\ live'[q] <= reached[InvOf[q]]
                         /\ high'[q] <= reached[InvOf[q]]
    BY <1>0, <2>1, <2>10 DEF Taken, TypeOK
  <2>12. \A a \in Inv : peak'[a] <= Floor \/ peak'[a] <= reached[a]
    BY <2>8, <2>9 DEF Taken
  <2> QED BY <2>10, <2>11, <2>12 DEF Taken
<1>9. ASSUME NEW p \in Pkg, NEW m \in 0..TreeMax[p], TreeMoves(p, m) PROVE Taken'
  <2> DEFINE o == InvOf[p]
  <2>1. o \in Inv /\ m \in Nat /\ high[p] \in Nat /\ reached[o] \in Nat
    BY PackagesOwned DEF TypeOK
  <2>2. Max({high[p], m}) = (IF high[p] >= m THEN high[p] ELSE m)
        /\ Max({reached[o], m}) = (IF reached[o] >= m THEN reached[o] ELSE m)
    BY <2>1, MaxPair
  <2>3. /\ tree' = [tree EXCEPT ![p] = m] /\ high' = [high EXCEPT ![p] = Max({high[p], m})]
        /\ reached' = [reached EXCEPT ![o] = Max({reached[o], m})]
        /\ UNCHANGED <<treePeak, live, peak, reading>>
    BY <1>9 DEF TreeMoves, evidence
  <2>4. \A a \in Inv : reached[a] <= reached'[a] /\ reached'[a] \in Nat /\ reached[a] \in Nat
    BY <2>1, <2>2, <2>3 DEF TypeOK
  <2>5. m <= reached'[o] /\ high'[p] <= reached'[o]
    <3>1. reached'[o] = (IF reached[o] >= m THEN reached[o] ELSE m)
          /\ high'[p] = (IF high[p] >= m THEN high[p] ELSE m)
      BY <2>1, <2>2, <2>3 DEF TypeOK
    <3>2. high[p] <= reached[o]
      BY DEF Taken
    <3> QED BY <2>1, <3>1, <3>2
  <2>6. \A q \in Pkg : tree'[q] <= reached'[InvOf[q]] /\ high'[q] <= reached'[InvOf[q]]
    <3> TAKE q \in Pkg
    <3>1. CASE q = p
      BY <2>3, <2>5, <3>1 DEF TypeOK
    <3>2. CASE q # p
      <4>1. tree'[q] = tree[q] /\ high'[q] = high[q] /\ tree[q] \in Nat /\ high[q] \in Nat
        BY <2>3, <3>2 DEF TypeOK
      <4>2. tree[q] <= reached[InvOf[q]] /\ high[q] <= reached[InvOf[q]] /\ InvOf[q] \in Inv
        BY PackagesOwned DEF Taken
      <4> QED BY <2>4, <4>1, <4>2
    <3> QED BY <3>1, <3>2
  <2>7. \A q \in Pkg : /\ treePeak'[q] <= reached'[InvOf[q]] /\ live'[q] <= reached'[InvOf[q]]
                       /\ reading'.trees[q] <= reached'[InvOf[q]]
    <3> TAKE q \in Pkg
    <3>1. treePeak[q] \in Nat /\ live[q] \in Nat /\ reading.trees[q] \in Nat /\ InvOf[q] \in Inv
      BY PackagesOwned DEF TypeOK
    <3>2. treePeak[q] <= reached[InvOf[q]] /\ live[q] <= reached[InvOf[q]] /\ reading.trees[q] <= reached[InvOf[q]]
      BY DEF Taken
    <3>3. /\ reached[InvOf[q]] \in Nat /\ reached'[InvOf[q]] \in Nat
          /\ reached[InvOf[q]] <= reached'[InvOf[q]]
      BY <2>4, <3>1
    <3>4. treePeak'[q] = treePeak[q] /\ live'[q] = live[q] /\ reading' = reading
      BY <2>3
    <3> QED BY <3>1, <3>2, <3>3, <3>4
  <2>8. \A a \in Inv : peak'[a] <= Floor \/ peak'[a] <= reached'[a]
    <3> TAKE a \in Inv
    <3>1. peak[a] \in Nat /\ (peak[a] <= Floor \/ peak[a] <= reached[a])
      BY DEF TypeOK, Taken
    <3> QED BY <2>3, <2>4, <3>1
  <2> QED BY <2>6, <2>7, <2>8 DEF Taken
<1>10. ASSUME (\E m \in 0..PassMax : PassMoves(m)) \/ (\E m \in 0..OutsideMax : OutsideMoves(m))
              \/ UNCHANGED vars
       PROVE  Taken'
  BY <1>1, <1>10 DEF PassMoves, OutsideMoves, vars, evidence
<1>11. ASSUME NEW p \in Pkg, Asks(p) PROVE Taken'
  BY <1>3, <1>4, <1>11 DEF Asks
<1>12. ASSUME NEW p \in Pkg, Runs(p) PROVE Taken'
  BY <1>3, <1>5, <1>7, <1>8, <1>12 DEF Runs
<1>13. CASE \E p \in Pkg : Ask(p) \/ Dispose(p) \/ Asks(p) \/ Runs(p) \/ Exit(p)
  BY <1>3, <1>6, <1>11, <1>12, <1>13
<1> QED BY <1>2, <1>9, <1>10, <1>13 DEF Next

LEMMA InitTaken == Init => Taken
<1> SUFFICES ASSUME Init PROVE Taken
  OBVIOUS
<1>1. Floor \in Nat /\ InvOf \in [Pkg -> Inv]
  BY Units, PackagesOwned
<1> QED BY <1>1 DEF Init, Taken, NoReading

\* The estimate is bounded by what the invocation's trees took and the floor.
LEMMA Estimated == TypeOK /\ Taken => EstimateHonest
<1> SUFFICES ASSUME TypeOK, Taken, NEW a \in Inv
             PROVE  Estimate(a, treePeak) <= Max({Floor, reached[a]})
  BY DEF EstimateHonest
<1> DEFINE S == {Floor, peak[a]} \cup {treePeak[p] : p \in Registered(a)}
           B == Max({Floor, reached[a]})
<1>1. Floor \in Nat /\ reached[a] \in Nat /\ peak[a] \in Nat
  BY Units DEF TypeOK
<1>2. B \in Nat /\ Floor <= B /\ reached[a] <= B
  BY <1>1, MaxPair
<1>3. \A p \in Registered(a) : treePeak[p] \in Nat /\ treePeak[p] <= reached[a]
  BY DEF Registered, Of, Taken, TypeOK
<1> HIDE DEF B
<1>4. \A x \in S : x \in Nat /\ x <= B
  BY <1>1, <1>2, <1>3 DEF Taken
<1>5. S \in SUBSET (0..B) /\ S # {}
  BY <1>2, <1>4
<1> HIDE DEF S
<1>6. Max(S) \in S
  BY <1>2, <1>5, Largest
<1>7. Estimate(a, treePeak) = Max(S)
  BY DEF Estimate, S
<1> QED BY <1>4, <1>6, <1>7 DEF B

\* For any invocations, trees, marks inherited from the parent and readings, the
\* estimate never exceeds the floor or what the invocation's own process trees
\* took (estimate, reapedState, childProcessPeakBytes).
THEOREM EstimateIsHonest == Spec => []EstimateHonest
<1>1. TypeOK /\ Taken /\ [Next]_vars => Taken'
  BY NextTaken
<1> QED BY <1>1, InitTaken, Estimated, AdmissionTypes, PTL DEF Spec

-----------------------------------------------------------------------------
(* Refusals. *)

\* Only a package in a slot has a process, and a reading shared with a later
\* waiter shows memory of packages still in their slots only.
Fresh ==
  /\ \A p \in Pkg : proc[p] # "none" => pc[p] = "admitted"
  /\ \A p \in Pkg : tree[p] > 0 => proc[p] \in {"started", "live"}
  /\ \A p \in Pkg : pc[p] \in Asking \cup {"admitted"} => InvOf[p] \in member
  /\ cached => \A p \in Pkg : reading.trees[p] > 0 => pc[p] = "admitted"

LEMMA ReadingFresh ==
  ASSUME TypeOK, Fresh, NEW p \in Pkg, NEW r \in ReadingFor(p), NEW q \in Pkg, r.trees[q] > 0
  PROVE  pc[q] = "admitted"
<1>1. CASE r = reading /\ cached
  BY <1>1 DEF Fresh
<1>2. CASE r = NoReading
  BY <1>2 DEF NoReading
<1>3. CASE r = Snapshot
  BY <1>3 DEF Fresh, Snapshot
<1> QED BY <1>1, <1>2, <1>3 DEF ReadingFor, Readings

\* After a broadcast no reading is shared and no package has left its slot.
LEMMA WakeFresh ==
  ASSUME TypeOK, Fresh, Wake(pc), UNCHANGED <<proc, tree>>, member' = member
  PROVE  Fresh'
<1>1. pc' = [q \in Pkg |-> IF pc[q] = "waiting" THEN "woken" ELSE pc[q]] /\ cached' = FALSE
  BY DEF Wake
<1>2. \A q \in Pkg : pc[q] = "admitted" <=> pc'[q] = "admitted"
  BY <1>1
<1>3. \A q \in Pkg : pc'[q] \in Asking => pc[q] \in Asking
  BY <1>1 DEF Asking
<1> QED BY <1>1, <1>2, <1>3 DEF Fresh

\* A package that moves without leaving a slot.
LEMMA MoveFresh ==
  ASSUME TypeOK, Fresh, NEW p \in Pkg, NEW to, pc[p] # "admitted",
         pc' = [pc EXCEPT ![p] = to], to \in Asking \cup {"admitted"} => InvOf[p] \in member,
         UNCHANGED <<proc, tree, member>>,
         UNCHANGED <<cached, reading>> \/ \A q \in Pkg : reading'.trees[q] > 0 => pc[q] = "admitted"
  PROVE  Fresh'
<1>1. \A q \in Pkg : q # p => pc'[q] = pc[q]
  BY DEF TypeOK
<1>2. pc'[p] = to
  BY DEF TypeOK
<1> QED BY <1>1, <1>2 DEF Fresh

LEMMA NextFresh ==
  ASSUME TypeOK, Fresh, [Next]_vars
  PROVE  Fresh'
<1>1. ASSUME UNCHANGED <<proc, tree, pc, member, cached, reading>> PROVE Fresh'
  BY <1>1 DEF Fresh
<1>2. ASSUME NEW a \in Inv, Join(a) PROVE Fresh'
  BY <1>2 DEF Join, Fresh, memory
<1>3. ASSUME NEW a \in Inv, Expire(a) PROVE Fresh'
  BY <1>1, <1>3 DEF Expire, memory
<1>4. ASSUME NEW a \in Inv, Tell(a) PROVE Fresh'
  BY <1>4, WakeFresh DEF Tell, memory
<1>5. ASSUME NEW a \in Inv, Leave(a) PROVE Fresh'
  <2>1. Wake(pc) /\ UNCHANGED <<proc, tree>> /\ member' = member \ {a}
    BY <1>5 DEF Leave, memory
  <2>2. pc' = [q \in Pkg |-> IF pc[q] = "waiting" THEN "woken" ELSE pc[q]] /\ cached' = FALSE
    BY <2>1 DEF Wake
  <2>3. \A q \in Pkg : InvOf[q] = a => pc[q] \in Over \cup {"new"}
    BY <1>5 DEF Leave, Of
  <2>4. \A q \in Pkg : pc'[q] \in Asking \cup {"admitted"} => pc[q] \in Asking \cup {"admitted"} /\ InvOf[q] # a
    BY <2>2, <2>3 DEF Asking, Over
  <2>5. \A q \in Pkg : pc[q] = "admitted" => pc'[q] = "admitted"
    BY <2>2
  <2> QED BY <2>1, <2>2, <2>4, <2>5 DEF Fresh
<1>6. ASSUME NEW p \in Pkg, Ask(p) \/ Queue(p) \/ GiveUp(p) PROVE Fresh'
  <2>1. PICK go \in {"ask", "waiting", "ended"} :
          pc' = [pc EXCEPT ![p] = go] /\ (go # "ended" => InvOf[p] \in member)
    BY <1>6 DEF Ask, Queue, GiveUp, Fresh, Asking
  <2>2. pc[p] # "admitted" /\ UNCHANGED <<proc, tree, member, cached, reading>>
    BY <1>6 DEF Ask, Queue, GiveUp, memory
  <2>3. go \in Asking \cup {"admitted"} => InvOf[p] \in member
    BY <2>1 DEF Asking
  <2> QED BY <2>1, <2>2, <2>3, MoveFresh
<1>7. ASSUME NEW p \in Pkg, Dispose(p) PROVE Fresh'
  <2>1. PICK go \in {"refused", "ended"} : pc' = [pc EXCEPT ![p] = go]
    BY <1>7 DEF Dispose
  <2>2. pc[p] # "admitted" /\ UNCHANGED <<proc, tree, member, cached, reading>>
    BY <1>7 DEF Dispose, memory
  <2>3. go \notin Asking \cup {"admitted"}
    BY <2>1 DEF Asking
  <2> QED BY <2>1, <2>2, <2>3, MoveFresh
<1>8. ASSUME NEW p \in Pkg, NEW r \in ReadingFor(p), Admit(p, r) \/ Refuse(p, r) \/ Hold(p, r)
      PROVE  Fresh'
  <2>1. Judge(p, r)
    BY <1>8 DEF Admit, Refuse, Hold
  <2>2. UNCHANGED <<proc, tree, member>> /\ reading' = r /\ pc[p] \in {"ask", "woken"}
    BY <2>1 DEF Judge, memory
  <2>3. InvOf[p] \in member
    BY <2>2 DEF Fresh, Asking
  <2>4. PICK go : pc' = [pc EXCEPT ![p] = go]
    BY <1>8 DEF Admit, Refuse, Hold
  <2>5. \A q \in Pkg : reading'.trees[q] > 0 => pc[q] = "admitted"
    BY <2>2, ReadingFresh
  <2> QED BY <2>2, <2>3, <2>4, <2>5, MoveFresh
<1>9. ASSUME NEW p \in Pkg, Spawn(p) \/ Register(p) \/ Fold(p) PROVE Fresh'
  <2>1. UNCHANGED <<tree, pc, member, cached, reading>>
    BY <1>9 DEF Spawn, Register, Fold, memory
  <2>2. PICK to \in {"started", "live", "folding"} : proc' = [proc EXCEPT ![p] = to]
    BY <1>9 DEF Spawn, Register, Fold
  <2>3. pc[p] = "admitted"
    BY <1>9 DEF Spawn, Register, Fold, Fresh
  <2>4. tree[p] > 0 => to \in {"started", "live"}
    BY <1>9, <2>2 DEF Spawn, Register, Fold, Fresh, TypeOK
  <2> QED BY <2>1, <2>2, <2>3, <2>4 DEF Fresh, TypeOK
<1>10. ASSUME NEW p \in Pkg, Exit(p) PROVE Fresh'
  <2>1. /\ UNCHANGED <<pc, member, cached, reading>> /\ proc' = [proc EXCEPT ![p] = "waited"]
        /\ tree' = [tree EXCEPT ![p] = 0] /\ proc[p] = "live"
    BY <1>10 DEF Exit
  <2>2. \A q \in Pkg : tree'[q] > 0 => q # p /\ tree[q] > 0
    BY <2>1 DEF TypeOK
  <2>3. \A q \in Pkg : proc'[q] # "none" => proc[q] # "none"
    BY <2>1 DEF TypeOK
  <2>4. \A q \in Pkg : q # p => proc'[q] = proc[q]
    BY <2>1 DEF TypeOK
  <2> QED BY <2>1, <2>2, <2>3, <2>4 DEF Fresh
<1>11. ASSUME NEW p \in Pkg, Reaped(p) PROVE Fresh'
  <2>1. Wake(pc) /\ UNCHANGED <<tree, member>> /\ proc' = [proc EXCEPT ![p] = "none"] /\ proc[p] = "folding"
    BY <1>11 DEF Reaped, memory
  <2>2. pc' = [q \in Pkg |-> IF pc[q] = "waiting" THEN "woken" ELSE pc[q]] /\ cached' = FALSE
    BY <2>1 DEF Wake
  <2>3. \A q \in Pkg : (pc[q] = "admitted" <=> pc'[q] = "admitted") /\ (pc'[q] \in Asking => pc[q] \in Asking)
    BY <2>2 DEF Asking
  <2>4. \A q \in Pkg : q # p => proc'[q] = proc[q]
    BY <2>1 DEF TypeOK
  <2>5. proc'[p] = "none" /\ ~ (tree[p] > 0)
    BY <2>1 DEF TypeOK, Fresh
  <2> QED BY <2>1, <2>2, <2>3, <2>4, <2>5 DEF Fresh
<1>12. ASSUME NEW p \in Pkg, Release(p) PROVE Fresh'
  <2>1. pc[p] = "admitted" /\ proc[p] = "none" /\ UNCHANGED <<tree, member, proc>>
    BY <1>12 DEF Release, memory
  <2>2. pc' = [q \in Pkg |-> IF [pc EXCEPT ![p] = "done"][q] = "waiting" THEN "woken"
                             ELSE [pc EXCEPT ![p] = "done"][q]] /\ cached' = FALSE
    BY <1>12 DEF Release, Wake
  <2>3. \A q \in Pkg : q # p => (pc[q] = "admitted" <=> pc'[q] = "admitted")
                                /\ (pc'[q] \in Asking => pc[q] \in Asking)
    BY <2>2 DEF Asking, TypeOK
  <2>4. pc'[p] = "done"
    BY <2>2 DEF TypeOK
  <2>5. pc'[p] \notin Asking \cup {"admitted"}
    BY <2>4 DEF Asking
  <2> QED BY <2>1, <2>2, <2>3, <2>5 DEF Fresh
<1>13. ASSUME NEW p \in Pkg, NEW m \in 0..TreeMax[p], TreeMoves(p, m) PROVE Fresh'
  <2>1. /\ UNCHANGED <<pc, proc, member, cached, reading>> /\ proc[p] \in {"started", "live"}
        /\ tree' = [tree EXCEPT ![p] = m]
    BY <1>13 DEF TreeMoves
  <2>2. \A q \in Pkg : q # p => tree'[q] = tree[q]
    BY <2>1 DEF TypeOK
  <2> QED BY <2>1, <2>2 DEF Fresh
<1>14. ASSUME (\E m \in 0..PassMax : PassMoves(m)) \/ (\E m \in 0..OutsideMax : OutsideMoves(m))
              \/ UNCHANGED vars
       PROVE  Fresh'
  BY <1>1, <1>14 DEF PassMoves, OutsideMoves, vars
<1>15. ASSUME NEW p \in Pkg, Asks(p) PROVE Fresh'
  BY <1>6, <1>8, <1>15 DEF Asks
<1>16. ASSUME NEW p \in Pkg, Runs(p) PROVE Fresh'
  BY <1>9, <1>11, <1>12, <1>16 DEF Runs
<1>17. CASE \E p \in Pkg : Ask(p) \/ Dispose(p) \/ Asks(p) \/ Runs(p) \/ Exit(p)
  BY <1>6, <1>7, <1>10, <1>15, <1>16, <1>17
<1>18. CASE \E a \in Inv : Join(a) \/ Expire(a) \/ Tell(a) \/ Leave(a)
  BY <1>2, <1>3, <1>4, <1>5, <1>18
<1> QED BY <1>13, <1>14, <1>17, <1>18 DEF Next

LEMMA InitFresh == Init => Fresh
BY DEF Init, Fresh, Asking, NoReading

\* The step that refuses a package reads no memory of any other.
LEMMA RefusalFresh ==
  ASSUME IInv, TypeOK, Fresh, [Next]_vars, NEW p \in Pkg, pc[p] \in Asking, pc'[p] = "refused"
  PROVE  \A q \in Pkg : reading'.trees[q] = 0
<1>1. ASSUME NEW r \in ReadingFor(p), Refuse(p, r) PROVE \A q \in Pkg : reading'.trees[q] = 0
  <2>1. reading' = r /\ running[InvOf[p]] = 0 /\ ~OthersRunning(InvOf[p])
    BY <1>1 DEF Refuse, Judge
  <2>2. \A b \in member : b \in Inv /\ running[b] = 0
    BY <2>1 DEF OthersRunning, TypeOK
  <2>3. \A b \in member : Admitted(b) = {}
    <3> TAKE b \in member
    <3>1. Cardinality(Admitted(b)) = 0 /\ IsFiniteSet(Admitted(b))
      BY <2>2, AdmittedFinite DEF IInv, SlotsCounted
    <3> QED BY <3>1, FS_EmptySet
  <2>4. \A q \in Pkg : pc[q] # "admitted"
    BY <2>3 DEF Admitted, Of, Fresh
  <2>5. \A q \in Pkg : ~ (r.trees[q] > 0)
    BY <2>4, ReadingFresh
  <2>6. \A q \in Pkg : r.trees[q] \in Nat
    BY ReadingTyped DEF Reads
  <2> QED BY <2>1, <2>5, <2>6
<1>2. ASSUME ~ \E r \in ReadingFor(p) : Refuse(p, r) PROVE FALSE
  <2>0. pc[p] # "refused" /\ pc[p] # "new" /\ pc[p] # "admitted"
    BY DEF Asking
  <2>1. ASSUME Wake(pc) PROVE FALSE
    BY <2>0, <2>1 DEF Wake
  <2>2. ASSUME NEW q \in Pkg, Asks(q) PROVE FALSE
    <3>1. ASSUME q # p, NEW to, pc' = [pc EXCEPT ![q] = to] PROVE FALSE
      BY <2>0, <3>1 DEF TypeOK
    <3>2. CASE q # p
      BY <2>2, <3>1, <3>2 DEF Asks, Admit, Refuse, Hold, Queue, GiveUp
    <3>3. CASE q = p
      BY <1>2, <2>2, <3>3 DEF Asks, Admit, Hold, Queue, GiveUp, TypeOK
    <3> QED BY <3>2, <3>3
  <2>3. ASSUME NEW q \in Pkg, Ask(q) \/ Dispose(q) PROVE FALSE
    <3>1. q # p
      BY <2>0, <2>3 DEF Ask, Dispose
    <3> QED BY <2>0, <2>3, <3>1 DEF Ask, Dispose, TypeOK
  <2>4. ASSUME NEW q \in Pkg, Runs(q) \/ Exit(q) PROVE FALSE
    <3>1. CASE Release(q)
      BY <2>0, <3>1 DEF Release, Wake, TypeOK
    <3> QED BY <2>0, <2>1, <2>4, <3>1 DEF Runs, Spawn, Register, Fold, Reaped, Exit
  <2>5. ASSUME NEW a \in Inv, Join(a) \/ Expire(a) \/ Tell(a) \/ Leave(a) PROVE FALSE
    BY <2>0, <2>1, <2>5 DEF Join, Expire, Tell, Leave
  <2>6. ASSUME \/ \E q \in Pkg : \E m \in 0..TreeMax[q] : TreeMoves(q, m)
               \/ \E m \in 0..PassMax : PassMoves(m)
               \/ \E m \in 0..OutsideMax : OutsideMoves(m)
               \/ UNCHANGED vars
        PROVE  FALSE
    BY <2>0, <2>6 DEF TreeMoves, PassMoves, OutsideMoves, vars
  <2> QED BY <2>2, <2>3, <2>4, <2>5, <2>6 DEF Next
<1> QED BY <1>1, <1>2

\* Whatever is shared, spawned, reaped or released in between, a package is
\* refused only on a reading that shows none of the pass's process trees
\* (admit over readingFor and the wake generations).
THEOREM NoRefusalOnStaleReading == Spec => NoStaleRefusal
<1>1. TypeOK /\ Fresh /\ [Next]_vars => Fresh'
  BY NextFresh
<1>2. IInv /\ TypeOK /\ Fresh /\ [Next]_vars
        => [\A p \in Pkg : pc[p] \in Asking /\ pc'[p] = "refused" => \A q \in Pkg : reading'.trees[q] = 0]_vars
  BY RefusalFresh
<1> QED BY <1>1, <1>2, InitFresh, InitIInv, NextIInv, AdmissionTypes, PTL DEF Spec, NoStaleRefusal

-----------------------------------------------------------------------------
(* Room. *)

InSlot == {p \in Pkg : pc[p] = "admitted"}
Demand == Floor * Cardinality(InSlot)

\* The premises of NoOvercommit that never come back once they are lost.
Calm == FALSE \notin Readable /\ (\A a \in Inv : reached[a] <= Floor) /\ ~beyond

\* Whatever is noted of the pass is within what it may grow to, and is of an
\* invocation that has asked.
PassNotes ==
  /\ pass <= PassMax /\ reading.pass <= PassMax /\ \A a \in Inv : passPeak[a] <= PassMax
  /\ \A a \in Inv : (\A p \in Of(a) : pc[p] = "new") => passPeak[a] = 0

\* A reading with room accounts for the host: other programs have not taken more
\* since.
Accounted ==
  /\ reading.free \in Nat
  /\ Calm /\ reading.ok /\ reading.free > 0 =>
       outside + reading.pass + Total(reading.trees, Pkg) + reading.free <= Host

\* A reading a woken waiter may share was noted by a judgement; if it admitted
\* nobody it has no room, and if a slot is taken the pass has not outgrown the
\* marks since.
Noticed ==
  Calm /\ cached =>
    /\ (\E p \in Pkg : pc[p] = "woken") => reading.ok
    /\ reading.ok => \E a \in member : reading.pass <= passPeak[a]
    /\ reading.ok /\ InSlot = {} =>
         \E a \in member : reading.free + reading.pass < Floor + passPeak[a]
    /\ reading.ok /\ InSlot # {} => \E a \in member : pass <= passPeak[a]

\* The host holds every package in a slot at the estimate, beside the pass grown
\* to any mark.
Covered ==
  Calm /\ InSlot # {} =>
    /\ outside + pass + Demand <= Host
    /\ \A a \in member : outside + passPeak[a] + Demand <= Host

Memory == PassNotes /\ Accounted /\ Noticed /\ Covered
Ground == IInv /\ TypeOK /\ Taken /\ Fresh

LEMMA Scaled ==
  \A F, m, n \in Nat : /\ F * m \in Nat /\ m * F = F * m /\ F * (m + n) = F * m + F * n
                       /\ m <= n => F * m <= F * n
<1> SUFFICES ASSUME NEW F \in Nat, NEW m \in Nat, NEW n \in Nat
             PROVE  /\ F * m \in Nat /\ m * F = F * m /\ F * (m + n) = F * m + F * n
                    /\ m <= n => F * m <= F * n
  OBVIOUS
<1>1. F * m \in Nat /\ m * F = F * m /\ F * (m + n) = F * m + F * n
  OBVIOUS
<1>2. ASSUME m <= n PROVE F * m <= F * n
  <2>1. PICK k \in Nat : n = m + k
    BY <1>2, n - m \in Nat
  <2>2. F * n = F * m + F * k /\ F * m \in Nat /\ F * k \in Nat
    BY <2>1
  <2> QED BY <2>2
<1> QED BY <1>1, <1>2

LEMMA SlotsFinite == IsFiniteSet(InSlot) /\ Cardinality(InSlot) \in Nat /\ Demand \in Nat
<1>1. InSlot \in SUBSET Pkg
  BY DEF InSlot
<1>2. IsFiniteSet(InSlot) /\ Cardinality(InSlot) \in Nat
  BY <1>1, Finite, FS_Subset, FS_CardinalityType
<1> QED BY <1>2, Units, Scaled DEF Demand

\* What a judgement reads accounts for the host, and shows no tree above the floor.
LEMMA JudgedOn ==
  ASSUME Ground, Memory, Calm, NEW p \in Pkg, NEW r \in ReadingFor(p), pc[p] \in {"ask", "woken"}
  PROVE  /\ r.ok /\ Reads(r) /\ r.free \in Nat /\ r.pass <= PassMax
         /\ r.free > 0 => outside + r.pass + Total(r.trees, Pkg) + r.free <= Host
         /\ \A q \in Pkg : r.trees[q] \in Nat /\ r.trees[q] <= Floor
<1>1. Reads(r) /\ \A q \in Pkg : r.trees[q] \in Nat /\ r.trees[q] <= Floor
  <2>1. Reads(r)
    BY ReadingTyped DEF Ground
  <2>2. ASSUME NEW q \in Pkg PROVE r.trees[q] \in Nat /\ r.trees[q] <= Floor
    <3>1. r.trees[q] <= reached[InvOf[q]] /\ InvOf[q] \in Inv
      BY ReadingTaken, PackagesOwned DEF Ground
    <3>2. reached[InvOf[q]] \in Nat /\ reached[InvOf[q]] <= Floor /\ Floor \in Nat /\ r.trees[q] \in Nat
      BY <2>1, <3>1, Units DEF Calm, Ground, TypeOK, Reads
    <3> QED BY <3>1, <3>2
  <2> QED BY <2>1, <2>2
<1>2. CASE r \in Readings
  <2>1. r = Snapshot
    BY <1>2 DEF Readings, Calm
  <2>2. Held \in Nat
    BY Finite, TotalNat DEF Held, Ground, TypeOK
  <2>3. pass \in Nat /\ outside \in Nat /\ Host \in Nat /\ pass <= PassMax
    BY Units DEF Ground, TypeOK, Memory, PassNotes
  <2>4. /\ r.ok = TRUE /\ r.pass = pass /\ Total(r.trees, Pkg) = Held
        /\ r.free = IF Host > outside + pass + Held THEN Host - (outside + pass + Held) ELSE 0
    BY <2>1 DEF Snapshot, Held, Less
  <2>5. r.free \in Nat /\ (r.free > 0 => outside + r.pass + Total(r.trees, Pkg) + r.free <= Host)
    <3> HIDE DEF Held
    <3> QED BY <2>2, <2>3, <2>4
  <2> QED BY <1>1, <2>3, <2>4, <2>5
<1>3. CASE r \notin Readings
  <2>1. r = reading /\ cached /\ pc[p] = "woken"
    BY <1>3 DEF ReadingFor
  <2>2. reading.ok
    BY <2>1 DEF Memory, Noticed
  <2> QED BY <1>1, <2>1, <2>2 DEF Memory, Accounted, PassNotes
<1> QED BY <1>2, <1>3

\* In calm every package is priced at the floor.
LEMMA AtFloor ==
  ASSUME Ground, Calm, NEW r, Reads(r), \A q \in Pkg : r.trees[q] <= Floor, NEW b \in Inv
  PROVE  Estimate(b, Noted(r)) = Floor
<1> DEFINE S == {Floor, peak[b]} \cup {Noted(r)[p] : p \in Registered(b)}
<1>1. Floor \in Nat /\ peak[b] \in Nat /\ reached[b] \in Nat /\ reached[b] <= Floor
  BY Units DEF Ground, TypeOK, Calm
<1>2. peak[b] <= Floor
  BY <1>1 DEF Ground, Taken
<1>3. ASSUME NEW q \in Registered(b) PROVE Noted(r)[q] \in Nat /\ Noted(r)[q] <= Floor
  <2>1. q \in Pkg /\ InvOf[q] = b
    BY DEF Registered, Of
  <2>2. Noted(r)[q] \in {r.trees[q], treePeak[q]} /\ r.trees[q] \in Nat /\ treePeak[q] \in Nat
    BY <2>1 DEF Noted, Ground, TypeOK, Reads
  <2>3. treePeak[q] <= reached[b]
    BY <2>1 DEF Ground, Taken
  <2> QED BY <1>1, <2>1, <2>2, <2>3
<1>4. S \in SUBSET (0..Floor) /\ S # {} /\ Floor \in S
  BY <1>1, <1>2, <1>3
<1> HIDE DEF S
<1>5. Max(S) \in S /\ Floor <= Max(S)
  BY <1>1, <1>4, Largest
<1>6. Max(S) = Floor
  <2>1. Max(S) \in 0..Floor
    BY <1>4, <1>5
  <2> QED BY <1>1, <1>5, <2>1
<1> QED BY <1>6 DEF Estimate, S

\* What an invocation reserves, with what its trees show, is the estimate of each
\* of its packages in a slot, spawned or not.
LEMMA Reserved ==
  ASSUME Ground, Calm, NEW r, Reads(r), \A q \in Pkg : r.trees[q] <= Floor, NEW b \in Inv
  PROVE  /\ Reservation(b, r) \in Nat
         /\ Reservation(b, r) + Total(r.trees, Of(b)) >= Floor * Cardinality(Admitted(b))
         /\ Admitted(b) = {} => Reservation(b, r) = 0
<1> DEFINE G == Registered(b)
           less == [p \in Pkg |-> Less(Floor, r.trees[p])]
           n == Cardinality(G)
           m == Cardinality(Admitted(b))
           k == m - n
<1>1. Estimate(b, Noted(r)) = Floor
  BY AtFloor
<1>2. Floor \in Nat /\ \A q \in Pkg : r.trees[q] \in Nat
  BY Units DEF Reads
<1>3. /\ Of(b) \in SUBSET Pkg /\ G \in SUBSET Of(b) /\ G \in SUBSET Admitted(b)
      /\ Admitted(b) \in SUBSET Pkg
  BY DEF Of, Registered, Admitted, Ground, Fresh, Tracked
<1>4. IsFiniteSet(Of(b)) /\ IsFiniteSet(G) /\ IsFiniteSet(Of(b) \ G) /\ IsFiniteSet(Admitted(b))
  BY <1>3, Finite, FS_Subset
<1>5. n \in Nat /\ m \in Nat /\ n <= m /\ k \in Nat /\ running[b] = m
  <2>1. n \in Nat /\ m \in Nat /\ n <= m
    BY <1>3, <1>4, FS_Subset, FS_CardinalityType
  <2> QED BY <2>1 DEF Ground, IInv, SlotsCounted
<1>6. Reservation(b, r) = Total(less, G) + Less(running[b], n) * Floor
  BY <1>1 DEF Reservation
<1>7. \A q \in Pkg : less[q] \in Nat /\ less[q] + r.trees[q] >= Floor
  BY <1>2 DEF Less
<1> HIDE DEF less
<1>8. Total(less, G) \in Nat /\ Total(r.trees, G) \in Nat /\ Total(r.trees, Of(b) \ G) \in Nat
  BY <1>2, <1>3, <1>4, <1>7, TotalNat
<1>9. Total(less, G) + Total(r.trees, G) >= Floor * n
  BY <1>2, <1>3, <1>4, <1>7, TotalAtLeast
<1>10. Total(r.trees, Of(b)) = Total(r.trees, G) + Total(r.trees, Of(b) \ G)
  <2>1. Of(b) = G \cup (Of(b) \ G) /\ G \cap (Of(b) \ G) = {}
    BY <1>3
  <2>2. \A x \in G \cup (Of(b) \ G) : r.trees[x] \in Nat
    BY <1>2, <1>3
  <2> QED BY <1>4, <2>1, <2>2, TotalUnion
<1>11. Less(running[b], n) = k
  <2> HIDE DEF n, m
  <2> QED BY <1>5 DEF Less
<1>12. k * Floor \in Nat /\ Floor * m = Floor * n + k * Floor
  <2>1. m = n + k
    BY <1>5
  <2> HIDE DEF n, m, k
  <2> QED BY <1>2, <1>5, <2>1, Scaled
<1> HIDE DEF n, m, k, G
<1>13. /\ Reservation(b, r) \in Nat
       /\ Reservation(b, r) + Total(r.trees, Of(b)) >= Floor * m
  <2>1. Floor * n \in Nat
    BY <1>2, <1>5, Scaled
  <2> QED BY <1>6, <1>8, <1>9, <1>10, <1>11, <1>12, <2>1
<1>14. ASSUME Admitted(b) = {} PROVE Reservation(b, r) = 0
  <2>1. G = {} /\ m = 0 /\ n = 0
    BY <1>3, <1>14, FS_EmptySet DEF m, n
  <2>2. k * Floor = 0
    BY <1>2, <2>1 DEF k
  <2>3. Total(less, G) = 0
    BY <2>1, TotalEmpty
  <2> QED BY <1>6, <1>11, <2>2, <2>3
<1> QED BY <1>13, <1>14 DEF m

\* ... and so do the invocations of the gate together.
LEMMA AllReserved ==
  ASSUME Ground, Calm, NEW r, Reads(r), \A q \in Pkg : r.trees[q] <= Floor
  PROVE  LET R == [b \in Inv |-> Reservation(b, r)] IN
         /\ Total(R, member) \in Nat /\ Total(r.trees, Pkg) \in Nat
         /\ Total(R, member) + Total(r.trees, Pkg) >= Demand
         /\ InSlot = {} => Total(R, member) = 0
<1> DEFINE R == [b \in Inv |-> Reservation(b, r)]
           t == r.trees
           At(M) == {p \in Pkg : InvOf[p] \in M}
           Slots(M) == At(M) \cap InSlot
           Short(M) == ~ (Total(R, M) + Total(t, At(M)) >= Floor * Cardinality(Slots(M)))
           C == {M \in SUBSET Inv : Short(M)}
<1>0. \A q \in Pkg : t[q] \in Nat
  BY DEF Reads
<1>1. \A b \in Inv : R[b] \in Nat
  BY Reserved
<1>2. \A M \in SUBSET Inv : /\ IsFiniteSet(M) /\ IsFiniteSet(At(M)) /\ IsFiniteSet(Slots(M))
                            /\ Total(R, M) \in Nat /\ Total(t, At(M)) \in Nat
                            /\ Cardinality(Slots(M)) \in Nat
  <2> TAKE M \in SUBSET Inv
  <2>1. IsFiniteSet(M) /\ IsFiniteSet(At(M)) /\ IsFiniteSet(Slots(M))
    BY Finite, FS_Subset, At(M) \in SUBSET Pkg, Slots(M) \in SUBSET Pkg
  <2>2. \A b \in M : R[b] \in Nat
    BY <1>1
  <2>3. \A q \in At(M) : t[q] \in Nat
    BY <1>0
  <2> HIDE DEF R, At, Slots, t
  <2> QED BY <2>1, <2>2, <2>3, TotalNat, FS_CardinalityType
<1>3. C = {}
  <2> SUFFICES ASSUME C # {} PROVE FALSE
    OBVIOUS
  <2>1. PICK M \in C : \A N \in C : N \subseteq M => N = M
    <3>1. \A N \in C : IsFiniteSet(N)
      BY <1>2
    <3> HIDE DEF C
    <3> QED BY <3>1, Minimal
  <2>2. M # {}
    <3> SUFFICES ASSUME M = {} PROVE FALSE
      OBVIOUS
    <3>1. Total(R, M) = 0 /\ Total(t, At(M)) \in Nat
      BY <1>2, TotalEmpty
    <3>2. Slots(M) = {}
      OBVIOUS
    <3>3. Cardinality(Slots(M)) = 0
      BY <3>2, FS_EmptySet
    <3>4. Floor * Cardinality(Slots(M)) = 0
      BY <3>3, Units, Times
    <3>5. Short(M)
      BY <2>1
    <3> HIDE DEF R, At, Slots
    <3> QED BY <3>1, <3>4, <3>5
  <2>3. PICK b \in M : TRUE
    BY <2>2
  <2> DEFINE N == M \ {b}
  <2>4. b \in Inv /\ M \in SUBSET Inv /\ N \in SUBSET Inv /\ N \notin C
    BY <2>1, <2>3
  <2>5. Total(R, M) = R[b] + Total(R, N)
    <3>1. IsFiniteSet(M) /\ \A x \in M : R[x] \in Nat
      BY <1>1, <1>2, <2>4
    <3> HIDE DEF R
    <3> QED BY <2>3, <3>1, TotalAny
  <2>6. Total(t, At(M)) = Total(t, At(N)) + Total(t, Of(b)) /\ Total(t, Of(b)) \in Nat
    <3>1. At(M) = At(N) \cup Of(b) /\ At(N) \cap Of(b) = {} /\ Of(b) = At({b})
      BY <2>3 DEF Of
    <3>2. IsFiniteSet(At(N)) /\ IsFiniteSet(Of(b)) /\ Total(t, Of(b)) \in Nat
      BY <1>2, <2>4, <3>1
    <3>3. \A q \in At(N) \cup Of(b) : t[q] \in Nat
      BY <1>0 DEF Of
    <3> HIDE DEF At, t, N
    <3>4. Total(t, At(N) \cup Of(b)) = Total(t, At(N)) + Total(t, Of(b))
      BY <3>1, <3>2, <3>3, TotalUnion
    <3> QED BY <3>1, <3>2, <3>4
  <2>7. Cardinality(Slots(M)) = Cardinality(Slots(N)) + Cardinality(Admitted(b))
        /\ Cardinality(Admitted(b)) \in Nat
    <3>1. Slots(M) = Slots(N) \cup Admitted(b) /\ Slots(N) \cap Admitted(b) = {}
      BY <2>3 DEF Admitted, Of, InSlot
    <3>2. IsFiniteSet(Slots(N)) /\ IsFiniteSet(Admitted(b))
      BY <1>2, <2>4, AdmittedFinite
    <3>3. Cardinality(Slots(N)) \in Nat /\ Cardinality(Admitted(b)) \in Nat
      BY <3>2, FS_CardinalityType
    <3>4. Cardinality(Slots(N) \cup Admitted(b))
            = Cardinality(Slots(N)) + Cardinality(Admitted(b)) - Cardinality(Slots(N) \cap Admitted(b))
      <4> HIDE DEF Slots, N
      <4> QED BY <3>2, FS_Union
    <3>5. Cardinality(Slots(N) \cap Admitted(b)) = 0
      BY <3>1, FS_EmptySet
    <3> HIDE DEF Slots, N
    <3> QED BY <3>1, <3>3, <3>4, <3>5
  <2>8. R[b] + Total(t, Of(b)) >= Floor * Cardinality(Admitted(b))
    BY <2>4, Reserved
  <2>9. Total(R, N) + Total(t, At(N)) >= Floor * Cardinality(Slots(N))
    BY <2>4
  <2>10. Floor * Cardinality(Slots(M))
           = Floor * Cardinality(Slots(N)) + Floor * Cardinality(Admitted(b))
         /\ Floor * Cardinality(Slots(N)) \in Nat /\ Floor * Cardinality(Admitted(b)) \in Nat
    <3>1. Floor \in Nat /\ Cardinality(Slots(N)) \in Nat
      BY <1>2, <2>4, Units
    <3> HIDE DEF Slots, N
    <3> QED BY <2>7, <3>1, Scaled
  <2>11. R[b] \in Nat /\ Total(R, N) \in Nat /\ Total(t, At(N)) \in Nat
    BY <1>1, <1>2, <2>4
  <2>12. Short(M)
    BY <2>1
  <2> HIDE DEF R, At, Slots, N, t
  <2> QED BY <2>5, <2>6, <2>8, <2>9, <2>10, <2>11, <2>12
<1>4. member \in SUBSET Inv
  BY DEF Ground, TypeOK
<1>5. Total(R, member) + Total(t, At(member)) >= Floor * Cardinality(Slots(member))
  BY <1>3, <1>4
<1>6. Slots(member) = InSlot
  BY DEF InSlot, Ground, Fresh
<1>7. Total(t, Pkg) = Total(t, At(member)) + Total(t, Pkg \ At(member))
      /\ Total(t, Pkg \ At(member)) \in Nat
  <2>1. Pkg = At(member) \cup (Pkg \ At(member)) /\ At(member) \cap (Pkg \ At(member)) = {}
    OBVIOUS
  <2>2. IsFiniteSet(At(member)) /\ IsFiniteSet(Pkg \ At(member))
    BY <1>2, <1>4, Finite, FS_Subset
  <2>3. Total(t, Pkg \ At(member)) \in Nat
    BY <1>0, <2>2, TotalNat
  <2> HIDE DEF At, t
  <2> QED BY <1>0, <2>1, <2>2, <2>3, TotalUnion
<1>8. Total(R, member) \in Nat /\ Total(t, At(member)) \in Nat
  BY <1>2, <1>4
<1>9. Demand \in Nat
  BY SlotsFinite
<1>10. Total(R, member) + Total(t, Pkg) >= Demand /\ Total(t, Pkg) \in Nat
  <2> HIDE DEF R, At, Slots, t
  <2> QED BY <1>5, <1>6, <1>7, <1>8, <1>9 DEF Demand
<1>11. ASSUME InSlot = {} PROVE Total(R, member) = 0
  <2>1. \A b \in member : R[b] = 0
    BY <1>4, <1>11, Reserved DEF Admitted, Of, InSlot
  <2>2. IsFiniteSet(member) /\ Cardinality(member) \in Nat
    BY <1>2, <1>4, FS_CardinalityType
  <2>3. Total(R, member) <= 0 * Cardinality(member)
    <3>1. \A b \in member : R[b] \in Nat /\ R[b] <= 0
      BY <2>1
    <3> HIDE DEF R
    <3> QED BY <2>2, <3>1, TotalAtMost
  <2> HIDE DEF R
  <2> QED BY <1>8, <2>2, <2>3
<1> QED BY <1>8, <1>10, <1>11

\* The largest mark of the pass among the members, with what a judgement of a read.
Top(a, r) == Max({PassNoted(a, r)[b] : b \in member})

LEMMA TopMark ==
  ASSUME Ground, Memory, NEW a \in member, NEW r, Reads(r), r.pass <= PassMax
  PROVE  /\ Top(a, r) \in Nat /\ r.pass <= Top(a, r) /\ r.pass <= PassNoted(a, r)[a]
         /\ \E b \in member : Top(a, r) = PassNoted(a, r)[b]
         /\ \A b \in member :
              /\ PassNoted(a, r)[b] \in Nat /\ PassNoted(a, r)[b] <= Top(a, r)
              /\ PassNoted(a, r)[b] = passPeak[b] \/ PassNoted(a, r)[b] = r.pass
              /\ passPeak[b] <= PassNoted(a, r)[b]
<1> DEFINE N == PassNoted(a, r)
           S == {N[b] : b \in member}
<1>1. member \subseteq Inv /\ r.pass \in Nat /\ PassMax \in Nat
      /\ \A b \in Inv : passPeak[b] \in Nat /\ passPeak[b] <= PassMax
  BY Units DEF Ground, TypeOK, Reads, Memory, PassNotes
<1>2. Max({passPeak[a], r.pass}) = IF passPeak[a] >= r.pass THEN passPeak[a] ELSE r.pass
  BY <1>1, MaxPair
<1>3. \A b \in member : N[b] = IF b = a /\ r.pass > passPeak[a] THEN r.pass ELSE passPeak[b]
  BY <1>1, <1>2 DEF PassNoted, Ground, TypeOK
<1> HIDE DEF N
<1>4. \A b \in member : /\ N[b] \in 0..PassMax /\ (N[b] = passPeak[b] \/ N[b] = r.pass)
                        /\ passPeak[b] <= N[b]
  BY <1>1, <1>3
<1>5. S \in SUBSET (0..PassMax) /\ S # {}
  BY <1>4
<1>6. Max(S) \in S /\ \A x \in S : x <= Max(S)
  <2> HIDE DEF S
  <2> QED BY <1>1, <1>5, Largest
<1>7. r.pass <= N[a]
  BY <1>1, <1>3
<1> HIDE DEF S
<1>8. Max(S) \in Nat /\ r.pass <= Max(S)
  <2>1. N[a] \in S
    BY DEF S
  <2>2. Max(S) \in 0..PassMax /\ N[a] <= Max(S) /\ N[a] \in 0..PassMax
    BY <1>4, <1>5, <1>6, <2>1
  <2> QED BY <1>1, <1>7, <2>2
<1>9. (\E b \in member : Max(S) = N[b]) /\ \A b \in member : N[b] <= Max(S)
  <2>1. \A b \in member : N[b] \in S
    BY DEF S
  <2>2. \A x \in S : \E b \in member : x = N[b]
    BY DEF S
  <2> QED BY <1>6, <2>1, <2>2
<1>10. \A b \in member : N[b] \in Nat
  BY <1>4
<1> QED BY <1>4, <1>7, <1>8, <1>9, <1>10, Zenon DEF S, N, Top

\* What the judgement of a package finds of the host, either way.
LEMMA RoomIs ==
  ASSUME Ground, Memory, Calm, NEW p \in Pkg, NEW r \in ReadingFor(p), pc[p] \in {"ask", "woken"}
  PROVE  LET a == InvOf[p] IN
         /\ HasRoom(a, r) => \A b \in member : /\ outside + PassNoted(a, r)[b] + Demand + Floor <= Host
                                               /\ r.free + r.pass >= Floor + PassNoted(a, r)[b]
         /\ ~HasRoom(a, r) /\ InSlot = {} =>
              \E b \in member : r.free + r.pass < Floor + PassNoted(a, r)[b]
<1> DEFINE a == InvOf[p]
           R == [b \in Inv |-> Reservation(b, r)]
           N == PassNoted(a, r)
           top == Top(a, r)
           T == Total(r.trees, Pkg)
           V == Total(R, member)
<1>1. a \in member /\ a \in Inv
  BY PackagesOwned DEF Ground, Fresh, Asking
<1>2. /\ r.ok /\ Reads(r) /\ r.free \in Nat /\ r.pass <= PassMax
      /\ r.free > 0 => outside + r.pass + T + r.free <= Host
      /\ \A q \in Pkg : r.trees[q] \in Nat /\ r.trees[q] <= Floor
  BY JudgedOn
<1>3. Estimate(a, Noted(r)) = Floor
  BY <1>1, <1>2, AtFloor
<1>4. HasRoom(a, r) <=> r.free >= V + Floor + (top - r.pass)
  BY <1>2, <1>3 DEF HasRoom, Top
<1>5. V \in Nat /\ T \in Nat /\ V + T >= Demand /\ (InSlot = {} => V = 0)
  BY <1>2, AllReserved
<1>6. /\ top \in Nat /\ r.pass <= top /\ (\E b \in member : top = N[b])
      /\ \A b \in member : N[b] \in Nat /\ N[b] <= top
  BY <1>1, <1>2, TopMark
<1>7. /\ outside \in Nat /\ r.pass \in Nat /\ Demand \in Nat /\ Floor \in Nat /\ Floor > 0 /\ Host \in Nat
  BY <1>2, SlotsFinite, Units DEF Ground, TypeOK, Reads
<1> HIDE DEF a, R, N, top, T, V
<1>8. ASSUME HasRoom(a, r), NEW b \in member
      PROVE  outside + N[b] + Demand + Floor <= Host /\ r.free + r.pass >= Floor + N[b]
  <2>1. r.free >= V + Floor + (top - r.pass) /\ r.free > 0
    BY <1>2, <1>4, <1>5, <1>6, <1>7, <1>8
  <2>2. outside + r.pass + T + r.free <= Host
    BY <1>2, <2>1
  <2> QED BY <1>2, <1>5, <1>6, <1>7, <2>1, <2>2
<1>9. ASSUME ~HasRoom(a, r), InSlot = {} PROVE \E b \in member : r.free + r.pass < Floor + N[b]
  <2>1. PICK b \in member : top = N[b]
    BY <1>6
  <2>2. r.free + r.pass < Floor + top
    BY <1>2, <1>4, <1>5, <1>6, <1>7, <1>9
  <2> QED BY <2>1, <2>2
<1> QED BY <1>8, <1>9 DEF a, N

LEMMA JudgeMemory ==
  ASSUME Ground, Memory, NEW p \in Pkg, NEW r \in ReadingFor(p), Admit(p, r) \/ Refuse(p, r) \/ Hold(p, r)
  PROVE  Memory'
<1> DEFINE a == InvOf[p]
           N == PassNoted(a, r)
<1>1. Judge(p, r) /\ pc[p] \in {"ask", "woken"}
  BY DEF Admit, Refuse, Hold, Judge
<1>2. a \in member /\ a \in Inv /\ p \in Of(a)
  BY <1>1, PackagesOwned DEF Ground, Fresh, Asking, Of
<1>3. /\ UNCHANGED <<member, tree, pass, outside, reached, beyond>> /\ reading' = r /\ cached' = TRUE
      /\ passPeak' = IF r.ok THEN N ELSE passPeak
  BY <1>1 DEF Judge, memory
<1>4. \E to \in {"admitted", "refused", "waiting"} : pc' = [pc EXCEPT ![p] = to]
  BY DEF Admit, Refuse, Hold
<1>5. \A q \in Pkg : pc'[q] = "new" => pc[q] = "new" /\ q # p
  BY <1>1, <1>4 DEF Ground, TypeOK
<1>6. Calm' <=> Calm
  BY <1>3 DEF Calm
<1>7. Reads(r) /\ r.free \in Nat /\ r.pass <= PassMax
  <2>1. CASE r = reading
    BY <2>1, ReadingTyped DEF Ground, Memory, PassNotes, Accounted
  <2>2. CASE r = Snapshot
    <3>1. r.free = Less(Host, outside + pass + Held) /\ r.pass = pass
      BY <2>2 DEF Snapshot
    <3>2. Held \in Nat
      BY Finite, TotalNat DEF Held, Ground, TypeOK
    <3>3. Less(Host, outside + pass + Held) \in Nat
      BY <3>2, Units DEF Less, Ground, TypeOK
    <3> QED BY <3>1, <3>3, ReadingTyped DEF Ground, Memory, PassNotes
  <2>3. CASE r = NoReading
    BY <2>3, ReadingTyped, Units DEF NoReading, Ground
  <2> QED BY <2>1, <2>2, <2>3 DEF ReadingFor, Readings
<1>8. \A b \in member : /\ N[b] \in Nat /\ passPeak[b] <= N[b] /\ passPeak[b] \in Nat
                        /\ N[b] = passPeak[b] \/ N[b] = r.pass
      /\ r.pass <= N[a]
  <2>1. \A b \in member : passPeak[b] \in Nat
    BY DEF Ground, TypeOK
  <2> QED BY <1>2, <1>7, <2>1, TopMark
<1>9. \A b \in Inv : b # a => N[b] = passPeak[b]
  BY DEF PassNoted, Ground, TypeOK
<1> HIDE DEF a, N
<1>10. PassNotes'
  <2>1. \A b \in Inv : passPeak'[b] <= PassMax
    <3> TAKE b \in Inv
    <3>1. passPeak'[b] \in {passPeak[b], r.pass}
      BY <1>2, <1>3, <1>8, <1>9
    <3> QED BY <1>7, <3>1 DEF Memory, PassNotes
  <2>2. ASSUME NEW b \in Inv, \A q \in Of(b) : pc'[q] = "new" PROVE passPeak'[b] = 0
    <3>1. b # a
      BY <1>2, <1>5, <2>2 DEF Of
    <3>2. \A q \in Of(b) : pc[q] = "new"
      BY <1>5, <2>2 DEF Of
    <3> QED BY <1>3, <1>9, <3>1, <3>2 DEF Memory, PassNotes
  <2>3. Of(a)' = Of(a) /\ \A b \in Inv : Of(b)' = Of(b)
    BY DEF Of
  <2> QED BY <1>3, <1>7, <2>1, <2>2, <2>3 DEF Memory, PassNotes
<1>11. Accounted'
  <2>1. Calm => (r.free > 0 => outside + r.pass + Total(r.trees, Pkg) + r.free <= Host)
    BY <1>1, JudgedOn
  <2>2. Accounted' <=> /\ r.free \in Nat
                       /\ Calm /\ r.ok /\ r.free > 0 =>
                            outside + r.pass + Total(r.trees, Pkg) + r.free <= Host
    BY <1>3, <1>6 DEF Accounted
  <2> QED BY <1>7, <2>1, <2>2
<1>12. InSlot' = IF Admit(p, r) THEN InSlot \cup {p} ELSE InSlot
  <2>1. Admit(p, r) => pc' = [pc EXCEPT ![p] = "admitted"]
    BY DEF Admit
  <2>2. ~Admit(p, r) => \E to \in {"refused", "waiting"} : pc' = [pc EXCEPT ![p] = to]
    BY DEF Refuse, Hold
  <2> QED BY <1>1, <2>1, <2>2 DEF InSlot, Ground, TypeOK
<1>13. Admit(p, r) <=> HasRoom(a, r)
  BY DEF Admit, Refuse, Hold, a
<1> SUFFICES ASSUME Calm PROVE Noticed' /\ Covered'
  BY <1>6, <1>10, <1>11 DEF Memory, Noticed, Covered
<1>14. r.ok /\ passPeak' = N
  BY <1>1, <1>3, JudgedOn
<1>15. /\ HasRoom(a, r) => \A b \in member : /\ outside + N[b] + Demand + Floor <= Host
                                             /\ r.free + r.pass >= Floor + N[b]
       /\ ~HasRoom(a, r) /\ InSlot = {} =>
            \E b \in member : r.free + r.pass < Floor + N[b]
  BY <1>1, RoomIs DEF a, N
<1>16. r.pass = pass \/ (r = reading /\ cached /\ reading.ok)
  <2>1. r \in Readings => r = Snapshot
    BY DEF Readings, Calm
  <2> QED BY <1>14, <2>1 DEF ReadingFor, Snapshot
<1>17. pass \in Nat /\ r.pass \in Nat /\ outside \in Nat /\ Host \in Nat /\ Floor \in Nat /\ Demand \in Nat
  BY <1>7, SlotsFinite, Units DEF Ground, TypeOK, Reads
<1>18. ASSUME InSlot' # {} PROVE \E b \in member : pass <= N[b]
  <2>1. CASE r.pass = pass
    BY <1>2, <1>8, <2>1
  <2>2. CASE r = reading /\ cached /\ reading.ok
    <3>1. CASE InSlot # {}
      <4>1. PICK b \in member : pass <= passPeak[b]
        BY <2>2, <3>1 DEF Memory, Noticed
      <4> QED BY <1>8, <1>17, <4>1
    <3>2. CASE InSlot = {}
      <4>1. HasRoom(a, r)
        BY <1>12, <1>13, <1>18, <3>2
      <4>2. PICK b \in member : reading.free + reading.pass < Floor + passPeak[b]
        BY <2>2, <3>2 DEF Memory, Noticed
      <4>3. r.free + r.pass >= Floor + N[b]
        BY <1>15, <4>1
      <4> QED BY <1>7, <1>8, <1>17, <2>2, <4>2, <4>3
    <3> QED BY <3>1, <3>2
  <2> QED BY <1>16, <2>1, <2>2
<1>19. Noticed'
  <2>1. \E b \in member : r.pass <= N[b]
    BY <1>2, <1>8
  <2>2. InSlot' = {} => \E b \in member : r.free + r.pass < Floor + N[b]
    BY <1>12, <1>13, <1>15
  <2> QED BY <1>3, <1>14, <1>18, <2>1, <2>2 DEF Noticed
<1>20. Covered'
  <2> SUFFICES ASSUME InSlot' # {}
               PROVE  /\ outside + pass + Demand' <= Host
                      /\ \A b \in member : outside + N[b] + Demand' <= Host
    BY <1>3, <1>14 DEF Covered
  <2>1. CASE Admit(p, r)
    <3>1. Demand' = Demand + Floor
      <4>1. InSlot' = InSlot \cup {p} /\ p \notin InSlot
        BY <1>1, <1>12, <2>1 DEF InSlot
      <4>2. Cardinality(InSlot') = Cardinality(InSlot) + 1 /\ Cardinality(InSlot) \in Nat
        BY <4>1, SlotsFinite, FS_AddElement
      <4>3. Floor * (Cardinality(InSlot) + 1) = Floor * Cardinality(InSlot) + Floor
        BY <1>17, <4>2, Times
      <4> QED BY <4>2, <4>3 DEF Demand
    <3>2. PICK b \in member : pass <= N[b]
      BY <1>18
    <3> QED BY <1>8, <1>13, <1>15, <1>17, <2>1, <3>1, <3>2
  <2>2. CASE ~Admit(p, r)
    <3>1. InSlot' = InSlot /\ Demand' = Demand
      BY <1>12, <2>2 DEF Demand
    <3>2. /\ outside + pass + Demand <= Host
          /\ \A b \in member : outside + passPeak[b] + Demand <= Host
      BY <3>1 DEF Memory, Covered
    <3>3. outside + r.pass + Demand <= Host
      <4>1. CASE r.pass = pass
        BY <3>2, <4>1
      <4>2. CASE r = reading /\ cached /\ reading.ok
        <5>1. PICK c \in member : reading.pass <= passPeak[c]
          BY <4>2 DEF Memory, Noticed
        <5> QED BY <1>8, <1>17, <3>2, <4>2, <5>1
      <4> QED BY <1>16, <4>1, <4>2
    <3> QED BY <1>8, <3>1, <3>2, <3>3
  <2> QED BY <2>1, <2>2
<1> QED BY <1>19, <1>20

\* Less asked of the same room still fits.
LEMMA SumBelow ==
  ASSUME NEW x \in Nat, NEW y \in Nat, NEW d \in Nat, NEW e \in Nat, NEW h \in Nat,
         e <= d, x + y + d <= h
  PROVE  x + y + e <= h
OBVIOUS

\* A step that notes nothing, admits nobody and moves neither the pass nor the
\* other programs; after a broadcast no reading is shared.
LEMMA QuietMemory ==
  ASSUME Ground, Memory, Calm' => Calm, UNCHANGED <<pass, outside, passPeak, reading>>,
         member' \subseteq member, InSlot' \subseteq InSlot,
         \A q \in Pkg : pc'[q] = "new" => pc[q] = "new",
         cached' = FALSE \/ ( /\ cached' = cached /\ InSlot' = InSlot /\ member' = member
                             /\ \A q \in Pkg : pc'[q] = "woken" => pc[q] = "woken" )
  PROVE  Memory'
<1>1. PassNotes'
  <2>1. \A b \in Inv : Of(b)' = Of(b) /\ Of(b) \subseteq Pkg
    BY DEF Of
  <2> QED BY <2>1 DEF Memory, PassNotes
<1>2. Accounted'
  BY DEF Memory, Accounted
<1>3. Noticed'
  <2>1. CASE cached' = FALSE
    BY <2>1 DEF Noticed
  <2>2. CASE cached' # FALSE
    BY <2>2 DEF Memory, Noticed
  <2> QED BY <2>1, <2>2
<1>4. Covered'
  <2> SUFFICES ASSUME Calm, InSlot' # {}
               PROVE  /\ outside + pass + Demand' <= Host
                      /\ \A b \in member' : outside + passPeak[b] + Demand' <= Host
    BY DEF Covered
  <2>1. /\ outside + pass + Demand <= Host
        /\ \A b \in member : outside + passPeak[b] + Demand <= Host
    BY DEF Memory, Covered
  <2>2. Demand' <= Demand /\ Demand' \in Nat /\ Demand \in Nat
    <3>1. /\ Cardinality(InSlot') <= Cardinality(InSlot)
          /\ Cardinality(InSlot') \in Nat /\ Cardinality(InSlot) \in Nat
      BY SlotsFinite, FS_Subset, FS_CardinalityType
    <3>2. Floor * Cardinality(InSlot') <= Floor * Cardinality(InSlot)
          /\ Floor * Cardinality(InSlot') \in Nat /\ Floor * Cardinality(InSlot) \in Nat
      BY <3>1, Units, Scaled
    <3> QED BY <3>2 DEF Demand
  <2>3. outside \in Nat /\ pass \in Nat /\ Host \in Nat /\ \A b \in member : passPeak[b] \in Nat
    BY Units DEF Ground, TypeOK
  <2>4. outside + pass + Demand' <= Host
    BY ONLY <2>1, <2>2, <2>3, SumBelow
  <2>5. ASSUME NEW b \in member' PROVE outside + passPeak[b] + Demand' <= Host
    <3>1. passPeak[b] \in Nat /\ outside + passPeak[b] + Demand <= Host
      BY <2>1, <2>3
    <3> QED BY ONLY <2>2, <2>3, <3>1, SumBelow
  <2> QED BY <2>4, <2>5
<1> QED BY <1>1, <1>2, <1>3, <1>4 DEF Memory

\* Calm lost is lost for good.
LEMMA CalmBefore ==
  ASSUME Ground, [Next]_vars, Calm'
  PROVE  Calm
<1>1. ASSUME UNCHANGED <<reached, beyond>> PROVE Calm
  BY <1>1 DEF Calm
<1>2. ASSUME NEW p \in Pkg, NEW m \in 0..TreeMax[p], TreeMoves(p, m) PROVE Calm
  <2>1. InvOf[p] \in Inv /\ reached[InvOf[p]] \in Nat /\ m \in Nat
    BY PackagesOwned DEF Ground, TypeOK
  <2>2. Max({reached[InvOf[p]], m}) >= reached[InvOf[p]] /\ Max({reached[InvOf[p]], m}) \in Nat
    BY <2>1, MaxPair
  <2>3. /\ reached' = [reached EXCEPT ![InvOf[p]] = Max({reached[InvOf[p]], m})]
        /\ UNCHANGED beyond
    BY <1>2 DEF TreeMoves
  <2>4. \A a \in Inv : reached[a] <= reached'[a] /\ reached[a] \in Nat /\ reached'[a] \in Nat
    BY <2>1, <2>2, <2>3 DEF Ground, TypeOK
  <2>5. \A a \in Inv : reached'[a] <= Floor => reached[a] <= Floor
    BY <2>4, Units
  <2> QED BY <2>3, <2>5 DEF Calm
<1>3. ASSUME (\E m \in 0..PassMax : PassMoves(m)) \/ (\E m \in 0..OutsideMax : OutsideMoves(m))
      PROVE  Calm
  BY <1>3 DEF PassMoves, OutsideMoves, Calm
<1>4. ASSUME NEW p \in Pkg, Ask(p) \/ Dispose(p) \/ Asks(p) \/ Runs(p) \/ Exit(p) PROVE Calm
  <2>1. UNCHANGED <<reached, beyond>>
    BY <1>4
       DEF Ask, Dispose, Asks, Admit, Refuse, Hold, Judge, Queue, GiveUp, Runs, Spawn, Register,
           Fold, Reaped, Release, Exit, memory
  <2> QED BY <1>1, <2>1
<1>5. ASSUME NEW a \in Inv, Join(a) \/ Expire(a) \/ Tell(a) \/ Leave(a) PROVE Calm
  BY <1>1, <1>5 DEF Join, Expire, Tell, Leave, memory
<1>6. CASE UNCHANGED vars
  BY <1>1, <1>6 DEF vars
<1> QED BY <1>2, <1>3, <1>4, <1>5, <1>6 DEF Next

LEMMA InvocationMemory ==
  ASSUME Ground, Memory, Calm' => Calm, NEW a \in Inv, Join(a) \/ Expire(a) \/ Tell(a) \/ Leave(a)
  PROVE  Memory'
<1>1. CASE Join(a)
  <2>1. /\ member' = member \cup {a} /\ \A q \in Of(a) : pc[q] = "new"
        /\ UNCHANGED <<pc, pass, outside, reached, beyond, passPeak, reading, cached>>
    BY <1>1 DEF Join, memory, evidence
  <2>2. InSlot' = InSlot /\ Demand' = Demand /\ (Calm' <=> Calm)
    BY <2>1 DEF InSlot, Demand, Calm
  <2>3. passPeak[a] = 0
    BY <2>1 DEF Memory, PassNotes
  <2>4. PassNotes'
    BY <2>1 DEF Memory, PassNotes, Of
  <2>5. Accounted' /\ Noticed'
    BY <2>1, <2>2 DEF Memory, Accounted, Noticed
  <2>6. Covered'
    <3> SUFFICES ASSUME Calm, InSlot # {} PROVE outside + passPeak[a] + Demand <= Host
      BY <2>1, <2>2 DEF Memory, Covered
    <3>1. outside + pass + Demand <= Host
      BY DEF Memory, Covered
    <3>2. outside \in Nat /\ pass \in Nat /\ Demand \in Nat /\ Host \in Nat
      BY SlotsFinite, Units DEF Ground, TypeOK
    <3> QED BY <2>3, <3>1, <3>2
  <2> QED BY <2>4, <2>5, <2>6 DEF Memory
<1>2. CASE Expire(a)
  <2>1. UNCHANGED <<pc, member, pass, outside, passPeak, reading, cached>> /\ InSlot' = InSlot
    BY <1>2 DEF Expire, memory, evidence, InSlot
  <2> QED BY <2>1, QuietMemory
<1>3. CASE Tell(a) \/ Leave(a)
  <2>1. /\ Wake(pc) /\ UNCHANGED <<pass, outside, passPeak, reading>> /\ member' \subseteq member
    BY <1>3 DEF Tell, Leave, memory, evidence
  <2>2. InSlot' = InSlot /\ cached' = FALSE /\ \A q \in Pkg : pc'[q] = "new" => pc[q] = "new"
    BY <2>1 DEF Wake, InSlot
  <2> QED BY <2>1, <2>2, QuietMemory
<1> QED BY <1>1, <1>2, <1>3

LEMMA PackageMemory ==
  ASSUME Ground, Memory, Calm' => Calm, NEW p \in Pkg,
         Ask(p) \/ Dispose(p) \/ Asks(p) \/ Runs(p) \/ Exit(p)
  PROVE  Memory'
<1>1. CASE Ask(p) \/ Dispose(p) \/ Queue(p) \/ GiveUp(p)
  <2>1. /\ UNCHANGED <<member, pass, outside, passPeak, reading, cached>>
        /\ pc[p] \in {"new", "ask", "woken"}
    BY <1>1 DEF Ask, Dispose, Queue, GiveUp, memory, evidence
  <2>2. \E to \in {"ask", "waiting", "ended", "refused"} : pc' = [pc EXCEPT ![p] = to]
    BY <1>1 DEF Ask, Dispose, Queue, GiveUp
  <2>3. /\ InSlot' = InSlot
        /\ \A q \in Pkg : pc'[q] = "new" => pc[q] = "new"
        /\ \A q \in Pkg : pc'[q] = "woken" => pc[q] = "woken"
    BY <2>1, <2>2 DEF InSlot, Ground, TypeOK
  <2>4. /\ InSlot' \subseteq InSlot /\ member' \subseteq member
        /\ UNCHANGED <<pass, outside, passPeak, reading>>
    BY <2>1, <2>3
  <2>5. cached' = cached /\ InSlot' = InSlot /\ member' = member
    BY <2>1, <2>3
  <2>6. /\ \A q \in Pkg : pc'[q] = "woken" => pc[q] = "woken"
        /\ \A q \in Pkg : pc'[q] = "new" => pc[q] = "new"
    BY <2>3
  <2> QED BY <2>4, <2>5, <2>6, QuietMemory
<1>2. CASE Spawn(p) \/ Register(p) \/ Fold(p) \/ Exit(p)
  <2>1. UNCHANGED <<pc, member, pass, outside, passPeak, reading, cached>>
    BY <1>2 DEF Spawn, Register, Fold, Exit, memory, evidence
  <2>2. InSlot' = InSlot
    BY <2>1 DEF InSlot
  <2> QED BY <2>1, <2>2, QuietMemory
<1>3. CASE Reaped(p)
  <2>1. Wake(pc) /\ UNCHANGED <<member, pass, outside, passPeak, reading>>
    BY <1>3 DEF Reaped, memory
  <2>2. InSlot' = InSlot /\ cached' = FALSE /\ \A q \in Pkg : pc'[q] = "new" => pc[q] = "new"
    BY <2>1 DEF Wake, InSlot
  <2> QED BY <2>1, <2>2, QuietMemory
<1>4. CASE Release(p)
  <2>1. /\ Wake([pc EXCEPT ![p] = "done"]) /\ UNCHANGED <<member, pass, outside, passPeak, reading>>
    BY <1>4 DEF Release, memory, evidence
  <2>2. InSlot' \subseteq InSlot /\ cached' = FALSE /\ \A q \in Pkg : pc'[q] = "new" => pc[q] = "new"
    BY <2>1 DEF Wake, InSlot, Ground, TypeOK
  <2> QED BY <2>1, <2>2, QuietMemory
<1>5. CASE \E r \in ReadingFor(p) : Admit(p, r) \/ Refuse(p, r) \/ Hold(p, r)
  BY <1>5, JudgeMemory
<1> QED BY <1>1, <1>2, <1>3, <1>4, <1>5 DEF Asks, Runs

LEMMA MovesMemory ==
  ASSUME Ground, Memory, Calm' => Calm,
         \/ \E p \in Pkg : \E m \in 0..TreeMax[p] : TreeMoves(p, m)
         \/ \E m \in 0..PassMax : PassMoves(m)
         \/ \E m \in 0..OutsideMax : OutsideMoves(m)
  PROVE  Memory'
<1>0. /\ outside \in Nat /\ pass \in Nat /\ Demand \in Nat /\ Host \in Nat /\ reading.pass \in Nat
      /\ reading.free \in Nat
  BY SlotsFinite, Units DEF Ground, TypeOK, Memory, Accounted
<1>1. ASSUME NEW p \in Pkg, NEW m \in 0..TreeMax[p], TreeMoves(p, m) PROVE Memory'
  <2>1. UNCHANGED <<pc, member, pass, outside, passPeak, reading, cached>>
    BY <1>1 DEF TreeMoves, evidence
  <2>2. InSlot' = InSlot
    BY <2>1 DEF InSlot
  <2> QED BY <2>1, <2>2, QuietMemory
<1>2. ASSUME NEW m \in 0..PassMax, PassMoves(m) PROVE Memory'
  <2>1. /\ UNCHANGED <<pc, member, outside, passPeak, reading, cached, reached>> /\ pass' = m
        /\ InSlot' = InSlot /\ Demand' = Demand
    BY <1>2 DEF PassMoves, evidence, InSlot, Demand
  <2>2. PassNotes'
    BY <2>1 DEF Memory, PassNotes, Of
  <2>3. Accounted'
    BY <2>1 DEF Memory, Accounted
  <2>4. ASSUME Calm', InSlot # {} PROVE \E a \in member : m <= passPeak[a]
    <3>1. PICK a \in member : ~ (m > passPeak[a])
      BY <1>2, <2>4 DEF PassMoves, Calm, InSlot
    <3> QED BY <3>1 DEF Ground, TypeOK
  <2>5. Noticed'
    BY <2>1, <2>4 DEF Memory, Noticed
  <2>6. Covered'
    <3> SUFFICES ASSUME Calm', InSlot # {} PROVE outside + m + Demand <= Host
      BY <2>1 DEF Memory, Covered
    <3>1. PICK a \in member : m <= passPeak[a]
      BY <2>4
    <3>2. outside + passPeak[a] + Demand <= Host /\ passPeak[a] \in Nat
      BY DEF Memory, Covered, Ground, TypeOK
    <3> QED BY <1>0, <3>1, <3>2
  <2> QED BY <2>2, <2>3, <2>5, <2>6 DEF Memory
<1>3. ASSUME NEW m \in 0..OutsideMax, OutsideMoves(m) PROVE Memory'
  <2>1. /\ UNCHANGED <<pc, member, pass, passPeak, reading, cached, reached>> /\ outside' = m
        /\ InSlot' = InSlot /\ Demand' = Demand
    BY <1>3 DEF OutsideMoves, evidence, InSlot, Demand
  <2>2. PassNotes'
    BY <2>1 DEF Memory, PassNotes, Of
  <2>3. Calm' => m <= outside
    <3>1. Calm' => ~ (m > outside)
      BY <1>3 DEF OutsideMoves, Calm
    <3> QED BY <1>0, <3>1
  <2>4. Accounted'
    <3>1. Total(reading.trees, Pkg) \in Nat
      BY Finite, TotalNat DEF Ground, TypeOK
    <3> QED BY <1>0, <2>1, <2>3, <3>1 DEF Memory, Accounted
  <2>5. Noticed'
    BY <2>1 DEF Memory, Noticed
  <2>6. Covered'
    <3> SUFFICES ASSUME Calm', InSlot # {}
                 PROVE  /\ m + pass + Demand <= Host
                        /\ \A a \in member : m + passPeak[a] + Demand <= Host
      BY <2>1 DEF Covered
    <3>1. \A a \in member : passPeak[a] \in Nat
      BY DEF Ground, TypeOK
    <3> QED BY <1>0, <2>3, <3>1 DEF Memory, Covered
  <2> QED BY <2>2, <2>4, <2>5, <2>6 DEF Memory
<1> QED BY <1>1, <1>2, <1>3

LEMMA NextMemory ==
  ASSUME Ground, Memory, [Next]_vars
  PROVE  Memory'
<1>0. Calm' => Calm
  BY CalmBefore
<1>1. CASE UNCHANGED vars
  <2>1. UNCHANGED <<pc, member, pass, outside, passPeak, reading, cached>>
    BY <1>1 DEF vars
  <2>2. InSlot' = InSlot
    BY <2>1 DEF InSlot
  <2> QED BY <1>0, <2>1, <2>2, QuietMemory
<1> QED BY <1>0, <1>1, InvocationMemory, PackageMemory, MovesMemory DEF Next

LEMMA InitMemory == Init => Memory
<1> SUFFICES ASSUME Init PROVE Memory
  OBVIOUS
<1>1. InSlot = {}
  BY DEF Init, InSlot
<1>2. ~reading.ok /\ reading.free = 0 /\ reading.pass = 0
  BY DEF Init, NoReading
<1>3. PassNotes
  BY <1>2, Units DEF Init, PassNotes
<1>4. \A p \in Pkg : pc[p] # "woken"
  BY DEF Init
<1> QED BY <1>1, <1>2, <1>3, <1>4 DEF Memory, Accounted, Noticed, Covered

\* What is covered is what may be taken.
LEMMA CoveredFits == Ground /\ Memory => NoOvercommit
<1> SUFFICES ASSUME Ground, Memory, Calm, InSlot # {} PROVE outside + pass + Held <= Host
  BY DEF NoOvercommit, Calm, InSlot
<1>1. ASSUME NEW q \in Pkg PROVE /\ tree[q] \in Nat /\ tree[q] <= Floor
                                 /\ q \notin InSlot => tree[q] = 0
  <2>1. InvOf[q] \in Inv /\ reached[InvOf[q]] \in Nat /\ tree[q] \in Nat /\ Floor \in Nat
    BY PackagesOwned, Units DEF Ground, TypeOK
  <2>2. tree[q] <= reached[InvOf[q]] /\ reached[InvOf[q]] <= Floor
    BY <2>1 DEF Ground, Taken, Calm
  <2>3. tree[q] > 0 => q \in InSlot
    BY DEF Ground, Fresh, InSlot
  <2> QED BY <2>1, <2>2, <2>3
<1>2. Pkg = InSlot \cup (Pkg \ InSlot) /\ InSlot \cap (Pkg \ InSlot) = {} /\ InSlot \subseteq Pkg
  BY DEF InSlot
<1>3. IsFiniteSet(InSlot) /\ IsFiniteSet(Pkg \ InSlot) /\ Cardinality(Pkg \ InSlot) \in Nat
  BY Finite, SlotsFinite, FS_Subset, FS_CardinalityType
<1>4. Held = Total(tree, InSlot) + Total(tree, Pkg \ InSlot)
  BY <1>1, <1>2, <1>3, TotalUnion DEF Held
<1>5. Total(tree, InSlot) <= Demand /\ Total(tree, InSlot) \in Nat
  BY <1>1, <1>2, <1>3, Units, TotalAtMost, TotalNat DEF Demand
<1>6. Total(tree, Pkg \ InSlot) = 0
  <2>1. Total(tree, Pkg \ InSlot) <= 0 * Cardinality(Pkg \ InSlot)
    BY <1>1, <1>3, TotalAtMost
  <2>2. Total(tree, Pkg \ InSlot) \in Nat
    BY <1>1, <1>3, TotalNat
  <2> QED BY <1>3, <2>1, <2>2
<1>7. outside + pass + Demand <= Host
  BY DEF Memory, Covered
<1> QED BY <1>4, <1>5, <1>6, <1>7, SlotsFinite, Units DEF Ground, TypeOK

\* On any host whose memory can be read, with any invocations, packages, bounds
\* and shared readings: while no tree outgrows the floor and neither the pass nor
\* other programs take more than was read, what the gate admitted fits the host
\* (admit over room and reservation).
THEOREM AdmittedFit == Spec => []NoOvercommit
<1>1. Init => Ground /\ Memory
  BY InitIInv, InitTypeOK, InitTaken, InitFresh, InitMemory DEF Ground
<1>2. Ground /\ Memory /\ [Next]_vars => (Ground /\ Memory)'
  BY NextIInv, NextTypeOK, NextTaken, NextFresh, NextMemory DEF Ground
<1> QED BY <1>1, <1>2, CoveredFits, PTL DEF Spec
=============================================================================
