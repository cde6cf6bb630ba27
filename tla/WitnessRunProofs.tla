--------------------------- MODULE WitnessRunProofs ---------------------------
(***************************************************************************)
(* Proofs about WitnessRun.  What was proved before the last process ended *)
(* counts for nothing, because every verification and every recheck starts *)
(* with nothing running and goes over all that is served; a record is true *)
(* because files only move on, so that inputs which are the snapshot's now *)
(* were the snapshot's all the time.                                       *)
(***************************************************************************)
EXTENDS WitnessRun, WellFoundedInduction, FiniteSetTheorems, TLAPS

(* Nothing runs while a phase is not one of execution, nothing is installed  *)
(* before the first, a degraded run neither verifies nor retries, and there  *)
(* are no candidates before the first retry.                                 *)
Quiet ==
  /\ pc \notin {"executing", "ineligible", "retrying"} => todo = {} /\ running = {}
  /\ pc = "preparing" => installed = {}
  /\ degraded => pc \in {"executing", "ineligible", "done", "aborted"}
  /\ pc \in {"preparing", "executing", "ineligible", "verifying"} => candidates = {}

Bookkeeping ==
  /\ reusable \subseteq candidates
  /\ \A c \in reusable : GroupOf[c.inv] \in Groups

(* What verification or a recheck has already gone over is proved.           *)
ProvedSoFar ==
  /\ pc = "verifying" => \A m \in served : LegOf(m) \notin left => m \in proved
  /\ pc = "rechecking" =>
       /\ \A m \in served : m[1] \notin left => m \in proved
       /\ \A c \in reusable \ denied : GroupOf[c.inv] \notin left => c \in proofs

(* The processes of a unit can still prove something about this subject.     *)
Still(u, s) == HasLeg(u) /\ Same(s, snap[GroupOf[u.inv]], tree)
StoodStill ==
  /\ \A g \in Groups : snap[g] # NoTree => \A f \in Files : snap[g][f] <= tree[f]
  /\ \A u \in running : \A s \in u.live : Still(u, s) => s \in u.steady
  /\ \A u \in running : \A k \in DOMAIN u.procs : \A s \in u.procs[k].names :
       Still(u, s) => s \in u.procs[k].steady

ChosenInRange ==
  /\ \A m \in Members : chosen[m] # 0 => chosen[m] \in DOMAIN cached[m]
  /\ \A m \in served : chosen[m] # 0

IInv ==
  /\ TypeOK /\ Quiet /\ Bookkeeping /\ ProvedSoFar /\ ProvedLast
  /\ DegradedKeepsOut /\ ScopeHeld /\ StoodStill /\ ChosenInRange /\ RecordsTrue

LEMMA Cover ==
  /\ Legs \subseteq Groups \X Packages
  /\ Members \subseteq Groups \X Subjects
  /\ \A m \in Members : LegOf(m) \in Legs /\ m[1] \in Groups /\ m[2] \in Subjects
BY DEF Legs, Members, LegOf

LEMMA InitIInv == Init => IInv
<1> SUFFICES ASSUME Init PROVE IInv
  OBVIOUS
<1>1. TypeOK
  BY RunShape, Cover DEF Init, TypeOK, Trees
<1>2. Quiet /\ Bookkeeping /\ ProvedSoFar /\ ProvedLast /\ DegradedKeepsOut
  BY DEF Init, Quiet, Bookkeeping, ProvedSoFar, ProvedLast, DegradedKeepsOut
<1>3. ScopeHeld /\ StoodStill /\ ChosenInRange /\ RecordsTrue
  BY DEF Init, ScopeHeld, StoodStill, ChosenInRange, RecordsTrue
<1> QED BY <1>1, <1>2, <1>3 DEF IInv

(* A pass is made of units inside the scope when its selection is.           *)
LEMMA UnitsTyped ==
  ASSUME NEW sel, \A i \in Invocations : sel[i] \subseteq scope, scope \subseteq Subjects
  PROVE  Units(sel) \subseteq Todo /\ \A u \in Units(sel) : u.names \subseteq scope
BY DEF Units, Todo

-----------------------------------------------------------------------------
(* Types *)

LEMMA MainNamesWithin ==
  ASSUME NEW u, NEW names \in MainNames(u)
  PROVE  names \subseteq u.names
BY DEF MainNames

LEMMA BeginTypes ==
  ASSUME TypeOK, NEW members, Begin(members)
  PROVE  todo' \subseteq Todo /\ \A u \in todo' : u.names \subseteq scope
<1> DEFINE sel == [i \in Invocations |->
               scope \cap (Routed(members, i) \cup AmbiguousUnder(i))]
<1>1. todo' = Units(sel)
  BY DEF Begin
<1>2. \A i \in Invocations : sel[i] \subseteq scope
  OBVIOUS
<1> QED BY <1>1, <1>2, UnitsTyped DEF TypeOK

LEMMA WaveTypes ==
  ASSUME TypeOK, StartWave
  PROVE  todo' \subseteq Todo /\ \A u \in todo' : u.names \subseteq scope
<1> DEFINE sel == [i \in Invocations |-> Routed(Wave, i)]
<1>1. todo' = Units(sel)
  BY DEF StartWave
<1>2. \A i \in Invocations : sel[i] \subseteq scope
  BY DEF Routed, Wave
<1> QED BY <1>1, <1>2, UnitsTyped DEF TypeOK

LEMMA IneligibleTypes ==
  ASSUME TypeOK, StartIneligible
  PROVE  todo' \subseteq Todo /\ \A u \in todo' : u.names \subseteq scope
<1> DEFINE sel == [i \in Invocations |-> IneligibleUnder(i)]
<1>1. todo' = Units(sel)
  BY DEF StartIneligible
<1>2. \A i \in Invocations : sel[i] \subseteq scope
  BY DEF IneligibleUnder
<1> QED BY <1>1, <1>2, UnitsTyped DEF TypeOK

LEMMA ExitedTyped ==
  ASSUME NEW u \in RunningUnits, NEW e \in Ends(u)
  PROVE  Exited(u, e) \in Procs
<1>1. e.disp \in Dispositions
  BY DEF Ends
<1>2. e.obs \in {"complete", "unproven"}
  BY DEF Ends
<1>3. e.rows \in [u.live -> Outcomes \cup {"none"}]
  BY DEF Ends, NoRows
<1>4. u.live \in SUBSET Subjects /\ u.steady \in SUBSET Subjects
  BY DEF RunningUnits
<1> QED BY <1>1, <1>2, <1>3, <1>4 DEF Exited, Procs

LEMMA RunningTyped ==
  ASSUME NEW u, u.inv \in Invocations, u.pkg \in Packages, u.names \in SUBSET Subjects,
         NEW live \in SUBSET Subjects, NEW queue \in SUBSET Subjects,
         NEW procs \in Seq(Procs)
  PROVE  Running(u, live, queue, procs) \in RunningUnits
BY DEF Running, RunningUnits, Unmoved

LEMMA ExitTypes ==
  ASSUME TypeOK, NEW u \in running, Exit(u)
  PROVE  running' \subseteq RunningUnits
<1>1. u \in RunningUnits
  BY DEF TypeOK
<1>2. PICK e \in Ends(u) : running' = (running \ {u}) \cup
            {Running(u, {}, AloneNext(u, e), Append(u.procs, Exited(u, e)))}
  BY DEF Exit
<1>3. Append(u.procs, Exited(u, e)) \in Seq(Procs)
  BY <1>1, ExitedTyped DEF RunningUnits
<1>4. AloneNext(u, e) \in SUBSET Subjects
  BY <1>1 DEF AloneNext, DeniedTests, RunningUnits
<1>5. Running(u, {}, AloneNext(u, e), Append(u.procs, Exited(u, e))) \in RunningUnits
  BY <1>1, <1>3, <1>4, RunningTyped DEF RunningUnits
<1> QED BY <1>2, <1>5 DEF TypeOK

LEMMA StartUnitTypes ==
  ASSUME TypeOK, NEW u \in todo, StartUnit(u)
  PROVE  running' \subseteq RunningUnits /\ todo' \subseteq Todo
<1>1. u \in Todo
  BY DEF TypeOK
<1>2. PICK names \in MainNames(u) : running' = running \cup {Running(u, names, {}, <<>>)}
  BY DEF StartUnit
<1>3. names \in SUBSET Subjects
  BY <1>1, MainNamesWithin DEF Todo
<1>4. <<>> \in Seq(Procs)
  OBVIOUS
<1>5. Running(u, names, {}, <<>>) \in RunningUnits
  BY <1>1, <1>3, <1>4, RunningTyped DEF Todo
<1> QED BY <1>2, <1>5 DEF TypeOK, StartUnit

LEMMA RunAloneTypes ==
  ASSUME TypeOK, NEW u \in running, RunAlone(u)
  PROVE  running' \subseteq RunningUnits
<1>1. u \in RunningUnits
  BY DEF TypeOK
<1>2. PICK s \in u.queue :
        running' = (running \ {u}) \cup {Running(u, {s}, u.queue \ {s}, u.procs)}
  BY DEF RunAlone
<1>3. Running(u, {s}, u.queue \ {s}, u.procs) \in RunningUnits
  BY <1>1, RunningTyped DEF RunningUnits
<1> QED BY <1>2, <1>3 DEF TypeOK

(* Every step is one of the actions below.                                   *)
LEMMA Steps ==
  ASSUME [Next]_vars
  PROVE  \/ \E g \in Groups : Snapshot(g) \/ Recheck(g)
         \/ \E l \in Legs : CheckRound(l) \/ CloseRounds(l) \/ Verify(l)
         \/ \E u \in todo : StartUnit(u)
         \/ \E u \in running : Exit(u) \/ RunAlone(u) \/ FinishFirst(u) \/ FinishRetry(u)
         \/ StartExecution \/ Degrade \/ StartIneligible \/ StartVerification
         \/ StartWave \/ EndWave \/ Report \/ Abandon
         \/ \E f \in Files : Move(f)
         \/ UNCHANGED vars
BY DEF Next, Run, Prepare, Execute, Settle, Ended

LEMMA NextTypes == TypeOK /\ [Next]_vars => TypeOK'
<1> SUFFICES ASSUME TypeOK, [Next]_vars PROVE TypeOK'
  OBVIOUS
<1> USE DEF prepVars, execVars, retryVars, bookVars
<1>1. ASSUME NEW g \in Groups, Snapshot(g) PROVE TypeOK'
  BY <1>1 DEF Snapshot, TypeOK
<1>2. ASSUME NEW g \in Groups, Recheck(g) PROVE TypeOK'
  BY <1>2 DEF Recheck, TypeOK, Discard
<1>3. ASSUME NEW l \in Legs, CheckRound(l) PROVE TypeOK'
  <2>1. round' \in [Legs -> Nat] /\ chosen' \in [Members -> Nat]
    BY <1>3 DEF CheckRound, TypeOK
  <2> QED BY <1>3, <2>1 DEF CheckRound, TypeOK
<1>4. ASSUME NEW l \in Legs, CloseRounds(l) PROVE TypeOK'
  BY <1>4 DEF CloseRounds, TypeOK, MembersOf
<1>5. ASSUME NEW l \in Legs, Verify(l) PROVE TypeOK'
  BY <1>5 DEF Verify, TypeOK, Discard
<1>6. ASSUME NEW u \in todo, StartUnit(u) PROVE TypeOK'
  BY <1>6, StartUnitTypes DEF StartUnit, TypeOK
<1>7. ASSUME NEW u \in running, Exit(u) PROVE TypeOK'
  BY <1>7, ExitTypes DEF Exit, TypeOK
<1>8. ASSUME NEW u \in running, RunAlone(u) PROVE TypeOK'
  BY <1>8, RunAloneTypes DEF RunAlone, TypeOK
<1>9. ASSUME NEW u \in running, FinishFirst(u) PROVE TypeOK'
  BY <1>9 DEF FinishFirst, Finish, TypeOK
<1>10. ASSUME NEW u \in running, FinishRetry(u) PROVE TypeOK'
  BY <1>10 DEF FinishRetry, Finish, TypeOK
<1>11. CASE StartExecution
  BY <1>11, BeginTypes DEF StartExecution, TypeOK
<1>12. CASE Degrade
  BY <1>12, BeginTypes DEF Degrade, TypeOK
<1>13. CASE StartIneligible
  BY <1>13, IneligibleTypes DEF StartIneligible, TypeOK
<1>14. CASE StartVerification
  BY <1>14 DEF StartVerification, TypeOK
<1>15. CASE StartWave
  <2>1. snap' \in [Groups -> Trees \cup {NoTree}]
    BY <1>15 DEF StartWave, TypeOK
  <2> QED BY <1>15, <2>1, WaveTypes DEF StartWave, TypeOK
<1>16. CASE EndWave
  BY <1>16 DEF EndWave, TypeOK
<1>17. CASE Report
  BY <1>17 DEF Report, TypeOK
<1>18. CASE Abandon
  BY <1>18 DEF Abandon, TypeOK
<1>19. ASSUME NEW f \in Files, Move(f) PROVE TypeOK'
  BY <1>19 DEF Move, TypeOK, Trees
<1>20. CASE UNCHANGED vars
  BY <1>20 DEF vars, TypeOK
<1> QED BY <1>1, <1>2, <1>3, <1>4, <1>5, <1>6, <1>7, <1>8, <1>9, <1>10, <1>11, <1>12,
          <1>13, <1>14, <1>15, <1>16, <1>17, <1>18, <1>19, <1>20, Steps

-----------------------------------------------------------------------------
(* Phases, and what was proved when the run reports *)

LEMMA NextQuiet == Quiet /\ [Next]_vars => Quiet'
<1> SUFFICES ASSUME Quiet, [Next]_vars PROVE Quiet'
  OBVIOUS
<1> USE DEF prepVars, execVars, retryVars, bookVars
<1>1. ASSUME NEW g \in Groups, Snapshot(g) PROVE Quiet'
  BY <1>1 DEF Snapshot, Quiet
<1>2. ASSUME NEW g \in Groups, Recheck(g) PROVE Quiet'
  BY <1>2 DEF Recheck, Quiet
<1>3. ASSUME NEW l \in Legs, CheckRound(l) PROVE Quiet'
  BY <1>3 DEF CheckRound, Quiet
<1>4. ASSUME NEW l \in Legs, CloseRounds(l) PROVE Quiet'
  BY <1>4 DEF CloseRounds, Quiet
<1>5. ASSUME NEW l \in Legs, Verify(l) PROVE Quiet'
  BY <1>5 DEF Verify, Quiet
<1>6. ASSUME NEW u \in todo, StartUnit(u) PROVE Quiet'
  BY <1>6 DEF StartUnit, Quiet
<1>7. ASSUME NEW u \in running, Exit(u) PROVE Quiet'
  BY <1>7 DEF Exit, Quiet
<1>8. ASSUME NEW u \in running, RunAlone(u) PROVE Quiet'
  BY <1>8 DEF RunAlone, Quiet
<1>9. ASSUME NEW u \in running, FinishFirst(u) PROVE Quiet'
  BY <1>9 DEF FinishFirst, Quiet, Finish
<1>10. ASSUME NEW u \in running, FinishRetry(u) PROVE Quiet'
  BY <1>10 DEF FinishRetry, Quiet, Finish
<1>11. CASE StartExecution
  BY <1>11 DEF StartExecution, Quiet, Begin
<1>12. CASE Degrade
  BY <1>12 DEF Degrade, Quiet, Begin
<1>13. CASE StartIneligible
  BY <1>13 DEF StartIneligible, Quiet, PassOver
<1>14. CASE StartVerification
  BY <1>14 DEF StartVerification, Quiet, PassOver
<1>15. CASE StartWave
  BY <1>15 DEF StartWave, Quiet, Settled
<1>16. CASE EndWave
  BY <1>16 DEF EndWave, Quiet, PassOver
<1>17. CASE Report
  BY <1>17 DEF Report, Quiet, Settled
<1>18. CASE Abandon
  BY <1>18 DEF Abandon, Quiet
<1>19. ASSUME NEW f \in Files, Move(f) PROVE Quiet'
  BY <1>19 DEF Move, Quiet
<1>20. CASE UNCHANGED vars
  BY <1>20 DEF vars, Quiet
<1> QED BY <1>1, <1>2, <1>3, <1>4, <1>5, <1>6, <1>7, <1>8, <1>9, <1>10, <1>11, <1>12,
          <1>13, <1>14, <1>15, <1>16, <1>17, <1>18, <1>19, <1>20, Steps

LEMMA NextBookkeeping ==
  Bookkeeping /\ [Next]_vars => Bookkeeping'
<1> SUFFICES ASSUME Bookkeeping, [Next]_vars PROVE Bookkeeping'
  OBVIOUS
<1> USE DEF prepVars, execVars, retryVars, bookVars
<1>1. CASE UNCHANGED <<reusable, candidates>>
  BY <1>1 DEF Bookkeeping
<1>2. ASSUME NEW g \in Groups, Recheck(g) PROVE Bookkeeping'
  <2>1. reusable' \subseteq reusable \cup {c \in candidates : GroupOf[c.inv] = g}
    BY <1>2 DEF Recheck
  <2> QED BY <1>2, <2>1 DEF Recheck, Bookkeeping
<1>3. ASSUME NEW u \in running, FinishRetry(u) PROVE Bookkeeping'
  <2>1. reusable' \subseteq reusable \cup {c \in Current(u) : c.native}
    BY <1>3 DEF FinishRetry
  <2>2. \A c \in Current(u) : c.native => GroupOf[c.inv] \in Groups
    <3> SUFFICES ASSUME NEW c \in Current(u), c.native PROVE GroupOf[c.inv] \in Groups
      OBVIOUS
    <3>1. PICK k, t : c = Candidate(u, k, t)
      BY DEF Current
    <3>2. c.inv = u.inv /\ (c.native <=> t \in Judged(u, u.procs[k]))
      BY <3>1 DEF Candidate
    <3>3. HasLeg(u)
      BY <3>2 DEF Judged
    <3> QED BY <3>2, <3>3, Cover DEF HasLeg
  <2>3. candidates' = candidates \cup Current(u)
    BY <1>3 DEF FinishRetry
  <2> QED BY <2>1, <2>2, <2>3 DEF Bookkeeping
<1> QED BY <1>1, <1>2, <1>3, Steps DEF Snapshot, CheckRound, CloseRounds,
     Verify, StartUnit, Exit, RunAlone, FinishFirst, StartExecution, Degrade,
     StartIneligible, StartVerification, StartWave, EndWave, Report, Abandon,
     Move, vars, Finish

LEMMA NextProved ==
  TypeOK /\ Quiet /\ Bookkeeping /\ ProvedSoFar /\ ProvedLast /\ [Next]_vars
  => (ProvedSoFar /\ ProvedLast)'
<1> SUFFICES ASSUME TypeOK, Quiet, Bookkeeping, ProvedSoFar, ProvedLast, [Next]_vars
             PROVE  (ProvedSoFar /\ ProvedLast)'
  OBVIOUS
<1> USE DEF prepVars, execVars, retryVars, bookVars
<1>1. ASSUME NEW g \in Groups, Snapshot(g) PROVE (ProvedSoFar /\ ProvedLast)'
  BY <1>1 DEF Snapshot, ProvedSoFar, ProvedLast, Counted, Quiet
<1>2. ASSUME NEW g \in Groups, Recheck(g) PROVE (ProvedSoFar /\ ProvedLast)'
  <2>1. left' = left \ {g} /\ pc' = "rechecking" /\ pc = "rechecking"
    BY <1>2 DEF Recheck
  <2>2. \A m \in served' : m \in served /\ (m \in proved' \/ (m[1] # g))
    BY <1>2 DEF Recheck, Discard
  <2>3. \A c \in reusable' \ denied' :
          c \in proofs' \/ (c \in reusable \ denied /\ GroupOf[c.inv] # g)
    BY <1>2 DEF Recheck, Bookkeeping
  <2>4. proved \subseteq proved' /\ proofs \subseteq proofs'
    BY <1>2 DEF Recheck
  <2> QED BY <2>1, <2>2, <2>3, <2>4 DEF ProvedSoFar, ProvedLast
<1>3. ASSUME NEW l \in Legs, CheckRound(l) PROVE (ProvedSoFar /\ ProvedLast)'
  BY <1>3 DEF CheckRound, ProvedSoFar, ProvedLast, Counted
<1>4. ASSUME NEW l \in Legs, CloseRounds(l) PROVE (ProvedSoFar /\ ProvedLast)'
  BY <1>4 DEF CloseRounds, ProvedSoFar, ProvedLast, Counted
<1>5. ASSUME NEW l \in Legs, Verify(l) PROVE (ProvedSoFar /\ ProvedLast)'
  <2>1. left' = left \ {l} /\ pc' = "verifying"
    BY <1>5 DEF Verify
  <2>2. PICK keep \in SUBSET (served \cap MembersOf(l)) :
          served' = served \ ((served \cap MembersOf(l)) \ keep) /\ proved' = proved \cup keep
    BY <1>5 DEF Verify, Discard
  <2>3. ASSUME NEW m \in served', LegOf(m) \notin left' PROVE m \in proved'
    <3>1. CASE LegOf(m) = l
      BY <2>2, <2>3, <3>1 DEF MembersOf, TypeOK
    <3>2. CASE LegOf(m) # l
      BY <1>5, <2>1, <2>2, <2>3, <3>2 DEF ProvedSoFar, Verify
    <3> QED BY <3>1, <3>2
  <2> QED BY <2>1, <2>3 DEF ProvedSoFar, ProvedLast
<1>6. ASSUME NEW u \in todo, StartUnit(u) PROVE (ProvedSoFar /\ ProvedLast)'
  BY <1>6 DEF StartUnit, ProvedSoFar, ProvedLast, Counted, Quiet
<1>7. ASSUME NEW u \in running, Exit(u) PROVE (ProvedSoFar /\ ProvedLast)'
  BY <1>7 DEF Exit, ProvedSoFar, ProvedLast, Counted, Quiet
<1>8. ASSUME NEW u \in running, RunAlone(u) PROVE (ProvedSoFar /\ ProvedLast)'
  BY <1>8 DEF RunAlone, ProvedSoFar, ProvedLast, Counted, Quiet
<1>9. ASSUME NEW u \in running, FinishFirst(u) PROVE (ProvedSoFar /\ ProvedLast)'
  BY <1>9 DEF FinishFirst, ProvedSoFar, ProvedLast, Counted
<1>10. ASSUME NEW u \in running, FinishRetry(u) PROVE (ProvedSoFar /\ ProvedLast)'
  BY <1>10 DEF FinishRetry, ProvedSoFar, ProvedLast, Counted
<1>11. CASE StartExecution
  BY <1>11 DEF StartExecution, ProvedSoFar, ProvedLast, Counted, Begin
<1>12. CASE Degrade
  BY <1>12 DEF Degrade, ProvedSoFar, ProvedLast, Counted, Begin
<1>13. CASE StartIneligible
  BY <1>13 DEF StartIneligible, ProvedSoFar, ProvedLast, Counted
<1>14. CASE StartVerification
  BY <1>14, Cover DEF StartVerification, ProvedSoFar, ProvedLast, Counted, TypeOK
<1>15. CASE StartWave
  BY <1>15 DEF StartWave, ProvedSoFar, ProvedLast, Counted
<1>16. CASE EndWave
  BY <1>16, Cover DEF EndWave, ProvedSoFar, ProvedLast, Counted, TypeOK, Bookkeeping
<1>17. CASE Report
  BY <1>17, Cover DEF Report, ProvedSoFar, ProvedLast, Counted, TypeOK, Bookkeeping, Settled, Quiet
<1>18. CASE Abandon
  BY <1>18 DEF Abandon, ProvedSoFar, ProvedLast, Counted
<1>19. ASSUME NEW f \in Files, Move(f) PROVE (ProvedSoFar /\ ProvedLast)'
  BY <1>19 DEF Move, ProvedSoFar, ProvedLast, Counted
<1>20. CASE UNCHANGED vars
  BY <1>20 DEF vars, ProvedSoFar, ProvedLast, Counted
<1> QED BY <1>1, <1>2, <1>3, <1>4, <1>5, <1>6, <1>7, <1>8, <1>9, <1>10, <1>11, <1>12,
          <1>13, <1>14, <1>15, <1>16, <1>17, <1>18, <1>19, <1>20, Steps

-----------------------------------------------------------------------------
(* Degraded runs and the scope *)

LEMMA DegradedPublishes ==
  ASSUME NEW u, degraded, NEW L \in Landings(Publishable(u))
  PROVE  L = {}
BY DEF Landings, Publishable, HasLeg

LEMMA NextDegraded ==
  Quiet /\ DegradedKeepsOut /\ [Next]_vars => DegradedKeepsOut'
<1> SUFFICES ASSUME Quiet, DegradedKeepsOut, [Next]_vars PROVE DegradedKeepsOut'
  OBVIOUS
<1> USE DEF prepVars, execVars, retryVars, bookVars
<1>1. CASE UNCHANGED <<degraded, served, installed>>
  BY <1>1 DEF DegradedKeepsOut, Quiet
<1>2. ASSUME NEW g \in Groups, Recheck(g) PROVE DegradedKeepsOut'
  BY <1>2 DEF Recheck, DegradedKeepsOut, Quiet
<1>3. ASSUME NEW l \in Legs, CloseRounds(l) PROVE DegradedKeepsOut'
  BY <1>3 DEF CloseRounds, DegradedKeepsOut, Quiet
<1>4. ASSUME NEW l \in Legs, Verify(l) PROVE DegradedKeepsOut'
  BY <1>4 DEF Verify, DegradedKeepsOut, Quiet
<1>5. ASSUME NEW u \in running, FinishFirst(u) PROVE DegradedKeepsOut'
  BY <1>5, DegradedPublishes DEF FinishFirst, DegradedKeepsOut, Quiet, Finish
<1>6. ASSUME NEW u \in running, FinishRetry(u) PROVE DegradedKeepsOut'
  BY <1>6, DegradedPublishes DEF FinishRetry, DegradedKeepsOut, Quiet, Finish
<1>7. CASE StartExecution
  BY <1>7 DEF StartExecution, DegradedKeepsOut, Quiet, Begin
<1>8. CASE Degrade
  BY <1>8 DEF Degrade, DegradedKeepsOut, Quiet, Begin
<1> QED BY <1>1, <1>2, <1>3, <1>4, <1>5, <1>6, <1>7, <1>8, Steps DEF Snapshot,
     CheckRound, StartUnit, Exit, RunAlone, StartIneligible,
     StartVerification, StartWave, EndWave, Report, Abandon, Move, vars

LEMMA NextScope ==
  TypeOK /\ ScopeHeld /\ [Next]_vars => ScopeHeld'
<1> SUFFICES ASSUME TypeOK, ScopeHeld, [Next]_vars PROVE ScopeHeld'
  OBVIOUS
<1> USE DEF prepVars, execVars, retryVars, bookVars
<1>1. CASE UNCHANGED <<scope, todo, running, units>>
  BY <1>1 DEF ScopeHeld
<1>2. ASSUME NEW u \in todo, StartUnit(u) PROVE ScopeHeld'
  BY <1>2 DEF StartUnit, ScopeHeld, Running
<1>3. ASSUME NEW u \in running, Exit(u) PROVE ScopeHeld'
  BY <1>3 DEF Exit, ScopeHeld, Running
<1>4. ASSUME NEW u \in running, RunAlone(u) PROVE ScopeHeld'
  BY <1>4 DEF RunAlone, ScopeHeld, Running
<1>5. ASSUME NEW u \in running, FinishFirst(u) PROVE ScopeHeld'
  BY <1>5 DEF FinishFirst, ScopeHeld, Finish, Through
<1>6. ASSUME NEW u \in running, FinishRetry(u) PROVE ScopeHeld'
  BY <1>6 DEF FinishRetry, ScopeHeld, Finish, Through
<1>7. CASE StartExecution
  BY <1>7, BeginTypes DEF StartExecution, ScopeHeld
<1>8. CASE Degrade
  BY <1>8, BeginTypes DEF Degrade, ScopeHeld
<1>9. CASE StartIneligible
  BY <1>9, IneligibleTypes DEF StartIneligible, ScopeHeld
<1>10. CASE StartWave
  BY <1>10, WaveTypes DEF StartWave, ScopeHeld
<1>11. CASE Abandon
  BY <1>11 DEF Abandon, ScopeHeld
<1> QED BY <1>1, <1>2, <1>3, <1>4, <1>5, <1>6, <1>7, <1>8, <1>9, <1>10, <1>11,
     Steps DEF Snapshot, Recheck, CheckRound, CloseRounds, Verify,
     StartVerification, EndWave, Report, Move, vars

LEMMA NextChosen ==
  TypeOK /\ ChosenInRange /\ [Next]_vars => ChosenInRange'
<1> SUFFICES ASSUME TypeOK, ChosenInRange, [Next]_vars PROVE ChosenInRange'
  OBVIOUS
<1> USE DEF prepVars, execVars, retryVars, bookVars
<1>1. CASE UNCHANGED <<chosen, cached, served>>
  BY <1>1 DEF ChosenInRange
<1>2. ASSUME NEW g \in Groups, Recheck(g) PROVE ChosenInRange'
  BY <1>2 DEF Recheck, ChosenInRange, Discard
<1>3. ASSUME NEW l \in Legs, CheckRound(l) PROVE ChosenInRange'
  <2> SUFFICES ASSUME NEW m \in Members, chosen'[m] # 0, chosen[m] # chosen'[m]
               PROVE  chosen'[m] \in DOMAIN cached'[m]
    BY <1>3 DEF ChosenInRange, CheckRound, Unproven, TypeOK
  <2>1. m \in Unproven(l) /\ chosen'[m] = round[l] + 1 /\ cached' = cached
    BY <1>3 DEF CheckRound
  <2>2. round[l] < Len(cached[m]) /\ round[l] \in Nat /\ cached[m] \in Seq(Variants)
    BY <2>1 DEF Unproven, TypeOK
  <2> QED BY <2>1, <2>2
<1>4. ASSUME NEW l \in Legs, CloseRounds(l) PROVE ChosenInRange'
  BY <1>4 DEF CloseRounds, ChosenInRange, TypeOK, MembersOf
<1>5. ASSUME NEW l \in Legs, Verify(l) PROVE ChosenInRange'
  BY <1>5 DEF Verify, ChosenInRange, Discard
<1>6. CASE Degrade
  BY <1>6 DEF Degrade, ChosenInRange, TypeOK
<1> QED BY <1>1, <1>2, <1>3, <1>4, <1>5, <1>6, Steps DEF Snapshot, StartUnit,
     Exit, RunAlone, FinishFirst, FinishRetry, StartExecution,
     StartIneligible, StartVerification, StartWave, EndWave, Report, Abandon,
     Move, vars, Finish

-----------------------------------------------------------------------------
(* Inputs that stood still, and the records *)

LEMMA StillKept ==
  ASSUME UNCHANGED <<tree, snap, degraded>>, NEW u, NEW s
  PROVE  Still(u, s)' <=> Still(u, s)
BY DEF Still, HasLeg, Same

LEMMA StillOf ==
  ASSUME NEW u, NEW live, NEW queue, NEW procs, NEW s
  PROVE  Still(Running(u, live, queue, procs), s) <=> Still(u, s)
BY DEF Still, HasLeg, Running

(* Files only move on: what is the snapshot's after a move was so before it. *)
LEMMA StillBefore ==
  ASSUME TypeOK, StoodStill, NEW f \in Files, Move(f),
         NEW u, NEW s \in Subjects, Still(u, s)'
  PROVE  Still(u, s)
<1> DEFINE g == GroupOf[u.inv]
<1>1. snap' = snap /\ degraded' = degraded /\ tree' = [tree EXCEPT ![f] = @ + 1]
  BY DEF Move, prepVars
<1>2. HasLeg(u) /\ g \in Groups /\ snap[g] # NoTree
  BY <1>1, Cover DEF Still, HasLeg
<1>3. snap[g] \in [Files -> Nat] /\ tree \in [Files -> Nat] /\ Reads[s] \subseteq Files
  BY <1>2, RunShape DEF TypeOK, Trees
<1>4. \A h \in Reads[s] : tree'[h] = snap[g][h]
  BY <1>1 DEF Still, Same
<1>5. snap[g][f] <= tree[f]
  BY <1>2 DEF StoodStill
<1>6. f \notin Reads[s]
  BY <1>1, <1>3, <1>4, <1>5
<1>7. \A h \in Reads[s] : tree[h] = snap[g][h]
  BY <1>1, <1>3, <1>4, <1>6
<1> QED BY <1>2, <1>7 DEF Still, Same

LEMMA ExitStoodStill ==
  ASSUME TypeOK, StoodStill, NEW u \in running, Exit(u)
  PROVE  StoodStill'
<1>1. UNCHANGED <<tree, snap, degraded>>
  BY DEF Exit, prepVars
<1>2. PICK e \in Ends(u) : running' = (running \ {u}) \cup
            {Running(u, {}, AloneNext(u, e), Append(u.procs, Exited(u, e)))}
  BY DEF Exit
<1> DEFINE v == Running(u, {}, AloneNext(u, e), Append(u.procs, Exited(u, e)))
<1>3. u.procs \in Seq(Procs) /\ Exited(u, e) \in Procs
  BY ExitedTyped DEF TypeOK, RunningUnits
<1>4. ASSUME NEW k \in DOMAIN v.procs, NEW s \in v.procs[k].names, Still(u, s)
      PROVE  s \in v.procs[k].steady
  <2>1. v.procs = Append(u.procs, Exited(u, e))
    BY DEF Running
  <2>2. CASE k \in DOMAIN u.procs
    <3>1. v.procs[k] = u.procs[k]
      BY <1>3, <2>1, <2>2
    <3> QED BY <1>4, <2>2, <3>1 DEF StoodStill
  <2>3. CASE k \notin DOMAIN u.procs
    <3>1. v.procs[k] = Exited(u, e)
      BY <1>3, <2>1, <2>3
    <3>2. s \in u.live
      BY <3>1 DEF Exited
    <3>3. s \in u.steady
      BY <1>4, <3>2 DEF StoodStill
    <3>4. s \in Unmoved(u, u.live)
      BY <1>4, <3>2 DEF Unmoved, Still
    <3> QED BY <3>1, <3>3, <3>4 DEF Exited
  <2> QED BY <2>2, <2>3
<1>5. v.live = {}
  BY DEF Running
<1>6. \A s : Still(v, s) <=> Still(u, s)
  BY StillOf
<1>7. \A w, s : Still(w, s)' <=> Still(w, s)
  BY <1>1, StillKept
<1> HIDE DEF v
<1> QED BY <1>1, <1>2, <1>4, <1>5, <1>6, <1>7 DEF StoodStill, v

LEMMA AloneStoodStill ==
  ASSUME TypeOK, StoodStill, NEW u \in running, RunAlone(u)
  PROVE  StoodStill'
<1>1. UNCHANGED <<tree, snap, degraded>>
  BY DEF RunAlone, prepVars
<1>2. PICK t \in u.queue :
        running' = (running \ {u}) \cup {Running(u, {t}, u.queue \ {t}, u.procs)}
  BY DEF RunAlone
<1> DEFINE v == Running(u, {t}, u.queue \ {t}, u.procs)
<1>3. v.live = {t} /\ v.steady = Unmoved(u, {t}) /\ v.procs = u.procs
  BY DEF Running
<1>4. Still(u, t) => t \in v.steady
  BY <1>3 DEF Unmoved, Still
<1>5. \A s : Still(v, s) <=> Still(u, s)
  BY StillOf
<1>6. \A w, s : Still(w, s)' <=> Still(w, s)
  BY <1>1, StillKept
<1>7. \A w \in running' : w \in running \/ w = v
  BY <1>2
<1>8. \A s \in v.live : Still(v, s) => s \in v.steady
  BY <1>3, <1>4, <1>5
<1>9. \A k \in DOMAIN v.procs : \A s \in v.procs[k].names :
        Still(v, s) => s \in v.procs[k].steady
  BY <1>3, <1>5 DEF StoodStill
<1> HIDE DEF v
<1> QED BY <1>1, <1>6, <1>7, <1>8, <1>9 DEF StoodStill

LEMMA StartStoodStill ==
  ASSUME TypeOK, StoodStill, NEW u \in todo, StartUnit(u)
  PROVE  StoodStill'
<1>1. UNCHANGED <<tree, snap, degraded>>
  BY DEF StartUnit, prepVars
<1>2. PICK names \in MainNames(u) : running' = running \cup {Running(u, names, {}, <<>>)}
  BY DEF StartUnit
<1> DEFINE v == Running(u, names, {}, <<>>)
<1>3. v.live = names /\ v.steady = Unmoved(u, names) /\ v.procs = <<>>
  BY DEF Running
<1>4. \A s \in names : Still(u, s) => s \in v.steady
  BY <1>3 DEF Unmoved, Still
<1>5. \A s : Still(v, s) <=> Still(u, s)
  BY StillOf
<1>6. \A w, s : Still(w, s)' <=> Still(w, s)
  BY <1>1, StillKept
<1>7. DOMAIN v.procs = {}
  BY <1>3
<1> HIDE DEF v
<1> QED BY <1>1, <1>2, <1>3, <1>4, <1>5, <1>6, <1>7 DEF StoodStill, v

LEMMA MoveStoodStill ==
  ASSUME TypeOK, StoodStill, NEW f \in Files, Move(f)
  PROVE  StoodStill'
<1>1. snap' = snap /\ running' = running /\ tree' = [tree EXCEPT ![f] = @ + 1]
  BY DEF Move, prepVars, execVars
<1>2. \A g \in Groups : snap'[g] # NoTree => \A h \in Files : snap'[g][h] <= tree'[h]
  <2> SUFFICES ASSUME NEW g \in Groups, snap[g] # NoTree, NEW h \in Files
               PROVE  snap[g][h] <= tree'[h]
    BY <1>1
  <2>1. snap[g] \in [Files -> Nat] /\ tree \in [Files -> Nat] /\ snap[g][h] <= tree[h]
    BY DEF TypeOK, Trees, StoodStill
  <2> QED BY <1>1, <2>1
<1>3. \A u \in running : \A s \in u.live : Still(u, s)' => s \in u.steady
  BY StillBefore DEF StoodStill, TypeOK, RunningUnits
<1>4. ASSUME NEW u \in running, NEW k \in DOMAIN u.procs, NEW s \in u.procs[k].names,
             Still(u, s)'
      PROVE  s \in u.procs[k].steady
  <2>1. u.procs[k] \in Procs
    BY DEF TypeOK, RunningUnits
  <2>2. s \in Subjects
    BY <2>1 DEF Procs
  <2> QED BY <1>4, <2>2, StillBefore DEF StoodStill
<1> QED BY <1>1, <1>2, <1>3, <1>4 DEF StoodStill

LEMMA NextStoodStill ==
  TypeOK /\ Quiet /\ StoodStill /\ [Next]_vars => StoodStill'
<1> SUFFICES ASSUME TypeOK, Quiet, StoodStill, [Next]_vars PROVE StoodStill'
  OBVIOUS
<1> USE DEF prepVars, execVars, retryVars, bookVars
<1>1. CASE UNCHANGED <<tree, snap, degraded>> /\ running' \subseteq running
  <2>1. \A w, s : Still(w, s)' <=> Still(w, s)
    BY <1>1, StillKept
  <2> QED BY <1>1, <2>1 DEF StoodStill
<1>2. ASSUME NEW g \in Groups, Snapshot(g) PROVE StoodStill'
  <2>1. running' = {} /\ tree' = tree
    BY <1>2 DEF Snapshot, Quiet
  <2>2. \A h \in Groups : snap'[h] = snap[h] \/ snap'[h] = tree
    BY <1>2 DEF Snapshot, TypeOK
  <2>3. \A f \in Files : tree[f] <= tree[f]
    BY DEF TypeOK, Trees
  <2> QED BY <2>1, <2>2, <2>3 DEF StoodStill
<1>3. ASSUME NEW u \in todo, StartUnit(u) PROVE StoodStill'
  BY <1>3, StartStoodStill
<1>4. ASSUME NEW u \in running, Exit(u) PROVE StoodStill'
  BY <1>4, ExitStoodStill
<1>5. ASSUME NEW u \in running, RunAlone(u) PROVE StoodStill'
  BY <1>5, AloneStoodStill
<1>6. CASE Degrade
  <2>1. running' = {} /\ tree' = tree /\ snap' = snap
    BY <1>6 DEF Degrade, Quiet
  <2> QED BY <2>1 DEF StoodStill
<1>7. CASE StartWave
  <2>1. running' = {} /\ tree' = tree
    BY <1>7 DEF StartWave, Quiet, Settled
  <2>2. \A h \in Groups : snap'[h] = snap[h] \/ snap'[h] = tree \/ snap'[h] = NoTree
    BY <1>7 DEF StartWave, TypeOK
  <2>3. \A f \in Files : tree[f] <= tree[f]
    BY DEF TypeOK, Trees
  <2> QED BY <2>1, <2>2, <2>3 DEF StoodStill
<1>8. ASSUME NEW f \in Files, Move(f) PROVE StoodStill'
  BY <1>8, MoveStoodStill
<1> QED BY <1>1, <1>2, <1>3, <1>4, <1>5, <1>6, <1>7, <1>8, Steps DEF Recheck,
     CheckRound, CloseRounds, Verify, FinishFirst, FinishRetry,
     StartExecution, StartIneligible, StartVerification, EndWave, Report,
     Abandon, vars, Finish

LEMMA SmallestOf ==
  ASSUME NEW K \in SUBSET Nat, K # {}
  PROVE  First(K) \in K
<1> DEFINE R == OpToRel(<, Nat)
<1>1. PICK k \in K : \A j \in K : ~ (<<j, k>> \in R)
  BY NatLessThanWellFounded, WFMin
<1>2. ASSUME NEW j \in K PROVE k <= j
  <2>1. j \in Nat /\ k \in Nat
    OBVIOUS
  <2>2. j < k => <<j, k>> \in R
    BY <2>1 DEF OpToRel
  <2> HIDE DEF R
  <2> QED BY <1>1, <2>1, <2>2
<1> QED BY <1>2 DEF First

(* What a unit publishes is one of its processes' own account.               *)
LEMMA PublishedTrue ==
  ASSUME TypeOK, StoodStill, NEW u \in running, NEW s \in Publishable(u)
  PROVE  \E k \in DOMAIN u.procs :
           /\ RecordOf(u, s).group = GroupOf[u.inv]
           /\ u.procs[k].disp = "healthy"
           /\ RecordOf(u, s).subject = s /\ s \in u.procs[k].steady
           /\ u.procs[k].rows[s] = RecordOf(u, s).outcome
           /\ RecordOf(u, s).fp = Fingerprint(s, Through(u).base)
<1> DEFINE K == Grants(u, s)
<1>1. HasLeg(u) /\ K # {}
  BY DEF Publishable
<1>2. K \subseteq DOMAIN u.procs /\ DOMAIN u.procs \subseteq Nat
  BY DEF Grants, TypeOK, RunningUnits
<1>3. PICK k \in K : k = First(K)
  <2> HIDE DEF K
  <2> QED BY <1>1, <1>2, SmallestOf
<1>4. s \in u.procs[k].names /\ u.procs[k].disp = "healthy" /\ s \in Valid(u, u.procs[k])
  BY DEF Grants, Eligible
<1>5. Still(u, s)
  BY <1>1, <1>4 DEF Valid, Still
<1>6. s \in u.procs[k].steady
  BY <1>2, <1>4, <1>5 DEF StoodStill
<1>7. RecordOf(u, s).fp = Fingerprint(s, Through(u).base)
  BY <1>1 DEF RecordOf, Record, Through
<1>8. /\ RecordOf(u, s).group = GroupOf[u.inv] /\ RecordOf(u, s).subject = s
      /\ RecordOf(u, s).outcome = u.procs[k].rows[s]
  BY <1>3 DEF RecordOf, Record
<1> QED BY <1>2, <1>4, <1>6, <1>7, <1>8

LEMMA FinishTrue ==
  ASSUME TypeOK, StoodStill, RecordsTrue, NEW u \in running,
         NEW L \in SUBSET Publishable(u), Finish(u, L), UNCHANGED cached
  PROVE  RecordsTrue'
<1>1. Through(u) \in units' /\ units \subseteq units'
  BY DEF Finish
<1>2. ASSUME NEW s \in L
      PROVE  \E k \in DOMAIN Through(u).procs :
               /\ RecordOf(u, s).group = GroupOf[Through(u).inv]
               /\ Through(u).procs[k].disp = "healthy"
               /\ RecordOf(u, s).subject \in Through(u).procs[k].steady
               /\ Through(u).procs[k].rows[RecordOf(u, s).subject] = RecordOf(u, s).outcome
               /\ RecordOf(u, s).fp = Fingerprint(RecordOf(u, s).subject, Through(u).base)
  <2>1. Through(u).procs = u.procs /\ Through(u).inv = u.inv
    BY DEF Through
  <2> QED BY <2>1, PublishedTrue
<1>3. installed' = installed \cup {RecordOf(u, s) : s \in L}
  BY DEF Finish
<1>4. ASSUME NEW r \in installed', r \notin installed
      PROVE  \E v \in units' : \E k \in DOMAIN v.procs :
               /\ r.group = GroupOf[v.inv]
               /\ v.procs[k].disp = "healthy"
               /\ r.subject \in v.procs[k].steady
               /\ v.procs[k].rows[r.subject] = r.outcome
               /\ r.fp = Fingerprint(r.subject, v.base)
  BY <1>1, <1>2, <1>3, <1>4
<1> QED
  <2> SUFFICES ASSUME NEW r \in installed', r \in installed PROVE RecordTrue(r)'
    BY <1>4 DEF RecordsTrue, RecordTrue
  <2>1. RecordTrue(r)
    BY DEF RecordsTrue
  <2> QED BY <1>1, <2>1 DEF RecordTrue

LEMMA VerifyTrue ==
  ASSUME TypeOK, ChosenInRange, RecordsTrue, NEW l \in Legs, Verify(l)
  PROVE  RecordsTrue'
<1>1. UNCHANGED <<cached, units, chosen>>
  BY DEF Verify, prepVars, execVars
<1>2. PICK L \in SUBSET {m \in served : Chosen(m).grown} :
        installed' = installed \cup
          {Record(m, [f \in Reads[m[2]] |-> Chosen(m).version], Chosen(m).outcome) : m \in L}
  <2>1. PICK keep \in SUBSET (served \cap MembersOf(l)) :
          \E L \in Landings({m \in keep : Chosen(m).grown}) :
            installed' = installed \cup
              {Record(m, [f \in Reads[m[2]] |-> Chosen(m).version], Chosen(m).outcome) : m \in L}
    BY DEF Verify
  <2> QED BY <2>1 DEF Landings
<1>3. ASSUME NEW m \in L
      PROVE  \E k \in DOMAIN cached[m] :
               /\ cached[m][k].grown
               /\ Record(m, [f \in Reads[m[2]] |-> Chosen(m).version], Chosen(m).outcome) =
                  Record(m, [f \in Reads[m[2]] |-> cached[m][k].version], cached[m][k].outcome)
  BY DEF Chosen, ChosenInRange, TypeOK
<1>4. L \subseteq Members
  BY DEF TypeOK
<1>5. ASSUME NEW m \in L
      PROVE  RecordTrue(Record(m, [f \in Reads[m[2]] |-> Chosen(m).version],
                               Chosen(m).outcome))
  BY <1>3, <1>4 DEF RecordTrue
<1>6. \A r \in installed' : RecordTrue(r)
  BY <1>2, <1>5 DEF RecordsTrue
<1>7. ASSUME NEW r, RecordTrue(r) PROVE RecordTrue(r)'
  BY <1>1, <1>7 DEF RecordTrue
<1> QED BY <1>6, <1>7 DEF RecordsTrue

LEMMA RecordsKept ==
  ASSUME RecordsTrue, UNCHANGED <<installed, units, cached>>
  PROVE  RecordsTrue'
<1>1. ASSUME NEW r, RecordTrue(r) PROVE RecordTrue(r)'
  BY <1>1 DEF RecordTrue
<1> QED BY <1>1 DEF RecordsTrue

LEMMA NextRecords ==
  TypeOK /\ StoodStill /\ ChosenInRange /\ RecordsTrue /\ [Next]_vars => RecordsTrue'
<1> SUFFICES ASSUME TypeOK, StoodStill, ChosenInRange, RecordsTrue, [Next]_vars PROVE RecordsTrue'
  OBVIOUS
<1> USE DEF prepVars, execVars, retryVars, bookVars
<1>1. CASE UNCHANGED <<installed, units, cached>>
  BY <1>1, RecordsKept
<1>2. ASSUME NEW l \in Legs, Verify(l) PROVE RecordsTrue'
  BY <1>2, VerifyTrue
<1>3. ASSUME NEW u \in running, FinishFirst(u) PROVE RecordsTrue'
  BY <1>3, FinishTrue DEF FinishFirst, Landings
<1>4. ASSUME NEW u \in running, FinishRetry(u) PROVE RecordsTrue'
  BY <1>4, FinishTrue DEF FinishRetry, Landings
<1> QED BY <1>1, <1>2, <1>3, <1>4, Steps DEF Snapshot, Recheck, CheckRound,
     CloseRounds, StartUnit, Exit, RunAlone, StartExecution, Degrade,
     StartIneligible, StartVerification, StartWave, EndWave, Report, Abandon,
     Move, vars

-----------------------------------------------------------------------------
(* What a denial covers, and what is in the store *)

(* What was seen to move is denied.                                          *)
Denials == revoked \subseteq denied

(* What the run calls published has its record, and so has a retry's deposit, *)
(* of its own snapshot.                                                      *)
Filed ==
  /\ \A m \in published : \E r \in installed : r.group = m[1] /\ r.subject = m[2]
  /\ \A c \in deposited : \E r \in installed :
       /\ r.group = GroupOf[c.inv] /\ r.subject = c.subject
       /\ r.fp = Fingerprint(c.subject, c.base)

LEMMA NextDenials == Denials /\ [Next]_vars => Denials'
<1> SUFFICES ASSUME Denials, [Next]_vars PROVE Denials'
  OBVIOUS
<1> USE DEF prepVars, execVars, retryVars, bookVars
<1>1. CASE UNCHANGED <<revoked, denied>>
  BY <1>1 DEF Denials
<1>2. ASSUME NEW g \in Groups, Recheck(g) PROVE Denials'
  <2>1. \E seen : denied' = denied \cup seen /\ revoked' = revoked \cup seen
    BY <1>2 DEF Recheck
  <2> QED BY <2>1 DEF Denials
<1>3. ASSUME NEW u \in running, FinishRetry(u) PROVE Denials'
  <2>1. \E seen : denied' = denied \cup seen /\ revoked' = revoked \cup seen
    BY <1>3 DEF FinishRetry
  <2> QED BY <2>1 DEF Denials
<1> QED BY <1>1, <1>2, <1>3, Steps DEF Snapshot, CheckRound, CloseRounds,
     Verify, StartUnit, Exit, RunAlone, FinishFirst, StartExecution, Degrade,
     StartIneligible, StartVerification, StartWave, EndWave, Report, Abandon,
     Move, vars, Finish

LEMMA RecordOfUnit ==
  ASSUME NEW u, NEW s \in Publishable(u)
  PROVE  /\ RecordOf(u, s).group = GroupOf[u.inv] /\ RecordOf(u, s).subject = s
         /\ RecordOf(u, s).fp = Fingerprint(s, Through(u).base)
BY DEF RecordOf, Record, Through, Publishable

LEMMA FiledKept ==
  ASSUME Filed, installed \subseteq installed', published' = published, deposited' = deposited
  PROVE  Filed'
BY DEF Filed

LEMMA NextFiled == Filed /\ [Next]_vars => Filed'
<1> SUFFICES ASSUME Filed, [Next]_vars PROVE Filed'
  OBVIOUS
<1> USE DEF prepVars, execVars, retryVars, bookVars
<1>1. CASE UNCHANGED <<installed, published, deposited>>
  BY <1>1, FiledKept
<1>2. ASSUME NEW l \in Legs, Verify(l) PROVE Filed'
  BY <1>2, FiledKept DEF Verify
<1>3. ASSUME NEW u \in running, FinishFirst(u) PROVE Filed'
  <2>1. PICK L \in SUBSET Publishable(u) :
          /\ installed' = installed \cup {RecordOf(u, s) : s \in L}
          /\ published' = published \cup {<<GroupOf[u.inv], s>> : s \in L}
    BY <1>3 DEF FinishFirst, Finish, Landings
  <2>2. ASSUME NEW s \in L
        PROVE  \E r \in installed' : r.group = GroupOf[u.inv] /\ r.subject = s
    BY <2>1, RecordOfUnit
  <2>3. deposited' = deposited
    BY <1>3 DEF FinishFirst
  <2> QED BY <2>1, <2>2, <2>3 DEF Filed
<1>4. ASSUME NEW u \in running, FinishRetry(u) PROVE Filed'
  <2>1. PICK L \in SUBSET Publishable(u) :
          /\ installed' = installed \cup {RecordOf(u, s) : s \in L}
          /\ deposited' = deposited \cup
               {c \in Current(u) : c.subject \in L /\ c.nth = First(Grants(u, c.subject))}
    BY <1>4 DEF FinishRetry, Finish, Landings
  <2>2. ASSUME NEW c \in Current(u), c.subject \in L
        PROVE  \E r \in installed' : /\ r.group = GroupOf[c.inv] /\ r.subject = c.subject
                                     /\ r.fp = Fingerprint(c.subject, c.base)
    <3>1. c.inv = u.inv /\ c.base = Through(u).base
      BY DEF Current, Candidate
    <3> QED BY <2>1, <2>2, <3>1, RecordOfUnit
  <2>3. published' = published
    BY <1>4 DEF FinishRetry
  <2> QED BY <2>1, <2>2, <2>3 DEF Filed
<1> QED BY <1>1, <1>2, <1>3, <1>4, Steps DEF Snapshot, Recheck, CheckRound,
     CloseRounds, StartUnit, Exit, RunAlone, StartExecution, Degrade,
     StartIneligible, StartVerification, StartWave, EndWave, Report, Abandon,
     Move, vars

-----------------------------------------------------------------------------
(* What the serving rounds looked at *)

Overlooked(m, k) ==
  /\ m[2] \notin NeverServes /\ chosen[m] = 0
  /\ k <= round[LegOf(m)] /\ Serves(m, cached[m][k], snap[m[1]])

(* While the rounds and the first pass last: no round went over a leg without *)
(* a snapshot, a member no round proved was refused by every round so far,    *)
(* and one that executes has none left.                                      *)
Looked ==
  pc \in {"preparing", "executing"} /\ ~degraded =>
    /\ \A l \in Legs : snap[l[1]] = NoTree => round[l] = 0
    /\ \A m \in Members : \A k \in DOMAIN cached[m] : ~Overlooked(m, k)
    /\ \A m \in stale : /\ chosen[m] = 0
                        /\ m[2] \in NeverServes \/ Len(cached[m]) <= round[LegOf(m)]

LEMMA LookedKept ==
  ASSUME Looked, UNCHANGED <<snap, round, chosen, cached, stale, degraded>>,
         pc' \in {"preparing", "executing"} => pc \in {"preparing", "executing"}
  PROVE  Looked'
BY DEF Looked, Overlooked

LEMMA NextLooked == TypeOK /\ Quiet /\ Looked /\ [Next]_vars => Looked'
<1> SUFFICES ASSUME TypeOK, Quiet, Looked, [Next]_vars PROVE Looked'
  OBVIOUS
<1> USE DEF prepVars, execVars, retryVars, bookVars
<1>0. \A m \in Members : /\ LegOf(m) \in Legs /\ LegOf(m)[1] = m[1] /\ m[1] \in Groups
                         /\ cached[m] \in Seq(Variants) /\ chosen[m] \in Nat
                         /\ round[LegOf(m)] \in Nat
  BY Cover DEF TypeOK, LegOf
<1>1. ASSUME NEW g \in Groups, Snapshot(g) PROVE Looked'
  <2> SUFFICES ASSUME ~degraded PROVE Looked'
    BY <1>1 DEF Snapshot, Looked
  <2>1. /\ pc = "preparing" /\ snap[g] = NoTree /\ snap' = [snap EXCEPT ![g] = tree]
        /\ UNCHANGED <<round, chosen, cached, stale, degraded, pc>>
    BY <1>1 DEF Snapshot
  <2>2. \A l \in Legs : snap'[l[1]] = NoTree => round[l] = 0
    BY <2>1, Cover DEF Looked, TypeOK
  <2>3. ASSUME NEW m \in Members, NEW k \in DOMAIN cached[m] PROVE ~Overlooked(m, k)'
    <3>1. k \in Nat /\ k >= 1
      BY <1>0
    <3>2. CASE m[1] = g
      <4>1. round[LegOf(m)] = 0
        BY <1>0, <2>1, <3>2 DEF Looked
      <4> QED BY <2>1, <3>1, <4>1 DEF Overlooked
    <3>3. CASE m[1] # g
      <4>1. snap'[m[1]] = snap[m[1]]
        BY <1>0, <2>1, <3>3 DEF TypeOK
      <4> QED BY <2>1, <4>1 DEF Looked, Overlooked
    <3> QED BY <3>2, <3>3
  <2> QED BY <2>1, <2>2, <2>3 DEF Looked
<1>2. ASSUME NEW l \in Legs, CheckRound(l) PROVE Looked'
  <2> SUFFICES ASSUME ~degraded PROVE Looked'
    BY <1>2 DEF CheckRound, Looked
  <2>1. /\ pc = "preparing" /\ snap[l[1]] # NoTree
        /\ UNCHANGED <<snap, cached, stale, degraded, pc>>
        /\ round' = [round EXCEPT ![l] = @ + 1]
        /\ chosen' = [m \in Members |->
             IF m \in Unproven(l) /\ Serves(m, cached[m][round[l] + 1], snap[l[1]])
             THEN round[l] + 1 ELSE chosen[m]]
    BY <1>2 DEF CheckRound
  <2>2. round[l] \in Nat /\ round'[l] = round[l] + 1 /\ \A h \in Legs \ {l} : round'[h] = round[h]
    BY <2>1 DEF TypeOK
  <2>3. \A h \in Legs : snap[h[1]] = NoTree => round'[h] = 0
    BY <2>1, <2>2 DEF Looked
  <2>4. ASSUME NEW m \in Members, NEW k \in DOMAIN cached[m] PROVE ~Overlooked(m, k)'
    <3>1. k \in Nat /\ k <= Len(cached[m])
      BY <1>0
    <3> SUFFICES ASSUME m[2] \notin NeverServes, chosen'[m] = 0, k <= round'[LegOf(m)],
                        Serves(m, cached[m][k], snap[m[1]])
                 PROVE  FALSE
      BY <2>1 DEF Overlooked
    <3>2. chosen[m] = 0
      BY <2>1, <2>2
    <3>3. ~(k <= round[LegOf(m)])
      BY <2>1, <3>2 DEF Looked, Overlooked
    <3>4. LegOf(m) = l /\ k = round[l] + 1
      BY <1>0, <2>2, <3>1, <3>3
    <3>5. m \in Unproven(l)
      BY <3>1, <3>2, <3>4, <1>0 DEF Unproven, MembersOf
    <3>6. chosen'[m] = round[l] + 1
      BY <1>0, <2>1, <3>4, <3>5
    <3> QED BY <2>2, <3>6
  <2>5. ASSUME NEW m \in stale
        PROVE  /\ chosen'[m] = 0
               /\ m[2] \in NeverServes \/ Len(cached[m]) <= round'[LegOf(m)]
    <3>1. /\ m \in Members /\ chosen[m] = 0
          /\ m[2] \in NeverServes \/ Len(cached[m]) <= round[LegOf(m)]
      BY <2>1 DEF Looked, TypeOK
    <3>2. round[LegOf(m)] <= round'[LegOf(m)] /\ round'[LegOf(m)] \in Nat /\ Len(cached[m]) \in Nat
      BY <1>0, <2>2, <3>1
    <3>3. m \notin Unproven(l)
      BY <1>0, <3>1 DEF Unproven, MembersOf
    <3> QED BY <1>0, <2>1, <3>1, <3>2, <3>3
  <2> QED BY <2>1, <2>3, <2>4, <2>5 DEF Looked
<1>3. ASSUME NEW l \in Legs, CloseRounds(l) PROVE Looked'
  <2>1. /\ pc = "preparing" /\ Unproven(l) = {}
        /\ UNCHANGED <<snap, round, chosen, cached, degraded, pc>>
        /\ stale' = stale \cup {m \in MembersOf(l) : chosen[m] = 0}
    BY <1>3 DEF CloseRounds
  <2>2. ASSUME NEW m \in MembersOf(l), chosen[m] = 0
        PROVE  m[2] \in NeverServes \/ Len(cached[m]) <= round[LegOf(m)]
    BY <1>0, <2>1, <2>2 DEF Unproven, MembersOf
  <2> QED BY <2>1, <2>2 DEF Looked, Overlooked
<1>4. CASE Degrade
  BY <1>4 DEF Degrade, Looked
<1>5. CASE StartExecution
  BY <1>5, LookedKept DEF StartExecution
<1>6. CASE StartWave
  BY <1>6 DEF StartWave, Looked
<1>7. ASSUME NEW g \in Groups, Recheck(g) PROVE Looked'
  BY <1>7, LookedKept DEF Recheck
<1>8. ASSUME NEW l \in Legs, Verify(l) PROVE Looked'
  BY <1>8, LookedKept DEF Verify
<1>9. ASSUME NEW u \in running, FinishFirst(u) \/ FinishRetry(u) PROVE Looked'
  BY <1>9, LookedKept DEF FinishFirst, FinishRetry
<1>10. ASSUME NEW u \in running, Exit(u) \/ RunAlone(u) PROVE Looked'
  BY <1>10, LookedKept DEF Exit, RunAlone
<1>11. ASSUME NEW u \in todo, StartUnit(u) PROVE Looked'
  BY <1>11, LookedKept DEF StartUnit
<1>12. CASE StartIneligible \/ StartVerification \/ EndWave \/ Report \/ Abandon
  BY <1>12, LookedKept DEF StartIneligible, StartVerification, EndWave, Report, Abandon
<1>13. ASSUME NEW f \in Files, Move(f) PROVE Looked'
  BY <1>13, LookedKept DEF Move
<1>14. CASE UNCHANGED vars
  BY <1>14, LookedKept DEF vars
<1> QED BY <1>1, <1>2, <1>3, <1>4, <1>5, <1>6, <1>7, <1>8, <1>9, <1>10, <1>11, <1>12,
          <1>13, <1>14, Steps

-----------------------------------------------------------------------------
(* Every expected test is answered *)

(* A unit of one of the waves W, to run, running or through, runs s under i.  *)
Asked(i, s, W) ==
  \/ wave \in W /\ \E u \in todo \cup running : u.inv = i /\ s \in u.names
  \/ \E u \in units : u.wave \in W /\ u.inv = i /\ s \in u.names

(* The first pass answers what was never served, a retry what drifted.       *)
Waves(m) == IF m \in used THEN Nat \ {0} ELSE {0}
Awaited(m) ==
  \/ m \in served \cup pending
  \/ m[2] \in skipped
  \/ Asked(InvOf(m[1], PkgOf[m[2]]), m[2], Waves(m))

(* A serve that is taken back waits, and one that was retried waits no more.  *)
Lists ==
  /\ wave \in Nat
  /\ served \cap (pending \cup used) = {} /\ pending \cap used = {}
  /\ pc \in {"preparing", "executing", "ineligible"} => pending = {} /\ used = {} /\ wave = 0
  /\ pc = "done" => pending = {}

Answered ==
  /\ pc = "preparing" => \A m \in Members : LegOf(m) \in ready => m \in served \cup stale
  /\ pc \notin {"preparing", "aborted"} =>
       /\ \A m \in Members : Awaited(m)
       /\ \A i \in Invocations : \A s \in AmbiguousUnder(i) : s \in skipped \/ Asked(i, s, Nat)

LEMMA NextLists == TypeOK /\ Quiet /\ Lists /\ [Next]_vars => Lists'
<1> SUFFICES ASSUME TypeOK, Quiet, Lists, [Next]_vars PROVE Lists'
  OBVIOUS
<1> USE DEF prepVars, execVars, retryVars, bookVars
<1>1. CASE UNCHANGED <<wave, served, pending, used, pc>>
  BY <1>1 DEF Lists
<1>2. ASSUME NEW g \in Groups, Recheck(g) PROVE Lists'
  <2>1. \E lost \in SUBSET served : Discard(lost)
    BY <1>2 DEF Recheck
  <2>2. pc = "rechecking" /\ UNCHANGED <<wave, used, pc>>
    BY <1>2 DEF Recheck
  <2> QED BY <2>1, <2>2 DEF Lists, Discard
<1>3. ASSUME NEW l \in Legs, Verify(l) PROVE Lists'
  <2>1. \E lost \in SUBSET served : Discard(lost)
    BY <1>3 DEF Verify
  <2>2. pc = "verifying" /\ UNCHANGED <<wave, used, pc>>
    BY <1>3 DEF Verify
  <2> QED BY <2>1, <2>2 DEF Lists, Discard
<1>4. ASSUME NEW l \in Legs, CloseRounds(l) PROVE Lists'
  BY <1>4 DEF CloseRounds, Lists
<1>5. CASE StartExecution
  BY <1>5 DEF StartExecution, Begin, Lists
<1>6. CASE Degrade
  BY <1>6 DEF Degrade, Begin, Lists
<1>7. CASE StartIneligible \/ StartVerification
  BY <1>7 DEF StartIneligible, StartVerification, Lists
<1>8. CASE StartWave
  <2>1. /\ wave' = wave + 1 /\ used' = used \cup Wave /\ pending' = {} /\ served' = served
        /\ pc' = "retrying"
    BY <1>8 DEF StartWave
  <2>2. Wave \subseteq pending
    BY DEF Wave
  <2> QED BY <2>1, <2>2 DEF Lists
<1>9. CASE EndWave \/ Report \/ Abandon
  BY <1>9 DEF EndWave, Report, Abandon, Lists, Active
<1> QED BY <1>1, <1>2, <1>3, <1>4, <1>5, <1>6, <1>7, <1>8, <1>9, Steps DEF Snapshot,
     CheckRound, StartUnit, Exit, RunAlone, FinishFirst, FinishRetry, Finish, Move, vars

(* A selected test is asked for, under the invocation that selects it.       *)
LEMMA UnitsAsk ==
  ASSUME NEW sel, NEW i \in Invocations, NEW s \in sel[i], PkgOf[s] \in Packages
  PROVE  \E u \in Units(sel) : u.inv = i /\ s \in u.names
<1> DEFINE u == [inv |-> i, pkg |-> PkgOf[s], names |-> {t \in sel[i] : PkgOf[t] = PkgOf[s]}]
<1>1. <<i, PkgOf[s]>> \in {y \in Invocations \X Packages : \E t \in sel[y[1]] : PkgOf[t] = y[2]}
  OBVIOUS
<1>2. u \in Units(sel)
  BY <1>1 DEF Units
<1> QED BY <1>2

(* A member's package has one invocation of its group, and is routed there.  *)
LEMMA MemberRouted ==
  ASSUME NEW m \in Members, NEW M, m \in M
  PROVE  /\ InvOf(m[1], PkgOf[m[2]]) \in Invocations
         /\ m[2] \in Routed(M, InvOf(m[1], PkgOf[m[2]]))
         /\ PkgOf[m[2]] \in Packages
<1> DEFINE C == Covering(m[1], PkgOf[m[2]])
           i == InvOf(m[1], PkgOf[m[2]])
<1>1. m = <<m[1], m[2]>> /\ m[2] \in Subjects /\ <<m[1], PkgOf[m[2]]>> \in Legs
  BY DEF Members
<1>2. Cardinality(C) = 1
  BY <1>1 DEF Legs
<1>3. C # {}
  BY <1>2, FS_EmptySet
<1>4. i \in C
  BY <1>3 DEF InvOf
<1>5. i \in Invocations /\ GroupOf[i] = m[1]
  BY <1>4 DEF Covering
<1>6. m[2] \in Routed(M, i)
  BY <1>1, <1>5 DEF Routed
<1> QED BY <1>1, <1>5, <1>6, RunShape

(* What was asked for stays asked for while its pass goes on ...             *)
LEMMA AskedInPass ==
  ASSUME TypeOK,
         \/ \E u \in todo : StartUnit(u)
         \/ \E u \in running : Exit(u) \/ RunAlone(u) \/ FinishFirst(u) \/ FinishRetry(u),
         NEW i, NEW s, NEW W, Asked(i, s, W)
  PROVE  Asked(i, s, W)'
<1> USE DEF prepVars, execVars, retryVars, bookVars
<1>1. ASSUME NEW u \in todo, StartUnit(u) PROVE Asked(i, s, W)'
  <2>1. PICK names : running' = running \cup {Running(u, names, {}, <<>>)}
    BY <1>1 DEF StartUnit
  <2>2. todo' = todo \ {u} /\ UNCHANGED <<units, wave>>
    BY <1>1 DEF StartUnit
  <2>3. /\ Running(u, names, {}, <<>>).inv = u.inv
        /\ Running(u, names, {}, <<>>).names = u.names
    BY DEF Running
  <2> QED BY <2>1, <2>2, <2>3 DEF Asked
<1>2. ASSUME NEW u \in running, Exit(u) \/ RunAlone(u) PROVE Asked(i, s, W)'
  <2>1. PICK live, queue, procs : running' = (running \ {u}) \cup {Running(u, live, queue, procs)}
    BY <1>2 DEF Exit, RunAlone
  <2>2. UNCHANGED <<todo, units, wave>>
    BY <1>2 DEF Exit, RunAlone
  <2>3. /\ Running(u, live, queue, procs).inv = u.inv
        /\ Running(u, live, queue, procs).names = u.names
    BY DEF Running
  <2> QED BY <2>1, <2>2, <2>3 DEF Asked
<1>3. ASSUME NEW u \in running, FinishFirst(u) \/ FinishRetry(u) PROVE Asked(i, s, W)'
  <2>1. /\ running' = running \ {u} /\ units' = units \cup {Through(u)}
        /\ UNCHANGED <<todo, wave>>
    BY <1>3 DEF FinishFirst, FinishRetry, Finish
  <2>2. Through(u).inv = u.inv /\ Through(u).names = u.names /\ Through(u).wave = wave
    BY DEF Through
  <2> QED BY <2>1, <2>2 DEF Asked
<1> QED BY <1>1, <1>2, <1>3

(* ... and between two passes it is through.                                 *)
LEMMA AskedBetween ==
  ASSUME todo = {}, running = {}, units' = units,
         NEW i, NEW s, NEW W, Asked(i, s, W)
  PROVE  Asked(i, s, W)'
BY DEF Asked

LEMMA AnsweredKept ==
  ASSUME Answered, UNCHANGED <<ready, stale, used>>, skipped \subseteq skipped',
         served \cup pending \subseteq served' \cup pending', served \subseteq served' \/ pc' # "preparing",
         pc' \notin {"preparing", "aborted"} => pc \notin {"preparing", "aborted"},
         pc' = "preparing" => pc = "preparing",
         \A i, s, W : Asked(i, s, W) => Asked(i, s, W)'
  PROVE  Answered'
<1>1. pc' = "preparing" => \A m \in Members : LegOf(m) \in ready' => m \in served' \cup stale'
  BY DEF Answered
<1>2. ASSUME pc' \notin {"preparing", "aborted"}, NEW m \in Members PROVE Awaited(m)'
  <2>1. Awaited(m)
    BY <1>2 DEF Answered
  <2> QED BY <2>1 DEF Awaited, Waves
<1>3. ASSUME pc' \notin {"preparing", "aborted"}, NEW i \in Invocations, NEW s \in AmbiguousUnder(i)
      PROVE  s \in skipped' \/ Asked(i, s, Nat)'
  BY <1>3 DEF Answered
<1>4. \A i : AmbiguousUnder(i)' = AmbiguousUnder(i)
  BY DEF AmbiguousUnder
<1> QED BY <1>1, <1>2, <1>3, <1>4 DEF Answered

(* The first pass asks for every member it is begun with that may execute.   *)
LEMMA BeginAnswers ==
  ASSUME TypeOK, Lists, pc = "preparing", NEW M, Begin(M), UNCHANGED <<scope, wave, used>>,
         \A m \in Members : m \in served' \/ m \in M
  PROVE  Answered'
<1> DEFINE sel == [i \in Invocations |-> scope \cap (Routed(M, i) \cup AmbiguousUnder(i))]
<1>1. /\ pc' = "executing" /\ todo' = Units(sel)
      /\ skipped' = ({m[2] : m \in M} \cup UNION {AmbiguousUnder(i) : i \in Invocations}) \ scope
  BY DEF Begin
<1>2. wave' = 0 /\ used' = {}
  BY DEF Lists
<1>3. ASSUME NEW i \in Invocations, NEW s \in sel[i], PkgOf[s] \in Packages, NEW W, 0 \in W
      PROVE  Asked(i, s, W)'
  <2> HIDE DEF sel
  <2>1. \E u \in todo' : u.inv = i /\ s \in u.names
    BY <1>1, <1>3, UnitsAsk
  <2> QED BY <1>2, <1>3, <2>1 DEF Asked
<1>4. ASSUME NEW m \in Members PROVE Awaited(m)'
  <2> SUFFICES ASSUME m \in M, m[2] \in scope PROVE Awaited(m)'
    BY <1>1 DEF Awaited
  <2> DEFINE i == InvOf(m[1], PkgOf[m[2]])
  <2>1. i \in Invocations /\ m[2] \in Routed(M, i) /\ PkgOf[m[2]] \in Packages
    BY MemberRouted
  <2>2. m[2] \in sel[i]
    BY <2>1
  <2>3. Asked(i, m[2], {0})'
    BY <1>3, <2>1, <2>2
  <2>4. Waves(m)' = {0}
    BY <1>2 DEF Waves
  <2> QED BY <2>3, <2>4 DEF Awaited
<1>5. ASSUME NEW i \in Invocations, NEW s \in AmbiguousUnder(i), s \notin skipped'
      PROVE  Asked(i, s, Nat)'
  <2>1. s \in Subjects
    BY DEF AmbiguousUnder
  <2>2. PkgOf[s] \in Packages /\ s \in sel[i]
    BY <1>1, <1>5, <2>1, RunShape
  <2> QED BY <1>3, <2>2
<1>6. \A i : AmbiguousUnder(i)' = AmbiguousUnder(i)
  BY DEF AmbiguousUnder
<1> QED BY <1>1, <1>4, <1>5, <1>6 DEF Answered

(* A wave asks for everything that waits and may execute.                    *)
LEMMA WaveAnswers ==
  ASSUME TypeOK, Quiet, Lists, Answered, StartWave
  PROVE  Answered'
<1> DEFINE sel == [i \in Invocations |-> Routed(Wave, i)]
<1>1. /\ pc' = "retrying" /\ wave' = wave + 1 /\ todo' = Units(sel)
      /\ used' = used \cup Wave /\ pending' = {} /\ UNCHANGED <<served, units>>
      /\ skipped' = skipped \cup ({m[2] : m \in pending} \ scope)
  BY DEF StartWave, execVars
<1>2. todo = {} /\ running = {} /\ pc \in {"verifying", "rechecking"} /\ Wave \subseteq pending
  BY DEF StartWave, Settled, Quiet, Wave
<1>3. ASSUME NEW m \in Members PROVE Awaited(m)'
  <2> DEFINE i == InvOf(m[1], PkgOf[m[2]])
  <2>1. CASE m \in Wave
    <3>1. i \in Invocations /\ m[2] \in Routed(Wave, i) /\ PkgOf[m[2]] \in Packages
      BY <2>1, MemberRouted
    <3>2. m[2] \in sel[i]
      BY <3>1
    <3> HIDE DEF sel
    <3>3. \E u \in todo' : u.inv = i /\ m[2] \in u.names
      BY <1>1, <3>1, <3>2, UnitsAsk
    <3>4. wave' \in Nat \ {0} /\ Waves(m)' = Nat \ {0}
      BY <1>1, <2>1 DEF Lists, Waves
    <3>5. Asked(i, m[2], Waves(m))'
      BY <3>3, <3>4 DEF Asked
    <3> QED BY <3>5 DEF Awaited
  <2>2. CASE m \in pending \ Wave
    <3>1. m[2] \notin scope
      BY <2>2 DEF Wave, Lists
    <3> QED BY <1>1, <2>2, <3>1 DEF Awaited
  <2>3. CASE m \notin pending
    <3>1. Awaited(m) /\ Waves(m)' = Waves(m)
      BY <1>1, <1>2, <2>3 DEF Answered, Waves
    <3>2. Asked(i, m[2], Waves(m)) => Asked(i, m[2], Waves(m))'
      BY <1>1, <1>2, <3>1 DEF Asked
    <3> QED BY <1>1, <2>3, <3>1, <3>2 DEF Awaited
  <2> QED BY <2>1, <2>2, <2>3
<1>4. ASSUME NEW i \in Invocations, NEW s \in AmbiguousUnder(i)
      PROVE  s \in skipped' \/ Asked(i, s, Nat)'
  BY <1>1, <1>2, AskedBetween DEF Answered
<1>5. \A i : AmbiguousUnder(i)' = AmbiguousUnder(i)
  BY DEF AmbiguousUnder
<1> QED BY <1>1, <1>3, <1>4, <1>5 DEF Answered

LEMMA NextAnswered == TypeOK /\ Quiet /\ Lists /\ Answered /\ [Next]_vars => Answered'
<1> SUFFICES ASSUME TypeOK, Quiet, Lists, Answered, [Next]_vars PROVE Answered'
  OBVIOUS
<1> USE DEF prepVars, execVars, retryVars, bookVars
<1>1. ASSUME UNCHANGED <<todo, running, units, wave>>, NEW i, NEW s, NEW W, Asked(i, s, W)
      PROVE  Asked(i, s, W)'
  BY <1>1 DEF Asked
<1>2. ASSUME NEW g \in Groups, Snapshot(g) PROVE Answered'
  BY <1>1, <1>2, AnsweredKept DEF Snapshot
<1>3. ASSUME NEW g \in Groups, Recheck(g) PROVE Answered'
  <2>1. \E lost : Discard(lost)
    BY <1>3 DEF Recheck
  <2>2. /\ pc = "rechecking"
        /\ UNCHANGED <<pc, todo, running, units, wave, ready, stale, used, skipped>>
    BY <1>3 DEF Recheck
  <2> QED BY <1>1, <2>1, <2>2, AnsweredKept DEF Discard
<1>4. ASSUME NEW l \in Legs, CheckRound(l) PROVE Answered'
  BY <1>1, <1>4, AnsweredKept DEF CheckRound
<1>5. ASSUME NEW l \in Legs, CloseRounds(l) PROVE Answered'
  BY <1>5 DEF CloseRounds, Answered, MembersOf
<1>6. ASSUME NEW l \in Legs, Verify(l) PROVE Answered'
  <2>1. \E lost : Discard(lost)
    BY <1>6 DEF Verify
  <2>2. /\ pc = "verifying"
        /\ UNCHANGED <<pc, todo, running, units, wave, ready, stale, used, skipped>>
    BY <1>6 DEF Verify
  <2> QED BY <1>1, <2>1, <2>2, AnsweredKept DEF Discard
<1>7. ASSUME \/ \E u \in todo : StartUnit(u)
             \/ \E u \in running : Exit(u) \/ RunAlone(u) \/ FinishFirst(u) \/ FinishRetry(u)
      PROVE  Answered'
  <2>1. UNCHANGED <<pc, ready, stale, used, skipped, served, pending>>
    BY <1>7 DEF StartUnit, Exit, RunAlone, FinishFirst, FinishRetry
  <2> QED BY <1>7, <2>1, AnsweredKept, AskedInPass
<1>8. CASE StartExecution
  <2>1. ASSUME NEW m \in Members PROVE m \in served' \/ m \in stale
    BY <1>8, Cover DEF StartExecution, Answered
  <2> QED BY <1>8, <2>1, BeginAnswers DEF StartExecution
<1>9. CASE Degrade
  BY <1>9, BeginAnswers DEF Degrade
<1>10. CASE StartIneligible \/ StartVerification
  <2>1. /\ todo = {} /\ running = {} /\ pc \in {"executing", "ineligible"}
        /\ pc' \notin {"preparing", "aborted"}
        /\ UNCHANGED <<units, ready, stale, used, skipped, served, pending>>
    BY <1>10 DEF StartIneligible, StartVerification, PassOver
  <2> QED BY <2>1, AnsweredKept, AskedBetween
<1>11. CASE StartWave
  BY <1>11, WaveAnswers
<1>12. CASE EndWave
  <2>1. /\ todo = {} /\ running = {} /\ pc = "retrying" /\ pc' = "rechecking"
        /\ UNCHANGED <<units, ready, stale, used, skipped, served, pending>>
    BY <1>12 DEF EndWave, PassOver
  <2> QED BY <2>1, AnsweredKept, AskedBetween
<1>13. CASE Report
  <2>1. /\ pc \in {"verifying", "rechecking"} /\ pc' = "done" /\ Wave = {}
        /\ skipped' = skipped \cup ({m[2] : m \in pending} \ scope)
        /\ UNCHANGED <<todo, running, units, wave, used, served>>
    BY <1>13 DEF Report, Settled
  <2>2. ASSUME NEW m \in Members PROVE Awaited(m)'
    <3>1. Awaited(m) /\ Waves(m)' = Waves(m)
      BY <2>1 DEF Answered, Waves
    <3>2. m \in pending => m[2] \in skipped'
      BY <2>1 DEF Wave, Lists
    <3> QED BY <1>1, <2>1, <3>1, <3>2 DEF Awaited
  <2>3. ASSUME NEW i \in Invocations, NEW s \in AmbiguousUnder(i)
        PROVE  s \in skipped' \/ Asked(i, s, Nat)'
    BY <1>1, <2>1 DEF Answered
  <2>4. \A i : AmbiguousUnder(i)' = AmbiguousUnder(i)
    BY DEF AmbiguousUnder
  <2> QED BY <2>1, <2>2, <2>3, <2>4 DEF Answered
<1>14. CASE Abandon
  BY <1>14 DEF Abandon, Answered
<1>15. ASSUME NEW f \in Files, Move(f) PROVE Answered'
  BY <1>1, <1>15, AnsweredKept DEF Move
<1>16. CASE UNCHANGED vars
  BY <1>1, <1>16, AnsweredKept DEF vars
<1> QED BY <1>2, <1>3, <1>4, <1>5, <1>6, <1>7, <1>8, <1>9, <1>10, <1>11, <1>12,
          <1>13, <1>14, <1>15, <1>16, Steps

(* A failed row of a unit; it stays where its processes are.                 *)
FailedIn(u, s) ==
  \E k \in DOMAIN u.procs : s \in u.procs[k].names /\ u.procs[k].rows[s] = "failed"

(* What a process failed is held by its unit, running or through.            *)
FailuresHeld == \A s \in failed : \E u \in units \cup running : FailedIn(u, s)

(* A longer list of processes keeps those it had.                            *)
LEMMA AppendKeeps ==
  ASSUME NEW S, NEW q \in Seq(S), NEW e \in S
  PROVE  /\ Append(q, e) \in Seq(S) /\ Len(Append(q, e)) = Len(q) + 1
         /\ Append(q, e)[Len(q) + 1] = e
         /\ \A k \in DOMAIN q : k \in DOMAIN Append(q, e) /\ Append(q, e)[k] = q[k]
OBVIOUS

(* An exit adds a process, with its failures, to those of its unit.          *)
LEMMA ExitHolds ==
  ASSUME TypeOK, FailuresHeld, NEW u \in running, Exit(u)
  PROVE  FailuresHeld'
<1>1. PICK e \in Ends(u) :
        /\ running' = (running \ {u}) \cup
             {Running(u, {}, AloneNext(u, e), Append(u.procs, Exited(u, e)))}
        /\ failed' = failed \cup {s \in u.live : e.rows[s] = "failed"}
  BY DEF Exit
<1> DEFINE v == Running(u, {}, AloneNext(u, e), Append(u.procs, Exited(u, e)))
<1>2. v.procs = Append(u.procs, Exited(u, e)) /\ v \in running'
  BY <1>1 DEF Running
<1>3. u.procs \in Seq(Procs) /\ Exited(u, e) \in Procs
  <2>1. u \in RunningUnits
    BY DEF TypeOK
  <2>2. Exited(u, e) \in Procs
    BY <2>1, ExitedTyped
  <2> QED BY <2>1, <2>2 DEF RunningUnits
<1>4. /\ v.procs \in Seq(Procs) /\ Len(v.procs) = Len(u.procs) + 1
      /\ v.procs[Len(u.procs) + 1] = Exited(u, e)
      /\ \A k \in DOMAIN u.procs : k \in DOMAIN v.procs /\ v.procs[k] = u.procs[k]
  BY <1>2, <1>3, AppendKeeps
<1>5. units' = units
  BY DEF Exit
<1> HIDE DEF v
<1>6. ASSUME NEW s \in failed PROVE \E o \in units' \cup running' : FailedIn(o, s)
  <2>1. PICK o \in units \cup running : FailedIn(o, s)
    BY DEF FailuresHeld
  <2>2. CASE o = u
    <3>1. FailedIn(v, s)
      BY <2>1, <2>2, <1>4 DEF FailedIn
    <3> QED BY <3>1, <1>2
  <2>3. CASE o # u
    <3>1. o \in units' \cup running'
      BY <2>3, <1>1, <1>5
    <3> QED BY <2>1, <3>1
  <2> QED BY <2>2, <2>3
<1>7. ASSUME NEW s \in u.live, e.rows[s] = "failed"
      PROVE  \E o \in units' \cup running' : FailedIn(o, s)
  <2>1. Exited(u, e).names = u.live /\ Exited(u, e).rows = e.rows
    BY DEF Exited
  <2>2. Len(u.procs) + 1 \in DOMAIN v.procs
    BY <1>3, <1>4
  <2>3. FailedIn(v, s)
    BY <1>4, <1>7, <2>1, <2>2 DEF FailedIn
  <2> QED BY <2>3, <1>2
<1> QED BY <1>1, <1>6, <1>7 DEF FailuresHeld

(* A unit that goes on, or goes through, takes its processes with it.        *)
LEMMA HeldBy ==
  ASSUME FailuresHeld, NEW u \in running, NEW v, v.procs = u.procs,
         v \in units' \cup running',
         running \ {u} \subseteq running', units \subseteq units', failed' = failed
  PROVE  FailuresHeld'
<1> SUFFICES ASSUME NEW s \in failed PROVE \E o \in units' \cup running' : FailedIn(o, s)
  BY DEF FailuresHeld
<1>1. PICK o \in units \cup running : FailedIn(o, s)
  BY DEF FailuresHeld
<1>2. CASE o = u
  <2>1. FailedIn(v, s)
    BY <1>1, <1>2 DEF FailedIn
  <2> QED BY <2>1
<1>3. CASE o # u
  BY <1>1, <1>3
<1> QED BY <1>2, <1>3

LEMMA HeldKept ==
  ASSUME FailuresHeld, running \subseteq running', units' = units, failed' = failed
  PROVE  FailuresHeld'
BY DEF FailuresHeld, FailedIn

LEMMA NextHeld == TypeOK /\ Quiet /\ FailuresHeld /\ [Next]_vars => FailuresHeld'
<1> SUFFICES ASSUME TypeOK, Quiet, FailuresHeld, [Next]_vars PROVE FailuresHeld'
  OBVIOUS
<1> USE DEF prepVars, execVars, retryVars, bookVars
<1>1. ASSUME NEW g \in Groups, Snapshot(g) \/ Recheck(g) PROVE FailuresHeld'
  BY <1>1, HeldKept DEF Snapshot, Recheck
<1>2. ASSUME NEW l \in Legs, CheckRound(l) \/ CloseRounds(l) \/ Verify(l)
      PROVE  FailuresHeld'
  BY <1>2, HeldKept DEF CheckRound, CloseRounds, Verify
<1>3. ASSUME NEW u \in todo, StartUnit(u) PROVE FailuresHeld'
  BY <1>3, HeldKept DEF StartUnit
<1>4. ASSUME NEW u \in running, Exit(u) PROVE FailuresHeld'
  BY <1>4, ExitHolds
<1>5. ASSUME NEW u \in running, RunAlone(u) PROVE FailuresHeld'
  <2>1. PICK s \in u.queue :
          running' = (running \ {u}) \cup {Running(u, {s}, u.queue \ {s}, u.procs)}
    BY <1>5 DEF RunAlone
  <2> DEFINE v == Running(u, {s}, u.queue \ {s}, u.procs)
  <2>2. v.procs = u.procs /\ v \in running' /\ running \ {u} \subseteq running'
    BY <2>1 DEF Running
  <2>3. units' = units /\ failed' = failed
    BY <1>5 DEF RunAlone
  <2> HIDE DEF v
  <2> QED BY <2>2, <2>3, HeldBy
<1>6. ASSUME NEW u \in running, FinishFirst(u) \/ FinishRetry(u) PROVE FailuresHeld'
  <2>1. running' = running \ {u} /\ units' = units \cup {Through(u)} /\ failed' = failed
    BY <1>6 DEF FinishFirst, FinishRetry, Finish
  <2>2. Through(u).procs = u.procs
    BY DEF Through
  <2> QED BY <2>1, <2>2, HeldBy
<1>7. CASE StartExecution \/ Degrade \/ StartIneligible \/ StartVerification
  BY <1>7, HeldKept DEF StartExecution, Degrade, StartIneligible, StartVerification
<1>8. CASE StartWave \/ EndWave \/ Report \/ Abandon
  BY <1>8, HeldKept DEF StartWave, EndWave, Report, Abandon
<1>9. ASSUME NEW f \in Files, Move(f) PROVE FailuresHeld'
  BY <1>9, HeldKept DEF Move
<1>10. CASE UNCHANGED vars
  BY <1>10, HeldKept DEF vars
<1> QED BY <1>1, <1>2, <1>3, <1>4, <1>5, <1>6, <1>7, <1>8, <1>9, <1>10, Steps

(* The invariant of what the run answers with.                               *)
AnswerInv == Denials /\ Filed /\ Looked /\ Lists /\ Answered /\ FailuresHeld

LEMMA InitAnswers == Init => AnswerInv
<1> SUFFICES ASSUME Init PROVE AnswerInv
  OBVIOUS
<1>1. Denials /\ Filed /\ Lists /\ FailuresHeld
  BY DEF Init, Denials, Filed, Lists, FailuresHeld
<1>2. Looked
  <2> SUFFICES ASSUME NEW m \in Members, NEW k \in DOMAIN cached[m] PROVE ~Overlooked(m, k)
    BY DEF Init, Looked
  <2>1. cached[m] \in Seq(Variants) /\ round[LegOf(m)] = 0
    BY RunShape, Cover DEF Init
  <2> QED BY <2>1 DEF Overlooked
<1>3. Answered
  BY DEF Init, Answered
<1> QED BY <1>1, <1>2, <1>3 DEF AnswerInv

-----------------------------------------------------------------------------
(* The theorems *)

(* Every reachable state of the run satisfies the inductive invariant.       *)
THEOREM RunInvariant == Spec => []IInv
<1>1. Init => IInv
  BY InitIInv
<1>2. IInv /\ [Next]_vars => IInv'
  BY NextTypes, NextQuiet, NextBookkeeping, NextProved, NextDegraded, NextScope,
     NextChosen, NextStoodStill, NextRecords DEF IInv
<1> QED BY <1>1, <1>2, PTL DEF Spec

(* The run's state keeps its types.                                          *)
THEOREM RunTypes == Spec => []TypeOK
<1>1. IInv => TypeOK
  BY DEF IInv
<1> QED BY <1>1, RunInvariant, PTL

(* What a finished run reports as served or as a reusable retry was found    *)
(* valid after the last process of the run (settleRetries).                  *)
THEOREM ReportedWasProvedLast == Spec => []ProvedLast
<1>1. IInv => ProvedLast
  BY DEF IInv
<1> QED BY <1>1, RunInvariant, PTL

(* Every record the run installs is one healthy process' own word under      *)
(* inputs that stood still from the snapshot to the process' end, or a       *)
(* loaded variant that was extended (judgeSubject, publishExecuted).         *)
THEOREM InstalledRecordsTrue == Spec => []RecordsTrue
<1>1. IInv => RecordsTrue
  BY DEF IInv
<1> QED BY <1>1, RunInvariant, PTL

(* A degraded run neither serves nor installs anything (runWitnesses).       *)
THEOREM DegradedRunKeepsOut == Spec => []DegradedKeepsOut
<1>1. IInv => DegradedKeepsOut
  BY DEF IInv
<1> QED BY <1>1, RunInvariant, PTL

(* No pass executes a subject outside the caller's scope (executionScope).   *)
THEOREM ScopeRespected == Spec => []ScopeHeld
<1>1. IInv => ScopeHeld
  BY DEF IInv
<1> QED BY <1>1, RunInvariant, PTL

(* A finished run's invariants are those of its phases and of its answers.   *)
LEMMA AnswersInvariant == Spec => [](IInv /\ AnswerInv)
<1>1. Init => AnswerInv
  BY InitAnswers
<1>2. IInv /\ AnswerInv /\ [Next]_vars => AnswerInv'
  BY NextDenials, NextFiled, NextLooked, NextLists, NextAnswered, NextHeld
     DEF IInv, AnswerInv
<1> QED BY <1>1, <1>2, RunInvariant, PTL DEF Spec

(* A pass is granted only by a served record or by a healthy eligible        *)
(* process no check of any wave saw overtaken (FinishRetry and Recheck deny  *)
(* what they see move; judgment.go never counts what is denied).             *)
THEOREM RevokedNeverGrants == Spec => []RevokedGrantsNothing
<1>1. ASSUME AnswerInv, NEW s \in Subjects, Reported(s) = "passed"
      PROVE  \/ \E m \in served : m[2] = s /\ Chosen(m).outcome = "passed"
             \/ \E x \in Rows(s) :
                  /\ Word(x, s) = "passed" /\ GroupOf[x[1].inv] # NoGroup
                  /\ x[1].procs[x[2]].disp = "healthy"
                  /\ ~ \E c \in revoked : /\ c.subject = s
                                          /\ Producer(c) = <<x[1].inv, x[1].pkg, x[1].wave, x[2]>>
  <2>1. "passed" \in Evidence(s)
    BY <1>1 DEF Reported
  <2>2. CASE \E m \in served : m[2] = s /\ Chosen(m).outcome = "passed"
    BY <2>2
  <2>3. ASSUME NEW x \in Rows(s), Counts(x, s), Word(x, s) = "passed"
        PROVE  /\ GroupOf[x[1].inv] # NoGroup /\ x[1].procs[x[2]].disp = "healthy"
               /\ ~ \E c \in revoked : /\ c.subject = s
                                       /\ Producer(c) = <<x[1].inv, x[1].pkg, x[1].wave, x[2]>>
    <3>1. /\ GroupOf[x[1].inv] # NoGroup /\ x[1].procs[x[2]].disp = "healthy"
          /\ ~Denied(x, s)
      BY <2>3 DEF Counts
    <3> QED BY <1>1, <3>1 DEF AnswerInv, Denials, Denied
  <2> QED BY <2>1, <2>2, <2>3 DEF Evidence
<1>2. AnswerInv => RevokedGrantsNothing
  BY <1>1 DEF RevokedGrantsNothing
<1> QED BY <1>2, AnswersInvariant, PTL

(* Every expected test is answered: a member served, executed under its own  *)
(* group's invocation in the first pass or, once its record drifted, in a    *)
(* retry, or named as skipped; an ambiguous one under each invocation that   *)
(* covers it (executionPlan, settleRetries).                                 *)
THEOREM TestsConserved == Spec => []Conserved
<1>1. IInv /\ AnswerInv => Conserved
  <2> SUFFICES ASSUME IInv, AnswerInv, pc = "done"
               PROVE  /\ \A m \in Members :
                           \/ m \in served \/ m[2] \in skipped
                           \/ \E u \in units : /\ u.inv = InvOf(m[1], PkgOf[m[2]])
                                               /\ m[2] \in u.names
                                               /\ m \in used <=> u.wave > 0
                      /\ \A i \in Invocations : \A s \in AmbiguousUnder(i) :
                           s \in skipped \/ \E u \in units : u.inv = i /\ s \in u.names
    BY DEF Conserved
  <2>1. todo = {} /\ running = {} /\ pending = {}
    BY DEF IInv, Quiet, AnswerInv, Lists
  <2>2. ASSUME NEW m \in Members, m \notin served, m[2] \notin skipped
        PROVE  \E u \in units : /\ u.inv = InvOf(m[1], PkgOf[m[2]]) /\ m[2] \in u.names
                                /\ m \in used <=> u.wave > 0
    <3>1. PICK u \in units : /\ u.wave \in Waves(m)
                             /\ u.inv = InvOf(m[1], PkgOf[m[2]]) /\ m[2] \in u.names
      BY <2>1, <2>2 DEF AnswerInv, Answered, Awaited, Asked
    <3>2. m \in used <=> u.wave > 0
      BY <3>1 DEF Waves
    <3> QED BY <3>1, <3>2
  <2>3. ASSUME NEW i \in Invocations, NEW s \in AmbiguousUnder(i), s \notin skipped
        PROVE  \E u \in units : u.inv = i /\ s \in u.names
    BY <2>1, <2>3 DEF AnswerInv, Answered, Asked
  <2> QED BY <2>2, <2>3
<1> QED BY <1>1, AnswersInvariant, PTL

(* While the first pass can still be told from the snapshots it was begun    *)
(* with, a member executes only if no stored variant could have served it,   *)
(* wherever that variant stands in the list (witnessedLegs' rounds).         *)
THEOREM RunsOnlyTheUnproven == Spec => []NoNeedlessRun
<1>1. IInv /\ AnswerInv => NoNeedlessRun
  <2> SUFFICES ASSUME IInv, AnswerInv, pc \in {"preparing", "executing"}, ~degraded,
                      NEW m \in stale, m[2] \notin NeverServes, NEW k \in DOMAIN cached[m]
               PROVE  ~Serves(m, cached[m][k], snap[m[1]])
    BY DEF NoNeedlessRun
  <2>1. m \in Members /\ cached[m] \in Seq(Variants) /\ round[LegOf(m)] \in Nat
    BY Cover DEF IInv, TypeOK
  <2>2. chosen[m] = 0 /\ Len(cached[m]) <= round[LegOf(m)]
    BY DEF AnswerInv, Looked
  <2>3. k <= round[LegOf(m)]
    BY <2>1, <2>2
  <2> QED BY <2>1, <2>2, <2>3 DEF AnswerInv, Looked, Overlooked
<1> QED BY <1>1, AnswersInvariant, PTL

(* A test the run does not call uncached has its record in the store, and a  *)
(* retry counts as reusable only with the record of the snapshot it ran      *)
(* under (publishExecuted, depositRetries).                                  *)
THEOREM ReusableHasRecord == Spec => []ReusableStored
<1>1. AnswerInv => ReusableStored
  <2> SUFFICES ASSUME AnswerInv
               PROVE  /\ Ran \ Uncached \subseteq
                           {m[2] : m \in served} \cup {r.subject : r \in installed}
                      /\ \A c \in Counted : \E r \in installed :
                           /\ <<r.group, r.subject>> = <<GroupOf[c.inv], c.subject>>
                           /\ r.fp = Fingerprint(c.subject, c.base)
    BY DEF ReusableStored
  <2>1. \A c \in Counted : \E r \in installed :
          /\ r.group = GroupOf[c.inv] /\ r.subject = c.subject
          /\ r.fp = Fingerprint(c.subject, c.base)
    BY DEF AnswerInv, Filed, Counted
  <2>2. Reusable \subseteq {m[2] : m \in served} \cup {r.subject : r \in installed}
    BY <2>1 DEF AnswerInv, Filed, Reusable
  <2>3. Ran \ Uncached \subseteq Reusable
    BY DEF Uncached
  <2> QED BY <2>1, <2>2, <2>3
<1> QED BY <1>1, AnswersInvariant, PTL

(* What a process of the run was seen to fail, at any time, the finished run *)
(* reports as failed: through isolated re-runs, retries and rechecks its row *)
(* stays with its unit, every unit has gone through when the run is done, and *)
(* no served record, green sibling or later wave outranks it (execMerge.add, *)
(* consumeMerge, consumeMergeFailuresOnly).                                  *)
THEOREM FailuresReported == Spec => []FailuresStand
<1>1. IInv /\ AnswerInv => FailuresStand
  <2> SUFFICES ASSUME IInv, AnswerInv, pc = "done", NEW s \in failed
               PROVE  Reported(s) = "failed"
    BY DEF FailuresStand
  <2>1. running = {}
    BY DEF IInv, Quiet
  <2>2. PICK u \in units : \E k \in DOMAIN u.procs :
          s \in u.procs[k].names /\ u.procs[k].rows[s] = "failed"
    BY <2>1 DEF AnswerInv, FailuresHeld, FailedIn
  <2>3. PICK k \in DOMAIN u.procs :
          s \in u.procs[k].names /\ u.procs[k].rows[s] = "failed"
    BY <2>2
  <2>4. <<u, k>> \in Rows(s)
    BY <2>3 DEF Rows
  <2>5. Word(<<u, k>>, s) = "failed"
    BY <2>3 DEF Word
  <2>6. Counts(<<u, k>>, s)
    BY <2>5 DEF Counts
  <2>7. "failed" \in Evidence(s)
    BY <2>4, <2>5, <2>6 DEF Evidence
  <2> QED BY <2>7 DEF Reported
<1> QED BY <1>1, AnswersInvariant, PTL
=============================================================================
