-------------------------- MODULE RecordApplyProofs --------------------------
(* Theorems about RecordApply, for every value of its constants. *)
EXTENDS RecordApply, TLAPS

\* A planned content is a set of records for a path of the tree.
LEMMA PlanValue ==
  ASSUME TypeOK, NEW o \in Op
  PROVE  /\ DOMAIN plan[o] \subseteq Path
         /\ \A p \in DOMAIN plan[o] : plan[o][p] \in SUBSET Rec
<1>1. plan[o] \in Batches
  BY DEF TypeOK
<1>2. PICK paths \in SUBSET Path : plan[o] \in [paths -> SUBSET Rec]
  BY <1>1 DEF Batches
<1>3. DOMAIN plan[o] = paths /\ \A p \in paths : plan[o][p] \in SUBSET Rec
  BY <1>2
<1> QED BY <1>3

LEMMA AbsentIsNotEmpty == Absent # {} /\ Absent \in Content /\ {} \in Content
<1>1. NoFile \in Absent
  BY DEF Absent
<1>2. Absent # {}
  BY <1>1
<1>3. Absent \in Content
  BY DEF Content
<1>4. {} \in Content
  BY DEF Content
<1> QED BY <1>2, <1>3, <1>4

-----------------------------------------------------------------------------
(* The mutex. *)

\* Returning gives the mutex up.
LEMMA LeaveMutex ==
  ASSUME TypeOK, MutexHeld, NEW o \in Op, NEW outcome \in Ended,
         pc[o] \in InApply, Leave(o, outcome)
  PROVE  MutexHeld'
<1> SUFFICES ASSUME NEW x \in Op
             PROVE  (pc[x] \in InApply <=> mutex[ProcOf[x]] = x)'
  BY DEF MutexHeld
<1>1. outcome \notin InApply
  BY DEF Ended, InApply, Judging, Landing
<1>2. mutex[ProcOf[o]] = o /\ (pc[x] \in InApply <=> mutex[ProcOf[x]] = x)
  BY DEF MutexHeld
<1>3. x # NoOp
  BY Sentinels
<1>4. pc' = [pc EXCEPT ![o] = outcome] /\ mutex' = [mutex EXCEPT ![ProcOf[o]] = NoOp]
  BY DEF Leave
<1>5. ProcOf[o] \in Proc /\ ProcOf[x] \in Proc
  BY ProcOfType
<1>6. CASE x = o
  BY <1>1, <1>3, <1>4, <1>5, <1>6 DEF TypeOK
<1>7. CASE x # o
  <2>1. pc'[x] = pc[x]
    BY <1>4, <1>7 DEF TypeOK
  <2>2. CASE ProcOf[x] = ProcOf[o]
    BY <1>2, <1>3, <1>4, <1>5, <1>7, <2>1, <2>2 DEF TypeOK
  <2>3. CASE ProcOf[x] # ProcOf[o]
    BY <1>2, <1>4, <1>5, <2>1, <2>3 DEF TypeOK
  <2> QED BY <2>2, <2>3
<1> QED BY <1>6, <1>7

\* A step from phase to phase on the same side of Apply leaves it.
LEMMA SameSideMutex ==
  ASSUME TypeOK, MutexHeld, NEW o \in Op, UNCHANGED mutex,
         \A x \in Op : pc'[x] \in InApply <=> pc[x] \in InApply
  PROVE  MutexHeld'
BY DEF MutexHeld

LEMMA NextMutex == TypeOK /\ MutexHeld /\ [Next]_vars => MutexHeld'
<1> SUFFICES ASSUME TypeOK, MutexHeld, [Next]_vars PROVE MutexHeld'
  OBVIOUS
<1> USE DEF InApply, Judging, Landing
<1>1. ASSUME NEW o \in Op, NEW p \in Path, PathStep(o, p) PROVE MutexHeld'
  <2>1. CASE ReadFile(o, p) \/ Restamp(o, p)
    <3> UNCHANGED mutex
      BY <2>1 DEF ReadFile, Restamp
    <3> \A x \in Op : pc'[x] \in InApply <=> pc[x] \in InApply
      BY <2>1 DEF ReadFile, Restamp, TypeOK
    <3> QED BY SameSideMutex
  <2>2. CASE CheckPrior(o, p) \/ Stage(o, p) \/ Rewrite(o, p) \/ Delete(o, p)
    BY <2>2 DEF CheckPrior, Stage, Rewrite, Delete, MutexHeld
  <2>3. CASE Reserve(o, p) \/ LandCreate(o, p) \/ JudgeOwn(o, p)
    <3> UNCHANGED mutex
      BY <2>3 DEF Reserve, LandCreate, JudgeOwn
    <3> \A x \in Op : pc'[x] \in InApply <=> pc[x] \in InApply
      BY <2>3 DEF Reserve, LandCreate, JudgeOwn, TypeOK
    <3> QED BY SameSideMutex
  <2>4. CASE PriorMoved(o, p)
    BY <2>4, LeaveMutex DEF PriorMoved, Return, Ended
  <2>5. CASE \/ Appeared(o, p) \/ StageFails(o, p) \/ ReserveUnjudged(o, p)
             \/ JudgeForeign(o, p) \/ JudgeFails(o, p)
             \/ Unreserve(o, p) \/ UnreserveFails(o, p)
    BY <2>5, LeaveMutex
       DEF Appeared, StageFails, ReserveUnjudged, JudgeForeign, JudgeFails, Unreserve,
           UnreserveFails, Return, Ended
  <2> QED BY <1>1, <2>1, <2>2, <2>3, <2>4, <2>5 DEF PathStep
<1>2. ASSUME NEW o \in Op, PhaseStep(o) PROVE MutexHeld'
  <2>1. CASE \E batch \in Batches : Compute(o, batch)
    <3> UNCHANGED mutex
      BY <2>1 DEF Compute
    <3> \A x \in Op : pc'[x] \in InApply <=> pc[x] \in InApply
      BY <2>1 DEF Compute, TypeOK
    <3> QED BY SameSideMutex
  <2>2. CASE Lock(o)
    <3> SUFFICES ASSUME NEW x \in Op
                 PROVE  (pc[x] \in InApply <=> mutex[ProcOf[x]] = x)'
      BY DEF MutexHeld
    <3>1. pc[x] \in InApply <=> mutex[ProcOf[x]] = x
      BY DEF MutexHeld
    <3>2. ProcOf[o] \in Proc /\ ProcOf[x] \in Proc /\ x # NoOp
      BY ProcOfType, Sentinels
    <3>3. CASE x = o
      BY <2>2, <3>2, <3>3 DEF Lock, TypeOK
    <3>4. CASE x # o
      <4>1. pc'[x] = pc[x]
        BY <2>2, <3>4 DEF Lock, TypeOK
      <4>2. mutex'[ProcOf[x]] = x <=> mutex[ProcOf[x]] = x
        BY <2>2, <3>2, <3>4 DEF Lock, TypeOK
      <4> QED BY <3>1, <4>1, <4>2
    <3> QED BY <3>3, <3>4
  <2>3. CASE Admit(o) \/ Checked(o) \/ Staged(o) \/ Committed(o)
    <3> UNCHANGED mutex
      BY <2>3 DEF Admit, Checked, Staged, Committed
    <3> \A x \in Op : pc'[x] \in InApply <=> pc[x] \in InApply
      BY <2>3 DEF Admit, Checked, Staged, Committed, Goto, TypeOK
    <3> QED BY SameSideMutex
  <2>4. CASE Inadmissible(o) \/ Finish(o) \/ Fault(o)
    BY <2>4, LeaveMutex DEF Inadmissible, Finish, Fault, Return, Ended
  <2> QED BY <1>2, <2>1, <2>2, <2>3, <2>4 DEF PhaseStep
<1>3. ASSUME NEW r \in Proc, Crash(r) PROVE MutexHeld'
  <2> SUFFICES ASSUME NEW x \in Op
               PROVE  (pc[x] \in InApply <=> mutex[ProcOf[x]] = x)'
    BY DEF MutexHeld
  <2>1. pc[x] \in InApply <=> mutex[ProcOf[x]] = x
    BY DEF MutexHeld
  <2>2. ProcOf[x] \in Proc /\ x # NoOp
    BY ProcOfType, Sentinels
  <2>3. CASE ProcOf[x] = r
    <3>1. pc'[x] \notin InApply
      BY <1>3, <2>3 DEF Crash, Ended
    <3> QED BY <1>3, <2>2, <2>3, <3>1 DEF Crash, TypeOK
  <2>4. CASE ProcOf[x] # r
    <3>1. pc'[x] = pc[x] /\ mutex'[ProcOf[x]] = mutex[ProcOf[x]]
      BY <1>3, <2>2, <2>4 DEF Crash, TypeOK
    <3> QED BY <2>1, <3>1
  <2> QED BY <2>3, <2>4
<1>4. ASSUME NEW p \in Path, ForeignReplace(p) \/ ForeignInPlace(p) PROVE MutexHeld'
  BY <1>4 DEF ForeignReplace, ForeignInPlace, ForeignPut, MutexHeld
<1>5. CASE UNCHANGED vars
  BY <1>5 DEF vars, MutexHeld
<1> QED BY <1>1, <1>2, <1>3, <1>4, <1>5 DEF Next, OpStep
-----------------------------------------------------------------------------
(* Types and the phases' place in the batch. *)

Typed == TypeOK /\ \A o \in Op : InBatch(o)

\* The batch position of an operation a step does not touch stays right.
LEMMA OthersInBatch ==
  ASSUME NEW x \in Op, InBatch(x), pc'[x] = pc[x], todo'[x] = todo[x],
         cur'[x] = cur[x], prior'[x] = prior[x], plan'[x] = plan[x]
  PROVE  InBatch(x)'
BY DEF InBatch, Writes, Deletions

\* An operation outside the landing phases has no position to keep.
LEMMA IdleInBatch ==
  ASSUME NEW x \in Op,
         pc'[x] \in Before \cup Ended \cup {"admit"}
  PROVE  InBatch(x)'
BY DEF InBatch, Before, Ended

LEMMA InitTyped == Init => Typed /\ MutexHeld
<1> SUFFICES ASSUME Init PROVE Typed /\ MutexHeld
  OBVIOUS
<1>1. TypeOK
  <2>1. file \in [Path -> [val : Content, owner : Op \cup {NoOp}]]
    BY DEF Init, Standing
  <2>2. [p \in {} |-> {}] \in Batches
    <3>1. [p \in {} |-> {}] \in [{} -> SUBSET Rec] /\ {} \in SUBSET Path
      OBVIOUS
    <3> QED BY <3>1 DEF Batches
  <2>3. [o \in Op |-> [p \in Path |-> Absent]] \in [Op -> [Path -> Content]]
    BY AbsentIsNotEmpty
  <2> QED BY <2>1, <2>2, <2>3 DEF Init, TypeOK, Before
<1>2. \A o \in Op : InBatch(o)
  BY DEF Init, InBatch
<1>3. MutexHeld
  BY Sentinels, ProcOfType DEF Init, MutexHeld, InApply, Judging, Landing
<1> QED BY <1>1, <1>2, <1>3 DEF Typed

\* Leaving Apply keeps the types of what it changes.
LEMMA LeaveTypes ==
  ASSUME TypeOK, NEW o \in Op, NEW outcome \in Ended, Leave(o, outcome),
         NEW staged \in SUBSET Path, Discard(o, staged)
  PROVE  /\ pc' \in [Op -> Before \cup InApply \cup Ended]
         /\ mutex' \in [Proc -> Op \cup {NoOp}]
         /\ temps' \in [Op -> SUBSET Path]
<1>1. PICK left \in SUBSET staged : temps' = [temps EXCEPT ![o] = left]
  BY DEF Discard
<1>2. temps' \in [Op -> SUBSET Path]
  BY <1>1 DEF TypeOK
<1> QED BY <1>2, ProcOfType DEF Leave, TypeOK

LEMMA ReturnTypes ==
  ASSUME TypeOK, NEW o \in Op, NEW outcome \in Ended, Return(o, outcome)
  PROVE  /\ pc' \in [Op -> Before \cup InApply \cup Ended]
         /\ mutex' \in [Proc -> Op \cup {NoOp}]
         /\ temps' \in [Op -> SUBSET Path]
<1>1. temps[o] \in SUBSET Path
  BY DEF TypeOK
<1> QED BY <1>1, LeaveTypes DEF Return

LEMMA NextTypeOK == Typed /\ [Next]_vars => TypeOK'
<1> SUFFICES ASSUME Typed, [Next]_vars PROVE TypeOK'
  OBVIOUS
<1> USE DEF Typed, Ended, Before, InApply, Judging, Landing
<1>1. ASSUME NEW o \in Op, NEW p \in Path, PathStep(o, p) PROVE TypeOK'
  <2> USE <1>1
  <2>0. ASSUME p \in Writes(o)
        PROVE  Standing(plan[o][p]) \in [val : Content, owner : Op \cup {NoOp}]
    BY <2>0, PlanValue DEF Writes, Standing, Content
  <2>1. CASE ReadFile(o, p)
    <3>1. file[p].val \in Content
      BY DEF TypeOK
    <3>3. CASE file[p].val = {}
      <4>1. pc' = [pc EXCEPT ![o] = "refused"] /\ UNCHANGED <<basis, prior, todo>>
        BY <2>1, <3>3 DEF ReadFile
      <4>2. UNCHANGED <<file, mutex, plan, cur, temps, wrote, deleted, named, moved, foreign>>
        BY <2>1 DEF ReadFile
      <4> QED BY <4>1, <4>2 DEF TypeOK
    <3>4. CASE file[p].val # {}
      <4>1. todo' = [todo EXCEPT ![o] = @ \ {p}] /\ UNCHANGED pc
        BY <2>1, <3>4 DEF ReadFile
      <4>2. UNCHANGED <<file, mutex, plan, cur, temps, wrote, deleted, named, moved, foreign>>
        BY <2>1 DEF ReadFile
      <4>3. /\ basis' = [basis EXCEPT ![o][p] = file[p].val]
            /\ prior' = [prior EXCEPT ![o][p] = file[p].val]
        BY <2>1, <3>4 DEF ReadFile
      <4>4. basis' \in [Op -> [Path -> Content]] /\ prior' \in [Op -> [Path -> Content]]
        BY <3>1, <4>3 DEF TypeOK
      <4> QED BY <4>1, <4>2, <4>4 DEF TypeOK
    <3> QED BY <3>3, <3>4
  <2>2. CASE CheckPrior(o, p) \/ Stage(o, p)
    <3>1. CASE CheckPrior(o, p)
      BY <3>1 DEF CheckPrior, TypeOK
    <3>2. CASE Stage(o, p)
      BY <3>2 DEF Stage, TypeOK
    <3> QED BY <2>2, <3>1, <3>2
  <2>3. CASE Rewrite(o, p)
    BY <2>0, <2>3 DEF Rewrite, RenameOver, Put, InBatch, TypeOK
  <2>4. CASE LandCreate(o, p)
    BY <2>0, <2>4 DEF LandCreate, RenameOver, Put, InBatch, TypeOK
  <2>5. CASE Reserve(o, p)
    BY <2>5, AbsentIsNotEmpty DEF Reserve, Reservation, TypeOK
  <2>6. CASE Delete(o, p)
    BY <2>6, AbsentIsNotEmpty DEF Delete, Put, Standing, TypeOK
  <2>7. CASE Unreserve(o, p)
    <3>1. Return(o, "fault") /\ UNCHANGED <<basis, prior, plan, todo, cur, wrote, deleted, named, foreign>>
      BY <2>7 DEF Unreserve
    <3>2. file' \in [Path -> [val : Content, owner : Op \cup {NoOp}]] /\ moved' \in [Op -> SUBSET Path]
      BY <2>7, AbsentIsNotEmpty DEF Unreserve, Put, Standing, TypeOK
    <3> QED BY <3>1, <3>2, ReturnTypes DEF TypeOK
  <2>8. CASE PriorMoved(o, p) \/ Appeared(o, p) \/ JudgeForeign(o, p) \/ JudgeFails(o, p)
    <3>1. PICK outcome \in Ended : Return(o, outcome)
      BY <2>8 DEF PriorMoved, Appeared, JudgeForeign, JudgeFails
    <3>2. UNCHANGED <<file, basis, prior, plan, todo, cur, wrote, deleted, named, moved, foreign>>
      BY <2>8 DEF PriorMoved, Appeared, JudgeForeign, JudgeFails
    <3> QED BY <3>1, <3>2, ReturnTypes DEF TypeOK
  <2>9. CASE ReserveUnjudged(o, p) \/ UnreserveFails(o, p)
    <3>1. /\ Return(o, "fault") /\ named' = [named EXCEPT ![o] = @ \cup {p}]
          /\ UNCHANGED <<file, basis, prior, plan, todo, cur, wrote, deleted, moved, foreign>>
      BY <2>9 DEF ReserveUnjudged, UnreserveFails
    <3>2. named' \in [Op -> SUBSET Path]
      BY <3>1 DEF TypeOK
    <3> QED BY <3>1, <3>2, ReturnTypes DEF TypeOK
  <2>12. CASE StageFails(o, p)
    <3>1. temps[o] \cup {p} \in SUBSET Path
      BY DEF TypeOK
    <3>2. /\ Leave(o, "fault") /\ Discard(o, temps[o] \cup {p})
          /\ UNCHANGED <<file, basis, prior, plan, todo, cur, wrote, deleted, named, moved, foreign>>
      BY <2>12 DEF StageFails
    <3> QED BY <3>1, <3>2, LeaveTypes DEF TypeOK
  <2>10. CASE JudgeOwn(o, p)
    BY <2>10 DEF JudgeOwn, TypeOK
  <2>11. CASE Restamp(o, p)
    <3>1. file[p].val \in Content
      BY DEF TypeOK
    <3> QED BY <2>11, <3>1 DEF Restamp, TypeOK
  <2> QED BY <2>1, <2>2, <2>3, <2>4, <2>5, <2>6, <2>7, <2>8, <2>9, <2>10, <2>11, <2>12 DEF PathStep
<1>2. ASSUME NEW o \in Op, PhaseStep(o) PROVE TypeOK'
  <2>1. CASE \E batch \in Batches : Compute(o, batch)
    BY <2>1 DEF Compute, TypeOK
  <2>2. CASE Lock(o)
    BY <2>2, ProcOfType DEF Lock, TypeOK
  <2>3. CASE Admit(o) \/ Checked(o) \/ Staged(o) \/ Committed(o)
    <3>1. DOMAIN plan[o] \subseteq Path
      BY PlanValue
    <3>2. Writes(o) \subseteq Path /\ Deletions(o) \subseteq Path
      BY <3>1 DEF Writes, Deletions
    <3>3. PICK phase \in InApply, paths \in SUBSET Path : Goto(o, phase, paths)
      BY <2>3, <3>1, <3>2 DEF Admit, Checked, Staged, Committed
    <3>4. UNCHANGED <<file, mutex, basis, prior, plan, cur, temps, wrote, deleted, named,
                      moved, foreign>>
      BY <2>3 DEF Admit, Checked, Staged, Committed
    <3> QED BY <3>3, <3>4 DEF Goto, TypeOK
  <2>4. CASE Inadmissible(o) \/ Finish(o) \/ Fault(o)
    <3>1. PICK outcome \in Ended : Return(o, outcome)
      BY <2>4 DEF Inadmissible, Finish, Fault
    <3>2. UNCHANGED <<file, basis, prior, plan, todo, cur, wrote, deleted, named, moved, foreign>>
      BY <2>4 DEF Inadmissible, Finish, Fault
    <3> QED BY <3>1, <3>2, ReturnTypes DEF TypeOK
  <2> QED BY <1>2, <2>1, <2>2, <2>3, <2>4 DEF PhaseStep
<1>3. ASSUME NEW r \in Proc, Crash(r) PROVE TypeOK'
  BY <1>3 DEF Crash, TypeOK
<1>4. ASSUME NEW p \in Path, ForeignReplace(p) \/ ForeignInPlace(p) PROVE TypeOK'
  <2>1. PICK f \in [val : Content, owner : Op \cup {NoOp}] : ForeignPut(p, f)
    <3>1. CASE ForeignReplace(p)
      BY <3>1 DEF ForeignReplace, Standing
    <3>2. CASE ForeignInPlace(p)
      <4>1. PICK v \in SUBSET Rec : ForeignPut(p, [file[p] EXCEPT !.val = v])
        BY <3>2 DEF ForeignInPlace
      <4>2. file[p] \in [val : Content, owner : Op \cup {NoOp}] /\ v \in Content
        BY DEF TypeOK, Content
      <4>3. [file[p] EXCEPT !.val = v] \in [val : Content, owner : Op \cup {NoOp}]
        BY <4>2
      <4> QED BY <4>1, <4>3
    <3> QED BY <1>4, <3>1, <3>2
  <2>2. file' \in [Path -> [val : Content, owner : Op \cup {NoOp}]]
    BY <2>1 DEF ForeignPut, TypeOK
  <2>3. moved' \in [Op -> SUBSET Path] /\ foreign' \in Nat
    BY <2>1 DEF ForeignPut, TypeOK
  <2> QED BY <2>1, <2>2, <2>3 DEF ForeignPut, TypeOK
<1>5. CASE UNCHANGED vars
  BY <1>5 DEF vars, TypeOK
<1> QED BY <1>1, <1>2, <1>3, <1>4, <1>5 DEF Next, OpStep

LEMMA NextInBatch == Typed /\ [Next]_vars => \A x \in Op : InBatch(x)'
<1> SUFFICES ASSUME Typed, [Next]_vars, NEW x \in Op PROVE InBatch(x)'
  OBVIOUS
<1> USE DEF Typed
<1>0. InBatch(x)
  OBVIOUS
<1>1. ASSUME NEW o \in Op, NEW p \in Path, PathStep(o, p) PROVE InBatch(x)'
  <2>1. CASE x # o
    <3>1. /\ pc'[x] = pc[x] /\ todo'[x] = todo[x] /\ cur'[x] = cur[x]
          /\ prior'[x] = prior[x] /\ plan'[x] = plan[x]
      BY <1>1, <2>1
         DEF TypeOK, PathStep, ReadFile, Restamp, CheckPrior, PriorMoved, Stage, Rewrite, Reserve,
             Appeared, StageFails, LandCreate, Delete, ReserveUnjudged, JudgeOwn, JudgeForeign,
             JudgeFails,
             Unreserve, UnreserveFails, RenameOver, Return, Leave
    <3> QED BY <1>0, <3>1, OthersInBatch
  <2>2. CASE x = o
    <3>1. CASE ReadFile(o, p) \/ Restamp(o, p)
      <4>1. pc'[o] \in Before \cup Ended \cup {"admit"}
        BY <3>1 DEF ReadFile, Restamp, TypeOK, Before, Ended
      <4> QED BY <2>2, <4>1, IdleInBatch
    <3>2. CASE \/ PriorMoved(o, p) \/ Appeared(o, p) \/ StageFails(o, p) \/ ReserveUnjudged(o, p)
               \/ JudgeForeign(o, p) \/ JudgeFails(o, p) \/ Unreserve(o, p) \/ UnreserveFails(o, p)
      <4>1. pc'[o] \in Before \cup Ended \cup {"admit"}
        BY <3>2 DEF PriorMoved, Appeared, StageFails, ReserveUnjudged, JudgeForeign, JudgeFails,
                    Unreserve,
                    UnreserveFails, Return, Leave, TypeOK, Before, Ended
      <4> QED BY <2>2, <4>1, IdleInBatch
    <3>3. CASE CheckPrior(o, p) \/ Stage(o, p) \/ Rewrite(o, p) \/ Delete(o, p)
      BY <1>0, <2>2, <3>3
         DEF CheckPrior, Stage, Rewrite, Delete, RenameOver, InBatch, Writes, Deletions, TypeOK
    <3>4. CASE Reserve(o, p) \/ JudgeOwn(o, p)
      <4>1. CASE Reserve(o, p)
        BY <1>0, <2>2, <4>1 DEF Reserve, InBatch, Writes, Deletions, TypeOK
      <4>2. CASE JudgeOwn(o, p)
        <5>1. pc[o] = "reserved" /\ pc'[o] = "judged" /\ UNCHANGED <<plan, todo, cur, prior>>
          BY <4>2 DEF JudgeOwn, TypeOK
        <5> QED BY <1>0, <2>2, <5>1 DEF InBatch, Writes
      <4> QED BY <3>4, <4>1, <4>2
    <3>5. CASE LandCreate(o, p)
      BY <1>0, <2>2, <3>5 DEF LandCreate, RenameOver, InBatch, Writes, Deletions, TypeOK
    <3> QED BY <1>1, <3>1, <3>2, <3>3, <3>4, <3>5 DEF PathStep
  <2> QED BY <2>1, <2>2
<1>2. ASSUME NEW o \in Op, PhaseStep(o) PROVE InBatch(x)'
  <2>1. CASE x # o
    <3>1. /\ pc'[x] = pc[x] /\ todo'[x] = todo[x] /\ cur'[x] = cur[x]
          /\ prior'[x] = prior[x] /\ plan'[x] = plan[x]
      BY <1>2, <2>1
         DEF TypeOK, PhaseStep, Compute, Lock, Admit, Inadmissible, Checked, Staged,
             Committed, Finish, Fault, Goto, Return, Leave
    <3> QED BY <1>0, <3>1, OthersInBatch
  <2>2. CASE x = o
    <3>1. CASE \/ \E batch \in Batches : Compute(o, batch)
               \/ Lock(o) \/ Inadmissible(o) \/ Finish(o) \/ Fault(o)
      <4>1. pc'[o] \in Before \cup Ended \cup {"admit"}
        BY <3>1 DEF Compute, Lock, Inadmissible, Finish, Fault, Return, Leave, TypeOK, Before, Ended
      <4> QED BY <2>2, <4>1, IdleInBatch
    <3>2. CASE Admit(o) \/ Checked(o) \/ Staged(o) \/ Committed(o)
      BY <2>2, <3>2
         DEF Admit, Checked, Staged, Committed, Goto, InBatch, Writes, Deletions, TypeOK
    <3> QED BY <1>2, <3>1, <3>2 DEF PhaseStep
  <2> QED BY <2>1, <2>2
<1>3. ASSUME NEW r \in Proc, Crash(r) PROVE InBatch(x)'
  <2>1. CASE ProcOf[x] # r \/ pc[x] \in Ended
    BY <1>0, <1>3, <2>1, OthersInBatch DEF Crash, TypeOK
  <2>2. CASE ~(ProcOf[x] # r \/ pc[x] \in Ended)
    <3>1. pc'[x] \in Before \cup Ended \cup {"admit"}
      BY <1>3, <2>2 DEF Crash, TypeOK, Ended
    <3> QED BY <3>1, IdleInBatch
  <2> QED BY <2>1, <2>2
<1>4. ASSUME NEW p \in Path, ForeignReplace(p) \/ ForeignInPlace(p) PROVE InBatch(x)'
  BY <1>0, <1>4, OthersInBatch DEF ForeignReplace, ForeignInPlace, ForeignPut
<1>5. CASE UNCHANGED vars
  BY <1>0, <1>5, OthersInBatch DEF vars
<1> QED BY <1>1, <1>2, <1>3, <1>4, <1>5 DEF Next, OpStep
-----------------------------------------------------------------------------
(* What was verified stays as read until it is landed. *)

\* An operation that is not landing claims nothing about the files.
LEMMA IdleFresh ==
  ASSUME NEW x \in Op, pc'[x] \in Before \cup Ended \cup {"admit"}
  PROVE  FreshAt(x)'
BY DEF FreshAt, Verified, Before, Ended

\* A step that leaves the files and an operation alone leaves its claims.
LEMMA StillFresh ==
  ASSUME NEW x \in Op, FreshAt(x), pc'[x] = pc[x], todo'[x] = todo[x],
         cur'[x] = cur[x], prior'[x] = prior[x], plan'[x] = plan[x],
         moved[x] \subseteq moved'[x],
         \A q \in Path : q \notin moved'[x] => file'[q] = file[q]
  PROVE  FreshAt(x)'
<1>1. Verified(x)' = Verified(x)
  BY DEF Verified, Deletions
<1>2. ASSUME NEW p \in Path \ moved'[x]
      PROVE  /\ (p \in Verified(x))' => Holds(x, p)'
             /\ (pc[x] \in {"reserved", "judged"} /\ p \in cur[x] => file[p] = Reservation(x))'
  <2>1. p \in Path \ moved[x] /\ file'[p] = file[p]
    OBVIOUS
  <2>2. (p \in Verified(x))' => Holds(x, p)'
    BY <1>1, <2>1 DEF FreshAt, Holds
  <2>3. (pc[x] \in {"reserved", "judged"} /\ p \in cur[x] => file[p] = Reservation(x))'
    BY <2>1 DEF FreshAt, Reservation
  <2> QED BY <2>2, <2>3
<1> QED BY <1>2 DEF FreshAt

\* A change to p by an operation inside Apply cannot surprise another: one of
\* its own process is outside Apply, one of another process sees p move.
LEMMA OthersFresh ==
  ASSUME TypeOK, MutexHeld, NEW o \in Op, NEW x \in Op, NEW p \in Path,
         x # o, FreshAt(x), pc[o] \in InApply,
         pc'[x] = pc[x], todo'[x] = todo[x],
         cur'[x] = cur[x], prior'[x] = prior[x], plan'[x] = plan[x],
         \A q \in Path \ {p} : file'[q] = file[q],
         moved'[x] = IF ProcOf[x] = ProcOf[o] THEN moved[x] ELSE moved[x] \cup {p}
  PROVE  FreshAt(x)'
<1>1. CASE ProcOf[x] = ProcOf[o]
  <2>1. pc[x] \notin InApply
    BY <1>1 DEF MutexHeld
  <2>2. pc'[x] \in Before \cup Ended \cup {"admit"}
    BY <2>1 DEF TypeOK
  <2> QED BY <2>2, IdleFresh
<1>2. CASE ProcOf[x] # ProcOf[o]
  BY <1>2, StillFresh
<1> QED BY <1>1, <1>2

LEMMA NextFresh ==
  Typed /\ MutexHeld /\ FreshUntilLanded /\ [Next]_vars => FreshUntilLanded'
<1> SUFFICES ASSUME Typed, MutexHeld, FreshUntilLanded, [Next]_vars, NEW x \in Op
             PROVE  FreshAt(x)'
  BY DEF FreshUntilLanded
<1>0. TypeOK /\ FreshAt(x) /\ InBatch(x)
  BY DEF FreshUntilLanded, Typed
<1>1. ASSUME NEW o \in Op, NEW p \in Path, PathStep(o, p) PROVE FreshAt(x)'
  <2>1. CASE x # o
    <3>1. /\ pc'[x] = pc[x] /\ todo'[x] = todo[x] /\ cur'[x] = cur[x]
          /\ prior'[x] = prior[x] /\ plan'[x] = plan[x]
      BY <1>0, <1>1, <2>1
         DEF TypeOK, PathStep, ReadFile, Restamp, CheckPrior, PriorMoved, Stage, Rewrite, Reserve,
             Appeared, StageFails, LandCreate, Delete, ReserveUnjudged, JudgeOwn, JudgeForeign,
             JudgeFails,
             Unreserve, UnreserveFails, RenameOver, Return, Leave
    <3>2. CASE \/ ReadFile(o, p) \/ Restamp(o, p) \/ CheckPrior(o, p) \/ PriorMoved(o, p)
               \/ Stage(o, p)
               \/ Appeared(o, p) \/ StageFails(o, p) \/ ReserveUnjudged(o, p) \/ JudgeOwn(o, p)
               \/ JudgeForeign(o, p) \/ JudgeFails(o, p) \/ UnreserveFails(o, p)
      <4>1. file' = file /\ moved'[x] = moved[x]
        <5>1. CASE CheckPrior(o, p)
          BY <1>0, <2>1, <5>1 DEF CheckPrior, TypeOK
        <5>2. CASE ~CheckPrior(o, p)
          BY <3>2, <5>2
             DEF ReadFile, Restamp, PriorMoved, Stage, Appeared, StageFails, ReserveUnjudged,
                 JudgeOwn,
                 JudgeForeign, JudgeFails, UnreserveFails
        <5> QED BY <5>1, <5>2
      <4> QED BY <1>0, <3>1, <4>1, StillFresh
    <3>3. CASE \/ Rewrite(o, p) \/ Reserve(o, p) \/ LandCreate(o, p) \/ Delete(o, p)
               \/ Unreserve(o, p)
      <4>1. pc[o] \in InApply
        BY <3>3 DEF Rewrite, Reserve, LandCreate, Delete, Unreserve, InApply, Landing
      <4>2. \A q \in Path \ {p} : file'[q] = file[q]
        BY <1>0, <3>3 DEF Rewrite, Reserve, LandCreate, Delete, Unreserve, RenameOver, Put,
                          TypeOK
      <4>3. moved'[x] = IF ProcOf[x] = ProcOf[o] THEN moved[x] ELSE moved[x] \cup {p}
        BY <2>1, <3>3 DEF Rewrite, Reserve, LandCreate, Delete, Unreserve, RenameOver, Put
      <4> QED BY <1>0, <2>1, <3>1, <4>1, <4>2, <4>3, OthersFresh
    <3> QED BY <1>1, <3>2, <3>3 DEF PathStep
  <2>2. CASE x = o
    <3>1. CASE ReadFile(o, p) \/ Restamp(o, p)
      <4>1. pc'[o] \in Before \cup Ended \cup {"admit"}
        BY <1>0, <3>1 DEF ReadFile, Restamp, TypeOK, Before, Ended
      <4> QED BY <2>2, <4>1, IdleFresh
    <3>2. CASE \/ PriorMoved(o, p) \/ Appeared(o, p) \/ StageFails(o, p) \/ ReserveUnjudged(o, p)
               \/ JudgeForeign(o, p) \/ JudgeFails(o, p) \/ Unreserve(o, p) \/ UnreserveFails(o, p)
      <4>1. pc'[o] \in Before \cup Ended \cup {"admit"}
        BY <1>0, <3>2 DEF PriorMoved, Appeared, StageFails, ReserveUnjudged, JudgeForeign,
                          JudgeFails, Unreserve,
                          UnreserveFails, Return, Leave, TypeOK, Before, Ended
      <4> QED BY <2>2, <4>1, IdleFresh
    <3>3. CASE CheckPrior(o, p)
      BY <1>0, <2>2, <3>3
         DEF CheckPrior, FreshAt, Verified, Deletions, Holds, Reservation, TypeOK
    <3>4. CASE Stage(o, p)
      BY <1>0, <2>2, <3>4 DEF Stage, FreshAt, Verified, Deletions, Holds, Reservation, TypeOK
    <3>5. CASE Rewrite(o, p)
      BY <1>0, <2>2, <3>5
         DEF Rewrite, RenameOver, Put, FreshAt, Verified, Deletions, Writes, InBatch, Holds, TypeOK
    <3>6. CASE Reserve(o, p)
      BY <1>0, <2>2, <3>6
         DEF Reserve, FreshAt, Verified, Deletions, Writes, InBatch, Holds, Reservation, TypeOK
    <3>7. CASE LandCreate(o, p)
      BY <1>0, <2>2, <3>7
         DEF LandCreate, RenameOver, Put, FreshAt, Verified, Deletions, Writes, InBatch, Holds,
             TypeOK
    <3>8. CASE Delete(o, p)
      BY <1>0, <2>2, <3>8
         DEF Delete, Put, FreshAt, Verified, Deletions, InBatch, Holds, TypeOK
    <3>9. CASE JudgeOwn(o, p)
      BY <1>0, <2>2, <3>9 DEF JudgeOwn, FreshAt, Verified, Deletions, Holds, Reservation, TypeOK
    <3> QED BY <1>1, <3>1, <3>2, <3>3, <3>4, <3>5, <3>6, <3>7, <3>8, <3>9 DEF PathStep
  <2> QED BY <2>1, <2>2
<1>2. ASSUME NEW o \in Op, PhaseStep(o) PROVE FreshAt(x)'
  <2>0. file' = file /\ moved' = moved
    BY <1>2 DEF PhaseStep, Compute, Lock, Admit, Inadmissible, Checked, Staged, Committed,
                Finish, Fault
  <2>1. CASE x # o
    <3>1. /\ pc'[x] = pc[x] /\ todo'[x] = todo[x] /\ cur'[x] = cur[x]
          /\ prior'[x] = prior[x] /\ plan'[x] = plan[x]
      BY <1>0, <1>2, <2>1
         DEF TypeOK, PhaseStep, Compute, Lock, Admit, Inadmissible, Checked, Staged,
             Committed, Finish, Fault, Goto, Return, Leave
    <3> QED BY <1>0, <2>0, <3>1, StillFresh
  <2>2. CASE x = o
    <3>1. CASE \/ \E batch \in Batches : Compute(o, batch)
               \/ Lock(o) \/ Inadmissible(o) \/ Finish(o) \/ Fault(o)
      <4>1. pc'[o] \in Before \cup Ended \cup {"admit"}
        BY <1>0, <3>1 DEF Compute, Lock, Inadmissible, Finish, Fault, Return, Leave, TypeOK,
                          Before, Ended
      <4> QED BY <2>2, <4>1, IdleFresh
    <3>2. CASE Admit(o) \/ Checked(o) \/ Staged(o) \/ Committed(o)
      <4>1. /\ pc'[o] \notin {"reserved", "judged"}
            /\ Verified(o)' \subseteq Verified(o)
        BY <1>0, <2>2, <3>2
           DEF Admit, Checked, Staged, Committed, Goto, Verified, InBatch, Writes, Deletions, TypeOK
      <4>2. prior' = prior
        BY <3>2 DEF Admit, Checked, Staged, Committed
      <4> QED BY <1>0, <2>0, <2>2, <4>1, <4>2 DEF FreshAt, Holds
    <3> QED BY <1>2, <3>1, <3>2 DEF PhaseStep
  <2> QED BY <2>1, <2>2
<1>3. ASSUME NEW r \in Proc, Crash(r) PROVE FreshAt(x)'
  <2>1. CASE ProcOf[x] # r \/ pc[x] \in Ended
    BY <1>0, <1>3, <2>1, StillFresh DEF Crash, TypeOK
  <2>2. CASE ~(ProcOf[x] # r \/ pc[x] \in Ended)
    <3>1. pc'[x] \in Before \cup Ended \cup {"admit"}
      BY <1>0, <1>3, <2>2 DEF Crash, TypeOK, Ended
    <3> QED BY <3>1, IdleFresh
  <2> QED BY <2>1, <2>2
<1>4. ASSUME NEW p \in Path, ForeignReplace(p) \/ ForeignInPlace(p) PROVE FreshAt(x)'
  <2>1. PICK f : ForeignPut(p, f)
    BY <1>4 DEF ForeignReplace, ForeignInPlace
  <2>2. moved'[x] = moved[x] \cup {p} /\ \A q \in Path \ {p} : file'[q] = file[q]
    BY <1>0, <2>1 DEF ForeignPut, TypeOK
  <2> QED BY <1>0, <2>1, <2>2, StillFresh DEF ForeignPut
<1>5. CASE UNCHANGED vars
  BY <1>0, <1>5, StillFresh DEF vars
<1> QED BY <1>1, <1>2, <1>3, <1>4, <1>5 DEF Next, OpStep
-----------------------------------------------------------------------------
(* Empty files are accounted for. *)

\* Operation o explains an empty file at p.
Explains(o, p) ==
  /\ file[p].owner = o
  /\ \/ pc[o] \in {"reserved", "judged", "silent", "torn"} /\ p \in cur[o]
     \/ p \in named[o]

LEMMA NextAccounted ==
  Typed /\ ReservationAccounted /\ [Next]_vars => ReservationAccounted'
<1> SUFFICES ASSUME Typed, ReservationAccounted, [Next]_vars,
                    NEW q \in Path, (file[q].val = {})'
             PROVE  \E e \in Op : Explains(e, q)'
  BY DEF ReservationAccounted, Explains
<1>0. TypeOK /\ (file[q].val = {} => \E e \in Op : Explains(e, q))
  BY DEF Typed, ReservationAccounted, Explains
<1>1. ASSUME NEW o \in Op, NEW p \in Path, PathStep(o, p)
      PROVE  \E e \in Op : Explains(e, q)'
  <2>1. CASE \/ ReadFile(o, p) \/ Restamp(o, p) \/ CheckPrior(o, p) \/ PriorMoved(o, p)
             \/ Stage(o, p)
             \/ Appeared(o, p) \/ StageFails(o, p)
    <3>1. PICK e \in Op : Explains(e, q)
      BY <1>0, <2>1 DEF ReadFile, Restamp, CheckPrior, PriorMoved, Stage, Appeared, StageFails
    <3>2. UNCHANGED <<file, cur, named>>
      BY <2>1 DEF ReadFile, Restamp, CheckPrior, PriorMoved, Stage, Appeared, StageFails
    <3>3. pc[e] \in {"reserved", "judged", "silent", "torn"} => pc'[e] = pc[e]
      BY <1>0, <2>1 DEF ReadFile, Restamp, CheckPrior, PriorMoved, Stage, Appeared, StageFails,
                        Return, Leave, TypeOK
    <3> QED BY <3>1, <3>2, <3>3 DEF Explains
  <2>2. CASE ReserveUnjudged(o, p) \/ JudgeForeign(o, p) \/ UnreserveFails(o, p)
    <3>1. PICK e \in Op : Explains(e, q)
      BY <1>0, <2>2 DEF ReserveUnjudged, JudgeForeign, UnreserveFails
    <3>2. UNCHANGED <<file, cur>> /\ named[e] \subseteq named'[e]
      <4>1. UNCHANGED <<file, cur>> /\ named' \in {named, [named EXCEPT ![o] = @ \cup {p}]}
        BY <2>2 DEF ReserveUnjudged, JudgeForeign, UnreserveFails
      <4>2. named \in [Op -> SUBSET Path]
        BY <1>0 DEF TypeOK
      <4> QED BY <4>1, <4>2
    <3>3. CASE e # o
      <4>1. pc'[e] = pc[e]
        BY <1>0, <2>2, <3>3 DEF ReserveUnjudged, JudgeForeign, UnreserveFails, Return, Leave, TypeOK
      <4> QED BY <3>1, <3>2, <4>1 DEF Explains
    <3>4. CASE e = o
      <4>1. p \in cur[o] /\ pc[o] \in {"reserved", "judged"}
        BY <2>2 DEF ReserveUnjudged, JudgeForeign, UnreserveFails
      <4>2. q \in named[o] \/ q = p
        BY <3>1, <3>4, <4>1 DEF Explains, Typed, InBatch
      <4>3. q \in named'[o]
        BY <1>0, <2>2, <3>1, <3>2, <3>4, <4>2
           DEF ReserveUnjudged, JudgeForeign, UnreserveFails, Explains, TypeOK
      <4> QED BY <3>1, <3>2, <3>4, <4>3 DEF Explains
    <3> QED BY <3>3, <3>4
  <2>3. CASE Rewrite(o, p) \/ LandCreate(o, p)
    <3>1. p \in Writes(o) /\ file' = [file EXCEPT ![p] = Standing(plan[o][p])]
      BY <2>3 DEF Rewrite, LandCreate, RenameOver, Put, Typed, InBatch
    <3>2. q # p
      BY <1>0, <3>1 DEF Writes, Standing, TypeOK
    <3>3. PICK e \in Op : Explains(e, q)
      BY <1>0, <3>1, <3>2 DEF TypeOK
    <3>4. e = o => q \in named[o]
      BY <2>3, <3>2, <3>3 DEF Rewrite, LandCreate, Explains, Typed, InBatch
    <3>5. named' = named /\ file'[q] = file[q]
      BY <1>0, <2>3, <3>1, <3>2 DEF Rewrite, LandCreate, TypeOK
    <3>6. e # o => cur'[e] = cur[e] /\ pc'[e] = pc[e]
      BY <1>0, <2>3 DEF Rewrite, LandCreate, TypeOK
    <3> QED BY <3>3, <3>4, <3>5, <3>6 DEF Explains
  <2>4. CASE Reserve(o, p)
    <3>1. CASE q = p
      BY <1>0, <2>4, <3>1 DEF Reserve, Reservation, Explains, TypeOK
    <3>2. CASE q # p
      <4>1. file'[q] = file[q]
        BY <1>0, <2>4, <3>2 DEF Reserve, TypeOK
      <4>2. PICK e \in Op : Explains(e, q)
        BY <1>0, <4>1
      <4>3. e = o => q \in named[o]
        BY <2>4, <4>2 DEF Reserve, Explains
      <4>4. named' = named /\ (e # o => cur'[e] = cur[e] /\ pc'[e] = pc[e])
        BY <1>0, <2>4 DEF Reserve, TypeOK
      <4> QED BY <4>1, <4>2, <4>3, <4>4 DEF Explains
    <3> QED BY <3>1, <3>2
  <2>5. CASE Delete(o, p) \/ Unreserve(o, p)
    <3>1. file' = [file EXCEPT ![p] = Standing(Absent)] /\ UNCHANGED <<cur, named>>
      BY <2>5 DEF Delete, Unreserve, Put
    <3>2. q # p
      BY <1>0, <3>1, AbsentIsNotEmpty DEF Standing, TypeOK
    <3>3. PICK e \in Op : Explains(e, q)
      BY <1>0, <3>1, <3>2 DEF TypeOK
    <3>4. e = o => q \in named[o]
      BY <2>5, <3>2, <3>3 DEF Delete, Unreserve, Explains, Typed, InBatch
    <3>5. e # o => pc'[e] = pc[e]
      BY <1>0, <2>5 DEF Delete, Unreserve, Return, Leave, TypeOK
    <3>6. file'[q] = file[q]
      BY <1>0, <3>1, <3>2 DEF TypeOK
    <3> QED BY <3>1, <3>3, <3>4, <3>5, <3>6 DEF Explains
  <2>6. CASE JudgeOwn(o, p)
    <3>1. PICK e \in Op : Explains(e, q)
      BY <1>0, <2>6 DEF JudgeOwn
    <3>2. UNCHANGED <<file, cur, named>>
      BY <2>6 DEF JudgeOwn
    <3>3. pc[e] \in {"reserved", "judged", "silent", "torn"} => pc'[e] \in {"reserved", "judged", "silent", "torn"}
      BY <1>0, <2>6 DEF JudgeOwn, TypeOK
    <3> QED BY <3>1, <3>2, <3>3 DEF Explains
  <2>7. CASE JudgeFails(o, p)
    <3>1. PICK e \in Op : Explains(e, q)
      BY <1>0, <2>7 DEF JudgeFails
    <3>2. UNCHANGED <<file, cur, named>>
      BY <2>7 DEF JudgeFails
    <3>3. pc'[e] = pc[e] \/ (e = o /\ pc'[e] = "silent")
      BY <1>0, <2>7 DEF JudgeFails, Return, Leave, TypeOK
    <3> QED BY <3>1, <3>2, <3>3 DEF Explains
  <2> QED BY <1>1, <2>1, <2>2, <2>3, <2>4, <2>5, <2>6, <2>7 DEF PathStep
<1>2. ASSUME NEW o \in Op, PhaseStep(o) PROVE \E e \in Op : Explains(e, q)'
  <2>1. UNCHANGED <<file, cur, named>>
    BY <1>2 DEF PhaseStep, Compute, Lock, Admit, Inadmissible, Checked, Staged, Committed,
                Finish, Fault
  <2>2. PICK e \in Op : Explains(e, q)
    BY <1>0, <2>1
  <2>3. pc[e] \in {"reserved", "judged", "silent", "torn"} => pc'[e] = pc[e]
    BY <1>0, <1>2
       DEF PhaseStep, Compute, Lock, Admit, Inadmissible, Checked, Staged, Committed,
           Finish, Fault, Goto, Return, Leave, TypeOK
  <2> QED BY <2>1, <2>2, <2>3 DEF Explains
<1>3. ASSUME NEW r \in Proc, Crash(r) PROVE \E e \in Op : Explains(e, q)'
  <2>1. UNCHANGED <<file, cur, named>>
    BY <1>3 DEF Crash
  <2>2. PICK e \in Op : Explains(e, q)
    BY <1>0, <2>1
  <2>3. pc[e] \in {"reserved", "judged", "silent", "torn"} => pc'[e] \in {"reserved", "judged", "silent", "torn"}
    BY <1>0, <1>3 DEF Crash, Landing, Ended, TypeOK
  <2> QED BY <2>1, <2>2, <2>3 DEF Explains
<1>4. ASSUME NEW p \in Path, ForeignReplace(p) \/ ForeignInPlace(p)
      PROVE  \E e \in Op : Explains(e, q)'
  <2>1. UNCHANGED <<pc, cur, named>> /\ \E f : f.val # {} /\ file' = [file EXCEPT ![p] = f]
    <3>1. CASE ForeignReplace(p)
      BY <3>1 DEF ForeignReplace, ForeignPut, Standing
    <3>2. CASE ForeignInPlace(p)
      <4>1. PICK v \in (SUBSET Rec) \ {{}} : ForeignPut(p, [file[p] EXCEPT !.val = v])
        BY <3>2 DEF ForeignInPlace
      <4>2. file[p] \in [val : Content, owner : Op \cup {NoOp}]
        BY <1>0 DEF TypeOK
      <4>3. [file[p] EXCEPT !.val = v].val = v
        BY <4>2
      <4> QED BY <4>1, <4>3 DEF ForeignPut
    <3> QED BY <1>4, <3>1, <3>2
  <2>2. q # p
    BY <1>0, <2>1 DEF TypeOK
  <2>3. file'[q] = file[q]
    BY <1>0, <2>1, <2>2 DEF TypeOK
  <2>4. PICK e \in Op : Explains(e, q)
    BY <1>0, <2>3
  <2> QED BY <2>1, <2>3, <2>4 DEF Explains
<1>5. CASE UNCHANGED vars
  BY <1>0, <1>5 DEF vars, Explains
<1> QED BY <1>1, <1>2, <1>3, <1>4, <1>5 DEF Next, OpStep
-----------------------------------------------------------------------------
(* The theorems. *)

\* The stamp of a file read once is what was read.
LEMMA NextStamped == Typed /\ StampedAsRead /\ [Next]_vars => StampedAsRead'
<1> SUFFICES ASSUME Typed, StampedAsRead, [Next]_vars PROVE StampedAsRead'
  OBVIOUS
<1>0. TypeOK
  BY DEF Typed
<1>1. ASSUME NEW o \in Op, NEW p \in Path, PathStep(o, p) PROVE StampedAsRead'
  <2>1. CASE ReadFile(o, p)
    <3>1. CASE UNCHANGED <<basis, prior>>
      BY <3>1 DEF StampedAsRead
    <3>2. CASE /\ basis' = [basis EXCEPT ![o][p] = file[p].val]
               /\ prior' = [prior EXCEPT ![o][p] = file[p].val]
      BY <1>0, <3>2 DEF StampedAsRead, TypeOK
    <3> QED BY <2>1, <3>1, <3>2 DEF ReadFile
  <2>2. CASE Restamp(o, p)
    BY <1>0, <2>2 DEF Restamp, StampedAsRead, TypeOK
  <2>3. CASE ~(ReadFile(o, p) \/ Restamp(o, p))
    <3>1. UNCHANGED <<basis, prior>>
      BY <1>1, <2>3
         DEF PathStep, CheckPrior, PriorMoved, Stage, Rewrite, Reserve, Appeared, StageFails,
             LandCreate,
             Delete, ReserveUnjudged, JudgeOwn, JudgeForeign, JudgeFails, Unreserve,
             UnreserveFails
    <3> QED BY <3>1 DEF StampedAsRead
  <2> QED BY <2>1, <2>2, <2>3
<1>2. ASSUME NEW o \in Op, PhaseStep(o) PROVE StampedAsRead'
  BY <1>2 DEF PhaseStep, Compute, Lock, Admit, Inadmissible, Checked, Staged, Committed,
              Finish, Fault, StampedAsRead
<1>3. ASSUME NEW r \in Proc, Crash(r) PROVE StampedAsRead'
  BY <1>3 DEF Crash, StampedAsRead
<1>4. ASSUME NEW p \in Path, ForeignReplace(p) \/ ForeignInPlace(p) PROVE StampedAsRead'
  <2>1. PICK f : ForeignPut(p, f)
    BY <1>4 DEF ForeignReplace, ForeignInPlace
  <2>2. UNCHANGED <<basis, prior>>
    BY <2>1 DEF ForeignPut
  <2> QED BY <2>2 DEF StampedAsRead
<1>5. CASE UNCHANGED vars
  BY <1>5 DEF vars, StampedAsRead
<1> QED BY <1>1, <1>2, <1>3, <1>4, <1>5 DEF Next, OpStep

LEMMA InitIInv == Init => IInv
<1> SUFFICES ASSUME Init PROVE IInv
  OBVIOUS
<1>1. Typed /\ MutexHeld
  BY InitTyped
<1>2. FreshUntilLanded
  BY DEF Init, FreshUntilLanded, FreshAt, Verified
<1>3. ReservationAccounted
  BY DEF Init, ReservationAccounted, Standing
<1>4. StampedAsRead
  BY DEF Init, StampedAsRead
<1> QED BY <1>1, <1>2, <1>3, <1>4 DEF IInv, Typed

LEMMA NextIInv == IInv /\ [Next]_vars => IInv'
BY NextTypeOK, NextInBatch, NextMutex, NextStamped, NextFresh, NextAccounted DEF IInv, Typed

-----------------------------------------------------------------------------
(* What a landing has reported, and what stands after it. *)

\* What operation x goes by, a step of another operation leaves alone.
SameOp(x) ==
  /\ pc'[x] = pc[x] /\ todo'[x] = todo[x] /\ temps'[x] = temps[x]
  /\ prior'[x] = prior[x] /\ plan'[x] = plan[x]
  /\ wrote'[x] = wrote[x] /\ deleted'[x] = deleted[x]

LEMMA OthersSame ==
  ASSUME TypeOK, NEW o \in Op, NEW x \in Op, x # o, OpStep(o)
  PROVE  SameOp(x)
<1>1. ASSUME NEW p \in Path, PathStep(o, p) PROVE SameOp(x)
  <2>1. CASE \/ ReadFile(o, p) \/ Restamp(o, p) \/ CheckPrior(o, p) \/ Stage(o, p) \/ Rewrite(o, p)
             \/ Reserve(o, p) \/ LandCreate(o, p) \/ Delete(o, p) \/ JudgeOwn(o, p)
    BY <2>1
       DEF SameOp, TypeOK, ReadFile, Restamp, CheckPrior, Stage, Rewrite, Reserve, LandCreate,
           Delete, JudgeOwn, RenameOver
  <2>2. CASE \/ PriorMoved(o, p) \/ Appeared(o, p) \/ StageFails(o, p) \/ ReserveUnjudged(o, p)
             \/ JudgeForeign(o, p)
             \/ JudgeFails(o, p) \/ Unreserve(o, p) \/ UnreserveFails(o, p)
    BY <2>2
       DEF SameOp, TypeOK, PriorMoved, Appeared, StageFails, ReserveUnjudged, JudgeForeign,
           JudgeFails,
           Unreserve, UnreserveFails, Return, Leave, Discard
  <2> QED BY <1>1, <2>1, <2>2 DEF PathStep
<1>2. ASSUME PhaseStep(o) PROVE SameOp(x)
  <2>1. ASSUME NEW batch \in Batches, Compute(o, batch) PROVE SameOp(x)
    BY <2>1 DEF SameOp, TypeOK, Compute
  <2>2. CASE Lock(o) \/ Checked(o) \/ Staged(o) \/ Committed(o)
    BY <2>2 DEF SameOp, TypeOK, Lock, Checked, Staged, Committed, Goto
  <2>3. CASE Admit(o) \/ Inadmissible(o) \/ Finish(o) \/ Fault(o)
    BY <2>3
       DEF SameOp, TypeOK, Admit, Inadmissible, Finish, Fault, Goto, Return, Leave, Discard
  <2> QED BY <1>2, <2>1, <2>2, <2>3 DEF PhaseStep
<1> QED BY <1>1, <1>2 DEF OpStep

\* An operation that has ended stays as it ended.
LEMMA EndedStays ==
  ASSUME TypeOK, [Next]_vars, NEW x \in Op, pc[x] \in Ended
  PROVE  pc'[x] = pc[x]
<1>1. ASSUME NEW o \in Op, OpStep(o) PROVE pc'[x] = pc[x]
  <2>1. x # o
    <3>1. ASSUME NEW p \in Path, PathStep(o, p) PROVE pc[o] \notin Ended
      BY <3>1
         DEF PathStep, ReadFile, Restamp, CheckPrior, PriorMoved, Stage, Rewrite, Reserve,
             Appeared, StageFails, LandCreate, Delete, ReserveUnjudged, JudgeOwn, JudgeForeign,
             JudgeFails, Unreserve, UnreserveFails, Ended
    <3>2. ASSUME PhaseStep(o) PROVE pc[o] \notin Ended
      BY <3>2
         DEF PhaseStep, Compute, Lock, Admit, Inadmissible, Checked, Staged, Committed, Finish,
             Fault, Ended
    <3> QED BY <1>1, <3>1, <3>2 DEF OpStep
  <2> QED BY <1>1, <2>1, OthersSame DEF SameOp
<1>2. ASSUME NEW r \in Proc, Crash(r) PROVE pc'[x] = pc[x]
  BY <1>2 DEF Crash, TypeOK
<1>3. CASE UNCHANGED pc
  BY <1>3
<1> QED BY <1>1, <1>2, <1>3 DEF Next, vars, ForeignReplace, ForeignInPlace, ForeignPut

LEMMA ReportedKept ==
  ASSUME NEW x \in Op, Reported(x), SameOp(x)
  PROVE  Reported(x)'
BY DEF Reported, SameOp, Writes, Deletions

\* A step of o that leaves its batch and its reports, as it returns.
LEMMA LeaveReported ==
  ASSUME TypeOK, NEW o \in Op, Reported(o), InBatch(o),
         UNCHANGED <<plan, wrote, deleted>>,
         NEW outcome \in {"refused", "fault", "silent"}, Leave(o, outcome),
         outcome = "refused" => pc[o] \in Judging,
         NEW staged, staged \cap wrote[o] = {}, Discard(o, staged)
  PROVE  Reported(o)'
<1>1. PICK left \in SUBSET staged : temps' = [temps EXCEPT ![o] = left]
  BY DEF Discard
<1>2. pc'[o] = outcome /\ temps'[o] \cap wrote'[o] = {}
  BY <1>1 DEF Leave, TypeOK
<1> QED BY <1>2 DEF Reported, Writes, Deletions, Before, Judging, Landing

LEMMA ReturnReported ==
  ASSUME TypeOK, NEW o \in Op, Reported(o), InBatch(o),
         UNCHANGED <<plan, wrote, deleted>>,
         NEW outcome \in {"refused", "fault", "silent"}, Return(o, outcome),
         outcome = "refused" => pc[o] \in Judging
  PROVE  Reported(o)'
<1>1. temps[o] \cap wrote[o] = {}
  BY DEF Reported
<1> QED BY <1>1, LeaveReported DEF Return

LEMMA NextReported ==
  ASSUME IInv, NEW x \in Op, Reported(x), [Next]_vars
  PROVE  Reported(x)'
<1>0. TypeOK /\ InBatch(x)
  BY DEF IInv
<1>1. ASSUME NEW o \in Op, OpStep(o), x # o PROVE Reported(x)'
  BY <1>0, <1>1, OthersSame, ReportedKept
<1>2. ASSUME NEW p \in Path, PathStep(x, p) PROVE Reported(x)'
  <2>1. CASE ReadFile(x, p)
    BY <1>0, <2>1 DEF ReadFile, TypeOK, Reported, Writes, Deletions, Before, Judging, Landing
  <2>2. CASE Restamp(x, p) \/ CheckPrior(x, p) \/ JudgeOwn(x, p)
    BY <1>0, <2>2
       DEF Restamp, CheckPrior, JudgeOwn, TypeOK, Reported, Writes, Deletions, Before, Judging,
           Landing
  <2>3. CASE Stage(x, p)
    BY <1>0, <2>3 DEF Stage, TypeOK, Reported, Writes, Deletions, Before, Judging, Landing
  <2>4. CASE Reserve(x, p)
    BY <1>0, <2>4 DEF Reserve, TypeOK, Reported, Writes, Deletions, Before, Judging, Landing
  <2>5. CASE Rewrite(x, p)
    <3>1. /\ pc'[x] = "commit" /\ plan' = plan /\ deleted' = deleted
          /\ wrote'[x] = wrote[x] \cup {p} /\ todo'[x] = todo[x] \ {p}
          /\ pc[x] = "commit" /\ p \in Writes(x) /\ temps'[x] = temps[x] \ {p}
      BY <1>0, <2>5 DEF Rewrite, RenameOver, TypeOK, InBatch
    <3> QED BY <3>1 DEF Reported, Writes, Deletions, Before, Judging, Landing
  <2>6. CASE LandCreate(x, p)
    <3>1. /\ pc'[x] = "commit" /\ plan' = plan /\ deleted' = deleted
          /\ wrote'[x] = wrote[x] \cup {p} /\ todo'[x] = todo[x] \ {p}
          /\ pc[x] = "reserved" /\ p \in Writes(x) /\ temps'[x] = temps[x] \ {p}
      BY <1>0, <2>6 DEF LandCreate, RenameOver, TypeOK, InBatch
    <3> QED BY <3>1 DEF Reported, Writes, Deletions, Before, Judging, Landing
  <2>7. CASE Delete(x, p)
    <3>1. /\ pc'[x] = "delete" /\ plan' = plan /\ wrote' = wrote /\ temps' = temps
          /\ deleted'[x] = deleted[x] \cup {p} /\ todo'[x] = todo[x] \ {p}
          /\ pc[x] = "delete" /\ p \in Deletions(x)
      BY <1>0, <2>7 DEF Delete, TypeOK, InBatch
    <3> QED BY <3>1 DEF Reported, Writes, Deletions, Before, Judging, Landing
  <2>8. CASE PriorMoved(x, p)
    BY <1>0, <2>8, ReturnReported DEF PriorMoved, Judging
  <2>9. CASE \/ Appeared(x, p) \/ ReserveUnjudged(x, p) \/ JudgeForeign(x, p) \/ JudgeFails(x, p)
             \/ Unreserve(x, p) \/ UnreserveFails(x, p)
    BY <1>0, <2>9, ReturnReported
       DEF Appeared, ReserveUnjudged, JudgeForeign, JudgeFails, Unreserve, UnreserveFails
  <2>10. CASE StageFails(x, p)
    <3>1. (temps[x] \cup {p}) \cap wrote[x] = {}
      BY <2>10 DEF StageFails, Reported
    <3> QED BY <1>0, <2>10, <3>1, LeaveReported DEF StageFails
  <2> QED BY <1>2, <2>1, <2>2, <2>3, <2>4, <2>5, <2>6, <2>7, <2>8, <2>9, <2>10 DEF PathStep
<1>3. ASSUME PhaseStep(x) PROVE Reported(x)'
  <2>1. CASE \/ \E batch \in Batches : Compute(x, batch)
             \/ Lock(x) \/ Admit(x) \/ Checked(x)
    BY <1>0, <2>1
       DEF Compute, Lock, Admit, Checked, Goto, TypeOK, Reported, Writes, Deletions, Before,
           Judging, Landing
  <2>2. CASE Staged(x)
    <3>1. /\ pc'[x] = "commit" /\ pc[x] = "stage" /\ UNCHANGED <<plan, wrote, deleted, temps>>
          /\ todo'[x] = Writes(x)
      BY <1>0, <2>2 DEF Staged, Goto, TypeOK
    <3> QED BY <3>1 DEF Reported, Writes, Deletions, Before, Judging, Landing
  <2>3. CASE Committed(x)
    <3>1. /\ pc'[x] = "delete" /\ pc[x] = "commit" /\ UNCHANGED <<plan, wrote, deleted, temps>>
          /\ todo'[x] = Deletions(x) /\ todo[x] = {}
      BY <1>0, <2>3 DEF Committed, Goto, TypeOK
    <3> QED BY <3>1 DEF Reported, Writes, Deletions, Before, Judging, Landing
  <2>4. CASE Finish(x)
    <3>1. /\ pc'[x] = "ok" /\ pc[x] = "delete" /\ UNCHANGED <<plan, wrote, deleted>>
          /\ temps'[x] \subseteq temps[x] /\ todo[x] = {}
      BY <1>0, <2>4 DEF Finish, Return, Leave, Discard, TypeOK
    <3> QED BY <3>1 DEF Reported, Writes, Deletions, Before, Judging, Landing
  <2>5. CASE Inadmissible(x) \/ Fault(x)
    BY <1>0, <2>5, ReturnReported DEF Inadmissible, Fault, Judging
  <2> QED BY <1>3, <2>1, <2>2, <2>3, <2>4, <2>5 DEF PhaseStep
<1>4. ASSUME NEW r \in Proc, Crash(r) PROVE Reported(x)'
  BY <1>0, <1>4
     DEF Crash, TypeOK, Reported, Writes, Deletions, Before, Judging, Landing, InApply, Ended
<1>5. ASSUME NEW p \in Path, ForeignReplace(p) \/ ForeignInPlace(p) PROVE Reported(x)'
  BY <1>5, ReportedKept DEF ForeignReplace, ForeignInPlace, ForeignPut, SameOp
<1>6. CASE UNCHANGED vars
  BY <1>6, ReportedKept DEF vars, SameOp
<1> QED BY <1>1, <1>2, <1>3, <1>4, <1>5, <1>6 DEF Next, OpStep

LEMMA NextDiedWhole ==
  ASSUME TypeOK, NEW x \in Op, DiedWhole(x), [Next]_vars
  PROVE  DiedWhole(x)'
<1> SUFFICES ASSUME pc'[x] = "torn", NEW y \in Op, ProcOf[y] = ProcOf[x]
             PROVE  pc'[y] \in Ended
  BY DEF DiedWhole
<1>1. CASE pc[x] = "torn"
  BY <1>1, EndedStays DEF DiedWhole
<1>2. CASE pc[x] # "torn"
  <2>1. ASSUME NEW o \in Op, OpStep(o) PROVE FALSE
    <3>1. CASE o # x
      BY <1>2, <2>1, <3>1, OthersSame DEF SameOp
    <3>2. CASE o = x
      BY <1>2, <2>1, <3>2
         DEF OpStep, PathStep, ReadFile, Restamp, CheckPrior, PriorMoved, Stage, Rewrite, Reserve,
             Appeared, StageFails, LandCreate, Delete, ReserveUnjudged, JudgeOwn, JudgeForeign,
             JudgeFails,
             Unreserve, UnreserveFails, PhaseStep, Compute, Lock, Admit, Inadmissible, Checked,
             Staged, Committed, Finish, Fault, Goto, Return, Leave, TypeOK
    <3> QED BY <3>1, <3>2
  <2>2. pc' # pc
    BY <1>2
  <2>3. PICK r \in Proc : Crash(r)
    BY <2>1, <2>2 DEF Next, vars, ForeignReplace, ForeignInPlace, ForeignPut
  <2>4. ProcOf[x] = r
    BY <1>2, <2>3 DEF Crash, TypeOK
  <2> QED BY <2>3, <2>4 DEF Crash, TypeOK, Ended
<1> QED BY <1>1, <1>2

\* A step of others that x sees, or that leaves the files alone.
LEMMA IntactKept ==
  ASSUME NEW x \in Op, Intact(x), UNCHANGED <<prior[x], plan[x], wrote[x], deleted[x]>>,
         pc'[x] \in Landing \cup {"torn"} => pc[x] \in Landing \cup {"torn"},
         moved[x] \subseteq moved'[x],
         \A q \in DOMAIN plan[x] \ moved'[x] : file'[q] = file[q]
  PROVE  Intact(x)'
BY DEF Intact

LEMMA NextIntact ==
  ASSUME IInv, NEW x \in Op, Reported(x), DiedWhole(x), Intact(x), [Next]_vars
  PROVE  Intact(x)'
<1>0. TypeOK /\ MutexHeld /\ InBatch(x) /\ FreshAt(x) /\ DOMAIN plan[x] \subseteq Path
  BY PlanValue DEF IInv, FreshUntilLanded
<1>1. ASSUME NEW o \in Op, NEW p \in Path, PathStep(o, p), x # o PROVE Intact(x)'
  <2>1. SameOp(x)
    BY <1>0, <1>1, OthersSame DEF OpStep
  <2>2. CASE \/ ReadFile(o, p) \/ Restamp(o, p) \/ CheckPrior(o, p) \/ PriorMoved(o, p)
             \/ Stage(o, p)
             \/ Appeared(o, p) \/ StageFails(o, p) \/ ReserveUnjudged(o, p) \/ JudgeOwn(o, p)
             \/ JudgeForeign(o, p) \/ JudgeFails(o, p) \/ UnreserveFails(o, p)
    <3>1. file' = file /\ moved'[x] = moved[x]
      <4>1. CASE CheckPrior(o, p)
        BY <1>0, <1>1, <4>1 DEF CheckPrior, TypeOK
      <4>2. CASE ~CheckPrior(o, p)
        BY <2>2, <4>2
           DEF ReadFile, Restamp, PriorMoved, Stage, Appeared, StageFails, ReserveUnjudged,
               JudgeOwn,
               JudgeForeign, JudgeFails, UnreserveFails
      <4> QED BY <4>1, <4>2
    <3> QED BY <2>1, <3>1, IntactKept DEF SameOp
  <2>3. CASE \/ Rewrite(o, p) \/ Reserve(o, p) \/ LandCreate(o, p) \/ Delete(o, p)
             \/ Unreserve(o, p)
    <3>1. pc[o] \in Landing
      BY <2>3 DEF Rewrite, Reserve, LandCreate, Delete, Unreserve, Landing
    <3>2. \A q \in Path \ {p} : file'[q] = file[q]
      BY <1>0, <2>3 DEF Rewrite, Reserve, LandCreate, Delete, Unreserve, RenameOver, Put, TypeOK
    <3>3. moved'[x] = IF ProcOf[x] = ProcOf[o] THEN moved[x] ELSE moved[x] \cup {p}
      BY <1>1, <2>3 DEF Rewrite, Reserve, LandCreate, Delete, Unreserve, RenameOver, Put
    <3>4. CASE ProcOf[x] # ProcOf[o]
      BY <1>0, <2>1, <3>2, <3>3, <3>4, IntactKept DEF SameOp
    <3>5. CASE ProcOf[x] = ProcOf[o]
      <4>1. pc[x] \notin InApply
        BY <1>0, <1>1, <3>1, <3>5 DEF MutexHeld, InApply
      <4>2. pc[x] # "torn"
        BY <3>1, <3>5 DEF DiedWhole, Landing, Ended
      <4>3. pc'[x] = pc[x]
        BY <2>1 DEF SameOp
      <4> QED BY <4>1, <4>2, <4>3 DEF Intact, InApply
    <3> QED BY <3>4, <3>5
  <2> QED BY <1>1, <2>2, <2>3 DEF PathStep
<1>2. ASSUME NEW p \in Path, PathStep(x, p) PROVE Intact(x)'
  <2>1. CASE \/ ReadFile(x, p) \/ Restamp(x, p) \/ CheckPrior(x, p)
             \/ PriorMoved(x, p) \/ Appeared(x, p) \/ StageFails(x, p) \/ ReserveUnjudged(x, p)
             \/ JudgeForeign(x, p) \/ JudgeFails(x, p) \/ Unreserve(x, p) \/ UnreserveFails(x, p)
    <3>1. pc'[x] \notin Landing \cup {"torn"}
      BY <1>0, <2>1
         DEF ReadFile, Restamp, CheckPrior, PriorMoved, Appeared, StageFails, ReserveUnjudged,
             JudgeForeign,
             JudgeFails, Unreserve, UnreserveFails, Return, Leave, TypeOK, Landing
    <3> QED BY <3>1 DEF Intact
  <2>2. CASE Stage(x, p) \/ JudgeOwn(x, p)
    <3>1. pc[x] \in Landing /\ UNCHANGED <<file, moved, prior, plan, wrote, deleted>>
      BY <2>2 DEF Stage, JudgeOwn, Landing
    <3> QED BY <3>1, IntactKept
  <2>3. CASE Rewrite(x, p) \/ LandCreate(x, p)
    <3>1. /\ pc[x] \in Landing /\ UNCHANGED <<prior, plan, deleted>>
          /\ wrote'[x] = wrote[x] \cup {p} /\ moved'[x] = moved[x] /\ p \notin deleted[x]
          /\ file'[p].val = plan[x][p] /\ \A q \in Path \ {p} : file'[q] = file[q]
      BY <1>0, <2>3 DEF Rewrite, LandCreate, RenameOver, Put, Standing, Landing, TypeOK, Reported
    <3> QED BY <1>0, <3>1 DEF Intact
  <2>4. CASE Reserve(x, p)
    <3>1. /\ pc[x] \in Landing /\ UNCHANGED <<prior, plan, deleted, wrote>>
          /\ moved'[x] = moved[x] \ {p} /\ prior[x][p] = Absent /\ p \notin wrote[x] /\ p \notin deleted[x]
          /\ \A q \in Path \ {p} : file'[q] = file[q]
      BY <1>0, <2>4 DEF Reserve, Landing, TypeOK, Reported
    <3> QED BY <1>0, <3>1 DEF Intact
  <2>5. CASE Delete(x, p)
    <3>1. /\ pc[x] \in Landing /\ UNCHANGED <<prior, plan, wrote>>
          /\ deleted'[x] = deleted[x] \cup {p} /\ moved'[x] = moved[x] /\ p \notin wrote[x]
          /\ file'[p].val = Absent /\ \A q \in Path \ {p} : file'[q] = file[q]
      BY <1>0, <2>5 DEF Delete, Put, Standing, Landing, TypeOK, Reported, InBatch, Writes, Deletions
    <3> QED BY <1>0, <3>1 DEF Intact
  <2> QED BY <1>2, <2>1, <2>2, <2>3, <2>4, <2>5 DEF PathStep
<1>3. ASSUME NEW o \in Op, PhaseStep(o), x # o PROVE Intact(x)'
  <2>1. SameOp(x)
    BY <1>0, <1>3, OthersSame DEF OpStep
  <2>2. file' = file /\ moved' = moved
    BY <1>3 DEF PhaseStep, Compute, Lock, Admit, Inadmissible, Checked, Staged, Committed,
                Finish, Fault
  <2> QED BY <2>1, <2>2, IntactKept DEF SameOp
<1>4. ASSUME PhaseStep(x) PROVE Intact(x)'
  <2>1. CASE \/ \E batch \in Batches : Compute(x, batch)
             \/ Lock(x) \/ Admit(x) \/ Inadmissible(x) \/ Finish(x) \/ Fault(x)
    <3>1. pc'[x] \notin Landing \cup {"torn"}
      BY <1>0, <2>1
         DEF Compute, Lock, Admit, Inadmissible, Finish, Fault, Goto, Return, Leave, TypeOK, Landing
    <3> QED BY <3>1 DEF Intact
  <2>2. CASE Staged(x) \/ Committed(x)
    <3>1. pc[x] \in Landing /\ UNCHANGED <<file, moved, prior, plan, wrote, deleted>>
      BY <2>2 DEF Staged, Committed, Landing
    <3> QED BY <3>1, IntactKept
  <2>3. CASE Checked(x)
    <3>1. /\ pc[x] = "check" /\ todo[x] = {}
          /\ UNCHANGED <<file, moved, prior, plan, wrote, deleted>>
      BY <2>3 DEF Checked
    <3>2. \A p \in DOMAIN plan[x] \ moved[x] : file[p].val = prior[x][p]
      BY <1>0, <3>1 DEF FreshAt, Verified, Holds
    <3>3. wrote[x] = {} /\ deleted[x] = {}
      BY <3>1 DEF Reported, Judging
    <3> QED BY <3>1, <3>2, <3>3 DEF Intact
  <2> QED BY <1>4, <2>1, <2>2, <2>3 DEF PhaseStep
<1>5. ASSUME NEW r \in Proc, Crash(r) PROVE Intact(x)'
  BY <1>0, <1>5, IntactKept DEF Crash, TypeOK, Landing, Ended
<1>6. ASSUME NEW p \in Path, ForeignReplace(p) \/ ForeignInPlace(p) PROVE Intact(x)'
  <2>1. PICK f : ForeignPut(p, f)
    BY <1>6 DEF ForeignReplace, ForeignInPlace
  <2>2. moved'[x] = moved[x] \cup {p} /\ \A q \in Path \ {p} : file'[q] = file[q]
    BY <1>0, <2>1 DEF ForeignPut, TypeOK
  <2> QED BY <1>0, <2>1, <2>2, IntactKept DEF ForeignPut
<1>7. CASE UNCHANGED vars
  BY <1>7, IntactKept DEF vars
<1> QED BY <1>1, <1>2, <1>3, <1>4, <1>5, <1>6, <1>7 DEF Next, OpStep

LEMMA InitLanding == Init => LandingInv
<1> SUFFICES ASSUME Init, NEW o \in Op PROVE Reported(o) /\ DiedWhole(o) /\ Intact(o)
  BY DEF LandingInv
<1> QED BY DEF Init, Reported, DiedWhole, Intact, Landing, Before, Judging

LEMMA NextLanding == IInv /\ LandingInv /\ [Next]_vars => LandingInv'
<1> SUFFICES ASSUME IInv, LandingInv, [Next]_vars, NEW o \in Op
             PROVE  Reported(o)' /\ DiedWhole(o)' /\ Intact(o)'
  BY DEF LandingInv
<1>1. TypeOK /\ Reported(o) /\ DiedWhole(o) /\ Intact(o)
  BY DEF IInv, LandingInv
<1> QED BY <1>1, NextReported, NextDiedWhole, NextIntact

\* The applier's inductive invariant holds in every behaviour: one operation of
\* a process inside Apply at a time, verified paths as read, reservations
\* explained.
THEOREM ApplyInvariant == Spec => []IInv
<1>1. Init => IInv
  BY InitIInv
<1>2. IInv /\ [Next]_vars => IInv'
  BY NextIInv
<1> QED BY <1>1, <1>2, PTL DEF Spec

\* The type invariant of the applier's state.
THEOREM ApplyTypes == Spec => []TypeOK
<1>1. IInv => TypeOK
  BY DEF IInv
<1> QED BY <1>1, ApplyInvariant, PTL

\* An empty record file is always explained by a live, a dead or a reporting
\* creator (the reservation and unreserve paths of stage).
THEOREM EmptyFilesExplained == Spec => []ReservationAccounted
<1>1. IInv => ReservationAccounted
  BY DEF IInv
<1> QED BY <1>1, ApplyInvariant, PTL

\* No batch overwrites or deletes content its operation did not read, however
\* the operations of its process interleave; only writers of other processes,
\* inside the window after the last check, can be overwritten.
THEOREM NoClobber == Spec => NoSilentClobber
<1>1. ASSUME IInv, [Next]_vars, NEW x \in Op, NEW q \in Path \ Reread,
             q \in (wrote'[x] \cup deleted'[x]) \ (wrote[x] \cup deleted[x]),
             q \notin moved[x]
      PROVE  file[q].val = basis[x][q] \/ file[q] = Reservation(x)
  <2>0. TypeOK /\ FreshAt(x)
    BY <1>1 DEF IInv, FreshUntilLanded
  <2>1. wrote' # wrote \/ deleted' # deleted
    BY <1>1
  <2>2. PICK o \in Op, p \in Path : Rewrite(o, p) \/ LandCreate(o, p) \/ Delete(o, p)
    <3>1. ASSUME NEW o \in Op, PhaseStep(o) PROVE FALSE
      BY <2>1, <3>1 DEF PhaseStep, Compute, Lock, Admit, Inadmissible, Checked, Staged,
                        Committed, Finish, Fault
    <3>2. ASSUME NEW r \in Proc, Crash(r) PROVE FALSE
      BY <2>1, <3>2 DEF Crash
    <3>3. ASSUME NEW p \in Path, ForeignReplace(p) \/ ForeignInPlace(p) PROVE FALSE
      BY <2>1, <3>3 DEF ForeignReplace, ForeignInPlace, ForeignPut
    <3>4. ~UNCHANGED vars
      BY <2>1 DEF vars
    <3>5. PICK o \in Op, p \in Path : PathStep(o, p)
      BY <1>1, <3>1, <3>2, <3>3, <3>4 DEF Next, OpStep
    <3>6. Rewrite(o, p) \/ LandCreate(o, p) \/ Delete(o, p)
      BY <2>1, <3>5 DEF PathStep, ReadFile, Restamp, CheckPrior, PriorMoved, Stage, Reserve,
                        Appeared, StageFails,
             ReserveUnjudged, JudgeOwn, JudgeForeign, JudgeFails, Unreserve, UnreserveFails
    <3> QED BY <3>6
  <2>7. basis[x][q] = prior[x][q]
    BY <1>1 DEF IInv, StampedAsRead
  <2>3. x = o /\ q = p
    BY <1>1, <2>0, <2>2 DEF Rewrite, LandCreate, RenameOver, Delete, TypeOK
  <2>4. CASE Rewrite(x, q)
    BY <1>1, <2>0, <2>4, <2>7 DEF Rewrite, FreshAt, Verified, Holds
  <2>5. CASE LandCreate(x, q)
    BY <1>1, <2>0, <2>5 DEF LandCreate, FreshAt
  <2>6. CASE Delete(x, q)
    BY <1>1, <2>0, <2>6, <2>7 DEF Delete, FreshAt, Verified, Holds
  <2> QED BY <2>2, <2>3, <2>4, <2>5, <2>6
<1>2. IInv /\ [Next]_vars => \A o \in Op, p \in Path \ Reread : Replaces(o, p)
  BY <1>1 DEF Replaces
<1> QED BY <1>2, ApplyInvariant, PTL DEF Spec, NoSilentClobber

\* What a landing reports and leaves behind holds in every behaviour.
THEOREM LandingInvariant == Spec => []LandingInv
BY InitLanding, NextLanding, ApplyInvariant, PTL DEF Spec

\* How an apply comes back from its landing: nothing it reports changes with the
\* return, and no file but the reservation it removes.
LEMMA ReturningSteps ==
  ASSUME IInv, NEW o \in Op, [Next]_vars, pc[o] \in Landing,
         pc'[o] \in {"ok", "fault", "silent"}
  PROVE  /\ UNCHANGED <<plan, prior, wrote, deleted, cur, moved[o]>>
         /\ \/ /\ pc[o] \in {"stage", "commit", "delete"} /\ UNCHANGED file
            \/ \E p \in cur[o] :
                 /\ pc[o] \in {"reserved", "judged"}
                 /\ \/ UNCHANGED file /\ p \in named'[o]
                    \/ UNCHANGED file /\ file[p].owner # o
                    \/ UNCHANGED file /\ pc'[o] = "silent"
                    \/ file' = [file EXCEPT ![p] = Standing(Absent)]
<1>0. TypeOK
  BY DEF IInv
<1>1. pc'[o] # pc[o] /\ pc'[o] # "torn"
  BY DEF Landing
<1>2. OpStep(o)
  <2>1. ASSUME NEW x \in Op, OpStep(x), x # o PROVE FALSE
    BY <1>0, <1>1, <2>1, OthersSame DEF SameOp
  <2>2. ASSUME NEW r \in Proc, Crash(r) PROVE FALSE
    BY <1>0, <1>1, <2>2 DEF Crash, TypeOK, Ended
  <2> QED BY <1>1, <2>1, <2>2 DEF Next, vars, ForeignReplace, ForeignInPlace, ForeignPut
<1>3. CASE PhaseStep(o)
  <2>1. Finish(o) \/ Fault(o)
    BY <1>0, <1>3
       DEF PhaseStep, Compute, Lock, Admit, Inadmissible, Checked, Staged, Committed, Goto, Landing,
           TypeOK
  <2> QED BY <2>1 DEF Finish, Fault, Landing
<1>4. CASE \E p \in Path : PathStep(o, p)
  <2> PICK p \in Path : PathStep(o, p)
    BY <1>4
  <2>1. \/ Appeared(o, p) \/ StageFails(o, p) \/ ReserveUnjudged(o, p) \/ JudgeForeign(o, p)
        \/ JudgeFails(o, p) \/ Unreserve(o, p) \/ UnreserveFails(o, p)
    BY <1>0, <1>1
       DEF PathStep, ReadFile, Restamp, CheckPrior, PriorMoved, Stage, Rewrite, Reserve,
           LandCreate, Delete, JudgeOwn, Landing, TypeOK
  <2>2. CASE Appeared(o, p) \/ StageFails(o, p)
    BY <2>2 DEF Appeared, StageFails
  <2>3. CASE ReserveUnjudged(o, p) \/ UnreserveFails(o, p)
    BY <1>0, <2>3 DEF ReserveUnjudged, UnreserveFails, TypeOK
  <2>4. CASE JudgeForeign(o, p)
    BY <2>4 DEF JudgeForeign
  <2>5. CASE JudgeFails(o, p)
    BY <1>0, <2>5 DEF JudgeFails, Return, Leave, TypeOK
  <2>6. CASE Unreserve(o, p)
    BY <2>6 DEF Unreserve, Put
  <2> QED BY <2>1, <2>2, <2>3, <2>4, <2>5, <2>6
<1> QED BY <1>2, <1>3, <1>4 DEF OpStep

\* What an apply's Result and error say of every file of its batch is so, at every
\* fault of its landing and at success (recordapply.go Apply).
THEOREM ReturnsAccounted == Spec => ReturnAccounted
<1>1. ASSUME IInv, LandingInv, LandingInv', NEW o \in Op, [Next]_vars, pc[o] \in Landing,
             pc'[o] \in {"ok", "fault", "silent"}
      PROVE  Accounted(o)
  <2>0. /\ TypeOK /\ InBatch(o) /\ FreshAt(o) /\ Reported(o) /\ Intact(o) /\ Reported(o)'
        /\ DOMAIN plan[o] \subseteq Path
    BY <1>1, PlanValue DEF IInv, LandingInv, FreshUntilLanded
  <2>1. UNCHANGED <<plan, prior, wrote, deleted, cur, moved[o]>>
    BY <1>1, ReturningSteps
  <2>2. /\ temps'[o] \cap wrote'[o] = {}
        /\ deleted'[o] # {} \/ pc'[o] = "ok" => wrote'[o] = Writes(o)
        /\ pc'[o] = "ok" => deleted'[o] = Deletions(o)
    BY <2>0, <2>1 DEF Reported, Writes, Deletions
  <2>3. ASSUME NEW q \in DOMAIN plan[o] \ moved[o]
        PROVE  /\ q \in wrote[o] => file'[q].val = plan[o][q]
               /\ q \in deleted[o] => file'[q].val = Absent
               /\ q \notin wrote[o] \cup deleted[o] =>
                    \/ file'[q].val = prior[o][q] \/ q \in named'[o]
                    \/ pc'[o] = "silent" /\ q \in cur[o]
    <3>1. CASE pc[o] \in {"stage", "commit", "delete"}
      <4>1. UNCHANGED file
        BY <1>1, <3>1, ReturningSteps
      <4>2. q \notin wrote[o] /\ q \notin deleted[o] => q \in Verified(o)
        BY <2>0, <3>1 DEF Verified, Reported, InBatch, Writes, Deletions
      <4> QED BY <1>1, <2>0, <4>1, <4>2 DEF Intact, FreshAt, Holds
    <3>2. CASE pc[o] \in {"reserved", "judged"}
      <4>1. PICK p \in cur[o] :
              \/ UNCHANGED file /\ p \in named'[o]
              \/ UNCHANGED file /\ file[p].owner # o
              \/ UNCHANGED file /\ pc'[o] = "silent"
              \/ file' = [file EXCEPT ![p] = Standing(Absent)]
        BY <1>1, <3>2, ReturningSteps
      <4>2. /\ cur[o] = {p} /\ p \in todo[o] /\ prior[o][p] = Absent
            /\ deleted[o] = {} /\ p \notin wrote[o]
        BY <2>0, <3>2 DEF InBatch, Reported
      <4>3. CASE q = p
        <5>1. file[q] = Reservation(o)
          BY <2>0, <3>2, <4>2, <4>3 DEF FreshAt
        <5>2. file' = [file EXCEPT ![p] = Standing(Absent)] => file'[q].val = Absent
          BY <2>0, <4>3 DEF Standing, TypeOK
        <5> QED BY <4>1, <4>2, <4>3, <5>1, <5>2 DEF Reservation
      <4>4. CASE q # p
        <5>1. file'[q] = file[q]
          BY <2>0, <4>1, <4>4 DEF TypeOK
        <5>2. q \notin wrote[o] => q \in Verified(o)
          BY <2>0, <3>2, <4>2, <4>4 DEF Verified, Reported, Writes, Deletions
        <5> QED BY <1>1, <2>0, <4>2, <5>1, <5>2 DEF Intact, FreshAt, Holds
      <4> QED BY <4>3, <4>4
    <3> QED BY <1>1, <3>1, <3>2 DEF Landing
  <2> QED BY <2>1, <2>2, <2>3 DEF Accounted
<1>2. IInv /\ LandingInv /\ LandingInv' /\ [Next]_vars
      => \A o \in Op : pc[o] \in Landing /\ pc'[o] \in {"ok", "fault", "silent"} => Accounted(o)
  BY <1>1
<1> QED BY <1>2, ApplyInvariant, LandingInvariant, PTL DEF Spec, ReturnAccounted

\* A batch that only moves records keeps every one of them in one of its files
\* at every moment and after its process dies, unless a writer of another
\* process touched them: writes land whole before any deletion.
THEOREM RecordsKept == Spec => []NoRecordLost
<1>1. IInv /\ LandingInv => NoRecordLost
  <2> SUFFICES ASSUME IInv, LandingInv, NEW o \in Op, pc[o] \in Landing \cup {"torn"},
                      Conserving(o), moved[o] = {}, NEW p \in DOMAIN plan[o],
                      prior[o][p] # Absent, NEW r \in prior[o][p]
               PROVE  \E q \in DOMAIN plan[o] : file[q].val # Absent /\ r \in file[q].val
    BY DEF NoRecordLost
  <2>1. /\ DOMAIN plan[o] \subseteq Path
        /\ \A q \in DOMAIN plan[o] : plan[o][q] \in SUBSET Rec /\ plan[o][q] # Absent
    BY PlanValue, Sentinels DEF IInv, Absent
  <2>2. \A q \in wrote[o] \cap DOMAIN plan[o] : file[q].val = plan[o][q]
    BY DEF LandingInv, Intact
  <2>3. CASE p \in wrote[o]
    <3>1. p \in Writes(o)
      BY <2>3 DEF LandingInv, Reported
    <3> QED BY <2>1, <2>2, <2>3, <3>1 DEF Conserving
  <2>4. CASE p \notin wrote[o] /\ p \notin deleted[o]
    BY <2>4 DEF LandingInv, Intact
  <2>5. CASE p \notin wrote[o] /\ p \in deleted[o]
    <3>1. wrote[o] = Writes(o)
      BY <2>5 DEF LandingInv, Reported
    <3>2. p \in Deletions(o)
      BY <2>5, <3>1 DEF Writes, Deletions
    <3>3. PICK q \in Writes(o) : r \in plan[o][q]
      BY <3>2 DEF Conserving
    <3> QED BY <2>1, <2>2, <3>1, <3>3 DEF Writes
  <2> QED BY <2>3, <2>4, <2>5
<1> QED BY <1>1, ApplyInvariant, LandingInvariant, PTL
=============================================================================
