----------------------------- MODULE RecordApply -----------------------------
(***************************************************************************)
(* The record applier (internal/recordapply): verbs of one or several      *)
(* stipulator processes read the record files, compute a batch of file     *)
(* updates and land it with a compare-and-swap on what they read.  A file  *)
(* is abstracted to the set of records it holds; the empty set is the      *)
(* empty file an exclusive create leaves until its rename, Absent is no    *)
(* file.  "owner" is the inode's identity as far as the applier judges it: *)
(* the operation whose reservation created the inode, or NoOp.             *)
(*                                                                         *)
(* An operation's updates are taken in any order in each phase; the code   *)
(* takes them in the batch's order, one of those.                          *)
(***************************************************************************)
EXTENDS Naturals, FiniteSets

CONSTANTS
  Path,        \* record files and corpus documents
  Rec,         \* records
  Op,          \* operations: one verb invocation each
  Proc,        \* stipulator processes
  ProcOf,      \* the process of each operation; one Applier per process
  Reread,      \* files whose stamp may come from a read after the one computed from:
               \* the tombstone registry, binding files a retarget re-pins
  NoFile,      \* marks the path without a file
  NoOp,        \* no operation
  MaxForeign   \* bound: writes by editors, git and other tools

ASSUME ProcOfType == ProcOf \in [Op -> Proc]
ASSUME RereadType == Reread \subseteq Path
ASSUME Sentinels == NoFile \notin Rec /\ NoOp \notin Op
ASSUME ForeignBound == MaxForeign \in Nat

VARIABLES
  file,     \* file[p]: what stands at p and which reservation made its inode
  mutex,    \* mutex[r]: the operation holding process r's Applier.mu
  pc,       \* pc[o]: where the operation stands
  basis,    \* basis[o][p]: what the operation read at p and computes from
  prior,    \* prior[o][p]: the stamp (Prior, PriorAbsent) of its update of p
  plan,     \* plan[o]: the batch, path -> new content ({} is a deletion)
  todo,     \* todo[o]: paths the current phase has still to take
  cur,      \* cur[o]: the create between its reservation and its rename
  temps,    \* temps[o]: paths with a staged dot-temp on disk
  wrote, deleted, \* Result.Wrote, Result.Deleted
  named,    \* named[o]: reservations the returned error names standing
  moved,    \* history: paths changed by others since o last verified them
  foreign   \* foreign writes so far

vars == <<file, mutex, pc, basis, prior, plan, todo, cur, temps, wrote, deleted,
          named, moved, foreign>>

Absent == {NoFile}
Content == (SUBSET Rec) \cup {Absent}
Batches == UNION {[paths -> SUBSET Rec] : paths \in SUBSET Path}

Writes(o) == {p \in DOMAIN plan[o] : plan[o][p] # {}}
Deletions(o) == {p \in DOMAIN plan[o] : plan[o][p] = {}}
Standing(v) == [val |-> v, owner |-> NoOp]
Reservation(o) == [val |-> {}, owner |-> o]

Before == {"read", "ready"}
Judging == {"admit", "check"}
Landing == {"stage", "commit", "reserved", "judged", "delete"}
InApply == Judging \cup Landing
Ended == {"ok", "refused", "fault", "silent", "dead", "torn"}

Init ==
  /\ file \in [Path -> {Standing(v) : v \in Content \ {{}}}]
  /\ mutex = [r \in Proc |-> NoOp]
  /\ pc = [o \in Op |-> "read"]
  /\ basis = [o \in Op |-> [p \in Path |-> Absent]]
  /\ prior = basis
  /\ plan = [o \in Op |-> [p \in {} |-> {}]]
  /\ todo = [o \in Op |-> Path]
  /\ cur = [o \in Op |-> {}]
  /\ temps = [o \in Op |-> {}]
  /\ wrote = [o \in Op |-> {}]
  /\ deleted = [o \in Op |-> {}]
  /\ named = [o \in Op |-> {}]
  /\ moved = [o \in Op |-> {}]
  /\ foreign = 0

-----------------------------------------------------------------------------
(* How a step of operation o shows to the others. *)

\* p now reads f; every operation of another process sees p move.
Put(o, p, f) ==
  /\ file' = [file EXCEPT ![p] = f]
  /\ moved' = [x \in Op |-> IF ProcOf[x] = ProcOf[o] THEN moved[x]
                                                     ELSE moved[x] \cup {p}]

Goto(o, phase, paths) ==
  /\ pc' = [pc EXCEPT ![o] = phase]
  /\ todo' = [todo EXCEPT ![o] = paths]

\* discard is an os.Remove whose error is dropped: of the temps still staged any
\* may stay behind.
Discard(o, staged) == \E left \in SUBSET staged : temps' = [temps EXCEPT ![o] = left]

\* Mutant of Leave: the mutex is left held.
Leave_NoUnlock(o, outcome) ==
  /\ pc' = [pc EXCEPT ![o] = outcome]
  /\ mutex' = mutex

\* Apply ends with an outcome; the deferred unlock releases the mutex.
Leave(o, outcome) ==
  /\ pc' = [pc EXCEPT ![o] = outcome]
  /\ mutex' = [mutex EXCEPT ![ProcOf[o]] = NoOp]

\* Apply returns: before the unlock, the deferred sweep discards the temps still
\* staged.
Return(o, outcome) == Leave(o, outcome) /\ Discard(o, temps[o])

-----------------------------------------------------------------------------
(* The operation: load the store, compute the batch. *)

\* The loader reads one record file; an empty one is refused as the residue
\* of a create that died, and the operation with it.
ReadFile(o, p) ==
  /\ pc[o] = "read" /\ p \in todo[o]
  /\ IF file[p].val = {}
       THEN pc' = [pc EXCEPT ![o] = "refused"] /\ UNCHANGED <<basis, prior, todo>>
       ELSE /\ basis' = [basis EXCEPT ![o][p] = file[p].val]
            /\ prior' = [prior EXCEPT ![o][p] = file[p].val]
            /\ todo' = [todo EXCEPT ![o] = @ \ {p}]
            /\ UNCHANGED pc
  /\ UNCHANGED <<file, mutex, plan, cur, temps, wrote, deleted, named, moved,
                 foreign>>

\* The stamp of a Reread file is what a second read finds there: Load parses the
\* registry and then reads its bytes again, a retarget loads the store again.
Restamp(o, p) ==
  /\ pc[o] = "read" /\ p \in Reread \ todo[o]
  /\ prior' = [prior EXCEPT ![o][p] = file[p].val]
  /\ UNCHANGED <<file, mutex, pc, basis, plan, todo, cur, temps, wrote, deleted,
                 named, moved, foreign>>

\* The verb computes its batch from what it read: any new contents, and
\* deletions of files it read as present.
Compute(o, batch) ==
  /\ pc[o] = "read" /\ todo[o] = {} /\ DOMAIN batch # {}
  /\ \A p \in DOMAIN batch : batch[p] = {} => basis[o][p] # Absent
  /\ plan' = [plan EXCEPT ![o] = batch]
  /\ pc' = [pc EXCEPT ![o] = "ready"]
  /\ UNCHANGED <<file, mutex, basis, prior, todo, cur, temps, wrote, deleted, named,
                 moved, foreign>>

-----------------------------------------------------------------------------
(* Apply: the mutex, admission, the preconditions. *)

\* Mutant of Lock: the applier serializes nothing.
Lock_Shared(o) ==
  /\ pc[o] = "ready"
  /\ mutex' = [mutex EXCEPT ![ProcOf[o]] = o]
  /\ pc' = [pc EXCEPT ![o] = "admit"]
  /\ UNCHANGED <<file, basis, prior, plan, todo, cur, temps, wrote, deleted, named,
                 moved, foreign>>

Lock(o) ==
  /\ pc[o] = "ready" /\ mutex[ProcOf[o]] = NoOp
  /\ mutex' = [mutex EXCEPT ![ProcOf[o]] = o]
  /\ pc' = [pc EXCEPT ![o] = "admit"]
  /\ UNCHANGED <<file, basis, prior, plan, todo, cur, temps, wrote, deleted, named,
                 moved, foreign>>

\* admitWrite and confinedOnDisk judge every path; the verdict depends on
\* manifests and symlinks outside this model, so either may come.
Admit(o) ==
  /\ pc[o] = "admit"
  /\ Goto(o, "check", DOMAIN plan[o])
  /\ UNCHANGED <<file, mutex, basis, prior, plan, cur, temps, wrote, deleted, named,
                 moved, foreign>>

Inadmissible(o) ==
  /\ pc[o] = "admit"
  /\ Return(o, "refused")
  /\ UNCHANGED <<file, basis, prior, plan, todo, cur, wrote, deleted, named, moved,
                 foreign>>

\* checkPrior: the file still holds what the operation read.
Holds(o, p) == file[p].val = prior[o][p]

\* Mutant of CheckPrior: the precondition passes whatever the file holds.
CheckPrior_Blind(o, p) ==
  /\ pc[o] = "check" /\ p \in todo[o]
  /\ todo' = [todo EXCEPT ![o] = @ \ {p}]
  /\ moved' = [moved EXCEPT ![o] = @ \ {p}]
  /\ UNCHANGED <<file, mutex, pc, basis, prior, plan, cur, temps, wrote, deleted,
                 named, foreign>>

CheckPrior(o, p) ==
  /\ pc[o] = "check" /\ p \in todo[o]
  /\ Holds(o, p)
  /\ todo' = [todo EXCEPT ![o] = @ \ {p}]
  /\ moved' = [moved EXCEPT ![o] = @ \ {p}]
  /\ UNCHANGED <<file, mutex, pc, basis, prior, plan, cur, temps, wrote, deleted,
                 named, foreign>>

PriorMoved(o, p) ==
  /\ pc[o] = "check" /\ p \in todo[o]
  /\ ~Holds(o, p)
  /\ Return(o, "refused")
  /\ UNCHANGED <<file, basis, prior, plan, todo, cur, wrote, deleted, named, moved,
                 foreign>>

\* Mutant of Checked: the deletions go before the writes.
Checked_DeletesFirst(o) ==
  /\ pc[o] = "check" /\ todo[o] = {}
  /\ Goto(o, "delete", Deletions(o))
  /\ UNCHANGED <<file, mutex, basis, prior, plan, cur, temps, wrote, deleted, named,
                 moved, foreign>>

Checked(o) ==
  /\ pc[o] = "check" /\ todo[o] = {}
  /\ Goto(o, "stage", Writes(o))
  /\ UNCHANGED <<file, mutex, basis, prior, plan, cur, temps, wrote, deleted, named,
                 moved, foreign>>

-----------------------------------------------------------------------------
(* Apply: stage every write, land the writes, then delete. *)

Stage(o, p) ==
  /\ pc[o] = "stage" /\ p \in todo[o]
  /\ temps' = [temps EXCEPT ![o] = @ \cup {p}]
  /\ todo' = [todo EXCEPT ![o] = @ \ {p}]
  /\ UNCHANGED <<file, mutex, pc, basis, prior, plan, cur, wrote, deleted, named,
                 moved, foreign>>

Staged(o) ==
  /\ pc[o] = "stage" /\ todo[o] = {}
  /\ Goto(o, "commit", Writes(o))
  /\ UNCHANGED <<file, mutex, basis, prior, plan, cur, temps, wrote, deleted, named,
                 moved, foreign>>

\* Landing p: its temp is renamed over whatever stands at the name.
RenameOver(o, p) ==
  /\ Put(o, p, Standing(plan[o][p]))
  /\ temps' = [temps EXCEPT ![o] = @ \ {p}]
  /\ wrote' = [wrote EXCEPT ![o] = @ \cup {p}]

\* A file the operation read as present: one rename.
Rewrite(o, p) ==
  /\ pc[o] = "commit" /\ p \in todo[o] /\ prior[o][p] # Absent
  /\ RenameOver(o, p)
  /\ todo' = [todo EXCEPT ![o] = @ \ {p}]
  /\ UNCHANGED <<mutex, pc, basis, prior, plan, cur, deleted, named, foreign>>

\* A file the operation read as absent: the exclusive create reserves it...
Reserve(o, p) ==
  /\ pc[o] = "commit" /\ p \in todo[o] /\ prior[o][p] = Absent
  /\ file[p].val = Absent
  /\ file' = [file EXCEPT ![p] = Reservation(o)]
  /\ moved' = [x \in Op |->
                 IF x = o THEN moved[x] \ {p}
                 ELSE IF ProcOf[x] = ProcOf[o] THEN moved[x]
                 ELSE moved[x] \cup {p}]
  /\ pc' = [pc EXCEPT ![o] = "reserved"]
  /\ cur' = [cur EXCEPT ![o] = {p}]
  /\ UNCHANGED <<mutex, basis, prior, plan, todo, temps, wrote, deleted, named,
                 foreign>>

\* ... or finds it there by now: the batch stops, naming the path.
Appeared(o, p) ==
  /\ pc[o] = "commit" /\ p \in todo[o] /\ prior[o][p] = Absent
  /\ file[p].val # Absent
  /\ Return(o, "fault")
  /\ UNCHANGED <<file, basis, prior, plan, todo, cur, wrote, deleted, named, moved,
                 foreign>>

\* ... and the staged content lands over the reservation.
LandCreate(o, p) ==
  /\ pc[o] = "reserved" /\ p \in cur[o]
  /\ RenameOver(o, p)
  /\ pc' = [pc EXCEPT ![o] = "commit"]
  /\ todo' = [todo EXCEPT ![o] = @ \ {p}]
  /\ cur' = [cur EXCEPT ![o] = {}]
  /\ UNCHANGED <<mutex, basis, prior, plan, deleted, named, foreign>>

Committed(o) ==
  /\ pc[o] = "commit" /\ todo[o] = {}
  /\ Goto(o, "delete", Deletions(o))
  /\ UNCHANGED <<file, mutex, basis, prior, plan, cur, temps, wrote, deleted, named,
                 moved, foreign>>

\* Mutant of Delete: the path where the inode's creator belongs.
Delete_Path(o, p) ==
  /\ pc[o] = "delete" /\ p \in todo[o] /\ file[p].val # Absent
  /\ Put(o, p, [val |-> Absent, owner |-> p])
  /\ deleted' = [deleted EXCEPT ![o] = @ \cup {p}]
  /\ todo' = [todo EXCEPT ![o] = @ \ {p}]
  /\ UNCHANGED <<mutex, pc, basis, prior, plan, cur, temps, wrote, named, foreign>>

Delete(o, p) ==
  /\ pc[o] = "delete" /\ p \in todo[o] /\ file[p].val # Absent
  /\ Put(o, p, Standing(Absent))
  /\ deleted' = [deleted EXCEPT ![o] = @ \cup {p}]
  /\ todo' = [todo EXCEPT ![o] = @ \ {p}]
  /\ UNCHANGED <<mutex, pc, basis, prior, plan, cur, temps, wrote, named, foreign>>

Finish(o) ==
  /\ pc[o] = "delete" /\ todo[o] = {}
  /\ Return(o, "ok")
  /\ UNCHANGED <<file, basis, prior, plan, todo, cur, wrote, deleted, named, moved,
                 foreign>>

-----------------------------------------------------------------------------
(* Faults and crashes. *)

\* A file operation of the staging fails: stage discards the temp it may have
\* made, the deferred sweep the earlier ones.
StageFails(o, p) ==
  /\ pc[o] = "stage" /\ p \in todo[o]
  /\ Leave(o, "fault") /\ Discard(o, temps[o] \cup {p})
  /\ UNCHANGED <<file, basis, prior, plan, todo, cur, wrote, deleted, named, moved,
                 foreign>>

\* Mutant of Fault: the error comes with an empty Result.
Fault_Empty(o) ==
  /\ pc[o] \in {"check", "commit", "delete"} /\ todo[o] # {}
  /\ Return(o, "fault")
  /\ wrote' = [wrote EXCEPT ![o] = {}] /\ deleted' = [deleted EXCEPT ![o] = {}]
  /\ UNCHANGED <<file, basis, prior, plan, todo, cur, named, moved, foreign>>

\* A read of the preconditions, a plain rename, the reserving open or a deletion
\* fails (a deletion also when the file is gone).
Fault(o) ==
  /\ pc[o] \in {"check", "commit", "delete"} /\ todo[o] # {}
  /\ Return(o, "fault")
  /\ UNCHANGED <<file, basis, prior, plan, todo, cur, wrote, deleted, named, moved,
                 foreign>>

\* The stat of a fresh reservation fails: it stands, and the error says so.
ReserveUnjudged(o, p) ==
  /\ pc[o] = "reserved" /\ p \in cur[o]
  /\ named' = [named EXCEPT ![o] = @ \cup {p}]
  /\ Return(o, "fault")
  /\ UNCHANGED <<file, basis, prior, plan, todo, cur, wrote, deleted, moved, foreign>>

\* The close or the rename fails: unreserve removes the file at the name when
\* it is the inode this operation reserved (Lstat, SameFile), else leaves it.
JudgeOwn(o, p) ==
  /\ pc[o] = "reserved" /\ p \in cur[o]
  /\ file[p].owner = o
  /\ pc' = [pc EXCEPT ![o] = "judged"]
  /\ UNCHANGED <<file, mutex, basis, prior, plan, todo, cur, temps, wrote, deleted,
                 named, moved, foreign>>

JudgeForeign(o, p) ==
  /\ pc[o] = "reserved" /\ p \in cur[o]
  /\ file[p].owner # o
  /\ Return(o, "fault")
  /\ UNCHANGED <<file, basis, prior, plan, todo, cur, wrote, deleted, named, moved,
                 foreign>>

\* The Lstat itself fails, whosever file stands there: the original fault is
\* returned and nothing said of the reservation.
JudgeFails(o, p) ==
  /\ pc[o] = "reserved" /\ p \in cur[o]
  /\ Return(o, "silent")
  /\ UNCHANGED <<file, basis, prior, plan, todo, cur, wrote, deleted, named, moved,
                 foreign>>

Unreserve(o, p) ==
  /\ pc[o] = "judged" /\ p \in cur[o] /\ file[p].val # Absent
  /\ Put(o, p, Standing(Absent))
  /\ Return(o, "fault")
  /\ UNCHANGED <<basis, prior, plan, todo, cur, wrote, deleted, named, foreign>>

\* Mutant of UnreserveFails: the failed removal goes unreported.
UnreserveFails_Silent(o, p) ==
  /\ pc[o] = "judged" /\ p \in cur[o]
  /\ Return(o, "fault")
  /\ UNCHANGED <<file, basis, prior, plan, todo, cur, wrote, deleted, named, moved,
                 foreign>>

UnreserveFails(o, p) ==
  /\ pc[o] = "judged" /\ p \in cur[o]
  /\ named' = [named EXCEPT ![o] = @ \cup {p}]
  /\ Return(o, "fault")
  /\ UNCHANGED <<file, basis, prior, plan, todo, cur, wrote, deleted, moved, foreign>>

\* A process dies: its operations stop where they stand, its mutex goes with
\* it; what it staged and reserved stays on disk.
Crash(r) ==
  /\ \E o \in Op : ProcOf[o] = r /\ pc[o] \notin Ended
  /\ pc' = [o \in Op |-> IF ProcOf[o] # r \/ pc[o] \in Ended THEN pc[o]
                         ELSE IF pc[o] \in Landing THEN "torn" ELSE "dead"]
  /\ mutex' = [mutex EXCEPT ![r] = NoOp]
  /\ UNCHANGED <<file, basis, prior, plan, todo, cur, temps, wrote, deleted, named,
                 moved, foreign>>

-----------------------------------------------------------------------------
(* Writers that are not stipulator: they replace, remove or rewrite in place. *)

ForeignPut(p, f) ==
  /\ foreign < MaxForeign
  /\ f # file[p]
  /\ file' = [file EXCEPT ![p] = f]
  /\ moved' = [x \in Op |-> moved[x] \cup {p}]
  /\ foreign' = foreign + 1
  /\ UNCHANGED <<mutex, pc, basis, prior, plan, todo, cur, temps, wrote, deleted,
                 named>>

ForeignReplace(p) ==
  \E v \in Content \ {{}} : ForeignPut(p, Standing(v))

ForeignInPlace(p) ==
  /\ file[p].val # Absent
  /\ \E v \in (SUBSET Rec) \ {{}} : ForeignPut(p, [file[p] EXCEPT !.val = v])

-----------------------------------------------------------------------------

PathStep(o, p) ==
  \/ ReadFile(o, p) \/ Restamp(o, p) \/ CheckPrior(o, p) \/ PriorMoved(o, p)
  \/ Stage(o, p) \/ StageFails(o, p)
  \/ Rewrite(o, p) \/ Reserve(o, p) \/ Appeared(o, p) \/ LandCreate(o, p)
  \/ Delete(o, p) \/ ReserveUnjudged(o, p) \/ JudgeOwn(o, p)
  \/ JudgeForeign(o, p) \/ JudgeFails(o, p) \/ Unreserve(o, p)
  \/ UnreserveFails(o, p)

PhaseStep(o) ==
  \/ \E batch \in Batches : Compute(o, batch)
  \/ Lock(o) \/ Admit(o) \/ Inadmissible(o) \/ Checked(o) \/ Staged(o)
  \/ Committed(o) \/ Finish(o) \/ Fault(o)

OpStep(o) == PhaseStep(o) \/ \E p \in Path : PathStep(o, p)

Next ==
  \/ \E o \in Op : OpStep(o)
  \/ \E r \in Proc : Crash(r)
  \/ \E p \in Path : ForeignReplace(p) \/ ForeignInPlace(p)

Spec == Init /\ [][Next]_vars

\* A goroutine that can run does; sync.Mutex hands itself to a waiter.
FairSpec == Spec /\ \A o \in Op : WF_vars(OpStep(o))

-----------------------------------------------------------------------------
(* Properties. *)

TypeOK ==
  /\ file \in [Path -> [val : Content, owner : Op \cup {NoOp}]]
  /\ mutex \in [Proc -> Op \cup {NoOp}]
  /\ pc \in [Op -> Before \cup InApply \cup Ended]
  /\ basis \in [Op -> [Path -> Content]]
  /\ prior \in [Op -> [Path -> Content]]
  /\ plan \in [Op -> Batches]
  /\ todo \in [Op -> SUBSET Path]
  /\ cur \in [Op -> SUBSET Path]
  /\ temps \in [Op -> SUBSET Path]
  /\ wrote \in [Op -> SUBSET Path]
  /\ deleted \in [Op -> SUBSET Path]
  /\ named \in [Op -> SUBSET Path]
  /\ moved \in [Op -> SUBSET Path]
  /\ foreign \in Nat

\* The write o lands at p replaces exactly what o computed from, or o's own
\* reservation, unless a writer outside o's process got in between the last time
\* o looked and the rename.
Replaces(o, p) ==
  /\ p \in (wrote'[o] \cup deleted'[o]) \ (wrote[o] \cup deleted[o])
  /\ p \notin moved[o]
  => file[p].val = basis[o][p] \/ file[p] = Reservation(o)

\* Operations of one process never overwrite one another unseen, whatever they
\* interleave (Apply's mutex held from the preconditions through the landing),
\* at any file stamped with the read it was computed from.
NoSilentClobber == [][\A o \in Op, p \in Path \ Reread : Replaces(o, p)]_vars

\* An empty file at a record's name is never unexplained: its creator is still
\* between reservation and rename, or died there, or could not stat the name, or
\* returned an error that names it standing.
ReservationAccounted ==
  \A p \in Path : file[p].val = {} =>
    \E o \in Op :
      /\ file[p].owner = o
      /\ \/ pc[o] \in {"reserved", "judged", "silent", "torn"} /\ p \in cur[o]
         \/ p \in named[o]

\* A batch that only moves records: files it rewrites keep theirs, and those of
\* the files it deletes are in files it writes.
Conserving(o) ==
  LET Held(p) == IF prior[o][p] = Absent THEN {} ELSE prior[o][p] IN
  /\ \A p \in Writes(o) : Held(p) \subseteq plan[o][p]
  /\ \A p \in Deletions(o) : Held(p) \subseteq UNION {plan[o][q] : q \in Writes(o)}

\* At every moment of such a batch, and after its process dies in it, every
\* record it read is in one of its files, unless a writer of another process
\* touched them: deletions are last and renames are whole.
NoRecordLost ==
  \A o \in Op :
    /\ pc[o] \in Landing \cup {"torn"}
    /\ Conserving(o) /\ moved[o] = {}
    => \A p \in DOMAIN plan[o] : prior[o][p] # Absent =>
         \A r \in prior[o][p] : \E q \in DOMAIN plan[o] :
            file[q].val # Absent /\ r \in file[q].val

\* What an apply that returns from its landing has reported: a file it names
\* written holds the new content, one it names deleted is gone, and one it names
\* neither is as it was read, or is the reservation the error names, or the one
\* whose stat failed. Files others moved meanwhile are theirs to explain. No temp
\* is left of what landed, and no deletion comes before the last write.
Accounted(o) ==
  /\ \A p \in DOMAIN plan[o] \ moved'[o] :
       /\ p \in wrote'[o] => file'[p].val = plan[o][p]
       /\ p \in deleted'[o] => file'[p].val = Absent
       /\ p \notin wrote'[o] \cup deleted'[o] =>
            \/ file'[p].val = prior[o][p] \/ p \in named'[o]
            \/ pc'[o] = "silent" /\ p \in cur[o]
  /\ temps'[o] \cap wrote'[o] = {}
  /\ deleted'[o] # {} \/ pc'[o] = "ok" => wrote'[o] = Writes(o)
  /\ pc'[o] = "ok" => deleted'[o] = Deletions(o)

\* Result names what landed, on an error as on success, wherever in the batch the
\* fault came and whatever other operations and writers did meanwhile: an apply's
\* answer never reads as "nothing written" over files that moved.
ReturnAccounted ==
  [][\A o \in Op : pc[o] \in Landing /\ pc'[o] \in {"ok", "fault", "silent"}
                     => Accounted(o)]_vars

\* Every operation that reaches Apply comes out of it: no path leaves the mutex
\* held.
ApplyEnds == \A o \in Op : pc[o] = "ready" ~> pc[o] \in Ended
-----------------------------------------------------------------------------
(* The inductive invariant the theorems of RecordApplyProofs rest on. *)

\* An operation is inside Apply exactly when it holds its process's mutex.
MutexHeld == \A o \in Op : pc[o] \in InApply <=> mutex[ProcOf[o]] = o

\* Where each phase of Apply stands in its batch.
InBatch(o) ==
  /\ pc[o] = "check" => todo[o] \subseteq DOMAIN plan[o]
  /\ pc[o] \in {"stage", "commit", "reserved", "judged"} => todo[o] \subseteq Writes(o)
  /\ pc[o] = "delete" => todo[o] \subseteq Deletions(o)
  /\ pc[o] \in {"reserved", "judged"} =>
       \E p \in todo[o] : cur[o] = {p} /\ prior[o][p] = Absent

\* The paths the operation has verified and not landed.
Verified(o) ==
  CASE pc[o] = "check" -> DOMAIN plan[o] \ todo[o]
    [] pc[o] = "stage" -> DOMAIN plan[o]
    [] pc[o] = "commit" -> todo[o] \cup Deletions(o)
    [] pc[o] \in {"reserved", "judged"} -> (todo[o] \ cur[o]) \cup Deletions(o)
    [] pc[o] = "delete" -> todo[o]
    [] OTHER -> {}

\* A file read once is stamped with what was read.
StampedAsRead == \A o \in Op, p \in Path \ Reread : basis[o][p] = prior[o][p]

\* What an operation verified and nobody outside its process moved still holds
\* what it read; what it reserved is still its reservation.
FreshAt(o) ==
  \A p \in Path \ moved[o] :
    /\ p \in Verified(o) => Holds(o, p)
    /\ pc[o] \in {"reserved", "judged"} /\ p \in cur[o] => file[p] = Reservation(o)

FreshUntilLanded == \A o \in Op : FreshAt(o)

IInv ==
  /\ TypeOK /\ MutexHeld /\ (\A o \in Op : InBatch(o))
  /\ StampedAsRead /\ FreshUntilLanded /\ ReservationAccounted

\* The one behind ReturnAccounted and NoRecordLost: what each phase has reported...
Reported(o) ==
  /\ pc[o] \in Before \cup Judging => temps[o] = {}
  /\ temps[o] \cap wrote[o] = {}
  /\ pc[o] \in Before \cup Judging \cup {"stage", "refused", "dead"} =>
       wrote[o] = {} /\ deleted[o] = {}
  /\ pc[o] \in {"commit", "reserved", "judged"} =>
       wrote[o] = Writes(o) \ todo[o] /\ deleted[o] = {}
  /\ pc[o] = "delete" => wrote[o] = Writes(o) /\ deleted[o] = Deletions(o) \ todo[o]
  /\ pc[o] = "ok" => wrote[o] = Writes(o) /\ deleted[o] = Deletions(o)
  /\ wrote[o] \subseteq Writes(o)
  /\ deleted[o] # {} => wrote[o] = Writes(o)

\* ... a process that died in a landing runs nothing more...
DiedWhole(o) == pc[o] = "torn" => \A x \in Op : ProcOf[x] = ProcOf[o] => pc[x] \in Ended

\* ... and a path nobody else moved holds what the batch put there, or what it
\* found there.
Intact(o) ==
  pc[o] \in Landing \cup {"torn"} => \A p \in DOMAIN plan[o] \ moved[o] :
    /\ p \in wrote[o] => file[p].val = plan[o][p]
    /\ p \in deleted[o] => file[p].val = Absent
    /\ p \notin wrote[o] \cup deleted[o] /\ prior[o][p] # Absent => file[p].val = prior[o][p]

LandingInv == \A o \in Op : Reported(o) /\ DiedWhole(o) /\ Intact(o)
=============================================================================
