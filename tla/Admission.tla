------------------------------ MODULE Admission ------------------------------
(***************************************************************************)
(* Admission of package processes (internal/backends/golang/execute.go):   *)
(* the invocations of one stipulator process share one host gate; each has *)
(* a processor bound and an estimate of what one package's process tree    *)
(* needs.  A package goroutine asks for a slot, waits on the gate's        *)
(* condition when it may not have one, spawns its processes one after the  *)
(* other (compiler, test binary, isolation re-runs), and gives the slot    *)
(* back.                                                                   *)
(*                                                                         *)
(* Memory is counted in small units.  A reading (gofresh's resident        *)
(* package) is one snapshot of the host, the pass and the process trees.   *)
(* The wake generation is abstracted to whether the reading held belongs   *)
(* to the latest one.                                                      *)
(***************************************************************************)
EXTENDS Naturals, FiniteSets, FiniteSetsExt, Functions

CONSTANTS
  Inv,         \* invocations, one admission each
  Pkg, InvOf,  \* packages to run, and the invocation each belongs to
  Scope,       \* packages that stand for an invocation's coverage compilation,
               \* which is admitted, run and released before the others ask
  Bound,       \* Bound[a]: the processor bound
  Floor,       \* packageEstimateFloor
  Host,        \* the host's memory
  TreeMax,     \* TreeMax[p]: bound: what the package's process tree may grow to
  PassMax,     \* bound: what stipulator itself may grow to
  PassMark,    \* stipulator's own high-water mark, discovery included
  OutsideMax,  \* bound: what other programs may take
  Readable,    \* whether the host's memory can be read: a subset of BOOLEAN
  MaxSpawns    \* bound: processes a package spawns in its slot

ASSUME PackagesOwned == InvOf \in [Pkg -> Inv] /\ Scope \subseteq Pkg
ASSUME SomeBound == Bound \in [Inv -> Nat \ {0}]
ASSUME Finite == IsFiniteSet(Pkg) /\ IsFiniteSet(Inv)
ASSUME Units ==
  /\ Floor \in Nat \ {0} /\ Host \in Nat /\ TreeMax \in [Pkg -> Nat] /\ PassMax \in Nat
  /\ PassMark \in Nat /\ OutsideMax \in Nat /\ MaxSpawns \in [Pkg -> Nat]
ASSUME Readability == Readable \subseteq BOOLEAN /\ Readable # {}

VARIABLES
  member,    \* the admissions alive on the gate
  ctx,       \* ctx[a]: "on", "ended", "told": the AfterFunc's wake has run
  pc,        \* pc[p]: where the package's goroutine stands
  running,   \* running[a]: slots given
  proc,      \* proc[p]: the package's process, if any
  spawns,    \* spawns[p]: processes spawned so far
  tree,      \* tree[p]: memory the process tree holds
  high,      \* high[p]: the most the tree of its process has held
  treePeak,  \* treePeak[p]: the most a judgement has seen it hold
  live,      \* live[p]: treePeak as reapedState read it
  peak,      \* peak[a]: the largest completed process
  passPeak,  \* passPeak[a]: the most a judgement of a has seen the pass hold
  pass, outside,  \* memory of stipulator itself, of other programs
  reading,   \* the gate's latest reading
  cached,    \* it belongs to the latest wake
  reached,   \* history: reached[a]: the most a tree of a ever held
  beyond     \* history: the pass outgrew what the gate had read of it, or other
             \* programs took memory

vars == <<member, ctx, pc, running, proc, spawns, tree, high, treePeak, live,
          peak, passPeak, pass, outside, reading, cached, reached, beyond>>

Asking == {"ask", "waiting", "woken"}
Over == {"refused", "ended", "done"}
Of(a) == {p \in Pkg : InvOf[p] = a}
Admitted(a) == {p \in Of(a) : pc[p] = "admitted"}

\* Processes in the gate's pids, from spawned to reaped.
Tracked == {"live", "waited", "folding"}
Registered(a) == {p \in Of(a) : proc[p] \in Tracked}

Less(m, n) == IF m > n THEN m - n ELSE 0

Total(f, S) == SumFunctionOnSet(f, S)
Held == Total(tree, Pkg)

\* resident.Readings: what the host has available, what the pass and each tree
\* hold; no reading at all on a host that reports none.
Snapshot == [ok |-> TRUE, free |-> Less(Host, outside + pass + Held),
             pass |-> pass, trees |-> tree]
NoReading == [ok |-> FALSE, free |-> 0, pass |-> 0, trees |-> [p \in Pkg |-> 0]]
Readings == (IF TRUE \in Readable THEN {Snapshot} ELSE {})
            \cup (IF FALSE \in Readable THEN {NoReading} ELSE {})

Init ==
  /\ member = {}
  /\ ctx = [a \in Inv |-> "on"]
  /\ pc = [p \in Pkg |-> "new"]
  /\ running = [a \in Inv |-> 0]
  /\ proc = [p \in Pkg |-> "none"]
  /\ spawns = [p \in Pkg |-> 0]
  /\ tree = [p \in Pkg |-> 0]
  /\ high = [p \in Pkg |-> 0]
  /\ treePeak = [p \in Pkg |-> 0]
  /\ live = [p \in Pkg |-> 0]
  /\ peak = [a \in Inv |-> 0]
  /\ passPeak = [a \in Inv |-> 0]
  /\ pass \in 0..PassMax
  /\ outside \in 0..OutsideMax
  /\ reading = NoReading
  /\ cached = TRUE
  /\ reached = [a \in Inv |-> 0]
  /\ beyond = FALSE

memory == <<tree, high, pass, outside, reached, beyond>>
evidence == <<treePeak, live, peak, passPeak>>

\* Mutant of Wake: the broadcast opens no generation.
Wake_SameGeneration(after) ==
  /\ pc' = [p \in Pkg |-> IF after[p] = "waiting" THEN "woken" ELSE after[p]]
  /\ UNCHANGED cached

\* The broadcast: every waiter re-asks, over a reading yet to be taken.
Wake(after) ==
  /\ pc' = [p \in Pkg |-> IF after[p] = "waiting" THEN "woken" ELSE after[p]]
  /\ cached' = FALSE

-----------------------------------------------------------------------------
(* The judgement, under the gate's lock. *)

\* readingFor: a fresh ask reads; a woken waiter shares its wake's reading.
ReadingFor(p) == IF pc[p] = "ask" \/ ~cached THEN Readings ELSE {reading}

\* estimate's maxima advance with the reading, for every member's processes.
Noted(r) ==
  [p \in Pkg |-> IF InvOf[p] \in member /\ proc[p] \in Tracked /\ r.trees[p] > treePeak[p]
                 THEN r.trees[p] ELSE treePeak[p]]

\* Mutant of Estimate: the largest package of any invocation prices every one.
Estimate_Host(a, seen) ==
  Max({Floor} \cup {peak[b] : b \in Inv} \cup {seen[p] : p \in Registered(a)})

Estimate(a, seen) == Max({Floor, peak[a]} \cup {seen[p] : p \in Registered(a)})

\* Mutant of Reservation: a slot between two processes reserves nothing.
Reservation_Registered(a, r) ==
  LET need == Estimate(a, Noted(r)) IN
  Total([p \in Pkg |-> Less(need, r.trees[p])], Registered(a))

\* What the running packages of a may still take beyond what r shows of them.
Reservation(a, r) ==
  LET need == Estimate(a, Noted(r)) IN
  Total([p \in Pkg |-> Less(need, r.trees[p])], Registered(a))
    + Less(running[a], Cardinality(Registered(a))) * need

PassNoted(a, r) == [passPeak EXCEPT ![a] = Max({@, r.pass})]

\* Mutant of HasRoom: the other invocations' reservations are left out.
HasRoom_Alone(a, r) ==
  r.ok => r.free >= Reservation(a, r) + Estimate(a, Noted(r))

HasRoom(a, r) ==
  r.ok => r.free >= Total([b \in Inv |-> Reservation(b, r)], member)
                    + Estimate(a, Noted(r))
                    + (Max({PassNoted(a, r)[b] : b \in member}) - r.pass)

OthersRunning(a) == \E b \in member \ {a} : running[b] > 0

Judge(p, r) ==
  /\ pc[p] \in {"ask", "woken"}
  /\ ctx[InvOf[p]] = "on" /\ running[InvOf[p]] < Bound[InvOf[p]]
  /\ reading' = r /\ cached' = TRUE
  /\ treePeak' = IF r.ok THEN Noted(r) ELSE treePeak
  /\ passPeak' = IF r.ok THEN PassNoted(InvOf[p], r) ELSE passPeak
  /\ UNCHANGED <<member, ctx, proc, spawns, live, peak, memory>>

Admit(p, r) ==
  /\ Judge(p, r) /\ HasRoom(InvOf[p], r)
  /\ pc' = [pc EXCEPT ![p] = "admitted"]
  /\ running' = [running EXCEPT ![InvOf[p]] = @ + 1]

\* Nothing of the process runs, so no completion can come.
Refuse(p, r) ==
  /\ Judge(p, r) /\ ~HasRoom(InvOf[p], r)
  /\ running[InvOf[p]] = 0 /\ ~OthersRunning(InvOf[p])
  /\ pc' = [pc EXCEPT ![p] = "refused"]
  /\ UNCHANGED running

Hold(p, r) ==
  /\ Judge(p, r) /\ ~HasRoom(InvOf[p], r)
  /\ running[InvOf[p]] > 0 \/ OthersRunning(InvOf[p])
  /\ pc' = [pc EXCEPT ![p] = "waiting"]
  /\ UNCHANGED running

\* The processor bound holds it: no reading is taken.
Queue(p) ==
  /\ pc[p] \in {"ask", "woken"} /\ ctx[InvOf[p]] = "on"
  /\ running[InvOf[p]] >= Bound[InvOf[p]]
  /\ pc' = [pc EXCEPT ![p] = "waiting"]
  /\ UNCHANGED <<member, ctx, running, proc, spawns, memory, evidence, reading, cached>>

GiveUp(p) ==
  /\ pc[p] \in {"ask", "woken"} /\ ctx[InvOf[p]] # "on"
  /\ pc' = [pc EXCEPT ![p] = "ended"]
  /\ UNCHANGED <<member, ctx, running, proc, spawns, memory, evidence, reading, cached>>

-----------------------------------------------------------------------------
(* The invocation. *)

\* newAdmission.
Join(a) ==
  /\ a \notin member /\ \A p \in Of(a) : pc[p] = "new"
  /\ Of(a) # {}
  /\ member' = member \cup {a}
  /\ UNCHANGED <<ctx, pc, running, proc, spawns, memory, evidence, reading, cached>>

\* The packages' goroutines start once the coverage compilation, if any, is done.
Ask(p) ==
  /\ pc[p] = "new" /\ InvOf[p] \in member
  /\ p \notin Scope => \A s \in Scope \cap Of(InvOf[p]) : pc[s] = "done"
  /\ pc' = [pc EXCEPT ![p] = "ask"]
  /\ UNCHANGED <<member, ctx, running, proc, spawns, memory, evidence, reading, cached>>

\* A coverage compilation that was not admitted disposes of every package.
Dispose(p) ==
  /\ pc[p] = "new" /\ p \notin Scope
  /\ \E s \in Scope \cap Of(InvOf[p]) :
       pc[s] \in {"refused", "ended"} /\ pc' = [pc EXCEPT ![p] = pc[s]]
  /\ UNCHANGED <<member, ctx, running, proc, spawns, memory, evidence, reading, cached>>

\* The envelope expires or the caller cancels...
Expire(a) ==
  /\ a \in member /\ ctx[a] = "on"
  /\ ctx' = [ctx EXCEPT ![a] = "ended"]
  /\ UNCHANGED <<member, pc, running, proc, spawns, memory, evidence, reading, cached>>

\* ... and the context's AfterFunc wakes the gate.
Tell(a) ==
  /\ ctx[a] = "ended"
  /\ ctx' = [ctx EXCEPT ![a] = "told"]
  /\ Wake(pc)
  /\ UNCHANGED <<member, running, proc, spawns, memory, evidence, reading>>

\* The invocation returned: at once when its preparation failed.
Leave(a) ==
  /\ a \in member
  /\ (\A p \in Of(a) : pc[p] \in Over) \/ (\A p \in Of(a) : pc[p] = "new")
  /\ member' = member \ {a}
  /\ Wake(pc)
  /\ UNCHANGED <<ctx, running, proc, spawns, memory, evidence, reading>>

-----------------------------------------------------------------------------
(* The package in its slot. *)

\* The context may have ended since the executor looked at it.
Spawn(p) ==
  /\ pc[p] = "admitted" /\ proc[p] = "none" /\ spawns[p] < MaxSpawns[p]
  /\ proc' = [proc EXCEPT ![p] = "started"]
  /\ spawns' = [spawns EXCEPT ![p] = @ + 1]
  /\ UNCHANGED <<member, ctx, pc, running, memory, evidence, reading, cached>>

\* spawned: the hook runs after the process has started.
Register(p) ==
  /\ proc[p] = "started"
  /\ proc' = [proc EXCEPT ![p] = "live"]
  /\ UNCHANGED <<member, ctx, pc, running, spawns, memory, evidence, reading, cached>>

\* The process ended, its group was swept, its wait returned.
Exit(p) ==
  /\ proc[p] = "live"
  /\ proc' = [proc EXCEPT ![p] = "waited"]
  /\ tree' = [tree EXCEPT ![p] = 0]
  /\ UNCHANGED <<member, ctx, pc, running, spawns, high, pass, outside, reached,
                 beyond, evidence, reading, cached>>

\* reapedState reads what the judgements saw of the tree, and lets go of the gate.
Fold(p) ==
  /\ proc[p] = "waited"
  /\ proc' = [proc EXCEPT ![p] = "folding"]
  /\ live' = [live EXCEPT ![p] = treePeak[p]]
  /\ UNCHANGED <<member, ctx, pc, running, spawns, memory, treePeak, peak, passPeak,
                 reading, cached>>

\* Mutant of ChildPeak: the mark inherited from the parent prices the package.
ChildPeak_Raw(raw, shown) == Max({raw, shown})

\* childProcessPeakBytes: a child's mark not above its parent's is the parent's.
ChildPeak(raw, shown) ==
  IF PassMark > Floor /\ raw <= PassMark THEN Max({shown, Min({raw, Floor})})
                                         ELSE Max({raw, shown})

\* Mutants of Reaped: the slot goes back at the reap, and again at the release.
Reaped_Releases(p) ==
  /\ proc[p] = "folding"
  /\ proc' = [proc EXCEPT ![p] = "none"]
  /\ \E own \in 0..high[p], mark \in {0, PassMark} :
       peak' = [peak EXCEPT ![InvOf[p]] =
                  Max({@, ChildPeak(Max({own, mark}), live[p])})]
  /\ treePeak' = [treePeak EXCEPT ![p] = 0]
  /\ live' = [live EXCEPT ![p] = 0]
  /\ high' = [high EXCEPT ![p] = 0]
  /\ running' = [running EXCEPT ![InvOf[p]] = @ - 1]
  /\ Wake(pc)
  /\ UNCHANGED <<member, ctx, spawns, tree, pass, outside, reached, beyond, passPeak,
                 reading>>

\* reaped: the process leaves the table, its peak is folded in, the gate wakes.
\* Its wait status holds the largest of its own processes, or the mark it
\* inherited (Linux).
Reaped(p) ==
  /\ proc[p] = "folding"
  /\ proc' = [proc EXCEPT ![p] = "none"]
  /\ \E own \in 0..high[p], mark \in {0, PassMark} :
       peak' = [peak EXCEPT ![InvOf[p]] =
                  Max({@, ChildPeak(Max({own, mark}), live[p])})]
  /\ treePeak' = [treePeak EXCEPT ![p] = 0]
  /\ live' = [live EXCEPT ![p] = 0]
  /\ high' = [high EXCEPT ![p] = 0]
  /\ Wake(pc)
  /\ UNCHANGED <<member, ctx, running, spawns, tree, pass, outside, reached, beyond, passPeak,
                 reading>>

\* Mutant of Release: the waiters are not woken.
Release_NoWake(p) ==
  /\ pc[p] = "admitted" /\ proc[p] = "none"
  /\ running' = [running EXCEPT ![InvOf[p]] = @ - 1]
  /\ pc' = [pc EXCEPT ![p] = "done"]
  /\ cached' = FALSE
  /\ UNCHANGED <<member, ctx, proc, spawns, memory, evidence, reading>>

Release(p) ==
  /\ pc[p] = "admitted" /\ proc[p] = "none"
  /\ running' = [running EXCEPT ![InvOf[p]] = @ - 1]
  /\ Wake([pc EXCEPT ![p] = "done"])
  /\ UNCHANGED <<member, ctx, proc, spawns, memory, evidence, reading>>

-----------------------------------------------------------------------------
(* Memory moves without events. *)

TreeMoves(p, m) ==
  /\ proc[p] \in {"started", "live"} /\ m # tree[p]
  /\ tree' = [tree EXCEPT ![p] = m]
  /\ high' = [high EXCEPT ![p] = Max({@, m})]
  /\ reached' = [reached EXCEPT ![InvOf[p]] = Max({@, m})]
  /\ UNCHANGED <<member, ctx, pc, running, proc, spawns, evidence, pass, outside,
                 reading, cached, beyond>>

PassMoves(m) ==
  /\ m # pass
  /\ pass' = m
  /\ beyond' = (beyond \/ ( /\ \E p \in Pkg : pc[p] = "admitted"
                           /\ \A a \in member : m > passPeak[a] ))
  /\ UNCHANGED <<member, ctx, pc, running, proc, spawns, tree, high, outside, reached,
                 evidence, reading, cached>>

OutsideMoves(m) ==
  /\ m # outside
  /\ outside' = m
  /\ beyond' = (beyond \/ m > outside)
  /\ UNCHANGED <<member, ctx, pc, running, proc, spawns, tree, high, pass, reached,
                 evidence, reading, cached>>

-----------------------------------------------------------------------------

Asks(p) ==
  \/ \E r \in ReadingFor(p) : Admit(p, r) \/ Refuse(p, r) \/ Hold(p, r)
  \/ Queue(p) \/ GiveUp(p)

Runs(p) == Spawn(p) \/ Register(p) \/ Fold(p) \/ Reaped(p) \/ Release(p)

Next ==
  \/ \E a \in Inv : Join(a) \/ Expire(a) \/ Tell(a) \/ Leave(a)
  \/ \E p \in Pkg : Ask(p) \/ Dispose(p) \/ Asks(p) \/ Runs(p) \/ Exit(p)
  \/ \E p \in Pkg : \E m \in 0..TreeMax[p] : TreeMoves(p, m)
  \/ \E m \in 0..PassMax : PassMoves(m)
  \/ \E m \in 0..OutsideMax : OutsideMoves(m)

Spec == Init /\ [][Next]_vars

\* Goroutines that can run do; every process ends or is killed at the envelope's
\* expiry, so each ends without counting on it.
FairSpec ==
  /\ Spec
  /\ \A p \in Pkg : WF_vars(Asks(p)) /\ WF_vars(Runs(p)) /\ WF_vars(Exit(p))
  /\ \A a \in Inv : WF_vars(Tell(a))

-----------------------------------------------------------------------------
(* Properties *)

\* The types of the gate, of the packages and of the memory they hold.  What a
\* reading has left is only ever compared.
TypeOK ==
  /\ member \subseteq Inv
  /\ ctx \in [Inv -> {"on", "ended", "told"}]
  /\ pc \in [Pkg -> {"new", "admitted"} \cup Asking \cup Over]
  /\ running \in [Inv -> Nat]
  /\ proc \in [Pkg -> {"none", "started"} \cup Tracked]
  /\ spawns \in [Pkg -> Nat]
  /\ tree \in [Pkg -> Nat] /\ high \in [Pkg -> Nat]
  /\ treePeak \in [Pkg -> Nat] /\ live \in [Pkg -> Nat]
  /\ peak \in [Inv -> Nat] /\ passPeak \in [Inv -> Nat] /\ reached \in [Inv -> Nat]
  /\ pass \in Nat /\ outside \in Nat
  /\ reading.ok \in BOOLEAN /\ reading.pass \in Nat /\ reading.trees \in [Pkg -> Nat]
  /\ cached \in BOOLEAN /\ beyond \in BOOLEAN

\* On a host whose memory can be read, when no tree outgrows the floor and neither
\* the pass nor other programs take more than was read, the packages in a slot
\* fit the host together with the pass, whatever readings the judgements shared
\* and whatever was spawned, reaped or re-run in between (the memory term of admit).
NoOvercommit ==
  /\ FALSE \notin Readable
  /\ (\A a \in Inv : reached[a] <= Floor) /\ ~beyond
  /\ \E p \in Pkg : pc[p] = "admitted"
  => outside + pass + Held <= Host

\* The estimate prices packages by what packages of the invocation took: never by
\* the parent's own mark, which a child inherits, nor by another invocation's.
EstimateHonest ==
  \A a \in Inv : Estimate(a, treePeak) <= Max({Floor, reached[a]})

\* A package is refused only on a reading taken when no process of the pass held
\* memory: never for the room a package took that has completed since.
NoStaleRefusal ==
  [][\A p \in Pkg : pc[p] \in Asking /\ pc'[p] = "refused"
       => \A q \in Pkg : reading'.trees[q] = 0]_vars

\* The counter of slots the terms are judged by is the number of packages in one,
\* through solo re-runs, refused spawns, cancellations and returned invocations.
SlotsCounted == \A a \in Inv : running[a] = Cardinality(Admitted(a))

\* A waiting package always has a package in a slot whose release will wake it.
WaitersHaveWaker ==
  \A p \in Pkg : pc[p] = "waiting" => \E q \in Pkg : pc[q] = "admitted"

\* Every package that asks is admitted, refused or gives up.
AdmitEnds ==
  \A p \in Pkg : pc[p] \in Asking ~> pc[p] \in Over \cup {"admitted"}

=============================================================================
