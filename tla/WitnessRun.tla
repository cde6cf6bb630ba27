----------------------------- MODULE WitnessRun -----------------------------
(* The selective witness run (internal/backends/golang/witnessrun.go): it     *)
(* serves every test whose stored record proves equal to the tree, executes   *)
(* the others, publishes what they showed package by package, checks the      *)
(* served records again when all is executed, and executes once more those    *)
(* that drifted.  The tree may move at any moment.                            *)
(*                                                                            *)
(* A test is a member <<group, subject>> of the capture group whose           *)
(* invocation selects its package; two groups may hold the same subject.      *)
(* Versions of files only grow: what gofresh makes of an edit taken back is   *)
(* outside this repository.                                                   *)
EXTENDS Naturals, Sequences, FiniteSets

CONSTANTS
  Subjects, Packages, Groups, Invocations, Files,
  NoGroup,       \* stands for the group of a witness-ineligible invocation
  NoTree,        \* a snapshot that is not taken, or could not be
  PkgOf,         \* the package of each subject
  GroupOf,       \* the capture group of each invocation, or NoGroup
  Selects,       \* the packages each invocation selects
  Rank,          \* the place of each invocation in the policy
  Reads,         \* the files that are inputs of each subject's witness
  Versions,      \* how far each file may move
  NeverServes,   \* subjects whose evidence is never served: random seeds
  Alone,         \* subjects that are judged in a process of their own
  Caches,        \* the stores a run may load: variants per member, newest first
  Scopes,        \* the scopes a caller may name
  Outcomes,      \* what a result row may say; "none" is a test without a row
  Dispositions,  \* how a process may end
  MaxFaults      \* how many operations of the run may fail

Covering(g, p) == {i \in Invocations : GroupOf[i] = g /\ p \in Selects[i]}
(* A package that two invocations of one group select has no producing leg.   *)
Legs == {l \in Groups \X Packages : Cardinality(Covering(l[1], l[2])) = 1}
Ambiguous(g, p) == Cardinality(Covering(g, p)) > 1
InvOf(g, p) == CHOOSE i \in Covering(g, p) : TRUE
Members == {m \in Groups \X Subjects : <<m[1], PkgOf[m[2]]>> \in Legs}
LegOf(m) == <<m[1], PkgOf[m[2]]>>
MembersOf(l) == {m \in Members : LegOf(m) = l}

(* A stored variant: the version of its files it records, whether the         *)
(* declarations that licensed it still stand, whether its compartment grew    *)
(* since, with or without a ledger, and the stored outcome.                   *)
Variants == [version : Nat, licensed : BOOLEAN, grown : BOOLEAN,
             ledger : BOOLEAN, outcome : {"passed", "skipped"}]

ASSUME RunShape ==
  /\ PkgOf \in [Subjects -> Packages]
  /\ GroupOf \in [Invocations -> Groups \cup {NoGroup}]
  /\ Selects \in [Invocations -> SUBSET Packages]
  /\ Rank \in [Invocations -> Nat]
  /\ Reads \in [Subjects -> SUBSET Files]
  /\ NoTree \notin [Files -> Nat] /\ NoGroup \notin Groups
  /\ Scopes \subseteq SUBSET Subjects
  /\ Caches \subseteq [Members -> Seq(Variants)]

VARIABLES
  tree,        \* the version of each file
  scope,       \* the subjects the caller permits to execute
  cached,      \* the variants loaded for each member
  pc,          \* the phase of the run
  snap,        \* the tree each group's snapshot shows
  round,       \* the next serving round of each leg
  ready,       \* legs whose rounds are over
  chosen,      \* the variant that serves each member, 0 for none
  served,      \* members whose stored outcome the run would report
  stale,       \* members that execute
  degraded,    \* freshness failed: nothing is served, everything executes
  todo,        \* packages of this pass that have not started
  running,     \* packages whose processes run
  units,       \* packages that are through
  wave,        \* 0 for the first pass, then the number of the retry wave
  left,        \* legs to verify, or groups to recheck
  pending,     \* drifted members that wait for the next wave
  used,        \* members that had their one retry
  skipped,     \* subjects withheld because the scope does not permit them
  published,   \* members whose record the first pass installed
  installed,   \* records this run installed
  candidates,  \* what the healthy retry processes showed
  denied,      \* candidates whose inputs were seen to move
  reusable,    \* candidates whose evidence the last recheck found valid
  deposited,   \* candidates whose record is installed
  faults,      \* operations that failed
  proved,      \* ghost: members found valid since the last process ran
  proofs,      \* ghost: candidates found valid since the last process ran
  revoked,     \* ghost: candidates once seen to have moved
  failed       \* ghost: tests a process of this run was seen to fail

prepVars == <<scope, cached, snap, round, ready, chosen, stale, degraded>>
execVars == <<todo, running, units, wave, failed>>
retryVars == <<candidates, denied, reusable, deposited, revoked, proofs>>
bookVars == <<left, pending, used, skipped>>
vars == <<tree, pc, served, published, installed, faults, proved,
          prepVars, execVars, retryVars, bookVars>>

Phases == {"preparing", "executing", "ineligible", "verifying",
           "retrying", "rechecking", "done", "aborted"}
Active == Phases \ {"done", "aborted"}
Trees == [Files -> Nat]

Same(s, t, u) == \A f \in Reads[s] : t[f] = u[f]
Fingerprint(s, t) == [f \in Reads[s] |-> t[f]]

Record(m, fp, outcome) ==
  [group |-> m[1], subject |-> m[2], fp |-> fp, outcome |-> outcome]
Chosen(m) == cached[m][chosen[m]]
(* The record that serves a member: its variant's fingerprint, extended or    *)
(* not, is of the files as the variant recorded them.                         *)
Matches(m, v, t) == \A f \in Reads[m[2]] : t[f] = v.version

Init ==
  /\ tree = [f \in Files |-> 1]
  /\ scope \in Scopes
  /\ cached \in Caches
  /\ pc = "preparing"
  /\ snap = [g \in Groups |-> NoTree]
  /\ round = [l \in Legs |-> 0] /\ ready = {}
  /\ chosen = [m \in Members |-> 0]
  /\ served = {} /\ stale = {} /\ degraded = FALSE
  /\ todo = {} /\ running = {} /\ units = {} /\ wave = 0
  /\ left = {} /\ pending = {} /\ used = {} /\ skipped = {}
  /\ published = {} /\ installed = {}
  /\ candidates = {} /\ denied = {} /\ reusable = {} /\ deposited = {}
  /\ faults = 0 /\ proved = {} /\ proofs = {} /\ revoked = {} /\ failed = {}

(* ----------------------------- preparation ------------------------------ *)
(* One group's snapshot: taken when the group before it is prepared.          *)
Snapshot(g) ==
  /\ pc = "preparing" /\ snap[g] = NoTree
  /\ \E l \in Legs : l[1] = g
  /\ \A l \in Legs : snap[l[1]] # NoTree => l \in ready
  /\ snap' = [snap EXCEPT ![g] = tree]
  /\ UNCHANGED <<tree, pc, served, published, installed, faults, proved,
                 scope, cached, round, ready, chosen, stale, degraded>>
  /\ UNCHANGED <<execVars, retryVars, bookVars>>

(* Mutant: a refused variant ends the walk.                                  *)
Unproven_RefusalEnds(l) ==
  {m \in MembersOf(l) : /\ m[2] \notin NeverServes
                        /\ chosen[m] = 0
                        /\ round[l] < Len(cached[m])
                        /\ \A k \in 1..round[l] : cached[m][k].licensed}
(* The members of a leg whose next variant is still to be looked at.  A       *)
(* variant that a withdrawn declaration refuses counts, or it would hide the  *)
(* ones after it.                                                             *)
Unproven(l) ==
  {m \in MembersOf(l) : /\ m[2] \notin NeverServes
                        /\ chosen[m] = 0
                        /\ round[l] < Len(cached[m])}

(* A variant serves when the declarations that licensed it still stand, and   *)
(* it is valid as recorded, or its compartment only grew and its ledger lets  *)
(* the growth be found inert.                                                 *)
Serves(m, v, t) ==
  /\ v.licensed
  /\ Matches(m, v, t)
  /\ v.grown => v.ledger

CheckRound(l) ==
  /\ pc = "preparing" /\ snap[l[1]] # NoTree /\ l \notin ready
  /\ Unproven(l) # {}
  /\ chosen' = [m \in Members |->
       IF m \in Unproven(l) /\ Serves(m, cached[m][round[l] + 1], snap[l[1]])
       THEN round[l] + 1 ELSE chosen[m]]
  /\ round' = [round EXCEPT ![l] = @ + 1]
  /\ UNCHANGED <<tree, pc, served, published, installed, faults, proved,
                 scope, cached, snap, ready, stale, degraded>>
  /\ UNCHANGED <<execVars, retryVars, bookVars>>

CloseRounds(l) ==
  /\ pc = "preparing" /\ snap[l[1]] # NoTree /\ l \notin ready
  /\ Unproven(l) = {}
  /\ ready' = ready \cup {l}
  /\ served' = served \cup {m \in MembersOf(l) : chosen[m] # 0}
  /\ stale' = stale \cup {m \in MembersOf(l) : chosen[m] = 0}
  /\ UNCHANGED <<tree, pc, published, installed, faults, proved,
                 scope, cached, snap, round, chosen, degraded>>
  /\ UNCHANGED <<execVars, retryVars, bookVars>>

(* ---------------------- what a pass executes ----------------------------- *)
(* A pass is a set of units, one per invocation and package.                  *)
Units(selected) ==
  {[inv |-> x[1], pkg |-> x[2], names |-> {s \in selected[x[1]] : PkgOf[s] = x[2]}] :
     x \in {y \in Invocations \X Packages : \E s \in selected[y[1]] : PkgOf[s] = y[2]}}

(* Each member runs under the invocation of its own group.                    *)
Routed(members, i) ==
  {s \in Subjects : /\ <<GroupOf[i], s>> \in members
                    /\ InvOf(GroupOf[i], PkgOf[s]) = i}

(* Ambiguously covered subjects run under each covering invocation.           *)
AmbiguousUnder(i) ==
  {s \in Subjects : /\ GroupOf[i] # NoGroup
                    /\ PkgOf[s] \in Selects[i]
                    /\ Ambiguous(GroupOf[i], PkgOf[s])}

(* Ineligible invocations run what others select too, for its failures.       *)
IneligibleUnder(i) ==
  {s \in scope : /\ GroupOf[i] = NoGroup
                 /\ PkgOf[s] \in Selects[i]
                 /\ Cardinality({j \in Invocations : PkgOf[s] \in Selects[j]}) > 1}

Begin(members) ==
  /\ pc' = "executing"
  /\ todo' = Units([i \in Invocations |->
               scope \cap (Routed(members, i) \cup AmbiguousUnder(i))])
  /\ skipped' = ({m[2] : m \in members} \cup
                 UNION {AmbiguousUnder(i) : i \in Invocations}) \ scope

StartExecution ==
  /\ pc = "preparing"
  /\ ready = Legs
  /\ Begin(stale)
  /\ UNCHANGED <<tree, served, published, installed, faults, proved, prepVars,
                 running, units, wave, failed, left, pending, used>>
  /\ UNCHANGED retryVars

(* Any fault before execution, the classification's, the universe's, an       *)
(* engine's or a check's: the run goes on with an empty served set.           *)
Degrade ==
  /\ pc = "preparing" /\ faults < MaxFaults
  /\ faults' = faults + 1
  /\ degraded' = TRUE
  /\ served' = {} /\ stale' = Members
  /\ chosen' = [m \in Members |-> 0]
  /\ Begin(Members)
  /\ UNCHANGED <<tree, published, installed, proved, scope, cached, snap,
                 round, ready, running, units, wave, failed, left, pending, used>>
  /\ UNCHANGED retryVars

(* A cancellation or a provenance refusal ends the run once its processes are *)
(* reaped; what is installed stays.                                           *)
Abandon ==
  /\ pc \in Active /\ running = {}
  /\ pc' = "aborted"
  /\ todo' = {}
  /\ UNCHANGED <<tree, served, published, installed, faults, proved,
                 prepVars, running, units, wave, failed>>
  /\ UNCHANGED <<retryVars, bookVars>>

(* ------------------------------ execution -------------------------------- *)
(* Mutant: a degraded run keeps the legs it had prepared.                    *)
HasLeg_KeptLegs(u) ==
  /\ <<GroupOf[u.inv], u.pkg>> \in Legs
  /\ snap[GroupOf[u.inv]] # NoTree
(* A unit whose processes can prove something: its group has a snapshot and   *)
(* one leg for the package.                                                   *)
HasLeg(u) ==
  /\ ~degraded
  /\ <<GroupOf[u.inv], u.pkg>> \in Legs
  /\ snap[GroupOf[u.inv]] # NoTree

(* Ghost: the names whose inputs are still as the snapshot shows them.        *)
Unmoved(u, names) ==
  {s \in names : HasLeg(u) /\ Same(s, snap[GroupOf[u.inv]], tree)}

(* Subjects judged alone leave the package's process, unless it has no other. *)
MainNames(u) ==
  IF ~HasLeg(u) \/ u.names \cap Alone = {} THEN {u.names}
  ELSE IF u.names \ Alone # {} THEN {u.names \ Alone}
  ELSE {{s} : s \in u.names}

(* A unit whose process runs the tests "live" (none, between two), with what  *)
(* runs alone after it and what has ended before it.                          *)
Running(u, live, queue, procs) ==
  [inv |-> u.inv, pkg |-> u.pkg, names |-> u.names, live |-> live,
   steady |-> Unmoved(u, live), queue |-> queue, procs |-> procs]

(* Invocations run one after the other, the packages of one beside each       *)
(* other.                                                                     *)
StartUnit(u) ==
  /\ u \in todo
  /\ \A o \in todo \cup running : Rank[o.inv] >= Rank[u.inv]
  /\ todo' = todo \ {u}
  /\ \E names \in MainNames(u) :
       running' = running \cup {Running(u, names, {}, <<>>)}
  /\ UNCHANGED <<tree, pc, served, published, installed, faults, proved,
                 prepVars, units, wave, failed>>
  /\ UNCHANGED <<retryVars, bookVars>>

NoRows(names) == [s \in names |-> "none"]
(* How a process can end.  Green streams of processes that exit with zero are *)
(* healthy; "red" is a failed, degraded or timed-out process that ran, "build"*)
(* a failed compilation, "never" one refused or cut off before its spawn.     *)
Ends(u) ==
  {e \in [disp : {"healthy"}, rows : [u.live -> Outcomes \ {"failed"}],
          obs : IF HasLeg(u) THEN {"complete", "unproven"} ELSE {"complete"}]
     \cup [disp : {"red"}, rows : [u.live -> Outcomes], obs : {"unproven"}]
     \cup [disp : {"build", "never"}, rows : {NoRows(u.live)}, obs : {"unproven"}] :
   e.disp \in Dispositions}

(* The tests a process denied an outcome, which run again alone: the passes   *)
(* of a red process and the tests without a terminal event.                   *)
DeniedTests(names, e) ==
  {s \in names : e.disp = "red" /\ e.rows[s] \in {"passed", "none"}}

(* The first process settles what runs alone after it.                        *)
AloneNext(u, e) ==
  IF u.procs # <<>> THEN u.queue
  ELSE IF e.disp \in {"build", "never"} THEN {}
  ELSE DeniedTests(u.live, e) \cup (u.names \ u.live)

Exited(u, e) ==
  [names |-> u.live, disp |-> e.disp, rows |-> e.rows, obs |-> e.obs,
   steady |-> u.steady \cap Unmoved(u, u.live)]

Exit(u) ==
  /\ u \in running /\ u.live # {}
  /\ \E e \in Ends(u) :
       /\ faults' = faults + (IF e.disp = "healthy" /\ e.obs # "complete" THEN 1 ELSE 0)
       /\ faults' <= MaxFaults
       /\ running' = (running \ {u}) \cup
            {Running(u, {}, AloneNext(u, e), Append(u.procs, Exited(u, e)))}
       /\ failed' = failed \cup {s \in u.live : e.rows[s] = "failed"}
  /\ proved' = {} /\ proofs' = {}
  /\ UNCHANGED <<tree, pc, served, published, installed, prepVars,
                 todo, units, wave>>
  /\ UNCHANGED <<candidates, denied, reusable, deposited, revoked, bookVars>>

RunAlone(u) ==
  /\ u \in running /\ u.live = {}
  /\ \E s \in u.queue :
       running' = (running \ {u}) \cup
         {Running(u, {s}, u.queue \ {s}, u.procs)}
  /\ UNCHANGED <<tree, pc, served, published, installed, faults, proved,
                 prepVars, todo, units, wave, failed>>
  /\ UNCHANGED <<retryVars, bookVars>>

(* The verdicts gofresh closes a process with, over the tree as it is now.    *)
Judged(u, p) == IF HasLeg(u) /\ p.obs = "complete" THEN p.names ELSE {}
Valid(u, p) == {s \in Judged(u, p) : Same(s, snap[GroupOf[u.inv]], tree)}

(* Mutant: the process' own closing verdict is not asked.                    *)
Eligible_NoVerdict(u, s, k) ==
  /\ u.procs[k].disp = "healthy"
  /\ u.procs[k].rows[s] \in {"passed", "skipped"}
(* judgeSubject: the first healthy process that proved its observation, whose *)
(* own verdict is valid and whose own rows give one word, grants the record.  *)
Eligible(u, s, k) ==
  /\ u.procs[k].disp = "healthy"
  /\ s \in Valid(u, u.procs[k])
  /\ u.procs[k].rows[s] \in {"passed", "skipped"}
Grants(u, s) == {k \in DOMAIN u.procs : s \in u.procs[k].names /\ Eligible(u, s, k)}
First(K) == CHOOSE k \in K : \A j \in K : k <= j

Publishable(u) ==
  {s \in u.names \ NeverServes : HasLeg(u) /\ Grants(u, s) # {}}
RecordOf(u, s) ==
  Record(<<GroupOf[u.inv], s>>, Fingerprint(s, snap[GroupOf[u.inv]]),
         u.procs[First(Grants(u, s))].rows[s])

(* The store may refuse a record; only what landed counts.                    *)
Landings(U) == {L \in SUBSET U : faults + Cardinality(U \ L) <= MaxFaults}

(* Mutant: once tests ran again alone, the process before them is forgotten. *)
Through_Isolated(u) ==
  [inv |-> u.inv, pkg |-> u.pkg, names |-> u.names, wave |-> wave,
   procs |-> IF Len(u.procs) > 1 THEN Tail(u.procs) ELSE u.procs,
   base |-> IF HasLeg(u) THEN snap[GroupOf[u.inv]] ELSE NoTree]
Through(u) == [inv |-> u.inv, pkg |-> u.pkg, names |-> u.names, wave |-> wave,
               procs |-> u.procs,
               base |-> IF HasLeg(u) THEN snap[GroupOf[u.inv]] ELSE NoTree]

Finish(u, L) ==
  /\ u \in running /\ u.live = {} /\ u.queue = {}
  /\ running' = running \ {u}
  /\ units' = units \cup {Through(u)}
  /\ installed' = installed \cup {RecordOf(u, s) : s \in L}
  /\ faults' = faults + Cardinality(Publishable(u) \ L)

(* Mutant: a record the store refused counts as cached.                      *)
FinishFirst_CountsRefused(u) ==
  /\ pc \in {"executing", "ineligible"}
  /\ \E L \in Landings(Publishable(u)) :
       /\ Finish(u, L)
       /\ published' = published \cup {<<GroupOf[u.inv], s>> : s \in Publishable(u)}
  /\ UNCHANGED <<tree, pc, served, proved, prepVars, todo, wave, failed>>
  /\ UNCHANGED <<retryVars, bookVars>>
(* A package of the first pass is through: it publishes at once, while its    *)
(* siblings still run.                                                        *)
FinishFirst(u) ==
  /\ pc \in {"executing", "ineligible"}
  /\ \E L \in Landings(Publishable(u)) :
       /\ Finish(u, L)
       /\ published' = published \cup {<<GroupOf[u.inv], s>> : s \in L}
  /\ UNCHANGED <<tree, pc, served, proved, prepVars, todo, wave, failed>>
  /\ UNCHANGED <<retryVars, bookVars>>

Candidate(u, k, s) ==
  [inv |-> u.inv, pkg |-> u.pkg, wave |-> wave, nth |-> k, subject |-> s,
   native |-> s \in Judged(u, u.procs[k]), base |-> Through(u).base]

(* Every pass or skip of a healthy retry process is a candidate, with or      *)
(* without native evidence.                                                   *)
Current(u) ==
  {Candidate(u, x[1], x[2]) :
     x \in {y \in (DOMAIN u.procs) \X u.names :
              /\ y[2] \in u.procs[y[1]].names
              /\ u.procs[y[1]].disp = "healthy"
              /\ u.procs[y[1]].rows[y[2]] \in {"passed", "skipped"}}}

(* A package of a retry wave is through.  A candidate whose inputs moved      *)
(* under it is denied its grant at once.                                      *)
FinishRetry(u) ==
  /\ pc = "retrying"
  /\ \E L \in Landings(Publishable(u)) :
       /\ Finish(u, L)
       /\ deposited' = deposited \cup
            {c \in Current(u) : c.subject \in L /\ c.nth = First(Grants(u, c.subject))}
  /\ LET drifted == {c \in Current(u) : c.native /\
                       c.subject \notin Valid(u, u.procs[c.nth])}
     IN /\ candidates' = candidates \cup Current(u)
        /\ denied' = denied \cup drifted
        /\ revoked' = revoked \cup drifted
        /\ reusable' = reusable \cup ({k \in Current(u) : k.native} \ drifted)
  /\ UNCHANGED <<tree, pc, served, published, proved, proofs, prepVars, todo, wave, failed>>
  /\ UNCHANGED bookVars

PassOver == todo = {} /\ running = {}

(* After the eligible invocations the ineligible ones, and after them the     *)
(* verification; a degraded run has nothing to verify.                        *)
StartIneligible ==
  /\ pc = "executing" /\ PassOver
  /\ pc' = "ineligible"
  /\ todo' = Units([i \in Invocations |-> IneligibleUnder(i)])
  /\ UNCHANGED <<tree, served, published, installed, faults, proved, prepVars,
                 running, units, wave, failed>>
  /\ UNCHANGED <<retryVars, bookVars>>

StartVerification ==
  /\ pc = "ineligible" /\ PassOver
  /\ pc' = IF degraded THEN "done" ELSE "verifying"
  /\ left' = IF degraded THEN {} ELSE Legs
  /\ UNCHANGED <<tree, served, published, installed, faults, proved, prepVars,
                 execVars, pending, used, skipped>>
  /\ UNCHANGED retryVars

(* --------------------------- verification -------------------------------- *)
Holds(m) == Matches(m, Chosen(m), tree)

(* A record that drifted waits for its retry.                                 *)
Discard(lost) == served' = served \ lost /\ pending' = pending \cup lost

(* One package's served records against the tree the run ended on.  A check   *)
(* that fails discards them all.  A record that served by an extension is     *)
(* installed as extended, when it survived.                                   *)
Verify(l) ==
  LET mine == served \cap MembersOf(l) IN
  /\ pc = "verifying" /\ l \in left
  /\ left' = left \ {l}
  /\ \E keep \in {{m \in mine : Holds(m)}} \cup
                 (IF mine # {} /\ faults < MaxFaults THEN {{}} ELSE {}) :
       LET extended == {m \in keep : Chosen(m).grown} IN
       /\ Discard(mine \ keep)
       /\ proved' = proved \cup keep
       /\ \E L \in Landings(extended) :
            /\ installed' = installed \cup
                 {Record(m, [f \in Reads[m[2]] |-> Chosen(m).version],
                         Chosen(m).outcome) : m \in L}
            /\ faults' = faults + Cardinality(extended \ L) +
                 (IF keep # {m \in mine : Holds(m)} THEN 1 ELSE 0)
  /\ UNCHANGED <<tree, pc, published, prepVars, execVars, used, skipped>>
  /\ UNCHANGED retryVars

(* Mutant: a test that ran for another group is not retried.                 *)
Wave_Unanswered == {m \in pending : /\ m[2] \in scope /\ m \notin used
                                    /\ ~ \E u \in units : m[2] \in u.names}
(* Mutant: a drifted serve is retried whatever the scope.                    *)
Wave_Unscoped == {m \in pending : m \notin used}
(* The next wave: what drifted, may execute, and was not retried yet.         *)
Wave == {m \in pending : m[2] \in scope /\ m \notin used}

Settled == pc \in {"verifying", "rechecking"} /\ left = {}

(* New snapshots come before the wave; a group whose snapshot fails still     *)
(* executes, but proves nothing.                                              *)
StartWave ==
  /\ Settled /\ Wave # {}
  /\ pc' = "retrying"
  /\ wave' = wave + 1
  /\ todo' = Units([i \in Invocations |-> Routed(Wave, i)])
  /\ used' = used \cup Wave
  /\ skipped' = skipped \cup ({m[2] : m \in pending} \ scope)
  /\ pending' = {}
  /\ \E bad \in SUBSET {m[1] : m \in Wave} :
       /\ faults' = faults + Cardinality(bad)
       /\ faults' <= MaxFaults
       /\ snap' = [g \in Groups |->
            IF g \in bad THEN NoTree
            ELSE IF \E m \in Wave : m[1] = g THEN tree ELSE snap[g]]
  /\ UNCHANGED <<tree, served, published, installed, proved, scope, cached,
                 round, ready, chosen, stale, degraded, running, units, failed, left>>
  /\ UNCHANGED retryVars

Report ==
  /\ Settled /\ Wave = {}
  /\ pc' = "done"
  /\ skipped' = skipped \cup ({m[2] : m \in pending} \ scope)
  /\ pending' = {}
  /\ UNCHANGED <<tree, served, published, installed, faults, proved, prepVars,
                 execVars, left, used>>
  /\ UNCHANGED retryVars

(* Mutant: only the wave's own groups are rechecked.                         *)
EndWave_OwnGroups ==
  /\ pc = "retrying" /\ PassOver
  /\ pc' = "rechecking"
  /\ left' = {GroupOf[u.inv] : u \in {v \in units : v.wave = wave}}
  /\ UNCHANGED <<tree, served, published, installed, faults, proved, prepVars,
                 execVars, pending, used, skipped>>
  /\ UNCHANGED retryVars
EndWave ==
  /\ pc = "retrying" /\ PassOver
  /\ pc' = "rechecking"
  /\ left' = Groups
  /\ UNCHANGED <<tree, served, published, installed, faults, proved, prepVars,
                 execVars, pending, used, skipped>>
  /\ UNCHANGED retryVars

(* What one recheck can fail at: the group's new generation, a package's      *)
(* served records, or one retry process' transaction.                         *)
Producer(c) == <<c.inv, c.pkg, c.wave, c.nth>>
Broken(mine, open) ==
  {[whole |-> FALSE, legs |-> {}, producers |-> {}]}
  \cup (IF faults >= MaxFaults \/ (mine = {} /\ open = {}) THEN {}
        ELSE {[whole |-> TRUE, legs |-> {}, producers |-> {}]}
             \cup {[whole |-> FALSE, legs |-> {LegOf(m)}, producers |-> {}] : m \in mine}
             \cup {[whole |-> FALSE, legs |-> {}, producers |-> {Producer(c)}] : c \in open})

Moved(c) == c.base = NoTree \/ ~Same(c.subject, c.base, tree)

(* One group's surviving serves and earlier retries against a new generation. *)
(* A failed check takes a serve, and a retry's reuse, but a retry's grant     *)
(* only falls to motion that was seen: what the failed part of a check still  *)
(* sees (a removed test, a moved build input) is any part of what moved.      *)
Recheck(g) ==
  LET mine == {m \in served : m[1] = g}
      open == {c \in candidates \ denied : GroupOf[c.inv] = g}
      moved == {c \in open : Moved(c)} IN
  /\ pc = "rechecking" /\ g \in left
  /\ left' = left \ {g}
  /\ \E b \in Broken(mine, open) :
       LET invalid == {m \in mine : ~Holds(m) \/ b.whole \/ LegOf(m) \in b.legs}
           judged == {c \in open : c.native /\ ~b.whole /\ Producer(c) \notin b.producers}
       IN \E seen \in {N \in SUBSET moved : judged \cap moved \subseteq N} :
            /\ faults' = faults + (IF b.whole \/ b.legs # {} \/ b.producers # {} THEN 1 ELSE 0)
            /\ Discard(invalid)
            /\ denied' = denied \cup seen
            /\ revoked' = revoked \cup seen
            /\ reusable' = (reusable \ open) \cup (judged \ moved)
            /\ proved' = proved \cup (mine \ invalid)
            /\ proofs' = proofs \cup (judged \ moved)
  /\ UNCHANGED <<tree, pc, published, installed, prepVars, execVars,
                 used, skipped, candidates, deposited>>

(* ------------------------------- the report ------------------------------ *)
Rows(s) == {x \in UNION {{u} \X (DOMAIN u.procs) : u \in units} :
              /\ s \in x[1].procs[x[2]].names
              /\ x[1].procs[x[2]].rows[s] # "none"}
Word(x, s) == x[1].procs[x[2]].rows[s]
(* Mutant: each wave keeps its denials to itself.                            *)
Denied_LastWave(x, s) ==
  x[1].wave = wave /\
  \E c \in denied : /\ Producer(c) = <<x[1].inv, x[1].pkg, x[1].wave, x[2]>>
                    /\ c.subject = s
Denied(x, s) ==
  \E c \in denied : /\ Producer(c) = <<x[1].inv, x[1].pkg, x[1].wave, x[2]>>
                    /\ c.subject = s

(* A pass counts from a healthy process of an eligible invocation that is not *)
(* denied; an ineligible one's skips do not count either; failures always do. *)
Counts(x, s) ==
  CASE Word(x, s) = "failed" -> TRUE
    [] Word(x, s) = "skipped" -> GroupOf[x[1].inv] # NoGroup
    [] Word(x, s) = "passed" -> /\ GroupOf[x[1].inv] # NoGroup
                                /\ x[1].procs[x[2]].disp = "healthy"
                                /\ ~Denied(x, s)

Evidence(s) == {Word(x, s) : x \in {y \in Rows(s) : Counts(y, s)}}
               \cup {Chosen(m).outcome : m \in {n \in served : n[2] = s}}

(* The worst outcome wins: failed over passed over skipped.                   *)
Reported(s) ==
  IF "failed" \in Evidence(s) THEN "failed"
  ELSE IF "passed" \in Evidence(s) THEN "passed"
  ELSE IF "skipped" \in Evidence(s) THEN "skipped" ELSE "none"

Counted == {c \in candidates \ denied : c \in reusable /\ c \in deposited}
Ran == {s \in Subjects : Rows(s) # {}}
Reusable == {m[2] : m \in published \cup served} \cup {c.subject : c \in Counted}
Uncached == Ran \ Reusable

(* --------------------------------- world --------------------------------- *)
Move(f) ==
  /\ pc \in Active /\ tree[f] < Versions[f]
  /\ tree' = [tree EXCEPT ![f] = @ + 1]
  /\ UNCHANGED <<pc, served, published, installed, faults, proved,
                 prepVars, execVars, retryVars, bookVars>>

Ended == pc \in {"done", "aborted"} /\ UNCHANGED vars

Prepare == (\E g \in Groups : Snapshot(g)) \/ (\E l \in Legs : CheckRound(l) \/ CloseRounds(l))
Execute ==
  \/ \E u \in todo : StartUnit(u)
  \/ \E u \in running : Exit(u) \/ RunAlone(u) \/ FinishFirst(u) \/ FinishRetry(u)
Settle == (\E l \in Legs : Verify(l)) \/ (\E g \in Groups : Recheck(g))
Run == \/ Prepare \/ StartExecution \/ Degrade \/ Execute
       \/ StartIneligible \/ StartVerification \/ Settle
       \/ StartWave \/ EndWave \/ Report
Next == Run \/ Abandon \/ (\E f \in Files : Move(f)) \/ Ended
Spec == Init /\ [][Next]_vars

(* ------------------------------ properties ------------------------------- *)
(* What a process left behind, and a unit whose processes run.             *)
Procs == [names : SUBSET Subjects, disp : Dispositions,
          rows : UNION {[N -> Outcomes \cup {"none"}] : N \in SUBSET Subjects},
          obs : {"complete", "unproven"}, steady : SUBSET Subjects]
Todo == [inv : Invocations, pkg : Packages, names : SUBSET Subjects]
RunningUnits == [inv : Invocations, pkg : Packages, names : SUBSET Subjects,
                 live : SUBSET Subjects, steady : SUBSET Subjects,
                 queue : SUBSET Subjects, procs : Seq(Procs)]

(* Types of the run's state, of what runs and of what each process left.     *)
TypeOK ==
  /\ tree \in Trees
  /\ snap \in [Groups -> Trees \cup {NoTree}]
  /\ cached \in [Members -> Seq(Variants)]
  /\ chosen \in [Members -> Nat] /\ round \in [Legs -> Nat]
  /\ scope \subseteq Subjects
  /\ served \subseteq Members /\ stale \subseteq Members
  /\ pending \subseteq Members
  /\ todo \subseteq Todo /\ running \subseteq RunningUnits

(* What the run finally reports as served, and every retry it counts as       *)
(* reusable, was found valid after the last process of the run had ended: a   *)
(* later package, or a later wave, can still disprove what was proved before. *)
ProvedLast ==
  pc = "done" /\ ~degraded => served \subseteq proved /\ Counted \subseteq proofs

(* One healthy process' own account, or a loaded variant that was extended.   *)
RecordTrue(r) ==
  \/ \E u \in units : \E k \in DOMAIN u.procs :
       /\ r.group = GroupOf[u.inv]
       /\ u.procs[k].disp = "healthy"
       /\ r.subject \in u.procs[k].steady
       /\ u.procs[k].rows[r.subject] = r.outcome
       /\ r.fp = Fingerprint(r.subject, u.base)
  \/ \E m \in Members : \E k \in DOMAIN cached[m] :
       /\ cached[m][k].grown
       /\ r = Record(m, [f \in Reads[m[2]] |-> cached[m][k].version],
                     cached[m][k].outcome)
(* Every record of this run is one healthy process' own account: its word for *)
(* the test, under inputs that stood still from the snapshot to the process'  *)
(* end.  Otherwise it is a loaded variant that was extended.                  *)
RecordsTrue == \A r \in installed : RecordTrue(r)

(* A pass is reported only from a served record, or from a healthy eligible   *)
(* process whose inputs no check of any wave saw moving.                      *)
RevokedGrantsNothing ==
  pc = "done" => \A s \in Subjects : Reported(s) = "passed" =>
    \/ \E m \in served : m[2] = s /\ Chosen(m).outcome = "passed"
    \/ \E x \in Rows(s) :
         /\ Word(x, s) = "passed" /\ GroupOf[x[1].inv] # NoGroup
         /\ x[1].procs[x[2]].disp = "healthy"
         /\ ~ \E c \in revoked : /\ c.subject = s
                                 /\ Producer(c) = <<x[1].inv, x[1].pkg, x[1].wave, x[2]>>

(* What any process of the run was seen to fail, at whatever time, the run    *)
(* ends up reporting as failed: neither the isolated re-runs after a process, *)
(* nor a later invocation, a retry, a served record or a revoked grant takes  *)
(* it away (execMerge collects it, consumeMerge and consumeMergeFailuresOnly  *)
(* rank it above all).                                                        *)
FailuresStand == pc = "done" => \A s \in failed : Reported(s) = "failed"

(* Every expected test is answered: served, executed under its own group's    *)
(* invocation (under each, if ambiguous), or named as left out of the scope;  *)
(* a serve that drifted is answered by a retry's execution.                   *)
Conserved ==
  pc = "done" =>
    /\ \A m \in Members :
         \/ m \in served \/ m[2] \in skipped
         \/ \E u \in units : /\ u.inv = InvOf(m[1], PkgOf[m[2]])
                             /\ m[2] \in u.names
                             /\ m \in used <=> u.wave > 0
    /\ \A i \in Invocations : \A s \in AmbiguousUnder(i) :
         s \in skipped \/ \E u \in units : u.inv = i /\ s \in u.names

(* No pass executes a subject the caller did not permit, the retries of       *)
(* serves that drifted outside the scope included.                            *)
ScopeHeld == \A u \in todo \cup running \cup units : u.names \subseteq scope

(* A test that ran and is not counted as uncached has a record in the store:  *)
(* one that served, or one that landed in this run; what the store refused    *)
(* does not count, and a retry only with the record of its own snapshot.      *)
ReusableStored ==
  pc = "done" =>
    /\ Ran \ Uncached \subseteq {m[2] : m \in served} \cup {r.subject : r \in installed}
    /\ \A c \in Counted : \E r \in installed :
         /\ <<r.group, r.subject>> = <<GroupOf[c.inv], c.subject>>
         /\ r.fp = Fingerprint(c.subject, c.base)

(* Nothing executes for want of looking: a member is stale only if none of    *)
(* its variants, wherever it stands in the list, could have served over the   *)
(* snapshot.                                                                  *)
NoNeedlessRun ==
  pc \in {"preparing", "executing"} /\ ~degraded =>
    \A m \in stale : m[2] \in NeverServes \/
      \A k \in DOMAIN cached[m] : ~Serves(m, cached[m][k], snap[m[1]])

(* A degraded run neither serves nor installs anything, whichever groups were *)
(* prepared before the fault.                                                 *)
DegradedKeepsOut == degraded => served = {} /\ installed = {}
=============================================================================
