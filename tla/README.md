# stipulator: verification

TLA+ models of stipulator, their TLC configurations, and theorems about them
checked by TLAPS. Source references are to `src/`.

stipulator compiles a specification corpus, binds its requirements to Go tests
and code, verifies the bindings, executes the tests that witness them, caches
the witnesses and reports. It keeps its records as text files in the user's
tree, its caches in the user's cache directory, and runs as a command line tool
and as a long-lived MCP server; several of its processes work on one tree and
one cache at a time. What is hard in it is there: files changed by several
processes without a common lock, caches collected while they are written, and
many child processes competing for one host's memory.

## 1. Inventory

| Component | State | Operations | Meets |
|---|---|---|---|
| Record applier (`recordapply`) | one mutex per process; record files; staged dot-temps; reservations | `Apply`: admission, preconditions, exclusive creates, staging, renames, deletions, unreserve | every authoring verb; editors, git and other processes |
| Record loading and stamping (`records`, `author.StampPriors`) | a loaded store | load all files, stamp each update with what was read | the applier's preconditions |
| Witness store (`witnesscache` over `recordstore`) | variant records, compartment ledgers, a lock file | `Install`, `Load` (with reclamation), `GC` | other processes on the same cache; the witness run |
| Global pruning (`PruneKind`, `PruneGlobal`) | candidates and reference counts of pass 1 | pass 1, pass 2 per candidate | installs going on in the stores it prunes |
| Resolution store (`resolutioncache`) | one record per identity | unlocked `Install` with bound 1 | `verify` |
| Package execution (`golang/execute.go`) | the host gate, admissions, slots, process table, memory readings | ask, wait, admit, refuse, spawn, reap, release, leave | concurrent operations of one server; the operating system |
| Retained processes (`retainedrun`, `retainedbuild`) | process group, pipes, cancel/quit/grace timers | start, quit, cancel, sweep, reap; convert and parse output | the package run, the gate |
| Witness run (`witnessrun`, `served`, `derive`) | served and fresh outcomes, selections | serve, revalidate, execute, publish, retry | witness store, execution |
| Go backend (discovery, policy, certificates, normalization) | memoized loads | discovery and static judgement | the `go` command |
| Progress (`progress`, `mcpserver/progress.go`) | reporter lock; counts, notes and phase; bounded sink, reserved slot of the ending | phase, step, note, keepalive, seal; the sender goroutine | the witness run's goroutines; a client that may stop reading |
| Coverage and check (`coverage`, `check`) | none (pure) | bucket of each requirement, excuses, whole and scoped verdict | records, verification, the witness run |
| Binding verification (`verify`, `verifyrun`) | none beyond the resolution cache | hygiene, resolution, outcome of each binding | backends |
| Authoring and pruning (`author`, `records/pin.go`, `prune`) | a loaded store; the tree | bind, gap, attest, editorial, retire, retarget, blanket pin, prune: each reads the tree, plans, and applies later | applier; people editing documents and code |
| Change preview (`impact`, `diff`, `remedy`) | none (pure over two trees) | what a change invalidates; wording | faces |
| Corpus (`corpus`, `compile`, `profile`, `bundle`, `facts`), `policy` | none (pure) | compile, close, canonicalize | everything |
| Faces (`cmd`, `mcpserver`, `views`, `wire`) | one applier per root and process | dispatch, render | users |

What makes each correct, and what is hard to test about it:

* **Applier.** A write never lands over something its operation did not read;
  a crash or a fault at any step loses no record and leaves no unexplained empty
  file (an empty record file makes the next load fail). The hazards are
  check-then-write races within and between processes, and partial failures.
* **Witness store.** A record finds the ledger it refers to. Installs reuse old
  ledgers while loads and collections look for ledgers nobody refers to; the
  lock is advisory and polled, reads go on without it, and every `os.Remove` or
  `ReadDir` may fail.
* **Pruning.** The same promise, over two passes with the lock given up between.
* **Execution.** What is admitted fits the host although memory moves without
  events and readings are shared; nobody waits for a wake that cannot come.
* **Retained processes.** `runRetained` returns whoever stops first, signals no
  group whose leader it may have reaped, leaves nothing of its own group behind,
  and calls nothing healthy or failed that it cut short.
* **Witness run.** What the report grants was found valid over the tree the run
  ended on, though every process of the run, and anybody else, may move that
  tree; a record is one process' own word under inputs that stood still; each
  test is answered, and none outside the scope runs.
* **Progress.** A stalled client never costs the operation its return, a client
  that reads sees the ending, and the ending names every package whose records
  landed, in whatever order goroutines reach the reporter.
* **Coverage, verification, check.** A passing check means that every requirement
  is answered for the words it has now by what the code does now; a scoped check
  says of its scope what the whole check says.
* **Authoring.** Verbs judge one reading of the tree and write later. Consent
  moves to other words only by a verb that names the requirement, and no verb
  drops a record it was not asked about, however verbs and edits interleave.

`PROJECT.json` lists the hazards line by line with the properties that cover
them.

## 2. Plan

In this order, the behaviour whose failure costs a user's data first:

1. `RecordApply` (done): the applier with its verbs around it. Proofs:
   `RecordApplyProofs`.
2. `WitnessStore` (done), then `StorePrune` (done), which EXTENDS it: the pruner
   is one more actor on the same store. Proofs: `WitnessStoreProofs`,
   `StorePruneProofs`.
3. `Admission` (done): the host gate. Proofs: `AdmissionProofs`.
4. `WitnessRun` (done): the selective run, from the serving rounds to the
   report. Proofs: `WitnessRunProofs`.
5. `RetainedRun` (done): one retained binary from its start to its verdict, with
   cancellation, quit and grace. Proofs: `RetainedRunProofs`.
6. `Progress` (done): reporter, sink, sender and the run that feeds them. It
   implements `LossyFeed`, the abstract seam. Proofs: `ProgressProofs`.
7. `Coverage` (done): hygiene, evidence, buckets, gate and check as operators.
8. `ChangeLoop` (done): the authoring verbs and prunes over `Coverage`, between
   edits of documents and code. Proofs: `ChangeLoopProofs`.
9. `ResolutionStore`, the health-judged full run (`derive`), and the pure
   algorithms: closure of `bundle`, partition of `facts`, canonical form of
   `policy`.

Compositions still worth stating: `RetainedRun` as the `Spawn`..`Reaped` of one
package of `Admission`, and `RecordApply` as the guarded write `ChangeLoop` takes
it for. Every safety property of a passing run has its theorem; what is still
wanted is an abstract specification of the applier (a batch that lands whole, in
part with a report, or not at all) and of the store (a map from identities to
variants), each with its refinement proved.

## 3. Modules and the code

### RecordApply (`recordapply.go`, `author.go`, `records.go`)

An operation is one verb invocation. It reads the files (`ReadFile`), computes a
batch (`Compute`: any batch over any paths), and hands it to `Apply`: `Lock`,
`Admit` or `Inadmissible`, one `CheckPrior` per file, then the staging of a temp per
write (`Stage`), the commits (`Rewrite` renames over a file that was there; `Reserve`
creates an absent name exclusively and `LandCreate` renames over it), the deletions,
and the return (`Return`) with its deferred sweep of temps (`Discard`) and unlock
(`Leave`). Every file system step of `Apply` may fail (`StageFails`, `Fault`,
`ReserveUnjudged`, the steps of `unreserve`), the sweep's removals too, whose errors
the code drops: temps may stay behind a return, as they do behind a process that
dies, which it may between any two steps. Nothing reads them, so no property asks
that they be gone. `unreserve` is its steps: stat and identity check, removal.

`file[p]` holds the set of records in the file and the operation whose exclusive
create made the inode, which is all `os.SameFile` can tell. `foreign` writers
(editors, git) write anything at any moment, at most `MaxForeign` times. `Reread`
names the files whose stamp may come from a second read; for all others the
stamp is the content computed from. Admission (path confinement) is an arbitrary
verdict. Updates are taken in any order within a phase; the code's order is one.

### WitnessStore (`witnesscache.go`, `loadaccount.go`, `recordstore.go`, `lock.go`)

Installers, loaders and collectors are one call each, of any process.
`InstallLedger` writes or reuses a ledger, `InstallRecord` renames the record in,
`ScanVariants` then `Evict`, oldest first (`NextVictim`), keep the bound. A load reads without the lock and, if
`TryLockLoad` succeeds, scans again (`LateScan`) and sweeps old ledgers. A
collection walks records with an arbitrary verdict (`Keep`, `Collect`) and sweeps.
Times are install times on a clock that need not advance; `young` are ledgers
written since the sweep's operation began, which its age threshold spares.

### StorePrune (`retention.go`, `PruneGlobal`)

EXTENDS `WitnessStore`. `Survey`..`EndSurvey` is pass 1 under the lock,
`EvictCandidate`/`EvictLedger` pass 2. The byte ceiling is abstracted to "evicts
any number of candidates, oldest first", none included, which is a prune without
a ceiling. Dry runs and abandoned stores are left out.

### Admission (`execute.go`)

Invocations share a host gate. A package's goroutine is `new`, asks, waits
(`waiting`), is woken, is `admitted` or is over (refused, ended, done). `Judge`
is one pass through `admit`'s loop under the lock: the reading it runs over
(`ReadingFor`), the maxima it advances, and `Admit`, `Refuse` or `Hold`. The wake
generation is abstracted to `cached`: whether the reading held belongs to the
latest wake. In its slot a package spawns, registers, exits, and is reaped in the
code's two locked sections (`Fold`, `Reaped`), several times over.

Memory is counted in units; trees, the pass and other programs move without
events within named bounds. A reading is one consistent snapshot: that is what
the code assumes of gofresh, which is outside `src/`. Process identifiers are
not reused while a reading is current. A coverage compilation is the package of
`Scope`: admitted, run and released before the others ask.

### WitnessRun (`witnessrun.go`, `retryvalidation.go`, `selection.go`, `judgment.go`, `publish.go`, `packageleg.go`)

One run, phase by phase (`pc`). `Snapshot`, `CheckRound` and `CloseRounds` are
`prepareWitnessGroups`: each capture group's snapshot in turn, then one variant
per round for every test not served yet. `Degrade` is any fault up to here.
`StartExecution` routes what did not serve, and what two invocations of a group
cover, into units, one per invocation and package. `StartUnit`, `Exit` and
`RunAlone` are a package's processes: the first, and after it one process for
each test it denied an outcome or that is always judged alone. `FinishFirst` and
`FinishRetry` close the processes and publish. `Verify` is `revalidateServed`;
`StartWave` and `Recheck` are `settleRetries`: what drifted executes once more,
and after every wave all that is still served, and every earlier retry, is
checked over a new generation. The operators under "the report" are
`consumeMerge`, `OutcomeRank` and the counts.

`tree[f]` is a file's version; `Move` moves it between any two steps, whether
the mover is a test or a stranger. gofresh is outside `src/`: a verdict compares
the versions of a subject's inputs (`Reads`) with those recorded, an observation
is complete or unproven. `steady`, `proved`, `proofs`, `revoked` and `failed` are
history: which tests' inputs did stand still while a process ran, what was found
valid or moved since when, and what some process failed; no guard reads them.

Abstracted: versions only grow (what gofresh makes of an edit taken back is its
own affair); build and profile inputs are folded into `Reads`; the closing of a
package's processes and its publication are one step, and so are a wave's
snapshots; a removed test and build drift, which a failed recheck still sees,
are "any part of what moved"; a group one of whose retry packages cannot be
prepared counts as one without legs. Left out: diagnostics, reasons, evidence
tiers and registrations, and the separation of fuzz targets from tests.

### RetainedRun (`retainedrun.go`, `retainedbuild.go`, `execute.go`)

`main` is where `runRetained` stands: new, open (pipe and hooks), parse (the
converter and the observer run), wait, reap, judge, ending, returned. The binary
(`Write`, `CloseOutput`, `Fork`, `Exit`) leads a process group; one descendant may
stay in it, one may leave it with the pipe in hand. `Convert` is the converter
and the parser in one step, because they share an unbuffered pipe. `CallerHook`,
`EnvelopeHook`, `Quit`, `GraceEnds` and `DelayEnds` are the two `AfterFunc`s and
the timers; `Cancel` is the kill behind `cancelOnce`. `Sweep` and `Reap` are the
two halves of `Wait`: the identity is given up (`finished`) under the lock that
signals are sent under. Every operation of the host may fail, `MaxFaults` times.
What the binary says is a line of a few kinds; `said` is history, `stream` what
the parser heard. Hosts that cannot observe an exit without reaping, and the
compilation under the same owner, are left out.

### Progress and LossyFeed (`progress.go`, `mcpserver/progress.go`, `witnessrun.go`)

The main goroutine enters the phases, joins the packages, revalidates group by
group and seals. Each package installs, names its records, draws its count
(`Count`) and reports it (`Report`): two steps, so that a later count may reach
the reporter first. The reporter's methods are operators (`EnterPhase`,
`ReportStep`, `RecordPersisted`, `SealWith`) that end in `Send`, the sink: a
buffer, and a slot for the ending. `TakeEvent`, `TakeEnding` and `SendEnding` are
the sender's select and drain; `Accept` is the consumer with its `PhaseTracker`;
`Stall` ends its reading for good. The clock is whether the last emission is
younger than the interval (`recent`).

`LossyFeed` is the promise: numbered offers that may be lost at once, an ending
that may not, deliveries in order. `FeedSpec` maps to it what is in the buffer,
the slot and the sender's hands.

### Coverage (`consent.go`, `clause.go`, `hygiene.go`, `verify.go`, `coverage.go`, `check.go`)

Operators over a corpus, a store of records and the code's answers: `JudgeConsent`
and hygiene, evidence by clause, `Bucket`, gap states and excuses, `Violations`,
`CheckPasses` and the scoped verdict. Digests are abstracted to what the
canonical form keeps, so that a change of that form changes every digest and no
words. `Seen` is what a pass sees that executes a part of the tests: of the others
what the cache serves, a skip on the caller's scope, or that the policy's selection
had left them out already. `ObservedRed` asks whether a claimed test was seen to
fail, where the code counts every red test of the suite: the check modelled passes
more often, which `GateSound` has to bear. Reasons, remedies and report rows are
left out.

### ChangeLoop (`author`, `records/pin.go`, `prune`, over `Coverage`)

`tree` is the documents and the records, `code` what resolution and tests answer,
`canon` the tool's canonical form. A verb (`Bind`, `Gap`, `Attest`, `Editorial`,
`Retire`, `Retarget`, the pins, the prunes, the retractions) reads the whole tree
in one step and plans its writes; `Commit` applies them if every file it writes
is still what it read, `Refuse` gives up. What it only read may have moved.
`EditDocument`, `EditCode` and `Upgrade` fall anywhere between. `named` are the
requirements a verb was asked about. The apply of several files is one step:
`RecordApply` models its interior.

## 4. Runs

The runs of `WitnessRun` check deadlock: only a run that is done or aborted
(`Ended`) may stand still. All others set `CHECK_DEADLOCK FALSE`: their
operations are finite in number and the system does stop when they have ended.

| Run | Shows |
|---|---|
| `apply_one_process` | two operations of one process, two files (one of them stamped from a second read), one record, a foreign write, all faults and crashes: `TypeOK`, `NoSilentClobber`, `ReservationAccounted`, `NoRecordLost`, what the `Result` says of a landing (`ReturnAccounted`), and every operation that reaches `Apply` comes out (`ApplyEnds`) |
| `witness_store` | two installs and a load, one refused read, listing or removal; three variants of one identity on two ledgers: `TypeOK`, `RecordsFindLedgers`, `VariantsBounded`, `EvictsOldest` |
| `store_prune` | a prune and a collection, with or without a ceiling, against two installs and one fault: a ledger goes only from under records not counted in pass 1 (`PruneKeepsCountedLedgers`) |
| `store_prune_race` | *violation*: with a ceiling a live record can lose its ledger |
| `admission_estimate` | a coverage compilation and then two packages of an invocation with two slots, and one of another with one slot, which spawns two processes in turn whose trees may take twice the floor; inherited high-water marks: `SlotsCounted`; `EstimateHonest`; a slot between processes keeps its reservation (`NoOvercommit`), and no package is refused on a stale reading (`NoStaleRefusal`) |
| `admission_ends` | two packages, one after the other, for the one slot of their invocation, the third of another invocation; with and without a memory reading, cancellations, the pass's and other programs' memory moving: every ask is answered (`AdmitEnds`). The trees stay at nothing: slots, reservations, the pass's memory and other programs' hold packages back; the coverage compilation is in `admission_estimate` |
| `progress` | two packages of one invocation, a sink of one event, one group to revalidate, the context ending anywhere, a consumer that may stall: `FeedSpec`, `EndingNamesUnits`, `DisplayAdvances`, `OperationReturns`, `EndingShown` |
| `retained_run` | a descendant inside the group and one outside, a pipe of one line, one fault, cancellation and expiry at any moment: `NothingLeftBehind`, `VerdictIsWhole`, `NoStraySignal`, `GraceKept`, `CallerEscalates`, `RunReturns` |
| `witness_run_retries` | two groups that share a test, an ambiguous package, an ineligible invocation, a scope that permits a part; served records drift one after the other, so that one wave follows another: `ProvedLast`, `RevokedGrantsNothing`, `Conserved`, `ScopeHeld`, `NoNeedlessRun` |
| `witness_run_isolation` | a package whose tests run again alone after a red process, one of them always alone, processes that do not build or never run, and one fault anywhere: `RecordsTrue`, `FailuresStand`, `ReusableStored`, `DegradedKeepsOut` |
| `change_loop` | two requirements, two symbols, two verbs at once, two edits between any of their steps, one change of the canonical form: `GateSound`, `ScopesAgree`, `ConsentMovesByName`, `NothingDropped` |
| `change_loop_retarget` | *violation*: a retarget stamps a gap whose consent had drifted before it (`StaleUntilNamed`) |

The violations are disagreements between the code and its own comments or
specification, met in normal operation; `findings` quotes the lines.

Smaller departures, from comments, specs or what a reader would expect, are left
to the code that has them; where a property meets one it is conditioned on it:

* a failed stat in `unreserve` leaves an empty file that no error names (`pc` is
  then `silent`, which `ReservationAccounted` allows), and a foreign file put in
  the reservation's place after its identity check is removed with it
  (`recordapply.go`, `unreserve`);
* a file stamped from a second read (`Reread`) is overwritten although it moved
  between the two (`records.go:113`, `retarget.go:187-206`, against
  `change.md:176-186`): `NoSilentClobber` is about the content stamped;
* a sweep that could not read, list or remove a record takes its ledger all the
  same (`missed`), and an install whose eviction was cut short leaves more than
  the bound (`over`);
* a live-tree peak noted between the two locked sections of a reap is dropped
  unread, so that the estimate can shrink (no property claims that it never does);
* the ending of a run cancelled in the revalidation pass may leave out the pass
  itself (`witnessrun.go:543`, `evidence.md:1383-1387`): `EndingNamesUnits` is
  about packages;
* the blanket pin stamps the cleared pins of a superseded requirement's carried
  records, and a retired requirement's attestations dangle until they are
  retracted, which hygiene reports;
* a layout edit after a change of the canonical form, before the blanket pin,
  makes records stale that the consent source would have rescued;
* resolved-gap pruning executes the gap-relevant witnesses that are stale
  (`prune.go:310-345`), where `change.md:337-351` (REQ-gap-resolved-pruned) and
  `evidence.md:18-34` (REQ-evidence-inspection) let it read current evidence only and
  execute nothing. `PruneResolved` is the code's; `ScopesAgree` asks of any executed
  part of the tests, none included, that no gap is resolved which the whole check
  would not resolve, so it holds of both and settles nothing between them (listed
  under `findings`);
* a stale attestation in a cell that no longer admits attestation is reported
  with a remedy ("re-attest") the verb refuses (`coverage.go`,
  `attest_requirement.go`).

**Properties that carry conditions.** `RecordsFindLedgers` excuses records a
faulting sweep missed and `VariantsBounded` identities whose eviction was cut
short, because the code drops those errors by design. `ReturnAccounted` excuses
files that others moved, the reservation the error names and the one whose stat
failed; of a temporary it says only that none is left of a write that landed,
since the deferred sweep may fail and drops the error. `NoOvercommit` holds on a
host whose memory can always be read, when no tree outgrew the floor and neither
the pass nor other programs took more than was read: the estimate is a forecast,
and the property says that the gate's arithmetic over shared readings adds no
error of its own. `NothingLeftBehind` and
`GraceKept` except what the host refused, which the result says. `GateSound`
speaks of the default policy: an override changes what evidence is enough.
`ConsentMovesByName` lets a claim that stood under another name before a retarget
keep the consent it had (`Kept`): it may come to lie where a claim of other words
was withdrawn by the same verb.

**Bounds and why they are enough.** Two operations, or two installs beside one
load (`witness_store`) or one collection (`store_prune`), are the pairs whose
windows overlap; the code has no step that reads more than one other actor's
state, and a load and a collection sweep by the same steps. Two files separate writes from
deletions of a moving batch, and the file read from the file written. Three
variants with a bound of two make an eviction choose; two ledgers make a sweep
choose. In `admission_estimate` two packages of one invocation with two
slots give a running package a neighbour, and another invocation's spawns twice, so
that a slot is empty between two processes; a host of two units makes any of them
wait for memory. In `admission_ends` each invocation has one slot, so packages wait
for a slot too; only one package there has a process, whose trees stay at nothing,
and the others give the slot back without one, as when a spawn is refused. In
`admission_estimate` the trees of the package that spawns twice alone may
outgrow the floor (`TreeMax` is per package): its own invocation's estimate must then
rise with them, live and reaped, and the other's must not. `MaxForeign`,
`MaxFaults`, `MaxSpawns`, `TreeMax`, `PassMax` and `OutsideMax` cap what is
unbounded, each in a guard or a range. A sink of one event is full whenever two
are emitted without a delivery, and two packages are enough for a count to
arrive late; `MaxTicks` is one, the moments before and after an interval.
A pipe of one line (`PipeCap`) blocks a binary that writes its second
(`MaxLines`), one `MaxFaults` meets each operation of the run once. Its `Line`
leaves out FAIL and the abort: that a stream cut short never reads as failed is the
theorem's (`WholeVerdict`), as is that a degraded run keeps out whichever of several
groups were prepared (`DegradedRunKeepsOut`; the run has one).
Two verbs and two edits (`MaxVerbs`, `MaxEdits`) are a verb's reading, what moves
under it and who writes first; one change of the canonical form (`MaxCanon`)
separates records pinned before and after it.
In the witness run, a file of a served test moves once or twice (`Versions`), so
that a retry's own inputs can move after its wave; two waves follow from two
members that drift in turn, and a third would meet the same rules. `MaxFaults`
is one in `witness_run_isolation`: each kind of fault meets every interleaving,
two at once do not. Outcomes there leave out skips, which a served record
contributes; `witness_run_retries` leaves out builds that fail and tests without
a row, which the other run has.

**Fairness.** `RecordApply`'s `FairSpec`: each operation's own steps, weakly: a
goroutine that can run does, and `sync.Mutex` hands over to starving waiters.
`Admission`'s: each package's ask and run steps, the end of each process (its
test timeout, or the kill at the envelope's end) and the `AfterFunc` of an ended
context. `RetainedRun`'s: the goroutines of the run and its hooks; that timers elapse
is a premise of `RunReturns` alone, and not of `CallerEscalates`, and nothing is
assumed of the binary: it may write, sleep or hold its output for ever.
`Progress`'s: the operation's goroutines, the sender, and a consumer that takes
what it is sent until it stalls, which it may do at any time. No fairness is given
to cancellations, foreign writes, memory, the clock or the start of an invocation.
The witness store has no liveness property: `flock` is polled and promises none.
The change loop has none either: nobody owes an edit or a verb.

## 5. Proofs

For every value of the constants, under the modules' named assumptions: types of
the constant functions, distinct sentinels, finite sets of packages and of record
names (`FileNames`), cached variants in sequences; and for the change loop that
texts, answers and the trees to start from have the form the code gives them
(`LoopAssumption`), and that a rename moves no members round in a circle, which
replacing one prefix by another cannot (`MovesAssumption`). TLC evaluates each of
them on the runs. `RecordsStay` takes as a hypothesis that `None` is no record
(`NoneIsNoRecord`), which for model values needs no saying, and `GateIsSound` that
no cell of the policy is overridden, as its property does.

Each property is seldom inductive alone; what was added, and why:

* `RecordApplyProofs`. From `ApplyInvariant`: `ApplyTypes`, `EmptyFilesExplained`
  (`ReservationAccounted`), `NoClobber` (`NoSilentClobber`). `IInv` adds
  `MutexHeld` (inside `Apply` exactly when holding the mutex), `InBatch` (phases
  only take paths of the batch), `StampedAsRead`, and `FreshUntilLanded`: what an
  operation verified and nobody has `moved` still is what it read. An operation of
  the same process cannot move it, by `MutexHeld`; that is the whole argument.
  From `LandingInvariant`: `ReturnsAccounted` (`ReturnAccounted`) and `RecordsKept`
  (`NoRecordLost`). `LandingInv` says of each phase which files have landed
  (`Reported`), that a process which died in a landing runs nothing more
  (`DiedWhole`), and that a path nobody else moved holds what the batch put there
  or what it found (`Intact`). Since every write comes before the first deletion,
  a record of a deleted file is by then in a written one.
  What is verified and not landed is as read by `FreshUntilLanded`; the two together
  cover every file of the batch at a return, the one in creation by the case it
  returns from.
* `WitnessStoreProofs`. From `StoreInvariant`: `StoreTypes`, `LedgersKept`
  (`RecordsFindLedgers`). `IInv` adds `LockHeld`, `LedgerReady` (between an
  install's reuse check and its rename the ledger stays, because whoever could
  sweep it needs the lock) and `Seen` (a walk has still to read, or has counted,
  every record it does not miss). From `EvictionInvariant`: `BoundMet`
  (`VariantsBounded`) and `OldestEvicted` (`EvictsOldest`). By `EvictionInv` every
  identity that was not cut short is within its bound, or is being trimmed and will
  be once what the install has listed is gone (`Trimmed`), and nothing listed is
  newer than what stays (`Surplus`).
* `StorePruneProofs`. From `PruneInvariant`: `CountedLedgersKept`
  (`PruneKeepsCountedLedgers`). `PInv` is the store's with the pruner among the
  holders of the lock, and `Counted`: a pruner at work has counted every record it
  may judge a ledger by, but those published since.
* `AdmissionProofs`. `SlotsExact` (`SlotsCounted`) and `NoLostWakeup`
  (`WaitersHaveWaker`): a package waits on a positive `running`, which is some
  package in a slot only because the counter is exact; and a package leaves its
  slot only with a broadcast. `AdmissionTypes`. `EstimateIsHonest`
  (`EstimateHonest`) rests on `Taken`: whatever is noted of a package, live, reaped
  or in a reading kept for later waiters, its invocation's trees did take; a mark
  inherited from the parent is priced at the floor. `NoRefusalOnStaleReading`
  (`NoStaleRefusal`) rests on `Fresh`: a reading that may still be shared shows
  memory only of packages still in their slots, because every release opens a new
  generation; with the slots counted exactly, a refusal finds none. `AdmittedFit`
  (`NoOvercommit`) rests on `Covered`: the host holds every package in a slot
  at the estimate, beside the pass grown to any mark noted, whether or not a
  reading shows them yet. Its sums are over finite sets of packages and are
  compared without an induction rule: a comparison that failed would fail on a
  smallest set.
* `WitnessRunProofs`. From `RunInvariant`: `RunTypes`, `ReportedWasProvedLast`
  (`ProvedLast`), `InstalledRecordsTrue` (`RecordsTrue`), `DegradedRunKeepsOut`
  (`DegradedKeepsOut`), `ScopeRespected` (`ScopeHeld`). Its `IInv` adds `Quiet`
  (nothing runs while the run verifies, rechecks or reports), `ProvedSoFar` (what a
  verification or a recheck has gone over is proved; each starts with everything
  left to go over), and `StoodStill`: no snapshot is ahead of the tree, and a
  subject whose inputs are still the snapshot's stood still under every process
  that ran it. Files only move on, so that the verdict taken when the package is
  closed speaks for the time its processes ran. From `IInv` and `AnswerInv`:
  `RevokedNeverGrants` (`RevokedGrantsNothing`), `TestsConserved` (`Conserved`),
  `RunsOnlyTheUnproven` (`NoNeedlessRun`) and `ReusableHasRecord`
  (`ReusableStored`). By `AnswerInv` a member no round
  proved was refused by every round (`Looked`), a serve taken back waits until it
  is retried (`Lists`), every expected test is served, left out, waiting or asked
  of a unit (`Answered`), what is called published has its record (`Filed`), and
  what was seen to move is denied (`Denials`). `FailuresReported` (`FailuresStand`)
  is about the history of the run, the tests some process was seen to fail
  (`failed`): `FailuresHeld` follows each failed row from the process' exit through
  isolated re-runs to the unit that has gone through, and when the run is done no
  unit still runs, so that the report's merge sees them all.
* `RetainedRunProofs`. `RunTypes`, `GroupSwept` (`NothingLeftBehind`),
  `SignalsOwned` (`NoStraySignal`), `GraceGiven` (`GraceKept`). One invariant says
  for each place of `runRetained` what has become of the leader (`Owned`), of its
  group (`Swept`), and who may have killed it (`Reasons`). `WholeVerdict`
  (`VerdictIsWhole`) adds what is in the pipe: the parser's state after each prefix
  of it, so that the end of the stream is the state of everything said.
* `ProgressProofs`. `ProgressTypes`, `EndingComplete` (`EndingNamesUnits`),
  `FeedImplemented` (`FeedSpec`: the seam implements `LossyFeed`) and
  `EndingNeverLost` (what `LossyFeed` promises of its own events). Every step of
  the operation is one of three things to the seam: it emits nothing, offers an
  event or seals (`Emissions`). Whatever is on its way stands in the order of its
  numbers, the ending last (`Line`), which is all the refinement needs; the ending
  is complete because the packages are joined before it is sealed (`AllJoined`)
  and a package names its records before anything else (`Landed`).
  `DisplayNeverFalls` (`DisplayAdvances`): an event says what the reporter says
  when it is sent, and the reporter only goes on, to a later phase or to counts no
  lower; so of two events on their way the later takes nothing back, nor does any
  of them from the display (`Advancing`, which compares every pair, since an event
  speaks of one invocation only).
* `ChangeLoopProofs`. From `LoopInvariant`: `ConsentByName` (`ConsentMovesByName`)
  and `RecordsStay` (`NothingDropped`). `LoopInv` says that the tree holds
  well-formed records (`IsTree`: no claim twice in a file, both pins of a record of
  one text) and that what a verb has still to write is the difference of two
  trees, the one it read and one it may leave (`UnderWay`, `Mindful`); a verb that
  may commit finds the files it writes as it read them, so that the difference
  does to the tree of today what it did to the tree it was planned on. Each verb
  is shown to plan mindfully. `GateIsSound` (`GateSound`) goes through the cases
  of `Bucket`: no violation means a green bucket, with the evidence that makes it
  so, or an excuse, with the consent that makes it one. `ScopesSayTheSame`
  (`ScopesAgree`) rests on one fact about `Coverage`: what the gate says of a
  requirement depends on the answers for its own claims only (`JudgedAlike`). A
  scoped pass asks for all of those; a pass that left one of them out cannot find
  the requirement covered (`CoveredIsWhole`), and so resolves no gap by it
  (`NoGapResolvedUnseen`).

Only model-checked: liveness (`ApplyEnds`, `AdmitEnds`, `OperationReturns`,
`EndingShown`, `CallerEscalates`, `RunReturns`), because TLAPS does not reason
about fairness. `WaitersHaveWaker`, `TypeOK` of the modules without a run for it,
and `EndingNeverLost` are proved and need no run.

## 6. Not modelled

Generated protocol code, the adapted `test2json`, rendering and argument handling
of the faces, and `gitfs` (an immutable tree) keep no state worth a model.
Discovery and the static judgements of the Go backend are pure functions of a
tree through the `go` command. The resolution store and the pure algorithms
(`bundle`, `facts`, `policy`) stand in the plan.

Within the parts that are modelled: clause labels (claims name ordinals),
registrations, resolutions of generated files and unverified ones, reasons,
remedies and tallies; hand-edited records; the prune of a tree nobody witnessed;
what falls between the several reads of one verb, which are taken as one reading
(the window between a verb's loads of single files is `RecordApply`'s); the
health-judged full run; dry runs and abandoned stores of the pruner; the
compilation of a retained binary and hosts that cannot observe an exit.
`PROJECT.json` gives each part's status.
