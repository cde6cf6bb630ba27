----------------------------- MODULE WitnessStore -----------------------------
(***************************************************************************)
(* One corpus's witness store (internal/witnesscache over                  *)
(* internal/recordstore): variant records, the compartment ledgers they    *)
(* refer to, and the three operations that touch them from any process:    *)
(* Install publishes a record under the store lock, Load reads without it  *)
(* and reclaims ledgers when the lock is free, GC collects under it.       *)
(*                                                                         *)
(* A record is its file name (identity and fingerprint); CoordOf is the    *)
(* ledger coordinate its fingerprint carries.  What GC judges of a record  *)
(* (live, liveGroup, decoding) is an arbitrary verdict.                    *)
(***************************************************************************)
EXTENDS Naturals, FiniteSets

CONSTANTS
  Record, Identity, Coord,
  IdOf,          \* the identity of each record name
  CoordOf,       \* the ledger coordinate of each record name
  Installer, Loader, Collector,  \* one call each
  Nobody,        \* the lock is free
  VariantBound,  \* variants kept of one identity
  MaxFaults      \* bound: reads, listings and removals the file system refuses

Actor == Installer \cup Loader \cup Collector

ASSUME StoreFunctions == IdOf \in [Record -> Identity] /\ CoordOf \in [Record -> Coord]
ASSUME SomeRecord == Record # {}
ASSUME FileNames == IsFiniteSet(Record)  \* names of bounded length
ASSUME ActorsDistinct ==
  /\ Installer \cap Loader = {} /\ Installer \cap Collector = {}
  /\ Loader \cap Collector = {} /\ Nobody \notin Actor
ASSUME Bounds == VariantBound \in Nat \ {0} /\ MaxFaults \in Nat

VARIABLES
  recs,      \* record files present
  mtime,     \* mtime[n]: install time, as coarse as the file system's clock
  clock,
  ledgers,   \* coordinates whose readable ledger file is present
  lock,      \* the actor holding the store's lock file
  pc,
  job,       \* job[i]: the record an install publishes, and whether a ledger
  todo,      \* todo[a]: records still to read, walk or evict
  refs,      \* refs[a]: coordinates a sweep has seen referenced
  young,     \* young[a]: ledgers written since a began
  backed,    \* history: records whose last install supplied a ledger
  missed,    \* history: records a sweep left present and did not count: judged
             \* dead and not removed, unreadable, or unlisted
  over,      \* history: identities an eviction was cut short or refused on
  faults

vars == <<recs, mtime, clock, ledgers, lock, pc, job, todo, refs, young,
          backed, missed, over, faults>>

Locked == {"ledger", "record", "scan", "evict", "late", "walk", "sweep"}
Unlocked == {"idle", "wait", "read", "trylock", "done"}

NoJob == [rec |-> CHOOSE n \in Record : TRUE, ledger |-> FALSE]
SameId(n) == {m \in Record : IdOf[m] = IdOf[n]}

Init ==
  /\ recs \in SUBSET Record
  /\ \A n \in recs : Cardinality(recs \cap SameId(n)) <= VariantBound
  /\ mtime = [n \in Record |-> 0]
  /\ clock = 0
  /\ ledgers \in SUBSET Coord
  /\ backed = {n \in recs : CoordOf[n] \in ledgers}
  /\ lock = Nobody
  /\ pc = [a \in Actor |-> "idle"]
  /\ job = [i \in Installer |-> NoJob]
  /\ todo = [a \in Actor |-> {}]
  /\ refs = [a \in Actor |-> {}]
  /\ young = [a \in Actor |-> {}]
  /\ missed = {}
  /\ over = {}
  /\ faults = 0

\* What an actor holds in memory is gone with its call.
Forget(a) ==
  /\ pc' = [pc EXCEPT ![a] = "done"]
  /\ lock' = IF lock = a THEN Nobody ELSE lock
  /\ todo' = [todo EXCEPT ![a] = {}]
  /\ refs' = [refs EXCEPT ![a] = {}]
  /\ young' = [young EXCEPT ![a] = {}]

Acquire(a, phase) ==
  /\ lock = Nobody
  /\ lock' = a
  /\ pc' = [pc EXCEPT ![a] = phase]

Unlink(n) == recs' = recs \ {n} /\ mtime' = [mtime EXCEPT ![n] = 0]

Goto(a, phase) == pc' = [pc EXCEPT ![a] = phase]

-----------------------------------------------------------------------------
(* Install *)

BeginInstall(i, n, ledger) ==
  /\ pc[i] = "idle"
  /\ job' = [job EXCEPT ![i] = [rec |-> n, ledger |-> ledger]]
  /\ Goto(i, "wait")
  /\ UNCHANGED <<recs, mtime, clock, ledgers, lock, todo, refs, young, backed,
                 missed, over, faults>>

LockInstall(i) ==
  /\ pc[i] = "wait"
  /\ Acquire(i, "ledger")
  /\ UNCHANGED <<recs, mtime, clock, ledgers, job, todo, refs, young, backed,
                 missed, over, faults>>

\* installLedger: a readable ledger at the coordinate is reused, else written.
InstallLedger(i) ==
  LET c == CoordOf[job[i].rec]
      written == job[i].ledger /\ c \notin ledgers IN
  /\ pc[i] = "ledger"
  /\ ledgers' = IF written THEN ledgers \cup {c} ELSE ledgers
  /\ young' = [a \in Actor |-> IF written /\ pc[a] \notin {"idle", "done"}
                                THEN young[a] \cup {c} ELSE young[a]]
  /\ Goto(i, "record")
  /\ UNCHANGED <<recs, mtime, clock, lock, job, todo, refs, backed, missed,
                 over, faults>>

\* The record's rename; two installs may share a modification time.
InstallRecord(i) ==
  LET n == job[i].rec IN
  /\ pc[i] = "record"
  /\ recs' = recs \cup {n}
  /\ clock' \in {clock, clock + 1}
  /\ mtime' = [mtime EXCEPT ![n] = clock']
  /\ backed' = IF job[i].ledger THEN backed \cup {n} ELSE backed \ {n}
  /\ Goto(i, "scan")
  /\ missed' = missed \ {n}
  /\ UNCHANGED <<ledgers, lock, job, todo, refs, young, over, faults>>

\* Mutants of Keeps: one variant too many; not the most recent ones.
Keeps_OneMore(n, kept) ==
  LET all == recs \cap SameId(n) IN
  /\ kept \subseteq all /\ n \in kept
  /\ Cardinality(kept) = IF Cardinality(all) <= VariantBound
                         THEN Cardinality(all) ELSE VariantBound + 1
  /\ \A k \in kept \ {n}, e \in all \ kept : mtime[e] <= mtime[k]

Keeps_Oldest(n, kept) ==
  LET all == recs \cap SameId(n) IN
  /\ kept \subseteq all /\ n \in kept
  /\ Cardinality(kept) = IF Cardinality(all) < VariantBound
                         THEN Cardinality(all) ELSE VariantBound
  /\ \A k \in kept \ {n}, e \in all \ kept : mtime[e] >= mtime[k]

\* What the eviction keeps of n's identity: n and the most recent others, ties
\* broken by name, up to the bound.
Keeps(n, kept) ==
  LET all == recs \cap SameId(n) IN
  /\ kept \subseteq all /\ n \in kept
  /\ Cardinality(kept) = IF Cardinality(all) < VariantBound
                         THEN Cardinality(all) ELSE VariantBound
  /\ \A k \in kept \ {n}, e \in all \ kept : mtime[e] <= mtime[k]

ScanVariants(i) ==
  LET n == job[i].rec IN
  /\ pc[i] = "scan"
  /\ \E kept \in SUBSET recs :
       /\ Keeps(n, kept)
       /\ todo' = [todo EXCEPT ![i] = (recs \cap SameId(n)) \ kept]
  /\ Goto(i, "evict")
  /\ UNCHANGED <<recs, mtime, clock, ledgers, lock, job, refs, young, backed,
                 missed, over, faults>>

\* The surplus goes in the scan's order, the most recent of it first.
NextVictim(i, n) == n \in todo[i] /\ \A m \in todo[i] : mtime[m] <= mtime[n]

Evict(i, n) ==
  /\ pc[i] = "evict" /\ NextVictim(i, n)
  /\ Unlink(n)
  /\ todo' = [todo EXCEPT ![i] = @ \ {n}]
  /\ UNCHANGED <<clock, ledgers, lock, pc, job, refs, young, backed, missed,
                 over, faults>>

\* The eviction's os.Remove fails; its error is dropped.
EvictFails(i, n) ==
  /\ pc[i] = "evict" /\ NextVictim(i, n) /\ faults < MaxFaults
  /\ faults' = faults + 1
  /\ todo' = [todo EXCEPT ![i] = @ \ {n}]
  /\ over' = over \cup {IdOf[n]}
  /\ UNCHANGED <<recs, mtime, clock, ledgers, lock, pc, job, refs, young,
                 backed, missed>>

FinishInstall(i) ==
  /\ pc[i] = "evict" /\ todo[i] = {}
  /\ Forget(i)
  /\ UNCHANGED <<recs, mtime, clock, ledgers, job, backed, missed, over,
                 faults>>

-----------------------------------------------------------------------------
(* Load *)

\* The load begins and lists the record names, without the lock.
BeginLoad(l) ==
  /\ pc[l] = "idle"
  /\ todo' = [todo EXCEPT ![l] = recs]
  /\ Goto(l, "read")
  /\ UNCHANGED <<recs, mtime, clock, ledgers, lock, job, refs, young, backed,
                 missed, over, faults>>

\* One record file; gone by now it is a refused read, and refers to nothing.
ReadRecord(l, n) ==
  /\ pc[l] = "read" /\ n \in todo[l]
  /\ todo' = [todo EXCEPT ![l] = @ \ {n}]
  /\ refs' = IF n \in recs THEN [refs EXCEPT ![l] = @ \cup {CoordOf[n]}] ELSE refs
  /\ UNCHANGED <<recs, mtime, clock, ledgers, lock, pc, job, young, backed,
                 missed, over, faults>>

ReadFails(l, n) ==
  /\ pc[l] = "read" /\ n \in todo[l] /\ faults < MaxFaults
  /\ faults' = faults + 1
  /\ todo' = [todo EXCEPT ![l] = @ \ {n}]
  /\ UNCHANGED <<recs, mtime, clock, ledgers, lock, pc, job, refs, young, backed,
                 missed, over>>

EndRead(l) ==
  /\ pc[l] = "read" /\ todo[l] = {}
  /\ Goto(l, "trylock")
  /\ UNCHANGED <<recs, mtime, clock, ledgers, lock, job, todo, refs, young,
                 backed, missed, over, faults>>

TryLockLoad(l) ==
  /\ pc[l] = "trylock"
  /\ Acquire(l, "late")
  /\ UNCHANGED <<recs, mtime, clock, ledgers, job, todo, refs, young, backed,
                 missed, over, faults>>

\* The lock is held elsewhere: the load reclaims nothing.
SkipReclaim(l) ==
  /\ pc[l] = "trylock" /\ lock # Nobody
  /\ Forget(l)
  /\ UNCHANGED <<recs, mtime, clock, ledgers, job, backed, missed, over,
                 faults>>

\* Mutants of LateScan: file names for ledger names; the snapshot suffices.
LateScan_Names(l) ==
  /\ pc[l] = "late"
  /\ refs' = [refs EXCEPT ![l] = @ \cup recs]
  /\ Goto(l, "sweep")
  /\ UNCHANGED <<recs, mtime, clock, ledgers, lock, job, todo, young, backed,
                 missed, over, faults>>

LateScan_Snapshot(l) ==
  /\ pc[l] = "late"
  /\ Goto(l, "sweep")
  /\ UNCHANGED <<recs, mtime, clock, ledgers, lock, job, todo, refs, young,
                 backed, missed, over, faults>>

\* The late scan: every record present now keeps its ledger.  One step: record
\* files change only under the lock.
LateScan(l) ==
  /\ pc[l] = "late"
  /\ refs' = [refs EXCEPT ![l] = @ \cup {CoordOf[n] : n \in recs}]
  /\ Goto(l, "sweep")
  /\ UNCHANGED <<recs, mtime, clock, ledgers, lock, job, todo, young, backed,
                 missed, over, faults>>

\* A record the late scan cannot read refers to nothing.
LateScanMisses(l, n) ==
  /\ pc[l] = "late" /\ n \in recs /\ faults < MaxFaults
  /\ faults' = faults + 1
  /\ refs' = [refs EXCEPT ![l] = @ \cup {CoordOf[m] : m \in recs \ {n}}]
  /\ missed' = missed \cup {n}
  /\ Goto(l, "sweep")
  /\ UNCHANGED <<recs, mtime, clock, ledgers, lock, job, todo, young, backed,
                 over>>

-----------------------------------------------------------------------------
(* GC, and the ledger sweep it shares with Load *)

\* The start is sampled before the lock is waited for.
BeginGC(g) ==
  /\ pc[g] = "idle"
  /\ Goto(g, "wait")
  /\ UNCHANGED <<recs, mtime, clock, ledgers, lock, job, todo, refs, young,
                 backed, missed, over, faults>>

LockGC(g) ==
  /\ pc[g] = "wait"
  /\ Acquire(g, "walk")
  /\ todo' = [todo EXCEPT ![g] = recs]
  /\ UNCHANGED <<recs, mtime, clock, ledgers, job, refs, young, backed,
                 missed, over, faults>>

\* Sweep cannot list the records: nothing is walked, and gcSince goes on to the
\* ledgers with no reference counted.
ListFails(g) ==
  /\ pc[g] = "wait" /\ faults < MaxFaults
  /\ Acquire(g, "sweep")
  /\ faults' = faults + 1
  /\ missed' = missed \cup recs
  /\ UNCHANGED <<recs, mtime, clock, ledgers, job, todo, refs, young, backed, over>>

Keep(g, n) ==
  /\ pc[g] = "walk" /\ n \in todo[g]
  /\ todo' = [todo EXCEPT ![g] = @ \ {n}]
  /\ refs' = [refs EXCEPT ![g] = @ \cup {CoordOf[n]}]
  /\ UNCHANGED <<recs, mtime, clock, ledgers, lock, pc, job, young, backed,
                 missed, over, faults>>

Collect(g, n) ==
  /\ pc[g] = "walk" /\ n \in todo[g]
  /\ todo' = [todo EXCEPT ![g] = @ \ {n}]
  /\ Unlink(n)
  /\ UNCHANGED <<clock, ledgers, lock, pc, job, refs, young, backed, missed,
                 over, faults>>

\* The removal of a condemned record fails: the walk goes on without it.
CollectFails(g, n) ==
  /\ pc[g] = "walk" /\ n \in todo[g] /\ faults < MaxFaults
  /\ faults' = faults + 1
  /\ todo' = [todo EXCEPT ![g] = @ \ {n}]
  /\ missed' = missed \cup {n}
  /\ UNCHANGED <<recs, mtime, clock, ledgers, lock, pc, job, refs, young,
                 backed, over>>

EndWalk(g) ==
  /\ pc[g] = "walk" /\ todo[g] = {}
  /\ Goto(g, "sweep")
  /\ UNCHANGED <<recs, mtime, clock, ledgers, lock, job, todo, refs, young,
                 backed, missed, over, faults>>

\* SweepBefore: unreferenced ledgers older than the start go.
SweepLedger(a, c) ==
  /\ pc[a] = "sweep" /\ c \in ledgers
  /\ c \notin refs[a] /\ c \notin young[a]
  /\ ledgers' = ledgers \ {c}
  /\ UNCHANGED <<recs, mtime, clock, lock, pc, job, todo, refs, young, backed,
                 missed, over, faults>>

\* A ledger whose removal is refused stays.
EndSweep(a) ==
  /\ pc[a] = "sweep"
  /\ Forget(a)
  /\ UNCHANGED <<recs, mtime, clock, ledgers, job, backed, missed, over,
                 faults>>

-----------------------------------------------------------------------------
(* Cancellation and crashes *)

\* The context is done, or a step before the record's rename fails: the
\* operation returns where it stands, its deferred close freeing the lock.
Cancel(a) ==
  /\ pc[a] \notin {"idle", "scan", "evict", "done"}
  /\ Forget(a)
  /\ UNCHANGED <<recs, mtime, clock, ledgers, job, backed, missed, over,
                 faults>>

\* The process exits inside an eviction; the OS frees its lock.  An exit
\* anywhere else leaves what a cancellation there leaves.
Crash(i) ==
  /\ pc[i] \in {"scan", "evict"}
  /\ over' = over \cup {IdOf[job[i].rec]}
  /\ Forget(i)
  /\ UNCHANGED <<recs, mtime, clock, ledgers, job, backed, missed, faults>>

InstallStep(i) ==
  \/ \E n \in Record, ledger \in BOOLEAN : BeginInstall(i, n, ledger)
  \/ LockInstall(i) \/ InstallLedger(i) \/ InstallRecord(i)
  \/ ScanVariants(i) \/ FinishInstall(i) \/ Crash(i)
  \/ \E n \in Record : Evict(i, n) \/ EvictFails(i, n)

LoadStep(l) ==
  \/ BeginLoad(l) \/ EndRead(l) \/ TryLockLoad(l) \/ SkipReclaim(l) \/ LateScan(l)
  \/ \E n \in Record : ReadRecord(l, n) \/ ReadFails(l, n) \/ LateScanMisses(l, n)

GCStep(g) ==
  \/ BeginGC(g) \/ LockGC(g) \/ ListFails(g) \/ EndWalk(g)
  \/ \E n \in Record : Keep(g, n) \/ Collect(g, n) \/ CollectFails(g, n)

SweepStep(a) == EndSweep(a) \/ \E c \in Coord : SweepLedger(a, c)

Next ==
  \/ \E i \in Installer : InstallStep(i)
  \/ \E l \in Loader : LoadStep(l)
  \/ \E g \in Collector : GCStep(g)
  \/ \E a \in Loader \cup Collector : SweepStep(a)
  \/ \E a \in Actor : Cancel(a)

Spec == Init /\ [][Next]_vars

-----------------------------------------------------------------------------
(* Properties *)

Types ==
  /\ recs \subseteq Record
  /\ mtime \in [Record -> Nat]
  /\ clock \in Nat
  /\ ledgers \subseteq Coord
  /\ pc \in [Actor -> Unlocked \cup Locked]
  /\ job \in [Installer -> [rec : Record, ledger : BOOLEAN]]
  /\ todo \in [Actor -> SUBSET Record]
  /\ refs \in [Actor -> SUBSET Coord]
  /\ young \in [Actor -> SUBSET Coord]
  /\ backed \subseteq Record
  /\ missed \subseteq Record
  /\ over \subseteq Identity
  /\ faults \in Nat

TypeOK == Types /\ lock \in Actor \cup {Nobody}

\* A record present in the store whose install supplied a ledger finds that
\* ledger present, whatever installs, loads and collections interleave, reuse
\* of an old ledger included (witnesscache.go Install, loadSince, gcSince);
\* only a record a faulting sweep missed may lose it.
RecordsFindLedgers ==
  \A n \in (recs \cap backed) \ missed : CoordOf[n] \in ledgers

\* When the lock is free an identity holds at most VariantBound variants, unless
\* an eviction of that identity was cut short by a crash or refused by the file
\* system (recordstore Install).
VariantsBounded ==
  lock = Nobody => \A n \in recs : IdOf[n] \in over
                                   \/ Cardinality(recs \cap SameId(n)) <= VariantBound

\* An eviction never takes a variant newer than one it leaves, nor the variant
\* its own install just published.
EvictsOldest ==
  [][\A i \in Installer, n \in Record : Evict(i, n) =>
       /\ n # job[i].rec
       /\ \A m \in (recs' \cap SameId(n)) \ (todo'[i] \cup {job[i].rec}) :
            mtime[n] <= mtime[m]]_vars

-----------------------------------------------------------------------------
(* The inductive invariant behind RecordsFindLedgers. *)

LockHeld == \A a \in Actor : pc[a] \in Locked <=> lock = a

\* Between a ledger's reuse check and its record's rename the ledger stays.
LedgerReady ==
  \A i \in Installer :
    pc[i] = "record" /\ job[i].ledger => CoordOf[job[i].rec] \in ledgers

\* A walk has seen, or will see, every record it does not miss; a sweep has.
Seen ==
  \A a \in Loader \cup Collector : \A n \in recs \ missed :
    /\ pc[a] = "walk" => n \in todo[a] \/ CoordOf[n] \in refs[a]
    /\ pc[a] = "sweep" => CoordOf[n] \in refs[a]

IInv == TypeOK /\ LockHeld /\ LedgerReady /\ Seen /\ RecordsFindLedgers

(* The one behind VariantsBounded and EvictsOldest. *)

Fits(S) == Cardinality(S) <= VariantBound
Variants(id) == {n \in recs : IdOf[n] = id}

\* The identity of an install that has published and not yet evicted.
Trimming(id) == \E i \in Installer : pc[i] \in {"scan", "evict"} /\ IdOf[job[i].rec] = id

\* Every other identity is within the bound, and that one will be.
Trimmed ==
  /\ \A id \in Identity \ over : Trimming(id) \/ Fits(Variants(id))
  /\ \A i \in Installer : pc[i] = "evict" /\ IdOf[job[i].rec] \notin over =>
       Fits(Variants(IdOf[job[i].rec]) \ todo[i])

\* What an eviction has yet to remove is older than what it leaves.
Surplus ==
  \A i \in Installer : pc[i] = "evict" =>
    /\ todo[i] \subseteq Variants(IdOf[job[i].rec]) \ {job[i].rec}
    /\ \A e \in todo[i], k \in Variants(IdOf[job[i].rec]) \ (todo[i] \cup {job[i].rec}) :
         mtime[e] <= mtime[k]

EvictionInv == TypeOK /\ LockHeld /\ Trimmed /\ Surplus
=============================================================================
