-------------------------- MODULE WitnessStoreProofs --------------------------
(***************************************************************************)
(* Proofs about WitnessStore: the inductive invariant IInv, and from it    *)
(* that no interleaving of installs, loads and collections takes the       *)
(* ledger of a live record; the inductive invariant EvictionInv, and from  *)
(* it that evictions meet the bound on variants and take the oldest.       *)
(***************************************************************************)
EXTENDS WitnessStore, FiniteSetTheorems, TLAPS

\* A readable name for a step that every action below is one of.
LEMMA Steps ==
  ASSUME [Next]_vars
  PROVE  \/ \E i \in Installer : InstallStep(i)
         \/ \E l \in Loader : LoadStep(l)
         \/ \E g \in Collector : GCStep(g)
         \/ \E a \in Loader \cup Collector : SweepStep(a)
         \/ \E a \in Actor : Cancel(a)
         \/ UNCHANGED vars
BY DEF Next

LEMMA InitIInv == Init => IInv
<1> SUFFICES ASSUME Init PROVE IInv
  OBVIOUS
<1>1. TypeOK
  <2>1. NoJob \in [rec : Record, ledger : BOOLEAN]
    BY SomeRecord DEF NoJob
  <2> QED BY <2>1, StoreFunctions DEF Init, TypeOK, Types, Unlocked
<1>2. LockHeld
  BY ActorsDistinct DEF Init, LockHeld, Locked
<1>3. LedgerReady /\ Seen /\ RecordsFindLedgers
  BY DEF Init, LedgerReady, Seen, RecordsFindLedgers, Actor
<1> QED BY <1>1, <1>2, <1>3 DEF IInv

-----------------------------------------------------------------------------
(* Types *)

LEMMA NextTypes == Types /\ [Next]_vars => Types'
<1> SUFFICES ASSUME Types, [Next]_vars PROVE Types'
  OBVIOUS
<1> USE StoreFunctions DEF Types, Locked, Unlocked, Goto, Acquire, Forget, Unlink, Actor
<1>1. ASSUME NEW i \in Installer, InstallStep(i) PROVE Types'
  <2>1. ASSUME NEW n \in Record, NEW ledger \in BOOLEAN, BeginInstall(i, n, ledger)
        PROVE Types'
    BY <2>1 DEF BeginInstall
  <2>2. CASE LockInstall(i)
    BY <2>2 DEF LockInstall
  <2>3. CASE InstallLedger(i)
    BY <2>3 DEF InstallLedger
  <2>4. CASE InstallRecord(i)
    BY <2>4 DEF InstallRecord
  <2>5. CASE ScanVariants(i)
    BY <2>5 DEF ScanVariants
  <2>6. CASE FinishInstall(i)
    BY <2>6 DEF FinishInstall
  <2>7. CASE Crash(i)
    BY <2>7 DEF Crash
  <2>8. ASSUME NEW n \in Record, Evict(i, n) PROVE Types'
    BY <2>8 DEF Evict
  <2>9. ASSUME NEW n \in Record, EvictFails(i, n) PROVE Types'
    BY <2>9 DEF EvictFails
  <2> QED BY <1>1, <2>1, <2>2, <2>3, <2>4, <2>5, <2>6, <2>7, <2>8, <2>9 DEF InstallStep
<1>2. ASSUME NEW l \in Loader, LoadStep(l) PROVE Types'
  <2>1. ASSUME NEW n \in Record, ReadRecord(l, n) \/ ReadFails(l, n) PROVE Types'
    BY <2>1, SMTT(30) DEF ReadRecord, ReadFails
  <2>4. ASSUME NEW n \in Record, LateScanMisses(l, n) PROVE Types'
    BY <2>4 DEF LateScanMisses
  <2>2. CASE BeginLoad(l) \/ EndRead(l) \/ TryLockLoad(l) \/ SkipReclaim(l)
    BY <2>2 DEF BeginLoad, EndRead, TryLockLoad, SkipReclaim
  <2>3. CASE LateScan(l)
    BY <2>3 DEF LateScan
  <2> QED BY <1>2, <2>1, <2>2, <2>3, <2>4 DEF LoadStep
<1>3. ASSUME NEW g \in Collector, GCStep(g) PROVE Types'
  <2>1. ASSUME NEW n \in Record, Keep(g, n) \/ Collect(g, n) \/ CollectFails(g, n)
        PROVE Types'
    BY <2>1 DEF Keep, Collect, CollectFails
  <2>2. CASE BeginGC(g) \/ LockGC(g) \/ ListFails(g) \/ EndWalk(g)
    BY <2>2 DEF BeginGC, LockGC, ListFails, EndWalk
  <2> QED BY <1>3, <2>1, <2>2 DEF GCStep
<1>4. ASSUME NEW a \in Loader \cup Collector, SweepStep(a) PROVE Types'
  BY <1>4 DEF SweepStep, SweepLedger, EndSweep
<1>5. ASSUME NEW a \in Actor, Cancel(a) PROVE Types'
  BY <1>5 DEF Cancel
<1>6. CASE UNCHANGED vars
  BY <1>6 DEF vars
<1> QED BY Steps, <1>1, <1>2, <1>3, <1>4, <1>5, <1>6

-----------------------------------------------------------------------------
(* The lock *)

\* An actor that stays on its side of the lock leaves the lock's invariant.
LEMMA SameSide ==
  ASSUME Types, LockHeld, UNCHANGED lock,
         \A x \in Actor : pc'[x] \in Locked <=> pc[x] \in Locked
  PROVE  LockHeld'
BY DEF LockHeld

LEMMA AcquireLock ==
  ASSUME Types, LockHeld, NEW a \in Actor, NEW phase \in Locked, Acquire(a, phase)
  PROVE  LockHeld'
BY ActorsDistinct DEF Types, LockHeld, Acquire

LEMMA ForgetLock ==
  ASSUME Types, LockHeld, NEW a \in Actor, Forget(a)
  PROVE  LockHeld'
BY ActorsDistinct DEF Types, LockHeld, Forget, Locked

LEMMA GotoLock ==
  ASSUME Types, LockHeld, NEW a \in Actor, NEW phase, Goto(a, phase),
         phase \in Locked <=> pc[a] \in Locked, UNCHANGED lock
  PROVE  LockHeld'
BY DEF Types, LockHeld, Goto

LEMMA NextLockHeld == Types /\ LockHeld /\ [Next]_vars => LockHeld'
<1> SUFFICES ASSUME Types, LockHeld, [Next]_vars PROVE LockHeld'
  OBVIOUS
<1>1. ASSUME NEW i \in Installer, InstallStep(i) PROVE LockHeld'
  <2>0. i \in Actor
    BY DEF Actor
  <2>1. ASSUME NEW n \in Record, NEW ledger \in BOOLEAN, BeginInstall(i, n, ledger)
        PROVE LockHeld'
    BY <2>0, <2>1, GotoLock DEF BeginInstall, Locked
  <2>2. CASE LockInstall(i)
    BY <2>0, <2>2, AcquireLock DEF LockInstall, Locked
  <2>3. CASE InstallLedger(i) \/ InstallRecord(i) \/ ScanVariants(i)
    BY <2>0, <2>3, GotoLock DEF InstallLedger, InstallRecord, ScanVariants, Locked
  <2>4. CASE FinishInstall(i) \/ Crash(i)
    BY <2>0, <2>4, ForgetLock DEF FinishInstall, Crash
  <2>5. ASSUME NEW n \in Record, Evict(i, n) \/ EvictFails(i, n) PROVE LockHeld'
    BY <2>5, SameSide DEF Evict, EvictFails
  <2> QED BY <1>1, <2>1, <2>2, <2>3, <2>4, <2>5 DEF InstallStep
<1>2. ASSUME NEW l \in Loader, LoadStep(l) PROVE LockHeld'
  <2>0. l \in Actor
    BY DEF Actor
  <2>1. ASSUME NEW n \in Record, ReadRecord(l, n) \/ ReadFails(l, n) PROVE LockHeld'
    BY <2>1, SameSide DEF ReadRecord, ReadFails
  <2>5. ASSUME NEW n \in Record, LateScanMisses(l, n) PROVE LockHeld'
    BY <2>0, <2>5, GotoLock DEF LateScanMisses, Locked
  <2>2. CASE BeginLoad(l) \/ EndRead(l) \/ LateScan(l)
    BY <2>0, <2>2, GotoLock DEF BeginLoad, EndRead, LateScan, Locked
  <2>3. CASE TryLockLoad(l)
    BY <2>0, <2>3, AcquireLock DEF TryLockLoad, Locked
  <2>4. CASE SkipReclaim(l)
    BY <2>0, <2>4, ForgetLock DEF SkipReclaim
  <2> QED BY <1>2, <2>1, <2>2, <2>3, <2>4, <2>5 DEF LoadStep
<1>3. ASSUME NEW g \in Collector, GCStep(g) PROVE LockHeld'
  <2>0. g \in Actor
    BY DEF Actor
  <2>1. ASSUME NEW n \in Record, Keep(g, n) \/ Collect(g, n) \/ CollectFails(g, n)
        PROVE LockHeld'
    BY <2>1, SameSide DEF Keep, Collect, CollectFails
  <2>2. CASE BeginGC(g) \/ EndWalk(g)
    BY <2>0, <2>2, GotoLock DEF BeginGC, EndWalk, Locked
  <2>3. CASE LockGC(g) \/ ListFails(g)
    BY <2>0, <2>3, AcquireLock DEF LockGC, ListFails, Locked
  <2> QED BY <1>3, <2>1, <2>2, <2>3 DEF GCStep
<1>4. ASSUME NEW a \in Loader \cup Collector, SweepStep(a) PROVE LockHeld'
  <2>0. a \in Actor
    BY DEF Actor
  <2>1. ASSUME NEW c \in Coord, SweepLedger(a, c) PROVE LockHeld'
    BY <2>1, SameSide DEF SweepLedger
  <2>2. CASE EndSweep(a)
    BY <2>0, <2>2, ForgetLock DEF EndSweep
  <2> QED BY <1>4, <2>1, <2>2 DEF SweepStep
<1>5. ASSUME NEW a \in Actor, Cancel(a) PROVE LockHeld'
  BY <1>5, ForgetLock DEF Cancel
<1>6. CASE UNCHANGED vars
  BY <1>6, SameSide DEF vars
<1> QED BY Steps, <1>1, <1>2, <1>3, <1>4, <1>5, <1>6

LEMMA NextTypeOK == TypeOK /\ [Next]_vars => TypeOK'
<1> SUFFICES ASSUME TypeOK, [Next]_vars PROVE TypeOK'
  OBVIOUS
<1>1. Types'
  BY NextTypes DEF TypeOK
<1>2. lock' \in Actor \cup {Nobody}
  BY Steps DEF InstallStep, LoadStep, GCStep, SweepStep, Cancel, BeginInstall, LockInstall,
     InstallLedger, InstallRecord, ScanVariants, FinishInstall, Crash, Evict, EvictFails,
     BeginLoad, EndRead, TryLockLoad, SkipReclaim, LateScan, ReadRecord, ReadFails,
     LateScanMisses, BeginGC, LockGC, ListFails, EndWalk, Keep, Collect, CollectFails,
     SweepLedger, EndSweep, Acquire, Forget, Goto, Actor, TypeOK, vars
<1> QED BY <1>1, <1>2 DEF TypeOK

-----------------------------------------------------------------------------
(* Records and ledgers *)

\* RecordsFindLedgers, of one record.
Finds(n) == n \in (recs \cap backed) \ missed => CoordOf[n] \in ledgers

FindingKept == \A n \in Record : Finds(n) => Finds(n)'

\* The lock's holder is the only one in a locked phase.
LEMMA Alone ==
  ASSUME LockHeld, NEW a \in Actor, pc[a] \in Locked,
         NEW b \in Actor, pc[b] \in Locked
  PROVE  a = b
BY DEF LockHeld

\* A step that leaves the store's files and every installer's phase and job
\* alone keeps what relates records to ledgers.
LEMMA LedgerReadyKept ==
  ASSUME Types, LedgerReady, ledgers \subseteq ledgers', UNCHANGED job,
         \A i \in Installer : pc'[i] = "record" => pc[i] = "record"
  PROVE  LedgerReady'
BY DEF Types, LedgerReady

LEMMA RecordsKept ==
  ASSUME recs' \subseteq recs, backed' = backed, missed \subseteq missed',
         ledgers \subseteq ledgers'
  PROVE  FindingKept
BY DEF FindingKept, Finds

\* Actors that go on as they were, over no more records, have seen as much.
LEMMA SeenKept ==
  ASSUME Seen, recs' \subseteq recs, missed \subseteq missed',
         \A a \in Loader \cup Collector :
           /\ pc'[a] = "walk" => pc[a] = "walk" /\ todo'[a] = todo[a] /\ refs[a] \subseteq refs'[a]
           /\ pc'[a] = "sweep" => pc[a] = "sweep" /\ refs[a] \subseteq refs'[a]
  PROVE  Seen'
BY DEF Seen

LEMMA InstallKeeps ==
  ASSUME Types, LockHeld, LedgerReady, Seen,
         NEW i \in Installer, InstallStep(i)
  PROVE  LedgerReady' /\ Seen' /\ FindingKept
<1> USE DEF Goto, Acquire, Forget, Unlink
<1>0. /\ i \in Actor
      /\ \A a \in Loader \cup Collector : a \in Actor /\ a # i
  BY ActorsDistinct DEF Actor
<1>1. ASSUME NEW n \in Record, NEW ledger \in BOOLEAN, BeginInstall(i, n, ledger)
      PROVE LedgerReady' /\ Seen' /\ FindingKept
  <2>1. LedgerReady'
    BY <1>0, <1>1 DEF BeginInstall, Types, LedgerReady, Actor
  <2>2. Seen'
    BY <1>0, <1>1, SeenKept DEF BeginInstall, Types
  <2>3. FindingKept
    BY <1>1, RecordsKept DEF BeginInstall
  <2> QED BY <2>1, <2>2, <2>3
<1>2. CASE LockInstall(i)
  <2>1. LedgerReady'
    BY <1>0, <1>2, LedgerReadyKept DEF LockInstall, Types, Actor
  <2>2. Seen'
    BY <1>0, <1>2, SeenKept DEF LockInstall, Types
  <2>3. FindingKept
    BY <1>2, RecordsKept DEF LockInstall
  <2> QED BY <2>1, <2>2, <2>3
<1>3. CASE InstallLedger(i)
  <2>1. LedgerReady'
    BY <1>0, <1>3 DEF InstallLedger, Types, LedgerReady, Actor
  <2>2. Seen'
    BY <1>0, <1>3, SeenKept DEF InstallLedger, Types
  <2>3. FindingKept
    BY <1>3, RecordsKept DEF InstallLedger
  <2> QED BY <2>1, <2>2, <2>3
<1>4. CASE InstallRecord(i)
  <2>1. LedgerReady'
    BY <1>0, <1>4 DEF InstallRecord, Types, LedgerReady, Actor
  <2>2. Seen'
    <3>1. \A a \in Loader \cup Collector : pc'[a] # "walk" /\ pc'[a] # "sweep"
      BY <1>0, <1>4, Alone DEF InstallRecord, Types, Locked
    <3> QED BY <3>1 DEF Seen
  <2>3. FindingKept
    BY <1>4 DEF InstallRecord, Types, LedgerReady, FindingKept, Finds
  <2> QED BY <2>1, <2>2, <2>3
<1>5. CASE ScanVariants(i) \/ FinishInstall(i) \/ Crash(i)
  <2>1. LedgerReady'
    BY <1>0, <1>5, LedgerReadyKept DEF ScanVariants, FinishInstall, Crash, Types, Actor
  <2>2. Seen'
    BY <1>0, <1>5, SeenKept DEF ScanVariants, FinishInstall, Crash, Types
  <2>3. FindingKept
    BY <1>5, RecordsKept DEF ScanVariants, FinishInstall, Crash
  <2> QED BY <2>1, <2>2, <2>3
<1>6. ASSUME NEW n \in Record, Evict(i, n) \/ EvictFails(i, n)
      PROVE LedgerReady' /\ Seen' /\ FindingKept
  <2>1. LedgerReady'
    BY <1>6, LedgerReadyKept DEF Evict, EvictFails
  <2>2. Seen'
    BY <1>0, <1>6, SeenKept DEF Evict, EvictFails, Types
  <2>3. FindingKept
    BY <1>6, RecordsKept DEF Evict, EvictFails
  <2> QED BY <2>1, <2>2, <2>3
<1> QED BY <1>1, <1>2, <1>3, <1>4, <1>5, <1>6 DEF InstallStep

LEMMA LoadKeeps ==
  ASSUME Types, LockHeld, LedgerReady, Seen,
         NEW l \in Loader, LoadStep(l)
  PROVE  LedgerReady' /\ Seen' /\ FindingKept
<1> USE DEF Goto, Acquire, Forget, Unlink
<1>0. l \in Actor /\ l \notin Installer /\ Loader \cup Collector \subseteq Actor
  BY ActorsDistinct DEF Actor
<1>1. LedgerReady'
  BY <1>0, LedgerReadyKept
     DEF LoadStep, BeginLoad, EndRead, TryLockLoad, SkipReclaim, LateScan, ReadRecord,
         ReadFails, LateScanMisses, Types, Actor
<1>2. FindingKept
  BY RecordsKept
     DEF LoadStep, BeginLoad, EndRead, TryLockLoad, SkipReclaim, LateScan, ReadRecord,
         ReadFails, LateScanMisses
<1>3. CASE LateScan(l)
  BY <1>0, <1>1, <1>2, <1>3 DEF LateScan, Types, Seen
<1>4. CASE BeginLoad(l) \/ EndRead(l) \/ TryLockLoad(l) \/ SkipReclaim(l)
  BY <1>0, <1>1, <1>2, <1>4, SeenKept DEF BeginLoad, EndRead, TryLockLoad, SkipReclaim, Types
<1>5. ASSUME NEW n \in Record, ReadRecord(l, n) \/ ReadFails(l, n) PROVE Seen'
  BY <1>0, <1>5, SeenKept, StoreFunctions DEF ReadRecord, ReadFails, Types
<1>6. ASSUME NEW n \in Record, LateScanMisses(l, n) PROVE Seen'
  BY <1>0, <1>6 DEF LateScanMisses, Types, Seen
<1> QED BY <1>1, <1>2, <1>3, <1>4, <1>5, <1>6 DEF LoadStep

LEMMA GCKeeps ==
  ASSUME Types, LockHeld, LedgerReady, Seen,
         NEW g \in Collector, GCStep(g)
  PROVE  LedgerReady' /\ Seen' /\ FindingKept
<1> USE DEF Goto, Acquire, Forget, Unlink
<1>0. g \in Actor /\ g \notin Installer /\ Loader \cup Collector \subseteq Actor
  BY ActorsDistinct DEF Actor
<1>1. LedgerReady'
  BY <1>0, LedgerReadyKept
     DEF GCStep, BeginGC, LockGC, ListFails, EndWalk, Keep, Collect, CollectFails, Types, Actor
<1>2. FindingKept
  BY RecordsKept DEF GCStep, BeginGC, LockGC, ListFails, EndWalk, Keep, Collect, CollectFails
<1>3. CASE BeginGC(g)
  BY <1>0, <1>1, <1>2, <1>3, SeenKept DEF BeginGC, Types
<1>4. CASE LockGC(g) \/ ListFails(g) \/ EndWalk(g)
  BY <1>0, <1>1, <1>2, <1>4 DEF LockGC, ListFails, EndWalk, Types, Seen
<1>5. ASSUME NEW n \in Record, Keep(g, n) \/ Collect(g, n) \/ CollectFails(g, n) PROVE Seen'
  BY <1>0, <1>5, StoreFunctions DEF Keep, Collect, CollectFails, Types, Seen
<1> QED BY <1>1, <1>2, <1>3, <1>4, <1>5 DEF GCStep

LEMMA SweepKeeps ==
  ASSUME Types, LockHeld, LedgerReady, Seen,
         NEW a \in Loader \cup Collector, SweepStep(a)
  PROVE  LedgerReady' /\ Seen' /\ FindingKept
<1> USE DEF Goto, Forget
<1>0. a \in Actor /\ a \notin Installer /\ Installer \subseteq Actor
  BY ActorsDistinct DEF Actor
<1>1. ASSUME NEW c \in Coord, SweepLedger(a, c)
      PROVE LedgerReady' /\ Seen' /\ FindingKept
  <2>1. \A i \in Installer : pc[i] # "record"
    BY <1>0, <1>1, Alone DEF SweepLedger, Locked
  <2>2. LedgerReady'
    BY <1>1, <2>1 DEF SweepLedger, LedgerReady
  <2>3. Seen'
    BY <1>1, SeenKept DEF SweepLedger
  <2>4. FindingKept
    BY <1>1 DEF SweepLedger, Seen, FindingKept, Finds
  <2> QED BY <2>2, <2>3, <2>4
<1>2. CASE EndSweep(a)
  <2>1. LedgerReady'
    BY <1>0, <1>2, LedgerReadyKept DEF EndSweep, Types
  <2>2. Seen'
    BY <1>0, <1>2, SeenKept DEF EndSweep, Types
  <2>3. FindingKept
    BY <1>2, RecordsKept DEF EndSweep
  <2> QED BY <2>1, <2>2, <2>3
<1> QED BY <1>1, <1>2 DEF SweepStep

LEMMA CancelKeeps ==
  ASSUME Types, LockHeld, LedgerReady, Seen,
         NEW a \in Actor, Cancel(a)
  PROVE  LedgerReady' /\ Seen' /\ FindingKept
<1>1. LedgerReady'
  BY LedgerReadyKept DEF Cancel, Forget, Types
<1>2. Seen'
  BY SeenKept DEF Cancel, Forget, Types
<1>3. FindingKept
  BY RecordsKept DEF Cancel, Forget
<1> QED BY <1>1, <1>2, <1>3

LEMMA NextKeeps ==
  ASSUME Types, LockHeld, LedgerReady, Seen, [Next]_vars
  PROVE  LedgerReady' /\ Seen' /\ FindingKept
<1>1. CASE UNCHANGED vars
  BY <1>1 DEF vars, LedgerReady, Seen, FindingKept, Finds
<1> QED
  BY <1>1, Steps, InstallKeeps, LoadKeeps, GCKeeps, SweepKeeps, CancelKeeps

LEMMA NextIInv == IInv /\ [Next]_vars => IInv'
<1> SUFFICES ASSUME IInv, [Next]_vars PROVE IInv'
  OBVIOUS
<1>1. Types /\ TypeOK' /\ Types' /\ LockHeld'
  BY NextTypeOK, NextLockHeld DEF IInv, TypeOK
<1>2. LedgerReady' /\ Seen' /\ FindingKept
  BY <1>1, NextKeeps DEF IInv
<1>3. RecordsFindLedgers'
  BY <1>1, <1>2 DEF IInv, Types, RecordsFindLedgers, FindingKept, Finds
<1> QED BY <1>1, <1>2, <1>3 DEF IInv

-----------------------------------------------------------------------------
(* The bound on variants *)

LEMMA FitsSubset ==
  ASSUME NEW T, IsFiniteSet(T), Fits(T), NEW S \in SUBSET T
  PROVE  Fits(S)
BY FS_Subset, FS_CardinalityType, Bounds DEF Fits

LEMMA FiniteVariants == Types => \A id : IsFiniteSet(Variants(id))
BY FileNames, FS_Subset DEF Types, Variants

\* A step that adds no record and leaves the trimming installs as they are
\* keeps the bound.
Undisturbed ==
  \A i \in Installer :
    /\ pc[i] \in {"scan", "evict"} <=> pc'[i] \in {"scan", "evict"}
    /\ pc[i] \in {"scan", "evict"} =>
         pc'[i] = pc[i] /\ job'[i] = job[i] /\ todo'[i] = todo[i]

\* A step of one actor that is no evicting installer.
LEMMA StaysUndisturbed ==
  ASSUME UNCHANGED job, NEW a,
         \A i \in Installer : i = a => /\ pc[i] \notin {"scan", "evict"}
                                      /\ pc'[i] \notin {"scan", "evict"},
         \A i \in Installer \ {a} : pc'[i] = pc[i] /\ todo'[i] = todo[i]
  PROVE  Undisturbed
BY DEF Undisturbed

LEMMA TrimmedKept ==
  ASSUME Types, Trimmed, Undisturbed, recs' \subseteq recs, over \subseteq over'
  PROVE  Trimmed'
<1>1. \A id : IsFiniteSet(Variants(id)) /\ Variants(id)' \subseteq Variants(id)
  BY FiniteVariants DEF Variants
<1>2. ASSUME NEW id \in Identity \ over' PROVE Trimming(id)' \/ Fits(Variants(id))'
  <2>1. CASE Trimming(id)
    BY <2>1 DEF Trimming, Undisturbed
  <2>2. CASE Fits(Variants(id))
    <3>1. Fits(Variants(id)')
      BY <1>1, <2>2, FitsSubset
    <3> QED BY <3>1 DEF Fits
  <2> QED BY <1>2, <2>1, <2>2 DEF Trimmed
<1>3. ASSUME NEW i \in Installer, pc'[i] = "evict", IdOf[job'[i].rec] \notin over'
      PROVE Fits(Variants(IdOf[job[i].rec]) \ todo[i])'
  <2>0. PICK id : id = IdOf[job[i].rec]
    OBVIOUS
  <2>1. pc[i] = "evict" /\ job'[i] = job[i] /\ todo'[i] = todo[i] /\ id \notin over
    BY <1>3, <2>0 DEF Undisturbed
  <2>2. Fits(Variants(id) \ todo[i])
    BY <2>0, <2>1 DEF Trimmed
  <2>3. IsFiniteSet(Variants(id) \ todo[i])
    BY <1>1, FS_Difference
  <2>4. Variants(id)' \ todo[i] \subseteq Variants(id) \ todo[i]
    BY <1>1
  <2>5. Fits(Variants(id)' \ todo[i])
    BY <2>2, <2>3, <2>4, FitsSubset
  <2>6. (Variants(IdOf[job[i].rec]) \ todo[i])' = Variants(id)' \ todo[i]
    BY <2>0, <2>1 DEF Variants
  <2> QED BY <2>5, <2>6 DEF Fits
<1> QED BY <1>2, <1>3 DEF Trimmed

LEMMA SurplusKept ==
  ASSUME Types, Surplus, Undisturbed, recs' = recs, mtime' = mtime
  PROVE  Surplus'
BY DEF Surplus, Undisturbed, Variants

\* With the lock in another's hands nothing is being evicted.
LEMMA SurplusVacuous ==
  ASSUME LockHeld, LockHeld', NEW a \in Actor, pc[a] \in Locked, a \notin Installer, Undisturbed
  PROVE  Surplus'
BY Alone DEF Surplus, Undisturbed, Locked, Actor

LEMMA InstallTrims ==
  ASSUME Types, LockHeld, Trimmed, Surplus, NEW i \in Installer, InstallStep(i)
  PROVE  Trimmed' /\ Surplus'
<1> USE DEF Goto, Acquire, Forget, Unlink
<1> DEFINE rec == job[i].rec
           id == IdOf[rec]
<1>0. /\ Installer \subseteq Actor /\ rec \in Record /\ id \in Identity
      /\ \A n \in Record : IdOf[n] \in Identity
  BY StoreFunctions DEF Types, Actor
<1>1. ASSUME \/ \E n \in Record, ledger \in BOOLEAN : BeginInstall(i, n, ledger)
             \/ LockInstall(i) \/ InstallLedger(i)
      PROVE Trimmed' /\ Surplus'
  <2>1. Undisturbed
    BY <1>0, <1>1 DEF Undisturbed, BeginInstall, LockInstall, InstallLedger, Types
  <2>2. recs' = recs /\ mtime' = mtime /\ over' = over
    BY <1>1 DEF BeginInstall, LockInstall, InstallLedger
  <2> QED BY <2>1, <2>2, TrimmedKept, SurplusKept
<1>2. CASE InstallRecord(i)
  <2>1. \A j \in Installer : pc[j] \notin {"scan", "evict"}
    BY <1>0, <1>2, Alone DEF InstallRecord, Locked
  <2>2. \A j \in Installer : pc'[j] # "evict"
    BY <1>0, <1>2, <2>1 DEF InstallRecord, Types
  <2>3. pc'[i] = "scan" /\ job' = job /\ over' = over /\ recs' = recs \cup {rec}
    BY <1>0, <1>2 DEF InstallRecord, Types
  <2>4. ASSUME NEW k \in Identity \ over PROVE Trimming(k)' \/ Fits(Variants(k))'
    <3>1. CASE k = id
      BY <2>3, <3>1 DEF Trimming
    <3>2. CASE k # id
      <4>1. Variants(k)' = Variants(k)
        BY <2>3, <3>2 DEF Variants
      <4>2. Fits(Variants(k))
        BY <2>1 DEF Trimmed, Trimming
      <4> QED BY <4>1, <4>2 DEF Fits
    <3> QED BY <3>1, <3>2
  <2> QED BY <2>2, <2>3, <2>4 DEF Trimmed, Surplus
<1>3. CASE ScanVariants(i)
  <2>1. PICK kept \in SUBSET recs : Keeps(rec, kept) /\ todo' = [todo EXCEPT ![i] = (recs \cap SameId(rec)) \ kept]
    BY <1>3 DEF ScanVariants
  <2>2. /\ pc[i] = "scan" /\ pc'[i] = "evict"
        /\ UNCHANGED <<recs, mtime, job, over>>
        /\ todo'[i] = Variants(id) \ kept
        /\ \A j \in Installer \ {i} : pc'[j] = pc[j] /\ pc[j] # "evict"
    <3>1. recs \cap SameId(rec) = Variants(id)
      BY <1>0 DEF Types, SameId, Variants
    <3>2. \A j \in Installer \ {i} : pc[j] # "evict"
      BY <1>0, <1>3, Alone DEF ScanVariants, Locked
    <3> QED BY <1>0, <1>3, <2>1, <3>1, <3>2 DEF ScanVariants, Types
  <2>3. /\ kept \subseteq Variants(id) /\ rec \in kept
        /\ \A k \in kept \ {rec}, e \in Variants(id) \ kept : mtime[e] <= mtime[k]
    BY <1>0, <2>1 DEF Keeps, Types, SameId, Variants
  <2>4. Fits(kept)
    <3>1. IsFiniteSet(recs \cap SameId(rec))
      BY FileNames, FS_Subset DEF Types, SameId
    <3>2. Cardinality(recs \cap SameId(rec)) \in Nat
      BY <3>1, FS_CardinalityType
    <3> QED BY <2>1, <3>2, Bounds DEF Keeps, Fits
  <2>5. (Variants(IdOf[job[i].rec]) \ todo[i])' = kept
    BY <2>2, <2>3 DEF Variants
  <2>6. \A k : Trimming(k) => Trimming(k)'
    BY <2>2 DEF Trimming
  <2>7. \A k : Variants(k)' = Variants(k)
    BY <2>2 DEF Variants
  <2>8. Trimmed'
    BY <2>2, <2>4, <2>5, <2>6, <2>7 DEF Trimmed, Fits
  <2>9. Surplus'
    BY <2>2, <2>3, <2>7 DEF Surplus
  <2> QED BY <2>8, <2>9
<1>4. ASSUME NEW n \in Record, Evict(i, n) PROVE Trimmed' /\ Surplus'
  <2>1. /\ pc[i] = "evict" /\ n \in todo[i] /\ n \in Variants(id)
        /\ recs' = recs \ {n} /\ mtime' = [mtime EXCEPT ![n] = 0]
        /\ UNCHANGED <<pc, job, over>> /\ todo'[i] = todo[i] \ {n}
        /\ \A j \in Installer \ {i} : pc[j] # "evict"
    BY <1>0, <1>4, Alone DEF Evict, NextVictim, Surplus, Types, Locked
  <2>2. \A k : Variants(k)' = Variants(k) \ {n}
    BY <2>1 DEF Variants
  <2>3. (Variants(IdOf[job[i].rec]) \ todo[i])' = Variants(id) \ todo[i]
    BY <2>1 DEF Variants
  <2>4. ASSUME NEW k \in Identity \ over PROVE Trimming(k)' \/ Fits(Variants(k))'
    <3>1. CASE Trimming(k)
      BY <2>1, <3>1 DEF Trimming
    <3>2. CASE Fits(Variants(k))
      <4>1. Fits(Variants(k) \ {n})
        BY <3>2, FiniteVariants, FitsSubset
      <4> QED BY <2>2, <4>1 DEF Fits
    <3> QED BY <3>1, <3>2 DEF Trimmed
  <2>5. Trimmed'
    BY <2>1, <2>3, <2>4 DEF Trimmed, Fits
  <2>6. /\ todo'[i] \subseteq Variants(id)' \ {rec}
        /\ \A e \in todo'[i], k \in Variants(id)' \ (todo'[i] \cup {rec}) : mtime'[e] <= mtime'[k]
    BY <2>1, <2>2 DEF Surplus, Variants, Types
  <2>7. Surplus'
    BY <2>1, <2>6 DEF Surplus
  <2> QED BY <2>5, <2>7
<1>5. ASSUME NEW n \in Record, EvictFails(i, n) PROVE Trimmed' /\ Surplus'
  <2>1. /\ pc[i] = "evict" /\ n \in todo[i] /\ n \in Variants(id)
        /\ \A e \in todo[i] : mtime[e] <= mtime[n]
        /\ UNCHANGED <<recs, mtime, pc, job>> /\ over' = over \cup {id} /\ todo'[i] = todo[i] \ {n}
        /\ \A j \in Installer \ {i} : pc[j] # "evict"
    BY <1>0, <1>5, Alone DEF EvictFails, NextVictim, Surplus, Types, Locked, Variants
  <2>2. \A k : Variants(k)' = Variants(k) /\ (Trimming(k)' <=> Trimming(k))
    BY <2>1 DEF Variants, Trimming
  <2>3. Trimmed'
    BY <2>1, <2>2 DEF Trimmed, Fits
  <2>4. Surplus'
    BY <2>1, <2>2 DEF Surplus
  <2> QED BY <2>3, <2>4
<1>6. CASE FinishInstall(i) \/ Crash(i)
  <2>1. /\ UNCHANGED <<recs, mtime, job>> /\ pc'[i] = "done" /\ over \subseteq over'
        /\ \A j \in Installer \ {i} : pc'[j] = pc[j] /\ pc[j] \notin {"scan", "evict"}
    BY <1>0, <1>6, Alone DEF FinishInstall, Crash, Types, Locked
  <2>2. id \notin over' => Fits(Variants(id))
    <3>1. CASE FinishInstall(i)
      <4>1. pc[i] = "evict" /\ over' = over /\ Variants(id) \ todo[i] = Variants(id)
        BY <3>1 DEF FinishInstall
      <4> QED BY <4>1 DEF Trimmed
    <3>2. CASE Crash(i)
      BY <3>2 DEF Crash
    <3> QED BY <1>6, <3>1, <3>2
  <2>3. \A k \in Identity \ over' : Fits(Variants(k))
    BY <2>1, <2>2 DEF Trimmed, Trimming
  <2>4. \A k : Variants(k)' = Variants(k)
    BY <2>1 DEF Variants
  <2> QED BY <2>1, <2>3, <2>4 DEF Trimmed, Surplus, Fits
<1> QED BY <1>1, <1>2, <1>3, <1>4, <1>5, <1>6 DEF InstallStep

\* The other operations, and a cancellation, evict nothing.
LEMMA OthersTrim ==
  ASSUME Types, LockHeld, LockHeld', Trimmed, Surplus,
         \/ \E l \in Loader : LoadStep(l)
         \/ \E g \in Collector : GCStep(g)
         \/ \E a \in Loader \cup Collector : SweepStep(a)
         \/ \E a \in Actor : Cancel(a)
  PROVE  Trimmed' /\ Surplus'
<1> USE DEF Goto, Acquire, Forget, Unlink
<1>1. ASSUME NEW l \in Loader, LoadStep(l) PROVE Trimmed' /\ Surplus'
  <2>1. l \in Actor /\ l \notin Installer /\ recs' = recs /\ mtime' = mtime /\ over' = over
    BY <1>1, ActorsDistinct
       DEF LoadStep, BeginLoad, EndRead, TryLockLoad, SkipReclaim, LateScan, ReadRecord,
           ReadFails, LateScanMisses, Actor
  <2>2. job' = job /\ \A i \in Installer \ {l} : pc'[i] = pc[i] /\ todo'[i] = todo[i]
    <3>1. \A i \in Installer : i \in Actor /\ i # l
      BY <2>1 DEF Actor
    <3> QED
      BY <1>1, <2>1, <3>1
         DEF LoadStep, BeginLoad, EndRead, TryLockLoad, SkipReclaim, LateScan, ReadRecord,
             ReadFails, LateScanMisses, Types
  <2>3. Undisturbed
    BY <2>1, <2>2, StaysUndisturbed
  <2> QED BY <2>1, <2>3, TrimmedKept, SurplusKept
<1>2. ASSUME NEW g \in Collector, GCStep(g) PROVE Trimmed' /\ Surplus'
  <2>1. g \in Actor /\ g \notin Installer /\ recs' \subseteq recs /\ over' = over
    BY <1>2, ActorsDistinct
       DEF GCStep, BeginGC, LockGC, ListFails, EndWalk, Keep, Collect, CollectFails, Actor
  <2>5. job' = job /\ \A i \in Installer \ {g} : pc'[i] = pc[i] /\ todo'[i] = todo[i]
    <3>1. \A i \in Installer : i \in Actor /\ i # g
      BY <2>1 DEF Actor
    <3> QED
      BY <1>2, <2>1, <3>1
         DEF GCStep, BeginGC, LockGC, ListFails, EndWalk, Keep, Collect, CollectFails, Types
  <2>2. Undisturbed
    BY <2>1, <2>5, StaysUndisturbed
  <2>3. pc[g] = "walk" \/ (recs' = recs /\ mtime' = mtime)
    BY <1>2 DEF GCStep, BeginGC, LockGC, ListFails, EndWalk, Keep, Collect, CollectFails
  <2>4. pc[g] = "walk" => Surplus'
    BY <2>1, <2>2, SurplusVacuous DEF Locked
  <2> QED BY <2>1, <2>2, <2>3, <2>4, TrimmedKept, SurplusKept
<1>3. ASSUME NEW a \in Loader \cup Collector, SweepStep(a) PROVE Trimmed' /\ Surplus'
  <2>1. a \notin Installer /\ recs' = recs /\ mtime' = mtime /\ over' = over
    BY <1>3, ActorsDistinct DEF SweepStep, SweepLedger, EndSweep
  <2>2. job' = job /\ \A i \in Installer \ {a} : pc'[i] = pc[i] /\ todo'[i] = todo[i]
    <3>1. \A i \in Installer : i \in Actor /\ i # a
      BY <2>1 DEF Actor
    <3> QED BY <1>3, <2>1, <3>1 DEF SweepStep, SweepLedger, EndSweep, Types
  <2>3. Undisturbed
    BY <2>1, <2>2, StaysUndisturbed
  <2> QED BY <2>1, <2>3, TrimmedKept, SurplusKept
<1>4. ASSUME NEW a \in Actor, Cancel(a) PROVE Trimmed' /\ Surplus'
  <2>1. Undisturbed /\ recs' = recs /\ mtime' = mtime /\ over' = over
    BY <1>4 DEF Cancel, Undisturbed, Types
  <2> QED BY <2>1, TrimmedKept, SurplusKept
<1> QED BY <1>1, <1>2, <1>3, <1>4

LEMMA InitEviction == Init => EvictionInv
<1> SUFFICES ASSUME Init PROVE EvictionInv
  OBVIOUS
<1>1. TypeOK /\ LockHeld
  BY InitIInv DEF IInv
<1>2. \A i \in Installer : pc[i] # "evict"
  BY DEF Init, Actor
<1>3. ASSUME NEW id \in Identity PROVE Fits(Variants(id))
  <2>1. CASE Variants(id) = {}
    BY <2>1, FS_EmptySet, Bounds DEF Fits
  <2>2. ASSUME NEW n \in Variants(id) PROVE Fits(Variants(id))
    <3>1. n \in recs /\ recs \cap SameId(n) = Variants(id)
      BY <1>1 DEF TypeOK, Types, SameId, Variants
    <3> QED BY <3>1 DEF Init, Fits
  <2> QED BY <2>1, <2>2
<1> QED BY <1>1, <1>2, <1>3 DEF EvictionInv, Trimmed, Surplus

LEMMA NextEviction == EvictionInv /\ [Next]_vars => EvictionInv'
<1> SUFFICES ASSUME EvictionInv, [Next]_vars PROVE EvictionInv'
  OBVIOUS
<1>1. Types /\ TypeOK' /\ LockHeld'
  BY NextTypeOK, NextLockHeld DEF EvictionInv, TypeOK
<1>2. CASE UNCHANGED vars
  <2>1. Undisturbed /\ recs' = recs /\ mtime' = mtime /\ over' = over
    BY <1>2 DEF vars, Undisturbed
  <2> QED BY <1>1, <2>1, TrimmedKept, SurplusKept DEF EvictionInv
<1>3. ASSUME ~UNCHANGED vars PROVE Trimmed' /\ Surplus'
  BY <1>1, <1>3, Steps, InstallTrims, OthersTrim DEF EvictionInv
<1> QED BY <1>1, <1>2, <1>3 DEF EvictionInv

-----------------------------------------------------------------------------

\* The invariant of witnesscache's Install, Load and GC over one store, for any
\* number of each, any records, coordinates, bound and number of faults.
THEOREM StoreInvariant == Spec => []IInv
BY InitIInv, NextIInv, PTL DEF Spec

\* Every variable keeps its type through installs, loads, collections, faults
\* and crashes.
THEOREM StoreTypes == Spec => []TypeOK
<1>1. IInv => TypeOK
  BY DEF IInv
<1> QED BY <1>1, StoreInvariant, PTL

\* No interleaving of installs, loads and collections takes the ledger of a
\* record that no faulting sweep missed (witnesscache.go Install, loadSince,
\* gcSince): the store's exclusion and its late scans are enough.
THEOREM LedgersKept == Spec => []RecordsFindLedgers
<1>1. IInv => RecordsFindLedgers
  BY DEF IInv
<1> QED BY <1>1, StoreInvariant, PTL

\* The invariant of recordstore's evictions, for any number of installs, faults
\* and crashes.
THEOREM EvictionInvariant == Spec => []EvictionInv
BY InitEviction, NextEviction, PTL DEF Spec

\* Whenever the lock is free an identity is within the bound, unless one of its
\* evictions was cut short or refused (recordstore.go Install).
THEOREM BoundMet == Spec => []VariantsBounded
<1>1. EvictionInv => VariantsBounded
  <2> SUFFICES ASSUME EvictionInv, lock = Nobody, NEW n \in recs, IdOf[n] \notin over
               PROVE  Cardinality(recs \cap SameId(n)) <= VariantBound
    BY DEF VariantsBounded
  <2>1. n \in Record /\ IdOf[n] \in Identity
    BY StoreFunctions DEF EvictionInv, TypeOK, Types
  <2>2. ~Trimming(IdOf[n])
    BY ActorsDistinct DEF EvictionInv, LockHeld, Trimming, Locked, Actor
  <2>3. Variants(IdOf[n]) = recs \cap SameId(n)
    BY <2>1 DEF EvictionInv, TypeOK, Types, Variants, SameId
  <2> QED BY <2>1, <2>2, <2>3 DEF EvictionInv, Trimmed, Fits
<1> QED BY <1>1, EvictionInvariant, PTL

\* No eviction takes the variant just published, nor one newer than a variant it
\* leaves, however many removals were refused on the way.
THEOREM OldestEvicted == Spec => EvictsOldest
<1>1. EvictionInv =>
        \A i \in Installer, n \in Record : Evict(i, n) =>
             /\ n # job[i].rec
             /\ \A m \in (recs' \cap SameId(n)) \ (todo'[i] \cup {job[i].rec}) :
                  mtime[n] <= mtime[m]
  <2> SUFFICES ASSUME EvictionInv, NEW i \in Installer, NEW n \in Record, Evict(i, n)
               PROVE  /\ n # job[i].rec
                      /\ \A m \in (recs' \cap SameId(n)) \ (todo'[i] \cup {job[i].rec}) :
                           mtime[n] <= mtime[m]
    OBVIOUS
  <2>1. /\ pc[i] = "evict" /\ n \in todo[i] /\ recs' = recs \ {n} /\ todo'[i] = todo[i] \ {n}
    BY DEF Evict, NextVictim, Unlink, EvictionInv, TypeOK, Types, Actor
  <2>2. n \in Variants(IdOf[job[i].rec]) \ {job[i].rec}
    BY <2>1 DEF EvictionInv, Surplus
  <2>3. ASSUME NEW m \in (recs' \cap SameId(n)) \ (todo'[i] \cup {job[i].rec})
        PROVE  m \in Variants(IdOf[job[i].rec]) \ (todo[i] \cup {job[i].rec})
    BY <2>1, <2>2 DEF SameId, Variants
  <2> QED BY <2>1, <2>2, <2>3 DEF EvictionInv, Surplus
<1> QED BY <1>1, EvictionInvariant, PTL DEF EvictsOldest
=============================================================================
