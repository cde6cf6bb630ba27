--------------------------- MODULE StorePruneProofs ---------------------------
(***************************************************************************)
(* Proofs about StorePrune: what a step of the store's own operations      *)
(* keeps (WitnessStoreProofs) holds beside pruners too, and a pruner takes *)
(* the ledger of no record it counted.                                     *)
(***************************************************************************)
EXTENDS StorePrune, WitnessStoreProofs

LEMMA PrunersApart == \A p \in Pruner : p \notin Actor /\ p # Nobody
BY PrunersDistinct

LEMMA InitPInv == PInit => PInv
<1> SUFFICES ASSUME PInit PROVE PInv
  OBVIOUS
<1>1. IInv
  BY InitIInv DEF PInit
<1>2. lock = Nobody
  BY DEF PInit, Init
<1>3. PTypes /\ PLockHeld
  BY <1>1, <1>2, PrunersApart DEF PInit, PTypes, PLockHeld, IInv, TypeOK
<1>4. Counted /\ PruneKeepsCountedLedgers
  BY <1>1 DEF PInit, Counted, PruneKeepsCountedLedgers, IInv, RecordsFindLedgers
<1> QED BY <1>1, <1>3, <1>4 DEF PInv, IInv

-----------------------------------------------------------------------------
(* A step of the store's own operations *)

\* It takes or frees the lock for an actor of its own only.
LEMMA StoreStepLock ==
  ASSUME Next, NEW p \in Pruner
  PROVE  lock' = p <=> lock = p
BY PrunersApart, Steps
   DEF InstallStep, LoadStep, GCStep, SweepStep, Cancel, BeginInstall, LockInstall,
       InstallLedger, InstallRecord, ScanVariants, FinishInstall, Crash, Evict, EvictFails,
       BeginLoad, EndRead, TryLockLoad, SkipReclaim, LateScan, ReadRecord, ReadFails,
       LateScanMisses, BeginGC, LockGC, ListFails, EndWalk, Keep, Collect, CollectFails,
       SweepLedger, EndSweep, Acquire, Forget, Goto, Actor, vars

\* The records whose rename a step is.
Published == {job[i].rec : i \in {j \in Installer : pc[j] = "record" /\ pc'[j] = "scan"}}

\* Only a rename brings a record, or takes one back from those missed.
LEMMA StoreGrowth ==
  ASSUME Types, Next
  PROVE  recs' \ missed' \subseteq (recs \ missed) \cup Published
<1>1. ASSUME NEW i \in Installer, InstallRecord(i)
      PROVE  recs' \ missed' \subseteq (recs \ missed) \cup Published
  <2>1. job[i].rec \in Published
    BY <1>1 DEF InstallRecord, Goto, Types, Actor, Published
  <2> QED BY <1>1, <2>1 DEF InstallRecord
<1>2. ASSUME \A i \in Installer : ~InstallRecord(i)
      PROVE  recs' \subseteq recs /\ missed \subseteq missed'
  BY <1>2, Steps
     DEF InstallStep, LoadStep, GCStep, SweepStep, Cancel, BeginInstall, LockInstall,
         InstallLedger, ScanVariants, FinishInstall, Crash, Evict, EvictFails,
         BeginLoad, EndRead, TryLockLoad, SkipReclaim, LateScan, ReadRecord, ReadFails,
         LateScanMisses, BeginGC, LockGC, ListFails, EndWalk, Keep, Collect, CollectFails,
         SweepLedger, EndSweep, Unlink, vars
<1> QED BY <1>1, <1>2

LEMMA StoreStepKeeps == PInv /\ StoreStep => PInv'
<1> SUFFICES ASSUME PInv, StoreStep PROVE PInv'
  OBVIOUS
<1>1. Next /\ Types /\ LockHeld /\ LedgerReady /\ Seen
  BY DEF PInv, PTypes, PLockHeld, StoreStep
<1>2. Types' /\ LockHeld' /\ LedgerReady' /\ Seen' /\ FindingKept
  BY <1>1, NextTypes, NextLockHeld, NextKeeps
<1>3. UNCHANGED <<ppc, candidates, refsBy, owned, victim>>
  BY DEF StoreStep
<1>4. \A p \in Pruner : since'[p] = IF ppc[p] \in {"pass2", "evict"}
                                    THEN since[p] \cup Published ELSE since[p]
  BY DEF StoreStep, Published
<1>5. Published \subseteq Record
  BY <1>1 DEF Published, Types
<1>6. PTypes'
  <2>1. since' \in [Pruner -> SUBSET Record]
    <3>1. \A p \in Pruner : since'[p] \in SUBSET Record
      BY <1>4, <1>5 DEF PInv, PTypes
    <3> QED BY <3>1 DEF StoreStep
  <2> QED BY <1>2, <1>3, <2>1 DEF PInv, PTypes
<1>7. PLockHeld'
  BY <1>1, <1>2, <1>3, StoreStepLock DEF PInv, PLockHeld
<1>8. Counted'
  <2> SUFFICES ASSUME NEW p \in Pruner, ppc[p] \in {"survey", "pass2", "evict"},
                      NEW n \in recs' \ missed'
               PROVE  n \in refsBy[p] \cup since'[p]
    BY <1>3 DEF Counted
  <2>1. CASE n \in recs \ missed
    BY <1>4, <2>1 DEF PInv, Counted
  <2>2. CASE n \in Published
    <3>1. PICK i \in Installer : pc[i] = "record" /\ n = job[i].rec
      BY <2>2 DEF Published
    <3>2. lock = i /\ i \in Actor
      BY <1>1, <3>1 DEF LockHeld, Locked, Actor
    <3>3. ppc[p] # "survey"
      BY <3>2, PrunersApart DEF PInv, PLockHeld
    <3> QED BY <1>4, <2>2, <3>3
  <2> QED BY <1>1, <2>1, <2>2, StoreGrowth
<1>9. PruneKeepsCountedLedgers'
  <2> SUFFICES ASSUME NEW n \in ((recs \cap backed) \ missed)'
               PROVE  CoordOf[n] \in ledgers' \/ \E p \in Pruner : n \in since'[p]
    BY DEF PruneKeepsCountedLedgers
  <2>1. CASE Finds(n)
    BY <1>2, <2>1 DEF FindingKept, Finds, Types
  <2>2. CASE \E p \in Pruner : n \in since[p]
    BY <1>4, <2>2
  <2> QED BY <2>1, <2>2 DEF PInv, PruneKeepsCountedLedgers, Finds
<1> QED BY <1>2, <1>6, <1>7, <1>8, <1>9 DEF PInv

-----------------------------------------------------------------------------
(* A step of a pruner *)

\* It adds no record and touches no actor's memory; a ledger goes only while
\* the pruner holds the lock.
LEMMA PruneStepFrame ==
  ASSUME PInv, NEW p \in Pruner, PruneStep(p)
  PROVE  /\ UNCHANGED <<clock, pc, job, todo, refs, young, backed, since, over>>
         /\ recs' \subseteq recs /\ missed \subseteq missed' /\ ledgers' \subseteq ledgers
         /\ ledgers' = ledgers \/ lock = p
<1> USE DEF PruneStep, Survey, SurveyFails, Busy, EndSurvey, EvictLedger, EndPrune,
            CrashPrune, DropLedger, EvictCandidate, EvictRefused, Unlink, pvars, vars
<1>1. UNCHANGED <<clock, pc, job, todo, refs, young, backed, since, over>>
  BY Zenon
<1>2. recs' \subseteq recs /\ missed \subseteq missed' /\ ledgers' \subseteq ledgers
  <2>1. CASE \E c \in candidates[p] : EvictCandidate(p, c[1], c[2]) \/ EvictRefused(p, c[1], c[2])
    BY <2>1
  <2>2. CASE \/ Survey(p) \/ SurveyFails(p) \/ Busy(p) \/ EndSurvey(p) \/ EvictLedger(p)
             \/ EndPrune(p) \/ CrashPrune(p) \/ \E c \in Coord : DropLedger(p, c)
    BY <2>2
  <2> QED BY <2>1, <2>2
<1>3. ledgers' = ledgers \/ lock = p
  BY DEF PInv, PLockHeld
<1> QED BY <1>1, <1>2, <1>3

LEMMA PruneStepTypes ==
  ASSUME PInv, NEW p \in Pruner, PruneStep(p)
  PROVE  PTypes'
<1> USE DEF PInv, PTypes, Types
<1>1. CASE Survey(p)
  <2>1. {<<n, mtime[n]>> : n \in recs} \in SUBSET (Record \X Nat)
    OBVIOUS
  <2> QED BY <1>1, <2>1 DEF Survey
<1>2. CASE SurveyFails(p)
  BY <1>2 DEF SurveyFails
<1>3. CASE Busy(p) \/ EndPrune(p)
  BY <1>3 DEF Busy, EndPrune, vars
<1>4. CASE CrashPrune(p)
  BY <1>4 DEF CrashPrune
<1>5. CASE EndSurvey(p)
  <2>1. {c \in ledgers : Referenced(p, c)} \in SUBSET Coord
    OBVIOUS
  <2> QED BY <1>5, <2>1 DEF EndSurvey
<1>6. ASSUME NEW c \in Coord, DropLedger(p, c) PROVE PTypes'
  BY <1>6 DEF DropLedger, pvars
<1>7. CASE EvictLedger(p)
  <2>1. ledgers' \subseteq Coord /\ owned' \in [Pruner -> SUBSET Coord]
    BY <1>7 DEF EvictLedger
  <2>2. victim' \in [Pruner -> SUBSET Record]
    BY <1>7 DEF EvictLedger
  <2> QED BY <1>7, <2>1, <2>2 DEF EvictLedger
<1>8. ASSUME NEW c \in candidates[p], EvictCandidate(p, c[1], c[2]) PROVE PTypes'
  <2>1. c[1] \in Record
    OBVIOUS
  <2>2. recs' \subseteq Record /\ mtime' \in [Record -> Nat]
    BY <1>8, <2>1 DEF EvictCandidate, Unlink
  <2>3. /\ candidates' \in [Pruner -> SUBSET (Record \X Nat)]
        /\ refsBy' \in [Pruner -> SUBSET Record] /\ victim' \in [Pruner -> SUBSET Record]
    BY <1>8, <2>1 DEF EvictCandidate
  <2> QED BY <1>8, <2>2, <2>3 DEF EvictCandidate
<1>9. ASSUME NEW c \in candidates[p], EvictRefused(p, c[1], c[2]) PROVE PTypes'
  <2>1. candidates' \in [Pruner -> SUBSET (Record \X Nat)] /\ faults' \in Nat
    BY <1>9 DEF EvictRefused
  <2> QED BY <1>9, <2>1 DEF EvictRefused
<1> QED BY <1>1, <1>2, <1>3, <1>4, <1>5, <1>6, <1>7, <1>8, <1>9 DEF PruneStep

LEMMA PruneStepLock ==
  ASSUME PInv, NEW p \in Pruner, PruneStep(p)
  PROVE  PLockHeld'
<1>1. pc' = pc
  BY PruneStepFrame
<1>2. /\ \A q \in Pruner \ {p} : ppc'[q] = ppc[q]
      /\ ppc'[p] \in {"survey", "evict"} <=> lock' = p
      /\ lock' = lock \/ (lock = Nobody /\ lock' = p) \/ (lock = p /\ lock' = Nobody)
  BY PrunersApart
     DEF PruneStep, Survey, SurveyFails, Busy, EndSurvey, EvictLedger, EndPrune, CrashPrune,
         DropLedger, EvictCandidate, EvictRefused, pvars, vars, PInv, PTypes, PLockHeld
<1>3. LockHeld'
  BY <1>1, <1>2, PrunersApart, ActorsDistinct DEF PInv, PLockHeld, LockHeld
<1> QED BY <1>2, <1>3, PrunersApart DEF PInv, PLockHeld

LEMMA PruneStepCounts ==
  ASSUME PInv, NEW p \in Pruner, PruneStep(p)
  PROVE  Counted'
<1>0. /\ recs' \subseteq recs /\ missed \subseteq missed' /\ since' = since
      /\ \A q \in Pruner \ {p} : ppc'[q] = ppc[q] /\ refsBy'[q] = refsBy[q]
  <2>1. \A q \in Pruner \ {p} : ppc'[q] = ppc[q] /\ refsBy'[q] = refsBy[q]
    BY DEF PruneStep, Survey, SurveyFails, Busy, EndSurvey, EvictLedger, EndPrune, CrashPrune,
           DropLedger, EvictCandidate, EvictRefused, pvars, vars, PInv, PTypes
  <2> QED BY <2>1, PruneStepFrame
<1> SUFFICES ASSUME ppc'[p] \in {"survey", "pass2", "evict"}
             PROVE  recs' \ missed' \subseteq refsBy'[p] \cup since[p]
  BY <1>0 DEF PInv, Counted
<1>1. CASE Survey(p) \/ SurveyFails(p)
  BY <1>1 DEF Survey, SurveyFails, PInv, PTypes
<1>2. ASSUME NEW c \in candidates[p], EvictCandidate(p, c[1], c[2])
      PROVE  recs' \ missed' \subseteq refsBy'[p] \cup since[p]
  BY <1>0, <1>2 DEF EvictCandidate, Unlink, PInv, PTypes, Counted
<1>3. CASE \/ EndSurvey(p) \/ EvictLedger(p)
           \/ \E c \in Coord : DropLedger(p, c)
           \/ \E c \in candidates[p] : EvictRefused(p, c[1], c[2])
  BY <1>0, <1>3
     DEF EndSurvey, EvictLedger, DropLedger, EvictRefused, pvars, PInv, PTypes, Counted
<1>4. CASE Busy(p) \/ EndPrune(p) \/ CrashPrune(p)
  BY <1>4 DEF Busy, EndPrune, CrashPrune, PInv, PTypes
<1> QED BY <1>1, <1>2, <1>3, <1>4 DEF PruneStep

\* A ledger goes when no record counted refers to it.
LEMMA PruneStepLedgers ==
  ASSUME PInv, NEW p \in Pruner, PruneStep(p), NEW c \in ledgers \ ledgers'
  PROVE  ppc[p] \in {"survey", "evict"} /\ ~Referenced(p, c)
<1>1. CASE EvictLedger(p)
  BY <1>1 DEF EvictLedger
<1>2. CASE \E d \in Coord : DropLedger(p, d)
  BY <1>2 DEF DropLedger
<1>3. CASE \/ Survey(p) \/ SurveyFails(p) \/ Busy(p) \/ EndSurvey(p) \/ EndPrune(p)
           \/ CrashPrune(p)
           \/ \E d \in candidates[p] : EvictCandidate(p, d[1], d[2]) \/ EvictRefused(p, d[1], d[2])
  BY <1>3
     DEF Survey, SurveyFails, Busy, EndSurvey, EndPrune, CrashPrune, EvictCandidate,
         EvictRefused, vars
<1> QED BY <1>1, <1>2, <1>3 DEF PruneStep

LEMMA PruneStepKeeps ==
  ASSUME PInv, NEW p \in Pruner, PruneStep(p)
  PROVE  PInv'
<1>0. /\ UNCHANGED <<pc, job, todo, refs, backed, since>>
      /\ recs' \subseteq recs /\ missed \subseteq missed' /\ ledgers' \subseteq ledgers
      /\ ledgers' = ledgers \/ lock = p
      /\ PTypes'
  BY PruneStepFrame, PruneStepTypes
<1>1. LedgerReady'
  <2>1. CASE ledgers' = ledgers
    BY <1>0, <2>1 DEF PInv, LedgerReady
  <2>2. CASE lock = p
    <3>1. \A i \in Installer : pc[i] # "record"
      BY <2>2, PrunersApart DEF PInv, PLockHeld, LockHeld, Locked, Actor
    <3> QED BY <1>0, <3>1 DEF LedgerReady
  <2> QED BY <1>0, <2>1, <2>2
<1>2. Seen'
  BY <1>0, SeenKept DEF PInv
<1>3. PruneKeepsCountedLedgers'
  <2> SUFFICES ASSUME NEW n \in ((recs \cap backed) \ missed)', \A q \in Pruner : n \notin since[q]
               PROVE  CoordOf[n] \in ledgers'
    BY <1>0 DEF PruneKeepsCountedLedgers
  <2>1. n \in recs \ missed /\ n \in Record /\ CoordOf[n] \in ledgers
    BY <1>0 DEF PInv, PTypes, Types, PruneKeepsCountedLedgers
  <2>2. ppc[p] \in {"survey", "evict"} => n \in refsBy[p]
    BY <2>1 DEF PInv, Counted
  <2> QED BY <2>1, <2>2, PruneStepLedgers DEF Referenced
<1> QED BY <1>0, <1>1, <1>2, <1>3, PruneStepLock, PruneStepCounts DEF PInv

LEMMA NextPInv == PInv /\ [PNext]_allvars => PInv'
<1> SUFFICES ASSUME PInv, [PNext]_allvars PROVE PInv'
  OBVIOUS
<1>1. CASE UNCHANGED allvars
  BY <1>1
     DEF allvars, vars, pvars, PInv, PTypes, PLockHeld, Counted, PruneKeepsCountedLedgers, Types,
         LockHeld, LedgerReady, Seen
<1> QED BY <1>1, StoreStepKeeps, PruneStepKeeps DEF PNext

-----------------------------------------------------------------------------

\* The invariant of pruning beside the store's own operations, for any number
\* of pruners, installs, loads, collections and faults.
THEOREM PruneInvariant == PSpec => []PInv
BY InitPInv, NextPInv, PTL DEF PSpec

\* Pruning takes a live record's ledger only from records published after the
\* pruner counted references (retention.go PruneKind, witnesscache.go
\* PruneGlobal).
THEOREM CountedLedgersKept == PSpec => []PruneKeepsCountedLedgers
<1>1. PInv => PruneKeepsCountedLedgers
  BY DEF PInv
<1> QED BY <1>1, PruneInvariant, PTL
=============================================================================
