------------------------------ MODULE StorePrune ------------------------------
(***************************************************************************)
(* Global cache pruning (recordstore.PruneKind with witnesscache's         *)
(* PruneGlobal hook) against one live witness store while installs, loads  *)
(* and collections go on in it.  Pass 1 takes the store's lock once,       *)
(* lists the record files as eviction candidates, counts each ledger's     *)
(* references and removes the unreferenced ledgers.  Pass 2 takes the lock *)
(* again for each candidate, oldest first, removes the record and, when    *)
(* its count from pass 1 falls to zero, the ledger.                        *)
(*                                                                         *)
(* Files are of one size; the byte ceiling is met after any number of      *)
(* evictions; without a ceiling there are none.  The previewing dry run    *)
(* removes nothing and is left out.                                        *)
(***************************************************************************)
EXTENDS WitnessStore

CONSTANTS
  Pruner         \* prune calls

ASSUME PrunersDistinct == Pruner \cap (Actor \cup {Nobody}) = {}

VARIABLES
  ppc,         \* ppc[p]: the pruner's phase
  candidates,  \* candidates[p]: record files listed in pass 1, with their mtime
  refsBy,      \* refsBy[p]: records of pass 1 still counted as referring
  owned,       \* owned[p]: ledgers of pass 1 the pruner may remove
  victim,      \* victim[p]: the record whose ledger is being judged
  since        \* history: since[p]: records installed after p's pass 1

pvars == <<ppc, candidates, refsBy, owned, victim, since>>
allvars == <<vars, pvars>>

PInit ==
  /\ Init
  /\ ppc = [p \in Pruner |-> "idle"]
  /\ candidates = [p \in Pruner |-> {}]
  /\ refsBy = [p \in Pruner |-> {}]
  /\ owned = [p \in Pruner |-> {}]
  /\ victim = [p \in Pruner |-> {}]
  /\ since = [p \in Pruner |-> {}]

\* Pass 1 begins when TryLock succeeds; a contended store is counted busy.
Survey(p) ==
  /\ ppc[p] = "idle" /\ lock = Nobody
  /\ lock' = p
  /\ candidates' = [candidates EXCEPT ![p] = {<<n, mtime[n]>> : n \in recs}]
  /\ refsBy' = [refsBy EXCEPT ![p] = recs]
  /\ ppc' = [ppc EXCEPT ![p] = "survey"]
  /\ UNCHANGED <<recs, mtime, clock, ledgers, pc, job, todo, refs, young,
                 backed, missed, over, faults, owned, victim, since>>

\* Pass 1 cannot list the store: there are no candidates, and no references to
\* keep a ledger for (both listings' errors are dropped).
SurveyFails(p) ==
  /\ ppc[p] = "idle" /\ lock = Nobody /\ faults < MaxFaults
  /\ lock' = p
  /\ faults' = faults + 1
  /\ missed' = missed \cup recs
  /\ ppc' = [ppc EXCEPT ![p] = "survey"]
  /\ UNCHANGED <<recs, mtime, clock, ledgers, pc, job, todo, refs, young,
                 backed, over, candidates, refsBy, owned, victim, since>>

Busy(p) ==
  /\ ppc[p] \in {"idle", "pass2"} /\ lock # Nobody
  /\ ppc' = [ppc EXCEPT ![p] = "done"]
  /\ UNCHANGED <<vars, candidates, refsBy, owned, victim, since>>

Referenced(p, c) == \E n \in refsBy[p] : CoordOf[n] = c

\* Pass 1: a ledger no surveyed record refers to goes, whatever its age.
DropLedger(p, c) ==
  /\ ppc[p] = "survey" /\ c \in ledgers /\ ~Referenced(p, c)
  /\ ledgers' = ledgers \ {c}
  /\ UNCHANGED <<recs, mtime, clock, lock, pc, job, todo, refs, young, backed,
                 missed, over, faults, pvars>>

\* Pass 1 ends: the lock is released, the counts are kept (and a ledger whose
\* removal was refused).
EndSurvey(p) ==
  /\ ppc[p] = "survey"
  /\ lock' = Nobody
  /\ owned' = [owned EXCEPT ![p] = {c \in ledgers : Referenced(p, c)}]
  /\ ppc' = [ppc EXCEPT ![p] = "pass2"]
  /\ UNCHANGED <<recs, mtime, clock, ledgers, pc, job, todo, refs, young,
                 backed, missed, over, faults, candidates, refsBy, victim,
                 since>>

\* Pass 2, one candidate under the lock: the file of that name goes, the one
\* installed since included (a name already gone counts as removed).
EvictCandidate(p, n, t) ==
  /\ ppc[p] = "pass2" /\ <<n, t>> \in candidates[p] /\ lock = Nobody
  /\ \A c \in candidates[p] : t <= c[2]
  /\ lock' = p
  /\ Unlink(n)
  /\ candidates' = [candidates EXCEPT ![p] = @ \ {<<n, t>>}]
  /\ refsBy' = [refsBy EXCEPT ![p] = @ \ {n}]
  /\ victim' = [victim EXCEPT ![p] = {n}]
  /\ ppc' = [ppc EXCEPT ![p] = "evict"]
  /\ UNCHANGED <<clock, ledgers, pc, job, todo, refs, young, backed, missed,
                 over, faults, owned, since>>

\* The candidate's removal is refused: it is passed over, its references stay.
EvictRefused(p, n, t) ==
  /\ ppc[p] = "pass2" /\ <<n, t>> \in candidates[p] /\ lock = Nobody
  /\ \A c \in candidates[p] : t <= c[2]
  /\ faults < MaxFaults
  /\ faults' = faults + 1
  /\ candidates' = [candidates EXCEPT ![p] = @ \ {<<n, t>>}]
  /\ UNCHANGED <<recs, mtime, clock, ledgers, lock, pc, job, todo, refs, young,
                 backed, missed, over, ppc, refsBy, owned, victim, since>>

\* Mutant of EvictLedger: the counts are not asked.
EvictLedger_Uncounted(p) ==
  /\ ppc[p] = "evict"
  /\ ledgers' = ledgers \ {CoordOf[n] : n \in victim[p]}
  /\ lock' = Nobody
  /\ victim' = [victim EXCEPT ![p] = {}]
  /\ ppc' = [ppc EXCEPT ![p] = "pass2"]
  /\ UNCHANGED <<recs, mtime, clock, pc, job, todo, refs, young, backed,
                 missed, over, faults, candidates, refsBy, owned, since>>

\* The hook: the victim's ledger goes when the count says it was the last.
EvictLedger(p) ==
  /\ ppc[p] = "evict"
  /\ LET last == {CoordOf[n] : n \in {m \in victim[p] : ~Referenced(p, CoordOf[m])}}
                   \cap owned[p] IN
       /\ ledgers' = ledgers \ last
       /\ owned' = [owned EXCEPT ![p] = @ \ last]
  /\ lock' = Nobody
  /\ victim' = [victim EXCEPT ![p] = {}]
  /\ ppc' = [ppc EXCEPT ![p] = "pass2"]
  /\ UNCHANGED <<recs, mtime, clock, pc, job, todo, refs, young, backed,
                 missed, over, faults, candidates, refsBy, since>>

\* The ceiling is met, the candidates are spent, or the context is done.
EndPrune(p) ==
  /\ ppc[p] = "pass2"
  /\ ppc' = [ppc EXCEPT ![p] = "done"]
  /\ UNCHANGED <<vars, candidates, refsBy, owned, victim, since>>

\* The process exits, or its context is done, with the lock in hand.
CrashPrune(p) ==
  /\ ppc[p] \in {"survey", "evict"}
  /\ lock' = Nobody
  /\ ppc' = [ppc EXCEPT ![p] = "done"]
  /\ UNCHANGED <<recs, mtime, clock, ledgers, pc, job, todo, refs, young,
                 backed, missed, over, faults, candidates, refsBy, owned,
                 victim, since>>

PruneStep(p) ==
  \/ Survey(p) \/ SurveyFails(p) \/ Busy(p) \/ EndSurvey(p) \/ EvictLedger(p)
  \/ EndPrune(p) \/ CrashPrune(p)
  \/ \E c \in Coord : DropLedger(p, c)
  \/ \E c \in candidates[p] : EvictCandidate(p, c[1], c[2]) \/ EvictRefused(p, c[1], c[2])

\* A step of the store's own operations; installs show in "since".
StoreStep ==
  /\ Next
  /\ since' = [p \in Pruner |->
                 IF ppc[p] \in {"pass2", "evict"}
                 THEN since[p] \cup {job[i].rec : i \in {j \in Installer :
                                       pc[j] = "record" /\ pc'[j] = "scan"}}
                 ELSE since[p]]
  /\ UNCHANGED <<ppc, candidates, refsBy, owned, victim>>

PNext == StoreStep \/ \E p \in Pruner : PruneStep(p)

PSpec == PInit /\ [][PNext]_allvars

-----------------------------------------------------------------------------

\* Pruning takes a live record's ledger only from records published after the
\* pruner counted references; every other record still finds its ledger.
PruneKeepsCountedLedgers ==
  \A n \in (recs \cap backed) \ missed :
    CoordOf[n] \in ledgers \/ \E p \in Pruner : n \in since[p]
-----------------------------------------------------------------------------
(* The inductive invariant behind it. *)

PTypes ==
  /\ Types
  /\ ppc \in [Pruner -> {"idle", "survey", "pass2", "evict", "done"}]
  /\ candidates \in [Pruner -> SUBSET (Record \X Nat)]
  /\ refsBy \in [Pruner -> SUBSET Record]
  /\ owned \in [Pruner -> SUBSET Coord]
  /\ victim \in [Pruner -> SUBSET Record]
  /\ since \in [Pruner -> SUBSET Record]

\* The store's lock excludes pruners as it does the store's own operations.
PLockHeld == LockHeld /\ \A p \in Pruner : ppc[p] \in {"survey", "evict"} <=> lock = p

\* A pruner at work counts every record it may judge a ledger by, but those
\* published since.
Counted ==
  \A p \in Pruner : ppc[p] \in {"survey", "pass2", "evict"} =>
    recs \ missed \subseteq refsBy[p] \cup since[p]

PInv == PTypes /\ PLockHeld /\ LedgerReady /\ Seen /\ Counted /\ PruneKeepsCountedLedgers
=============================================================================
