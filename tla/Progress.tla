------------------------------- MODULE Progress -------------------------------
(***************************************************************************)
(* One served operation and its progress seam: internal/progress, the sink *)
(* and the terminal error of internal/mcpserver/progress.go, and the       *)
(* callers in golang/execute.go, derive.go and witnessrun.go.              *)
(*                                                                         *)
(* The operation is a selective witness run.  Its packages ("units") run   *)
(* concurrently under their invocations; each installs its records, names  *)
(* them on the reporter, counts itself done and reports the count.  The    *)
(* main goroutine enters the phases, joins the units, revalidates group by *)
(* group, and seals the reporter with the ending.  The context may end at  *)
(* any moment.  The sink is a bounded buffer beside a reserved slot for    *)
(* the ending, drained by one sender goroutine toward a consumer that may  *)
(* stall for ever.                                                         *)
(***************************************************************************)
EXTENDS Naturals, Sequences, FiniteSets

CONSTANTS
  Inv,          \* the invocations
  Unit,         \* the packages the run executes
  InvOf,        \* the covering invocation of each package
  Groups,       \* how many groups the verification pass finishes
  SinkBuffer,   \* capacity of the sink's buffer
  MaxTicks,     \* bound: how often the reporter's interval elapses
  None          \* no invocation, no event

Phases == <<"startup", "compile", "execution", "verification">>
Phase == {Phases[i] : i \in DOMAIN Phases}
Rank(p) == CHOOSE i \in DOMAIN Phases : Phases[i] = p

Causes == {"completed", "cancelled", "deadline", "failure"}
NoCause == "unspecified"

\* The entry the verification pass records for all its groups.
Revalidation == "revalidation"
Name == Unit \cup {Revalidation}

Event == [n : Nat, phase : Phase, inv : Inv \cup {None}, count : Nat,
          cause : Causes \cup {NoCause}, kept : SUBSET Name]

ASSUME ProgressAssumption ==
  /\ InvOf \in [Unit -> Inv]
  /\ Groups \in Nat
  /\ SinkBuffer \in Nat \ {0}
  /\ MaxTicks \in Nat
  /\ None \notin Inv
  /\ Revalidation \notin Unit
  /\ None \notin Event

VARIABLES
  \* the operation
  ctx,          \* "live", "cancelled" or "deadline"
  main,         \* where the main goroutine is
  unit,         \* where each package's goroutine is
  counted,      \* pkgsDone: packages of the invocation counted so far
  mine,         \* the count a package drew
  finished,     \* groups finished by the verification pass
  revalidated,  \* the pass has landed records it has not named yet
  onDisk,       \* what has installed records
  \* the reporter
  phase,
  at,           \* the invocation and count the next event carries
  maxDone,      \* highest count recorded per invocation in this phase
  kept,         \* the units recorded as persisted
  sealed,       \* done: the ending has been emitted
  recent,       \* the last emission is younger than the interval
  ticks,        \* intervals elapsed, a bound
  offered,      \* events emitted, their numbering
  \* the sink, its sender and the consumer
  buffer,
  slot,         \* the reserved place of the ending
  hand,         \* the event the sender is sending
  last,         \* the ending, taken by the sender while a backlog remains
  stalled,      \* the consumer takes nothing any more
  delivered,    \* number of the latest event the consumer took
  shown,        \* highest count the consumer saw per invocation in `tracked`
  tracked,      \* the consumer's PhaseTracker
  shownEnd      \* the ending as the consumer saw it

opVars   == <<ctx, main, unit, counted, mine, finished, revalidated, onDisk>>
repVars  == <<phase, at, maxDone, kept, sealed, recent, ticks, offered>>
sinkVars == <<buffer, slot>>
sendVars == <<hand, last, stalled, delivered, shown, tracked, shownEnd>>
vars == <<opVars, repVars, sinkVars, sendVars>>

Total(i) == Cardinality({u \in Unit : InvOf[u] = i})
NoWhere == [inv |-> None, count |-> 0]

Init ==
  /\ ctx = "live"
  /\ main = "startup"
  /\ unit = [u \in Unit |-> "waiting"]
  /\ counted = [i \in Inv |-> 0]
  /\ mine = [u \in Unit |-> 0]
  /\ finished = 0
  /\ revalidated = FALSE
  /\ onDisk = {}
  /\ phase = "startup"
  /\ at = NoWhere
  /\ maxDone = [i \in Inv |-> 0]
  /\ kept = {}
  /\ sealed = FALSE
  /\ recent = FALSE
  /\ ticks = 0
  /\ offered = 0
  /\ buffer = <<>>
  /\ slot = None
  /\ hand = None
  /\ last = None
  /\ stalled = FALSE
  /\ delivered = 0
  /\ shown = [i \in Inv |-> 0]
  /\ tracked = "startup"
  /\ shownEnd = None

-----------------------------------------------------------------------------
(***************************************************************************)
(* The reporter.  Every method runs under its lock, the sink's part        *)
(* included: the sink takes the event or drops it, and never waits.        *)
(***************************************************************************)

\* Mutants of Send: the ending has no place of its own; a full buffer makes the
\* reporter wait.
Send_Shared(e) ==
  /\ buffer' = IF Len(buffer) < SinkBuffer THEN Append(buffer, e) ELSE buffer
  /\ UNCHANGED slot
Send_Blocking(e) ==
  IF e.cause # NoCause
  THEN slot' = e /\ UNCHANGED buffer
  ELSE Len(buffer) < SinkBuffer /\ buffer' = Append(buffer, e) /\ UNCHANGED slot

\* The sink NonBlocking returns.
Send(e) ==
  IF e.cause # NoCause
  THEN /\ slot' = IF slot = None THEN e ELSE slot
       /\ UNCHANGED buffer
  ELSE /\ buffer' = IF Len(buffer) < SinkBuffer THEN Append(buffer, e) ELSE buffer
       /\ UNCHANGED slot

\* emitLocked: an event of phase p at w, the ending when c is a cause.
Emit(p, w, c) ==
  /\ offered' = offered + 1
  /\ recent' = TRUE
  /\ Send([n |-> offered + 1, phase |-> p, inv |-> w.inv, count |-> w.count, cause |-> c,
           kept |-> IF c = NoCause THEN {} ELSE kept])

NoEmission == UNCHANGED <<offered, recent, sinkVars>>

EnterPhase(p) ==
  IF sealed \/ phase = p
  THEN NoEmission /\ UNCHANGED <<phase, at, maxDone>>
  ELSE /\ phase' = p
       /\ at' = NoWhere
       /\ maxDone' = [i \in Inv |-> 0]
       /\ Emit(p, NoWhere, NoCause)

\* Mutant of ReportStep: late counts are not suppressed.
ReportStep_Late(i, count, total) ==
  /\ maxDone' = [maxDone EXCEPT ![i] = count]
  /\ at' = [inv |-> i, count |-> count]
  /\ IF count >= total \/ ~recent
     THEN Emit(phase, [inv |-> i, count |-> count], NoCause)
     ELSE NoEmission

\* A count not above the recorded one arrived late and is dropped; the last
\* unit always emits, the others only outside the interval.
ReportStep(i, count, total) ==
  IF sealed \/ count <= maxDone[i]
  THEN NoEmission /\ UNCHANGED <<at, maxDone>>
  ELSE /\ maxDone' = [maxDone EXCEPT ![i] = count]
       /\ at' = [inv |-> i, count |-> count]
       /\ IF count >= total \/ ~recent
          THEN Emit(phase, [inv |-> i, count |-> count], NoCause)
          ELSE NoEmission

RecordPersisted(name) ==
  IF sealed
  THEN NoEmission /\ UNCHANGED kept
  ELSE /\ kept' = kept \cup {name}
       /\ Emit(phase, at, NoCause)

SealWith(cause) ==
  IF sealed
  THEN NoEmission /\ UNCHANGED sealed
  ELSE /\ sealed' = TRUE
       /\ Emit(phase, at, cause)

\* The engine's callback while the run analyses.
Keepalive ==
  /\ main \notin {"judged", "failed", "returned"}
  /\ ~sealed /\ ~recent
  /\ Emit(phase, at, NoCause)
  /\ UNCHANGED <<opVars, phase, at, maxDone, kept, sealed, ticks, sendVars>>

\* The reporter's interval elapses.
Tick ==
  /\ recent
  /\ ticks < MaxTicks
  /\ ticks' = ticks + 1
  /\ recent' = FALSE
  /\ UNCHANGED <<opVars, phase, at, maxDone, kept, sealed, offered, sinkVars, sendVars>>

-----------------------------------------------------------------------------
(***************************************************************************)
(* The operation.                                                          *)
(***************************************************************************)

\* The client cancels, or the deadline passes.
EndContext ==
  /\ ctx = "live"
  /\ main # "returned"
  /\ ctx' \in {"cancelled", "deadline"}
  /\ UNCHANGED <<main, unit, counted, mine, finished, revalidated, onDisk, repVars, sinkVars, sendVars>>

Compile ==
  /\ main = "startup"
  /\ main' = "compile"
  /\ EnterPhase("compile")
  /\ UNCHANGED <<ctx, unit, counted, mine, finished, revalidated, onDisk, kept, sealed, ticks,
                 sendVars>>

\* The invocations' packages are dispatched.
Execute ==
  /\ main = "compile"
  /\ ctx = "live"
  /\ main' = "execution"
  /\ unit' = [u \in Unit |-> "running"]
  /\ EnterPhase("execution")
  /\ UNCHANGED <<ctx, counted, mine, finished, revalidated, onDisk, kept, sealed, ticks,
                 sendVars>>

\* A package's completion hook: the records that landed are named before
\* anything else happens, whatever became of the context meanwhile.
Install(u) ==
  /\ unit[u] = "running"
  /\ ctx = "live"
  /\ unit' = [unit EXCEPT ![u] = "landed"]
  /\ onDisk' = onDisk \cup {u}
  /\ UNCHANGED <<ctx, main, counted, mine, finished, revalidated, repVars, sinkVars, sendVars>>

NameUnit(u) ==
  /\ unit[u] = "landed"
  /\ unit' = [unit EXCEPT ![u] = "ran"]
  /\ RecordPersisted(u)
  /\ UNCHANGED <<ctx, main, counted, mine, finished, revalidated, onDisk, phase, at, maxDone,
                 sealed, ticks, sendVars>>

\* A package that lands nothing: never admitted, denied, or cut short.
LandNothing(u) ==
  /\ unit[u] = "running"
  /\ unit' = [unit EXCEPT ![u] = "ran"]
  /\ UNCHANGED <<ctx, main, counted, mine, finished, revalidated, onDisk, repVars, sinkVars, sendVars>>

\* The deferred report draws the count ...
Count(u) ==
  /\ unit[u] = "ran"
  /\ unit' = [unit EXCEPT ![u] = "counted"]
  /\ counted' = [counted EXCEPT ![InvOf[u]] = @ + 1]
  /\ mine' = [mine EXCEPT ![u] = counted[InvOf[u]] + 1]
  /\ UNCHANGED <<ctx, main, finished, revalidated, onDisk, repVars, sinkVars, sendVars>>

\* ... and then races its siblings to the reporter's lock.
Report(u) ==
  /\ unit[u] = "counted"
  /\ unit' = [unit EXCEPT ![u] = "over"]
  /\ ReportStep(InvOf[u], mine[u], Total(InvOf[u]))
  /\ UNCHANGED <<ctx, main, counted, mine, finished, revalidated, onDisk, phase, kept, sealed,
                 ticks, sendVars>>

\* Mutant of Joined: the run returns without waiting for its packages.
Joined_Early == TRUE
Joined == \A u \in Unit : unit[u] \in {"waiting", "over"}

Verify ==
  /\ main = "execution"
  /\ Joined
  /\ ctx = "live"
  /\ main' = "verification"
  /\ EnterPhase("verification")
  /\ UNCHANGED <<ctx, unit, counted, mine, finished, revalidated, onDisk, kept, sealed, ticks,
                 sendVars>>

\* One group's served records revalidate against the finished tree ...
RevalidateGroup ==
  /\ main = "verification"
  /\ finished < Groups
  /\ ctx = "live"
  /\ main' = "installing"
  /\ UNCHANGED <<ctx, unit, counted, mine, finished, revalidated, onDisk, repVars, sinkVars, sendVars>>

\* ... and some may land.  The pass names what landed once, after its last
\* group, or when the context's end cuts an install short.
InstallGroup ==
  /\ main = "installing"
  /\ finished' = finished + 1
  /\ \E lands \in BOOLEAN :
       /\ revalidated' = (revalidated \/ lands)
       /\ onDisk' = IF lands THEN onDisk \cup {Revalidation} ELSE onDisk
       /\ IF ctx # "live" /\ revalidated'
          THEN RecordPersisted(Revalidation)
          ELSE NoEmission /\ UNCHANGED kept
  /\ main' = IF ctx = "live" THEN "verification" ELSE "failed"
  /\ UNCHANGED <<ctx, unit, counted, mine, phase, at, maxDone, sealed, ticks, sendVars>>

NameRevalidation ==
  /\ main = "verification"
  /\ finished = Groups
  /\ main' = "judged"
  /\ IF revalidated
     THEN RecordPersisted(Revalidation)
     ELSE NoEmission /\ UNCHANGED kept
  /\ UNCHANGED <<ctx, unit, counted, mine, finished, revalidated, onDisk, phase, at, maxDone,
                 sealed, ticks, sendVars>>

\* The context's end surfaces as the error of whatever step met it, after
\* the packages have been joined.
Abandon ==
  /\ main \in {"compile", "execution", "verification", "judged"}
  /\ main = "verification" => finished < Groups
  /\ Joined
  /\ ctx # "live"
  /\ main' = "failed"
  /\ UNCHANGED <<ctx, unit, counted, mine, finished, revalidated, onDisk, repVars, sinkVars, sendVars>>

\* An operational fault of the operation's own.
Fault ==
  /\ main \in {"compile", "execution"}
  /\ Joined
  /\ main' = "failed"
  /\ UNCHANGED <<ctx, unit, counted, mine, finished, revalidated, onDisk, repVars, sinkVars, sendVars>>

\* terminalToolError names the context's end before any other cause.
EndingCause ==
  IF main = "judged" THEN "completed"
  ELSE IF ctx # "live" THEN ctx ELSE "failure"

Return ==
  /\ main \in {"judged", "failed"}
  /\ main' = "returned"
  /\ SealWith(EndingCause)
  /\ UNCHANGED <<ctx, unit, counted, mine, finished, revalidated, onDisk, phase, at, maxDone, kept,
                 ticks, sendVars>>

-----------------------------------------------------------------------------
(***************************************************************************)
(* The sender goroutine and the consumer.                                  *)
(***************************************************************************)

\* The select picks a buffered event, the ending, or either.
TakeEvent ==
  /\ hand = None /\ buffer # <<>>
  /\ hand' = Head(buffer)
  /\ buffer' = Tail(buffer)
  /\ UNCHANGED <<opVars, repVars, slot, last, stalled, delivered, shown, tracked, shownEnd>>

TakeEnding ==
  /\ hand = None /\ last = None /\ slot # None
  /\ last' = slot
  /\ slot' = None
  /\ UNCHANGED <<opVars, repVars, buffer, hand, stalled, delivered, shown, tracked, shownEnd>>

\* Mutant of SendEnding: it overtakes the backlog.
SendEnding_First ==
  /\ hand = None /\ last # None
  /\ hand' = last
  /\ last' = None
  /\ UNCHANGED <<opVars, repVars, sinkVars, stalled, delivered, shown, tracked, shownEnd>>

\* The backlog is drained: the ending goes out last.
SendEnding ==
  /\ hand = None /\ last # None /\ buffer = <<>>
  /\ hand' = last
  /\ last' = None
  /\ UNCHANGED <<opVars, repVars, sinkVars, stalled, delivered, shown, tracked, shownEnd>>

\* The consumer takes the event in hand: a transition it has not seen last
\* changes its tracker, and the ending ends the sender.
Accept ==
  /\ hand # None
  /\ ~stalled
  /\ hand' = None
  /\ delivered' = hand.n
  /\ tracked' = hand.phase
  /\ shown' = [i \in Inv |-> IF hand.inv = i THEN hand.count
                             ELSE IF tracked = hand.phase THEN shown[i] ELSE 0]
  /\ shownEnd' = IF hand.cause # NoCause THEN hand ELSE shownEnd
  /\ UNCHANGED <<opVars, repVars, sinkVars, last, stalled>>

Stall ==
  /\ ~stalled
  /\ stalled' = TRUE
  /\ UNCHANGED <<opVars, repVars, sinkVars, hand, last, delivered, shown, tracked, shownEnd>>

Operation ==
  \/ Compile \/ Execute \/ Verify \/ RevalidateGroup \/ InstallGroup \/ NameRevalidation \/ Abandon \/ Return
  \/ \E u \in Unit : Install(u) \/ NameUnit(u) \/ LandNothing(u) \/ Count(u) \/ Report(u)

Sender == TakeEvent \/ TakeEnding \/ SendEnding

Next == Operation \/ Fault \/ EndContext \/ Keepalive \/ Tick \/ Sender \/ Accept \/ Stall

Spec == Init /\ [][Next]_vars

\* Goroutines run; the consumer takes what it is sent until it stalls.  The
\* clock, the context and the engine's callback owe nothing.
FairSpec == Spec /\ WF_vars(Operation) /\ WF_vars(Sender) /\ WF_vars(Accept)

-----------------------------------------------------------------------------
(***************************************************************************)
(* Properties.                                                             *)
(***************************************************************************)
OperationOK ==
  /\ ctx \in {"live", "cancelled", "deadline"}
  /\ main \in {"startup", "compile", "execution", "verification", "installing", "judged",
               "failed", "returned"}
  /\ unit \in [Unit -> {"waiting", "running", "landed", "ran", "counted", "over"}]
  /\ counted \in [Inv -> Nat] /\ mine \in [Unit -> Nat]
  /\ finished \in 0..Groups /\ revalidated \in BOOLEAN
  /\ onDisk \subseteq Name

ReporterOK ==
  /\ phase \in Phase /\ at \in [inv : Inv \cup {None}, count : Nat]
  /\ maxDone \in [Inv -> Nat] /\ kept \subseteq Name
  /\ sealed \in BOOLEAN /\ recent \in BOOLEAN
  /\ ticks \in 0..MaxTicks /\ offered \in Nat

SeamOK ==
  /\ buffer \in Seq(Event) /\ Len(buffer) <= SinkBuffer
  /\ slot \in Event \cup {None} /\ hand \in Event \cup {None}
  /\ last \in Event \cup {None} /\ shownEnd \in Event \cup {None}
  /\ stalled \in BOOLEAN /\ delivered \in Nat
  /\ shown \in [Inv -> Nat] /\ tracked \in Phase

\* The types of the operation, the reporter and the seam, and the buffer's bound.
TypeOK == OperationOK /\ ReporterOK /\ SeamOK

\* The seam keeps the promise of LossyFeed: whatever is in the buffer, the
\* slot or the sender's hands is on its way.
InTransit == {buffer[j] : j \in DOMAIN buffer} \cup ({slot, hand, last} \ {None})
Feed == INSTANCE LossyFeed WITH pending <- {e.n : e \in InTransit}, ended <- sealed
FeedSpec == Feed!Spec

\* The consumer sees an operation advance: within a phase no invocation's count
\* falls, and a phase once left never comes back, whatever was dropped on the
\* way and in whatever order packages reached the reporter with their counts.
DisplayAdvances ==
  [][IF tracked' = tracked THEN \A i \in Inv : shown'[i] >= shown[i]
     ELSE Rank(tracked') > Rank(tracked)]_vars

\* The ending the consumer sees names every package whose records are on
\* disk, however the run ended: a package that landed its records just as
\* the context ended is named before the ending is sealed.
EndingNamesUnits == shownEnd # None => onDisk \cap Unit \subseteq shownEnd.kept

\* A stalled consumer never costs the operation its return.
OperationReturns == <>(main = "returned")

\* A consumer that keeps taking events sees the ending.
EndingShown == <>(stalled \/ shownEnd # None)
=============================================================================
