--------------------------- MODULE ProgressProofs ---------------------------
(***************************************************************************)
(* The progress seam for any packages, invocations, buffer and groups.     *)
(* Every step of the operation is one of three things to the seam: it      *)
(* emits nothing, offers an event, or seals with the ending (Emissions).   *)
(* What the sender has taken, the buffer and the reserved slot stand in    *)
(* the order of their numbers (InLine); that order is all the refinement   *)
(* of LossyFeed needs.  The display advances because whatever is sent says *)
(* what the reporter says then, and the reporter only goes on (Advancing). *)
(***************************************************************************)
EXTENDS Progress, SequenceTheorems, TLAPS

-----------------------------------------------------------------------------
(* Types. *)

LEMMA PhaseNames == Phase = {"startup", "compile", "execution", "verification"}
<1>1. DOMAIN Phases = {1, 2, 3, 4}
  BY DEF Phases
<1> QED BY <1>1 DEF Phase, Phases

Where == [inv : Inv \cup {None}, count : Nat]

\* What the reporter says at this moment.
Says(e) == e.phase = phase /\ e.inv = at.inv /\ e.count = at.count

\* An emission sends one event, numbered next, of the reporter's new state.
Sends(c) ==
  \E e \in Event : /\ e.n = offered + 1 /\ e.cause = c /\ (c # NoCause => e.kept = kept)
                   /\ Says(e)'
                   /\ Send(e) /\ offered' = offered + 1 /\ recent' = TRUE

LEMMA EmitSends ==
  ASSUME kept \in SUBSET Name, offered \in Nat, NEW p \in Phase, NEW w \in Where,
         NEW c \in Causes \cup {NoCause}, Emit(p, w, c), phase' = p, at' = w
  PROVE  Sends(c)
<1> DEFINE k == IF c = NoCause THEN {} ELSE kept
           e == [n |-> offered + 1, phase |-> p, inv |-> w.inv, count |-> w.count, cause |-> c,
                 kept |-> k]
<1>1. k \in SUBSET Name
  OBVIOUS
<1>2. offered + 1 \in Nat /\ w.inv \in Inv \cup {None} /\ w.count \in Nat
  BY DEF Where
<1>3. e \in Event
  BY <1>1, <1>2 DEF Event
<1>4. Send(e) /\ offered' = offered + 1 /\ recent' = TRUE
  BY DEF Emit
<1>5. e.n = offered + 1 /\ e.cause = c /\ (c # NoCause => e.kept = kept)
  OBVIOUS
<1>6. e.phase = p /\ e.inv = w.inv /\ e.count = w.count
  OBVIOUS
<1> HIDE DEF e
<1> QED BY <1>3, <1>4, <1>5, <1>6 DEF Sends, Says

\* What a step of the operation is to the seam.
Quiet == UNCHANGED <<offered, recent, sealed, sinkVars, sendVars>>
Offers == ~sealed /\ sealed' = sealed /\ Sends(NoCause) /\ UNCHANGED sendVars
Seals == /\ ~sealed /\ sealed' = TRUE /\ UNCHANGED <<sendVars, onDisk, unit, kept>>
         /\ main' = "returned" /\ \E c \in Causes : Sends(c)

LEMMA Emissions ==
  ASSUME OperationOK, ReporterOK, Operation \/ Fault \/ EndContext \/ Keepalive
  PROVE  Quiet \/ Offers \/ Seals
<1> USE DEF OperationOK, ReporterOK, Where
<1>1. NoWhere \in Where /\ NoCause \in Causes \cup {NoCause}
  BY DEF NoWhere
<1>2. ASSUME NEW p \in Phase, EnterPhase(p), UNCHANGED <<sealed, kept, sendVars>> PROVE Quiet \/ Offers
  BY <1>1, <1>2, EmitSends DEF EnterPhase, NoEmission, Quiet, Offers
<1>3. ASSUME NEW name \in Name, RecordPersisted(name), UNCHANGED <<sealed, phase, at, sendVars>>
      PROVE  Quiet \/ Offers
  BY <1>1, <1>3, EmitSends DEF RecordPersisted, NoEmission, Quiet, Offers
<1>4. CASE Compile \/ Execute \/ Verify
  BY <1>2, <1>4, PhaseNames DEF Compile, Execute, Verify
<1>5. CASE RevalidateGroup \/ Abandon \/ Fault \/ EndContext
  BY <1>5 DEF RevalidateGroup, Abandon, Fault, EndContext, Quiet, repVars
<1>6. CASE InstallGroup
  <2>1. UNCHANGED <<sealed, phase, at, sendVars>> /\ (RecordPersisted(Revalidation) \/ NoEmission)
    BY <1>6 DEF InstallGroup
  <2> QED BY <1>3, <2>1 DEF NoEmission, Quiet, Name
<1>7. CASE NameRevalidation
  <2>1. UNCHANGED <<sealed, phase, at, sendVars>> /\ (RecordPersisted(Revalidation) \/ NoEmission)
    BY <1>7 DEF NameRevalidation
  <2> QED BY <1>3, <2>1 DEF NoEmission, Quiet, Name
<1>8. CASE Return
  <2>1. EndingCause \in Causes
    BY DEF EndingCause, Causes
  <2>2. CASE sealed
    BY <1>8, <2>2 DEF Return, SealWith, NoEmission, Quiet
  <2>3. CASE ~sealed
    <3>1. Sends(EndingCause)
      BY <1>8, <2>1, <2>3, EmitSends DEF Return, SealWith
    <3> QED BY <1>8, <2>1, <2>3, <3>1 DEF Return, SealWith, Seals
  <2> QED BY <2>2, <2>3
<1>9. CASE Keepalive
  BY <1>1, <1>9, EmitSends DEF Keepalive, Offers
<1>10. ASSUME NEW u \in Unit, Install(u) \/ LandNothing(u) \/ Count(u) PROVE Quiet
  BY <1>10 DEF Install, LandNothing, Count, Quiet, repVars
<1>11. ASSUME NEW u \in Unit, NameUnit(u) PROVE Quiet \/ Offers
  BY <1>3, <1>11 DEF NameUnit, Name
<1>12. ASSUME NEW u \in Unit, Report(u) PROVE Quiet \/ Offers
  <2>1. mine[u] \in Nat /\ InvOf[u] \in Inv
    BY ProgressAssumption
  <2>2. [inv |-> InvOf[u], count |-> mine[u]] \in Where
    BY <2>1
  <2> QED BY <1>1, <1>12, <2>2, EmitSends DEF Report, ReportStep, NoEmission, Quiet, Offers
<1> QED
  BY <1>4, <1>5, <1>6, <1>7, <1>8, <1>9, <1>10, <1>11, <1>12 DEF Operation

\* A step that is nobody's in the operation is the sender's, the consumer's or the clock's.
LEMMA OtherSteps ==
  ASSUME Tick \/ Sender \/ Accept \/ Stall \/ UNCHANGED vars
  PROVE  UNCHANGED <<opVars, phase, at, maxDone, kept, sealed, offered>>
BY DEF Tick, Sender, TakeEvent, TakeEnding, SendEnding, Accept, Stall, vars, repVars, sinkVars, opVars

\* A group that installs has not been counted yet.
Uncounted == main = "installing" => finished < Groups

LEMMA NextOperationOK == OperationOK /\ Uncounted /\ [Next]_vars => OperationOK' /\ Uncounted'
<1> SUFFICES ASSUME OperationOK, Uncounted, [Next]_vars PROVE OperationOK' /\ Uncounted'
  OBVIOUS
<1> USE DEF OperationOK, Uncounted, Name
<1>1. CASE Compile \/ Execute \/ Verify \/ NameRevalidation \/ Return
  BY <1>1 DEF Compile, Execute, Verify, NameRevalidation, Return
<1>2. CASE RevalidateGroup
  BY <1>2 DEF RevalidateGroup
<1>3. CASE InstallGroup
  <2>1. finished < Groups
    BY <1>3 DEF InstallGroup
  <2> QED BY <1>3, <2>1, ProgressAssumption DEF InstallGroup
<1>4. CASE Abandon \/ Fault
  BY <1>4 DEF Abandon, Fault
<1>5. CASE EndContext \/ Keepalive
  BY <1>5 DEF EndContext, Keepalive, opVars
<1>6. ASSUME NEW u \in Unit, Install(u) \/ NameUnit(u) \/ LandNothing(u) \/ Report(u)
      PROVE  OperationOK' /\ Uncounted'
  BY <1>6 DEF Install, NameUnit, LandNothing, Report
<1>7. ASSUME NEW u \in Unit, Count(u) PROVE OperationOK' /\ Uncounted'
  <2>1. InvOf[u] \in Inv
    BY ProgressAssumption
  <2> QED BY <1>7, <2>1 DEF Count
<1>8. CASE Tick \/ Sender \/ Accept \/ Stall \/ UNCHANGED vars
  BY <1>8, OtherSteps DEF opVars
<1> QED
  BY <1>1, <1>2, <1>3, <1>4, <1>5, <1>6, <1>7, <1>8 DEF Next, Operation

LEMMA NextReporterOK == OperationOK /\ ReporterOK /\ [Next]_vars => ReporterOK'
<1> SUFFICES ASSUME OperationOK, ReporterOK, [Next]_vars PROVE ReporterOK'
  OBVIOUS
<1> USE DEF ReporterOK
<1>1. CASE Operation \/ Fault \/ EndContext \/ Keepalive
  <2>1. /\ offered' \in Nat /\ recent' \in BOOLEAN /\ sealed' \in BOOLEAN
    <3>1. CASE Quiet BY <3>1 DEF Quiet
    <3>2. CASE Offers BY <3>2 DEF Offers, Sends
    <3>3. CASE Seals BY <3>3 DEF Seals, Sends
    <3> QED BY <1>1, <3>1, <3>2, <3>3, Emissions
  <2>2. /\ phase' \in Phase /\ at' \in [inv : Inv \cup {None}, count : Nat]
        /\ maxDone' \in [Inv -> Nat] /\ kept' \subseteq Name /\ ticks' = ticks
    <3> USE DEF Name
    <3>1. NoWhere \in [inv : Inv \cup {None}, count : Nat]
      BY DEF NoWhere
    <3>2. CASE Compile \/ Execute \/ Verify
      BY <3>1, <3>2, PhaseNames DEF Compile, Execute, Verify, EnterPhase
    <3>3. CASE RevalidateGroup \/ InstallGroup \/ NameRevalidation \/ Abandon \/ Return
      BY <3>3 DEF RevalidateGroup, InstallGroup, NameRevalidation, Abandon, Return,
                  RecordPersisted, SealWith, NoEmission, repVars
    <3>4. CASE Fault \/ EndContext \/ Keepalive
      BY <3>4 DEF Fault, EndContext, Keepalive, repVars
    <3>5. CASE \E u \in Unit : Install(u) \/ NameUnit(u) \/ LandNothing(u) \/ Count(u)
      BY <3>5 DEF Install, NameUnit, LandNothing, Count, RecordPersisted, NoEmission, repVars
    <3>6. CASE \E u \in Unit : Report(u)
      <4> PICK u \in Unit : Report(u)
        BY <3>6
      <4>1. mine[u] \in Nat /\ InvOf[u] \in Inv
        BY ProgressAssumption DEF OperationOK
      <4> QED BY <4>1 DEF Report, ReportStep
    <3> QED BY <1>1, <3>2, <3>3, <3>4, <3>5, <3>6 DEF Operation
  <2> QED BY <2>1, <2>2
<1>2. CASE Tick \/ Sender \/ Accept \/ Stall \/ UNCHANGED vars
  <2>1. recent' \in BOOLEAN /\ ticks' \in 0..MaxTicks
    <3>1. CASE Tick
      <4>1. MaxTicks \in Nat
        BY ProgressAssumption
      <4>2. ticks \in 0..MaxTicks /\ ticks < MaxTicks /\ ticks' = ticks + 1
        BY <3>1 DEF Tick
      <4>3. ticks' \in 0..MaxTicks
        BY <4>1, <4>2
      <4>4. recent' \in BOOLEAN
        BY <3>1 DEF Tick
      <4> QED BY <4>3, <4>4
    <3>2. CASE Sender \/ Accept \/ Stall \/ UNCHANGED vars
      BY <3>2 DEF Sender, TakeEvent, TakeEnding, SendEnding, Accept, Stall, vars, repVars
    <3> QED BY <1>2, <3>1, <3>2
  <2> QED BY <1>2, <2>1, OtherSteps
<1> QED BY <1>1, <1>2 DEF Next

LEMMA NextSeamOK == TypeOK /\ [Next]_vars => SeamOK'
<1> SUFFICES ASSUME TypeOK, [Next]_vars PROVE SeamOK'
  OBVIOUS
<1> USE DEF TypeOK, SeamOK
<1>0. SinkBuffer \in Nat
  BY ProgressAssumption
<1>1. ASSUME UNCHANGED sendVars, NEW c, Sends(c) PROVE SeamOK'
  <2> PICK e \in Event : Send(e)
    BY <1>1 DEF Sends
  <2>1. slot' \in Event \cup {None}
    BY DEF Send
  <2>2. buffer' = buffer \/ (Len(buffer) < SinkBuffer /\ buffer' = Append(buffer, e))
    BY DEF Send
  <2>3. buffer' \in Seq(Event) /\ Len(buffer') <= SinkBuffer
    <3>1. Len(buffer) \in Nat
      OBVIOUS
    <3>2. Append(buffer, e) \in Seq(Event) /\ Len(Append(buffer, e)) = Len(buffer) + 1
      OBVIOUS
    <3> QED BY <1>0, <2>2, <3>1, <3>2
  <2> QED BY <1>1, <2>1, <2>3 DEF sendVars
<1>2. CASE Operation \/ Fault \/ EndContext \/ Keepalive
  <2>1. CASE Quiet
    BY <2>1 DEF Quiet, sinkVars, sendVars
  <2>2. CASE Offers
    BY <1>1, <2>2 DEF Offers
  <2>3. CASE Seals
    BY <1>1, <2>3 DEF Seals, sendVars
  <2> QED BY <1>2, <2>1, <2>2, <2>3, Emissions
<1>3. CASE Tick \/ Stall \/ UNCHANGED vars
  BY <1>3 DEF Tick, Stall, vars, sinkVars, sendVars
<1>4. CASE TakeEvent
  <2>1. Head(buffer) \in Event /\ Tail(buffer) \in Seq(Event) /\ Len(Tail(buffer)) <= SinkBuffer
    BY <1>0, <1>4 DEF TakeEvent
  <2> QED BY <1>4, <2>1 DEF TakeEvent
<1>5. CASE TakeEnding \/ SendEnding
  BY <1>5 DEF TakeEnding, SendEnding, sinkVars
<1>6. CASE Accept
  <2>1. hand \in Event
    BY <1>6 DEF Accept
  <2>2. hand.n \in Nat /\ hand.phase \in Phase /\ hand.count \in Nat
    BY <2>1 DEF Event
  <2>3. shown' \in [Inv -> Nat]
    BY <1>6, <2>2 DEF Accept
  <2> QED BY <1>6, <2>1, <2>2, <2>3 DEF Accept, sinkVars
<1> QED
  BY <1>2, <1>3, <1>4, <1>5, <1>6 DEF Next, Sender

LEMMA TypesInvariant == Spec => [](TypeOK /\ Uncounted)
<1>1. Init => TypeOK /\ Uncounted
  <2> SUFFICES ASSUME Init PROVE TypeOK /\ Uncounted
    OBVIOUS
  <2> USE DEF Init
  <2>0. Groups \in Nat /\ MaxTicks \in Nat /\ SinkBuffer \in Nat
    BY ProgressAssumption
  <2>1. OperationOK /\ Uncounted
    <3>1. counted \in [Inv -> Nat] /\ mine \in [Unit -> Nat] /\ finished \in 0..Groups
      BY <2>0
    <3> QED BY <3>1 DEF OperationOK, Uncounted
  <2>2. ReporterOK
    <3>1. maxDone \in [Inv -> Nat] /\ ticks \in 0..MaxTicks /\ offered \in Nat
      BY <2>0
    <3>2. at \in [inv : Inv \cup {None}, count : Nat]
      BY DEF NoWhere
    <3> QED BY <3>1, <3>2, PhaseNames DEF ReporterOK
  <2>3. SeamOK
    <3>1. buffer \in Seq(Event) /\ Len(buffer) <= SinkBuffer
      BY <2>0
    <3>2. shown \in [Inv -> Nat] /\ delivered \in Nat
      OBVIOUS
    <3> QED BY <3>1, <3>2, PhaseNames DEF SeamOK
  <2> QED BY <2>1, <2>2, <2>3 DEF TypeOK
<1>2. TypeOK /\ Uncounted /\ [Next]_vars => TypeOK' /\ Uncounted'
  BY NextOperationOK, NextReporterOK, NextSeamOK DEF TypeOK
<1> QED BY <1>1, <1>2, PTL DEF Spec

\* The types of the operation, the reporter and the seam.
THEOREM ProgressTypes == Spec => []TypeOK
BY TypesInvariant, PTL

-----------------------------------------------------------------------------
(* The ending names what landed. *)

\* Packages run while the run executes, and at no other time.
AllJoined ==
  /\ sealed => main = "returned"
  /\ main \in {"startup", "compile"} => \A u \in Unit : unit[u] = "waiting"
  /\ main \notin {"startup", "compile", "execution"} =>
       \A u \in Unit : unit[u] \in {"waiting", "over"}

\* What a package landed is named before the package is joined.
Landed == \A u \in Unit : u \in onDisk => unit[u] = "landed" \/ u \in kept

IsEnding(e) == e # None /\ e.cause # NoCause

\* The ending, wherever it is, was sealed and names every package on disk.
Endings ==
  /\ slot # None => IsEnding(slot)
  /\ last # None => IsEnding(last)
  /\ shownEnd # None => IsEnding(shownEnd)
  /\ \A i \in DOMAIN buffer : buffer[i].cause = NoCause
  /\ \A e \in {slot, last, hand, shownEnd} :
       IsEnding(e) => sealed /\ onDisk \cap Unit \subseteq e.kept

LEMMA NextJoined ==
  ASSUME TypeOK, AllJoined, [Next]_vars
  PROVE  AllJoined' /\ (sealed => UNCHANGED <<onDisk, unit, sealed>>)
<1> USE DEF TypeOK, OperationOK, ReporterOK, AllJoined
<1>1. CASE Compile
  BY <1>1 DEF Compile
<1>2. CASE Execute
  BY <1>2 DEF Execute
<1>3. CASE Verify
  BY <1>3 DEF Verify, Joined
<1>4. CASE RevalidateGroup \/ NameRevalidation
  BY <1>4 DEF RevalidateGroup, NameRevalidation, repVars
<1>5. CASE InstallGroup
  BY <1>5 DEF InstallGroup
<1>6. CASE Abandon \/ Fault
  BY <1>6 DEF Abandon, Fault, Joined, repVars
<1>7. CASE Return
  BY <1>7 DEF Return, SealWith
<1>8. CASE EndContext \/ Keepalive
  BY <1>8 DEF EndContext, Keepalive, opVars, repVars
<1>9. ASSUME NEW u \in Unit, Install(u) \/ NameUnit(u) \/ LandNothing(u) \/ Count(u) \/ Report(u)
      PROVE  AllJoined' /\ (sealed => UNCHANGED <<onDisk, unit, sealed>>)
  <2>1. UNCHANGED <<main, sealed>>
    BY <1>9 DEF Install, NameUnit, LandNothing, Count, Report, repVars
  <2>2. unit[u] \in {"running", "landed", "ran", "counted"}
    BY <1>9 DEF Install, NameUnit, LandNothing, Count, Report
  <2> QED BY <2>1, <2>2
<1>10. CASE Tick \/ Sender \/ Accept \/ Stall \/ UNCHANGED vars
  BY <1>10, OtherSteps DEF opVars
<1> QED
  BY <1>1, <1>2, <1>3, <1>4, <1>5, <1>6, <1>7, <1>8, <1>9, <1>10 DEF Next, Operation

LEMMA NextLanded ==
  ASSUME TypeOK, AllJoined, Landed, [Next]_vars
  PROVE  Landed'
<1> USE DEF TypeOK, OperationOK, ReporterOK, AllJoined, Landed
<1>1. CASE Compile \/ Verify \/ Return
  BY <1>1 DEF Compile, Verify, Return
<1>2. CASE Execute
  BY <1>2 DEF Execute
<1>3. CASE RevalidateGroup \/ Abandon \/ Fault \/ EndContext \/ Keepalive
  BY <1>3 DEF RevalidateGroup, Abandon, Fault, EndContext, Keepalive, opVars, repVars
<1>4. CASE InstallGroup
  <2>1. onDisk' \subseteq onDisk \cup {Revalidation} /\ kept \subseteq kept' /\ unit' = unit
    BY <1>4 DEF InstallGroup, RecordPersisted
  <2> QED BY <2>1, ProgressAssumption
<1>5. CASE NameRevalidation
  BY <1>5 DEF NameRevalidation, RecordPersisted
<1>6. ASSUME NEW u \in Unit, Install(u) PROVE Landed'
  BY <1>6 DEF Install, repVars
<1>7. ASSUME NEW u \in Unit, NameUnit(u) PROVE Landed'
  <2>1. ~sealed
    BY <1>7 DEF NameUnit
  <2> QED BY <1>7, <2>1 DEF NameUnit, RecordPersisted
<1>8. ASSUME NEW u \in Unit, LandNothing(u) \/ Count(u) \/ Report(u) PROVE Landed'
  BY <1>8 DEF LandNothing, Count, Report, repVars
<1>9. CASE Tick \/ Sender \/ Accept \/ Stall \/ UNCHANGED vars
  BY <1>9, OtherSteps DEF opVars
<1> QED
  BY <1>1, <1>2, <1>3, <1>4, <1>5, <1>6, <1>7, <1>8, <1>9 DEF Next, Operation

LEMMA NextEndings ==
  ASSUME TypeOK, AllJoined, Landed, Endings, [Next]_vars
  PROVE  Endings'
<1> USE DEF Endings, IsEnding
<1>0. sealed => UNCHANGED <<onDisk, sealed>>
  BY NextJoined
<1>1. CASE Operation \/ Fault \/ EndContext \/ Keepalive
  <2>1. CASE Quiet
    BY <1>0, <2>1 DEF Quiet, sinkVars, sendVars
  <2>2. CASE Offers
    <3>1. ~sealed /\ UNCHANGED sendVars
      BY <2>2 DEF Offers
    <3> PICK e \in Event : e.cause = NoCause /\ Send(e)
      BY <2>2 DEF Offers, Sends
    <3>2. slot' = slot
      BY DEF Send
    <3>3. \A i \in DOMAIN buffer' : buffer'[i].cause = NoCause
      BY DEF Send, TypeOK, SeamOK
    <3> QED BY <3>1, <3>2, <3>3 DEF sendVars
  <2>3. CASE Seals
    <3>1. ~sealed /\ sealed' = TRUE /\ UNCHANGED <<sendVars, onDisk, unit, kept>>
      BY <2>3 DEF Seals
    <3> PICK e \in Event : e.cause # NoCause /\ e.kept = kept /\ Send(e)
      BY <2>3 DEF Seals, Sends, Causes, NoCause
    <3>2. slot = None /\ slot' = e /\ buffer' = buffer /\ e # None
      BY <3>1, ProgressAssumption DEF Send
    <3>3. onDisk \cap Unit \subseteq kept
      <4>1. main' = "returned" /\ AllJoined'
        BY <2>3, NextJoined DEF Seals
      <4>2. \A u \in Unit : unit[u] # "landed"
        BY <3>1, <4>1 DEF AllJoined
      <4> QED BY <4>2 DEF Landed
    <3> QED BY <3>1, <3>2, <3>3 DEF sendVars
  <2> QED BY <1>1, <2>1, <2>2, <2>3, Emissions DEF TypeOK
<1>2. CASE Tick \/ Stall \/ UNCHANGED vars
  BY <1>2 DEF Tick, Stall, vars, opVars, repVars, sinkVars, sendVars
<1>3. CASE TakeEvent
  <2>1. Head(buffer).cause = NoCause
    BY <1>3 DEF TakeEvent, TypeOK, SeamOK
  <2>2. \A i \in DOMAIN Tail(buffer) : Tail(buffer)[i].cause = NoCause
    BY <1>3 DEF TakeEvent, TypeOK, SeamOK
  <2> QED BY <1>3, <2>1, <2>2 DEF TakeEvent, opVars, repVars
<1>4. CASE TakeEnding \/ SendEnding
  BY <1>4 DEF TakeEnding, SendEnding, opVars, repVars, sinkVars
<1>5. CASE Accept
  BY <1>5 DEF Accept, opVars, repVars, sinkVars
<1> QED
  BY <1>1, <1>2, <1>3, <1>4, <1>5 DEF Next, Sender

LEMMA EndingsInvariant == Spec => [](AllJoined /\ Landed /\ Endings)
<1>1. Init => AllJoined /\ Landed /\ Endings
  BY DEF Init, AllJoined, Landed, Endings, IsEnding
<1>2. TypeOK /\ AllJoined /\ Landed /\ Endings /\ [Next]_vars => (AllJoined /\ Landed /\ Endings)'
  BY NextJoined, NextLanded, NextEndings
<1> QED BY <1>1, <1>2, ProgressTypes, PTL DEF Spec

\* The ending a consumer sees names every package whose records are on disk,
\* for any packages and groups, however the run ended and whatever the sink
\* dropped (witnessrun.go's completion hook, progress.RecordPersisted, Seal).
THEOREM EndingComplete == Spec => []EndingNamesUnits
<1>1. Endings => EndingNamesUnits
  BY DEF Endings, IsEnding, EndingNamesUnits
<1> QED BY <1>1, EndingsInvariant, PTL

-----------------------------------------------------------------------------
(* The seam implements LossyFeed. *)

\* Everything on its way stands in the order of its numbers.
InLine ==
  /\ delivered <= offered
  /\ \A i \in DOMAIN buffer : delivered < buffer[i].n /\ buffer[i].n <= offered
  /\ \A i, j \in DOMAIN buffer : i < j => buffer[i].n < buffer[j].n
  /\ hand # None => /\ delivered < hand.n /\ hand.n <= offered
                    /\ \A i \in DOMAIN buffer : hand.n < buffer[i].n

\* The ending is the last of them.
EndingLast ==
  /\ \A e \in {slot, last} : e # None =>
       /\ e.n = offered /\ delivered < e.n
       /\ \A i \in DOMAIN buffer : buffer[i].n < e.n
       /\ hand # None => hand.n < e.n
  /\ slot = None \/ last = None
  /\ hand # None /\ hand.cause # NoCause => buffer = <<>> /\ slot = None /\ last = None

Line == InLine /\ EndingLast

LEMMA Numbers ==
  ASSUME SeamOK
  PROVE  /\ \A i \in DOMAIN buffer : buffer[i] \in Event /\ buffer[i].n \in Nat
         /\ \A e \in {slot, hand, last} : e # None => e \in Event /\ e.n \in Nat
         /\ delivered \in Nat
<1>1. \A e \in Event : e.n \in Nat
  BY DEF Event
<1>2. \A i \in DOMAIN buffer : buffer[i] \in Event
  BY DEF SeamOK
<1> QED BY <1>1, <1>2 DEF SeamOK

\* The buffer after an emission.
LEMMA Appended ==
  ASSUME SeamOK, NEW e \in Event, buffer' = Append(buffer, e)
  PROVE  /\ DOMAIN buffer' = DOMAIN buffer \cup {Len(buffer) + 1}
         /\ \A i \in DOMAIN buffer : i < Len(buffer) + 1 /\ buffer'[i] = buffer[i]
         /\ buffer'[Len(buffer) + 1] = e
         /\ Len(buffer) + 1 \notin DOMAIN buffer
BY DEF SeamOK

\* And once its head is taken.
LEMMA Taken ==
  ASSUME SeamOK, buffer # <<>>, buffer' = Tail(buffer)
  PROVE  /\ 1 \in DOMAIN buffer /\ Head(buffer) = buffer[1]
         /\ \A i \in DOMAIN buffer' : i \in Nat /\ i + 1 \in DOMAIN buffer /\ buffer'[i] = buffer[i + 1]
         /\ \A i \in DOMAIN buffer : i = 1 \/ (i - 1 \in DOMAIN buffer' /\ buffer'[i - 1] = buffer[i])
BY DEF SeamOK

LEMMA SendLine ==
  ASSUME SeamOK, offered \in Nat, Line, slot = None, last = None, NEW e \in Event, e.n = offered + 1,
         Send(e), offered' = offered + 1, UNCHANGED sendVars,
         hand # None => hand.cause = NoCause
  PROVE  Line'
<1>0. UNCHANGED <<hand, last, delivered>>
  BY DEF sendVars
<1>1. CASE e.cause # NoCause
  <2>1. slot' = e /\ buffer' = buffer
    BY <1>1 DEF Send
  <2>2. InLine'
    BY <1>0, <2>1, Numbers DEF Line, InLine
  <2>3. \A i \in DOMAIN buffer : buffer[i].n < e.n
    BY Numbers DEF Line, InLine
  <2>4. delivered < e.n /\ (hand # None => hand.n < e.n)
    BY Numbers DEF Line, InLine
  <2> QED BY <1>0, <2>1, <2>2, <2>3, <2>4 DEF Line, EndingLast
<1>2. CASE e.cause = NoCause /\ buffer' = buffer
  <2>1. slot' = slot
    BY <1>2 DEF Send
  <2>2. InLine'
    BY <1>0, <1>2, Numbers DEF Line, InLine
  <2> QED BY <1>0, <2>1, <2>2 DEF Line, EndingLast
<1>3. CASE e.cause = NoCause /\ buffer' = Append(buffer, e)
  <2>1. slot' = slot
    BY <1>3 DEF Send
  <2> DEFINE m == Len(buffer) + 1
  <2>2. /\ DOMAIN buffer' = DOMAIN buffer \cup {m}
        /\ \A i \in DOMAIN buffer : i < m /\ buffer'[i] = buffer[i]
        /\ buffer'[m] = e
        /\ DOMAIN buffer \subseteq Nat /\ m \in Nat
    BY <1>3, Appended DEF SeamOK
  <2> HIDE DEF m
  <2>3. \A i \in DOMAIN buffer : delivered < buffer[i].n /\ buffer[i].n < e.n
    BY Numbers DEF Line, InLine
  <2>4. delivered < e.n /\ delivered <= offered + 1
    BY Numbers DEF Line, InLine
  <2>5. hand # None => hand.n < e.n /\ hand.n <= offered + 1
    BY Numbers DEF Line, InLine
  <2>6. \A i \in DOMAIN buffer' : delivered' < buffer'[i].n /\ buffer'[i].n <= offered'
    <3> TAKE i \in DOMAIN buffer'
    <3>1. CASE i = m
      BY <1>0, <2>2, <2>4, <3>1
    <3>2. CASE i \in DOMAIN buffer
      BY <1>0, <2>2, <2>3, <3>2, Numbers
    <3> QED BY <2>2, <3>1, <3>2
  <2>7. \A i, j \in DOMAIN buffer' : i < j => buffer'[i].n < buffer'[j].n
    <3> SUFFICES ASSUME NEW i \in DOMAIN buffer', NEW j \in DOMAIN buffer', i < j
                 PROVE  buffer'[i].n < buffer'[j].n
      OBVIOUS
    <3>1. i \in DOMAIN buffer
      BY <2>2
    <3>2. CASE j = m
      BY <2>2, <2>3, <3>1, <3>2
    <3>3. CASE j \in DOMAIN buffer
      BY <2>2, <3>1, <3>3 DEF Line, InLine
    <3> QED BY <2>2, <3>2, <3>3
  <2>8. hand # None => \A i \in DOMAIN buffer' : hand.n < buffer'[i].n
    BY <2>2, <2>5 DEF Line, InLine
  <2>9. hand' # None => /\ delivered' < hand'.n /\ hand'.n <= offered'
                        /\ \A i \in DOMAIN buffer' : hand'.n < buffer'[i].n
    BY <1>0, <2>5, <2>8 DEF Line, InLine
  <2>10. InLine'
    BY <1>0, <2>4, <2>6, <2>7, <2>9 DEF InLine
  <2> QED BY <1>0, <2>1, <2>10 DEF Line, EndingLast
<1> QED BY <1>1, <1>2, <1>3 DEF Send

\* Before the ending is sealed there is none anywhere.
LEMMA NoneYet ==
  ASSUME Endings, ~sealed
  PROVE  slot = None /\ last = None /\ (hand # None => hand.cause = NoCause)
BY DEF Endings, IsEnding

LEMMA NextLine ==
  ASSUME TypeOK, AllJoined, Endings, Line, [Next]_vars
  PROVE  Line'
<1> USE DEF TypeOK
<1>1. CASE Operation \/ Fault \/ EndContext \/ Keepalive
  <2>1. CASE Quiet
    BY <2>1 DEF Quiet, sinkVars, sendVars, Line, InLine, EndingLast
  <2>2. CASE Offers \/ Seals
    <3>1. ~sealed /\ UNCHANGED sendVars /\ \E c \in Causes \cup {NoCause} : Sends(c)
      BY <2>2 DEF Offers, Seals, sendVars
    <3> PICK e \in Event : e.n = offered + 1 /\ Send(e) /\ offered' = offered + 1
      BY <3>1 DEF Sends
    <3>2. offered \in Nat
      BY DEF ReporterOK
    <3> QED BY <3>1, <3>2, NoneYet, SendLine
  <2> QED BY <1>1, <2>1, <2>2, Emissions
<1>2. CASE Tick \/ Stall \/ UNCHANGED vars
  BY <1>2 DEF Tick, Stall, vars, opVars, repVars, sinkVars, sendVars, Line, InLine, EndingLast
<1>3. CASE TakeEvent
  <2>0. UNCHANGED <<slot, last, delivered, offered>> /\ hand = None /\ hand' = buffer[1]
    BY <1>3, Taken DEF TakeEvent, repVars
  <2>1. /\ 1 \in DOMAIN buffer /\ DOMAIN buffer' \subseteq Nat
        /\ \A i \in DOMAIN buffer' : i + 1 \in DOMAIN buffer /\ buffer'[i] = buffer[i + 1] /\ 1 < i + 1
    BY <1>3, Taken DEF TakeEvent, SeamOK
  <2>2. buffer[1].cause = NoCause
    BY <2>1 DEF Endings
  <2>3. \A i, j \in DOMAIN buffer' : i < j => buffer'[i].n < buffer'[j].n
    BY <2>1 DEF Line, InLine
  <2>4. \A i \in DOMAIN buffer' : delivered < buffer'[i].n /\ buffer'[i].n <= offered /\ buffer[1].n < buffer'[i].n
    BY <2>1 DEF Line, InLine
  <2>5. InLine'
    BY <2>0, <2>1, <2>3, <2>4 DEF Line, InLine
  <2>6. EndingLast'
    BY <2>0, <2>1, <2>2 DEF Line, EndingLast
  <2> QED BY <2>5, <2>6 DEF Line
<1>4. CASE TakeEnding
  <2>1. UNCHANGED <<buffer, hand, delivered, offered>> /\ last' = slot /\ slot' = None /\ last = None /\ slot # None
    BY <1>4 DEF TakeEnding, repVars
  <2> QED BY <2>1, Zenon DEF Line, InLine, EndingLast
<1>5. CASE SendEnding
  <2>1. UNCHANGED <<buffer, slot, delivered, offered>> /\ hand' = last /\ last' = None /\ last # None /\ buffer = <<>>
        /\ hand = None
    BY <1>5 DEF SendEnding, repVars, sinkVars
  <2>2. slot = None
    BY <2>1 DEF Line, EndingLast
  <2>3. DOMAIN buffer = {}
    BY <2>1
  <2>4. last.n = offered /\ delivered < last.n
    BY <2>1 DEF Line, EndingLast
  <2>5. last.n <= offered
    BY <2>4 DEF ReporterOK
  <2>6. InLine'
    BY <2>1, <2>3, <2>4, <2>5 DEF Line, InLine
  <2>7. EndingLast'
    BY <2>1, <2>2, <2>3 DEF EndingLast
  <2> QED BY <2>6, <2>7 DEF Line
<1>6. CASE Accept
  <2>1. UNCHANGED <<buffer, slot, last, offered>> /\ hand' = None /\ delivered' = hand.n /\ hand # None
    BY <1>6 DEF Accept, repVars, sinkVars
  <2>2. InLine'
    BY <2>1 DEF Line, InLine
  <2>3. EndingLast'
    BY <2>1 DEF Line, EndingLast
  <2> QED BY <2>2, <2>3 DEF Line
<1> QED
  BY <1>1, <1>2, <1>3, <1>4, <1>5, <1>6 DEF Next, Sender

LEMMA LineInvariant == Spec => []Line
<1>1. Init => Line
  BY DEF Init, Line, InLine, EndingLast
<1>2. TypeOK /\ AllJoined /\ Endings /\ Line /\ [Next]_vars => Line'
  BY NextLine
<1> QED BY <1>1, <1>2, ProgressTypes, EndingsInvariant, PTL DEF Spec

\* The numbers on their way.
Pending == {e.n : e \in InTransit}

LEMMA PendingOf ==
  /\ \A n : n \in Pending <=> \/ \E i \in DOMAIN buffer : n = buffer[i].n
                              \/ \E e \in {slot, hand, last} : e # None /\ n = e.n
BY DEF Pending, InTransit

LEMMA SendAdds ==
  ASSUME TypeOK, slot = None, NEW e \in Event, Send(e), UNCHANGED sendVars
  PROVE  /\ InTransit' \in {InTransit, InTransit \cup {e}}
         /\ e.cause # NoCause => InTransit' = InTransit \cup {e}
<1>0. UNCHANGED <<hand, last>>
  BY DEF sendVars
<1>1. CASE e.cause # NoCause
  <2>1. slot' = e /\ buffer' = buffer /\ e # None
    BY <1>1, ProgressAssumption DEF Send
  <2> QED BY <1>0, <2>1 DEF InTransit
<1>2. CASE e.cause = NoCause /\ buffer' = buffer
  BY <1>0, <1>2 DEF Send, InTransit
<1>3. CASE e.cause = NoCause /\ buffer' = Append(buffer, e)
  <2> DEFINE m == Len(buffer) + 1
  <2>1. slot' = slot
    BY <1>3 DEF Send
  <2>2. /\ DOMAIN buffer' = DOMAIN buffer \cup {m}
        /\ \A i \in DOMAIN buffer : buffer'[i] = buffer[i]
        /\ buffer'[m] = e
    BY <1>3, Appended DEF TypeOK
  <2> HIDE DEF m
  <2>3. {buffer'[i] : i \in DOMAIN buffer'} = {buffer[i] : i \in DOMAIN buffer} \cup {e}
    BY <2>2
  <2> QED BY <1>0, <1>3, <2>1, <2>3 DEF InTransit
<1> QED BY <1>1, <1>2, <1>3 DEF Send

LEMMA SendFeeds ==
  ASSUME TypeOK, slot = None, NEW e \in Event, Send(e), UNCHANGED sendVars
  PROVE  /\ Pending' \in {Pending, Pending \cup {e.n}}
         /\ e.cause # NoCause => Pending' = Pending \cup {e.n}
<1>1. /\ InTransit' \in {InTransit, InTransit \cup {e}}
      /\ e.cause # NoCause => InTransit' = InTransit \cup {e}
  BY SendAdds
<1> QED BY <1>1 DEF Pending

\* What the sender moves stays on its way.
LEMMA SenderKeeps == ASSUME SeamOK, Sender PROVE InTransit' = InTransit
<1>1. CASE TakeEvent
  <2>1. UNCHANGED <<slot, last>> /\ hand = None /\ hand' = Head(buffer) /\ buffer' = Tail(buffer) /\ buffer # <<>>
    BY <1>1 DEF TakeEvent
  <2>2. Head(buffer) # None
    <3>1. Head(buffer) \in Event
      BY <2>1, Taken DEF SeamOK
    <3> QED BY <3>1, ProgressAssumption
  <2>3. {buffer[i] : i \in DOMAIN buffer} = {buffer'[i] : i \in DOMAIN buffer'} \cup {Head(buffer)}
    <3>1. \A i \in DOMAIN buffer' : buffer'[i] \in {buffer[j] : j \in DOMAIN buffer}
      BY <2>1, Taken
    <3>2. \A i \in DOMAIN buffer : buffer[i] \in {buffer'[j] : j \in DOMAIN buffer'} \cup {Head(buffer)}
      BY <2>1, Taken
    <3>3. Head(buffer) \in {buffer[j] : j \in DOMAIN buffer}
      BY <2>1, Taken
    <3> QED BY <3>1, <3>2, <3>3
  <2> QED BY <2>1, <2>2, <2>3 DEF InTransit
<1>2. CASE TakeEnding
  BY <1>2 DEF TakeEnding, InTransit
<1>3. CASE SendEnding
  BY <1>3 DEF SendEnding, InTransit, sinkVars
<1> QED BY <1>1, <1>2, <1>3 DEF Sender

LEMMA OldestIs ==
  ASSUME NEW S \in SUBSET Nat, NEW m \in S, \A k \in S : m <= k
  PROVE  Feed!Oldest(S) = m
<1>1. \A n \in S : (\A k \in S : n <= k) => n = m
  OBVIOUS
<1> QED BY <1>1 DEF Feed!Oldest

\* The consumer takes the oldest event there is.
LEMMA AcceptDelivers == ASSUME TypeOK, Line, Accept PROVE Feed!Deliver
<1>1. UNCHANGED <<buffer, slot, last, offered, sealed>> /\ hand # None /\ hand' = None /\ delivered' = hand.n
  BY DEF Accept, repVars, sinkVars
<1>2. hand.n \in Pending
  BY <1>1, PendingOf
<1>3. \A n : n \in Pending <=> n = hand.n \/ n \in Pending'
  BY <1>1 DEF Pending, InTransit
<1>4. \A n \in Pending' : hand.n < n
  BY <1>1 DEF Pending, InTransit, Line, InLine, EndingLast
<1>5. Pending \subseteq Nat
  BY PendingOf, Numbers DEF TypeOK
<1>6. hand.n \in Nat /\ Pending' \subseteq Nat
  BY <1>2, <1>3, <1>5
<1>7. hand.n \notin Pending'
  BY <1>4, <1>6
<1>8. Pending' = Pending \ {hand.n}
  BY <1>3, <1>7
<1>9. Feed!Oldest(Pending) = hand.n
  <2>1. \A n \in Pending : hand.n <= n
    <3> TAKE n \in Pending
    <3>1. CASE n = hand.n
      BY <1>6, <3>1
    <3>2. CASE n \in Pending'
      <4> DEFINE h == hand.n
      <4>1. h \in Nat /\ n \in Nat /\ h < n
        BY <1>4, <1>6, <3>2
      <4> HIDE DEF h
      <4>2. h <= n
        BY <4>1
      <4> QED BY <4>2 DEF h
    <3> QED BY <1>3, <3>1, <3>2
  <2> QED BY <1>2, <1>5, <2>1, OldestIs
<1>10. Pending # {}
  BY <1>2
<1> QED BY <1>1, <1>8, <1>9, <1>10 DEF Feed!Deliver, Pending

LEMMA NextFeeds ==
  ASSUME TypeOK, Endings, Line, [Next]_vars
  PROVE  [Feed!Next]_(Feed!feed)
<1> USE DEF TypeOK
<1>1. CASE Operation \/ Fault \/ EndContext \/ Keepalive
  <2>1. CASE Quiet
    BY <2>1 DEF Quiet, sinkVars, sendVars, Feed!feed, InTransit
  <2>2. CASE Offers
    <3>1. ~sealed /\ sealed' = sealed /\ UNCHANGED sendVars /\ delivered' = delivered
      BY <2>2 DEF Offers, sendVars
    <3> PICK e \in Event : e.n = offered + 1 /\ Send(e) /\ offered' = offered + 1
      BY <2>2 DEF Offers, Sends
    <3>2. Pending' \in {Pending, Pending \cup {offered + 1}}
      BY <3>1, NoneYet, SendFeeds
    <3> QED BY <3>1, <3>2 DEF Feed!Next, Feed!Offer, Pending
  <2>3. CASE Seals
    <3>1. ~sealed /\ sealed' = TRUE /\ UNCHANGED sendVars /\ delivered' = delivered
      BY <2>3 DEF Seals, sendVars
    <3> PICK e \in Event : e.n = offered + 1 /\ e.cause # NoCause /\ Send(e) /\ offered' = offered + 1
      BY <2>3 DEF Seals, Sends, Causes, NoCause
    <3>2. Pending' = Pending \cup {offered + 1}
      BY <3>1, NoneYet, SendFeeds
    <3> QED BY <3>1, <3>2 DEF Feed!Next, Feed!End, Pending
  <2> QED BY <1>1, <2>1, <2>2, <2>3, Emissions
<1>2. CASE Tick \/ Stall \/ UNCHANGED vars
  BY <1>2 DEF Tick, Stall, vars, opVars, repVars, sinkVars, sendVars, Feed!feed, InTransit
<1>3. CASE Sender
  <2>1. UNCHANGED <<offered, delivered, sealed>>
    BY <1>3 DEF Sender, TakeEvent, TakeEnding, SendEnding, repVars
  <2> QED BY <1>3, <2>1, SenderKeeps DEF Feed!feed, Pending
<1>4. CASE Accept
  BY <1>4, AcceptDelivers DEF Feed!Next
<1> QED BY <1>1, <1>2, <1>3, <1>4 DEF Next

\* The seam implements LossyFeed, for any packages, buffer, consumer and
\* clock: events arrive in the order they were emitted, each at most once,
\* and the ending is never lost (progress.NonBlocking over the reporter).
THEOREM FeedImplemented == Spec => FeedSpec
<1>1. Init => Feed!Init
  BY DEF Init, Feed!Init, InTransit
<1>2. TypeOK /\ Endings /\ Line /\ [Next]_vars => [Feed!Next]_(Feed!feed)
  BY NextFeeds
<1> QED BY <1>1, <1>2, ProgressTypes, EndingsInvariant, LineInvariant, PTL DEF Spec, FeedSpec, Feed!Spec

\* An ending that was sealed is on its way or is the last event the consumer
\* took, for any buffer and any backlog (the reserved place of NonBlocking).
THEOREM EndingNeverLost == Spec => [](Feed!InOrder /\ Feed!EndingKept)
<1>1. Init => Feed!EndingKept
  BY DEF Init, Feed!EndingKept
<1>2. TypeOK /\ Line => Feed!InOrder
  <2> SUFFICES ASSUME TypeOK, Line, NEW n \in Pending PROVE delivered < n /\ n <= offered
    BY DEF Feed!InOrder, Pending
  <2>1. CASE \E i \in DOMAIN buffer : n = buffer[i].n
    BY <2>1 DEF Line, InLine
  <2>2. CASE hand # None /\ n = hand.n
    BY <2>2 DEF Line, InLine
  <2>3. CASE \E e \in {slot, last} : e # None /\ n = e.n
    BY <2>3 DEF Line, EndingLast, TypeOK, ReporterOK
  <2> QED BY <2>1, <2>2, <2>3, PendingOf
<1>3. TypeOK /\ Endings /\ Line /\ Feed!EndingKept /\ [Next]_vars => Feed!EndingKept'
  <2> SUFFICES ASSUME TypeOK, Endings, Line, Feed!EndingKept, [Next]_vars PROVE Feed!EndingKept'
    OBVIOUS
  <2> USE DEF Feed!EndingKept
  <2>0. [Feed!Next]_(Feed!feed)
    BY NextFeeds
  <2>1. CASE UNCHANGED Feed!feed
    <3>1. Pending' = Pending /\ UNCHANGED <<offered, delivered, sealed>>
      BY <2>1 DEF Feed!feed, Pending
    <3> QED BY <3>1 DEF Pending
  <2>2. CASE Feed!Offer \/ Feed!End
    BY <2>2 DEF Feed!Offer, Feed!End
  <2>3. CASE Feed!Deliver
    <3>1. Pending' = Pending \ {delivered'} /\ UNCHANGED <<offered, sealed>> /\ Pending # {}
      BY <2>3 DEF Feed!Deliver, Pending
    <3>2. delivered # offered
      <4> PICK n \in Pending : delivered < n /\ n <= offered
        BY <1>2, <3>1 DEF Feed!InOrder, Pending
      <4>1. n \in Nat /\ delivered \in Nat /\ offered \in Nat
        BY PendingOf, Numbers DEF TypeOK, ReporterOK
      <4> QED BY <4>1
    <3> QED BY <3>1, <3>2 DEF Pending
  <2> QED BY <2>0, <2>1, <2>2, <2>3 DEF Feed!Next
<1> QED BY <1>1, <1>2, <1>3, ProgressTypes, EndingsInvariant, LineInvariant, PTL DEF Spec

-----------------------------------------------------------------------------
(* The display advances. *)

LEMMA Ranks ==
  /\ Rank("startup") = 1 /\ Rank("compile") = 2
  /\ Rank("execution") = 3 /\ Rank("verification") = 4
<1>1. DOMAIN Phases = {1, 2, 3, 4}
  BY DEF Phases
<1>2. /\ Phases[1] = "startup" /\ Phases[2] = "compile"
      /\ Phases[3] = "execution" /\ Phases[4] = "verification"
  BY DEF Phases
<1>3. \A p : \A i \in DOMAIN Phases :
        Phases[i] = p /\ (\A j \in DOMAIN Phases : Phases[j] = p => j = i) => Rank(p) = i
  BY DEF Rank
<1> QED BY <1>1, <1>2, <1>3

LEMMA RankInt == \A p \in Phase : Rank(p) \in Nat
BY Ranks, PhaseNames

\* The reporter is in the phase the run has entered, and its note is its maximum.
InPhase ==
  /\ main \in {"startup", "compile", "execution"} => phase = main
  /\ at.inv \in Inv => at.count = maxDone[at.inv]

\* What the reporter said, the reporter has not fallen behind ...
Said(e) == \/ Rank(e.phase) < Rank(phase)
           \/ e.phase = phase /\ (e.inv \in Inv => e.count <= maxDone[e.inv])

\* ... what is on its way does not take the display back ...
News(e) == \/ Rank(tracked) < Rank(e.phase)
           \/ e.phase = tracked /\ (e.inv \in Inv => shown[e.inv] <= e.count)

\* ... nor does one event take another back ...
Ahead(a, b) ==
  \/ Rank(a.phase) < Rank(b.phase)
  \/ a.phase = b.phase /\ (a.inv = b.inv /\ a.inv \in Inv => a.count <= b.count)

\* ... and the display is not ahead of the reporter.
Behind == \/ Rank(tracked) < Rank(phase)
          \/ tracked = phase /\ \A i \in Inv : shown[i] <= maxDone[i]

Advancing ==
  /\ InPhase /\ Behind
  /\ \A e \in InTransit : Said(e) /\ News(e)
  /\ \A a, b \in InTransit : a.n < b.n => Ahead(a, b)

\* The reporter goes on: to a later phase, or to counts no lower.
Goes == \/ Rank(phase) < Rank(phase')
        \/ phase' = phase /\ \A i \in Inv : maxDone[i] <= maxDone'[i]

LEMMA NextPhase ==
  ASSUME TypeOK, AllJoined, InPhase, [Next]_vars
  PROVE  InPhase' /\ Goes
<1> USE DEF TypeOK, OperationOK, ReporterOK, InPhase, Goes
<1>0. NoWhere.inv \notin Inv
  BY ProgressAssumption DEF NoWhere
<1>1. CASE Compile
  <2>1. ~sealed /\ phase = "startup"
    BY <1>1 DEF Compile, AllJoined
  <2> QED BY <1>0, <1>1, <2>1, Ranks DEF Compile, EnterPhase
<1>2. CASE Execute
  <2>1. ~sealed /\ phase = "compile"
    BY <1>2 DEF Execute, AllJoined
  <2> QED BY <1>0, <1>2, <2>1, Ranks DEF Execute, EnterPhase
<1>3. CASE Verify
  <2>1. ~sealed /\ phase = "execution"
    BY <1>3 DEF Verify, AllJoined
  <2> QED BY <1>0, <1>3, <2>1, Ranks DEF Verify, EnterPhase
<1>4. CASE RevalidateGroup \/ InstallGroup \/ NameRevalidation \/ Abandon \/ Return \/ Fault
  <2>1. UNCHANGED <<phase, at, maxDone>> /\ main' \notin {"startup", "compile", "execution"}
    BY <1>4 DEF RevalidateGroup, InstallGroup, NameRevalidation, Abandon, Return, Fault, repVars
  <2> QED BY <2>1
<1>5. CASE EndContext \/ Keepalive \/ \E u \in Unit : Install(u) \/ NameUnit(u) \/ LandNothing(u) \/ Count(u)
  <2>1. UNCHANGED <<main, phase, at, maxDone>>
    BY <1>5 DEF EndContext, Keepalive, Install, NameUnit, LandNothing, Count, opVars, repVars
  <2> QED BY <2>1
<1>6. ASSUME NEW u \in Unit, Report(u) PROVE InPhase' /\ Goes
  <2>1. InvOf[u] \in Inv /\ mine[u] \in Nat
    BY ProgressAssumption
  <2>2. UNCHANGED <<main, phase>> /\ ReportStep(InvOf[u], mine[u], Total(InvOf[u]))
    BY <1>6 DEF Report
  <2>3. CASE UNCHANGED <<at, maxDone>>
    BY <2>2, <2>3
  <2>4. CASE /\ ~(mine[u] <= maxDone[InvOf[u]])
             /\ maxDone' = [maxDone EXCEPT ![InvOf[u]] = mine[u]]
             /\ at' = [inv |-> InvOf[u], count |-> mine[u]]
    BY <2>1, <2>2, <2>4
  <2> QED BY <2>2, <2>3, <2>4 DEF ReportStep
<1>7. CASE Tick \/ Sender \/ Accept \/ Stall \/ UNCHANGED vars
  BY <1>7, OtherSteps DEF opVars
<1> QED
  BY <1>1, <1>2, <1>3, <1>4, <1>5, <1>6, <1>7 DEF Next, Operation

\* A step of the operation keeps everything in order, the event it sends last.
LEMMA OperationAdvances ==
  ASSUME TypeOK, AllJoined, Endings, Line, Advancing, [Next]_vars,
         Operation \/ Fault \/ EndContext \/ Keepalive
  PROVE  Advancing' /\ UNCHANGED <<shown, tracked>>
<1> USE DEF TypeOK
<1>1. UNCHANGED <<shown, tracked>> /\ InPhase' /\ Goes
  <2>1. UNCHANGED sendVars
    BY Emissions DEF Quiet, Offers, Seals, sendVars
  <2> QED BY <2>1, NextPhase DEF Advancing, sendVars
<1>2. /\ phase \in Phase /\ phase' \in Phase /\ tracked \in Phase
      /\ maxDone \in [Inv -> Nat] /\ maxDone' \in [Inv -> Nat] /\ shown \in [Inv -> Nat]
  BY NextReporterOK DEF ReporterOK, SeamOK
<1>3. Behind'
  BY <1>1, <1>2, RankInt DEF Goes, Behind, Advancing
<1>4. InTransit \subseteq Event
  BY Numbers DEF InTransit
<1>5. \A e \in InTransit : Said(e)' /\ News(e)'
  <2> TAKE e \in InTransit
  <2>1. e.phase \in Phase /\ (e.inv \in Inv => e.count \in Nat)
    BY <1>4 DEF Event
  <2>2. Said(e) /\ News(e)
    BY DEF Advancing
  <2>3. News(e)'
    BY <1>1, <2>2 DEF News
  <2>4. Said(e)'
    BY <1>1, <1>2, <2>1, <2>2, RankInt DEF Said, Goes
  <2> QED BY <2>3, <2>4
<1>6. \A e \in InTransit' : e \in InTransit \/ (e \in Event /\ Says(e)' /\ e.n = offered + 1)
  <2>1. CASE Quiet
    BY <2>1 DEF Quiet, sinkVars, sendVars, InTransit
  <2>2. CASE Offers \/ Seals
    <3>1. ~sealed /\ UNCHANGED sendVars /\ \E c \in Causes \cup {NoCause} : Sends(c)
      BY <2>2 DEF Offers, Seals, sendVars
    <3> PICK e \in Event : e.n = offered + 1 /\ Send(e) /\ Says(e)'
      BY <3>1 DEF Sends
    <3>2. InTransit' \in {InTransit, InTransit \cup {e}}
      BY <3>1, NoneYet, SendAdds
    <3> QED BY <3>2
  <2> QED BY <2>1, <2>2, Emissions
<1>7. ASSUME NEW e \in Event, Says(e)' PROVE Said(e)' /\ News(e)'
  <2>1. e.phase = phase' /\ e.inv = at'.inv /\ e.count = at'.count
    BY <1>7 DEF Says
  <2>2. e.inv \in Inv => e.count = maxDone'[e.inv]
    BY <1>1, <2>1 DEF InPhase
  <2>3. Said(e)'
    BY <1>2, <2>1, <2>2 DEF Said
  <2>4. News(e)'
    BY <1>3, <2>1, <2>2 DEF Behind, News
  <2> QED BY <2>3, <2>4
<1>8. ASSUME NEW a \in InTransit', NEW b \in InTransit', a.n < b.n PROVE Ahead(a, b)
  <2>1. \A e \in InTransit : e.n \in Nat /\ e.n <= offered
    <3>1. \A e \in InTransit : e.n \in Pending
      BY DEF Pending
    <3>2. \A n \in Pending : n \in Nat /\ n <= offered
      BY PendingOf, Numbers DEF Line, InLine, EndingLast, ReporterOK
    <3> QED BY <3>1, <3>2
  <2>2. a \in InTransit
    BY <1>6, <1>8, <2>1 DEF ReporterOK
  <2>3. CASE b \in InTransit
    BY <1>8, <2>2, <2>3 DEF Advancing
  <2>4. CASE Says(b)'
    <3>1. b.phase = phase' /\ b.inv = at'.inv /\ b.count = at'.count
      BY <2>4 DEF Says
    <3>2. b.inv \in Inv => b.count = maxDone'[b.inv]
      BY <1>1, <3>1 DEF InPhase
    <3>3. Said(a)'
      BY <1>5, <2>2
    <3> QED BY <3>1, <3>2, <3>3 DEF Said, Ahead
  <2> QED BY <1>6, <2>3, <2>4
<1> QED BY <1>1, <1>3, <1>5, <1>6, <1>7, <1>8 DEF Advancing

\* The step DisplayAdvances asks for.
Forward == IF tracked' = tracked THEN \A i \in Inv : shown'[i] >= shown[i]
           ELSE Rank(tracked') > Rank(tracked)

\* The consumer takes the oldest event, and nothing behind it says less.
LEMMA AcceptAdvances ==
  ASSUME TypeOK, AllJoined, Line, Advancing, Accept, [Next]_vars
  PROVE  /\ Advancing'
         /\ Forward
<1> USE DEF TypeOK
<1>1. /\ hand # None /\ hand \in InTransit /\ tracked' = hand.phase
      /\ shown' = [i \in Inv |-> IF hand.inv = i THEN hand.count
                                 ELSE IF tracked = hand.phase THEN shown[i] ELSE 0]
      /\ UNCHANGED <<phase, at, maxDone, main>>
  BY DEF Accept, InTransit, opVars, repVars
<1>2. /\ InTransit' \subseteq InTransit
      /\ \A e \in InTransit' : hand.n < e.n
  <2>1. UNCHANGED <<buffer, slot, last>> /\ hand' = None
    BY DEF Accept, sinkVars
  <2>2. \A e \in InTransit' : e \in InTransit /\ hand.n < e.n
    BY <1>1, <2>1 DEF InTransit, Line, InLine, EndingLast
  <2> QED BY <2>2
<1>3. /\ phase \in Phase /\ tracked \in Phase /\ InTransit \subseteq Event
      /\ maxDone \in [Inv -> Nat] /\ shown \in [Inv -> Nat]
  BY Numbers DEF InTransit, ReporterOK, SeamOK
<1>4. hand.phase \in Phase /\ hand.count \in Nat
  BY <1>1, <1>3 DEF Event
<1>5. Said(hand) /\ News(hand)
  BY <1>1 DEF Advancing
<1>6. Forward
  BY <1>1, <1>3, <1>4, <1>5, RankInt DEF News, Forward
<1>7. Behind'
  <2>1. CASE hand.phase = phase /\ hand.phase = tracked
    <3>1. \A i \in Inv : shown[i] <= maxDone[i]
      BY <1>3, <2>1, RankInt DEF Advancing, Behind
    <3> QED BY <1>1, <1>3, <1>5, <2>1, <3>1, RankInt DEF Said, Behind
  <2>2. CASE hand.phase = phase /\ hand.phase # tracked
    BY <1>1, <1>3, <1>5, <2>2, RankInt DEF Said, Behind
  <2>3. CASE hand.phase # phase
    BY <1>1, <1>5, <2>3 DEF Said, Behind
  <2> QED BY <2>1, <2>2, <2>3
<1>8. InPhase'
  BY NextPhase DEF Advancing
<1>9. ASSUME NEW e \in InTransit' PROVE Said(e)' /\ News(e)'
  <2>1. e \in InTransit /\ e \in Event /\ hand.n < e.n
    BY <1>2, <1>3
  <2>2. Said(e) /\ News(e) /\ Ahead(hand, e)
    BY <1>1, <2>1 DEF Advancing
  <2>3. Said(e)'
    BY <1>1, <2>2 DEF Said
  <2>4. e.phase \in Phase /\ e.count \in Nat
    BY <2>1 DEF Event
  <2>5. News(e)'
    BY <1>1, <1>3, <1>4, <2>2, <2>4, RankInt DEF News, Ahead
  <2> QED BY <2>3, <2>5
<1> QED BY <1>2, <1>6, <1>7, <1>8, <1>9 DEF Advancing

LEMMA NextAdvancing ==
  ASSUME TypeOK, AllJoined, Endings, Line, Advancing, [Next]_vars
  PROVE  Advancing' /\ Forward
<1>0. UNCHANGED <<shown, tracked>> => Forward
  BY DEF Forward, TypeOK, SeamOK
<1>1. CASE Operation \/ Fault \/ EndContext \/ Keepalive
  BY <1>0, <1>1, OperationAdvances
<1>2. CASE Accept
  BY <1>2, AcceptAdvances
<1>3. CASE Tick \/ Sender \/ Stall \/ UNCHANGED vars
  <2>1. UNCHANGED <<main, phase, at, maxDone, shown, tracked>>
    BY <1>3 DEF Tick, Sender, TakeEvent, TakeEnding, SendEnding, Stall, vars, opVars, repVars, sendVars
  <2>2. InTransit' = InTransit
    <3>1. CASE Sender
      BY <3>1, SenderKeeps DEF TypeOK
    <3>2. CASE Tick \/ Stall \/ UNCHANGED vars
      BY <3>2 DEF Tick, Stall, vars, sinkVars, sendVars, InTransit
    <3> QED BY <1>3, <3>1, <3>2
  <2>3. InPhase' /\ Behind'
    BY <2>1 DEF Advancing, InPhase, Behind
  <2>4. \A e \in InTransit : Said(e)' /\ News(e)'
    BY <2>1 DEF Advancing, Said, News
  <2> QED BY <1>0, <2>1, <2>2, <2>3, <2>4 DEF Advancing
<1> QED BY <1>1, <1>2, <1>3 DEF Next

\* The consumer sees an operation advance, for any packages, invocations, buffer
\* and clock: no phase comes back, and within one no invocation's count falls
\* (progress.Reporter's suppression of late counts, NonBlocking's order, and the
\* consumer's PhaseTracker).
THEOREM DisplayNeverFalls == Spec => DisplayAdvances
<1>1. Init => Advancing
  <2> SUFFICES ASSUME Init PROVE Advancing
    OBVIOUS
  <2>1. InTransit = {}
    BY DEF Init, InTransit
  <2>2. InPhase /\ Behind
    BY ProgressAssumption DEF Init, InPhase, Behind, NoWhere
  <2> QED BY <2>1, <2>2 DEF Advancing
<1>2. TypeOK /\ AllJoined /\ Endings /\ Line /\ Advancing /\ [Next]_vars => Advancing' /\ [Forward]_vars
  BY NextAdvancing
<1>3. Forward <=> IF tracked' = tracked THEN \A i \in Inv : shown'[i] >= shown[i]
                  ELSE Rank(tracked') > Rank(tracked)
  BY DEF Forward
<1> QED
  BY <1>1, <1>2, <1>3, ProgressTypes, EndingsInvariant, LineInvariant, PTL DEF Spec, DisplayAdvances
=============================================================================
