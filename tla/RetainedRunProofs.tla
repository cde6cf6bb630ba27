-------------------------- MODULE RetainedRunProofs --------------------------
(***************************************************************************)
(* What holds of a retained run whatever the binary says, however many     *)
(* lines the pipe holds and however many operations fail.  One inductive   *)
(* invariant carries the three theorems: where runRetained is determines   *)
(* what has become of the leader and of its group.                         *)
(***************************************************************************)
EXTENDS RetainedRun, TLAPS

\* The types the arguments below need.
Typed ==
  /\ caller \in {"live", "ended"} /\ ctx \in {"live", "cancelled", "expired"}
  /\ main \in {"new", "open", "parse", "wait", "reap", "judge", "ending", "returned"}
  /\ leader \in {"none", "running", "exited", "reaped"}
  /\ child \in {"none", "holding", "gone"}
  /\ atEnvelope \in {"off", "armed", "grace", "delay", "done"}
  /\ cancelled \in BOOLEAN /\ killed \in BOOLEAN /\ finished \in BOOLEAN
  /\ conversionErr \in BOOLEAN /\ ownerErr \in BOOLEAN /\ sweepErr \in BOOLEAN
  /\ faults \in Nat

\* Where runRetained is says where the leader is.
Owned ==
  /\ main \in {"new", "open"} => leader = "none" /\ atEnvelope = "off" /\ ~finished
  /\ main \in {"wait", "reap"} => leader \in {"running", "exited"}
  /\ main \in {"judge", "ending", "returned"} => leader \in {"none", "reaped"}
  /\ leader = "reaped" => main \in {"judge", "ending", "returned"}
  /\ leader = "none" => child = "none"

\* Once the group's identity is given up, it is swept.
Swept ==
  /\ main \in {"reap", "judge", "ending", "returned"} /\ leader # "none" => finished
  /\ finished /\ leader = "running" => sweepErr
  /\ finished /\ child = "holding" => ownerErr \/ sweepErr

\* Whoever cancels the binary has a reason to.
Reasons ==
  cancelled => \/ conversionErr \/ faults > 0 \/ caller = "ended"
               \/ atEnvelope \in {"delay", "done"}

IInv == Typed /\ Owned /\ Swept /\ Reasons

LEMMA InitIInv == Init => IInv
<1> SUFFICES ASSUME Init PROVE IInv
  OBVIOUS
<1>1. Typed /\ Owned /\ Swept
  BY DEF Init, Typed, Owned, Swept
<1>2. Reasons
  BY DEF Init, Reasons
<1> QED BY <1>1, <1>2 DEF IInv

LEMMA NextIInv == IInv /\ [Next]_vars => IInv'
<1> SUFFICES ASSUME IInv, [Next]_vars PROVE IInv'
  OBVIOUS
<1> USE DEF IInv, Typed, Owned, Swept, Reasons, ctxVars, hostVars, outVars,
        ownVars, hookVars, endVars, Started
<1>1. CASE Binary
  BY <1>1 DEF Binary, CloseOutput, Fork, Exit, DescendantEnds, Write
<1>2. CASE Refuse \/ Open \/ Start \/ StartFails
  <2>1. CASE Refuse BY <2>1 DEF Refuse
  <2>2. CASE Open BY <2>2 DEF Open
  <2>3. CASE Start BY <2>3 DEF Start
  <2>4. CASE StartFails BY <2>4 DEF StartFails
  <2> QED BY <1>2, <2>1, <2>2, <2>3, <2>4
<1>3. CASE Collect \/ Reap \/ Judge \/ Return
  <2>1. CASE Collect BY <2>1 DEF Collect
  <2>2. CASE Reap BY <2>2 DEF Reap
  <2>3. CASE Judge BY <2>3 DEF Judge
  <2>4. CASE Return BY <2>4 DEF Return
  <2> QED BY <1>3, <2>1, <2>2, <2>3, <2>4
<1>4. CASE Sweep
  <2>1. CASE ownerErr
    BY <1>4, <2>1 DEF Sweep, KillLeader
  <2>2. CASE ~ownerErr
    <3>1. /\ main' = "reap" /\ finished' = TRUE /\ faults' \in Nat
          /\ UNCHANGED <<caller, ctx, cancelled, killed, conversionErr, ownerErr, atEnvelope>>
          /\ faults > 0 => faults' > 0
      BY <1>4, <2>2 DEF Sweep
    <3>2. \/ leader' = "exited" /\ child' \in {"none", "gone"} /\ UNCHANGED sweepErr
          \/ sweepErr' = TRUE /\ UNCHANGED <<leader, child>>
      BY <1>4, <2>2 DEF Sweep, KillGroup, KillLeader
    <3>3. main = "wait"
      BY <1>4 DEF Sweep
    <3>4. CASE sweepErr' = TRUE /\ UNCHANGED <<leader, child>>
      BY <3>1, <3>3, <3>4
    <3>5. CASE leader' = "exited" /\ child' \in {"none", "gone"} /\ UNCHANGED sweepErr
      BY <3>1, <3>3, <3>5
    <3> QED BY <3>2, <3>4, <3>5
  <2> QED BY <2>1, <2>2
<1>5. CASE Convert \/ EndOfOutput \/ ReadFails \/ Observe
  <2>1. CASE Convert BY <2>1 DEF Convert
  <2>2. CASE EndOfOutput BY <2>2 DEF EndOfOutput
  <2>3. CASE ReadFails BY <2>3 DEF ReadFails
  <2>4. CASE Observe
    <3>1. ownerErr' \in BOOLEAN /\ (ownerErr => ownerErr') BY <2>4 DEF Observe
    <3> QED BY <2>4, <3>1 DEF Observe
  <2> QED BY <1>5, <2>1, <2>2, <2>3, <2>4
<1>6. CASE Cancel
  BY <1>6 DEF Cancel, KillGroup, KillLeader
<1>7. CASE CallerHook \/ EnvelopeHook \/ Quit
  <2>1. CASE CallerHook BY <2>1 DEF CallerHook
  <2>2. CASE EnvelopeHook BY <2>2 DEF EnvelopeHook
  <2>3. CASE Quit
    <3>1. child' \in {child, "gone"} /\ cancelled' \in BOOLEAN /\ UNCHANGED finished
      BY <2>3 DEF Quit
    <3> QED BY <2>3, <3>1 DEF Quit
  <2> QED BY <1>7, <2>1, <2>2, <2>3
<1>8. CASE Timers
  <2>1. CASE EnvelopeExpires BY <2>1 DEF EnvelopeExpires
  <2>2. CASE GraceEnds BY <2>2 DEF GraceEnds
  <2>3. CASE DelayEnds BY <2>3 DEF DelayEnds
  <2> QED BY <1>8, <2>1, <2>2, <2>3 DEF Timers
<1>9. CASE CallerEnds
  BY <1>9 DEF CallerEnds
<1>10. CASE UNCHANGED vars
  BY <1>10 DEF vars
<1> QED
  BY <1>1, <1>2, <1>3, <1>4, <1>5, <1>6, <1>7, <1>8, <1>9, <1>10 DEF Next, Goroutines

\* Only a cancellation kills, only a quit starts a grace, only the sweep moves the
\* run on to its reap.
LEMMA Signallers ==
  ASSUME [Next]_vars
  PROVE  /\ killed' # killed => Cancel
         /\ atEnvelope = "armed" /\ atEnvelope' = "grace" => Quit
         /\ main = "wait" /\ main' = "reap" => Sweep
<1> USE DEF ctxVars, hostVars, outVars, ownVars, hookVars, endVars
<1>1. CASE Binary \/ Convert \/ EndOfOutput \/ ReadFails \/ Observe
  BY <1>1 DEF Binary, CloseOutput, Fork, Exit, DescendantEnds, Write, Convert, EndOfOutput,
              ReadFails, Observe
<1>2. CASE Refuse \/ Open \/ Start \/ StartFails \/ Collect \/ Reap \/ Judge \/ Return
  BY <1>2 DEF Refuse, Open, Start, StartFails, Collect, Reap, Judge, Return
<1>3. CASE Sweep
  BY <1>3 DEF Sweep
<1>4. CASE Cancel
  BY <1>4 DEF Cancel
<1>5. CASE Quit
  BY <1>5 DEF Quit
<1>6. CASE CallerHook \/ EnvelopeHook \/ Timers \/ CallerEnds
  BY <1>6 DEF CallerHook, EnvelopeHook, Timers, EnvelopeExpires, GraceEnds, DelayEnds, CallerEnds
<1>7. CASE UNCHANGED vars
  BY <1>7 DEF vars
<1> QED
  BY <1>1, <1>2, <1>3, <1>4, <1>5, <1>6, <1>7 DEF Next, Goroutines

LEMMA RunInvariant == Spec => []IInv
<1>1. Init => IInv BY InitIInv
<1>2. IInv /\ [Next]_vars => IInv' BY NextIInv
<1> QED BY <1>1, <1>2, PTL DEF Spec

LEMMA InitTypeOK == Init => TypeOK
<1> SUFFICES ASSUME Init PROVE TypeOK
  OBVIOUS
<1> USE RetainedAssumption DEF Init
<1>1. ControlOK /\ HostOK /\ OutputOK
  BY DEF ControlOK, HostOK, OutputOK
<1>2. SaidOK
  BY DEF SaidOK, Silence, Heard
<1> QED BY <1>1, <1>2 DEF TypeOK

LEMMA NextControlOK == ControlOK /\ [Next]_vars => ControlOK'
<1> SUFFICES ASSUME ControlOK, [Next]_vars PROVE ControlOK'
  OBVIOUS
<1> USE DEF ControlOK, ctxVars, hostVars, outVars, ownVars, hookVars, endVars
<1>1. CASE Binary
  BY <1>1 DEF Binary, CloseOutput, Fork, Exit, DescendantEnds, Write
<1>2. CASE Refuse \/ Open \/ Start \/ StartFails
  BY <1>2 DEF Refuse, Open, Start, StartFails
<1>3. CASE Collect \/ Reap \/ Judge \/ Return
  <2>1. CASE Collect \/ Reap BY <2>1 DEF Collect, Reap
  <2>2. CASE Judge
    <3>1. profileErr' \in BOOLEAN BY <2>2 DEF Judge
    <3> QED BY <2>2, <3>1 DEF Judge
  <2>3. CASE Return BY <2>3 DEF Return
  <2> QED BY <1>3, <2>1, <2>2, <2>3
<1>4. CASE Sweep
  <2>1. sweepErr' \in BOOLEAN
    <3>1. CASE ownerErr BY <1>4, <3>1 DEF Sweep
    <3>2. CASE ~ownerErr
      <4>1. sweepErr' = sweepErr \/ sweepErr' = TRUE BY <1>4, <3>2 DEF Sweep
      <4> QED BY <4>1
    <3> QED BY <3>1, <3>2
  <2>2. main' = "reap" /\ finished' = TRUE /\ UNCHANGED <<caller, ctx, cancelled, killed>>
    BY <1>4 DEF Sweep
  <2>3. UNCHANGED <<ownerErr, atCaller, atEnvelope, profileErr, interrupted>>
    BY <1>4 DEF Sweep
  <2> QED BY <2>1, <2>2, <2>3
<1>5. CASE Convert \/ EndOfOutput \/ ReadFails \/ Observe
  BY <1>5 DEF Convert, EndOfOutput, ReadFails, Observe
<1>6. CASE Cancel
  BY <1>6 DEF Cancel, KillGroup, KillLeader
<1>7. CASE CallerHook \/ EnvelopeHook \/ Quit
  BY <1>7 DEF CallerHook, EnvelopeHook, Quit
<1>8. CASE Timers \/ CallerEnds
  <2>1. CASE EnvelopeExpires BY <2>1 DEF EnvelopeExpires
  <2>2. CASE GraceEnds \/ DelayEnds BY <2>2 DEF GraceEnds, DelayEnds
  <2>3. CASE CallerEnds BY <2>3 DEF CallerEnds
  <2> QED BY <1>8, <2>1, <2>2, <2>3 DEF Timers
<1>9. CASE UNCHANGED vars
  BY <1>9 DEF vars
<1> QED
  BY <1>1, <1>2, <1>3, <1>4, <1>5, <1>6, <1>7, <1>8, <1>9 DEF Next, Goroutines

LEMMA NextHostOK == HostOK /\ [Next]_vars => HostOK'
<1> SUFFICES ASSUME HostOK, [Next]_vars PROVE HostOK'
  OBVIOUS
<1> USE DEF HostOK, ctxVars, hostVars, outVars, ownVars, hookVars, endVars
<1>1. CASE Binary
  BY <1>1 DEF Binary, CloseOutput, Fork, Exit, DescendantEnds, Write
<1>2. CASE Refuse \/ Open \/ Start \/ StartFails
  BY <1>2 DEF Refuse, Open, Start, StartFails
<1>3. CASE Collect \/ Reap \/ Judge \/ Return
  BY <1>3 DEF Collect, Reap, Judge, Return
<1>4. CASE Sweep
  BY <1>4 DEF Sweep, KillGroup, KillLeader
<1>5. CASE Convert \/ EndOfOutput \/ ReadFails \/ Observe
  BY <1>5 DEF Convert, EndOfOutput, ReadFails, Observe
<1>6. CASE Cancel
  BY <1>6 DEF Cancel, KillGroup, KillLeader
<1>7. CASE CallerHook \/ EnvelopeHook \/ Quit
  BY <1>7 DEF CallerHook, EnvelopeHook, Quit
<1>8. CASE Timers \/ CallerEnds
  BY <1>8 DEF Timers, EnvelopeExpires, GraceEnds, DelayEnds, CallerEnds
<1>9. CASE UNCHANGED vars
  BY <1>9 DEF vars
<1> QED
  BY <1>1, <1>2, <1>3, <1>4, <1>5, <1>6, <1>7, <1>8, <1>9 DEF Next, Goroutines

LEMMA NextOutputOK == OutputOK /\ [Next]_vars => OutputOK'
<1> SUFFICES ASSUME OutputOK, [Next]_vars PROVE OutputOK'
  OBVIOUS
<1> USE DEF OutputOK, ctxVars, hostVars, outVars, ownVars, hookVars, endVars
<1>1. CASE Binary
  BY <1>1 DEF Binary, CloseOutput, Fork, Exit, DescendantEnds, Write
<1>2. CASE Refuse \/ Open \/ Start \/ StartFails
  BY <1>2 DEF Refuse, Open, Start, StartFails
<1>3. CASE Collect \/ Reap \/ Judge \/ Return
  BY <1>3 DEF Collect, Reap, Judge, Return
<1>4. CASE Sweep
  BY <1>4 DEF Sweep, KillGroup, KillLeader
<1>5. CASE Convert \/ EndOfOutput \/ ReadFails \/ Observe
  BY <1>5 DEF Convert, EndOfOutput, ReadFails, Observe
<1>6. CASE Cancel
  BY <1>6 DEF Cancel, KillGroup, KillLeader
<1>7. CASE CallerHook \/ EnvelopeHook \/ Quit
  BY <1>7 DEF CallerHook, EnvelopeHook, Quit
<1>8. CASE Timers \/ CallerEnds
  BY <1>8 DEF Timers, EnvelopeExpires, GraceEnds, DelayEnds, CallerEnds
<1>9. CASE UNCHANGED vars
  BY <1>9 DEF vars
<1> QED
  BY <1>1, <1>2, <1>3, <1>4, <1>5, <1>6, <1>7, <1>8, <1>9 DEF Next, Goroutines

\* Lines move only as the binary writes one and the converter hears one.
LEMMA NextLines ==
  ASSUME [Next]_vars
  PROVE  UNCHANGED <<pipe, said, stream>> \/ Convert \/ \E line \in Line : Write(line)
<1> USE DEF ctxVars, hostVars, outVars, ownVars, hookVars, endVars
<1>1. CASE Binary
  BY <1>1 DEF Binary, CloseOutput, Fork, Exit, DescendantEnds, Write
<1>2. CASE Refuse \/ Open \/ Start \/ StartFails
  BY <1>2 DEF Refuse, Open, Start, StartFails
<1>3. CASE Collect \/ Reap \/ Judge \/ Return
  BY <1>3 DEF Collect, Reap, Judge, Return
<1>4. CASE Sweep
  BY <1>4 DEF Sweep, KillGroup, KillLeader
<1>5. CASE Convert \/ EndOfOutput \/ ReadFails \/ Observe
  BY <1>5 DEF Convert, EndOfOutput, ReadFails, Observe
<1>6. CASE Cancel
  BY <1>6 DEF Cancel, KillGroup, KillLeader
<1>7. CASE CallerHook \/ EnvelopeHook \/ Quit
  BY <1>7 DEF CallerHook, EnvelopeHook, Quit
<1>8. CASE Timers \/ CallerEnds
  BY <1>8 DEF Timers, EnvelopeExpires, GraceEnds, DelayEnds, CallerEnds
<1>9. CASE UNCHANGED vars
  BY <1>9 DEF vars
<1> QED
  BY <1>1, <1>2, <1>3, <1>4, <1>5, <1>6, <1>7, <1>8, <1>9 DEF Next, Goroutines

LEMMA HearHeard ==
  ASSUME NEW s \in Heard, NEW line
  PROVE  Hear(s, line) \in Heard
<1> DEFINE o == IF line \in {"run", "end"} THEN line = "run" ELSE s.open
           a == s.abort \/ line = "abort"
           v == IF line \in {"PASS", "FAIL"} THEN line ELSE s.verdict
<1>1. s.lines + 1 \in Nat
  BY DEF Heard
<1>2. o \in BOOLEAN
  BY DEF Heard
<1>3. a \in BOOLEAN
  BY DEF Heard
<1>4. v \in {"none", "PASS", "FAIL"}
  BY DEF Heard
<1> HIDE DEF o, a, v
<1>5. [lines |-> s.lines + 1, open |-> o, abort |-> a, verdict |-> v] \in Heard
  BY <1>1, <1>2, <1>3, <1>4 DEF Heard
<1> QED BY <1>5 DEF Hear, o, a, v

LEMMA NextSaidOK == SaidOK /\ [Next]_vars => SaidOK'
<1> SUFFICES ASSUME SaidOK, [Next]_vars PROVE SaidOK'
  OBVIOUS
<1>1. CASE UNCHANGED <<pipe, said, stream>>
  BY <1>1 DEF SaidOK
<1>2. CASE Convert
  <2>1. stream' \in Heard
    BY <1>2, HearHeard DEF Convert, SaidOK
  <2>2. Tail(pipe) \in Seq(Line) /\ Len(Tail(pipe)) <= PipeCap
    BY <1>2, RetainedAssumption DEF Convert, SaidOK
  <2> QED BY <1>2, <2>1, <2>2 DEF Convert, SaidOK, outVars
<1>3. ASSUME NEW line \in Line, Write(line) PROVE SaidOK'
  <2>1. said' \in Heard
    BY <1>3, HearHeard DEF Write, SaidOK
  <2>2. Append(pipe, line) \in Seq(Line) /\ Len(Append(pipe, line)) <= PipeCap
    BY <1>3, RetainedAssumption DEF Write, SaidOK
  <2> QED BY <1>3, <2>1, <2>2 DEF Write, SaidOK
<1> QED BY <1>1, <1>2, <1>3, NextLines

\* A failure is counted as it happens, and only within the bound.
LEMMA NextFaults ==
  ASSUME [Next]_vars
  PROVE  faults' = faults \/ (faults < MaxFaults /\ faults' = faults + 1)
<1> USE DEF MayFail
<1>1. CASE Binary
  BY <1>1 DEF Binary, CloseOutput, Fork, Exit, DescendantEnds, Write
<1>2. CASE Refuse \/ Open \/ Start \/ StartFails
  BY <1>2 DEF Refuse, Open, Start, StartFails
<1>3. CASE Collect \/ Reap \/ Judge \/ Return
  BY <1>3 DEF Collect, Reap, Judge, Return
<1>4. CASE Sweep
  BY <1>4 DEF Sweep, KillGroup, KillLeader
<1>5. CASE Convert \/ EndOfOutput \/ ReadFails \/ Observe
  BY <1>5 DEF Convert, EndOfOutput, ReadFails, Observe
<1>6. CASE Cancel
  BY <1>6 DEF Cancel, KillGroup, KillLeader
<1>7. CASE CallerHook \/ EnvelopeHook \/ Quit
  BY <1>7 DEF CallerHook, EnvelopeHook, Quit
<1>8. CASE Timers \/ CallerEnds
  BY <1>8 DEF Timers, EnvelopeExpires, GraceEnds, DelayEnds, CallerEnds
<1>9. CASE UNCHANGED vars
  BY <1>9 DEF vars
<1> QED
  BY <1>1, <1>2, <1>3, <1>4, <1>5, <1>6, <1>7, <1>8, <1>9 DEF Next, Goroutines

LEMMA NextTypeOK == TypeOK /\ [Next]_vars => TypeOK'
<1> SUFFICES ASSUME TypeOK, [Next]_vars PROVE TypeOK'
  OBVIOUS
<1>1. faults' \in 0..MaxFaults
  BY NextFaults, RetainedAssumption DEF TypeOK
<1> QED BY <1>1, NextControlOK, NextHostOK, NextOutputOK, NextSaidOK DEF TypeOK

-----------------------------------------------------------------------------
\* The types of every variable, and that the pipe holds no more than it can.
THEOREM RunTypes == Spec => []TypeOK
<1>1. Init => TypeOK BY InitTypeOK
<1>2. TypeOK /\ [Next]_vars => TypeOK' BY NextTypeOK
<1> QED BY <1>1, <1>2, PTL DEF Spec

\* A run that returned, whichever way it ended, has reaped its leader and swept
\* its group (runRetained and retainedCommand.Wait): for any pipe, any output
\* and any number of faults, unless the host refused the sweep itself.
THEOREM GroupSwept == Spec => []NothingLeftBehind
<1>1. IInv => NothingLeftBehind
  BY DEF IInv, Typed, Owned, Swept, NothingLeftBehind, Started
<1> QED BY <1>1, RunInvariant, PTL

\* No cancellation, quit or sweep signals the group of a leader that has been
\* reaped, however late its goroutine gets to run (retainedCommand.finished).
THEOREM SignalsOwned == Spec => NoStraySignal
<1>1. ASSUME IInv, [Next]_vars, leader = "reaped"
      PROVE  /\ ~(killed' /\ ~killed)
             /\ ~(atEnvelope = "armed" /\ atEnvelope' = "grace" /\ ~finished)
             /\ ~(main = "wait" /\ main' = "reap")
  <2>1. finished
    BY <1>1 DEF IInv, Typed, Owned, Swept
  <2>2. ~Cancel
    BY <2>1 DEF Cancel
  <2>3. main # "wait"
    BY <1>1 DEF IInv, Owned
  <2> QED BY <1>1, <2>1, <2>2, <2>3, Signallers
<1>2. IInv /\ [Next]_vars =>
        [ ((killed' /\ ~killed) \/ (atEnvelope = "armed" /\ atEnvelope' = "grace" /\ ~finished)
           \/ (main = "wait" /\ main' = "reap")) => leader # "reaped" ]_vars
  BY <1>1
<1> QED BY <1>2, RunInvariant, PTL DEF NoStraySignal, Spec

\* While the caller lives, nothing kills a binary before its envelope's grace
\* is over but a dump that cannot be asked for or heard (runRetained's hooks).
THEOREM GraceGiven == Spec => GraceKept
<1>1. ASSUME IInv, [Next]_vars, killed' /\ ~killed, caller = "live"
      PROVE  conversionErr \/ faults > 0 \/ atEnvelope \in {"delay", "done"}
  <2>1. cancelled
    BY <1>1, Signallers DEF Cancel, IInv, Typed
  <2> QED BY <1>1, <2>1 DEF IInv, Typed, Reasons
<1>2. IInv /\ [Next]_vars =>
        [ (killed' /\ ~killed /\ caller = "live") =>
             conversionErr \/ faults > 0 \/ atEnvelope \in {"delay", "done"} ]_vars
  BY <1>1
<1> QED BY <1>2, RunInvariant, PTL DEF GraceKept, Spec

-----------------------------------------------------------------------------
(* What was heard of what was said.  The pipe holds what the parser has yet *)
(* to hear: h follows the parser through it, line by line, to what was      *)
(* written.  A state of the parser per prefix says so without folding over  *)
(* the pipe.                                                                *)

Follows(h, lines) == \A i \in 1..Len(lines) : h[i] = Hear(h[i - 1], lines[i])

Leads(h) == h[0] = stream /\ h[Len(pipe)] = said /\ Follows(h, pipe)

Pending == \E h : Leads(h)

\* Before the binary starts nobody reads or holds the output; runRetained waits
\* for the converter; a conversion that met no error met the end of an output
\* nobody can write to any more.
Drained ==
  /\ main \in {"new", "open"} => converter = "off"
  /\ main \in {"wait", "reap", "judge", "ending", "returned"} /\ leader # "none" => converter = "done"
  /\ converter = "done" => conversionErr \/ (pipe = <<>> /\ ~Held)

\* A hook fires at the end of a context, and an ended context stays ended.  So a
\* cancellation of the run itself is an interruption it reports, or follows a
\* conversion that failed: it cannot come after the interruption was judged.
Accounted ==
  /\ caller = "ended" \/ atEnvelope \in {"grace", "delay"} => ctx # "live"
  /\ killed => cancelled
  /\ cancelled => conversionErr \/ (IF main = "returned" THEN interrupted ELSE ctx # "live")

WInv == IInv /\ SaidOK /\ Pending /\ Drained /\ Accounted

LEMMA InitWhole == Init => Pending /\ Drained /\ Accounted
<1> SUFFICES ASSUME Init PROVE Pending /\ Drained /\ Accounted
  OBVIOUS
<1>1. Leads([i \in {0} |-> stream])
  BY DEF Init, Leads, Follows
<1>2. Drained /\ Accounted
  BY DEF Init, Drained, Accounted
<1> QED BY <1>1, <1>2 DEF Pending

LEMMA NextPending ==
  ASSUME SaidOK, Pending, [Next]_vars
  PROVE  Pending'
<1> PICK h : Leads(h)
  BY DEF Pending
<1> DEFINE n == Len(pipe)
<1>1. n \in Nat /\ pipe \in Seq(Line)
  BY DEF SaidOK
<1>2. CASE UNCHANGED <<pipe, said, stream>>
  <2>1. Leads(h)'
    BY <1>2 DEF Leads, Follows
  <2> QED BY <2>1 DEF Pending
<1>3. CASE Convert
  <2> PICK g : g = [i \in 0..(n - 1) |-> h[i + 1]]
    OBVIOUS
  <2>1. pipe # <<>> /\ pipe' = Tail(pipe) /\ stream' = Hear(stream, Head(pipe)) /\ said' = said
    BY <1>3 DEF Convert
  <2>2. /\ n >= 1 /\ Len(pipe') = n - 1 /\ Head(pipe) = pipe[1]
        /\ \A i \in 1..(n - 1) : pipe'[i] = pipe[i + 1]
    BY <1>1, <2>1
  <2>3. g[0] = stream'
    BY <1>1, <2>1, <2>2 DEF Leads, Follows
  <2>4. g[Len(pipe')] = said'
    BY <1>1, <2>1, <2>2 DEF Leads
  <2>5. ASSUME NEW i \in 1..(n - 1) PROVE g[i] = Hear(g[i - 1], pipe'[i])
    <3>1. i + 1 \in 1..n /\ i \in 0..(n - 1) /\ i - 1 \in 0..(n - 1) /\ (i + 1) - 1 = i /\ (i - 1) + 1 = i
      BY <1>1
    <3>2. h[i + 1] = Hear(h[i], pipe[i + 1])
      BY <3>1 DEF Leads, Follows
    <3> QED BY <2>2, <3>1, <3>2
  <2>6. Leads(g)'
    BY <2>2, <2>3, <2>4, <2>5 DEF Leads, Follows
  <2> QED BY <2>6 DEF Pending
<1>4. ASSUME NEW line \in Line, Write(line) PROVE Pending'
  <2> PICK g : g = [i \in 0..(n + 1) |-> IF i <= n THEN h[i] ELSE Hear(h[n], line)]
    OBVIOUS
  <2>1. pipe' = Append(pipe, line) /\ stream' = stream /\ said' = Hear(said, line)
    BY <1>4 DEF Write
  <2>2. /\ Len(pipe') = n + 1 /\ pipe'[n + 1] = line
        /\ \A i \in 1..n : pipe'[i] = pipe[i]
    BY <1>1, <2>1
  <2>3. g[0] = stream' /\ g[Len(pipe')] = said'
    BY <1>1, <2>1, <2>2 DEF Leads
  <2>4. ASSUME NEW i \in 1..(n + 1) PROVE g[i] = Hear(g[i - 1], pipe'[i])
    <3>1. CASE i = n + 1
      <4>1. g[i] = Hear(h[n], line) /\ g[i - 1] = h[n]
        BY <1>1, <3>1
      <4> QED BY <2>2, <3>1, <4>1
    <3>2. CASE i # n + 1
      <4>1. i \in 1..n /\ i - 1 \in 0..n
        BY <1>1, <3>2
      <4>2. g[i] = h[i] /\ g[i - 1] = h[i - 1]
        BY <1>1, <4>1
      <4> QED BY <2>2, <4>1, <4>2 DEF Leads, Follows
    <3> QED BY <3>1, <3>2
  <2>5. Leads(g)'
    BY <2>2, <2>3, <2>4 DEF Leads, Follows
  <2> QED BY <2>5 DEF Pending
<1> QED BY <1>2, <1>3, <1>4, NextLines

LEMMA NextWhole ==
  ASSUME IInv, Drained, Accounted, [Next]_vars
  PROVE  Drained' /\ Accounted'
<1> USE DEF IInv, Typed, Owned, Drained, Accounted, Held, Started, ctxVars, hostVars, outVars,
        ownVars, hookVars, endVars
<1>1. CASE Binary
  BY <1>1 DEF Binary, CloseOutput, Fork, Exit, DescendantEnds, Write
<1>2. CASE Refuse \/ Open \/ Start \/ StartFails
  BY <1>2 DEF Refuse, Open, Start, StartFails
<1>3. CASE Collect \/ Reap \/ Judge \/ Return
  BY <1>3 DEF Collect, Reap, Judge, Return
<1>4. CASE Sweep
  BY <1>4 DEF Sweep, KillGroup, KillLeader
<1>5. CASE Convert \/ EndOfOutput \/ ReadFails \/ Observe
  BY <1>5 DEF Convert, EndOfOutput, ReadFails, Observe
<1>6. CASE Cancel
  <2>1. /\ killed' = TRUE /\ cancelled /\ leader # "none"
        /\ UNCHANGED <<caller, ctx, main, escaped, parentEnd, pipe, converter, conversionErr,
                       cancelled, interrupted, atEnvelope>>
    BY <1>6 DEF Cancel, KillGroup
  <2>2. child' \in {child, "gone"}
    BY <1>6 DEF Cancel, KillGroup
  <2>3. leader' # "none" /\ (leaderEnd' => leaderEnd)
    BY <1>6 DEF Cancel, KillGroup, KillLeader
  <2> QED BY <2>1, <2>2, <2>3
<1>7. CASE CallerHook \/ EnvelopeHook \/ Quit
  <2>1. CASE CallerHook BY <2>1 DEF CallerHook
  <2>2. CASE EnvelopeHook BY <2>2 DEF EnvelopeHook
  <2>3. CASE Quit
    <3>1. /\ ctx = "expired" /\ main # "returned" /\ killed' = killed
          /\ UNCHANGED <<ctx, main, leader, leaderEnd, escaped, parentEnd, pipe, converter,
                         conversionErr, interrupted>>
      BY <2>3 DEF Quit
    <3>2. child' \in {child, "gone"}
      BY <2>3 DEF Quit
    <3>3. cancelled => cancelled'
      BY <2>3 DEF Quit
    <3> QED BY <3>1, <3>2, <3>3
  <2> QED BY <1>7, <2>1, <2>2, <2>3
<1>8. CASE Timers \/ CallerEnds
  <2>1. CASE EnvelopeExpires BY <2>1 DEF EnvelopeExpires
  <2>2. CASE GraceEnds BY <2>2 DEF GraceEnds
  <2>3. CASE DelayEnds BY <2>3 DEF DelayEnds
  <2>4. CASE CallerEnds BY <2>4 DEF CallerEnds
  <2> QED BY <1>8, <2>1, <2>2, <2>3, <2>4 DEF Timers
<1>9. CASE UNCHANGED vars
  BY <1>9 DEF vars
<1> QED
  BY <1>1, <1>2, <1>3, <1>4, <1>5, <1>6, <1>7, <1>8, <1>9 DEF Next, Goroutines

LEMMA WholeInvariant == Spec => []WInv
<1>1. Init => WInv
  BY InitIInv, InitTypeOK, InitWhole DEF TypeOK, WInv
<1>2. WInv /\ [Next]_vars => WInv'
  BY NextIInv, NextSaidOK, NextPending, NextWhole DEF WInv
<1> QED BY <1>1, <1>2, PTL DEF Spec

\* What was heard is all that was said once an output that converted without
\* error has ended; a kill is never behind a verdict.
LEMMA VerdictWhole ==
  ASSUME WInv
  PROVE  VerdictIsWhole
<1> SUFFICES ASSUME main = "returned", HarnessComplete \/ Disposition \in {"healthy", "failed"}
             PROVE  stream = said /\ ~killed
  BY DEF VerdictIsWhole
<1>1. ~interrupted /\ leader # "none" /\ ~conversionErr
  <2>1. CASE HarnessComplete
    BY <2>1 DEF HarnessComplete
  <2>2. CASE Disposition \in {"healthy", "failed"}
    BY <2>2 DEF Disposition
  <2> QED BY <2>1, <2>2
<1>2. pipe = <<>>
  BY <1>1 DEF WInv, Drained
<1>3. stream = said
  BY <1>2 DEF WInv, Pending, Leads
<1>4. ~killed
  BY <1>1 DEF WInv, Accounted
<1> QED BY <1>3, <1>4

\* A package is judged, and its harness called complete, only on the whole of
\* what its binary and the binary's descendants wrote, and never after a kill of
\* the run's own (runRetained's deferred Interrupted, Classify): whatever the
\* pipe holds, however much is written and whichever operation fails.
THEOREM WholeVerdict == Spec => []VerdictIsWhole
<1> QED BY WholeInvariant, VerdictWhole, PTL
=============================================================================
