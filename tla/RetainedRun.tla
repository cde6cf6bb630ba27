---------------------------- MODULE RetainedRun ----------------------------
(***************************************************************************)
(* One retained test binary: golang/retainedrun.go over the process owner  *)
(* of retainedbuild.go, and the verdict of execute.go.  The binary leads a *)
(* process group and writes to one OS pipe; a converter goroutine reads    *)
(* it, an observer waits for the exit without reaping, and the run ends    *)
(* when both have, the group is swept and the leader reaped.  The          *)
(* operation's context (the caller) may be cancelled and the invocation's  *)
(* envelope may expire at any moment: the first kills, the second asks for *)
(* a dump, grants a grace, and then kills.                                 *)
(*                                                                         *)
(* The host observes an exit without reaping (Linux, the BSDs, Darwin).    *)
(* The parser reads each event as the converter writes it: they share an   *)
(* unbuffered pipe, so the two are one step.                               *)
(***************************************************************************)
EXTENDS Naturals, Sequences

CONSTANTS
  Line,        \* what the binary may say: of what the classifier tells apart, a test
               \* starts or ends, an abort (a panic, a runtime fatal), a verdict
  PipeCap,     \* lines the OS pipe holds
  MaxLines,    \* bound: lines the binary writes
  MaxFaults    \* bound: operations of the run or of the host that fail

ASSUME RetainedAssumption ==
  /\ Line \subseteq {"run", "end", "abort", "PASS", "FAIL"}
  /\ PipeCap \in Nat \ {0} /\ MaxLines \in Nat /\ MaxFaults \in Nat

VARIABLES
  caller,      \* the operation's context: "live" or "ended"
  ctx,         \* the invocation's: "live", "cancelled" or "expired"
  main,        \* where runRetained is
  cancelled,   \* binCtx is done
  killed,      \* cancelOnce: the group's kill has been sent
  finished,    \* retainedCommand.finished: its identity is no longer signalled
  leader,      \* "none", "running", "exited" (waitable) or "reaped"
  code,        \* how the leader ended: an exit code, or by a signal
  child,       \* a descendant in the group: "none", "holding" its output, "gone"
  escaped,     \* a descendant that left the group, likewise
  parentEnd, leaderEnd,   \* the parent's and the leader's write ends are open
  readEnd,     \* the parent's read end is open
  pipe,        \* lines written and not read
  said,        \* history: what was written, as the parser would hear it
  stream,      \* what the parser heard
  converter,   \* "off", "reading" or "done"
  conversionErr,
  observer,    \* "off", "waiting" or "done"
  ownerErr,    \* the observation failed
  sweepErr,    \* the sweep failed
  profileErr,  \* merging the profile or publishing the companion failed
  atCaller,    \* the hook on the caller's end: "off", "armed" or "done"
  atEnvelope,  \* the one on the envelope's: "off", "armed", "grace", "delay", "done"
  interrupted, \* Interrupted, as returned
  faults

hostVars == <<leader, code, child, escaped, leaderEnd>>
outVars  == <<parentEnd, readEnd, pipe, said, stream, converter, conversionErr>>
ownVars  == <<cancelled, killed, finished, observer, ownerErr, sweepErr>>
hookVars == <<atCaller, atEnvelope>>
endVars  == <<profileErr, interrupted>>
ctxVars  == <<caller, ctx>>
vars == <<ctxVars, main, hostVars, outVars, ownVars, hookVars, endVars, faults>>

Silence == [lines |-> 0, open |-> FALSE, abort |-> FALSE, verdict |-> "none"]

\* parseTestStream over the converter's events: the last verdict stands, and
\* becomes the terminal event when the converter closes.
Hear(s, line) ==
  [lines |-> s.lines + 1,
   open |-> IF line \in {"run", "end"} THEN line = "run" ELSE s.open,
   abort |-> s.abort \/ line = "abort",
   verdict |-> IF line \in {"PASS", "FAIL"} THEN line ELSE s.verdict]

Init ==
  /\ caller = "live" /\ ctx = "live"
  /\ main = "new"
  /\ cancelled = FALSE /\ killed = FALSE /\ finished = FALSE
  /\ leader = "none" /\ code = "none" /\ child = "none" /\ escaped = "none"
  /\ parentEnd = FALSE /\ leaderEnd = FALSE /\ readEnd = FALSE
  /\ pipe = <<>> /\ said = Silence /\ stream = Silence
  /\ converter = "off" /\ conversionErr = FALSE
  /\ observer = "off" /\ ownerErr = FALSE /\ sweepErr = FALSE
  /\ profileErr = FALSE
  /\ atCaller = "off" /\ atEnvelope = "off"
  /\ interrupted = FALSE
  /\ faults = 0

Started == leader # "none"
MayFail == faults < MaxFaults

-----------------------------------------------------------------------------
(* The contexts.  The invocation's is derived from the caller's. *)

CallerEnds ==
  /\ caller = "live"
  /\ caller' = "ended"
  /\ ctx' = IF ctx = "live" THEN "cancelled" ELSE ctx
  /\ UNCHANGED <<main, hostVars, outVars, ownVars, hookVars, endVars, faults>>

EnvelopeExpires ==
  /\ ctx = "live"
  /\ ctx' = "expired"
  /\ UNCHANGED <<caller, main, hostVars, outVars, ownVars, hookVars, endVars, faults>>

-----------------------------------------------------------------------------
(* The binary and its descendants. *)

\* Whoever of them holds the pipe may write.
Write(line) ==
  /\ leaderEnd \/ child = "holding" \/ escaped = "holding"
  /\ readEnd
  /\ said.lines < MaxLines /\ Len(pipe) < PipeCap
  /\ pipe' = Append(pipe, line)
  /\ said' = Hear(said, line)
  /\ UNCHANGED <<ctxVars, main, hostVars, parentEnd, readEnd, stream, converter, conversionErr,
                 ownVars, hookVars, endVars, faults>>

CloseOutput ==
  /\ leader = "running" /\ leaderEnd
  /\ leaderEnd' = FALSE
  /\ UNCHANGED <<ctxVars, main, leader, code, child, escaped, outVars, ownVars, hookVars, endVars,
                 faults>>

Fork ==
  /\ leader = "running" /\ leaderEnd
  /\ \/ child = "none" /\ child' = "holding" /\ UNCHANGED escaped
     \/ escaped = "none" /\ escaped' = "holding" /\ UNCHANGED child
  /\ UNCHANGED <<ctxVars, main, leader, code, leaderEnd, outVars, ownVars, hookVars, endVars, faults>>

\* The leader exits, or dies of a signal that is not the run's (a write to a
\* pipe nobody reads is one).
Exit ==
  /\ leader = "running"
  /\ leader' = "exited"
  /\ leaderEnd' = FALSE
  /\ code' \in {"0", "1", "2", "signal"}
  /\ UNCHANGED <<ctxVars, main, child, escaped, outVars, ownVars, hookVars, endVars, faults>>

DescendantEnds ==
  /\ \/ child = "holding" /\ child' = "gone" /\ UNCHANGED escaped
     \/ escaped = "holding" /\ escaped' = "gone" /\ UNCHANGED child
  /\ UNCHANGED <<ctxVars, main, leader, code, leaderEnd, outVars, ownVars, hookVars, endVars, faults>>

\* What a kill of the group does to it.
KillLeader ==
  IF leader = "running"
  THEN leader' = "exited" /\ code' = "signal" /\ leaderEnd' = FALSE
  ELSE UNCHANGED <<leader, code, leaderEnd>>
KillGroup ==
  /\ KillLeader
  /\ child' = IF child = "holding" THEN "gone" ELSE child
  /\ UNCHANGED escaped

-----------------------------------------------------------------------------
(* runRetained. *)

\* The context is over, or the telemetry refusal, the program or the pipe fails.
Refuse ==
  /\ main = "new"
  /\ ctx # "live" \/ MayFail
  /\ faults' = IF ctx = "live" THEN faults + 1 ELSE faults
  /\ main' = "returned"
  /\ interrupted' = (ctx # "live")
  /\ UNCHANGED <<ctxVars, hostVars, outVars, ownVars, hookVars, profileErr>>

\* The pipe is open and the caller's end is watched.
Open ==
  /\ main = "new" /\ ctx = "live"
  /\ main' = "open"
  /\ parentEnd' = TRUE /\ readEnd' = TRUE
  /\ atCaller' = "armed"
  /\ UNCHANGED <<ctxVars, hostVars, pipe, said, stream, converter, conversionErr, ownVars,
                 atEnvelope, endVars, faults>>

\* The binary starts, with its goroutines ...
Start ==
  /\ main = "open" /\ ~cancelled
  /\ leader' = "running" /\ leaderEnd' = TRUE
  /\ main' = "parse"
  /\ converter' = "reading" /\ observer' = "waiting" /\ atEnvelope' = "armed"
  /\ UNCHANGED <<ctxVars, code, child, escaped, parentEnd, readEnd, pipe, said, stream,
                 conversionErr, cancelled, killed, finished, ownerErr, sweepErr, atCaller, endVars,
                 faults>>

\* ... or does not: its context is over, or the start fails.  The parent's own
\* write end closes, so the converter meets the end of an empty output.
StartFails ==
  /\ main = "open"
  /\ cancelled \/ MayFail
  /\ faults' = IF cancelled THEN faults ELSE faults + 1
  /\ main' = "parse"
  /\ parentEnd' = FALSE
  /\ converter' = "reading" /\ observer' = "done" /\ atEnvelope' = "armed"
  /\ UNCHANGED <<ctxVars, hostVars, readEnd, pipe, said, stream, conversionErr, cancelled, killed,
                 finished, ownerErr, sweepErr, atCaller, endVars>>

Convert ==
  /\ converter = "reading" /\ readEnd /\ pipe # <<>>
  /\ stream' = Hear(stream, Head(pipe))
  /\ pipe' = Tail(pipe)
  /\ UNCHANGED <<ctxVars, main, hostVars, parentEnd, readEnd, said, converter, conversionErr,
                 ownVars, hookVars, endVars, faults>>

Held == parentEnd \/ leaderEnd \/ child = "holding" \/ escaped = "holding"

EndOfOutput ==
  /\ converter = "reading" /\ readEnd /\ pipe = <<>> /\ ~Held
  /\ converter' = "done"
  /\ UNCHANGED <<ctxVars, main, hostVars, parentEnd, readEnd, pipe, said, stream, conversionErr,
                 ownVars, hookVars, endVars, faults>>

\* Mutant of ReadFails: the converter's error is dropped.
ReadFails_Silent ==
  /\ converter = "reading"
  /\ ~readEnd \/ MayFail
  /\ faults' = IF readEnd THEN faults + 1 ELSE faults
  /\ converter' = "done"
  /\ cancelled' = TRUE
  /\ UNCHANGED <<ctxVars, main, hostVars, parentEnd, readEnd, pipe, said, stream, conversionErr,
                 killed, finished, observer, ownerErr, sweepErr, hookVars, endVars>>

\* The read end was closed under the converter, or a read fails: the binary has
\* nobody to report to any more and is cancelled.
ReadFails ==
  /\ converter = "reading"
  /\ ~readEnd \/ MayFail
  /\ faults' = IF readEnd THEN faults + 1 ELSE faults
  /\ converter' = "done" /\ conversionErr' = TRUE
  /\ cancelled' = TRUE
  /\ UNCHANGED <<ctxVars, main, hostVars, parentEnd, readEnd, pipe, said, stream, killed, finished,
                 observer, ownerErr, sweepErr, hookVars, endVars>>

\* The observer sees the exit without reaping, or fails to look; either way the
\* parent's write end closes.
Observe ==
  /\ observer = "waiting"
  /\ \/ leader = "exited" /\ UNCHANGED <<ownerErr, faults>>
     \/ MayFail /\ ownerErr' = TRUE /\ faults' = faults + 1
  /\ observer' = "done"
  /\ parentEnd' = FALSE
  /\ UNCHANGED <<ctxVars, main, hostVars, readEnd, pipe, said, stream, converter, conversionErr,
                 cancelled, killed, finished, sweepErr, hookVars, endVars>>

\* Parsed, converted and exited are all received.
Collect ==
  /\ main = "parse" /\ converter = "done" /\ observer = "done"
  /\ main' = IF Started THEN "wait" ELSE "judge"
  /\ UNCHANGED <<ctxVars, hostVars, outVars, ownVars, hookVars, endVars, faults>>

\* Mutants of Sweep: the identity is given up only after the reap; descendants
\* of a leader that exited by itself are left alone.
Sweep_Late ==
  /\ main = "wait"
  /\ IF ownerErr
     THEN KillLeader /\ UNCHANGED <<child, escaped, sweepErr, faults>>
     ELSE KillGroup /\ UNCHANGED <<sweepErr, faults>>
  /\ main' = "reap"
  /\ UNCHANGED <<ctxVars, outVars, cancelled, killed, finished, observer, ownerErr, hookVars, endVars>>
Sweep_Killed ==
  /\ main = "wait"
  /\ finished' = TRUE
  /\ IF ownerErr THEN KillLeader /\ UNCHANGED <<child, escaped, sweepErr, faults>>
     ELSE IF killed THEN KillGroup /\ UNCHANGED <<sweepErr, faults>>
     ELSE UNCHANGED <<hostVars, sweepErr, faults>>
  /\ main' = "reap"
  /\ UNCHANGED <<ctxVars, outVars, cancelled, killed, observer, ownerErr, hookVars, endVars>>

\* Wait, under the signals lock: no signal follows the sweep.  A leader whose
\* exit could not be observed is killed alone.
Sweep ==
  /\ main = "wait"
  /\ finished' = TRUE
  /\ IF ownerErr
     THEN KillLeader /\ UNCHANGED <<child, escaped, sweepErr, faults>>
     ELSE \/ KillGroup /\ UNCHANGED <<sweepErr, faults>>
          \/ MayFail /\ sweepErr' = TRUE /\ faults' = faults + 1 /\ UNCHANGED hostVars
  /\ main' = "reap"
  /\ UNCHANGED <<ctxVars, outVars, cancelled, killed, observer, ownerErr, hookVars, endVars>>

Reap ==
  /\ main = "reap" /\ leader = "exited"
  /\ leader' = "reaped"
  /\ main' = "judge"
  /\ UNCHANGED <<ctxVars, code, child, escaped, leaderEnd, outVars, ownVars, hookVars, endVars, faults>>

\* The profile fragment is merged and, of a binary that ran undisturbed, the
\* companion published; either may fail.
Judge ==
  /\ main = "judge"
  /\ \/ UNCHANGED <<profileErr, faults>>
     \/ MayFail /\ profileErr' = TRUE /\ faults' = faults + 1
  /\ main' = "ending"
  /\ UNCHANGED <<ctxVars, hostVars, outVars, ownVars, hookVars, interrupted>>

\* The deferred calls: the interruption is judged last, the hooks are stopped.
Return ==
  /\ main = "ending"
  /\ main' = "returned"
  /\ interrupted' = (ctx # "live")
  /\ UNCHANGED <<ctxVars, hostVars, outVars, ownVars, hookVars, profileErr, faults>>

-----------------------------------------------------------------------------
(* The hooks: goroutines of their own from the moment they fire. *)

\* binCtx is over: os/exec's watcher or the owner's, whichever comes first,
\* kills the group once, unless its identity has been given up.
Cancel ==
  /\ cancelled /\ Started /\ ~killed /\ ~finished
  /\ killed' = TRUE
  /\ KillGroup
  /\ UNCHANGED <<ctxVars, main, outVars, cancelled, finished, observer, ownerErr, sweepErr,
                 hookVars, endVars, faults>>

\* Mutant of CallerHook: it leaves an expired envelope its grace.
CallerHook_Patient ==
  /\ atCaller = "armed" /\ caller = "ended" /\ main # "returned"
  /\ atEnvelope # "grace"
  /\ atCaller' = "done"
  /\ cancelled' = TRUE
  /\ readEnd' = FALSE
  /\ UNCHANGED <<ctxVars, main, hostVars, parentEnd, pipe, said, stream, converter, conversionErr,
                 killed, finished, observer, ownerErr, sweepErr, atEnvelope, endVars, faults>>

\* The caller's end cancels the binary and closes the read end: a holder of the
\* pipe that escaped the group cannot keep the run in its read.
CallerHook ==
  /\ atCaller = "armed" /\ caller = "ended" /\ main # "returned"
  /\ atCaller' = "done"
  /\ cancelled' = TRUE
  /\ readEnd' = FALSE
  /\ UNCHANGED <<ctxVars, main, hostVars, parentEnd, pipe, said, stream, converter, conversionErr,
                 killed, finished, observer, ownerErr, sweepErr, atEnvelope, endVars, faults>>

EnvelopeHook ==
  /\ atEnvelope = "armed" /\ ctx # "live" /\ main # "returned"
  /\ ctx # "expired" \/ ~Started
  /\ atEnvelope' = "done"
  /\ cancelled' = TRUE
  /\ readEnd' = FALSE
  /\ UNCHANGED <<ctxVars, main, hostVars, parentEnd, pipe, said, stream, converter, conversionErr,
                 killed, finished, observer, ownerErr, sweepErr, atCaller, endVars, faults>>

\* Mutant of Quit: the binary is killed with its dump unsaid.
Quit_Kills ==
  /\ atEnvelope = "armed" /\ ctx = "expired" /\ Started /\ main # "returned"
  /\ atEnvelope' = "grace"
  /\ cancelled' = TRUE
  /\ UNCHANGED <<ctxVars, main, hostVars, outVars, killed, finished, observer, ownerErr, sweepErr,
                 atCaller, endVars, faults>>

\* The envelope has expired: the group is asked for a dump.  The leader answers
\* by writing and exiting, or ignores it; a child may die of it.
Quit ==
  /\ atEnvelope = "armed" /\ ctx = "expired" /\ Started /\ main # "returned"
  /\ atEnvelope' = "grace"
  /\ IF finished
     THEN UNCHANGED <<child, cancelled, faults>>
     ELSE \/ /\ child' \in {child, IF child = "holding" THEN "gone" ELSE child}
             /\ UNCHANGED <<cancelled, faults>>
          \/ /\ MayFail /\ cancelled' = TRUE /\ faults' = faults + 1
             /\ UNCHANGED child
  /\ UNCHANGED <<ctxVars, main, leader, code, escaped, leaderEnd, outVars, killed, finished,
                 observer, ownerErr, sweepErr, atCaller, endVars>>

\* Mutant of GraceEnds: the kill is the last resort.
GraceEnds_Last ==
  /\ atEnvelope = "grace" /\ main # "returned"
  /\ atEnvelope' = "done"
  /\ cancelled' = TRUE
  /\ UNCHANGED <<ctxVars, main, hostVars, outVars, killed, finished, observer, ownerErr, sweepErr,
                 atCaller, endVars, faults>>

GraceEnds ==
  /\ atEnvelope = "grace" /\ main # "returned"
  /\ atEnvelope' = "delay"
  /\ cancelled' = TRUE
  /\ UNCHANGED <<ctxVars, main, hostVars, outVars, killed, finished, observer, ownerErr, sweepErr,
                 atCaller, endVars, faults>>

DelayEnds ==
  /\ atEnvelope = "delay" /\ main # "returned"
  /\ atEnvelope' = "done"
  /\ readEnd' = FALSE
  /\ UNCHANGED <<ctxVars, main, hostVars, parentEnd, pipe, said, stream, converter, conversionErr,
                 ownVars, atCaller, endVars, faults>>

-----------------------------------------------------------------------------

Binary == CloseOutput \/ Fork \/ Exit \/ DescendantEnds \/ \E line \in Line : Write(line)

Goroutines ==
  \/ Refuse \/ Open \/ Start \/ StartFails \/ Collect \/ Sweep \/ Reap \/ Judge \/ Return
  \/ Convert \/ EndOfOutput \/ ReadFails \/ Observe
  \/ Cancel \/ CallerHook \/ EnvelopeHook \/ Quit

Timers == EnvelopeExpires \/ GraceEnds \/ DelayEnds

Next == Binary \/ Goroutines \/ Timers \/ CallerEnds

Spec == Init /\ [][Next]_vars

\* Every goroutine that can run does; the steps that may fail are not owed a
\* failure, so each waits for its own.  The binary owes nothing.
FairSpec ==
  /\ Spec
  /\ WF_vars(Refuse \/ Open \/ Start \/ StartFails \/ Collect \/ Sweep \/ Reap \/ Judge \/ Return)
  /\ WF_vars(Convert \/ EndOfOutput \/ ReadFails)
  /\ WF_vars(Observe)
  /\ WF_vars(Cancel)
  /\ WF_vars(CallerHook)
  /\ WF_vars(EnvelopeHook \/ Quit)

-----------------------------------------------------------------------------
(* The verdict. *)

HarnessComplete ==
  /\ ~interrupted /\ leader = "reaped" /\ code # "signal"
  /\ ~ownerErr /\ ~sweepErr /\ ~conversionErr
  /\ ~stream.abort /\ ~stream.open
  /\ \/ stream.verdict = "PASS" /\ code = "0"
     \/ stream.verdict = "FAIL" /\ code = "1"

\* Classify: the package's health, none when the run was interrupted.
Disposition ==
  CASE interrupted -> "none"
    [] ~interrupted /\ (leader = "none" \/ ownerErr \/ sweepErr \/ conversionErr \/ profileErr) -> "degraded"
    [] OTHER -> IF code = "0" THEN "healthy" ELSE "failed"

-----------------------------------------------------------------------------
(* Properties. *)

Heard == [lines : Nat, open : BOOLEAN, abort : BOOLEAN, verdict : {"none", "PASS", "FAIL"}]

ControlOK ==
  /\ caller \in {"live", "ended"} /\ ctx \in {"live", "cancelled", "expired"}
  /\ main \in {"new", "open", "parse", "wait", "reap", "judge", "ending", "returned"}
  /\ cancelled \in BOOLEAN /\ killed \in BOOLEAN /\ finished \in BOOLEAN
  /\ ownerErr \in BOOLEAN /\ sweepErr \in BOOLEAN /\ profileErr \in BOOLEAN
  /\ atCaller \in {"off", "armed", "done"}
  /\ atEnvelope \in {"off", "armed", "grace", "delay", "done"}
  /\ interrupted \in BOOLEAN

HostOK ==
  /\ leader \in {"none", "running", "exited", "reaped"}
  /\ code \in {"none", "0", "1", "2", "signal"}
  /\ child \in {"none", "holding", "gone"} /\ escaped \in {"none", "holding", "gone"}
  /\ leaderEnd \in BOOLEAN

OutputOK ==
  /\ parentEnd \in BOOLEAN /\ readEnd \in BOOLEAN /\ conversionErr \in BOOLEAN
  /\ converter \in {"off", "reading", "done"} /\ observer \in {"off", "waiting", "done"}

SaidOK ==
  /\ pipe \in Seq(Line) /\ Len(pipe) <= PipeCap
  /\ said \in Heard /\ stream \in Heard

\* The types of the run's variables, and the bound of its pipe.
TypeOK == ControlOK /\ HostOK /\ OutputOK /\ SaidOK /\ faults \in 0..MaxFaults

\* No signal is ever sent to the group of a reaped leader, whose number may by
\* then name somebody else's processes: not by a cancellation, not by the quit
\* of an envelope that expires while the run is being waited for, not by the
\* sweep (retainedCommand.finished under the signals lock).
NoStraySignal ==
  [][ ((killed' /\ ~killed) \/ (atEnvelope = "armed" /\ atEnvelope' = "grace" /\ ~finished)
       \/ (main = "wait" /\ main' = "reap")) => leader # "reaped" ]_vars

\* A run that returned leaves no process of its group behind: the leader is
\* reaped and its descendants swept, whichever way it ended, unless the host
\* refused the observation or the sweep, which the result then says.
NothingLeftBehind ==
  (main = "returned" /\ Started) =>
    /\ leader = "reaped"
    /\ child = "holding" => ownerErr \/ sweepErr

\* A verdict speaks of a whole run: a package is called healthy or failed, and
\* its harness complete, only when everything the binary and its descendants
\* wrote was heard and this run did not kill it.  What a cancellation, an
\* expired envelope or a failed conversion cut short is none of these.
VerdictIsWhole ==
  (main = "returned" /\ (HarnessComplete \/ Disposition \in {"healthy", "failed"})) =>
    stream = said /\ ~killed

\* While the caller lives, an expired envelope kills nothing before its grace is
\* over, unless the dump cannot be asked for or heard.
GraceKept ==
  [][ (killed' /\ ~killed /\ caller = "live") =>
        conversionErr \/ faults > 0 \/ atEnvelope \in {"delay", "done"} ]_vars

\* A caller's end reaches the binary whatever the envelope is waiting for: no
\* timer has to elapse.
CallerEscalates == (caller = "ended" /\ leader = "running") ~> (leader # "running")

\* With the envelope's timeout and the run's timers elapsing, the run returns:
\* a binary that ignores its quit, a descendant that holds the pipe inside the
\* group or outside it, and an output that ends before the binary does included.
RunReturns == WF_vars(Timers) => <>(main = "returned")
=============================================================================
