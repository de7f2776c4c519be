------------------------- MODULE ControlResolution -------------------------
(***************************************************************************)
(* The control-resolution measurement: sim/isaac_control_resolution.py     *)
(* drives the arm through a fixed roster of probes around one reference    *)
(* pose and writes control_resolution.json or a failure file; the classes  *)
(* of jepa_wm/control_resolution.py are the reader that validates what is  *)
(* written, when it is built and again when it is loaded.                  *)
(*                                                                         *)
(* The arm is one joint with integer positions.  A drive target d holds it *)
(* at d minus a bias (gravity, friction) that is not known and may change; *)
(* during an update the joint gets there or stays where it is.  Of the     *)
(* rest of a reset state only "the plug is where it was" is kept.          *)
(***************************************************************************)
EXTENDS Integers, Sequences, FiniteSets

CONSTANTS
  None,                      \* no value
  Probes,                    \* joint motion each probe asks for; 0: HOLD
  Drive0, Biases,            \* first drive target; what the arm lags behind it
  Limits,                    \* joint limits
  ResetTol, CaptureTol,      \* reset_tolerances, capture_tolerances
  MaxBias, MaxFeedback,      \* drive_bias_compensation
  MaxMotion,                 \* velocity limit times motion period
  Floor, Divisor,            \* settlement: max(floor, requested / Divisor)
  Required, MaxUpdates,      \* required_consecutive_updates, maximum_updates
  Window, MaxIntervals,      \* baseline_policy
  MaxCalls                   \* bound: calls of the measurement

ASSUME ResolutionAssumption ==
  /\ Probes \in Seq(Nat) \ {<<>>} /\ Drive0 \in Int /\ Biases \subseteq Int /\ Limits \subseteq Int
  /\ {ResetTol, CaptureTol, MaxBias, MaxFeedback, MaxMotion, Floor} \subseteq Nat
  /\ {Divisor, Required, MaxUpdates, Window, MaxIntervals, MaxCalls} \subseteq Nat \ {0}
  /\ None \notin Int \cup [requested : Int, final : Int, command : Int]
                    \cup [drive : Int, states : Seq([x : Int, plug : {0, 1}])]

VARIABLES
  pc, phase,    \* where the measurement is; what it is settling
  x, plug,      \* the joint, and whether the plug has moved (0: no)
  drive,        \* target of the drive
  paused,       \* the timeline
  started, report, failure,   \* the files; of evidence: its contents, {} if there is none
  trace,        \* states of the baseline
  baseline,     \* evidence of the baseline
  active,       \* active_drive_target
  samples,      \* samples
  cur,          \* the probe under way
  settling,     \* settlement under way: start, target, cap, updates, passing
  calls, ending   \* history: calls, how the last measurement ended

files == <<started, report, failure>>
arm   == <<x, plug, drive>>
work  == <<trace, baseline, active, samples, cur, settling>>
past  == <<calls, ending>>
vars  == <<pc, phase, arm, paused, files, work, past>>

Dist(a, b) == IF a < b THEN b - a ELSE a - b
Least(a, b) == IF a < b THEN a ELSE b
Most(a, b) == IF a < b THEN b ELSE a

\* Where the joint may be after an update under drive target d.
Reach(d) == {x} \cup {d - b : b \in Biases}

Reset == [x |-> x, plug |-> plug]
Equivalent(a, b, tol) == Dist(a.x, b.x) <= tol /\ a.plug = b.plug

maximum_tracking_error(requested, cap) ==
  LET error == Most(Floor, requested \div Divisor)
  IN  IF cap THEN Least(error, ResetTol) ELSE error

(***************************************************************************)
(* Drive targets.  None is the ValueError of a bound that does not hold.   *)
(***************************************************************************)
Bounded(d) == IF d \in Limits THEN d ELSE None

compensated_joint_target(desired, measured, realized) ==
  IF Dist(measured, realized) > MaxBias THEN None ELSE Bounded(desired + measured - realized)

feedback_corrected_joint_target(desired, applied, realized) ==
  IF Dist(desired, realized) > MaxFeedback THEN None ELSE Bounded(applied + desired - realized)

IsHold(i) == Probes[i] = 0

\* The drive target of a probe; a HOLD drives nothing.
drive_joint_target(i, desired, act, start) ==
  LET d == compensated_joint_target(desired, act, start)
  IN  IF d # None /\ Dist(d, start) > MaxMotion THEN None ELSE d

rollback_drive_target(i, act, reference, forward, actual) ==
  IF IsHold(i) THEN act ELSE compensated_joint_target(reference, forward, actual)

\* The command that the evidence carries: a HOLD skips it.
drive_command(i, target) == IF IsHold(i) THEN None ELSE target

rollback_feedback_command(i, desired, applied, realized) ==
  IF IsHold(i) \/ applied = None THEN None
  ELSE feedback_corrected_joint_target(desired, applied, realized)

(***************************************************************************)
(* The baseline: the first window of consecutive, pairwise equivalent      *)
(* states.                                                                 *)
(***************************************************************************)
WindowPasses(states, last) ==
  LET w == (last - Window)..last
  IN  \A i, j \in w : Equivalent(states[i], states[j], ResetTol)

\* All ends of qualifying windows; the code takes the first.
first_qualifying(states) ==
  {n \in (Window + 1)..Len(states) : WindowPasses(states, n)}

Reference(b) == b.states[Len(b.states)]

ValidBaseline(b) == first_qualifying(b.states) = {Len(b.states)}
ValidAttempt(states) == Len(states) = MaxIntervals + 1 /\ first_qualifying(states) = {}

(***************************************************************************)
(* The reader.                                                             *)
(***************************************************************************)
\* A settlement that passed, and one that ran out of updates.
ValidSettlement(s, start, target, final, cap) ==
  /\ s.requested = Dist(start, target)
  /\ s.error = Dist(final, target)
  /\ s.error <= maximum_tracking_error(s.requested, cap)

ValidExecution(i, e, act) ==
  /\ IsHold(i) => e.target = e.start.x /\ e.drive = None
  /\ ~IsHold(i) => e.drive # None /\ e.drive = drive_joint_target(i, e.target, act, e.start.x)
  /\ e.target \in Limits
  /\ Dist(e.target, e.start.x) <= MaxMotion

\* What the drive held after a sample: the reader threads it through them.
\* Mutant: the correction of a rollback is forgotten.
HeldAfter_Uncorrected(i, act, ref, s) == rollback_drive_target(i, act, ref.x, s.drive, s.end)

HeldAfter(i, act, ref, s) ==
  IF s.correction # None THEN s.correction.command
  ELSE rollback_drive_target(i, act, ref.x, s.drive, s.end)

ValidCorrection(i, c, ref, start, command) ==
  /\ c.requested = Dist(start, ref.x)
  /\ c.command # None
  /\ c.command = rollback_feedback_command(i, ref.x, command, c.final)

ValidSample(i, act, ref, s) ==
  LET command == drive_command(i, rollback_drive_target(i, act, ref.x, s.drive, s.end))
      from    == IF s.correction = None THEN s.end ELSE s.correction.final
  IN  /\ Equivalent(ref, s.start, ResetTol) /\ Equivalent(ref, s.reset, ResetTol)
      /\ ValidExecution(i, s, act)
      /\ s.command = command
      /\ s.correction # None => ValidCorrection(i, s.correction, ref, s.end, command)
      /\ ValidSettlement(s.motion, s.start.x, s.target, s.end, FALSE)
      /\ ValidSettlement(s.rollback, from, ref.x, s.reset.x, TRUE)

\* The drive target held after the first n samples.
Held(b, ss) ==
  LET h[n \in 0..Len(ss)] == IF n = 0 THEN b.drive ELSE HeldAfter(n, h[n - 1], Reference(b), ss[n])
  IN  h

ValidSamples(b, ss) ==
  LET h == Held(b, ss)
  IN  /\ Len(ss) <= Len(Probes)
      /\ \A i \in 1..Len(ss) : ValidSample(i, h[i - 1], Reference(b), ss[i])

ValidReport(r) ==
  /\ Len(r.samples) = Len(Probes)
  /\ ValidBaseline(r.baseline)
  /\ ValidSamples(r.baseline, r.samples)

ValidTrace(i, t, act, ref) ==
  /\ i <= Len(Probes)
  /\ ValidExecution(i, t.execution, act)
  /\ Equivalent(ref, t.execution.start, ResetTol)

\* The recovery after a forward motion that did not settle.
ValidRecovery(i, t, act, ref) ==
  LET target == rollback_drive_target(i, act, ref.x, t.execution.drive, t.final)
      r == t.outcome
  IN  /\ target # None
      /\ r.start = t.final
      /\ r.command = drive_command(i, target)
      /\ r.status = "settled" =>
           /\ ValidSettlement(r.settlement, r.start, ref.x, r.reset.x, TRUE)
           /\ Equivalent(ref, r.reset, ResetTol)

ValidMotionTimeout(i, t, act, ref) ==
  /\ ValidTrace(i, t, act, ref)
  /\ t.command = drive_command(i, t.execution.drive)
  /\ ValidRecovery(i, t, act, ref)

ValidRollbackTimeout(i, t, act, ref) ==
  LET e == t.execution
      command == drive_command(i, rollback_drive_target(i, act, ref.x, e.drive, e.end))
  IN  /\ ValidTrace(i, t, act, ref)
      /\ ValidSettlement(e.motion, e.start.x, e.target, e.end, FALSE)
      /\ IF t.correction = None
         THEN t.start = e.end /\ t.command = command
         ELSE /\ ValidCorrection(i, t.correction, ref, e.end, command)
              /\ t.start = t.correction.final
              /\ t.command = t.correction.command

\* A rejected reset names the step it was rejected at, and was no reset.
ValidRejection(r, b, ss) ==
  IF r.step = "capture"
  THEN ss = <<>> /\ r.candidate = b.states[1] /\ ~Equivalent(r.reference, r.candidate, CaptureTol)
  ELSE /\ r.reference = Reference(b) /\ r.index = Len(ss) + 1
       /\ ~Equivalent(r.reference, r.candidate, ResetTol)

ValidFailure(f) ==
  LET i == Len(f.samples) + 1 IN
  /\ f.baseline = None => f.samples = <<>> /\ f.cause \in {"error", "unstable"}
  /\ f.baseline # None => ValidBaseline(f.baseline) /\ ValidSamples(f.baseline, f.samples)
  /\ CASE f.cause = "unstable" -> f.baseline = None /\ ValidAttempt(f.detail)
       [] f.cause = "rejected" -> ValidRejection(f.detail, f.baseline, f.samples)
       [] f.cause = "motion"   -> ValidMotionTimeout(i, f.detail, Held(f.baseline, f.samples)[i - 1], Reference(f.baseline))
       [] f.cause = "rollback" -> ValidRollbackTimeout(i, f.detail, Held(f.baseline, f.samples)[i - 1], Reference(f.baseline))
       [] f.cause = "projection" -> i <= Len(Probes) /\ ~IsHold(i) /\ Equivalent(Reference(f.baseline), f.detail, ResetTol)
       [] OTHER -> f.cause = "error"

(***************************************************************************)
(* The measurement.                                                        *)
(***************************************************************************)
Init ==
  /\ pc = "idle" /\ phase = "none"
  /\ x = Drive0 /\ plug = 0 /\ drive = Drive0
  /\ paused = TRUE
  /\ started = FALSE /\ report = {} /\ failure = {}
  /\ trace = <<>> /\ baseline = None /\ active = None /\ samples = <<>>
  /\ cur = None /\ settling = None
  /\ calls = 0 /\ ending = "none"

\* The pose the session was captured at.
Captured == [x |-> Drive0, plug |-> 0]

\* The end of the coroutine: the except block builds and writes the failure
\* evidence (which may itself be refused), the finally block pauses.
EndRun(how) ==
  /\ pc' = "idle" /\ phase' = "none"
  /\ paused' = TRUE
  /\ trace' = <<>> /\ baseline' = None /\ active' = None /\ samples' = <<>>
  /\ cur' = None /\ settling' = None
  /\ ending' = how

Fail(cause, detail) ==
  LET f == [baseline |-> baseline, samples |-> samples, cause |-> cause, detail |-> detail]
  IN  /\ failure' = IF ValidFailure(f) THEN {f} ELSE failure
      /\ EndRun(cause)
      /\ UNCHANGED <<started, report, calls>>

Goto(next, ph) == pc' = next /\ phase' = ph

\* Calls are serialised by run_exclusive; a client whose call timed out may
\* call again.
Measure ==
  /\ pc = "idle" /\ calls < MaxCalls
  /\ calls' = calls + 1
  /\ IF report = {} /\ failure = {} /\ ~started
     THEN started' = TRUE /\ Goto("open", "none")
     ELSE UNCHANGED <<started, pc, phase>>
  /\ UNCHANGED <<arm, paused, report, failure, work, ending>>

\* The live runtime is looked up outside the try: without it no file is
\* written and the timeline is not touched.
Open ==
  /\ pc = "open"
  /\ \/ Goto("synchronize", "none") /\ UNCHANGED ending
     \/ Goto("idle", "none") /\ ending' = "lost"
  /\ UNCHANGED <<arm, paused, files, work, calls>>

\* Synchronization, load removal, resume; the drive keeps its target.
Synchronize ==
  /\ pc = "synchronize"
  /\ \/ /\ Goto("baseline", "none") /\ paused' = FALSE
        /\ x' \in Reach(drive)
        /\ trace' = <<[x |-> x', plug |-> plug]>>
        /\ UNCHANGED <<plug, drive, files, baseline, active, samples, cur, settling, past>>
     \/ Fail("error", None) /\ UNCHANGED arm

BaselineInterval ==
  /\ pc = "baseline"
  /\ UNCHANGED <<plug, drive>>
  /\ x' \in Reach(drive)
  /\ LET states == Append(trace, [x |-> x', plug |-> plug]) IN
     IF first_qualifying(states) # {}
     THEN /\ Goto("capture", "none")
          /\ baseline' = [drive |-> drive, states |-> states]
          /\ active' = drive /\ trace' = <<>>
          /\ UNCHANGED <<paused, files, samples, cur, settling, past>>
     ELSE IF Len(states) = MaxIntervals + 1
     THEN Fail("unstable", states)
     ELSE trace' = states /\ UNCHANGED <<pc, phase, paused, files, baseline, active, samples, cur, settling, past>>

\* The captured pose is compared with the first state of the baseline.
CheckCapture ==
  /\ pc = "capture"
  /\ IF Equivalent(Captured, baseline.states[1], CaptureTol)
     THEN Goto("sample", "none") /\ UNCHANGED <<paused, files, work, past>>
     ELSE Fail("rejected", [step |-> "capture", index |-> 0, reference |-> Captured,
                            candidate |-> baseline.states[1]])
  /\ UNCHANGED arm

Index == Len(samples) + 1

\* Start of a probe, up to the execution record.  The safety gate may refuse
\* it; the drive target may be beyond the bounds.
StartProbe ==
  /\ pc = "sample" /\ Index <= Len(Probes)
  /\ UNCHANGED arm
  /\ LET target == x + Probes[Index]
         d == IF IsHold(Index) THEN None ELSE drive_joint_target(Index, target, active, x)
         e == [start |-> Reset, target |-> target, drive |-> d]
     IN  IF drive # active THEN Fail("error", None)
         ELSE IF ~Equivalent(Reference(baseline), Reset, ResetTol)
         THEN Fail("rejected", [step |-> "start", index |-> Index,
                                reference |-> Reference(baseline), candidate |-> Reset])
         ELSE \/ IF IsHold(Index) THEN Fail("error", None) ELSE Fail("projection", Reset)
              \/ d = None /\ ~IsHold(Index) /\ Fail("error", None)
              \/ /\ d # None \/ IsHold(Index)
                 /\ IF ValidExecution(Index, e, active)
                    THEN /\ Goto("forward", "none") /\ cur' = e
                         /\ UNCHANGED <<paused, files, trace, baseline, active, samples, settling, past>>
                    ELSE Fail("error", None)

Settle(start, target, cap) ==
  settling' = [start |-> start, target |-> target, cap |-> cap, updates |-> 0, passing |-> 0]

\* The motion of the probe; a HOLD lets time pass.
Forward ==
  /\ pc = "forward"
  /\ plug' = plug
  /\ drive' = IF cur.drive = None THEN drive ELSE cur.drive
  /\ x' \in Reach(drive')
  /\ Goto("settle", "forward")
  /\ Settle(cur.start.x, cur.target, FALSE)
  /\ UNCHANGED <<paused, files, trace, baseline, active, samples, cur, past>>

\* One physics update of a settlement.
Passing(passes) == IF passes THEN settling.passing + 1 ELSE 0

\* Mutant: the updates are not counted.
Updates_NotCounted == settling.updates

Updates == settling.updates + 1

SettleUpdate ==
  /\ pc = "settle"
  /\ UNCHANGED <<plug, drive, paused, files, trace, baseline, active, samples, cur, past>>
  /\ x' \in Reach(drive)
  /\ LET required == maximum_tracking_error(Dist(settling.start, settling.target), settling.cap)
         passing == Passing(Dist(x', settling.target) <= required)
     IN  /\ settling' = [settling EXCEPT !.updates = Updates, !.passing = passing]
         /\ phase' = phase
         /\ pc' = IF passing >= Required THEN "settled"
                  ELSE IF Updates = MaxUpdates THEN "unsettled" ELSE "settle"

\* Contact or a detached plug stops a motion or its settlement.  During the recovery it
\* is the recovery that failed, elsewhere the measurement.
MotionTimeout(outcome) ==
  [execution |-> [start |-> cur.start, target |-> cur.target, drive |-> cur.drive],
   final |-> cur.final, command |-> drive_command(Index, cur.drive), outcome |-> outcome]

RecoveryFailure(attempt) ==
  [status |-> "failed", start |-> cur.final, command |-> cur.command, attempt |-> attempt]

InterlockStops ==
  /\ pc = "settle"
  /\ IF phase = "recovery" THEN Fail("motion", MotionTimeout(RecoveryFailure(FALSE)))
     ELSE Fail("error", None)
  /\ UNCHANGED arm

\* Moves the drive to a target (after a HOLD it is there) and settles on the
\* reference again.
MoveBack(ph, target, evidence) ==
  /\ plug' = plug
  /\ drive' = target
  /\ x' \in IF IsHold(Index) THEN {x} ELSE Reach(target)
  /\ cur' = evidence
  /\ Goto("settle", ph)
  /\ Settle(x, Reference(baseline).x, TRUE)
  /\ UNCHANGED <<paused, files, trace, baseline, active, samples, past>>

SettledEvidence == [requested |-> Dist(settling.start, settling.target), error |-> Dist(x, settling.target)]

\* A forward motion that does not settle is undone - unless the arm is too
\* far behind its drive for the rollback target to be computed.
\* Mutant: no recovery.
Recover_Skipped ==
  /\ pc = "unsettled" /\ phase = "forward"
  /\ Fail("error", None) /\ UNCHANGED arm

Recover ==
  /\ pc = "unsettled" /\ phase = "forward"
  /\ LET target == rollback_drive_target(Index, active, Reference(baseline).x, cur.drive, x)
     IN  IF target = None THEN Fail("error", None) /\ UNCHANGED arm
         ELSE MoveBack("recovery", target,
                       [start |-> cur.start, target |-> cur.target, drive |-> cur.drive,
                        final |-> x, command |-> drive_command(Index, target)])

RecoveryEnds ==
  /\ pc \in {"settled", "unsettled"} /\ phase = "recovery"
  /\ Fail("motion", MotionTimeout(
       IF pc = "settled" /\ Equivalent(Reference(baseline), Reset, ResetTol)
       THEN [status |-> "settled", start |-> cur.final, command |-> cur.command,
             settlement |-> SettledEvidence, reset |-> Reset]
       ELSE RecoveryFailure(pc = "unsettled")))
  /\ UNCHANGED arm

\* The endpoint is recorded and the arm sent back.
Return ==
  /\ pc = "settled" /\ phase = "forward"
  /\ LET target == rollback_drive_target(Index, active, Reference(baseline).x, cur.drive, x)
     IN  IF target = None THEN Fail("error", None) /\ UNCHANGED arm
         ELSE MoveBack("rollback", target,
                       [start |-> cur.start, target |-> cur.target, drive |-> cur.drive,
                        end |-> x, motion |-> SettledEvidence, applied |-> target,
                        command |-> drive_command(Index, target), correction |-> None])

RollbackTimeout ==
  [execution |-> cur, final |-> x, start |-> settling.start, correction |-> cur.correction,
   command |-> IF cur.correction = None THEN cur.command ELSE cur.correction.command]

\* One bounded correction by the error that is left.
Correct ==
  /\ pc = "unsettled" /\ phase = "rollback"
  /\ LET target == rollback_feedback_command(Index, Reference(baseline).x, cur.command, x)
     IN  IF target = None THEN Fail("rollback", RollbackTimeout) /\ UNCHANGED arm
         ELSE MoveBack("correction", target,
                       [cur EXCEPT !.correction = [requested |-> Dist(settling.start, settling.target),
                                                   final |-> x, command |-> target]])

CorrectionFails ==
  /\ pc = "unsettled" /\ phase = "correction"
  /\ Fail("rollback", RollbackTimeout) /\ UNCHANGED arm

Applied == IF cur.correction = None THEN cur.applied ELSE cur.correction.command

FinishProbe ==
  /\ pc = "settled" /\ phase \in {"rollback", "correction"}
  /\ UNCHANGED arm
  /\ IF drive # Applied THEN Fail("error", None)
     ELSE IF ~Equivalent(Reference(baseline), Reset, ResetTol)
     THEN Fail("rejected", [step |-> "rollback", index |-> Index,
                            reference |-> Reference(baseline), candidate |-> Reset])
     ELSE /\ samples' = Append(samples,
               [start |-> cur.start, target |-> cur.target, drive |-> cur.drive, end |-> cur.end,
                motion |-> cur.motion, command |-> cur.command, correction |-> cur.correction,
                rollback |-> SettledEvidence, reset |-> Reset])
          /\ active' = Applied
          /\ cur' = None /\ settling' = None
          /\ Goto("sample", "none")
          /\ UNCHANGED <<paused, files, trace, baseline, past>>

\* All probes are done: the report is built, validated and written.
Report ==
  /\ pc = "sample" /\ Index > Len(Probes)
  /\ LET r == [baseline |-> baseline, samples |-> samples]
     IN  IF ValidReport(r)
         THEN /\ report' = {r} /\ EndRun("complete")
              /\ UNCHANGED <<started, failure, calls>>
         ELSE Fail("error", None)
  /\ UNCHANGED arm

\* A cancelled call: CancelledError passes the except block.
Awaiting == {"synchronize", "baseline", "forward", "settle"}
Cancel ==
  /\ pc \in Awaiting
  /\ EndRun("cancelled")
  /\ UNCHANGED <<arm, files, calls>>

\* The plug slips while physics runs.
PlugSlips ==
  /\ ~paused /\ plug = 0 /\ plug' = 1
  /\ UNCHANGED <<pc, phase, x, drive, paused, files, work, past>>

Step ==
  \/ Open \/ Synchronize \/ BaselineInterval \/ CheckCapture \/ StartProbe \/ Forward
  \/ SettleUpdate \/ InterlockStops \/ Recover \/ RecoveryEnds \/ Return \/ Correct
  \/ CorrectionFails \/ FinishProbe \/ Report

Next == Measure \/ Step \/ Cancel \/ PlugSlips

Spec == Init /\ [][Next]_vars /\ WF_vars(Step)

(***************************************************************************)
(* Properties.                                                             *)
(***************************************************************************)
TypeOK ==
  /\ pc \in {"idle", "open", "synchronize", "baseline", "capture", "sample", "forward",
             "settle", "settled", "unsettled"}
  /\ phase \in {"none", "forward", "recovery", "rollback", "correction"}
  /\ x \in Int /\ plug \in {0, 1} /\ drive \in Int
  /\ paused \in BOOLEAN /\ started \in BOOLEAN
  /\ calls \in 0..MaxCalls

\* What the runtime measured is what the reader accepts: a measurement that
\* ended by itself left exactly one file - its failure evidence was never
\* refused - and nine finished probes are a report, not a failure.
EveryEndHasEvidence ==
  pc = "idle" /\ ending \notin {"none", "lost", "cancelled"} =>
    /\ paused
    /\ (report = {}) # (failure = {})
    /\ \A f \in failure : Len(f.samples) < Len(Probes)

\* The runtime knows what the drive holds: where it compares the target it
\* remembers with the controller's, they agree.
TargetIsKnown ==
  /\ pc = "sample" => drive = active
  /\ pc \in {"settled", "unsettled"} /\ phase \in {"rollback", "correction"} =>
       drive = Applied

\* A settled rollback is a reset: no rollback is rejected for its joint.
SettledIsHome ==
  /\ pc = "settled" /\ phase \in {"rollback", "recovery", "correction"} =>
       Dist(x, Reference(baseline).x) <= ResetTol
  /\ \A f \in failure : f.cause = "rejected" /\ f.detail.step = "rollback" =>
       f.detail.candidate.plug # f.detail.reference.plug

\* A probe that moved the arm is undone, whether its motion settled or timed
\* out - unless the arm is so far behind its drive, or so near a joint limit,
\* that no rollback target can be computed: then it stays where it is.
ForwardIsUndone ==
  [][ (pc \in {"settled", "unsettled"} /\ phase = "forward" /\ pc' = "idle")
        => None = rollback_drive_target(Index, active, Reference(baseline).x, cur.drive, x) ]_vars

\* Every measurement ends, with the timeline paused.
MeasurementEnds == pc # "idle" ~> pc = "idle"

=============================================================================
