---------------------- MODULE ControlResolutionProofs ----------------------
(***************************************************************************)
(* Proofs about ControlResolution, for every roster of probes, every bias  *)
(* and every choice of tolerances.  One invariant, IInv, follows what the  *)
(* drive holds and what is being settled through the phases of a probe; a  *)
(* second one, EInv, says that the evidence collected on the way is what   *)
(* the reader accepts.                                                     *)
(***************************************************************************)
EXTENDS ControlResolution, TLAPS

State == [x : Int, plug : {0, 1}]

\* From the end of the baseline on there is a reference, and a target the drive
\* is known to hold until a probe moves it.
Measured ==
  /\ trace \in Seq(State)
  /\ pc \in {"capture", "sample", "forward", "settle", "settled", "unsettled"} =>
       Reference(baseline) \in State /\ active \in Int
  /\ pc \in {"capture", "sample", "forward"} => drive = active

\* What is kept of the probe under way.
Probing ==
  /\ pc \in {"forward", "settle", "settled", "unsettled"} => cur.start.x \in Int /\ cur.target \in Int
  /\ pc = "forward" => cur.drive \in Int \cup {None}
  /\ pc \in {"settle", "settled", "unsettled"} /\ phase \in {"rollback", "correction"} =>
       /\ cur = [start |-> cur.start, target |-> cur.target, drive |-> cur.drive,
                 end |-> cur.end, motion |-> cur.motion, applied |-> cur.applied,
                 command |-> cur.command, correction |-> cur.correction]
       /\ drive = Applied

\* What is being settled; a way back is settled on the reference, with the cap.
Settling ==
  pc \in {"settle", "settled", "unsettled"} =>
    /\ phase # "none"
    /\ settling = [start |-> settling.start, target |-> settling.target, cap |-> settling.cap,
                   updates |-> settling.updates, passing |-> settling.passing]
    /\ settling.start \in Int /\ settling.target \in Int
    /\ phase # "forward" => settling.cap = TRUE /\ settling.target = Reference(baseline).x

IInv == TypeOK /\ Measured /\ Probing /\ Settling /\ TargetIsKnown /\ SettledIsHome

-----------------------------------------------------------------------------
USE DEF arm, files, work, past, Goto, Reset

\* The assumptions on the constants, one by one.
LEMMA Bounds ==
  /\ Drive0 \in Int /\ Biases \subseteq Int /\ Limits \subseteq Int
  /\ ResetTol \in Nat /\ Floor \in Nat
  /\ Divisor \in Nat \ {0} /\ Required \in Nat \ {0} /\ MaxCalls \in Nat \ {0}
  /\ None \notin Int
  BY ResolutionAssumption

LEMMA NoCommand == None \notin [requested : Int, final : Int, command : Int]
  BY ResolutionAssumption

USE Bounds

\* Targets lie within the joint limits.
LEMMA Targets ==
  /\ \A d : Bounded(d) # None => Bounded(d) \in Int
  /\ \A i, d, a, b : drive_joint_target(i, d, a, b) # None => drive_joint_target(i, d, a, b) \in Int
  /\ \A i, a, r, f, e : a \in Int /\ rollback_drive_target(i, a, r, f, e) # None =>
       rollback_drive_target(i, a, r, f, e) \in Int
  /\ \A i, d, a, r : rollback_feedback_command(i, d, a, r) # None =>
       rollback_feedback_command(i, d, a, r) \in Int
  BY ZenonT(40) DEF Bounded, drive_joint_target, compensated_joint_target, rollback_drive_target,
         rollback_feedback_command, feedback_corrected_joint_target

\* A capped settlement is at least as strict as the reset.
LEMMA Capped ==
  ASSUME NEW a \in Int, NEW b \in Int
  PROVE /\ maximum_tracking_error(Dist(a, b), TRUE) <= ResetTol
        /\ maximum_tracking_error(Dist(a, b), TRUE) \in Int
<1>1. Dist(a, b) \in Nat
  BY DEF Dist
<1>2. Dist(a, b) \div Divisor \in Int
  BY <1>1
<1> QED BY <1>2 DEF maximum_tracking_error, Least, Most

LEMMA InitInvariant == Init => IInv
<1> SUFFICES ASSUME Init PROVE IInv
  OBVIOUS
<1>1. TypeOK
  <2>1. pc = "idle" /\ phase = "none" /\ paused \in BOOLEAN /\ started \in BOOLEAN
    BY Zenon DEF Init
  <2>2. x \in Int /\ plug \in {0, 1} /\ drive \in Int
    BY DEF Init
  <2>3. calls \in 0..MaxCalls
    BY DEF Init
  <2> QED BY <2>1, <2>2, <2>3 DEF TypeOK
<1>2. Measured
  BY DEF Init, Measured
<1>3. Probing /\ Settling /\ TargetIsKnown /\ SettledIsHome
  BY DEF Init, Probing, Settling, TargetIsKnown, SettledIsHome
<1> QED BY <1>1, <1>2, <1>3 DEF IInv

LEMMA StutterStep == IInv /\ UNCHANGED vars => IInv'
  BY DEF vars, IInv, TypeOK, Measured, Probing, Settling, TargetIsKnown, SettledIsHome,
         Reference, Applied, Index

\* A measurement that ends leaves nothing to keep but its files.
LEMMA Ended ==
  ASSUME IInv, NEW how, EndRun(how), UNCHANGED <<x, plug, drive, calls, failure, started>>
  PROVE IInv'
  BY DEF EndRun, IInv, TypeOK, Measured, Probing, Settling, TargetIsKnown, SettledIsHome

\* So does one that fails, unless a rollback is rejected for its joint.
LEMMA Failed ==
  ASSUME IInv, NEW cause, NEW detail, Fail(cause, detail), UNCHANGED arm,
         cause = "rejected" /\ detail.step = "rollback" =>
           detail.candidate.plug # detail.reference.plug
  PROVE IInv'
<1>1. \E how : EndRun(how)
  BY DEF Fail
<1>2. failure' = failure \/ \A f \in failure' : f.cause = cause /\ f.detail = detail
  BY DEF Fail
<1>3. UNCHANGED <<started, calls>>
  BY DEF Fail
<1> QED BY <1>1, <1>2, <1>3 DEF EndRun, IInv, TypeOK, Measured, Probing, Settling,
           TargetIsKnown, SettledIsHome

\* Before the baseline nothing is measured or settled.
LEMMA Outside ==
  ASSUME IInv, TypeOK', pc' \in {"idle", "open", "synchronize"}, UNCHANGED <<trace, failure>>
  PROVE  IInv'
  BY DEF IInv, Measured, Probing, Settling, TargetIsKnown, SettledIsHome

LEMMA MeasureStep ==
  ASSUME IInv, Measure PROVE IInv'
<1>1. pc' \in {"idle", "open"} /\ phase' \in {"none", phase} /\ UNCHANGED <<trace, failure>>
  BY DEF Measure, IInv, TypeOK
<1>2. started' \in BOOLEAN /\ UNCHANGED <<x, plug, drive, paused>>
  BY Zenon DEF Measure, IInv, TypeOK
<1>3. calls' \in 0..MaxCalls
  BY DEF Measure, IInv, TypeOK
<1>4. TypeOK'
  BY <1>1, <1>2, <1>3 DEF IInv, TypeOK
<1> QED BY <1>1, <1>4, Outside

LEMMA OpenStep ==
  ASSUME IInv, Open PROVE IInv'
<1>1. pc' \in {"idle", "synchronize"} /\ phase' = "none"
  BY DEF Open
<1>2. UNCHANGED <<x, plug, drive, paused, started, calls, trace, failure>>
  BY DEF Open
<1>3. TypeOK'
  BY <1>1, <1>2 DEF IInv, TypeOK
<1> QED BY <1>1, <1>2, <1>3, Outside

LEMMA SynchronizeStep == ASSUME IInv, Synchronize PROVE IInv'
<1>1. CASE Fail("error", None) /\ UNCHANGED arm
  BY <1>1, Failed
<1>2. CASE /\ pc' = "baseline" /\ phase' = "none" /\ paused' = FALSE
           /\ x' \in Reach(drive)
           /\ trace' = <<[x |-> x', plug |-> plug]>>
           /\ UNCHANGED <<plug, drive, files, baseline, active, samples, cur, settling, past>>
  <2>1. x' \in Int
    BY <1>2 DEF Reach, IInv, TypeOK
  <2>2. trace' \in Seq(State)
    BY <1>2, <2>1 DEF State, IInv, TypeOK
  <2> QED BY <1>2, <2>1, <2>2 DEF IInv, TypeOK, Measured, Probing, Settling, TargetIsKnown,
             SettledIsHome
<1> QED BY <1>1, <1>2 DEF Synchronize

LEMMA BaselineStep == ASSUME IInv, BaselineInterval PROVE IInv'
<1> DEFINE new == [x |-> x', plug |-> plug]
           states == Append(trace, new)
<1>1. x' \in Int /\ new \in State
  BY DEF BaselineInterval, Reach, IInv, TypeOK, State
<1>2. states \in Seq(State) /\ states[Len(states)] = new
  BY <1>1 DEF IInv, Measured
<1>3. CASE /\ pc' = "capture" /\ phase' = "none"
           /\ baseline' = [drive |-> drive, states |-> states]
           /\ active' = drive /\ trace' = <<>>
           /\ UNCHANGED <<paused, files, samples, cur, settling, past>>
  <2>1. Reference(baseline)' \in State
    BY <1>1, <1>2, <1>3 DEF Reference
  <2>2. TypeOK' /\ Measured'
    BY <1>1, <1>3, <2>1 DEF BaselineInterval, IInv, TypeOK, Measured
  <2>3. Probing' /\ Settling' /\ TargetIsKnown' /\ SettledIsHome'
    BY <1>3 DEF BaselineInterval, IInv, Probing, Settling, TargetIsKnown, SettledIsHome
  <2> QED BY <2>2, <2>3 DEF IInv
<1>4. CASE Fail("unstable", states)
  <2>1. pc' = "idle" /\ phase' = "none" /\ paused' = TRUE /\ trace' = <<>>
    BY <1>4 DEF Fail, EndRun
  <2>2. UNCHANGED <<plug, drive, started, calls>>
    BY <1>4 DEF Fail, BaselineInterval
  <2>3. failure' = failure \/ \A f \in failure' : f.cause = "unstable"
    BY <1>4 DEF Fail
  <2>4. TypeOK' /\ Measured'
    BY <1>1, <2>1, <2>2 DEF IInv, TypeOK, Measured
  <2>5. Probing' /\ Settling' /\ TargetIsKnown' /\ SettledIsHome'
    BY <2>1, <2>3 DEF IInv, Probing, Settling, TargetIsKnown, SettledIsHome
  <2> QED BY <2>4, <2>5 DEF IInv
<1>5. CASE /\ trace' = states
           /\ UNCHANGED <<pc, phase, paused, files, baseline, active, samples, cur, settling, past>>
  <2>1. TypeOK' /\ Measured'
    BY <1>1, <1>2, <1>5 DEF BaselineInterval, IInv, TypeOK, Measured
  <2>2. Probing' /\ Settling' /\ TargetIsKnown' /\ SettledIsHome'
    BY <1>5 DEF BaselineInterval, IInv, Probing, Settling, TargetIsKnown, SettledIsHome
  <2> QED BY <2>1, <2>2 DEF IInv
<1> QED BY <1>3, <1>4, <1>5 DEF BaselineInterval

LEMMA CheckCaptureStep == ASSUME IInv, CheckCapture PROVE IInv'
<1>1. CASE Equivalent(Captured, baseline.states[1], CaptureTol)
  BY <1>1, SMTT(20) DEF CheckCapture, IInv, TypeOK, Measured, Probing, Settling, TargetIsKnown, SettledIsHome, Reference
<1>2. CASE ~Equivalent(Captured, baseline.states[1], CaptureTol)
  BY <1>2, Failed DEF CheckCapture
<1> QED BY <1>1, <1>2

LEMMA StartProbeStep == ASSUME IInv, StartProbe PROVE IInv'
<1> DEFINE target == x + Probes[Index]
           d == IF IsHold(Index) THEN None ELSE drive_joint_target(Index, target, active, x)
           e == [start |-> Reset, target |-> target, drive |-> d]
<1>1. CASE Fail("error", None) \/ Fail("projection", Reset)
  BY <1>1, Failed DEF StartProbe
<1>2. CASE Fail("rejected", [step |-> "start", index |-> Index,
                            reference |-> Reference(baseline), candidate |-> Reset])
  BY <1>2, Failed DEF StartProbe
<1>3. CASE /\ pc' = "forward" /\ phase' = "none" /\ cur' = e
           /\ ValidExecution(Index, e, active)
           /\ UNCHANGED <<paused, files, trace, baseline, active, samples, settling, past>>
  <2>1. target \in Int /\ d \in Int \cup {None}
    BY <1>3, Targets DEF ValidExecution
  <2>2. e.start.x \in Int /\ e.target \in Int /\ e.drive \in Int \cup {None}
    BY <2>1 DEF IInv, TypeOK
  <2> HIDE DEF e
  <2> QED BY <1>3, <2>2, SMTT(20) DEF StartProbe, IInv, TypeOK, Measured, Probing, Settling, TargetIsKnown, SettledIsHome, Reference
<1> QED BY <1>1, <1>2, <1>3 DEF StartProbe

LEMMA ForwardStep == ASSUME IInv, Forward PROVE IInv'
<1>1. drive' \in Int /\ x' \in Int
  BY DEF Forward, Reach, IInv, TypeOK, Probing
<1> QED BY <1>1, SMTT(20) DEF Forward, Settle, IInv, TypeOK, Measured, Probing, Settling, TargetIsKnown, SettledIsHome, Reference

LEMMA SettleUpdateStep == ASSUME IInv, SettleUpdate PROVE IInv'
<1> DEFINE required == maximum_tracking_error(Dist(settling.start, settling.target), settling.cap)
           passing == Passing(Dist(x', settling.target) <= required)
<1>1. x' \in Int /\ pc = "settle" /\ phase' = phase /\ pc' \in {"settle", "settled", "unsettled"}
  BY DEF SettleUpdate, Reach, IInv, TypeOK
<1>2. settling' = [settling EXCEPT !.updates = Updates, !.passing = passing]
  BY DEF SettleUpdate
<1>3. /\ settling' = [start |-> settling.start, target |-> settling.target, cap |-> settling.cap,
                      updates |-> settling'.updates, passing |-> settling'.passing]
      /\ settling.start \in Int /\ settling.target \in Int
  BY <1>1, <1>2 DEF IInv, Settling
<1>4. pc' = "settled" => Dist(x', settling.target) <= required
  BY DEF SettleUpdate, Passing
<1>5. pc' = "settled" /\ phase # "forward" => Dist(x', Reference(baseline).x) <= ResetTol
  <2> SUFFICES ASSUME pc' = "settled", phase # "forward"
               PROVE Dist(x', Reference(baseline).x) <= ResetTol
    OBVIOUS
  <2>1. settling.cap = TRUE /\ settling.target = Reference(baseline).x
    BY <1>1 DEF IInv, Settling
  <2>2. required <= ResetTol /\ required \in Int
    BY <1>3, <2>1, Capped
  <2>3. Dist(x', settling.target) \in Int
    BY <1>1, <1>3 DEF Dist
  <2> QED BY <1>4, <2>1, <2>2, <2>3
<1>6. TypeOK' /\ Measured' /\ Probing' /\ TargetIsKnown'
  BY <1>1, SMTT(20) DEF SettleUpdate, IInv, TypeOK, Measured, Probing, TargetIsKnown, Reference, Applied
<1>7. Settling'
  BY <1>1, <1>3 DEF SettleUpdate, IInv, Settling, Reference
<1>8. SettledIsHome'
  BY <1>1, <1>5 DEF SettleUpdate, IInv, SettledIsHome, Reference
<1> QED BY <1>6, <1>7, <1>8 DEF IInv

LEMMA FailingSteps ==
  ASSUME IInv, InterlockStops \/ RecoveryEnds \/ CorrectionFails PROVE IInv'
  BY Failed DEF InterlockStops, RecoveryEnds, CorrectionFails

\* The arm is sent back; the evidence goes with it.
LEMMA MovedBack ==
  ASSUME IInv, pc \in {"settled", "unsettled"},
         NEW ph \in {"recovery", "rollback", "correction"}, NEW target \in Int, NEW evidence,
         MoveBack(ph, target, evidence),
         evidence.start = cur.start, evidence.target = cur.target,
         ph # "recovery" =>
           /\ evidence = [start |-> evidence.start, target |-> evidence.target,
                          drive |-> evidence.drive, end |-> evidence.end,
                          motion |-> evidence.motion, applied |-> evidence.applied,
                          command |-> evidence.command, correction |-> evidence.correction]
           /\ target = IF evidence.correction = None THEN evidence.applied
                       ELSE evidence.correction.command
  PROVE IInv'
<1>1. x' \in Int /\ drive' = target /\ pc' = "settle" /\ phase' = ph /\ cur' = evidence
  BY DEF MoveBack, Reach, IInv, TypeOK
<1>2. UNCHANGED <<plug, paused, files, trace, baseline, active, samples, past>>
  BY DEF MoveBack
<1>3. settling' = [start |-> x, target |-> Reference(baseline).x, cap |-> TRUE, updates |-> 0,
                  passing |-> 0]
  BY DEF MoveBack, Settle
<1>4. Reference(baseline).x \in Int /\ x \in Int
  BY DEF IInv, Measured, State, TypeOK
<1>5. TypeOK' /\ Measured' /\ TargetIsKnown' /\ SettledIsHome'
  BY <1>1, <1>2 DEF IInv, TypeOK, Measured, TargetIsKnown, SettledIsHome, Reference
<1>6. Probing'
  BY <1>1 DEF IInv, Probing, Applied
<1>7. Settling'
  BY <1>1, <1>2, <1>3, <1>4 DEF Settling, Reference
<1> QED BY <1>5, <1>6, <1>7 DEF IInv

LEMMA RecoverStep == ASSUME IInv, Recover PROVE IInv'
<1> DEFINE target == rollback_drive_target(Index, active, Reference(baseline).x, cur.drive, x)
<1>1. CASE target = None
  BY <1>1, Failed DEF Recover
<1>2. CASE target # None
  <2> DEFINE e == [start |-> cur.start, target |-> cur.target, drive |-> cur.drive,
                   final |-> x, command |-> drive_command(Index, target)]
  <2>1. target \in Int
    BY <1>2, Targets DEF Recover, IInv, Measured
  <2>2. MoveBack("recovery", target, e) /\ pc \in {"settled", "unsettled"}
    BY <1>2 DEF Recover
  <2>3. e.start = cur.start /\ e.target = cur.target
    OBVIOUS
  <2> HIDE DEF e, target
  <2> QED BY <2>1, <2>2, <2>3, MovedBack
<1> QED BY <1>1, <1>2

LEMMA ReturnStep == ASSUME IInv, Return PROVE IInv'
<1> DEFINE target == rollback_drive_target(Index, active, Reference(baseline).x, cur.drive, x)
<1>1. CASE target = None
  BY <1>1, Failed DEF Return
<1>2. CASE target # None
  <2>1. target \in Int
    BY <1>2, Targets DEF Return, IInv, Measured
  <2> QED BY <1>2, <2>1, MovedBack DEF Return
<1> QED BY <1>1, <1>2

LEMMA CorrectStep == ASSUME IInv, Correct PROVE IInv'
<1> DEFINE target == rollback_feedback_command(Index, Reference(baseline).x, cur.command, x)
           c == [requested |-> Dist(settling.start, settling.target), final |-> x,
                 command |-> target]
<1>1. CASE target = None
  BY <1>1, Failed DEF Correct
<1>2. CASE target # None
  <2>1. target \in Int
    BY <1>2, Targets
  <2>2. c # None
    BY <2>1, NoCommand DEF Correct, IInv, TypeOK, Settling, Dist
  <2>3. cur = [start |-> cur.start, target |-> cur.target, drive |-> cur.drive,
               end |-> cur.end, motion |-> cur.motion, applied |-> cur.applied,
               command |-> cur.command, correction |-> cur.correction]
    BY DEF Correct, IInv, Probing
  <2>4. MoveBack("correction", target, [cur EXCEPT !.correction = c])
    BY <1>2 DEF Correct
  <2>5. pc \in {"settled", "unsettled"}
    BY DEF Correct
  <2> HIDE DEF c, target
  <2>c. ASSUME NEW a, NEW b, NEW d, NEW f, NEW g, NEW h, NEW i, NEW k, NEW m
        PROVE [[start |-> a, target |-> b, drive |-> d, end |-> f, motion |-> g,
                applied |-> h, command |-> i, correction |-> k] EXCEPT !.correction = m] =
              [start |-> a, target |-> b, drive |-> d, end |-> f, motion |-> g,
               applied |-> h, command |-> i, correction |-> m]
    OBVIOUS
  <2> DEFINE e == [start |-> cur.start, target |-> cur.target, drive |-> cur.drive,
                   end |-> cur.end, motion |-> cur.motion, applied |-> cur.applied,
                   command |-> cur.command, correction |-> c]
  <2>d. [[start |-> cur.start, target |-> cur.target, drive |-> cur.drive,
          end |-> cur.end, motion |-> cur.motion, applied |-> cur.applied,
          command |-> cur.command, correction |-> cur.correction] EXCEPT !.correction = c] = e
    BY <2>c
  <2>e. [cur EXCEPT !.correction = c] = e
    BY <2>3, <2>d, Zenon
  <2>6. /\ e = [start |-> e.start, target |-> e.target, drive |-> e.drive, end |-> e.end,
                motion |-> e.motion, applied |-> e.applied, command |-> e.command,
                correction |-> e.correction]
        /\ e.start = cur.start /\ e.target = cur.target /\ e.correction = c
    OBVIOUS
  <2>7. c.command = target
    BY DEF c
  <2> HIDE DEF e
  <2>8. MoveBack("correction", target, e)
    BY <2>4, <2>e
  <2> QED BY <2>1, <2>2, <2>5, <2>6, <2>7, <2>8, MovedBack
<1> QED BY <1>1, <1>2

LEMMA FinishProbeStep == ASSUME IInv, FinishProbe PROVE IInv'
<1>1. drive = Applied /\ Dist(x, Reference(baseline).x) <= ResetTol
  BY DEF FinishProbe, IInv, Probing, SettledIsHome
<1>2. CASE ~Equivalent(Reference(baseline), Reset, ResetTol)
  <2>1. Dist(Reference(baseline).x, x) = Dist(x, Reference(baseline).x)
    <3>1. Reference(baseline).x \in Int /\ x \in Int
      BY DEF FinishProbe, IInv, TypeOK, Measured, State
    <3> QED BY <3>1 DEF Dist
  <2>2. Reference(baseline).plug # plug
    BY <1>1, <1>2, <2>1 DEF Equivalent
  <2> QED BY <1>1, <1>2, <2>2, Failed DEF FinishProbe
<1>3. CASE Equivalent(Reference(baseline), Reset, ResetTol)
  BY <1>1, <1>3, SMTT(20) DEF FinishProbe, IInv, TypeOK, Measured, Probing, Settling, TargetIsKnown, SettledIsHome, Reference
<1> QED BY <1>2, <1>3

LEMMA ReportStep == ASSUME IInv, Report PROVE IInv'
  BY Failed, Ended DEF Report

LEMMA OtherSteps == ASSUME IInv, Cancel \/ PlugSlips PROVE IInv'
<1>1. CASE Cancel
  BY <1>1, Ended DEF Cancel
<1>2. CASE PlugSlips
  BY <1>2, SMTT(20) DEF PlugSlips, IInv, TypeOK, Measured, Probing, Settling, TargetIsKnown, SettledIsHome, Reference, Applied
<1> QED BY <1>1, <1>2

-----------------------------------------------------------------------------
LEMMA NextStep == IInv /\ [Next]_vars => IInv'
  BY StutterStep, MeasureStep, OpenStep, SynchronizeStep, BaselineStep, CheckCaptureStep,
     StartProbeStep, ForwardStep, SettleUpdateStep, FailingSteps, RecoverStep, ReturnStep,
     CorrectStep, FinishProbeStep, ReportStep, OtherSteps
     DEF Next, Step

LEMMA Invariance == Spec => []IInv
  BY InitInvariant, NextStep, PTL DEF Spec

-----------------------------------------------------------------------------
(***************************************************************************)
(* What was measured is what the reader accepts.  The reader threads the   *)
(* drive target through the samples; its recursive function is followed    *)
(* sample by sample, as the measurement makes them.                        *)
(***************************************************************************)
IsHeld(h, b, ss) ==
  h = [n \in 0..Len(ss) |-> IF n = 0 THEN b.drive
                            ELSE HeldAfter(n, h[n - 1], Reference(b), ss[n])]

\* The reader accepts the samples and ends at the drive target act.
Accepts(b, ss, act) ==
  /\ \E h : IsHeld(h, b, ss)
  /\ \A h : IsHeld(h, b, ss) =>
       /\ h[Len(ss)] = act
       /\ \A i \in 1..Len(ss) : ValidSample(i, h[i - 1], Reference(b), ss[i])

LEMMA AcceptsNothing ==
  ASSUME NEW b PROVE Accepts(b, <<>>, b.drive)
<1>1. IsHeld([n \in 0..0 |-> b.drive], b, <<>>)
  BY DEF IsHeld
<1>2. ASSUME NEW h, IsHeld(h, b, <<>>) PROVE h[0] = b.drive
  BY <1>2 DEF IsHeld
<1>3. Len(<<>>) = 0 /\ 1..0 = {}
  OBVIOUS
<1> QED BY <1>1, <1>2, <1>3, Zenon DEF Accepts

LEMMA AcceptsMore ==
  ASSUME NEW b, NEW S, NEW ss \in Seq(S), NEW s \in S, NEW act, Accepts(b, ss, act),
         ValidSample(Len(ss) + 1, act, Reference(b), s)
  PROVE  Accepts(b, Append(ss, s), HeldAfter(Len(ss) + 1, act, Reference(b), s))
<1> DEFINE n == Len(ss)
           t == Append(ss, s)
           new == HeldAfter(n + 1, act, Reference(b), s)
<1>0. /\ n \in Nat /\ Len(t) = n + 1 /\ t[n + 1] = s
      /\ \A i \in 1..n : t[i] = ss[i]
  OBVIOUS
<1> HIDE DEF t, n
<1>1. ASSUME NEW h, IsHeld(h, b, t)
      PROVE /\ h[n] = act /\ h[n + 1] = new
            /\ \A i \in 1..(n + 1) : ValidSample(i, h[i - 1], Reference(b), t[i])
  <2> DEFINE g == [i \in 0..n |-> h[i]]
  <2>1. IsHeld(g, b, ss)
    <3>1. \A i \in 0..n : g[i] = IF i = 0 THEN b.drive ELSE HeldAfter(i, g[i - 1], Reference(b), ss[i])
      <4> TAKE i \in 0..n
      <4>1. h[i] = IF i = 0 THEN b.drive ELSE HeldAfter(i, h[i - 1], Reference(b), t[i])
        BY <1>0, <1>1 DEF IsHeld
      <4>2. i # 0 => t[i] = ss[i] /\ g[i - 1] = h[i - 1]
        BY <1>0
      <4>3. g[i] = h[i]
        OBVIOUS
      <4> QED BY <4>1, <4>2, <4>3
    <3>2. g = [i \in 0..n |-> g[i]]
      OBVIOUS
    <3> HIDE DEF g
    <3> QED BY <3>1, <3>2, <1>0 DEF IsHeld, n
  <2>2. g[n] = act /\ \A i \in 1..n : ValidSample(i, g[i - 1], Reference(b), ss[i])
    BY <2>1, Zenon DEF Accepts, n
  <2>3. h[n] = act
    BY <2>2, <1>0
  <2>4. h[n + 1] = new
    <3>1. h[n + 1] = HeldAfter(n + 1, h[(n + 1) - 1], Reference(b), t[n + 1])
      BY <1>0, <1>1 DEF IsHeld
    <3> QED BY <3>1, <2>3, <1>0
  <2>5. ASSUME NEW i \in 1..(n + 1) PROVE ValidSample(i, h[i - 1], Reference(b), t[i])
    <3>1. CASE i = n + 1
      <4>1. h[i - 1] = act /\ t[i] = s
        BY <3>1, <2>3, <1>0
      <4> QED BY <3>1, <4>1 DEF n
    <3>2. CASE i # n + 1
      <4>1. i \in 1..n
        BY <3>2, <1>0
      <4>2. g[i - 1] = h[i - 1] /\ t[i] = ss[i]
        BY <4>1, <1>0
      <4> HIDE DEF g
      <4> QED BY <2>2, <4>1, <4>2, Zenon
    <3> QED BY <3>1, <3>2
  <2> QED BY <2>3, <2>4, <2>5
<1>2. \E h : IsHeld(h, b, t)
  <2>1. PICK g : IsHeld(g, b, ss)
    BY Zenon DEF Accepts
  <2> DEFINE h == [i \in 0..(n + 1) |-> IF i = n + 1 THEN new ELSE g[i]]
  <2>2. g[n] = act
    BY <2>1, Zenon DEF Accepts, n
  <2>3. \A i \in 0..(n + 1) : h[i] = IF i = 0 THEN b.drive ELSE HeldAfter(i, h[i - 1], Reference(b), t[i])
    <3> TAKE i \in 0..(n + 1)
    <3>1. CASE i = n + 1
      <4>1. h[i] = new /\ h[i - 1] = act /\ t[i] = s /\ i # 0
        BY <3>1, <2>2, <1>0
      <4> QED BY <3>1, <4>1
    <3>2. CASE i # n + 1
      <4>1. i \in 0..n /\ h[i] = g[i]
        BY <3>2, <1>0
      <4>2. g[i] = IF i = 0 THEN b.drive ELSE HeldAfter(i, g[i - 1], Reference(b), ss[i])
        BY <2>1, <4>1 DEF IsHeld, n
      <4>3. i # 0 => t[i] = ss[i] /\ h[i - 1] = g[i - 1]
        BY <4>1, <1>0
      <4> HIDE DEF h
      <4> QED BY <4>1, <4>2, <4>3
    <3> QED BY <3>1, <3>2
  <2>4. h = [i \in 0..(n + 1) |-> h[i]]
    OBVIOUS
  <2> HIDE DEF h
  <2>5. IsHeld(h, b, t)
    BY <2>3, <2>4, <1>0 DEF IsHeld
  <2> QED BY <2>5
<1> QED BY <1>0, <1>1, <1>2, Zenon DEF Accepts, t, n

\* What is accepted sample by sample, the reader accepts.
LEMMA AcceptedByReader ==
  ASSUME NEW b, NEW ss, NEW act, Accepts(b, ss, act), Len(ss) <= Len(Probes)
  PROVE  ValidSamples(b, ss) /\ Held(b, ss)[Len(ss)] = act
<1>1. IsHeld(Held(b, ss), b, ss)
  BY DEF Accepts, Held, IsHeld
<1>2. /\ Held(b, ss)[Len(ss)] = act
      /\ \A i \in 1..Len(ss) : ValidSample(i, Held(b, ss)[i - 1], Reference(b), ss[i])
  BY <1>1, Zenon DEF Accepts
<1> QED BY <1>2, Zenon DEF ValidSamples

Baselines == [drive : Int, states : Seq(State)]
Settled   == [requested : Int, error : Int]
Corrected == [requested : Int, final : Int, command : Int]
Sample    == [start : State, target : Int, drive : Int \cup {None}, end : Int, motion : Settled,
              command : Int \cup {None}, correction : Corrected \cup {None},
              rollback : Settled, reset : State]

Measuring == {"capture", "sample", "forward", "settle", "settled", "unsettled"}
Probe     == {"forward", "settle", "settled", "unsettled"}

\* Files are written at the end, and nothing is kept for another measurement.
Filing ==
  /\ pc # "idle" => report = {} /\ failure = {}
  /\ pc \notin Measuring => baseline = None /\ samples = <<>>
  /\ EveryEndHasEvidence

\* Until the first window qualifies the trace is short and has none.
Waiting ==
  pc = "baseline" =>
    trace # <<>> /\ Len(trace) <= MaxIntervals /\ first_qualifying(trace) = {}

\* From then on the reader accepts what there is.
Accepted ==
  pc \in Measuring =>
    /\ baseline \in Baselines /\ ValidBaseline(baseline)
    /\ samples \in Seq(Sample) /\ Len(samples) <= Len(Probes)
    /\ Accepts(baseline, samples, active)
    /\ pc = "capture" => samples = <<>>

\* The execution of the probe under way is one the reader accepts.
Executing ==
  pc \in Probe =>
    /\ Index <= Len(Probes)
    /\ ValidExecution(Index, cur, active)
    /\ Equivalent(Reference(baseline), cur.start, ResetTol)
    /\ cur.start \in State /\ cur.target \in Int /\ cur.drive \in Int \cup {None}

\* The target of the way back from an endpoint.
Back(end) == rollback_drive_target(Index, active, Reference(baseline).x, cur.drive, end)

\* So are its settlements and the way back.
Within == Dist(x, settling.target)
            <= maximum_tracking_error(Dist(settling.start, settling.target), settling.cap)

OnTheWay ==
  pc \in {"settle", "settled", "unsettled"} =>
    /\ phase = "forward" =>
         settling.start = cur.start.x /\ settling.target = cur.target /\ settling.cap = FALSE
    /\ phase = "recovery" =>
         /\ cur.final \in Int /\ Back(cur.final) # None
         /\ cur.command = drive_command(Index, Back(cur.final))
         /\ settling.start = cur.final
    /\ phase \in {"rollback", "correction"} =>
         /\ cur.end \in Int /\ cur.motion \in Settled
         /\ ValidSettlement(cur.motion, cur.start.x, cur.target, cur.end, FALSE)
         /\ cur.applied = Back(cur.end) /\ Back(cur.end) \in Int
         /\ cur.command = drive_command(Index, Back(cur.end))
    /\ phase = "rollback" => cur.correction = None /\ settling.start = cur.end
    /\ phase = "correction" =>
         /\ cur.correction \in Corrected
         /\ ValidCorrection(Index, cur.correction, Reference(baseline), cur.end, cur.command)
         /\ settling.start = cur.correction.final

Arrived == pc = "settled" => Within

EInv == Filing /\ Waiting /\ Accepted /\ Executing /\ OnTheWay /\ Arrived

-----------------------------------------------------------------------------
LEMMA Roster == Len(Probes) \in Nat /\ Len(Probes) > 0 /\ (\A i \in 1..Len(Probes) : Probes[i] \in Nat)
  BY ResolutionAssumption

LEMMA NoBaseline == None \notin Baselines
  BY ResolutionAssumption, Zenon DEF Baselines, State

\* Evidence of a failure for no special reason is valid whenever its parts are.
LEMMA ErrorIsValid ==
  ASSUME NEW b, NEW ss, NEW d,
         b = None => ss = <<>>,
         b # None => ValidBaseline(b) /\ ValidSamples(b, ss)
  PROVE  ValidFailure([baseline |-> b, samples |-> ss, cause |-> "error", detail |-> d])
  BY DEF ValidFailure

\* What the invariant says of the evidence, in the reader's words.
LEMMA Readable ==
  ASSUME IInv, EInv, pc \in Measuring
  PROVE  /\ baseline # None /\ ValidBaseline(baseline) /\ ValidSamples(baseline, samples)
         /\ Held(baseline, samples)[Index - 1] = active
         /\ Len(samples) \in Nat /\ Index - 1 = Len(samples)
         /\ Reference(baseline) \in State /\ active \in Int /\ x \in Int
<1>1. baseline # None /\ ValidBaseline(baseline)
  BY NoBaseline, Zenon DEF EInv, Accepted
<1>2. ValidSamples(baseline, samples) /\ Held(baseline, samples)[Len(samples)] = active
  BY AcceptedByReader, Zenon DEF EInv, Accepted
<1>3. Len(samples) \in Nat /\ Index - 1 = Len(samples)
  BY DEF EInv, Accepted, Index
<1>4. Reference(baseline) \in State /\ active \in Int /\ x \in Int
  BY DEF IInv, TypeOK, Measured, Measuring
<1> QED BY <1>1, <1>2, <1>3, <1>4

\* A failure whose evidence is valid keeps the invariant.
LEMMA FailedWell ==
  ASSUME IInv, EInv, pc # "idle", NEW cause, NEW detail, Fail(cause, detail),
         Len(samples) < Len(Probes),
         ValidFailure([baseline |-> baseline, samples |-> samples,
                       cause |-> cause, detail |-> detail])
  PROVE  EInv'
<1> DEFINE f == [baseline |-> baseline, samples |-> samples, cause |-> cause, detail |-> detail]
<1>1. failure' = {f} /\ UNCHANGED report
  BY Zenon DEF Fail
<1>2. pc' = "idle" /\ paused' = TRUE /\ baseline' = None /\ samples' = <<>>
  BY DEF Fail, EndRun
<1>3. f.samples = samples
  OBVIOUS
<1> HIDE DEF f
<1>4. Filing'
  <2>1. EveryEndHasEvidence'
    BY <1>1, <1>2, <1>3 DEF EveryEndHasEvidence, EInv, Filing
  <2> QED BY <1>2, <2>1 DEF Filing, Measuring
<1> QED BY <1>2, <1>4 DEF EInv, Waiting, Accepted, Executing, OnTheWay, Arrived, Measuring, Probe

\* So does an error, wherever it happens.
LEMMA FailedByError ==
  ASSUME IInv, EInv, pc # "idle", NEW detail, Fail("error", detail),
         pc \in Measuring => Index <= Len(Probes)
  PROVE  EInv'
<1>1. CASE pc \in Measuring
  <2>1. Len(samples) < Len(Probes)
    BY <1>1, Readable, Roster DEF Index
  <2>2. baseline # None /\ ValidBaseline(baseline) /\ ValidSamples(baseline, samples)
    BY <1>1, Readable
  <2> QED BY <2>1, <2>2, ErrorIsValid, FailedWell
<1>2. CASE pc \notin Measuring
  <2>1. baseline = None /\ samples = <<>>
    BY <1>2 DEF EInv, Filing
  <2>2. Len(samples) < Len(Probes)
    BY <2>1, Roster
  <2> QED BY <2>1, <2>2, ErrorIsValid, FailedWell
<1> QED BY <1>1, <1>2

LEMMA EInvInit == Init => EInv
<1> SUFFICES ASSUME Init PROVE EInv
  OBVIOUS
<1>1. pc = "idle" /\ baseline = None /\ samples = <<>> /\ ending = "none"
  BY DEF Init
<1>2. Filing
  BY <1>1 DEF Filing, EveryEndHasEvidence
<1> QED BY <1>1, <1>2 DEF EInv, Waiting, Accepted, Executing, OnTheWay, Arrived, Measuring, Probe

LEMMA EInvStutter == EInv /\ UNCHANGED vars => EInv'
<1> SUFFICES ASSUME EInv, UNCHANGED vars PROVE EInv'
  OBVIOUS
<1>1. Filing'
  BY DEF vars, EInv, Filing, EveryEndHasEvidence
<1>2. Waiting' /\ Accepted'
  BY DEF vars, EInv, Waiting, Accepted, ValidBaseline, Accepts, IsHeld
<1>3. Executing' /\ Arrived'
  BY DEF vars, EInv, Executing, Arrived, Index, Reference, Within
<1>4. OnTheWay'
  BY DEF vars, EInv, OnTheWay, Index, Reference, Back
<1> QED BY <1>1, <1>2, <1>3, <1>4 DEF EInv

LEMMA EInvMeasure == ASSUME IInv, EInv, Measure PROVE EInv'
<1>1. pc = "idle" /\ pc' \in {"idle", "open"} /\ UNCHANGED <<report, failure, paused, baseline, samples, ending>>
  BY DEF Measure
<1>2. pc' # "idle" => report = {} /\ failure = {}
  BY DEF Measure
<1>3. Filing'
  BY <1>1, <1>2 DEF EInv, Filing, EveryEndHasEvidence, Measuring
<1> QED BY <1>1, <1>3 DEF EInv, Waiting, Accepted, Executing, OnTheWay, Arrived, Measuring, Probe

LEMMA EInvOpen == ASSUME IInv, EInv, Open PROVE EInv'
<1>1. pc = "open" /\ pc' \in {"idle", "synchronize"} /\ UNCHANGED <<report, failure, baseline, samples>>
  BY DEF Open
<1>2. pc' = "idle" => ending' = "lost"
  BY DEF Open
<1>3. Filing'
  BY <1>1, <1>2 DEF EInv, Filing, EveryEndHasEvidence, Measuring
<1> QED BY <1>1, <1>3 DEF EInv, Waiting, Accepted, Executing, OnTheWay, Arrived, Measuring, Probe

LEMMA EInvSynchronize == ASSUME IInv, EInv, Synchronize PROVE EInv'
<1>0. pc = "synchronize"
  BY DEF Synchronize
<1>1. CASE Fail("error", None)
  BY <1>0, <1>1, FailedByError DEF Measuring
<1>2. CASE /\ pc' = "baseline" /\ x' \in Reach(drive)
           /\ trace' = <<[x |-> x', plug |-> plug]>>
           /\ UNCHANGED <<plug, drive, files, baseline, active, samples, cur, settling, past>>
  <2>1. Len(trace') = 1 /\ trace' # <<>>
    BY <1>2
  <2>2. first_qualifying(trace)' = {} /\ 1 <= MaxIntervals
    <3>1. Window \in Nat \ {0} /\ MaxIntervals \in Nat \ {0}
      BY ResolutionAssumption
    <3> QED BY <2>1, <3>1 DEF first_qualifying
  <2>3. Filing'
    BY <1>0, <1>2 DEF EInv, Filing, EveryEndHasEvidence, Measuring
  <2>4. Waiting'
    BY <2>1, <2>2 DEF Waiting
  <2> QED BY <1>2, <2>3, <2>4 DEF EInv, Accepted, Executing, OnTheWay, Arrived, Measuring, Probe
<1> QED BY <1>1, <1>2 DEF Synchronize

\* A new state can complete a window only at its own end.
LEMMA Windows ==
  ASSUME NEW t \in Seq(State), NEW s \in State, first_qualifying(t) = {}
  PROVE  first_qualifying(Append(t, s)) \in {{}, {Len(Append(t, s))}}
<1> DEFINE u == Append(t, s)
<1>0. Window \in Nat \ {0}
  BY ResolutionAssumption
<1>1. Len(t) \in Nat /\ Len(u) = Len(t) + 1 /\ \A i \in 1..Len(t) : u[i] = t[i]
  OBVIOUS
<1> HIDE DEF u
<1>2. ASSUME NEW n \in first_qualifying(u), n # Len(u) PROVE FALSE
  <2>1. n \in (Window + 1)..Len(t) /\ WindowPasses(u, n)
    BY <1>0, <1>1, <1>2 DEF first_qualifying
  <2>2. \A i \in (n - Window)..n : u[i] = t[i]
    BY <1>0, <1>1, <2>1
  <2>3. WindowPasses(t, n)
    BY <2>1, <2>2 DEF WindowPasses
  <2> QED BY <2>1, <2>3 DEF first_qualifying
<1> QED BY <1>2 DEF u

LEMMA EInvBaseline == ASSUME IInv, EInv, BaselineInterval PROVE EInv'
<1> DEFINE new == [x |-> x', plug |-> plug]
           states == Append(trace, new)
<1>0. pc = "baseline" /\ baseline = None /\ samples = <<>> /\ UNCHANGED <<plug, drive>>
  BY DEF BaselineInterval, EInv, Filing, Measuring
<1>1. new \in State /\ trace \in Seq(State) /\ drive \in Int
  BY DEF BaselineInterval, Reach, IInv, TypeOK, Measured, State
<1>2. states \in Seq(State) /\ Len(states) = Len(trace) + 1 /\ Len(trace) \in Nat /\ states # <<>>
  BY <1>1
<1>3. first_qualifying(states) \in {{}, {Len(states)}}
  BY <1>0, <1>1, Windows DEF EInv, Waiting
<1>4. Len(trace) <= MaxIntervals /\ MaxIntervals \in Nat
  BY <1>0, ResolutionAssumption DEF EInv, Waiting
<1>5. CASE /\ first_qualifying(states) # {}
           /\ pc' = "capture" /\ phase' = "none"
           /\ baseline' = [drive |-> drive, states |-> states]
           /\ active' = drive /\ trace' = <<>>
           /\ UNCHANGED <<paused, files, samples, cur, settling, past>>
  <2>1. baseline' \in Baselines /\ baseline'.drive = drive
    BY <1>1, <1>2, <1>5 DEF Baselines
  <2>2. ValidBaseline(baseline)'
    <3>1. first_qualifying(states) = {Len(states)}
      BY <1>3, <1>5
    <3>2. baseline'.states = states
      BY <1>5
    <3> HIDE DEF states
    <3> QED BY <3>1, <3>2 DEF ValidBaseline
  <2>3. Accepts(baseline, samples, active)'
    <3>1. \A b : Accepts(b, <<>>, b.drive)
      BY AcceptsNothing
    <3>2. Accepts(baseline', <<>>, baseline'.drive)
      BY <3>1
    <3> QED BY <3>2, <2>1, <1>5, <1>0
  <2>4. samples' = <<>> /\ samples' \in Seq(Sample) /\ Len(samples') <= Len(Probes)
    BY <1>0, <1>5, Roster
  <2>5. Accepted'
    BY <2>1, <2>2, <2>3, <2>4 DEF Accepted
  <2>6. Filing'
    BY <1>0, <1>5 DEF EInv, Filing, EveryEndHasEvidence, Measuring
  <2> QED BY <1>5, <2>5, <2>6 DEF EInv, Waiting, Executing, OnTheWay, Arrived, Probe
<1>6. CASE first_qualifying(states) = {} /\ Len(states) = MaxIntervals + 1 /\ Fail("unstable", states)
  <2>1. ValidAttempt(states)
    BY <1>6 DEF ValidAttempt
  <2>2. Len(samples) < Len(Probes)
    BY <1>0, Roster
  <2> HIDE DEF states
  <2>3. ValidFailure([baseline |-> None, samples |-> <<>>, cause |-> "unstable", detail |-> states])
    BY <2>1 DEF ValidFailure
  <2> QED BY <1>0, <1>6, <2>2, <2>3, FailedWell
<1>7. CASE /\ first_qualifying(states) = {} /\ Len(states) # MaxIntervals + 1
           /\ trace' = states
           /\ UNCHANGED <<pc, phase, paused, files, baseline, active, samples, cur, settling, past>>
  <2>1. Len(states) <= MaxIntervals
    BY <1>2, <1>4, <1>7
  <2>2. Waiting'
    BY <1>2, <1>7, <2>1 DEF Waiting
  <2>3. Filing'
    BY <1>0, <1>7 DEF EInv, Filing, EveryEndHasEvidence, Measuring
  <2> QED BY <1>0, <1>7, <2>2, <2>3 DEF EInv, Accepted, Executing, OnTheWay, Arrived, Measuring, Probe
<1> HIDE DEF states
<1> QED BY <1>5, <1>6, <1>7 DEF BaselineInterval, states

LEMMA EInvCheckCapture == ASSUME IInv, EInv, CheckCapture PROVE EInv'
<1>0. pc = "capture" /\ samples = <<>>
  BY DEF CheckCapture, EInv, Accepted, Measuring
<1>1. CASE /\ pc' = "sample" /\ phase' = "none" /\ UNCHANGED <<paused, files, work, past>>
  <2>1. Filing'
    BY <1>0, <1>1 DEF EInv, Filing, EveryEndHasEvidence, Measuring
  <2>2. Accepted'
    BY <1>0, <1>1 DEF EInv, Accepted, Measuring, ValidBaseline, Accepts, IsHeld
  <2> QED BY <1>1, <2>1, <2>2 DEF EInv, Waiting, Executing, OnTheWay, Arrived, Probe
<1> DEFINE d == [step |-> "capture", index |-> 0, reference |-> Captured,
                 candidate |-> baseline.states[1]]
<1>2. CASE ~Equivalent(Captured, baseline.states[1], CaptureTol) /\ Fail("rejected", d)
  <2>1. Len(samples) < Len(Probes)
    BY <1>0, Roster
  <2>2. ValidRejection(d, baseline, samples)
    BY <1>0, <1>2 DEF ValidRejection
  <2>3. baseline # None /\ ValidBaseline(baseline) /\ ValidSamples(baseline, samples)
    BY <1>0, Readable DEF Measuring
  <2> HIDE DEF d
  <2>4. ValidFailure([baseline |-> baseline, samples |-> samples, cause |-> "rejected", detail |-> d])
    BY <2>2, <2>3 DEF ValidFailure
  <2> QED BY <1>0, <1>2, <2>1, <2>4, FailedWell
<1> HIDE DEF d
<1> QED BY <1>1, <1>2 DEF CheckCapture, d

\* What a step inside the measurement leaves alone stays accepted.
LEMMA Kept ==
  ASSUME EInv, pc \in Measuring, pc' \in Measuring \ {"capture"},
         UNCHANGED <<report, failure, baseline, active, samples>>
  PROVE  Filing' /\ Waiting' /\ Accepted'
<1>1. Filing'
  BY DEF EInv, Filing, EveryEndHasEvidence, Measuring
<1>2. Waiting'
  BY DEF Waiting, Measuring
<1>3. Accepted'
  BY DEF EInv, Accepted, ValidBaseline, Accepts, IsHeld
<1> QED BY <1>1, <1>2, <1>3

\* So does the execution of the probe under way.
LEMMA KeptExecution ==
  ASSUME EInv, pc \in Probe, UNCHANGED <<baseline, active, samples>>,
         cur'.start = cur.start, cur'.target = cur.target, cur'.drive = cur.drive
  PROVE  Executing'
  BY DEF EInv, Executing, Index, Reference, ValidExecution

LEMMA EInvStartProbe == ASSUME IInv, EInv, StartProbe PROVE EInv'
<1> DEFINE target == x + Probes[Index]
           d == IF IsHold(Index) THEN None ELSE drive_joint_target(Index, target, active, x)
           e == [start |-> Reset, target |-> target, drive |-> d]
           r == [step |-> "start", index |-> Index, reference |-> Reference(baseline),
                 candidate |-> Reset]
<1>0. pc = "sample" /\ pc \in Measuring /\ Index <= Len(Probes)
  BY DEF StartProbe, Measuring
<1>1. /\ baseline # None /\ ValidBaseline(baseline) /\ ValidSamples(baseline, samples)
      /\ Len(samples) \in Nat /\ Index = Len(samples) + 1
  BY <1>0, Readable DEF Index
<1>2. Len(samples) < Len(Probes)
  BY <1>0, <1>1, Roster
<1>3. CASE Fail("error", None)
  BY <1>0, <1>3, FailedByError
<1>4. CASE ~IsHold(Index) /\ Equivalent(Reference(baseline), Reset, ResetTol) /\ Fail("projection", Reset)
  <2>1. ValidFailure([baseline |-> baseline, samples |-> samples, cause |-> "projection",
                      detail |-> Reset])
    BY <1>0, <1>1, <1>4 DEF ValidFailure, Index
  <2> QED BY <1>0, <1>2, <1>4, <2>1, FailedWell
<1>5. CASE ~Equivalent(Reference(baseline), Reset, ResetTol) /\ Fail("rejected", r)
  <2>1. ValidRejection(r, baseline, samples)
    BY <1>1, <1>5 DEF ValidRejection
  <2> HIDE DEF r
  <2>2. ValidFailure([baseline |-> baseline, samples |-> samples, cause |-> "rejected",
                      detail |-> r])
    BY <1>1, <2>1 DEF ValidFailure
  <2> QED BY <1>0, <1>2, <1>5, <2>2, FailedWell
<1>6. CASE /\ pc' = "forward" /\ phase' = "none" /\ cur' = e
           /\ ValidExecution(Index, e, active)
           /\ Equivalent(Reference(baseline), Reset, ResetTol)
           /\ UNCHANGED <<paused, files, trace, baseline, active, samples, settling, past>>
  <2>1. Filing' /\ Waiting' /\ Accepted'
    BY <1>0, <1>6, Kept DEF Measuring
  <2>2. Executing'
    <3>1. e.start \in State /\ e.target \in Int /\ e.drive \in Int \cup {None}
      <4>1. Probes[Index] \in Nat
        BY <1>0, <1>1, Roster
      <4>2. Reset \in State /\ target \in Int
        BY <4>1 DEF IInv, TypeOK, State
      <4>3. d \in Int \cup {None}
        BY Targets
      <4> HIDE DEF d, target
      <4> QED BY <4>2, <4>3
    <3>2. e.start = Reset
      OBVIOUS
    <3> HIDE DEF e
    <3> QED BY <1>0, <1>6, <3>1, <3>2 DEF Executing, Index, Reference, ValidExecution
  <2> QED BY <1>6, <2>1, <2>2 DEF EInv, OnTheWay, Arrived
<1> HIDE DEF r
<1> QED BY <1>3, <1>4, <1>5, <1>6 DEF StartProbe, r

LEMMA EInvForward == ASSUME IInv, EInv, Forward PROVE EInv'
<1>0. /\ pc = "forward" /\ pc' = "settle" /\ phase' = "forward"
      /\ settling' = [start |-> cur.start.x, target |-> cur.target, cap |-> FALSE,
                      updates |-> 0, passing |-> 0]
      /\ UNCHANGED <<report, failure, baseline, active, samples, cur>>
  BY DEF Forward, Settle
<1>1. Filing' /\ Waiting' /\ Accepted'
  BY <1>0, Kept DEF Measuring
<1>2. Executing'
  BY <1>0, KeptExecution DEF Probe
<1> QED BY <1>0, <1>1, <1>2 DEF EInv, OnTheWay, Arrived

LEMMA EInvSettleUpdate == ASSUME IInv, EInv, SettleUpdate PROVE EInv'
<1> DEFINE required == maximum_tracking_error(Dist(settling.start, settling.target), settling.cap)
           passing == Passing(Dist(x', settling.target) <= required)
<1>0. /\ pc = "settle" /\ pc' \in {"settle", "settled", "unsettled"} /\ phase' = phase
      /\ UNCHANGED <<report, failure, baseline, active, samples, cur>>
  BY DEF SettleUpdate
<1>1. settling' = [settling EXCEPT !.updates = Updates, !.passing = passing]
  BY DEF SettleUpdate
<1>2. /\ settling'.start = settling.start /\ settling'.target = settling.target
      /\ settling'.cap = settling.cap
  BY <1>0, <1>1 DEF IInv, Settling
<1>3. Filing' /\ Waiting' /\ Accepted'
  BY <1>0, Kept DEF Measuring
<1>4. Executing'
  BY <1>0, KeptExecution DEF Probe
<1>5. Arrived'
  <2>1. pc' = "settled" => Dist(x', settling.target) <= required
    BY DEF SettleUpdate, Passing
  <2> QED BY <1>2, <2>1 DEF Arrived, Within
<1>6. OnTheWay'
  BY <1>0, <1>2 DEF EInv, OnTheWay, Index, Reference, Back
<1> QED BY <1>3, <1>4, <1>5, <1>6 DEF EInv

\* The evidence of a motion that did not settle is valid, however its recovery ended.
LEMMA MotionIsValid ==
  ASSUME IInv, EInv, pc \in {"settle", "settled", "unsettled"}, phase = "recovery",
         NEW r, r.start = cur.final, r.command = cur.command,
         r.status = "settled" =>
           /\ ValidSettlement(r.settlement, r.start, Reference(baseline).x, r.reset.x, TRUE)
           /\ Equivalent(Reference(baseline), r.reset, ResetTol),
         Fail("motion", MotionTimeout(r))
  PROVE  EInv'
<1> DEFINE t == MotionTimeout(r)
           i == Len(samples) + 1
<1>0. pc \in Measuring /\ pc \in Probe /\ i = Index
  BY DEF Measuring, Probe, Index
<1>1. /\ baseline # None /\ ValidBaseline(baseline) /\ ValidSamples(baseline, samples)
      /\ Held(baseline, samples)[i - 1] = active /\ Len(samples) \in Nat
  BY <1>0, Readable
<1>2. /\ Index <= Len(Probes) /\ ValidExecution(Index, cur, active)
      /\ Equivalent(Reference(baseline), cur.start, ResetTol)
  BY <1>0 DEF EInv, Executing
<1>3. /\ t.execution.start = cur.start /\ t.execution.target = cur.target
      /\ t.execution.drive = cur.drive
      /\ t.final = cur.final /\ t.command = drive_command(Index, cur.drive) /\ t.outcome = r
  BY DEF MotionTimeout
<1>4. Back(cur.final) # None /\ cur.command = drive_command(Index, Back(cur.final))
  BY DEF EInv, OnTheWay
<1> HIDE DEF t, i
<1>5. ValidTrace(i, t, active, Reference(baseline))
  BY <1>0, <1>2, <1>3 DEF ValidTrace, ValidExecution
<1>6. ValidRecovery(i, t, active, Reference(baseline))
  BY <1>0, <1>3, <1>4 DEF ValidRecovery, Back
<1>7. ValidMotionTimeout(i, t, active, Reference(baseline))
  BY <1>0, <1>3, <1>5, <1>6 DEF ValidMotionTimeout
<1>8. ValidFailure([baseline |-> baseline, samples |-> samples, cause |-> "motion", detail |-> t])
  BY <1>1, <1>7 DEF ValidFailure, i
<1>9. Len(samples) < Len(Probes)
  BY <1>0, <1>1, <1>2, Roster DEF i
<1> QED BY <1>0, <1>8, <1>9, FailedWell DEF t, Measuring

LEMMA EInvInterlockStops == ASSUME IInv, EInv, InterlockStops PROVE EInv'
<1>1. pc = "settle" /\ pc \in Measuring /\ pc \in Probe
  BY DEF InterlockStops, Measuring, Probe
<1>2. CASE phase = "recovery"
  <2> DEFINE r == RecoveryFailure(FALSE)
  <2>1. r.start = cur.final /\ r.command = cur.command /\ r.status # "settled"
    BY DEF RecoveryFailure
  <2>2. Fail("motion", MotionTimeout(r))
    BY <1>2 DEF InterlockStops
  <2> HIDE DEF r
  <2> QED BY <1>1, <1>2, <2>1, <2>2, MotionIsValid
<1>3. CASE phase # "recovery"
  <2>1. Fail("error", None)
    BY <1>3 DEF InterlockStops
  <2>2. Index <= Len(Probes)
    BY <1>1 DEF EInv, Executing
  <2> QED BY <1>1, <2>1, <2>2, FailedByError
<1> QED BY <1>2, <1>3

\* What was reached lies within the tolerance of what was settled.
LEMMA EvidenceIsSettled ==
  ASSUME IInv, EInv, pc = "settled"
  PROVE  /\ SettledEvidence \in Settled
         /\ ValidSettlement(SettledEvidence, settling.start, settling.target, x, settling.cap)
<1>1. settling.start \in Int /\ settling.target \in Int /\ x \in Int
  BY DEF IInv, TypeOK, Settling
<1>2. Dist(settling.start, settling.target) \in Int /\ Dist(x, settling.target) \in Int
  BY <1>1 DEF Dist
<1>3. Within
  BY DEF EInv, Arrived
<1> QED BY <1>2, <1>3 DEF SettledEvidence, Settled, ValidSettlement, Within

LEMMA EInvRecoveryEnds == ASSUME IInv, EInv, RecoveryEnds PROVE EInv'
<1>0. pc \in {"settled", "unsettled"} /\ phase = "recovery"
  BY DEF RecoveryEnds
<1> DEFINE r1 == [status |-> "settled", start |-> cur.final, command |-> cur.command,
                  settlement |-> SettledEvidence, reset |-> Reset]
           r2 == RecoveryFailure(pc = "unsettled")
<1>1. CASE pc = "settled" /\ Equivalent(Reference(baseline), Reset, ResetTol)
  <2>1. Fail("motion", MotionTimeout(r1))
    BY <1>1 DEF RecoveryEnds
  <2>2. settling.start = cur.final /\ settling.target = Reference(baseline).x /\ settling.cap = TRUE
    BY <1>0 DEF IInv, Settling, EInv, OnTheWay
  <2>3. /\ r1.start = cur.final /\ r1.command = cur.command /\ r1.settlement = SettledEvidence
        /\ r1.reset = Reset /\ r1.reset.x = x
    OBVIOUS
  <2>4. ValidSettlement(SettledEvidence, cur.final, Reference(baseline).x, x, TRUE)
    BY <1>1, <2>2, EvidenceIsSettled
  <2> HIDE DEF r1
  <2> QED BY <1>0, <1>1, <2>1, <2>3, <2>4, MotionIsValid
<1>2. CASE ~(pc = "settled" /\ Equivalent(Reference(baseline), Reset, ResetTol))
  <2>1. Fail("motion", MotionTimeout(r2))
    BY <1>2 DEF RecoveryEnds
  <2>2. r2.start = cur.final /\ r2.command = cur.command /\ r2.status # "settled"
    BY DEF RecoveryFailure
  <2> HIDE DEF r2
  <2> QED BY <1>0, <2>1, <2>2, MotionIsValid
<1> QED BY <1>1, <1>2

\* What sending the arm back keeps.
LEMMA SentBack ==
  ASSUME IInv, EInv, pc \in {"settled", "unsettled"}, NEW ph, NEW target, NEW evidence,
         MoveBack(ph, target, evidence),
         evidence.start = cur.start, evidence.target = cur.target, evidence.drive = cur.drive
  PROVE  /\ Filing' /\ Waiting' /\ Accepted' /\ Executing' /\ Arrived'
         /\ pc' = "settle" /\ phase' = ph /\ cur' = evidence
         /\ settling'.start = x
         /\ UNCHANGED <<baseline, active, samples>>
<1>1. /\ pc' = "settle" /\ phase' = ph /\ cur' = evidence
      /\ settling' = [start |-> x, target |-> Reference(baseline).x, cap |-> TRUE,
                      updates |-> 0, passing |-> 0]
      /\ UNCHANGED <<report, failure, baseline, active, samples>>
  BY DEF MoveBack, Settle
<1>2. Filing' /\ Waiting' /\ Accepted'
  BY <1>1, Kept DEF Measuring
<1>3. Executing'
  BY <1>1, KeptExecution DEF Probe
<1> QED BY <1>1, <1>2, <1>3 DEF Arrived

LEMMA EInvRecover == ASSUME IInv, EInv, Recover PROVE EInv'
<1>0. pc = "unsettled" /\ phase = "forward" /\ pc \in Measuring /\ pc \in Probe
  BY DEF Recover, Measuring, Probe
<1>1. Index <= Len(Probes) /\ x \in Int /\ active \in Int
  BY <1>0, Readable DEF EInv, Executing
<1>2. CASE Back(x) = None
  <2>1. Fail("error", None)
    BY <1>2 DEF Recover, Back
  <2> QED BY <1>0, <1>1, <2>1, FailedByError
<1>3. CASE Back(x) # None
  <2> DEFINE e == [start |-> cur.start, target |-> cur.target, drive |-> cur.drive,
                   final |-> x, command |-> drive_command(Index, Back(x))]
  <2>1. MoveBack("recovery", Back(x), e)
    BY <1>3 DEF Recover, Back
  <2>2. /\ e.start = cur.start /\ e.target = cur.target /\ e.drive = cur.drive
        /\ e.final = x /\ e.command = drive_command(Index, Back(x))
    OBVIOUS
  <2> HIDE DEF e
  <2>3. /\ Filing' /\ Waiting' /\ Accepted' /\ Executing' /\ Arrived'
        /\ phase' = "recovery" /\ cur' = e /\ settling'.start = x
        /\ UNCHANGED <<baseline, active, samples>>
    BY <1>0, <2>1, <2>2, SentBack
  <2>4. OnTheWay'
    BY <1>1, <1>3, <2>2, <2>3 DEF OnTheWay, Back, Index, Reference
  <2> QED BY <2>3, <2>4 DEF EInv
<1> QED BY <1>2, <1>3

LEMMA EInvReturn == ASSUME IInv, EInv, Return PROVE EInv'
<1>0. pc = "settled" /\ phase = "forward" /\ pc \in Measuring /\ pc \in Probe
  BY DEF Return, Measuring, Probe
<1>1. Index <= Len(Probes) /\ x \in Int /\ active \in Int
  BY <1>0, Readable DEF EInv, Executing
<1>2. CASE Back(x) = None
  <2>1. Fail("error", None)
    BY <1>2 DEF Return, Back
  <2> QED BY <1>0, <1>1, <2>1, FailedByError
<1>3. CASE Back(x) # None
  <2> DEFINE e == [start |-> cur.start, target |-> cur.target, drive |-> cur.drive,
                   end |-> x, motion |-> SettledEvidence, applied |-> Back(x),
                   command |-> drive_command(Index, Back(x)), correction |-> None]
  <2>1. MoveBack("rollback", Back(x), e)
    BY <1>3 DEF Return, Back
  <2>2. /\ e.start = cur.start /\ e.target = cur.target /\ e.drive = cur.drive
        /\ e.end = x /\ e.motion = SettledEvidence /\ e.applied = Back(x)
        /\ e.command = drive_command(Index, Back(x)) /\ e.correction = None
    OBVIOUS
  <2>3. Back(x) \in Int
    BY <1>1, <1>3, Targets DEF Back
  <2>4. SettledEvidence \in Settled /\ ValidSettlement(SettledEvidence, cur.start.x, cur.target, x, FALSE)
    BY <1>0, EvidenceIsSettled DEF EInv, OnTheWay
  <2> HIDE DEF e
  <2>6. /\ Filing' /\ Waiting' /\ Accepted' /\ Executing' /\ Arrived'
        /\ phase' = "rollback" /\ cur' = e /\ settling'.start = x
        /\ UNCHANGED <<baseline, active, samples>>
    BY <1>0, <2>1, <2>2, SentBack
  <2>7. OnTheWay'
    <3>1. cur'.end = x /\ cur'.motion \in Settled
      BY <2>2, <2>4, <2>6
    <3>2. ValidSettlement(cur.motion, cur.start.x, cur.target, cur.end, FALSE)'
      <4>1. ValidSettlement(cur'.motion, cur'.start.x, cur'.target, cur'.end, FALSE)
        BY <2>2, <2>4, <2>6
      <4> QED BY <4>1 DEF ValidSettlement
    <3>3. Back(cur.end)' = Back(x)
      BY <2>2, <2>6 DEF Back, Index, Reference
    <3>4. cur.command' = drive_command(Index, Back(cur.end))' /\ cur'.applied = Back(cur.end)'
      BY <2>2, <2>6, <3>3 DEF Index, drive_command
    <3> QED BY <1>1, <2>2, <2>3, <2>6, <3>1, <3>2, <3>3, <3>4 DEF OnTheWay
  <2> QED BY <2>6, <2>7 DEF EInv
<1> QED BY <1>2, <1>3

\* The evidence of a rollback that did not settle is valid.
LEMMA RollbackIsValid ==
  ASSUME IInv, EInv, pc = "unsettled", phase \in {"rollback", "correction"},
         Fail("rollback", RollbackTimeout)
  PROVE  EInv'
<1> DEFINE t == RollbackTimeout
           i == Len(samples) + 1
<1>0. pc \in Measuring /\ pc \in Probe /\ i = Index
  BY DEF Measuring, Probe, Index
<1>1. /\ baseline # None /\ ValidBaseline(baseline) /\ ValidSamples(baseline, samples)
      /\ Held(baseline, samples)[i - 1] = active /\ Len(samples) \in Nat
  BY <1>0, Readable
<1>2. /\ Index <= Len(Probes) /\ ValidExecution(Index, cur, active)
      /\ Equivalent(Reference(baseline), cur.start, ResetTol)
  BY <1>0 DEF EInv, Executing
<1>3. /\ t.execution = cur /\ t.start = settling.start /\ t.correction = cur.correction
      /\ t.command = IF cur.correction = None THEN cur.command ELSE cur.correction.command
  BY DEF RollbackTimeout
<1>4. /\ ValidSettlement(cur.motion, cur.start.x, cur.target, cur.end, FALSE)
      /\ cur.command = drive_command(Index, Back(cur.end))
  BY DEF EInv, OnTheWay
<1>5. \/ cur.correction = None /\ settling.start = cur.end
      \/ /\ cur.correction # None
         /\ ValidCorrection(Index, cur.correction, Reference(baseline), cur.end, cur.command)
         /\ settling.start = cur.correction.final
  BY NoCommand DEF EInv, OnTheWay, Corrected
<1> HIDE DEF t, i
<1>6. ValidTrace(i, t, active, Reference(baseline))
  BY <1>0, <1>2, <1>3 DEF ValidTrace
<1>7. ValidRollbackTimeout(i, t, active, Reference(baseline))
  BY <1>0, <1>3, <1>4, <1>5, <1>6 DEF ValidRollbackTimeout, Back
<1>8. ValidFailure([baseline |-> baseline, samples |-> samples, cause |-> "rollback", detail |-> t])
  BY <1>1, <1>7 DEF ValidFailure, i
<1>9. Len(samples) < Len(Probes)
  BY <1>0, <1>1, <1>2, Roster DEF i
<1> QED BY <1>0, <1>8, <1>9, FailedWell DEF t, Measuring

LEMMA EInvCorrect == ASSUME IInv, EInv, Correct PROVE EInv'
<1>0. pc = "unsettled" /\ phase = "rollback" /\ pc \in Measuring /\ pc \in Probe
  BY DEF Correct, Measuring, Probe
<1>1. x \in Int /\ Reference(baseline).x \in Int
  BY <1>0, Readable DEF State
<1> DEFINE target == rollback_feedback_command(Index, Reference(baseline).x, cur.command, x)
           c == [requested |-> Dist(settling.start, settling.target), final |-> x,
                 command |-> target]
<1>2. CASE target = None
  BY <1>0, <1>2, RollbackIsValid DEF Correct
<1>3. CASE target # None
  <2>1. target \in Int
    BY <1>3, Targets
  <2>2. /\ cur.end \in Int /\ cur.motion \in Settled
        /\ ValidSettlement(cur.motion, cur.start.x, cur.target, cur.end, FALSE)
        /\ cur.applied = Back(cur.end) /\ Back(cur.end) \in Int
        /\ cur.command = drive_command(Index, Back(cur.end))
        /\ settling.start = cur.end /\ settling.target = Reference(baseline).x
    BY <1>0 DEF EInv, OnTheWay, IInv, Settling
  <2>3. Dist(settling.start, settling.target) = Dist(cur.end, Reference(baseline).x)
        /\ Dist(cur.end, Reference(baseline).x) \in Int
    BY <1>1, <2>2 DEF Dist
  <2>4. c \in Corrected /\ ValidCorrection(Index, c, Reference(baseline), cur.end, cur.command)
    BY <1>1, <1>3, <2>1, <2>3 DEF Corrected, ValidCorrection
  <2> DEFINE e == [cur EXCEPT !.correction = c]
  <2>5. MoveBack("correction", target, e)
    BY <1>3 DEF Correct
  <2>6. cur = [start |-> cur.start, target |-> cur.target, drive |-> cur.drive,
               end |-> cur.end, motion |-> cur.motion, applied |-> cur.applied,
               command |-> cur.command, correction |-> cur.correction]
    BY <1>0 DEF IInv, Probing
  <2> HIDE DEF c, target
  <2>7. /\ e.start = cur.start /\ e.target = cur.target /\ e.drive = cur.drive
        /\ e.end = cur.end /\ e.motion = cur.motion /\ e.applied = cur.applied
        /\ e.command = cur.command /\ e.correction = c
    BY <2>6
  <2>8. c.final = x
    BY DEF c
  <2> HIDE DEF e
  <2>9. /\ Filing' /\ Waiting' /\ Accepted' /\ Executing' /\ Arrived'
        /\ phase' = "correction" /\ cur' = e /\ settling'.start = x
        /\ UNCHANGED <<baseline, active, samples>>
    BY <1>0, <2>5, <2>7, SentBack
  <2>10. OnTheWay'
    <3>1. ValidSettlement(cur.motion, cur.start.x, cur.target, cur.end, FALSE)'
      <4>1. ValidSettlement(cur'.motion, cur'.start.x, cur'.target, cur'.end, FALSE)
        BY <2>2, <2>7, <2>9
      <4> QED BY <4>1 DEF ValidSettlement
    <3>2. Back(cur.end)' = Back(cur.end)
      BY <2>7, <2>9 DEF Back, Index, Reference
    <3>3. cur.command' = drive_command(Index, Back(cur.end))' /\ cur'.applied = Back(cur.end)'
      BY <2>2, <2>7, <2>9, <3>2 DEF Index, drive_command
    <3>4. ValidCorrection(Index, cur.correction, Reference(baseline), cur.end, cur.command)'
      BY <2>4, <2>7, <2>9 DEF ValidCorrection, Index, Reference
    <3> QED BY <2>2, <2>4, <2>7, <2>8, <2>9, <3>1, <3>2, <3>3, <3>4 DEF OnTheWay
  <2> QED BY <2>9, <2>10 DEF EInv
<1> QED BY <1>2, <1>3

LEMMA EInvCorrectionFails == ASSUME IInv, EInv, CorrectionFails PROVE EInv'
  BY RollbackIsValid DEF CorrectionFails

\* A finished probe is a sample the reader accepts, and leaves the drive where the reader
\* thinks it is.
LEMMA EInvFinishProbe == ASSUME IInv, EInv, FinishProbe PROVE EInv'
<1> DEFINE s == [start |-> cur.start, target |-> cur.target, drive |-> cur.drive,
                 end |-> cur.end, motion |-> cur.motion, command |-> cur.command,
                 correction |-> cur.correction, rollback |-> SettledEvidence, reset |-> Reset]
           r == [step |-> "rollback", index |-> Index, reference |-> Reference(baseline),
                 candidate |-> Reset]
<1>0. /\ pc = "settled" /\ phase \in {"rollback", "correction"} /\ drive = Applied
      /\ pc \in Measuring /\ pc \in Probe
  BY DEF FinishProbe, Measuring, Probe, IInv, Probing
<1>1. /\ baseline # None /\ ValidBaseline(baseline) /\ ValidSamples(baseline, samples)
      /\ Len(samples) \in Nat /\ Index = Len(samples) + 1 /\ x \in Int
      /\ samples \in Seq(Sample)
  BY <1>0, Readable DEF Index, EInv, Accepted
<1>2. /\ Index <= Len(Probes) /\ ValidExecution(Index, cur, active)
      /\ Equivalent(Reference(baseline), cur.start, ResetTol)
      /\ cur.start \in State /\ cur.target \in Int /\ cur.drive \in Int \cup {None}
  BY <1>0 DEF EInv, Executing
<1>3. Len(samples) < Len(Probes)
  BY <1>1, <1>2, Roster
<1>4. CASE ~Equivalent(Reference(baseline), Reset, ResetTol)
  <2>1. Fail("rejected", r)
    BY <1>0, <1>4 DEF FinishProbe
  <2>2. ValidRejection(r, baseline, samples)
    BY <1>1, <1>4 DEF ValidRejection
  <2> HIDE DEF r
  <2>3. ValidFailure([baseline |-> baseline, samples |-> samples, cause |-> "rejected",
                      detail |-> r])
    BY <1>1, <2>2 DEF ValidFailure
  <2> QED BY <1>0, <1>3, <2>1, <2>3, FailedWell
<1>5. CASE Equivalent(Reference(baseline), Reset, ResetTol)
  <2>1. /\ samples' = Append(samples, s) /\ active' = Applied
        /\ pc' = "sample" /\ UNCHANGED <<files, baseline, trace, past>>
    BY <1>0, <1>5 DEF FinishProbe
  <2>2. /\ cur.end \in Int /\ cur.motion \in Settled
        /\ ValidSettlement(cur.motion, cur.start.x, cur.target, cur.end, FALSE)
        /\ cur.applied = Back(cur.end) /\ Back(cur.end) \in Int
        /\ cur.command = drive_command(Index, Back(cur.end))
        /\ settling.target = Reference(baseline).x /\ settling.cap = TRUE
    BY <1>0 DEF EInv, OnTheWay, IInv, Settling
  <2>3. \/ cur.correction = None /\ settling.start = cur.end
        \/ /\ cur.correction # None /\ cur.correction \in Corrected
           /\ ValidCorrection(Index, cur.correction, Reference(baseline), cur.end, cur.command)
           /\ settling.start = cur.correction.final
    BY <1>0, NoCommand DEF EInv, OnTheWay, Corrected
  <2>4. SettledEvidence \in Settled
        /\ ValidSettlement(SettledEvidence, settling.start, Reference(baseline).x, x, TRUE)
    BY <1>0, <2>2, EvidenceIsSettled
  <2>5. s \in Sample
    <3>1. Reset \in State
      BY DEF IInv, TypeOK, State
    <3>2. cur.command \in Int \cup {None}
      BY <2>2 DEF drive_command
    <3> QED BY <1>2, <2>2, <2>3, <2>4, <3>1, <3>2 DEF Sample
  <2>6. /\ s.start = cur.start /\ s.target = cur.target /\ s.drive = cur.drive
        /\ s.end = cur.end /\ s.motion = cur.motion /\ s.command = cur.command
        /\ s.correction = cur.correction /\ s.rollback = SettledEvidence
        /\ s.reset = Reset /\ s.reset.x = x
    OBVIOUS
  <2> HIDE DEF s
  <2>7. ValidExecution(Index, s, active)
    BY <1>2, <2>6 DEF ValidExecution
  <2>8. ValidSample(Index, active, Reference(baseline), s)
    BY <1>2, <1>5, <2>2, <2>3, <2>4, <2>6, <2>7 DEF ValidSample, Back
  <2>9. HeldAfter(Index, active, Reference(baseline), s) = Applied
    BY <2>2, <2>6 DEF HeldAfter, Applied, Back
  <2>10. Accepts(baseline, Append(samples, s), Applied)
    <3>1. Accepts(baseline, samples, active)
      BY <1>0 DEF EInv, Accepted
    <3>2. ValidSample(Len(samples) + 1, active, Reference(baseline), s)
      BY <1>1, <2>8
    <3>3. Accepts(baseline, Append(samples, s), HeldAfter(Len(samples) + 1, active, Reference(baseline), s))
      BY <1>1, <2>5, <3>1, <3>2, AcceptsMore
    <3> QED BY <1>1, <2>9, <3>3
  <2>11. Accepted'
    <3>1. Accepts(baseline, samples, active)'
      BY <2>1, <2>10 DEF Accepts, IsHeld
    <3>2. samples' \in Seq(Sample) /\ Len(samples') <= Len(Probes)
      BY <1>1, <1>3, <2>1, <2>5, Roster
    <3>3. baseline' \in Baselines /\ ValidBaseline(baseline)'
      BY <1>0, <2>1 DEF EInv, Accepted, ValidBaseline
    <3> QED BY <2>1, <3>1, <3>2, <3>3 DEF Accepted
  <2>12. Filing'
    BY <1>0, <2>1 DEF EInv, Filing, EveryEndHasEvidence, Measuring
  <2> QED BY <2>1, <2>11, <2>12 DEF EInv, Waiting, Executing, OnTheWay, Arrived, Probe
<1> QED BY <1>4, <1>5

LEMMA EInvReport == ASSUME IInv, EInv, Report PROVE EInv'
<1> DEFINE r == [baseline |-> baseline, samples |-> samples]
<1>0. pc = "sample" /\ Index > Len(Probes) /\ pc \in Measuring
  BY DEF Report, Measuring
<1>1. /\ ValidBaseline(baseline) /\ ValidSamples(baseline, samples)
      /\ Len(samples) \in Nat /\ Index = Len(samples) + 1 /\ Len(samples) <= Len(Probes)
  BY <1>0, Readable DEF Index, EInv, Accepted
<1>2. Len(samples) = Len(Probes)
  BY <1>0, <1>1, Roster
<1>3. ValidReport(r)
  BY <1>1, <1>2 DEF ValidReport
<1> HIDE DEF r
<1>4. report' = {r} /\ EndRun("complete") /\ UNCHANGED failure
  BY <1>3 DEF Report, r
<1>5. Filing'
  BY <1>0, <1>4 DEF EndRun, EInv, Filing, EveryEndHasEvidence, Measuring
<1> QED BY <1>4, <1>5 DEF EndRun, EInv, Waiting, Accepted, Executing, OnTheWay, Arrived, Measuring, Probe

LEMMA EInvCancel == ASSUME IInv, EInv, Cancel PROVE EInv'
<1>1. EndRun("cancelled") /\ pc # "idle" /\ UNCHANGED files
  BY DEF Cancel, Awaiting
<1>2. Filing'
  BY <1>1 DEF EndRun, EInv, Filing, EveryEndHasEvidence, Measuring
<1> QED BY <1>1, <1>2 DEF EndRun, EInv, Waiting, Accepted, Executing, OnTheWay, Arrived, Measuring, Probe

LEMMA EInvPlugSlips == ASSUME IInv, EInv, PlugSlips PROVE EInv'
<1>0. UNCHANGED <<pc, phase, x, drive, paused, files, work, past>>
  BY DEF PlugSlips
<1>1. Filing'
  BY <1>0 DEF EInv, Filing, EveryEndHasEvidence
<1>2. Waiting' /\ Accepted'
  BY <1>0 DEF EInv, Waiting, Accepted, ValidBaseline, Accepts, IsHeld
<1>3. Executing' /\ Arrived'
  BY <1>0 DEF EInv, Executing, Arrived, Index, Reference, Within
<1>4. OnTheWay'
  BY <1>0 DEF EInv, OnTheWay, Index, Reference, Back
<1> QED BY <1>1, <1>2, <1>3, <1>4 DEF EInv

LEMMA EInvNext == IInv /\ EInv /\ [Next]_vars => EInv'
  BY EInvStutter, EInvMeasure, EInvOpen, EInvSynchronize, EInvBaseline, EInvCheckCapture,
     EInvStartProbe, EInvForward, EInvSettleUpdate, EInvInterlockStops, EInvRecover,
     EInvRecoveryEnds, EInvReturn, EInvCorrect, EInvCorrectionFails, EInvFinishProbe,
     EInvReport, EInvCancel, EInvPlugSlips
     DEF Next, Step

\* A measurement that ended by itself left exactly one file, which the reader accepts: its
\* failure evidence was never refused, and finished probes are a report.
THEOREM EvidenceOfEveryEnd == Spec => []EveryEndHasEvidence
<1>1. EInv => EveryEndHasEvidence
  BY DEF EInv, Filing
<1> QED BY <1>1, Invariance, EInvInit, EInvNext, PTL DEF Spec

\* Every variable keeps the shape the code gives it.
THEOREM TypeCorrect == Spec => []TypeOK
  BY Invariance, PTL DEF IInv

\* The target the runtime remembers is the one the drive holds.
THEOREM TargetsAreKnown == Spec => []TargetIsKnown
  BY Invariance, PTL DEF IInv

\* No rollback that settled is rejected for its joint.
THEOREM SettledIsReset == Spec => []SettledIsHome
  BY Invariance, PTL DEF IInv

\* A probe that moved the arm is undone, unless no target can be computed.
THEOREM ForwardsAreUndone == Spec => ForwardIsUndone
<1>1. [Next]_vars =>
        [ (pc \in {"settled", "unsettled"} /\ phase = "forward" /\ pc' = "idle")
          => None = rollback_drive_target(Index, active, Reference(baseline).x, cur.drive, x) ]_vars
  BY DEF Next, Step, Measure, Open, Synchronize, BaselineInterval, CheckCapture, StartProbe,
         Forward, SettleUpdate, InterlockStops, Recover, RecoveryEnds, Return, Correct,
         CorrectionFails, FinishProbe, Report, Cancel, Awaiting, PlugSlips, MoveBack
<1> QED BY <1>1, PTL DEF Spec, ForwardIsUndone
=============================================================================
