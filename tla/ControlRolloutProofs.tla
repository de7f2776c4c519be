------------------------ MODULE ControlRolloutProofs ------------------------
(***************************************************************************)
(* The safety of a rollout for every number of steps and both scripts.     *)
(***************************************************************************)
EXTENDS ControlRollout, TLAPS

-----------------------------------------------------------------------------
(* The inductive invariant. *)

\* A script keeps to its own phases, waits only for the call of its phase, and
\* does not go on after a failure.
Phased ==
  /\ script \in {"rollout", "trial"}
  /\ script = "rollout" => at \in {"capture", "wait", "respond", "apply", "status", "shadow",
                                   "report", "done"}
  /\ script = "trial" => at \notin {"wait", "status", "shadow"}
  /\ waiting # None => at \in CallPhases /\ waiting = Call(at, step)
  /\ at \notin {"report", "done"} => failed = "none"

\* The steps before the current one have results, those after it do not exist.
Behind ==
  /\ \A k \in StepIds : k < step => session[k] \in Complete
  /\ \A k \in StepIds : k > step => session[k] = "none"
  /\ at \in {"shadow", "confirm"} => session[step] \in Complete
  /\ at = "report" /\ (failed = "shadow" \/ (script = "rollout" /\ failed = "none"))
       => session[step] \in Complete
  /\ at = "confirm" \/ (at = "done" /\ failed = "none")
       => report[step] # None /\ session[step] \in Complete

\* A session exists only on top of applied ones.
Chained ==
  \A k \in StepIds : session[k] # "none" =>
    \A j \in StepIds : j < k => session[j] = "applied"

\* The operation in progress has the session it works on to itself.
RunOwns ==
  running # None =>
    /\ running.op \in {"capture", "evaluate", "apply", "shadow"}
    /\ running.step <= step
    /\ running.op = "capture" => /\ session[running.step] = "none"
                                 /\ \A j \in StepIds : j < running.step => session[j] = "applied"
    /\ running.op = "evaluate" => session[running.step] = "answered"
    /\ running.op = "apply" => session[running.step] = "claimed"

\* A call that was not begun has had no effect.
SentIsFresh ==
  \A c \in sent :
    /\ c.step <= step
    /\ c.op = "capture" => session[c.step] = "none" /\ running # c
    /\ c.op = "apply" => session[c.step] \notin Complete \cup {"claimed"}

\* What the script has not asked for has not happened.
NothingAhead ==
  /\ at = "verify" \/ (at = "capture" /\ waiting = None) =>
       session[step] = "none" /\ Call("capture", step) \notin Live
  /\ at \in {"verify", "capture", "wait", "respond", "evaluate", "prepare", "bind"}
       \/ (at = "apply" /\ waiting = None) =>
       session[step] \notin Complete \cup {"claimed"} /\ Call("apply", step) \notin Live

IInv ==
  /\ TypeOK
  /\ Phased
  /\ Behind
  /\ Chained
  /\ RunOwns
  /\ SentIsFresh
  /\ NothingAhead
  /\ ReportNeverOverclaims
  /\ LateWorkIsReported
  /\ FinalizerReports

-----------------------------------------------------------------------------
(* One lemma per action: it preserves the invariant.                          *)
USE StepsAssumption, ScriptsAssumption, NoneAssumption
USE DEF StepIds, Progress, Complete, Phases, CallPhases, Call, Calls, Entries, Live, shell, server

LEMMA InitInvariant == Init => IInv
  BY SMTT(30) DEF IInv, TypeOK, Phased, Behind, Chained, RunOwns, SentIsFresh, NothingAhead,
     ReportNeverOverclaims, LateWorkIsReported, FinalizerReports, Init

LEMMA SendCallStep == ASSUME IInv, SendCall PROVE IInv'
  BY SMTT(30) DEF IInv, TypeOK, Phased, Behind, Chained, RunOwns, SentIsFresh, NothingAhead,
     ReportNeverOverclaims, LateWorkIsReported, FinalizerReports, SendCall

\* The phase after a call is the next one of the same script, and a trial that
\* is confirmed has its report and all its results.
LEMMA ProceedStep ==
  ASSUME IInv, NEW answer, Proceed(answer)
  PROVE  IInv'
<1>1. at \in CallPhases /\ waiting = Call(at, step)
  BY DEF IInv, Phased, Proceed
<1>2. UNCHANGED <<script, step, sent, running, session, stage, report>> /\ waiting' = None /\ reply' = "none"
  BY DEF Proceed
<1>3. CASE script = "rollout"
  <2>1. at \in {"capture", "apply"}
    BY <1>1, <1>3 DEF IInv, Phased
  <2>2. \/ at' = (IF at = "apply" THEN "status" ELSE IF step = 1 THEN "wait" ELSE "respond") /\ UNCHANGED failed
        \/ at' = "report" /\ failed' = at
    BY <1>3, <2>1 DEF Proceed, Goto, Fail, Following, RolloutPhase
  <2>3. QED
    BY <1>1, <1>2, <1>3, <2>1, <2>2, SMTT(30) DEF IInv, TypeOK, Phased, Behind, Chained, RunOwns,
       SentIsFresh, NothingAhead, ReportNeverOverclaims, LateWorkIsReported, FinalizerReports, Proceed
<1>4. CASE script = "trial"
  <2>1. \/ at' = TrialPhase[at] /\ UNCHANGED failed
        \/ at' = (IF at \in {"verify", "confirm"} THEN "done" ELSE "report") /\ failed' = at
    BY <1>4 DEF Proceed, Goto, Fail, Following
  <2>3. CASE at' = TrialPhase[at] /\ UNCHANGED failed
    <3>1. CASE at = "verify"
      <4>1. at' = "capture" /\ failed' = failed
        BY <2>3, <3>1 DEF TrialPhase
      <4>2. QED
        BY <1>1, <1>2, <1>4, <3>1, <4>1, SMTT(30) DEF IInv, TypeOK, Phased, Behind, Chained, RunOwns, SentIsFresh, NothingAhead,
         ReportNeverOverclaims, LateWorkIsReported, FinalizerReports
    <3>2. CASE at = "capture"
      <4>1. at' = "respond" /\ failed' = failed
        BY <2>3, <3>2 DEF TrialPhase
      <4>2. QED
        BY <1>1, <1>2, <1>4, <3>2, <4>1, SMTT(30) DEF IInv, TypeOK, Phased, Behind, Chained, RunOwns, SentIsFresh, NothingAhead,
         ReportNeverOverclaims, LateWorkIsReported, FinalizerReports
    <3>3. CASE at = "evaluate"
      <4>1. at' = "prepare" /\ failed' = failed
        BY <2>3, <3>3 DEF TrialPhase
      <4>2. QED
        BY <1>1, <1>2, <1>4, <3>3, <4>1, SMTT(30) DEF IInv, TypeOK, Phased, Behind, Chained, RunOwns, SentIsFresh, NothingAhead,
         ReportNeverOverclaims, LateWorkIsReported, FinalizerReports
    <3>4. CASE at = "prepare"
      <4>1. at' = "bind" /\ failed' = failed
        BY <2>3, <3>4 DEF TrialPhase
      <4>2. QED
        BY <1>1, <1>2, <1>4, <3>4, <4>1, SMTT(30) DEF IInv, TypeOK, Phased, Behind, Chained, RunOwns, SentIsFresh, NothingAhead,
         ReportNeverOverclaims, LateWorkIsReported, FinalizerReports
    <3>5. CASE at = "bind"
      <4>1. at' = "apply" /\ failed' = failed
        BY <2>3, <3>5 DEF TrialPhase
      <4>2. QED
        BY <1>1, <1>2, <1>4, <3>5, <4>1, SMTT(30) DEF IInv, TypeOK, Phased, Behind, Chained, RunOwns, SentIsFresh, NothingAhead,
         ReportNeverOverclaims, LateWorkIsReported, FinalizerReports
    <3>6. CASE at = "apply"
      <4>1. at' = "report" /\ failed' = failed
        BY <2>3, <3>6 DEF TrialPhase
      <4>2. (TypeOK /\ Phased)'
        BY <1>2, <1>4, <4>1 DEF IInv, TypeOK, Phased
      <4>3. (Behind /\ Chained)'
        BY <1>1, <1>2, <1>4, <3>6, <4>1 DEF IInv, TypeOK, Phased, Behind, Chained
      <4>4. (RunOwns /\ SentIsFresh /\ NothingAhead)'
        BY <1>2, <4>1 DEF IInv, RunOwns, SentIsFresh, NothingAhead
      <4>5. (ReportNeverOverclaims /\ LateWorkIsReported /\ FinalizerReports)'
        BY <1>2, <1>4, <4>1 DEF IInv, ReportNeverOverclaims, LateWorkIsReported, FinalizerReports
      <4>6. QED
        BY <4>2, <4>3, <4>4, <4>5 DEF IInv
    <3>7. CASE at = "confirm"
      <4>1. at' = "done" /\ failed' = failed
        BY <2>3, <3>7 DEF TrialPhase
      <4>2. QED
        BY <1>1, <1>2, <1>4, <3>7, <4>1, SMTT(30) DEF IInv, TypeOK, Phased, Behind, Chained, RunOwns, SentIsFresh, NothingAhead,
         ReportNeverOverclaims, LateWorkIsReported, FinalizerReports
    <3>8. QED
      BY <1>1, <3>1, <3>2, <3>3, <3>4, <3>5, <3>6, <3>7
  <2>4. CASE at' = (IF at \in {"verify", "confirm"} THEN "done" ELSE "report") /\ failed' = at
    BY <1>1, <1>2, <1>4, <2>4, SMTT(30) DEF IInv, TypeOK, Phased, Behind, Chained, RunOwns,
       SentIsFresh, NothingAhead, ReportNeverOverclaims, LateWorkIsReported, FinalizerReports
  <2>5. QED
    BY <2>1, <2>3, <2>4
<1>5. QED
  BY <1>3, <1>4 DEF IInv, Phased

LEMMA WaitStep == ASSUME IInv, Wait PROVE IInv'
  BY SMTT(30) DEF IInv, TypeOK, Phased, Behind, Chained, RunOwns, SentIsFresh, NothingAhead,
     ReportNeverOverclaims, LateWorkIsReported, FinalizerReports, Wait, Goto, Fail

LEMMA RespondStep == ASSUME IInv, Respond PROVE IInv'
  BY SMTT(30) DEF IInv, TypeOK, Phased, Behind, Chained, RunOwns, SentIsFresh, NothingAhead,
     ReportNeverOverclaims, LateWorkIsReported, FinalizerReports, Respond, Goto, Fail, Following, RolloutPhase, TrialPhase

LEMMA StatusStep == ASSUME IInv, Status PROVE IInv'
  BY SMTT(30) DEF IInv, TypeOK, Phased, Behind, Chained, RunOwns, SentIsFresh, NothingAhead,
     ReportNeverOverclaims, LateWorkIsReported, FinalizerReports, Status, Goto, Fail

LEMMA ShadowStep == ASSUME IInv, Shadow PROVE IInv'
  BY SMTT(30) DEF IInv, TypeOK, Phased, Behind, Chained, RunOwns, SentIsFresh, NothingAhead,
     ReportNeverOverclaims, LateWorkIsReported, FinalizerReports, Shadow, Goto

LEMMA ReportStep == ASSUME IInv, Report PROVE IInv'
  BY SMTT(30) DEF IInv, TypeOK, Phased, Behind, Chained, RunOwns, SentIsFresh, NothingAhead,
     ReportNeverOverclaims, LateWorkIsReported, FinalizerReports, Report, Goto, Open, Summarized, Writable,
     OrchestrationFailure, Entry

LEMMA InterruptStep == ASSUME IInv, Interrupt PROVE IInv'
  BY SMTT(30) DEF IInv, TypeOK, Phased, Behind, Chained, RunOwns, SentIsFresh, NothingAhead,
     ReportNeverOverclaims, LateWorkIsReported, FinalizerReports, Interrupt

LEMMA BeginStep == ASSUME IInv, NEW c \in Calls, Begin(c) PROVE IInv'
  BY SMTT(30) DEF IInv, TypeOK, Phased, Behind, Chained, RunOwns, SentIsFresh, NothingAhead,
     ReportNeverOverclaims, LateWorkIsReported, FinalizerReports, Begin, Client, Reply, FirstCapture, Executable

LEMMA AnswerStep == ASSUME IInv, NEW c \in Calls, Answer(c) PROVE IInv'
  BY SMTT(30) DEF IInv, TypeOK, Phased, Behind, Chained, RunOwns, SentIsFresh, NothingAhead,
     ReportNeverOverclaims, LateWorkIsReported, FinalizerReports, Answer, verify_insertion_followup_source,
     _verify_insertion_rollout_result, Client, Reply

LEMMA RefuseStep == ASSUME IInv, NEW c \in Calls, Refuse(c) PROVE IInv'
  BY SMTT(30) DEF IInv, TypeOK, Phased, Behind, Chained, RunOwns, SentIsFresh, NothingAhead,
     ReportNeverOverclaims, LateWorkIsReported, FinalizerReports, Refuse, Client, Reply

LEMMA LoseStep == ASSUME IInv, NEW c \in Calls, Lose(c) PROVE IInv'
  BY SMTT(30) DEF IInv, TypeOK, Phased, Behind, Chained, RunOwns, SentIsFresh, NothingAhead,
     ReportNeverOverclaims, LateWorkIsReported, FinalizerReports, Lose, Client, Reply

LEMMA FinishCaptureStep == ASSUME IInv, FinishCapture PROVE IInv'
  BY SMTT(30) DEF IInv, TypeOK, Phased, Behind, Chained, RunOwns, SentIsFresh, NothingAhead,
     ReportNeverOverclaims, LateWorkIsReported, FinalizerReports, FinishCapture, Finish, FirstCapture, Client, Reply

LEMMA FinishEvaluateStep == ASSUME IInv, FinishEvaluate PROVE IInv'
  BY SMTT(30) DEF IInv, TypeOK, Phased, Behind, Chained, RunOwns, SentIsFresh, NothingAhead,
     ReportNeverOverclaims, LateWorkIsReported, FinalizerReports, FinishEvaluate, Finish, Client, Reply

LEMMA FinishApplyStep == ASSUME IInv, FinishApply PROVE IInv'
  BY SMTT(30) DEF IInv, TypeOK, Phased, Behind, Chained, RunOwns, SentIsFresh, NothingAhead,
     ReportNeverOverclaims, LateWorkIsReported, FinalizerReports, FinishApply, Finish, Client, Reply

LEMMA RaiseStep == ASSUME IInv, Raise PROVE IInv'
  BY SMTT(30) DEF IInv, TypeOK, Phased, Behind, Chained, RunOwns, SentIsFresh, NothingAhead,
     ReportNeverOverclaims, LateWorkIsReported, FinalizerReports, Raise, Finish, Client, Reply

LEMMA DisturbStep == ASSUME IInv, Disturb PROVE IInv'
  BY SMTT(30) DEF IInv, TypeOK, Phased, Behind, Chained, RunOwns, SentIsFresh, NothingAhead,
     ReportNeverOverclaims, LateWorkIsReported, FinalizerReports, Disturb

LEMMA RestartStep == ASSUME IInv, Restart PROVE IInv'
  BY SMTT(30) DEF IInv, TypeOK, Phased, Behind, Chained, RunOwns, SentIsFresh, NothingAhead,
     ReportNeverOverclaims, LateWorkIsReported, FinalizerReports, Restart, Client

-----------------------------------------------------------------------------
(* The theorems.                                                             *)

LEMMA NextInvariant == IInv /\ [Next]_vars => IInv'
<1> SUFFICES ASSUME IInv, [Next]_vars PROVE IInv'
  OBVIOUS
<1>1. CASE ScriptStep
  BY <1>1, SendCallStep, ProceedStep, RespondStep, StatusStep, ShadowStep, ReportStep
     DEF ScriptStep, Answered, TimesOut
<1>2. CASE ServerStep
  BY <1>2, BeginStep, AnswerStep, RefuseStep, LoseStep, FinishCaptureStep, FinishEvaluateStep,
     FinishApplyStep, RaiseStep DEF ServerStep
<1>3. CASE Wait \/ Interrupt \/ Disturb \/ Restart
  BY <1>3, WaitStep, InterruptStep, DisturbStep, RestartStep
<1>4. CASE UNCHANGED vars
  BY <1>4, SMTT(30) DEF IInv, TypeOK, Phased, Behind, Chained, RunOwns, SentIsFresh, NothingAhead,
     ReportNeverOverclaims, LateWorkIsReported, FinalizerReports, vars
<1>5. QED
  BY <1>1, <1>2, <1>3, <1>4 DEF Next

\* The invariant holds in every reachable state.
THEOREM Invariance == Spec => []IInv
<1>1. Init => IInv
  BY InitInvariant
<1>2. IInv /\ [Next]_vars => IInv'
  BY NextInvariant
<1>3. QED
  BY <1>1, <1>2, PTL DEF Spec

\* The types of the variables: in particular the script never steps past the
\* steps requested (the loop of run_control_rollout.sh).
THEOREM TypeCorrect == Spec => []TypeOK
<1>1. IInv => TypeOK
  BY DEF IInv
<1>2. QED
  BY <1>1, Invariance, PTL

\* What a report.json says of a step is what its session holds, for ever
\* (ControlRolloutReport.from_sessions).
THEOREM TruthfulReport == Spec => []ReportNeverOverclaims
<1>1. IInv => ReportNeverOverclaims
  BY DEF IInv
<1>2. QED
  BY <1>1, Invariance, PTL

\* A motion after the rollout gave up is a motion of the step its report leaves
\* open (finalize_rollout).
THEOREM LateWork == Spec => []LateWorkIsReported
<1>1. IInv => LateWorkIsReported
  BY DEF IInv
<1>2. QED
  BY <1>1, Invariance, PTL

\* The exit finalizer of a rollout leaves a report (finalize_rollout).
THEOREM Finalized == Spec => []FinalizerReports
<1>1. IInv => FinalizerReports
  BY DEF IInv
<1>2. QED
  BY <1>1, Invariance, PTL

\* Exit status 0 means that every attempted step has a result and all but the
\* last were applied, whatever calls were lost on the way.
THEOREM ExitZero == Spec => []ExitZeroMeansComplete
<1>1. IInv => ExitZeroMeansComplete
  <2> SUFFICES ASSUME IInv, at = "done", failed = "none"
               PROVE  /\ report[step] # None
                      /\ \A k \in 1 .. step : session[k] \in Complete
                      /\ \A k \in 1 .. step : k < step => session[k] = "applied"
    BY DEF ExitZeroMeansComplete
  <2>1. report[step] # None /\ session[step] \in Complete /\ step \in StepIds
    BY DEF IInv, TypeOK, Behind
  <2>2. \A k \in 1 .. step : k < step => session[k] = "applied"
    BY <2>1 DEF IInv, Chained
  <2>3. QED
    BY <2>1, <2>2
<1>2. QED
  BY <1>1, Invariance, PTL

\* A step is applied only from the end state of an applied predecessor and
\* before anything of its successors exists.
THEOREM MotionInOrder == Spec => MovesInOrder
<1> DEFINE Ordered(k) ==
      session[k] # "applied" /\ session'[k] = "applied" =>
        /\ stage = k - 1
        /\ \A j \in StepIds : (j < k => session[j] = "applied") /\ (j > k => session[j] = "none")
<1>1. ASSUME IInv, [Next]_vars PROVE \A k \in StepIds : Ordered(k)
  <2> SUFFICES ASSUME NEW k \in StepIds, session[k] # "applied", session'[k] = "applied"
               PROVE  /\ stage = k - 1
                      /\ \A j \in StepIds : /\ j < k => session[j] = "applied"
                                            /\ j > k => session[j] = "none"
    OBVIOUS
  <2>1. FinishApply /\ k = running.step /\ stage = running.step - 1
    <3>1. session \in [StepIds -> Progress] /\ step \in StepIds
      BY <1>1 DEF IInv, TypeOK
    <3>2. ~UNCHANGED session
      OBVIOUS
    <3>3. ~ScriptStep
      BY <3>1 DEF ScriptStep, SendCall, Answered, TimesOut, Proceed, Respond, Status, Shadow, Report
    <3>4. ~(Wait \/ Interrupt \/ Disturb \/ Restart)
      BY <3>2 DEF Wait, Interrupt, Disturb, Restart
    <3>5. \A c \in Calls : ~(Begin(c) \/ Answer(c) \/ Refuse(c) \/ Lose(c))
      BY <3>1 DEF Begin, Answer, Refuse, Lose
    <3>6. ~(FinishCapture \/ FinishEvaluate \/ Raise)
      BY <3>1 DEF FinishCapture, FinishEvaluate, Raise
    <3>7. FinishApply
      BY <1>1, <3>2, <3>3, <3>4, <3>5, <3>6 DEF Next, ServerStep, vars
    <3>8. QED
      BY <3>1, <3>7 DEF FinishApply
  <2>2. session[k] = "claimed"
    BY <1>1, <2>1 DEF IInv, RunOwns, FinishApply
  <2>3. QED
    BY <1>1, <2>1, <2>2 DEF IInv, TypeOK, Chained
<1>2. QED
  BY <1>1, Invariance, PTL DEF Spec, MovesInOrder
=============================================================================
