--------------------------- MODULE ControlRollout ---------------------------
(***************************************************************************)
(* A receding-horizon rollout as its shell script drives it: capture an    *)
(* observation, have it answered, execute the answer, and go on only from  *)
(* an applied step; at the end reconstruct a report from the sessions.     *)
(*                                                                         *)
(*   "rollout"  ops/run_control_rollout.sh: an EXIT trap writes the report. *)
(*   "trial"    the insertion chain of ops/run_grasp_to_insertion_milestone *)
(*              .sh: every step is one run_insertion_followup_trial, which  *)
(*              writes a report of the steps so far.                        *)
(*                                                                         *)
(* A call is one exchange of code for output with the Isaac server.  The   *)
(* caller may give up although the server then runs it, and a server that  *)
(* dies closes the connection: nc exits 0 and the answer is empty.         *)
(* The sessions are those of ControlSession, reduced to how far they got.  *)
(***************************************************************************)
EXTENDS Naturals

CONSTANTS Steps,     \* steps requested
          Scripts,   \* the scripts considered
          None

ASSUME StepsAssumption   == Steps \in Nat \ {0}
ASSUME ScriptsAssumption == Scripts \subseteq {"rollout", "trial"}

VARIABLES script,
          step,        \* the step the script is at
          at,          \* its phase
          failed,      \* the phase that failed, "none" while command_status is 0
          waiting,     \* the call it waits for
          reply,       \* how that call ended
          sent,        \* calls the server has not begun
          running,     \* the operation that holds the simulator
          session,     \* how far the session of a step got
          stage,       \* the step whose end state the robot rests in, 0 initially
          report       \* report.json, by the step that was current

shell  == <<script, step, at, failed, waiting, reply>>
server == <<sent, running, session, stage>>
vars   == <<shell, server, report>>

StepIds  == 1 .. Steps
Progress == {"none", "captured", "answered", "judged", "bound", "claimed", "applied", "stopped",
             "unreadable"}
Complete == {"applied", "stopped"}
Phases   == {"verify", "capture", "wait", "respond", "evaluate", "prepare", "bind", "apply", "status",
             "shadow", "confirm", "report", "done"}

\* The phases that are calls to the server; "respond" is a process of its own,
\* and "wait" is CaptureClient's wait for the first capture, a background job.
CallPhases == {"verify", "capture", "evaluate", "prepare", "bind", "apply", "confirm"}
Call(o, k) == [op |-> o, step |-> k]
Calls      == [op : CallPhases \cup {"shadow"}, step : StepIds]

\* What a report says: the applied steps and those without a result.
Entries == [applied : SUBSET StepIds, open : SUBSET StepIds]

ASSUME NoneAssumption == None \notin Nat \cup Calls \cup Entries

RolloutPhase == [capture |-> "respond", wait |-> "respond", respond |-> "apply", apply |-> "status"]
TrialPhase   == [verify   |-> "capture",  capture |-> "respond", respond |-> "evaluate",
                 evaluate |-> "prepare",  prepare |-> "bind",    bind    |-> "apply",
                 apply    |-> "report",   confirm |-> "done"]

Following(p) ==
  IF script = "trial" THEN TrialPhase[p]
  ELSE IF p = "capture" /\ step = 1 THEN "wait" ELSE RolloutPhase[p]

\* What apply_control_response loads.
Executable == IF script = "rollout" THEN "answered" ELSE "bound"

Init ==
  /\ script \in Scripts
  /\ step = 1
  /\ at = "capture"
  /\ failed = "none"
  /\ waiting = None
  /\ reply = "none"
  /\ sent = {}
  /\ running = None
  /\ session = [k \in StepIds |-> "none"]
  /\ stage = IF script = "trial" THEN 0 ELSE None
  /\ report = [k \in StepIds |-> None]

(***************************************************************************)
(* The script                                                              *)
(***************************************************************************)
Goto(p) == at' = p /\ UNCHANGED failed

\* Mutant: the exit trap is not set.
Fail_Untrapped(p) == failed' = p /\ at' = "done"

\* A failure goes to the finalizer; outside a trial, the chain has none.
Fail(p) ==
  /\ failed' = p
  /\ at' = IF p \in {"verify", "confirm"} THEN "done" ELSE "report"

SendCall ==
  /\ at \in CallPhases
  /\ waiting = None
  /\ waiting' = Call(at, step)
  /\ reply' = "none"
  /\ sent' = sent \cup {Call(at, step)}
  /\ UNCHANGED <<script, step, at, failed, running, session, stage, report>>

\* isaac_server_call fails on an answer with an error status, and, when the
\* shell's errexit is in force, on a transport failure.  On the left of the
\* "||" of a trial it is not: the empty answer of a lost call then passes.
Passes(answer) ==
  \/ answer \in {"ok", "empty"}
  \/ answer = "lost" /\ script = "trial" /\ at \notin {"verify", "confirm"}

Proceed(answer) ==
  /\ waiting # None
  /\ IF Passes(answer) THEN Goto(Following(at)) ELSE Fail(at)
  /\ waiting' = None
  /\ reply' = "none"
  /\ UNCHANGED <<script, step, server, report>>

Answered == reply # "none" /\ Proceed(reply)

\* Mutant: nc is not run under timeout.
TimesOut_Never == reply = "lost" /\ Proceed("lost")

TimesOut == reply = "none" /\ Proceed("lost")

\* The wait returns only once the job let go of the simulator; after its deadline
\* it fails even if the capture was completed.  It never returns when the job
\* file stays "running", after a restart.
Wait ==
  /\ at = "wait"
  /\ running # Call("capture", 1)
  /\ (session[1] = "captured" /\ Goto("respond")) \/ Fail(at)
  /\ UNCHANGED <<script, step, waiting, reply, server, report>>

\* The responder may answer and still fail, and a baseline answer, a call of
\* its own, may be lost without a failure.
Respond ==
  /\ at = "respond"
  /\ \/ /\ session[step] = "captured"
        /\ session' = [session EXCEPT ![step] = "answered"]
        /\ Goto(Following(at)) \/ Fail(at)
     \/ /\ Fail(at) \/ (script = "rollout" /\ Goto(Following(at)))
        /\ UNCHANGED session
  /\ UNCHANGED <<script, step, waiting, reply, sent, running, stage, report>>

\* Another step from an applied one, unless the task is done or no step is left.
Status ==
  /\ at = "status"
  /\ \/ /\ session[step] \notin Complete
        /\ Fail(at)
        /\ UNCHANGED step
     \/ /\ session[step] = "applied"
        /\ step < Steps
        /\ step' = step + 1
        /\ Goto("capture")
     \/ /\ session[step] \in Complete
        /\ \E p \in {"shadow", "report"} : Goto(p)
        /\ UNCHANGED step
  /\ UNCHANGED <<script, waiting, reply, server, report>>

\* Shadow evidence of a policy that acts: a failed or lost call is a warning.
Shadow ==
  /\ at = "shadow"
  /\ \E late \in SUBSET {Call("shadow", k) : k \in 1 .. step} : sent' = sent \cup late
  /\ Goto("report")
  /\ UNCHANGED <<script, step, waiting, reply, running, session, stage, report>>

\* A typed failure of the script; "shadow_evidence" is none.
OrchestrationFailure == failed \notin {"none", "shadow"}

\* ControlStepSummary.from_session: there is a result, and it agrees with all
\* that was recorded of its step.
Summarized(k) == session[k] \in Complete
Open == {k \in 1 .. step : ~Summarized(k)}

\* Mutants: an open last step needs no failure; the failure is not passed on.
Writable_AnyLast   == Open \subseteq {step} /\ failed # "shadow"

\* from_sessions accepts an open step only as the last, and only with a failure.
Writable ==
  /\ Open \subseteq (IF OrchestrationFailure THEN {step} ELSE {})
  /\ failed = "none" \/ OrchestrationFailure

Entry == [applied |-> {k \in 1 .. step : session[k] = "applied"}, open |-> Open]

Report ==
  /\ at = "report"
  /\ report' = IF Writable THEN [report EXCEPT ![step] = Entry] ELSE report
  /\ \/ /\ script = "trial" /\ Writable /\ failed = "none"
        /\ IF step < Steps THEN step' = step + 1 /\ Goto("verify")
                           ELSE step' = step /\ Goto("confirm")
     \/ /\ script = "rollout" \/ ~Writable \/ failed # "none"
        /\ at' = "done"
        /\ failed' = IF ~Writable /\ failed = "none" THEN "report" ELSE failed
        /\ UNCHANGED step
  /\ UNCHANGED <<script, waiting, reply, server>>

\* A signal before the report is begun.  Only the rollout traps its exit.
Interrupt ==
  /\ at \notin {"report", "done"}
  /\ failed' = at
  /\ at' = IF script = "rollout" THEN "report" ELSE "done"
  /\ waiting' = None
  /\ reply' = "none"
  /\ UNCHANGED <<script, step, server, report>>

(***************************************************************************)
(* The server                                                              *)
(***************************************************************************)
Reply(c, answer) == reply' = IF waiting = c THEN answer ELSE reply
Client           == <<script, step, at, failed, waiting>>

\* start_control_capture returns once the job is scheduled.
FirstCapture(c) == script = "rollout" /\ c = Call("capture", 1)

\* Operations under run_exclusive.  A follow-up needs an applied predecessor.
Begin(c) ==
  /\ c \in sent
  /\ running = None
  /\ \/ /\ c.op = "capture" /\ session[c.step] = "none"
        /\ c.step > 1 => session[c.step - 1] = "applied"
        /\ UNCHANGED session
     \/ c.op = "evaluate" /\ session[c.step] = "answered" /\ UNCHANGED session
     \/ c.op = "shadow" /\ session[c.step] \in Complete /\ UNCHANGED session
     \/ /\ c.op = "apply" /\ session[c.step] = Executable
        /\ session' = [session EXCEPT ![c.step] = "claimed"]
  /\ sent' = sent \ {c}
  /\ running' = c
  /\ IF FirstCapture(c) THEN Reply(c, "ok") ELSE UNCHANGED reply
  /\ UNCHANGED <<Client, stage, report>>

\* The step before is applied, before another may follow it ...
verify_insertion_followup_source(k) == session[k - 1] = "applied"

\* ... and every step is, before the chain is complete.
_verify_insertion_rollout_result == \A k \in StepIds : session[k] = "applied"

\* Operations that return within one call of the event loop.  What "prepare"
\* keeps resident "bind" loads again when it is gone: it is no state here.
Answer(c) ==
  /\ c \in sent
  /\ \/ /\ c.op = "verify" /\ verify_insertion_followup_source(c.step)
        /\ UNCHANGED session
     \/ /\ c.op = "confirm" /\ _verify_insertion_rollout_result
        /\ UNCHANGED session
     \/ c.op = "prepare" /\ session[c.step] = "judged" /\ UNCHANGED session
     \/ /\ c.op = "bind" /\ session[c.step] = "judged"
        /\ running = None
        /\ session' = [session EXCEPT ![c.step] = "bound"]
  /\ sent' = sent \ {c}
  /\ Reply(c, "ok")
  /\ UNCHANGED <<Client, running, stage, report>>

\* The operation raised before it changed anything: its input is missing or
\* fails a check, or another operation holds the simulator.
Refuse(c) ==
  /\ c \in sent
  /\ sent' = sent \ {c}
  /\ Reply(c, "error")
  /\ UNCHANGED <<Client, running, session, stage, report>>

\* The connection was refused or reset: nothing ran.
Lose(c) ==
  /\ c \in sent
  /\ sent' = sent \ {c}
  /\ Reply(c, "lost")
  /\ UNCHANGED <<Client, running, session, stage, report>>

Finish(answer) ==
  /\ running' = None
  /\ Reply(running, answer)
  /\ UNCHANGED <<Client, sent, report>>

\* The first capture of a rollout resets the stage; a follow-up finds the stage
\* as the previous step left it (validate_followup_continuity).
FinishCapture ==
  /\ running # None /\ running.op = "capture"
  /\ IF FirstCapture(running)
       THEN stage' = 0
       ELSE stage = running.step - 1 /\ UNCHANGED stage
  /\ session' = [session EXCEPT ![running.step] = "captured"]
  /\ Finish("ok")

FinishEvaluate ==
  /\ running # None /\ running.op \in {"evaluate", "shadow"}
  /\ \/ /\ running.op = "evaluate"
        /\ session' = [session EXCEPT ![running.step] = "judged"]
     \/ UNCHANGED session
  /\ UNCHANGED stage
  /\ Finish("ok")

\* Mutant: no gate on the drift between capture and execution.
FinishApply_AnyDrift ==
  /\ running # None /\ running.op = "apply"
  /\ stage' = running.step
  /\ session' = [session EXCEPT ![running.step] = "applied"]
  /\ Finish("ok")

\* Applied from the state that was captured; otherwise blocked, or rolled back,
\* perhaps without reaching the state it started from: a trial whose rollback
\* failed for no typed reason leaves a result that no report reads.
FinishApply ==
  /\ running # None /\ running.op = "apply"
  /\ \/ /\ stage = running.step - 1
        /\ stage' = running.step
        /\ session' = [session EXCEPT ![running.step] = "applied"]
     \/ /\ stage' \in {stage, None}
        /\ session' = [session EXCEPT ![running.step] = "stopped"]
     \/ /\ script = "trial"
        /\ stage' \in {stage, None}
        /\ session' = [session EXCEPT ![running.step] = "unreadable"]
  /\ Finish("ok")

\* An exception ends the operation without a result.
Raise ==
  /\ running # None
  /\ stage' \in IF running.op \in {"capture", "apply"} THEN {stage, None} ELSE {stage}
  /\ UNCHANGED session
  /\ Finish("error")

\* Somebody else's operation between two of ours.
Disturb ==
  /\ running = None
  /\ stage # None
  /\ stage' = None
  /\ UNCHANGED <<shell, sent, running, session, report>>

Restart ==
  /\ sent' = {}
  /\ running' = None
  /\ stage' = None
  /\ reply' = IF waiting # None /\ reply = "none" THEN "empty" ELSE reply
  /\ UNCHANGED <<Client, session, report>>

ScriptStep == SendCall \/ Answered \/ TimesOut \/ Respond \/ Status \/ Shadow \/ Report
ServerStep == \/ \E c \in Calls : Begin(c) \/ Answer(c) \/ Refuse(c) \/ Lose(c)
              \/ FinishCapture \/ FinishEvaluate \/ FinishApply \/ Raise

Next == ScriptStep \/ Wait \/ Interrupt \/ ServerStep \/ Disturb \/ Restart

Spec == Init /\ [][Next]_vars

\* Every command of the script ends, calls at their timeout; the wait for the
\* first capture has no bound after its deadline.
FairSpec == Spec /\ WF_vars(ScriptStep)

(***************************************************************************)
(* Properties                                                              *)
(***************************************************************************)
\* The type of every variable; the script never steps past the steps requested.
TypeOK ==
  /\ script \in Scripts
  /\ step \in StepIds
  /\ at \in Phases
  /\ failed \in Phases \cup {"none"}
  /\ waiting \in Calls \cup {None}
  /\ reply \in {"none", "ok", "error", "lost", "empty"}
  /\ sent \subseteq Calls
  /\ running \in Calls \cup {None}
  /\ session \in [StepIds -> Progress]
  /\ stage \in 0 .. Steps \cup {None}
  /\ report \in [StepIds -> Entries \cup {None}]

Live == sent \cup ({running} \ {None})

\* Whatever is lost, late or restarted, a step is applied only on top of the end
\* state of the step before it, when all earlier steps were applied and no later
\* step has begun (capture_followup_observation, the execution's drift gate).
MovesInOrder ==
  [][\A k \in StepIds :
       session[k] # "applied" /\ session'[k] = "applied" =>
         /\ stage = k - 1
         /\ \A j \in StepIds : (j < k => session[j] = "applied") /\ (j > k => session[j] = "none")]_vars

\* A script that exits 0 left no step open: every step it attempted has a result
\* and all but the last were applied.  A call whose answer never came, and an
\* answer of a server that died, are caught by the status or the report.
ExitZeroMeansComplete ==
  at = "done" /\ failed = "none" =>
    /\ report[step] # None
    /\ \A k \in 1 .. step : session[k] \in Complete
    /\ \A k \in 1 .. step : k < step => session[k] = "applied"

\* A report claims what the sessions hold, also after late completions: a step
\* it calls applied is, and one it lists without a result is the last one.
ReportNeverOverclaims ==
  \A k \in StepIds : report[k] # None =>
    /\ \A j \in report[k].applied : session[j] = "applied"
    /\ report[k].open \subseteq {k}
    /\ \A j \in 1 .. k : j \notin report[k].applied \cup report[k].open => session[j] = "stopped"

\* The robot may still move after a rollout gave up on a call, but only in the
\* step its report shows as open.
LateWorkIsReported ==
  script = "rollout" /\ at = "done" =>
    \A c \in Live : c.op \in {"capture", "apply"} =>
      report[step] # None /\ c.step \in report[step].open

\* The exit finalizer of a rollout writes a report whatever failed, except after
\* a signal during the shadow evidence, a phase the report cannot name.
FinalizerReports ==
  script = "rollout" /\ at = "done" /\ failed # "shadow" => report[step] # None

\* The script ends, whatever the server does with its calls, or waits for ever
\* for its first capture.
RolloutEnds == <>(at = "done") \/ <>[](at = "wait")

\* README.md says a terminal report is persisted when transport or execution
\* fails; stated here of every script that was not interrupted.
FailureIsReported ==
  at = "report" /\ failed # "shadow" => Writable
=============================================================================
