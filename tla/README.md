# Quantis robotics: a verification development of the control path

This directory holds TLA+ models of the part of the repository that moves the
robot and of the evidence that decides what may move it: the Isaac Sim server that
owns the simulator, the files through which the JEPA-WM worker and the server agree
on one action, the execution of that action, the shell scripts that chain actions
into a rollout, the recordings everything starts from, and the offline experiments
that clear a policy for live runs. TLC checks the models on small instances; TLAPS
proves the safety properties for every instance.

Paths below are relative to the repository. `map` in `PROJECT.json` names, for
every definition, the lines it stands for.

## 1. The system

### 1.1 Components

| component | code | state it keeps | operations |
|---|---|---|---|
| job manager, simulator interlock | `sim/recording_jobs.py`, facade `sim/isaac_demo.py` | the active operation, tasks and run ids by recording id, one status file per job | run_exclusive(_sync), start, the task `_run`, heartbeat, progress, cancel, done callback |
| runtime loader | `sim/runtime_loader.py` | the resident modules of the server | reload_demo_runtime: replaces the job manager unless it owns an operation, hands over the live runtime |
| capture client | `ops/shell_helpers.sh` | none but its position | start a capture job, poll its file, cancel at the deadline, wait for the terminal status |
| control session | `sim/control_session.py`, `sim/isaac_insertion_trial.py`, `sim/trial_source_cache.py`, `sim/control_response_cli.py` | a directory: request, state, response, direct safety, trial binding, execution claim, result; a cache of prepared sources | write_capture, write_response, write_direct_safety, prepare, bind, load, claim_execution, write_result |
| control execution | `sim/isaac_control_execution.py`, `sim/isaac_demo_runtime.py`, `jepa_wm/control_safety.py` | timeline, drive targets, attachment, the interlock on contact | apply_control_response: synchronize, project, gate, move, sample, settle, capture, assess, roll back, record, pause |
| rollout | `ops/run_control_rollout.sh`, `ops/run_grasp_to_insertion_milestone.sh`, `jepa_wm/control_rollout.py` | the session roster, the phase, `report.json` | capture, respond, (evaluate, prepare, bind,) apply, status, shadow evidence, report |
| live runtime | `sim/isaac_control_runtime.py` | the session and the stage object the resident articulation is bound to | bind, refresh after a pause, hand over, live_runtime_for |
| follow-up capture | `sim/isaac_control_followup.py` | handoff and authority files of a source session | capture without reset, acquisition handoff, restore_* retries, verify_* checks, diagnose_* measurements |
| control resolution | `sim/isaac_control_resolution.py`, `jepa_wm/control_resolution*.py` | the measurement's report or failure file, the drive target it remembers | baseline, probes, settlement, recovery, rollback, correction; the reader of its files |
| control worker | `jepa_wm/control_server.py`, `control_worker.py`, `ops/jepa_wm.sh` | pid file, artifact file, socket, loaded artifacts, the last encodings | start, status, stop, direct answer, shadow plan |
| one-shot gates | `jepa_wm/unknown_start_*.py`, `physical_shadow_*.py`, `contact_grasp_*.py`, `ops/aws.sh` | claim, failure, evaluation, result and recovery files of experiments that may run once | claim, work, evaluate, back up, finalize, failure |
| scene and recordings | `sim/isaac_demo*.py`, `isaac_exploration.py`, `isaac_*_demo.py`, `recording.py` | stage, timeline, rendering period, cameras; frames, `steps.jsonl`, `manifest.json` | ten kinds of recordings: open, settle, move, hold, attach, film, finish, abort |
| unknown-start sessions | `sim/isaac_unknown_start_*.py`, `isaac_shadow_safety.py` | a session captured from a reset recording, its plan, safety and recovery | preflight, capture, judge, candidate action, recovery |
| offline experiments | `jepa_wm/*_experiment.py`, `*_readiness.py`, `train_proposal.py`, `insertion_transition*.py`, `benchmark_planner.py` | artifacts, training reports, evaluations, summaries, hand-offs, all files | preflight, probe, train, evaluate, summarize, adjudicate, held-out, benchmark, fine-tune, hand off |
| stage gate | `jepa/stage_gate.py`, `jepa/online_*.py` | stage, confirmations, last observation id | observe |
| everything numeric | the rest of `jepa_wm/`, `jepa/`, kinematics and scene geometry in `sim/` | none | scoring, planning, embedding, rendering |
| host | `ops/aws.sh`, `ops/isaac_container.sh`, `ops/backup_state.sh` | instance, container | start, stop, deploy, quarantine, back up |

### 1.2 How they interact

A shell script sends Python code over TCP to the Isaac server and reads the
printed JSON (`isaac_server_call`: `nc` under `timeout`). The server runs it on one
asyncio loop, the loop of the simulator. Operations that touch the simulator go
through the job manager's interlock: either a foreground call (`run_exclusive`) or
a background job whose status file the script polls. What a step of control is
about lives in a session directory: the server captures an observation into it, a
responder process pipes the worker's answer into it, the server evaluates, binds
and executes it and records the result. A rollout is a sequence of sessions, each
captured where the previous one ended; its report is rebuilt from the sessions.
Between two sessions the robot is held by the live runtime, which belongs to the
session that was bound last. An unknown-start session starts instead from the paused
scene a reset recording left. What proposal and adapter a worker may be started with
is decided by files of offline experiments, and what may be run once on the robot by
the files of a gate, driven from the operator's machine over ssh.

### 1.3 What is hard here

* Between two awaits of the server anything else on the loop runs: other requests,
  done callbacks, cancellations, a reload of the manager itself.
* A call may be served after its caller gave up, or not at all, and the shell
  cannot tell which; where errexit is off it cannot even tell a failure.
* The server and the responders are separate processes; each file is replaced
  atomically, but nothing spans two files and any of them may die in between.
* An execution may raise at every await, in the rollback and in the recording of
  the rollback as well, while physics goes on unless the timeline is paused.
* Evidence is about a state of the scene or about the bytes of an artifact, is
  checked when it is used, hours later, and anything may have moved in between:
  the scene by another operation, the artifact by another training.

`hazards` in `PROJECT.json` lists these at the line where they bite, with the
properties that would catch each one going wrong.

### 1.4 What makes each component correct

* **Job manager**: one operation at a time; a claim is always given back; a live
  task stays reachable by its id; a terminal status means the simulator is free
  and is never overwritten; a cancelled job gives the simulator back.
* **Capture client**: a wait that returned leaves no capture behind; the wait ends.
* **Session**: at most one motion per session, under a claim on disk; a trial moves
  only by the proposal its source was found safe with; no file outlives what it is
  about.
* **Execution**: the recorded outcome and its reasons are what the robot did; the
  command acts on the state that was judged; the timeline is left paused.
* **Rollout**: steps are applied in order, each on the end state of the one before;
  the exit status claims no more than happened, whatever was lost or late.
* **Live runtime**: an insertion moves only from the state it was captured in; a
  follow-up begins where its predecessor ended; one evaluation moves the robot at most
  once per reset.
* **Control resolution**: the runtime writes only what the reader accepts; every probe
  is undone, or cannot be.
* **Worker**: a session is answered by the proposal it expects and planned from its own
  frames; no worker process is lost.
* **Gates**: one run of an experiment works; it ends in a verdict or a failure and not
  in both, unless the write that should have said so failed, and a verdict's evidence is
  complete on the recovery volume.
* **Recordings**: a manifest means a whole recording; the idle simulator is still.
* **Unknown-start sessions**: captured, judged and recovered at the reset they name.
* **Experiments**: a report is about what was scored; what is cleared was measured;
  each version of the held-out evaluation opens its recordings for one invocation, with
  what earned it, and the second version only after the first claimed them and failed.

## 2. The modules

```
SimulatorInterlock <--implements-- RecordingJobs <--EXTENDS-- CaptureClient
ControlSession     <--implements-- ControlExecution
ControlRollout       scripts; sessions reduced to how far they got
RuntimeHandoff       sessions, bindings and what the robot's state is worth
ControlResolution    measurement and reader of one diagnostic session
ControlWorker        worker processes, their files, their clients
EvidenceGate         operator, script, finalize, host and recovery disks
SceneRecordings    <--EXTENDS-- UnknownStart
OfflineExperiments <--EXTENDS-- PolicyEvidence
```

`X` + `Proofs` holds the theorems about `X`, `MCX` with its `.cfg` files the instances.
Four such modules go on where the component's story does: `RecordingJobsProofs` with
`CaptureClient`, `ControlSessionProofs` with the experiments (`OfflineExperiments`,
`PolicyEvidence`) whose policies answer sessions, `EvidenceGateProofs` with
`ControlWorker`, which the gates stop and start, and `UnknownStartProofs` with
`SceneRecordings`. A second component of one module has specifications of its own name
(`ClientSpec`, `WorkerSpec`, `OfflineSpec`, `PolicySpec`).
Beside many actions stands a variant with a suffix (`Forget_KeepsClaim`, ...): the
action with a plausible bug. Each property fails when the definition it depends on is
replaced by its variant; the pairs are in `PROJECT.json`.

### RecordingJobs, SimulatorInterlock

`RecordingJobs` is `RecordingJobManager`. `active`, `tasks` and `runIds` are its
fields; `pc`, `cancelRequested` and `beat` are the asyncio task of a run and its
heartbeat task; `file` is the status file of a job as every process sees it. An
action is what happens between two awaits: `Start`, `FirstStep`, `LeaveFactory`,
`Terminalize` and the done callback `Forget` are the life of a run; a task that is
cancelled before its first step never enters `_run`, as in asyncio. Status writes may
raise, alone (`StartFails`, `Heartbeat`, `TerminalizeFails`) where the code has no
handler. `Reload` is `reload_demo_runtime`, `Restart` the death of the server, and
`GoSilent`, `FindQuarantinable`, `Quarantine` the operator's check-then-move.
`fresh` abstracts the timestamp: a live heartbeat writes every 5 s, a file is stale
after 30 s, so only a run without a working heartbeat goes silent.

`SimulatorInterlock` says what clients rely on, without tasks or callbacks: one
holder, only the holder writes a status, and the terminal write is the moment the
holder lets go. `ImplementsInterlock` maps the suspended bodies to holders.

### CaptureClient

`start_and_wait_control_capture` and `wait_control_capture_job`, one orchestrator
per job, composed with the job manager. `inbox` holds the calls the server may still
run. A call that fails may or may not have reached the server; a reply reaches only
a caller that still waits for it; a server that dies leaves an empty answer, which
passes, so `StartCallLost` polls for a job that does not exist. `CancelCallFails` follows bash: the call is the
condition of a `while`, where errexit is off, and an empty answer passes.

### ControlSession

One variable per file of a session directory, `commanded` for what the robot was
told, `operation` for the operation in an await, `writing` for a sequence of writes
without one (the server may die in it, and a responder process may act in it),
`prepared` for the cache of trial sources, `responding` for a responder between its
existence check and its write. A proposal stands for the actions and the identity of
the model output. Policies are the execution policies the code tells apart.

### ControlExecution

`apply_control_response`, one update of the application per await. Physics does what
it likes in an update while the timeline plays. The arm is reduced to the tolerances
it is within (of its start, of its goal, of both for a tiny command); contact and
force to whether the sensors exceed their limit. `current` says that no update passed
since the judged state was read. The four kinds (`free`, `grasp`, `candidate`,
`trial`) differ in the interlock, the settling loop, the rollback target and the
attachment rule. `Raise` is the `except` that rolls back, `RollbackFailed` the one
inside it, `Pause` the outermost `finally`. The gate may refuse for any reason and
never passes contact. `evidence` is what the result says of the last frame and of a
rollback that failed; `ControlResult`, `InsertionTrialRollbackFailure` and
`StepSummary` are the validations of `jepa_wm/insertion_trial.py`,
`sim/control_session.py` and `jepa_wm/control_rollout.py` it must pass when written
and read. `FollowsSessionProtocol` maps an execution to the apply operation of
`ControlSession`.

### ControlRollout

Two scripts: `rollout` with its EXIT trap, and `trial`, the chain of follow-up
insertion trials. `at` is the phase, `failed` the phase that failed. A call is sent,
perhaps begun, and answered `ok`, `error`, `lost` (refused or timed out) or `empty`
(the server died); `Passes` says which of these the shell takes for success where.
Sessions are reduced to their progress (`unreadable` is a trial whose rollback failed
for a reason without a name), the robot to the step whose end state it
rests in (`stage`, `None` after a foreign motion or a failed one). `Writable`,
`Summarized`, `OrchestrationFailure` and `Entry` are `ControlRolloutReport.from_sessions`:
a session without a result is accepted only as the last and only with a failure whose
phase it can name.

### RuntimeHandoff

`binding` is `_live_runtime`: a session and the stage object it was bound on. `robot`
holds what a continuity check can see (`pose`) and what it cannot (`at`, the session
whose capture or motion put the robot there): equal poses are no identity. Sessions
carry their lineage (`previous`, `source`), claim and result; the four kinds differ in
who needs a binding and who leaves one. Captures from a reset and follow-ups, their
failures after the reset or before the binding, the acquisition handoff with the
authority file it writes between capture and binding (`CaptureHandoff`), safety
evaluations, trials, motions with every outcome, the three `restore_*` retries with
the continuity each of them checks, another reset, reload and restart are one action
or two each. A trial is bound to its evaluation in `Persisted`: a follow-up trial is a
copy of it and takes its runtime, a reset trial brings its own capture of an equal state
(`persist_insertion_trial_response`). Neither asks whether the evaluation was used before.

### ControlResolution

One joint with integer positions under a drive with an unknown, changing bias. The
runtime's coroutine (`Open` to `Report`) and the reader (`ValidReport`,
`ValidFailure` and what they call) are written side by side, from
`sim/isaac_control_resolution.py` and `jepa_wm/control_resolution.py`: the runtime
validates what it writes with the reader's classes, so the question is whether an end
of the coroutine exists whose evidence the reader refuses.

### ControlWorker

`life` is a server process (loading, serving, killed but lingering, dead, its pid
reused), `socket`, `pidFile`, `artifactsFile` the three files, `command` a start or
stop with the lines of `ops/jepa_wm.sh` between which another may run or at which it
may be cut off. Clients (`call`) see only the socket; `Predict` and `plan_shadow` are
the worker's own checks, `cache` its last encodings. `disturbances` records what the
commands do not guard against.

### EvidenceGate

A behaviour is about one gate of eleven, a constant of its first state. `op[o]` is the
operator's branch of `ops/aws.sh`, `script[o]` the script on the host with its ERR
trap, `fin[o]` the finalize process; `P` and `R` are the gate's files on the host and on
the recovery volume. Gates differ in where the trap is set, in the order finalize
writes, in whether the resident worker is stopped first. A claim is created and then
filled (`FillClaim`); either may fail, and so may the record of a failure, which its
callers ignore (`RecordFailure`): `unsaid` is history and says that one of these writes
left a claim nobody speaks of. A call whose server died ends without an answer, which
passes (`Passes`), and an acquisition judges only some of its data (`ReadsAll` names the
gates that judge all), so it is the comparison in finalize (`IsRecovered`) that keeps an
unfinished run from a verdict. `faults` counts lost connections and killed scripts.

### SceneRecordings, UnknownStart

A kind of recording is a `Script`, a sequence of segments (a move, a hold to the end of
the stage window, a settling) with what is attached, released or changed before it.
What outlives an operation is `scene`, `timeline`, `auto`, `dt` (the rendering period)
and `cameras`; `disk` holds frames, steps, manifest and evidence. A fault is an
exception, a contact beyond the limit, a cancellation or a crash, at any step.
`UnknownStart` puts the shadow and candidate sessions on top: `Validate`, `Render` and
`Revalidated` are the two checks of the live scene with the camera updates between
them; `authentic` holds the resets whose result was finalized. The scene's joints, plug
and variant are whether they still are those of the reset.

### OfflineExperiments, PolicyEvidence

A behaviour is about one experiment. `file[n]` is the file of that name, with the
invocation that wrote it (its fingerprint), what it is about, what it says and what it
names as its sources; `process[p]` is a command between two of its steps (checked,
loading, scoring, writing). Two commands run at a time and nothing locks the files.
`loaded` is history: whose weights an invocation has in memory, against which the
reports are judged. Scores are free outcomes; every check of a fingerprint is kept.
`PolicyEvidence` adds what clears a policy for live runs: planner benchmarks and their
readiness, realized baselines with the film of a ready rollout, and the lineage of
insertion proposals.

## 3. What is checked

| run | instance | distinct states | shows |
|---|---|---|---|
| `jobs` | 2 jobs, 1 foreground operation, 3 runs, failing writes, reloads, restarts | 276,858 | one operation at a time (`OneOperation`), as in the abstract interlock (`ImplementsInterlock`); terminal files are final (`TerminalIsFinal`); cancellation gives the simulator back (`CancelReleases`) |
| `client` | 2 orchestrators, 1 foreground operation, 2 runs, calls and disk fail, restarts | 65,400 | a returned wait leaves nothing running (`ReturnedMeansReleased`); every wait ends but for two named causes (`WaitEnds`) |
| `session` | source, reset trial, follow-up trial; direct, baseline, measurement; 2 proposals, 2 responders, crashes | 128,575 (symmetry) | `SingleUse`; trials act on safe evidence (`TrialActsOnSafeSource`); no file without its ground (`EvidenceHasGround`) |
| `execution` | all four kinds, loops of 3 updates, 2 samples to settle | 21,618 | truthful and readable results (`ResultIsTruthful`), judged commands (`CommandOnJudgedState`), `LeftPaused`, refinement (`FollowsSessionProtocol`), `Ends` |
| `rollout` | 3 steps, both scripts | 6,792 | `MovesInOrder`, `ExitZeroMeansComplete`, `LateWorkIsReported`, `RolloutEnds` |
| `rollout_lost_trial` | 2 steps of the chain | violation | the disagreement of section 5 that a document states (`FailureIsReported`) |
| `resolution` | a HOLD and two translations, 3 biases, 2 calls | 553,046 | `EveryEndHasEvidence`, `ForwardIsUndone`, `MeasurementEnds` |
| `worker` | 2 commands, 2 workers, 2 manifests, 2 sessions with one observation id | 2,686,367 (symmetry) | `AnswerIsExpected`, `PlanSeesOwnFrames`, `NoOrphan` |
| `gates` | 2 operators, each of 11 gates, 2 faults | 670,302 | `OnlyClaimantWorks`, `VerdictIsRecovered`, `OneVerdict`, `ClaimIsSettled` |
| `handoff` | 4 sessions of any kind, 2 poses, 3 stages | 3,122,682 (symmetry) | `MotionIsGrounded`, `FollowupStartsAtEnd`, `OneMotionPerReset` |
| `scene` | 2 recordings of ten kinds, 2 sessions, 4 operations, 1 fault | 1,113,196 (symmetry) | `RecordingIsWhole`, `IdleIsStill`, `RequestIsGrounded`, `JudgedAtReset`, `RecoveryIsTrue` |
| `experiments` | 12 experiments, 2 processes, 4 to 6 invocations | 1,838,809 (symmetry, view) | `ClearedWasMeasured`, `ReportIsOfWhatRan`, `HeldOutIsEarned`, `PolicyIsEarned` |

**Why the bounds are enough.**

* `jobs`, `client`: three runs over two jobs let a job be quarantined and started
  again while the callback of its first run is pending and another job wants the
  simulator: the callback, the new run and the competitor are the actors of every
  hazard of the manager. A second foreground operation differs only in its name.
* `session`: a session interacts with at most one source, so one source with one trial
  of each kind covers the bindings; two proposals tell "the evaluated one" from "another
  one", two responders race. Sessions of no common binding cannot interact, so the
  constraint `OneGroup` follows either the related three or the lone three; the latter
  with one responder, of two only what they may do to a binding matters.
* `execution`: loops of three updates with two required samples include settling at
  once, after a miss, and never.
* `rollout`: three steps let a late call of the first meet the third.
* `resolution`: three probes include one that changes nothing, one within and one beyond
  the compensation; two calls let a measurement meet the files of an earlier one.
* `worker`: one worker started beside, or after, another that still loads or lingers.
  `Bounded` looks either at overlapping commands without clients or at clients
  with one command at a time that may be cut off; a client cannot tell by which
  disturbance a worker outlived its files.
* `gates`: a claim has one holder, so a second operator stands for every other; two
  faults are a lost connection and a killed script, or one of them twice.
* `handoff`: four sessions are an applied step, two evaluations of it and a trial, or a
  chain of a grasp, its retry and a handoff; two poses let states coincide or differ.
  Three stages are the one at the start, the reset an evaluation was captured from, and
  that of a reset trial bound to it. A second reset trial of the same evaluation needs a
  fourth stage, which is too large to check; `OneMotion` proves it.
* `scene`: a reset recording and a second one that disturbs it; four operations are
  capture, evaluation, action and recovery of one session. A fault is bounded by
  `MaxFaults`; after one, the later operations are the ones that could meet its traces.
* `experiments`: `MCMaxRuns` is what leads to the last file of an experiment and one
  training or evaluation beside it. TLC tells states apart by the view `Read`, which
  leaves out what no action or property reads of a residual experiment's records: who
  wrote the state and the failure, and the invocations that were refused (nothing but
  the write of such a record looks whether there is one).

All bounds are constants, and the proofs hold for every value.

**Fairness.** `RecordingJobs`: the loop turns, so a ready task runs, a pending
cancellation is delivered and callbacks fire; nothing is assumed of a recording that
was not cancelled or of foreground operations. `CaptureClient`: the same, the server
runs what it was sent, and the script polls and watches its clock. `ControlExecution`:
the application delivers updates, so every await returns. `ControlRollout`: each
command of the script ends, calls at their timeout; of the server nothing is assumed,
and the wait for the first capture may last for ever, which `RolloutEnds` says.
`ControlResolution`: updates are delivered (`WF` of the coroutine's own steps; the plug
and the bias may do as they like). `EvidenceGate`: shells, server and finalize are
sequential programs whose calls have timeouts; losing a connection is never fair.
Symmetry is used only in runs without liveness properties.

Deadlock checking is off where the modelled activity ends: one execution, one
rollout, one gate, a bounded number of calls, stages, operations or invocations.

## 4. What is proved

All theorems are for arbitrary constants under the named assumptions of their module
(`ConstantsAssumption`: job and operation ids do not overlap, as their prefixes differ;
`SessionAssumption`, `ExecutionAssumption`, `StepsAssumption`, `ScriptsAssumption`,
`NoneAssumption`, `HandoffAssumption`, `WorkerAssumption`, `GateAssumption`,
`ResolutionAssumption`, `RecordingsAssumption`, `UnknownStartAssumption`,
`CallsAssumption`: types of the constants, that `None` is none of them, and that the
roster of probes is not empty; `ExperimentsAssumption`: an experiment has at most as many
invocations as the model has names to keep their sessions under, six).
Every invariant a run checks is among them.

**RecordingJobsProofs.** `TypeCorrect`, `MutualExclusion`, `Registered`,
`NoLeakedClaim`, `TerminalIsOver`, `OwnArtifact`, `TerminalStatusIsFinal`, and
`Refinement` (`RecordingJobs` implements `SimulatorInterlock`). The heart of the
invariant is that a live run is the registered one and owns the claim; mutual
exclusion follows. It needs two facts that are not visible in the properties: which
heartbeats may exist where (`BeatMatches`), and that a run whose file an operator
found quarantinable has lost its heartbeat for good (`MuteUnderQuarantine`), hence
writes no terminal status later: without it, `TerminalIsFinal` and the refinement
would not survive the operator's gap between check and move.
On top of it, `ClientRunsServer`: whatever the scripts send, lose or repeat, the server
behaves as `RecordingJobs` (`ClientSpec => Spec`), so all of the above holds for the
composition, and `ClientTypeCorrect` and `WaitReleases` (`ReturnedMeansReleased`) are
proved with the server's invariant at hand: a start that is still to be served is one
its caller waits for or gave up (`StartIsAwaited`), hence nothing starts the job of a wait
that returned again.

**ControlSessionProofs.** `TypeCorrect`, `OncePerSession`, `DiagnosticsSafe`,
`TrialsGrounded`, `EvidenceGrounded`, `ResultFinal`. `Owner` is what an operation may
rely on across its awaits: the claim stands, there is no result yet, what was
commanded is its own proposal, and a trial's source verdict still matches. `Sequence`
says that a sequence of writes fills in only what is missing, also if it is cut.

The second half is about the experiments: `OfflineTypeCorrect`, `ClearedCorrect`,
`ReportCorrect`, `HeldOutCorrect`, `PolicyCorrect`. Nothing locks their files, so the
invariant cannot say what a file holds; it says what a number is worth. An invocation
writes only under its own number and loads nothing afterwards, so a number borne by a
file is `Used`, and neither a later write nor a later load can make it mean something
else (`IInvRuns`). Then each conclusion is followed to the number it rests on: what is
scored is loaded before (`Scored`), what passed was measured (`Passing`), what opens
held-out recordings is the commit of an adjudicated evaluation (`HeldOutInv`) under a
claim that is written only where there is none and stays (`ClaimInv`), a film is
of a rollout that passed (`GraspInv`), and a child descends from the bytes that were
loaded as long as the parent's file has those that were chosen (`DescentInv`).
`Numbered` bounds all of them for the types.

**ControlExecutionProofs.** `TypeCorrect`, `PausedAfterwards`, `TruthfulResult`,
`JudgedCommand`, `InterlockHolds`, and `SessionProtocol` (an execution is the apply
operation of `ControlSession`). The invariant states per place of the code what it
may rely on: nothing happened before the command, untripped while executing, the
drive off the goal while rolling back, a decided status that stays true, and evidence
that agrees with it.

**ControlRolloutProofs.** `TypeCorrect`, `MotionInOrder`, `ExitZero`,
`TruthfulReport`, `LateWork`, `Finalized`. A session exists only on top of applied
ones (`Chained`); the steps before the current one have results and those after do
not exist (`Behind`); a call not yet begun had no effect (`SentIsFresh`), which is
what makes late calls harmless; the operation in progress has its session to itself
(`RunOwns`).

**RuntimeHandoffProofs.** `TypeCorrect`, `Grounded`, `FollowupEnds`, `OneMotion`. The
binding alone does not say where the robot is, the pose alone does not say who put it
there; the invariant (`Bound`, `Held`) says what both together are worth: a binding on
the open stage belongs to a session captured on it, and a robot that is not astray is
where that session's capture or motion left it. `Lineage` carries the end of a step
through evaluations and trials, `OneTrial` that only one trial of an evaluation is
unclaimed and bound, and `OneReset` that a stage takes the capture of one reset, so that
the reset trials of an evaluation lie on different stages.

**EvidenceGateProofs.** `TypeCorrect`, `OnlyTheClaimantWorks`, `FailuresAreOwn`,
`VerdictsAreRecovered`, `VerdictIsOne`. The claim makes one run the owner of all that
follows (`Scripted`, `Commanded`); what was copied by the time it is finalized is
`Recovered`, what its verdict is of `Judged`, and why its failure excludes one `Agreed`.
`VerdictsAreRecovered` rests on the comparison alone: nothing in the invariant says that
a script that ended well left complete data, because it may not have.

Then the resident worker: `WorkerTypeCorrect`, `Expected`, `OwnFrames`, `WorkersAreFound`,
`ReadyIsReady` (`WorkerSpec => ...`). What clients rely on follows from the worker's own
records (`Served`, `Answered`); what the files say is true as long as the commands took
turns, followed line by line of a start or stop (`Phased`, `Filed`).

**ControlResolutionProofs.** `TypeCorrect`, `TargetsAreKnown` (the target the runtime
remembers is the one the drive holds), `SettledIsReset` (a settled way back is a reset),
`ForwardsAreUndone`, for every roster, bias and tolerance, from `IInv`; and
`EvidenceOfEveryEnd` (`EveryEndHasEvidence`) from a second invariant, `EInv`, that says for
each place of the coroutine which of the reader's predicates hold of what it has
collected: the trace has no window yet (`Waiting`), the samples so far are accepted and
leave the drive where the runtime thinks it is (`Accepted`), the execution, settlement,
command and correction of the probe under way are valid (`Executing`, `OnTheWay`). The
reader's recursion over the samples needs no induction over data: the invariant speaks
of any function that satisfies its equation (`IsHeld`), and the measurement extends the
one it has by the sample it appends (`AcceptsMore`). Why a failed run cannot be
refused is then one lemma per cause (`ErrorIsValid`, `MotionIsValid`, `RollbackIsValid`).

**UnknownStartProofs.** `UnknownStartTypeCorrect`, `SceneIsStill` (`IdleIsStill`),
`ManifestsAreWhole` (`RecordingIsWhole`), `RequestsAreGrounded`, `JudgementsAreAtReset`,
`RecoveriesAreTrue`. `IInvScene` says which operation may be at which of its steps
(`Positions`) and that physics advances, and the rendering period differs, only at some
of them (`Still`, `Opened`, `Period`). `IInvSession` adds what the operation under way has
established of its session when it reads the scene again after its camera updates
(`Established`), and that a directory not made says nothing (`Unmade`). For the films,
`IInvFilm` follows a script segment by segment: the frames taken are those of its
directory, and the plug is as the segments before left it (`Progress`, with lemmas on the
shape of the ten scripts); an unmade directory is empty (`Fresh`), and what has a
manifest is whole (`Whole`).

Some of these theorems are about properties that no run lists any more (`TargetIsKnown`,
`SettledIsHome`, `ReadyIsTrue`, `FailureIsOwn`, `ResultIsFinal`,
`DiagnosticsNeverApplied`, `InterlockStops`, `ReportNeverOverclaims`, `FinalizerReports`,
`LiveRunIsRegistered`, `ClaimHasOwner`, `TerminalMeansOver`, `ArtifactIsOwn`): they hold
for every instance, and TLC agreed with each before it was proved.

**Only model-checked.** Liveness (`CancelReleases`, `WaitEnds`, `Ends`, `RolloutEnds`,
`ClaimIsSettled`, `MeasurementEnds`) and anything with ENABLED are beyond the proof
system used, as are inductions over data and theorems about RECURSIVE operators (there
are none here).

## 5. Where the code and its documents disagree, and what the models showed

One disagreement with a document is a run that TLC finds violated:

* `rollout_lost_trial`: in `run_insertion_followup_trial` calls stand on the left of
  `||`, where errexit is off; a lost call passes for an answered one, and the terminal
  report that would name the failure is not written. The order of motion and the exit
  status are still right (`MovesInOrder`, `ExitZeroMeansComplete`).

The models contain the following behaviours of the code as well; the properties are
stated so that they hold in spite of them.

Jobs, sessions and rollouts:
* A job cancelled before the first step of its task never gets a terminal status file.
* One failed heartbeat write ends the heartbeat of a live run, whose file then counts as
  stale output (`jepa_wm/contact_insertion_status_cli.py:14` promises the contrary).
* A cancellation that was never delivered ends the loop that retries it
  (`ops/shell_helpers.sh:387-393`).
* Two responder processes of one session both pass the existence check, and the second
  replaces the response that `docs/control-loop.md:127-129` calls immutable.
* A trial whose rollback fails for an untyped reason leaves a `rollback_failed` result that
  `ControlStepSummary.from_session` refuses ("rollback settlement is missing"): the
  report of its rollout is then not written (`unreadable` in `ControlRollout`).
* A passed evaluation may be bound to any number of trials with a reset of their own, one
  after the other (`sim/isaac_insertion_trial.py:96-114`): it moves the robot once per
  reset, not once.
* A handoff whose authority file cannot be written leaves a captured session that never
  gets the runtime (`CaptureHandoff`).

Scene:
* A cancelled job passes `except Exception`: its cameras stay attached (`CancelJob`).
* A session captured but cut off before its handoff is later evaluated without the
  re-authentication that the handoff would ask for; `JudgedAtReset` is about sessions
  with a handoff.

Gates:
* The scripts of canary and replay set their trap before they claim: a refused operator
  records the failure of the other's run.
* The replay's evaluate and finalize do not look for a failure.
* A connection lost during finalize leads to a verdict and a failure.
* A claim exists before it has contents and before most scripts set their trap, and the
  write of a failure is followed by `|| true` (`ops/aws.sh:1264-1265`): when one of them
  fails, the experiment is claimed for good, without verdict or failure.
* A simulator that dies during a gate's call leaves an empty answer that passes for a
  success; only the comparison with the recovery volume notices.

Experiments:
* The refused second held-out evaluation writes the terminal failure while the first
  still works and then writes its output; version 2 may then be authorized, and the
  recordings be scored twice. `HeldOutIsEarned` states what holds: once per version, each
  time with the committed, adjudicated artifact, and never by version 2 without a claim
  and a failure of version 1.
* Two trainings at once mix the artifact of one with the report of the other; the
  evaluation refuses the pair.
* A wrong `train` invocation during another's training is recorded as the terminal failure
  of the experiment.
* `evaluate_recording` and `evaluate_proposal` fingerprint the file when they report: they
  may name a newer artifact than the one they scored. The planner benchmark does the
  opposite and scores weights newer than the identity it reports.
* The readiness of plain proposals matches reports by path; that of tasks reads them again.
* The canonical evaluation of the conditioning experiment needs no authority.
* Of two racing causal preflights the probe may name the blocked one of another corpus.
* A fine-tune loads its parent by path after it authenticated it by bytes; such a child
  is never handed a session (`HandoffIsTrue`).
* `evaluate_insertion_transition` uses two names that nothing defines
  (`jepa_wm/insertion_transition_evaluate.py:98-99`): it never writes a report.

## 6. What is not modelled, and why

* **Numbers.** Kinematics, settlement tolerances (but for one joint in
  `ControlResolution`), drive compensation, latent scores and readiness thresholds enter
  as nondeterministic verdicts; contents of evidence files beyond what the properties tell
  apart, and fingerprints, which are taken to identify their contents, are left out.
  Clocks, except through what a timeout may do.
* **`write_json_atomic`.** All writers of a file share one temporary name
  (`jepa_wm/persistence.py:12`): two processes writing it could interleave there. The
  models take the write as atomic; where two processes write one file they race for it
  (`RespondWrite`, the experiments' files).
* **Stage gate** (`jepa/stage_gate.py` and the online worker): a sequential counter in one
  process, which the repository does not wire to the simulator.
* **Demo run specification**: freezes and authenticates fingerprints; one writer.
* **`diagnose_*`** functions of `sim/isaac_control_followup.py`: eleven measurements that
  read the robot and persist nothing other operations read. The same holds of
  `verify_unknown_start_grasp_continuation_source`: it is called outside the interlock
  and pauses the timeline, but needs the runtime of a session whose action was applied,
  and while that runtime is bound nothing else plays the timeline.
* **Within modelled components**: candidate responses other than those of an unknown
  start; insertion retries a rollout script orders (what they do to the runtime is in
  `RuntimeHandoff`); the reset trial script; what a gate authenticates of its
  predecessor; smoke and slice-audit commands, conditioning treatments beyond one,
  children of children; older versions of the measurement protocol its reader accepts.
* **Embedding, dashboards, cloud and docker commands**: batch programs and calls of
  external services without shared state.

`components` in `PROJECT.json` lists every part with its status.

## 7. Plan

The order is that of what can move the robot or spoil evidence of its motion.

Done: all modules of section 2, and proofs of every invariant their runs check.

Next:

1. A small specification of the life of a session (captured, claimed once, ended once)
   that `ControlSession`, `ControlRollout` and `RuntimeHandoff` all implement, so that
   what each of them keeps of a session is shown to agree.
2. More of `sim/isaac_control_followup.py`: the measurements that only read the robot, once
   something reads what they write.

## 8. Running it

`tlc -config <Module>.cfg MC<Module>.tla` for a run (`ControlRolloutLostTrial.cfg` for
`rollout_lost_trial`; `UnknownStart.cfg` is `scene`), `tlapm <Module>Proofs.tla` for the
proofs (section 2 says which module holds whose). With two workers most runs take less
than a minute, `worker`, `handoff`, `scene` and `experiments` one to four; the proofs a
few minutes each.
