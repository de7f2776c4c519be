----------------------------- MODULE UnknownStart -----------------------------
(***************************************************************************)
(* The unknown-start experiments on top of the recorded scene: a session is *)
(* captured from the paused state an authenticated reset left, without       *)
(* moving the robot (isaac_unknown_start_shadow.py); its planned action is   *)
(* judged against the captured state (isaac_shadow_safety.py); one candidate *)
(* action is captured, bound and applied in one operation (isaac_demo.py);   *)
(* and a failed rollback is taken back to the reset                          *)
(* (isaac_unknown_start_recovery.py).  Recordings share the simulator, so    *)
(* they come between any two of these operations.                            *)
(***************************************************************************)
EXTENDS SceneRecordings

CONSTANTS Sessions,        \* control session names
          MaxOps           \* bound: unknown-start operations started

ASSUME UnknownStartAssumption == MaxOps \in Nat

VARIABLES sessions,   \* per session, the files of its directory
          authentic,  \* resets whose RESULT.json passed
          returned,   \* the unknown-start operation that just returned normally
          ops
vars == <<sceneVars, sessions, authentic, returned, ops>>

Captures == {"shadow", "candidate", "execute"}
NoScene == [BaseScene EXCEPT !.variant = "none"]
NoSession == [dir |-> FALSE, reset |-> "none", policy |-> "none", captured |-> NoScene,
              handoff |-> FALSE, planned |-> FALSE, safety |-> NoScene, source |-> "none",
              result |-> "none", clean |-> TRUE,
              recovery |-> "none", superseded |-> 0]
Nothing == [kind |-> "none", session |-> "none"]

UInit == /\ Init
         /\ sessions = [s \in Sessions |-> NoSession]
         /\ authentic = {} /\ returned = Nothing /\ ops = 0

\* The files of the operation's session.
Mine == sessions[op.session]
Set(s, written) == sessions' = [sessions EXCEPT ![s] = written]
PausedTimeline == IF timeline = "playing" THEN "paused" ELSE timeline
files == <<disk, cameras, runs, dt>>

\* The operation raises or returns; returned says which.
Ends(ok) == /\ op' = NoOp
            /\ returned' = IF ok THEN [kind |-> op.kind, session |-> op.session] ELSE Nothing
StaysAt(pc) == op' = [op EXCEPT !.pc = pc] /\ returned' = Nothing

Begin(kind, s, r, pc) ==
  /\ op = NoOp /\ ops < MaxOps /\ ops' = ops + 1
  /\ op' = [NoOp EXCEPT !.kind = kind, !.session = s, !.rec = r, !.pc = pc]
  /\ returned' = Nothing

---------------------------------------------------------------------------
(* A reset becomes a source: its terminal result is finalized on the host   *)

\* The recording must hold the one observation its capture and evidence name.
FinalizeReset(r) ==
  /\ disk[r].capture /\ disk[r].evidence /\ ~disk[r].negative
  /\ Len(disk[r].steps) = 1
  /\ disk[r].manifest.frames = 1
  /\ r \notin authentic /\ authentic' = authentic \cup {r}
  /\ UNCHANGED <<sceneVars, sessions, returned, ops>>

load_authenticated_reset(r) == r \in authentic

\* validate_unknown_start_handoff, of the live scene against the evidence of r.
unknown_start_handoff_failures(s, r) ==
  {f \in {"variant", "arm_positions", "connector_position", "plug_unattached"} :
     CASE f = "variant" -> s.variant # r
       [] f = "arm_positions" -> s.arm # "at"
       [] f = "connector_position" -> s.plug # "placed"
       [] f = "plug_unattached" -> s.attached}

\* bind_existing_fixed_joint_plug authors nothing: the joint is disabled and the
\* connector's collisions are on, or it raises.
BindsPlug(s) == ~s.attached /\ s.collides

---------------------------------------------------------------------------
(* Capturing a session                                                       *)

StartCapture(kind, s, r) ==
  /\ ~sessions[s].dir
  /\ Begin(kind, s, r, "pausing")
  /\ UNCHANGED <<scene, timeline, auto, files, faults, sessions, authentic>>

\* The timeline is paused and no longer updates; a candidate's arm is set to the
\* reset's joints; then the live scene must be the reset's.
Validate ==
  /\ op.kind \in Captures /\ op.pc = "pausing"
  /\ timeline' = PausedTimeline /\ auto' = FALSE
  /\ IF load_authenticated_reset(op.rec) /\ BindsPlug(scene)
     THEN /\ scene' = IF op.kind = "shadow" THEN scene
                      ELSE [scene EXCEPT !.arm = IF scene.variant = op.rec
                                                 THEN "at" ELSE "away"]
          /\ IF unknown_start_handoff_failures(scene', op.rec) = {}
             THEN StaysAt("rendering") ELSE Ends(FALSE)
     ELSE scene' = scene /\ Ends(FALSE)
  /\ UNCHANGED <<files, faults, sessions, authentic, ops>>

\* Mutant: the scene is not validated again after the image.
Revalidated_Once == TRUE

\* The scene is validated again after the camera's updates, and only then is the
\* request written; the image is in the session's directory by then.
Revalidated == unknown_start_handoff_failures(scene', op.rec) = {}
Render ==
  /\ op.kind \in Captures /\ op.pc = "rendering"
  /\ \/ UNCHANGED <<scene, faults>>
     \/ Counted /\ scene' \in {[scene EXCEPT !.arm = "near"], [scene EXCEPT !.plug = "moved"]}
  /\ IF Revalidated
     THEN /\ Set(op.session, [Mine EXCEPT !.dir = TRUE, !.reset = op.rec, !.captured = scene',
                                         !.policy = IF op.kind = "shadow" THEN "direct"
                                                    ELSE "reset_trial_candidate"])
          /\ StaysAt("handoff")
     ELSE Set(op.session, [Mine EXCEPT !.dir = TRUE]) /\ Ends(FALSE)
  /\ UNCHANGED <<timeline, auto, files, authentic, ops>>

\* The render resumed the timeline, or the contact observer raised: no image.
RenderFails ==
  /\ op.kind \in Captures /\ op.pc = "rendering" /\ Counted
  /\ timeline' \in {timeline, "playing"}
  /\ Ends(FALSE)
  /\ UNCHANGED <<scene, auto, files, sessions, authentic, ops>>

WriteHandoff ==
  /\ op.kind \in Captures /\ op.pc = "handoff"
  /\ Set(op.session, [Mine EXCEPT !.handoff = TRUE]) /\ StaysAt("binding")
  /\ UNCHANGED <<scene, timeline, auto, files, faults, authentic, ops>>

bind_live_runtime ==
  /\ op.kind \in Captures /\ op.pc = "binding"
  /\ scene' = [scene EXCEPT !.bound = op.session]
  /\ IF op.kind = "execute" THEN StaysAt("responding") ELSE Ends(TRUE)
  /\ UNCHANGED <<timeline, auto, files, faults, sessions, authentic, ops>>

---------------------------------------------------------------------------
(* Judging a planned action, and executing one candidate                     *)

\* The shadow search writes its plan for a captured request.
Plan(s) ==
  /\ sessions[s].captured # NoScene /\ sessions[s].policy = "direct"
  /\ ~sessions[s].planned /\ Set(s, [sessions[s] EXCEPT !.planned = TRUE])
  /\ UNCHANGED <<sceneVars, authentic, returned, ops>>

\* Mutant: only the timeline is rechecked, not the scene.
reauthenticate_unknown_start_shadow_session_Paused(s, now) ==
  sessions[s].handoff => timeline # "playing" /\ load_authenticated_reset(sessions[s].reset)

\* A session without a handoff is not an unknown-start one and is not rechecked.
reauthenticate_unknown_start_shadow_session(s, now) ==
  sessions[s].handoff =>
    /\ timeline # "playing" /\ BindsPlug(now)
    /\ load_authenticated_reset(sessions[s].reset)
    /\ unknown_start_handoff_failures(now, sessions[s].reset) = {}

evaluate_shadow_candidate(s) ==
  /\ op = NoOp /\ sessions[s].planned /\ sessions[s].safety = NoScene
  /\ reauthenticate_unknown_start_shadow_session(s, scene)
  /\ Set(s, [sessions[s] EXCEPT !.safety = scene]) /\ returned' = Nothing
  /\ UNCHANGED <<sceneVars, authentic, ops>>

\* The source session passed its search and its safety evaluation.
load_candidate_source_evidence(src) == sessions[src].planned /\ sessions[src].safety # NoScene

persist_experimental_candidate_response ==
  /\ op.pc = "responding"
  /\ \/ \E src \in Sessions \ {op.session} :
          /\ load_candidate_source_evidence(src)
          /\ Set(op.session, [Mine EXCEPT !.source = src]) /\ StaysAt("applying")
     \/ /\ \A src \in Sessions \ {op.session} : ~load_candidate_source_evidence(src)
        /\ Ends(FALSE) /\ UNCHANGED sessions
  /\ UNCHANGED <<scene, timeline, auto, files, faults, authentic, ops>>

\* apply_control_response resumes the simulation to move (ControlExecution.tla).
Apply ==
  /\ op.pc = "applying" /\ timeline' = "playing" /\ auto' = TRUE
  /\ scene' = [scene EXCEPT !.arm = "away"] /\ StaysAt("moving")
  /\ UNCHANGED <<files, faults, sessions, authentic, ops>>

\* Its rollback tolerance is looser than the handoff's: rolled back is near, not at.
MoveEnds ==
  /\ op.pc = "moving" /\ timeline' = PausedTimeline
  /\ \E result \in {"applied", "rolled_back", "rollback_failed"}, clean \in BOOLEAN :
       /\ IF clean THEN UNCHANGED faults ELSE Counted
       /\ Set(op.session, [Mine EXCEPT !.result = result, !.clean = clean])
       /\ scene' = [scene EXCEPT !.arm = IF result = "rolled_back" THEN "near" ELSE "away",
                                 !.plug = IF clean THEN @ ELSE "moved"]
  /\ Ends(TRUE)
  /\ UNCHANGED <<auto, files, authentic, ops>>

---------------------------------------------------------------------------
(* Recovering a failed rollback                                              *)

Recoverable(s) ==
  /\ sessions[s].policy = "reset_trial_candidate" /\ sessions[s].handoff
  /\ sessions[s].result = "rollback_failed" /\ sessions[s].clean
  /\ load_authenticated_reset(sessions[s].reset)

\* An inexact earlier recovery is renamed before anything else is checked.
Supersede(s) ==
  IF sessions[s].recovery = "inexact"
  THEN Set(s, [sessions[s] EXCEPT !.recovery = "none", !.superseded = @ + 1])
  ELSE UNCHANGED sessions

StartRecovery(s) ==
  /\ Recoverable(s) /\ Supersede(s)
  /\ Begin("recover", s, sessions[s].reset, "pausing")
  /\ UNCHANGED <<scene, timeline, auto, files, faults, authentic>>

\* The paused timeline, then the bound runtime: a reopened stage has none.
RecoveryPauses ==
  /\ op.kind = "recover" /\ op.pc = "pausing" /\ timeline' = PausedTimeline
  /\ IF scene.bound = op.session THEN StaysAt("refreshing") ELSE Ends(FALSE)
  /\ UNCHANGED <<scene, auto, files, faults, sessions, authentic, ops>>

\* refresh_paused_live_control_articulation advances one update and pauses again;
\* the active drive target must be one the execution left.
Refresh ==
  /\ op.pc = "refreshing" /\ auto' = TRUE /\ timeline' = "paused"
  /\ \/ UNCHANGED faults /\ StaysAt("rolling_back")
     \/ Counted /\ Ends(FALSE)
  /\ UNCHANGED <<scene, files, sessions, authentic, ops>>

\* The drive goes back to the reset's target; the timeline pauses either way.
RollBack ==
  /\ op.pc = "rolling_back" /\ auto' = TRUE /\ timeline' = "paused"
  /\ \/ /\ scene' = [scene EXCEPT !.arm = "near"]
        /\ UNCHANGED faults /\ StaysAt("initializing")
     \/ /\ scene' = [scene EXCEPT !.arm = "near", !.plug = "moved"]
        /\ Counted /\ StaysAt("initializing")
     \/ UNCHANGED scene /\ Counted /\ Ends(FALSE)
  /\ UNCHANGED <<files, sessions, authentic, ops>>

\* Mutant: the settled rollback is taken for the reset.
RecoveryEnds_Settled ==
  /\ op.pc = "initializing" /\ auto' = FALSE /\ UNCHANGED scene /\ Ends(TRUE)
  /\ IF sessions[op.session].recovery # "none" THEN UNCHANGED sessions
     ELSE Set(op.session, [Mine EXCEPT !.recovery = "exact"])
  /\ UNCHANGED <<timeline, files, faults, authentic, ops>>

\* The arm is set to the reset's joints without a tick, and the scene must be the
\* reset's again before the recovery is recorded; an exact one is kept.
RecoveryEnds ==
  /\ op.pc = "initializing" /\ auto' = FALSE
  /\ scene' = [scene EXCEPT !.arm = "at"]
  /\ IF ~reauthenticate_unknown_start_shadow_session(op.session, scene')
     THEN Ends(FALSE) /\ UNCHANGED sessions
     ELSE /\ Ends(TRUE)
          /\ IF sessions[op.session].recovery # "none" THEN UNCHANGED sessions
             ELSE \E readback \in {"exact", "inexact"} :
                    Set(op.session, [Mine EXCEPT !.recovery = readback])
  /\ UNCHANGED <<timeline, files, faults, authentic, ops>>

---------------------------------------------------------------------------
(* The preflight of an experiment                                            *)

StartPreflight(r) ==
  /\ Begin("preflight", "none", r, "pausing")
  /\ UNCHANGED <<scene, timeline, auto, files, faults, sessions, authentic>>
Preflight ==
  /\ op.kind = "preflight" /\ timeline' = PausedTimeline
  /\ Ends(/\ load_authenticated_reset(op.rec) /\ BindsPlug(scene)
          /\ unknown_start_handoff_failures(scene, op.rec) = {})
  /\ UNCHANGED <<scene, auto, files, faults, sessions, authentic, ops>>

---------------------------------------------------------------------------

\* A candidate film replays a session whose action was applied.
HasSource(kind) == kind = "candidate_film" => \E s \in Sessions : sessions[s].result = "applied"

Record ==
  /\ \/ \E kind \in Kinds, r \in Recordings : HasSource(kind) /\ StartRecording(kind, r)
     \/ RecordingStep
     \/ Crash
  /\ returned' = Nothing
  /\ UNCHANGED <<sessions, authentic, ops>>

UnknownStartStep ==
  \/ \E kind \in Captures, s \in Sessions, r \in Recordings : StartCapture(kind, s, r)
  \/ \E r \in Recordings : FinalizeReset(r) \/ StartPreflight(r)
  \/ \E s \in Sessions : Plan(s) \/ evaluate_shadow_candidate(s) \/ StartRecovery(s)
  \/ Validate \/ Render \/ RenderFails \/ WriteHandoff \/ bind_live_runtime
  \/ persist_experimental_candidate_response \/ Apply \/ MoveEnds
  \/ RecoveryPauses \/ Refresh \/ RollBack \/ RecoveryEnds \/ Preflight

Next == Record \/ UnknownStartStep
Spec == UInit /\ [][Next]_vars

---------------------------------------------------------------------------
(* Properties                                                                *)

AtReset(s, r) == s.variant = r /\ s.arm = "at" /\ s.plug = "placed" /\ ~s.attached

\* The promise of the capture ("without resetting or moving"): a session with a
\* handoff was captured from exactly the scene an authenticated reset recorded,
\* although camera updates ran between the validation and the image.
RequestIsGrounded ==
  \A s \in Sessions : sessions[s].handoff =>
    sessions[s].reset \in authentic /\ AtReset(sessions[s].captured, sessions[s].reset)

\* A planned action of an unknown-start session is judged against the scene it
\* was captured from: a recording, an execution or a crash between the capture
\* and the evaluation must not go unnoticed.
JudgedAtReset ==
  \A s \in Sessions : sessions[s].handoff /\ sessions[s].safety # NoScene =>
    AtReset(sessions[s].safety, sessions[s].reset)

\* A recovery that returns left the scene at its reset, paused and no longer
\* updating, and is recorded.
RecoveryIsTrue ==
  returned.kind = "recover" =>
    LET s == returned.session
    IN /\ AtReset(scene, sessions[s].reset) /\ timeline # "playing" /\ ~auto
       /\ sessions[s].recovery # "none"

=============================================================================
