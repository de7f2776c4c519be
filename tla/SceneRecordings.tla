--------------------------- MODULE SceneRecordings ---------------------------
(***************************************************************************)
(* Everything that films the scene: the scripted demo, the exploration     *)
(* recordings, the authentication of an unknown-start reset and the replays *)
(* made for presentation (sim/isaac_demo.py, isaac_exploration.py,          *)
(* isaac_unknown_start_reset.py, isaac_*_demo.py) with the recorder they     *)
(* share (isaac_demo_camera.py, recording.py) and the simulator they drive  *)
(* (isaac_demo_runtime.py).                                                 *)
(*                                                                          *)
(* One operation owns the simulator at a time (RecordingJobs models that);  *)
(* a step ends where the code awaits or can be interrupted.  What outlives  *)
(* an operation is the simulator's mode - timeline, automatic update,       *)
(* rendering period - the attached cameras, and the files.  A contact is    *)
(* BOOLEAN: within or beyond the limit.                                     *)
(***************************************************************************)
EXTENDS Naturals, Sequences

CONSTANTS Recordings,      \* names recordings are made under
          Kinds,           \* the kinds of recordings that are asked for
          Window,          \* DEFAULT_FRAMES, the frames of a stage window
          SettleUpdates,   \* updates _settle_at_target waits for the hand
          MaxRuns,         \* bound: operations started
          MaxFaults        \* bound: failures, unsafe contacts, cancellations, crashes

ASSUME RecordingsAssumption ==
  /\ Kinds \subseteq {"demo", "action", "domain", "grasp", "insertion", "contact", "reset",
                     "candidate_film", "grasp_film", "insertion_film"}
  /\ Window \in Nat /\ SettleUpdates \in Nat \ {0}
  /\ MaxRuns \in Nat /\ MaxFaults \in Nat

VARIABLES scene,     \* the opened stage: variant, attached plug, connector collisions
          timeline,  \* "stopped", "paused" or "playing"
          auto,      \* the timeline's automatic update, which drives physics
          dt,        \* rendering period: "app", or the one an operation set
          op,        \* the operation that owns the simulator, or NoOp
          cameras,   \* runs whose render products are attached
          disk,      \* per recording name, its directory
          runs, faults

sceneVars == <<scene, timeline, auto, dt, op, cameras, disk, runs, faults>>

---------------------------------------------------------------------------
(* Kinds of recordings and what each films                                  *)

Explorations == {"domain", "grasp", "insertion", "contact"}
Jobs == {"demo", "action"} \cup Explorations
Films == {"candidate_film", "grasp_film", "insertion_film"}
RecordingKinds == Jobs \cup Films \cup {"reset"}
Sampled == Explorations \cup {"reset"}   \* prepare_recording_stage set the period
Sensed == {"contact", "reset"} \cup Films \* a contact sensor is read
FixedJoint == {"contact", "reset"}       \* the plug is a body on a joint, not a follower

\* Mutant: the observer is not passed to the contact recording's motions.
Observed_ResetOnly == {"reset"}

\* Kinds whose observer raises before the frame is taken.
Observed == {"contact", "reset"}
Stages == <<"approaching_cable", "cable_grasped", "aligned_with_socket", "plug_seated">>

Segment(label, stage, frames, before) ==
  [label |-> label, stage |-> stage, frames |-> frames, before |-> before]
Move(label, stage) == Segment(label, stage, "one", "keep")
Fill(label, stage) == Segment(label, stage, "window", "keep")
Reach(motion, settle, stage) ==
  <<Move(motion, stage), Segment(settle, stage, "settle", "keep")>>

DemoScript ==
  LET A == Stages[1]  G == Stages[2]  L == Stages[3]  S == Stages[4]
  IN <<Move("initial", A)>>
     \o Reach("motion.ready", "settle.ready", A)
     \o Reach("motion.pre_grasp", "settle.pre_grasp", A)
     \o Reach("motion.grasp", "settle.grasp", A)
     \o <<Fill("settle.grasp", A), Move("close.grasp", A),
          Segment("attached.grasp", G, "one", "attach")>>
     \o Reach("motion.pre_insertion", "settle.pre_insertion", G)
     \o <<Fill("settle.pre_insertion", G), Fill("settle.pre_insertion", L)>>
     \o Reach("motion.insert", "settle.insert", L)
     \o <<Fill("settle.insert", S)>>
     \o Reach("motion.release", "settle.release", S)
     \o <<Segment("complete.release", S, "one", "detach")>>

ExplorationTargets ==
  <<Move("settle.ready", Stages[1]), Move("motion.ready", Stages[1]),
    Move("motion.ready", Stages[1]), Move("motion.ready", Stages[1])>>
record_successful_grasp ==
  <<Move("motion.pre_grasp", Stages[1]), Move("motion.grasp", Stages[1]),
    Move("close.grasp", Stages[1]),
    Segment("attached.grasp", Stages[2], "one", "attach"),
    Move("motion.pre_insertion", Stages[2]), Move("settle.pre_insertion", Stages[2])>>
record_successful_insertion(kind) ==
  <<Segment("motion.pre_insertion", Stages[2], "one",
            IF kind = "contact" THEN "collide" ELSE "keep"),
    Move("settle.pre_insertion", Stages[3]), Move("motion.insert", Stages[3]),
    Move("settle.insert", Stages[4])>>
ExplorationScript(kind) ==
  <<Move("initial", Stages[1])>>
  \o (IF kind = "contact" THEN <<>> ELSE ExplorationTargets)
  \o (IF kind = "domain" THEN <<>> ELSE record_successful_grasp)
  \o (IF kind \in {"insertion", "contact"} THEN record_successful_insertion(kind) ELSE <<>>)

FilmScript(kind) ==
  CASE kind = "candidate_film" ->
         <<Move("motion.ready", Stages[1]), Move("motion.ready", Stages[1]),
           Move("complete.ready", Stages[1])>>
    [] kind = "grasp_film" ->
         <<Move("motion.grasp", Stages[1]), Move("motion.grasp", Stages[1]),
           Segment("attached.grasp", Stages[2], "one", "attach"),
           Move("motion.pre_insertion", Stages[2]), Move("complete.pre_insertion", Stages[2])>>
    [] kind = "insertion_film" ->
         <<Move("motion.pre_insertion", Stages[2]), Move("motion.pre_insertion", Stages[2]),
           Move("complete.pre_insertion", Stages[2])>>

Script == [kind \in RecordingKinds |->
             CASE kind \in {"demo", "action"} -> DemoScript
               [] kind \in Explorations -> ExplorationScript(kind)
               [] kind \in Films -> FilmScript(kind)
               [] OTHER -> <<Move("initial", Stages[1])>>]   \* the reset

---------------------------------------------------------------------------
(* State                                                                     *)

\* arm and plug say where they are relative to what the variant's reset
\* recorded; bound is the session whose live runtime holds this stage.
BaseScene == [variant |-> "base", arm |-> "away", plug |-> "placed",
              attached |-> FALSE, collides |-> TRUE, bound |-> "none"]
\* session is that of an unknown-start operation (UnknownStart.tla).
NoOp == [kind |-> "none", rec |-> "none", session |-> "none", pc |-> "none",
         run |-> 0, seg |-> 0, late |-> 1, waits |-> 0, steps |-> <<>>]
NoManifest == [kind |-> "none", frames |-> 0]
NoRecording == [made |-> 0, frames |-> <<>>, steps |-> <<>>, manifest |-> NoManifest,
                negative |-> FALSE, evidence |-> FALSE, capture |-> FALSE]

Init == /\ scene = BaseScene /\ timeline = "stopped" /\ auto = TRUE /\ dt = "app"
        /\ op = NoOp /\ cameras = {} /\ runs = 0 /\ faults = 0
        /\ disk = [r \in Recordings |-> NoRecording]

simulator == <<scene, timeline, auto, dt>>
Counted == faults < MaxFaults /\ faults' = faults + 1

\* App updates advance physics while the timeline plays under automatic update.
Advances == timeline = "playing" /\ auto

\* set_dt(original_rendering_dt), in every finally clause.
restored_dt == dt' = "app"

\* The finally clause of each kind: explorations and demos stop what did not
\* complete, a reset and the replays pause.
EndTimeline(kind, completed) ==
  timeline' = IF kind \in Jobs
              THEN IF completed THEN "paused" ELSE "stopped"
              ELSE IF kind = "reset" /\ timeline # "playing" THEN timeline ELSE "paused"

\* Mutant: the finally clause does not restore the period.
Raise_KeepsPeriod == /\ UNCHANGED dt /\ EndTimeline(op.kind, FALSE)
                     /\ cameras' = cameras \ {op.run} /\ op' = NoOp
                     /\ UNCHANGED <<scene, auto, runs>>

\* The operation ends with an exception: `except Exception` aborts the recorder.
Raise == /\ restored_dt /\ EndTimeline(op.kind, FALSE)
         /\ cameras' = cameras \ {op.run} /\ op' = NoOp
         /\ UNCHANGED <<scene, auto, runs>>

---------------------------------------------------------------------------
(* An operation, from the reset of the stage to its first frame             *)

\* prepare_recording_stage sets the period first; reset_stage stops physics.
StartRecording(kind, r) ==
  /\ op = NoOp /\ runs < MaxRuns /\ runs' = runs + 1
  /\ op' = [NoOp EXCEPT !.kind = kind, !.rec = r, !.pc = "opening", !.run = runs + 1]
  /\ dt' = IF kind \in Sampled THEN "sample" ELSE dt
  /\ timeline' = "stopped"
  /\ UNCHANGED <<scene, auto, cameras, disk, faults>>

reset_stage ==
  /\ op.kind \in RecordingKinds /\ op.pc = "opening"
  /\ scene' = BaseScene /\ op' = [op EXCEPT !.pc = "preparing"]
  /\ UNCHANGED <<timeline, auto, dt, cameras, disk, runs, faults>>

\* prepare_recording_stage restores the period when the stage does not open.
reset_stage_fails ==
  /\ op.kind \in RecordingKinds /\ op.pc = "opening" /\ Counted
  /\ restored_dt /\ op' = NoOp
  /\ UNCHANGED <<scene, timeline, auto, cameras, disk, runs>>

\* RecordingWriter makes the directory, which must not exist, and the recorder
\* attaches its cameras; the insertion film makes its recorder later.
MakesRecorder == disk[op.rec].made = 0
DemoRecorder ==
  /\ disk' = [disk EXCEPT ![op.rec].made = op.run]
  /\ cameras' = cameras \cup {op.run}

\* The variant is applied and the plug prepared before there is a recorder.
apply_variant ==
  scene' = [scene EXCEPT !.variant = IF op.kind \in {"demo", "action"} THEN "base"
                                     ELSE op.rec]

Prepare ==
  /\ op.pc = "preparing" /\ apply_variant
  /\ UNCHANGED <<timeline, auto, dt, runs, faults>>
  /\ \/ /\ op.kind = "insertion_film"
        /\ op' = [op EXCEPT !.pc = "warming"] /\ UNCHANGED <<cameras, disk>>
     \/ /\ op.kind # "insertion_film" /\ MakesRecorder
        /\ DemoRecorder /\ op' = [op EXCEPT !.pc = "warming"]

\* FileExistsError: the recording's directory is there already.
PrepareRefused ==
  /\ op.pc = "preparing" /\ op.kind # "insertion_film" /\ ~MakesRecorder
  /\ apply_variant /\ restored_dt /\ op' = NoOp
  /\ UNCHANGED <<timeline, auto, cameras, disk, runs, faults>>

\* Replicator is warmed, the physics view created, the timeline played and the
\* arm set to its start; late is the updates the hand will need at a waypoint; only the insertion film asks for automatic update.
Play ==
  /\ op.kind \in RecordingKinds /\ op.pc = "warming"
  /\ timeline' = "playing"
  /\ auto' = (auto \/ op.kind = "insertion_film")
  /\ dt' = IF op.kind \in Films THEN "film" ELSE dt
  /\ \E late \in IF op.kind \in {"demo", "action"} THEN 1..SettleUpdates ELSE {1} :
       op' = [op EXCEPT !.pc = "settling", !.late = late]
  /\ scene' = [scene EXCEPT !.attached = (op.kind = "insertion_film"),
                            !.arm = IF op.kind = "reset" THEN "at" ELSE "away"]
  /\ UNCHANGED <<cameras, disk, runs, faults>>

\* The first updates advance physics under the observer of the kind; films of
\* a rollout also compare the reset with the one they replay.
SettleReset ==
  /\ op.pc = "settling" /\ Advances
  /\ IF op.kind = "insertion_film"
     THEN MakesRecorder /\ DemoRecorder ELSE UNCHANGED <<cameras, disk>>
  /\ op' = [op EXCEPT !.pc = "filming", !.seg = 1]
  /\ timeline' = IF op.kind = "reset" THEN "paused" ELSE timeline
  /\ \/ UNCHANGED <<scene, faults>>
     \/ op.kind = "reset" /\ Counted /\ scene' = [scene EXCEPT !.plug = "moved"]
  /\ UNCHANGED <<auto, dt, runs>>

\* Physics does not advance, the observer raises, the reset is not the one to
\* replay, or the insertion film's directory exists.
SettleFails ==
  /\ op.pc = "settling"
  /\ \/ Counted
     \/ /\ ~Advances \/ (op.kind = "insertion_film" /\ ~MakesRecorder)
        /\ UNCHANGED faults
  /\ UNCHANGED disk /\ Raise

---------------------------------------------------------------------------
(* Frames                                                                    *)

Current == Script[op.kind][op.seg]
Counts(steps, stage) == Len(SelectSeq(steps, LAMBDA f : f.stage = stage))
minimum_stage_frames == IF op.kind = "demo" THEN Window ELSE 0

\* What happens to the plug between two segments; a plug that follows the hand
\* does not collide.
BeforeSegment ==
  IF op.waits > 0 THEN scene
  ELSE CASE Current.before = "attach" ->
                [scene EXCEPT !.attached = TRUE,
                              !.collides = @ /\ op.kind \in FixedJoint]
         [] Current.before = "detach" -> [scene EXCEPT !.attached = FALSE]
         [] Current.before = "collide" -> [scene EXCEPT !.collides = TRUE]
         [] OTHER -> scene

recording_snapshot(unsafe) ==
  [run |-> op.run, label |-> Current.label, stage |-> Current.stage,
   attached |-> BeforeSegment.attached, collides |-> BeforeSegment.collides,
   plug |-> scene.plug, unsafe |-> unsafe]

\* The images of frame Len(steps) of the recorder, then the step in memory.
add_step(frame) ==
  LET n == Len(op.steps) + 1
      old == disk[op.rec].frames
  IN disk' = [disk EXCEPT ![op.rec].frames =
                IF n <= Len(old) THEN [old EXCEPT ![n] = frame] ELSE Append(old, frame)]

Filming == op.pc = "filming" /\ op.seg <= Len(Script[op.kind])

\* _settle_at_target films every update until the hand is in tolerance;
\* _fill_stage_observations films until the stage has its window.
SegmentEnds(steps) ==
  CASE Current.frames = "one" -> TRUE
    [] Current.frames = "settle" -> op.waits + 1 = op.late
    [] Current.frames = "window" -> Counts(steps, Current.stage) >= minimum_stage_frames

CaptureFrame ==
  /\ Filming
  /\ ~(Current.frames = "window"
       /\ Counts(op.steps, Current.stage) >= minimum_stage_frames)
  /\ op.kind = "reset" \/ Advances
  /\ \E unsafe \in IF op.kind \in Sensed \ Observed THEN BOOLEAN ELSE {FALSE} :
       LET frame == recording_snapshot(unsafe)
           steps == Append(op.steps, frame)
       IN /\ add_step(frame)
          /\ scene' = BeforeSegment
          /\ IF unsafe THEN Counted ELSE UNCHANGED faults
          /\ IF unsafe /\ op.kind \in Films     \* ReplayRuntime.observe, after the frame
             THEN /\ cameras' = cameras \ {op.run} /\ op' = NoOp
                  /\ EndTimeline(op.kind, FALSE) /\ restored_dt
             ELSE /\ UNCHANGED <<timeline, dt, cameras>>
                  /\ op' = [op EXCEPT !.steps = steps,
                                      !.seg = IF SegmentEnds(steps) THEN @ + 1 ELSE @,
                                      !.waits = IF SegmentEnds(steps) THEN 0 ELSE @ + 1]
  /\ UNCHANGED <<auto, runs>>

FillIsComplete ==
  /\ Filming /\ Current.frames = "window"
  /\ Counts(op.steps, Current.stage) >= minimum_stage_frames
  /\ op' = [op EXCEPT !.seg = @ + 1, !.waits = 0]
  /\ UNCHANGED <<simulator, cameras, disk, runs, faults>>

\* The observer of the interval raises before the frame, the cameras deliver no
\* frame, physics does not advance, or the hand does not reach its target.
CaptureFails ==
  /\ Filming
  /\ IF op.kind # "reset" /\ ~Advances THEN UNCHANGED faults ELSE Counted
  /\ UNCHANGED disk /\ Raise

---------------------------------------------------------------------------
(* The end of an operation                                                   *)

Filmed == op.pc = "filming" /\ op.seg > Len(Script[op.kind])

\* UnknownStartResetEvidence.validation_failures, of the scene it was read from.
validation_failures(s) ==
  {f \in {"workspace", "sample_realization", "observed_arm", "plug_unattached"} :
     CASE f = "workspace" -> s.plug # "placed"
       [] f = "sample_realization" -> s.variant # op.rec
       [] f = "observed_arm" -> s.arm # "at"
       [] f = "plug_unattached" -> s.attached}

\* validate_sample_times and the validation of the reset come before the
\* finally clause; what does not pass leaves no manifest.
Complete ==
  /\ Filmed
  /\ op.kind = "reset" => validation_failures(scene) = {}
  /\ restored_dt /\ EndTimeline(op.kind, TRUE)
  /\ op' = [op EXCEPT !.pc = "steps"]
  /\ cameras' = cameras \ {op.run}
  /\ UNCHANGED <<scene, auto, disk, runs, faults>>

\* A reset that fails its validation leaves its evidence as a negative.
CompleteFails ==
  /\ Filmed
  /\ \/ op.kind \in Explorations /\ Counted /\ UNCHANGED disk
     \/ /\ op.kind = "reset" /\ validation_failures(scene) # {} /\ UNCHANGED faults
        /\ disk' = [disk EXCEPT ![op.rec].negative = TRUE]
  /\ Raise

\* RecordingWriter.finish: steps.jsonl, then manifest.json, both in place.
WriteSteps ==
  /\ op.pc = "steps"
  /\ disk' = [disk EXCEPT ![op.rec].steps = op.steps]
  /\ op' = [op EXCEPT !.pc = "manifest"]
  /\ UNCHANGED <<simulator, cameras, runs, faults>>
WriteManifest ==
  /\ op.pc = "manifest"
  /\ disk' = [disk EXCEPT ![op.rec].manifest = [kind |-> op.kind, frames |-> Len(op.steps)]]
  /\ op' = IF op.kind = "reset" THEN [op EXCEPT !.pc = "evidence"] ELSE NoOp
  /\ UNCHANGED <<simulator, cameras, runs, faults>>

\* authenticate_unknown_start_reset writes its evidence, then CAPTURE.json.
WriteEvidence ==
  /\ op.pc = "evidence"
  /\ disk' = [disk EXCEPT ![op.rec].evidence = TRUE]
  /\ op' = [op EXCEPT !.pc = "capture_file"]
  /\ UNCHANGED <<simulator, cameras, runs, faults>>
WriteCapture ==
  /\ op.pc = "capture_file"
  /\ disk' = [disk EXCEPT ![op.rec].capture = TRUE] /\ op' = NoOp
  /\ UNCHANGED <<simulator, cameras, runs, faults>>

\* CancelledError passes `except Exception`: the finally clauses run, the
\* recorder is not aborted and its cameras stay attached.
CancelJob ==
  /\ op.kind \in Jobs /\ op.pc \in {"opening", "warming", "settling", "filming"} /\ Counted
  /\ restored_dt /\ timeline' = "stopped" /\ op' = NoOp
  /\ UNCHANGED <<scene, auto, cameras, disk, runs>>

\* The simulator process ends and starts again; the files stay.
Crash ==
  /\ Counted
  /\ scene' = BaseScene /\ timeline' = "stopped" /\ auto' = TRUE /\ dt' = "app"
  /\ op' = NoOp /\ cameras' = {}
  /\ UNCHANGED <<disk, runs>>

RecordingStep ==
  \/ reset_stage \/ reset_stage_fails \/ Prepare \/ PrepareRefused \/ Play
  \/ SettleReset \/ SettleFails \/ CaptureFrame \/ FillIsComplete \/ CaptureFails
  \/ Complete \/ CompleteFails \/ WriteSteps \/ WriteManifest \/ WriteEvidence
  \/ WriteCapture \/ CancelJob

---------------------------------------------------------------------------
(* Properties                                                                *)

Labels == {"initial", "close.grasp", "attached.grasp",
           "motion.ready", "motion.pre_grasp", "motion.grasp", "motion.pre_insertion",
           "motion.insert", "motion.release",
           "settle.ready", "settle.pre_grasp", "settle.grasp", "settle.pre_insertion",
           "settle.insert", "settle.release",
           "complete.ready", "complete.pre_insertion", "complete.release"}
Frame == [run : 1..MaxRuns, label : Labels, stage : {Stages[i] : i \in 1..4},
          attached : BOOLEAN, collides : BOOLEAN, plug : {"placed", "moved"},
          unsafe : BOOLEAN]

\* The types of the simulator's mode, the operation and the files.
TypeOK ==
  /\ scene.variant \in Recordings \cup {"base"} /\ scene.arm \in {"at", "near", "away"}
  /\ scene.plug \in {"placed", "moved"} /\ scene.attached \in BOOLEAN
  /\ timeline \in {"stopped", "paused", "playing"} /\ auto \in BOOLEAN
  /\ dt \in {"app", "sample", "film"}
  /\ op.run \in 0..MaxRuns /\ cameras \subseteq 1..MaxRuns
  /\ runs \in 0..MaxRuns /\ faults \in 0..MaxFaults
  /\ \A r \in Recordings : \A i \in 1..Len(disk[r].frames) : disk[r].frames[i] \in Frame

StageIndex(stage) == CHOOSE i \in 1..4 : Stages[i] = stage
LastStage(kind) ==
  CASE kind \in {"demo", "action", "insertion", "contact"} -> 4
    [] kind \in {"grasp", "grasp_film", "insertion_film"} -> 2
    [] kind \in {"domain", "candidate_film", "reset"} -> 1

\* The claim readers of a recording make: whoever finds a manifest.json finds
\* every step and image it counts, all of one run; the stages in order up to the
\* kind's last one; the plug held exactly from the grasp to the release; no
\* frame of a contact beyond the limit; and in a contact insertion the
\* connector's collisions on while it is aligned and inserted.
RecordingIsWhole ==
  \A r \in Recordings : disk[r].manifest # NoManifest =>
    LET steps == disk[r].steps
        kind == disk[r].manifest.kind
        at(i) == StageIndex(steps[i].stage)
        released(i) == kind \in {"demo", "action"} /\ i = Len(steps)
    IN /\ Len(steps) = disk[r].manifest.frames /\ steps = disk[r].frames
       /\ \A i \in 1..Len(steps) :
            /\ steps[i].run = disk[r].made /\ ~steps[i].unsafe
            /\ i > 1 => at(i - 1) <= at(i)
            /\ steps[i].attached <=> (at(i) >= 2 /\ ~released(i))
            /\ kind = "contact" /\ at(i) >= 3 => steps[i].collides
       /\ at(Len(steps)) = LastStage(kind)

\* Between operations nothing moves: physics does not advance on its own and the
\* rendering period is the application's, however the last operation ended.
IdleIsStill == op = NoOp => ~Advances /\ dt = "app"

=============================================================================
