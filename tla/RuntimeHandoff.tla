-------------------------- MODULE RuntimeHandoff --------------------------
(***************************************************************************)
(* The live runtime and who may move the robot through it.  The resident   *)
(* server keeps one binding (sim/isaac_control_runtime.py): the session    *)
(* that was bound last and the stage object it was bound on.  Captures     *)
(* bind their session (sim/isaac_control_capture.py, _followup.py), a      *)
(* trial takes the binding of the safety evaluation it executes            *)
(* (sim/isaac_insertion_trial.py), a retry gives it back to the            *)
(* predecessor, a reload of the code carries it over                       *)
(* (sim/runtime_loader.py), and opening the stage makes it useless.        *)
(*                                                                         *)
(* An insertion session is only ever touched through its binding and after *)
(* a continuity check, which compares the live state to the recorded one.  *)
(* Equal states are no identity: another lineage may have left the robot   *)
(* in a state that looks the same.  So the model keeps two things apart:   *)
(* pose, what a continuity check sees, and at, the session whose capture   *)
(* or motion really put the robot there (None: nothing a session can tell).*)
(*                                                                         *)
(* One simulator operation runs at a time (RecordingJobs).  Kinds of       *)
(* sessions: "free" (another task than insertion), "grasp" (direct control *)
(* on the insertion geometry), "safety" (an evaluation without motion) and *)
(* "trial" (an insertion motion).                                          *)
(***************************************************************************)
EXTENDS Naturals

CONSTANTS
  Sessions,
  Poses,          \* live states a capture may find
  Astray,         \* any other: disturbed, amid a motion, or a stopped stage
  RuntimeOwners,  \* sessions an acquisition handoff names besides its source
  MaxStages,      \* bound: how often the stage is opened
  None

ASSUME HandoffAssumption ==
  /\ Astray \notin Poses
  /\ None \notin Sessions /\ None \notin [session : Sessions, stage : Nat]
  /\ RuntimeOwners \subseteq Sessions
  /\ MaxStages \in Nat

VARIABLES
  session,        \* the files of each session
  stage,          \* the stage object now open
  binding,        \* _live_runtime: [session, stage] or None
  robot,          \* [at, pose]
  op              \* the simulator operation under way

vars == <<session, stage, binding, robot, op>>

Kinds == {"free", "grasp", "safety", "trial"}
Results == {"none", "blocked", "applied", "rolled_back", "rollback_failed"}

Absent ==
  [files |-> "absent", kind |-> "free", previous |-> None, source |-> None,
   pose |-> Astray, ground |-> None, stage |-> 0, safety |-> "none",
   claimed |-> FALSE, result |-> "none", end |-> Astray, moved |-> FALSE]
Idle == [name |-> "idle", session |-> None, previous |-> None]
Lost == [at |-> None, pose |-> Astray]

Init ==
  /\ session = [s \in Sessions |-> Absent]
  /\ stage = 1 /\ binding = None /\ robot = Lost /\ op = Idle

Exists(s)    == session[s].files # "absent"
Insertion(s) == session[s].kind # "free"
bound(s)     == [session |-> s, stage |-> stage]

\* Mutant: any binding on the open stage will do.
live_runtime_for_AnySession(s) == binding # None /\ binding.stage = stage

live_runtime_for(s) == binding = bound(s)

\* An applied step of some kind; two may be followed by an evaluation, and a
\* grasp by another grasp.
Applied(p, kind) == /\ session[p].files = "answered" /\ session[p].kind = kind
                    /\ session[p].result = "applied"
InsertionFollowupLineage(p) == Applied(p, "trial")
GraspToInsertionLineage(p)  == Applied(p, "grasp")
_contact_grasp_followup_policy(p) == Applied(p, "grasp")

\* session.write_capture: what the live state is now becomes the session's.
Captured(s, kind, p) ==
  [session EXCEPT ![s] =
     [Absent EXCEPT !.files = IF kind \in {"safety", "trial"} THEN "captured" ELSE "answered",
                    !.kind = kind, !.previous = p, !.pose = robot.pose,
                    !.ground = robot.at, !.stage = stage]]
Spoiled(s) == [session EXCEPT ![s] = [Absent EXCEPT !.files = "spoiled"]]

(***************************************************************************)
(* Opening the stage: every capture that starts from the reset, and every  *)
(* recording and demonstration, which bind nothing.                        *)
(***************************************************************************)
\* reset_stage stops the timeline, which throws the robot back, and only then
\* opens the stage: where that fails, the old stage and the binding stay.
Open(next) ==
  /\ robot' = Lost
  /\ \/ /\ stage < MaxStages /\ stage' = stage + 1 /\ op' = next
     \/ /\ stage' = stage /\ op' = Idle

BeginCapture(s) ==
  /\ op = Idle /\ ~Exists(s)
  /\ Open([name |-> "replay", session |-> s, previous |-> None])
  /\ UNCHANGED <<session, binding>>

OtherReset ==
  /\ op = Idle /\ Open(Idle)
  /\ UNCHANGED <<session, binding>>

\* Wherever the replay of the recorded context leaves the robot.
Replayed(s) == [at : {s}, pose : Poses]

\* The state that the replay ends in is captured.
CaptureReset(s, kind) ==
  /\ op.name = "replay" /\ op.session = s
  /\ \E rest \in Replayed(s) :
       /\ robot' = rest
       /\ session' = [Captured(s, kind, None) EXCEPT ![s].pose = rest.pose,
                                                     ![s].ground = rest.at]
  /\ binding' = bound(s) /\ op' = Idle
  /\ UNCHANGED stage

\* It fails: before the state is read the timeline is stopped, after that the
\* robot stays where the replay put it.
CaptureResetFails(s) ==
  /\ op.name = "replay" /\ op.session = s
  /\ robot' \in {Lost} \cup Replayed(s)
  /\ session' \in {session, Spoiled(s)} /\ op' = Idle
  /\ UNCHANGED <<stage, binding>>

(***************************************************************************)
(* Follow-ups: the robot is captured where the previous session left it.   *)
(***************************************************************************)
\* Which runtime each dispatch of capture_followup_observation wants.  A grasp
\* follow-up may fill the directory that a failed capture left.
InsertionFollowup(s, kind, p) == /\ kind = "safety" /\ InsertionFollowupLineage(p)
                                 /\ ~Exists(s) /\ live_runtime_for(p)
Transition(s, kind, p)        == /\ kind = "safety" /\ GraspToInsertionLineage(p)
                                 /\ ~Exists(s) /\ live_runtime_for(p)
GraspFollowup(s, kind, p)     == /\ kind = "grasp" /\ _contact_grasp_followup_policy(p)
                                 /\ live_runtime_for(p)
GenericFollowup(s, kind, p)   == /\ kind = "free" /\ Applied(p, "free")
                                 /\ ~Exists(s)

BeginFollowup(s, kind, p) ==
  /\ op = Idle /\ session[s].files \in {"absent", "spoiled"}
  /\ \/ InsertionFollowup(s, kind, p) \/ Transition(s, kind, p)
     \/ GraspFollowup(s, kind, p) \/ GenericFollowup(s, kind, p)
  /\ op' = [name |-> kind, session |-> s, previous |-> p]
  /\ UNCHANGED <<session, stage, binding, robot>>

\* The pose a blocked or rolled back grasp rests in is the one it was read in.
_contact_grasp_rollback_handoff_state(p) ==
  IF session[p].result = "applied" THEN session[p].end ELSE session[p].pose

\* The source that the authority names: a grasp that came to its result.
HandoffSource(p) == session[p].kind = "grasp" /\ session[p].result # "none"

BeginHandoff(s, p) ==
  /\ op = Idle /\ ~Exists(s) /\ HandoffSource(p)
  /\ \E r \in {p} \cup RuntimeOwners : live_runtime_for(r)
  /\ op' = [name |-> "handoff", session |-> s, previous |-> p]
  /\ UNCHANGED <<session, stage, binding, robot>>

\* The authority of the handoff is written between the capture and the binding:
\* when that fails, the captured session never gets the runtime.
CaptureHandoff ==
  /\ op.name = "handoff"
  /\ robot.pose = _contact_grasp_rollback_handoff_state(op.previous)
  /\ session' = Captured(op.session, "grasp", op.previous)
  /\ binding' \in {binding, bound(op.session)} /\ op' = Idle
  /\ UNCHANGED <<stage, robot>>

validate_followup_continuity(p) == robot.pose = session[p].end

\* write_capture and bind_live_runtime follow each other without an await.
CaptureFollowup ==
  /\ op.name \in {"free", "grasp", "safety"}
  /\ validate_followup_continuity(op.previous)
  /\ session' = Captured(op.session, op.name, op.previous)
  /\ binding' = bound(op.session) /\ op' = Idle
  /\ UNCHANGED <<stage, robot>>

\* While the simulation is resumed the robot may be pushed away.  A failed
\* operation pauses it and keeps the binding.
Pushed == robot' \in {robot, Lost}

FollowupFails ==
  /\ op.name \in {"free", "grasp", "safety", "handoff"}
  /\ Pushed /\ session' \in {session, Spoiled(op.session)} /\ op' = Idle
  /\ UNCHANGED <<stage, binding>>

(***************************************************************************)
(* From a safety evaluation to the trial that executes it.                 *)
(***************************************************************************)
EvaluateSafety(s, verdict) ==
  /\ op = Idle /\ session[s].files = "captured" /\ session[s].kind = "safety"
  /\ session[s].safety = "none" /\ live_runtime_for(s)
  /\ \/ /\ robot.pose = session[s].pose
        /\ session' = [session EXCEPT ![s].safety = verdict]
        /\ UNCHANGED robot
     \/ Pushed /\ UNCHANGED session
  /\ UNCHANGED <<stage, binding, op>>

\* The evaluations that a trial may be bound to; how often they were used
\* before is not asked.
Source(s) == session[s].kind = "safety" /\ session[s].safety = "passed"

\* _persist_bound_insertion_trial_response: the capture comes first, then the
\* binding to the source, then the response; a write that fails ends it there.
Persisted(e, s, trial) ==
  \E files \in {"captured", "answered"}, source \in {None, s} :
    /\ files = "answered" => source = s
    /\ session' = [session EXCEPT ![e] = [trial EXCEPT !.files = files, !.source = source]]

\* A follow-up trial is a copy of its source and takes its runtime over, which a
\* capture without a response does not.
persist_insertion_followup_response(e, s) ==
  /\ op = Idle /\ ~Exists(e) /\ Source(s) /\ session[s].previous # None
  /\ live_runtime_for(s)
  /\ Persisted(e, s, [session[s] EXCEPT !.kind = "trial", !.safety = "none"])
  /\ binding' = IF session'[e].files = "answered" THEN bound(e) ELSE binding
  /\ UNCHANGED <<stage, robot, op>>

\* A trial with a capture of its own, from its own reset or left by a failed
\* follow-up, is bound to a source that looked at the same state.
persist_insertion_trial_response(e, s) ==
  /\ op = Idle /\ Source(s)
  /\ session[e].kind = "trial" /\ session[e].files = "captured" /\ session[e].source = None
  /\ session[e].previous = session[s].previous /\ session[e].pose = session[s].pose
  /\ Persisted(e, s, session[e])
  /\ UNCHANGED <<stage, binding, robot, op>>

(***************************************************************************)
(* Motion: sim/isaac_control_execution.py.                                 *)
(***************************************************************************)
\* Mutant: a lost insertion runtime is made anew too.
Apply_Rebinds(s) ==
  /\ op = Idle /\ session[s].files = "answered" /\ session[s].kind # "safety"
  /\ ~session[s].claimed
  /\ session' = [session EXCEPT ![s].claimed = TRUE]
  /\ binding' = bound(s)
  /\ op' = [name |-> "judge", session |-> s, previous |-> None]
  /\ UNCHANGED <<stage, robot>>

\* The claim comes first: a lost runtime spends the session.  Outside the
\* insertion task a lost runtime is made anew and bound.
Apply(s) ==
  /\ op = Idle /\ session[s].files = "answered" /\ session[s].kind # "safety"
  /\ ~session[s].claimed
  /\ session' = [session EXCEPT ![s].claimed = TRUE]
  /\ IF Insertion(s) /\ ~live_runtime_for(s)
     THEN UNCHANGED <<binding, op>>
     ELSE /\ binding' = bound(s)
          /\ op' = [name |-> "judge", session |-> s, previous |-> None]
  /\ UNCHANGED <<stage, robot>>

\* A state that is not the captured one ends an insertion session without a
\* result and blocks another one; so does any refused candidate.
Refuse ==
  LET s == op.session
  IN /\ op.name = "judge"
     /\ \/ Pushed /\ UNCHANGED session
        \/ /\ Insertion(s) => robot.pose = session[s].pose
           /\ session' = [session EXCEPT ![s].result = "blocked"]
           /\ UNCHANGED robot
     /\ op' = Idle
     /\ UNCHANGED <<stage, binding>>

Move ==
  LET s == op.session
  IN /\ op.name = "judge" /\ robot.pose = session[s].pose
     /\ session' = [session EXCEPT ![s].moved = TRUE]
     /\ robot' = [robot EXCEPT !.pose = Astray]
     /\ op' = [op EXCEPT !.name = "move"]
     /\ UNCHANGED <<stage, binding>>

\* How a motion ends, and whether its result could be written.
EndMove(result) ==
  LET s == op.session
      written == {"none", result}
  IN /\ op.name = "move"
     /\ \/ /\ result = "applied"
           /\ \E pose \in Poses, r \in written :
                /\ robot' = [at |-> s, pose |-> pose]
                /\ session' = [session EXCEPT ![s] = [@ EXCEPT !.result = r, !.end = pose]]
        \/ /\ result = "rolled_back"
           /\ robot' = [robot EXCEPT !.pose = session[s].pose]
           /\ \E r \in written : session' = [session EXCEPT ![s].result = r]
        \/ /\ result = "rollback_failed"
           /\ robot' = Lost
           /\ \E r \in written : session' = [session EXCEPT ![s].result = r]
     /\ op' = Idle
     /\ UNCHANGED <<stage, binding>>

(***************************************************************************)
(* Retries: the binding goes back to the predecessor, nothing is moved.    *)
(***************************************************************************)
\* Neither claimed nor executed: the failed evaluation or its predecessor may
\* hold the binding.
restore_insertion_no_actuation_retry(p, f) ==
  /\ op = Idle /\ InsertionFollowupLineage(p)
  /\ session[f].kind = "safety" /\ session[f].previous = p
  /\ session[f].safety = "failed" /\ ~session[f].claimed
  /\ live_runtime_for(f) \/ live_runtime_for(p)
  /\ binding' = bound(p)
  /\ UNCHANGED <<session, stage, robot, op>>

\* Only a completed rollback puts the robot back: the trial that was rolled back
\* returns the runtime to the step it followed.
restore_insertion_rollback_retry(p, e) ==
  /\ op = Idle /\ InsertionFollowupLineage(p)
  /\ session[e].kind = "trial" /\ session[e].previous = p
  /\ session[e].result = "rolled_back"
  /\ live_runtime_for(e)
  /\ binding' = bound(p)
  /\ UNCHANGED <<session, stage, robot, op>>

\* Mutant: a trial that was not rolled back can be retried too.
restore_grasp_transition_retry_AnyResult(p, e) ==
  /\ op = Idle /\ GraspToInsertionLineage(p)
  /\ session[e].kind = "trial" /\ session[e].previous = p
  /\ session[e].result # "none"
  /\ live_runtime_for(e)
  /\ binding' = bound(p)
  /\ UNCHANGED <<session, stage, robot, op>>

\* The same for the first trial after a grasp.
restore_grasp_transition_retry(p, e) ==
  /\ op = Idle /\ GraspToInsertionLineage(p)
  /\ session[e].kind = "trial" /\ session[e].previous = p
  /\ session[e].result = "rolled_back"
  /\ live_runtime_for(e)
  /\ binding' = bound(p)
  /\ UNCHANGED <<session, stage, robot, op>>

(***************************************************************************)
(* The code may be reloaded between two calls, never during an operation,  *)
(* and the server may go down.                                             *)
(***************************************************************************)
\* The handles of the bound runtime are wrapped in objects of the new code, for
\* the session and stage they had, unless the module that keeps them fails to
\* load or their kind is unknown to it.
restore_live_runtime_handoff == binding' \in {binding, None}

Reload ==
  /\ op = Idle
  /\ restore_live_runtime_handoff
  /\ UNCHANGED <<session, stage, robot, op>>

Restart ==
  /\ stage < MaxStages /\ stage' = stage + 1
  /\ binding' = None /\ robot' = Lost /\ op' = Idle
  /\ UNCHANGED session

Capture  == \E s \in Sessions :
              \/ BeginCapture(s) \/ CaptureResetFails(s)
              \/ \E kind \in Kinds : CaptureReset(s, kind)
Followup == \/ \E s, p \in Sessions : \/ \E kind \in Kinds : BeginFollowup(s, kind, p)
                                      \/ BeginHandoff(s, p)
            \/ CaptureFollowup \/ CaptureHandoff \/ FollowupFails
Trial    == \/ \E s \in Sessions, verdict \in {"passed", "failed"} : EvaluateSafety(s, verdict)
            \/ \E e, s \in Sessions : \/ persist_insertion_followup_response(e, s)
                                    \/ persist_insertion_trial_response(e, s)
Motion   == \/ \E s \in Sessions : Apply(s)
            \/ Refuse \/ Move
            \/ \E result \in Results : EndMove(result)
Retry    == \E p, f \in Sessions :
              \/ restore_insertion_no_actuation_retry(p, f)
              \/ restore_insertion_rollback_retry(p, f)
              \/ restore_grasp_transition_retry(p, f)

Next == Capture \/ Followup \/ Trial \/ Motion \/ Retry \/ OtherReset \/ Reload \/ Restart

Spec == Init /\ [][Next]_vars

-----------------------------------------------------------------------------
(***************************************************************************)
(* Properties                                                              *)
(***************************************************************************)
\* Every variable has the shape the code gives it.
TypeOK ==
  /\ session \in [Sessions ->
       [files : {"absent", "spoiled", "captured", "answered"}, kind : Kinds,
        previous : Sessions \cup {None}, source : Sessions \cup {None},
        pose : Poses \cup {Astray}, ground : Sessions \cup {None}, stage : Nat,
        safety : {"none", "passed", "failed"}, claimed : BOOLEAN,
        result : Results, end : Poses \cup {Astray}, moved : BOOLEAN]]
  /\ stage \in Nat
  /\ binding \in [session : Sessions, stage : Nat] \cup {None}
  /\ robot \in [at : Sessions \cup {None}, pose : Poses \cup {Astray}]
  /\ op \in [name : {"idle", "replay", "free", "grasp", "safety", "handoff",
                     "judge", "move"},
             session : Sessions \cup {None}, previous : Sessions \cup {None}]

\* An insertion session moves the robot only from the very state it was
\* captured in: on the same stage and with no capture, motion or disturbance in
\* between, whichever sessions held the runtime meanwhile.
MotionIsGrounded ==
  LET s == op.session
  IN op.name = "move" /\ Insertion(s) =>
       stage = session[s].stage /\ robot.at = session[s].ground

\* A safety evaluation of an applied step looks at the end of that step, not at
\* a state that another session left behind, through any number of retries.
FollowupStartsAtEnd ==
  \A s \in Sessions :
    /\ session[s].kind = "safety" /\ session[s].previous # None
    => session[s].ground = session[s].previous

\* A safety evaluation may be executed again, but never on the stage of an
\* earlier execution: of the follow-up trials that share its state at most one
\* reaches the robot, and every other motion starts from a reset of its own.
OneMotionPerReset ==
  \A e, f \in Sessions :
    /\ session[e].moved /\ session[f].moved
    /\ session[e].source # None /\ session[e].source = session[f].source
    /\ session[e].stage = session[f].stage
    => e = f
=============================================================================
