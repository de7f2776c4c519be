-------------------------- MODULE ControlExecution --------------------------
(***************************************************************************)
(* sim/isaac_control_execution.py, apply_control_response: what one        *)
(* execution does to the robot.  The claimed session is synchronized with  *)
(* the live simulator, its proposal is projected and gated, the first      *)
(* action is commanded, sampled, settled and photographed, and the outcome *)
(* is kept or rolled back, recorded, and the timeline paused.              *)
(*                                                                         *)
(* The code runs on the loop of the simulator: physics moves only in its   *)
(* awaits, one application update each, and only while the timeline plays. *)
(* What physics does in an update is arbitrary.  The arm is abstracted to  *)
(* the settlement tolerances it is within (of the measured start, of the   *)
(* commanded goal: of both, when the command is tiny).                     *)
(***************************************************************************)
EXTENDS Naturals

CONSTANTS
  MaxUpdates,        \* bound of each sampling, settling and rollback loop
  RequiredSamples,   \* consecutive passes that count as settled
  None

ASSUME ExecutionAssumption ==
  /\ MaxUpdates \in Nat
  /\ RequiredSamples \in Nat \ {0}
  /\ None \notin {"action", "blocked", "applied", "rolled_back", "rollback_failed"}
  /\ None \notin [kind : {"apply"}, session : {"session"}, proposal : {"action"},
                  moved : BOOLEAN]
  /\ None \notin [tracked : BOOLEAN, contact : BOOLEAN, attached : BOOLEAN,
                  progressed : BOOLEAN]
  /\ None \notin {"tracking", "contact", "attachment", "progress", "execution"}
  /\ None \notin {"attachment_changed", "safety_interlock", "settlement_timeout",
                  "drive_command_rejected"}

\* A session without insertion contact; a contact grasp; a candidate and a
\* trial of an insertion.
Kinds    == {"free", "grasp", "candidate", "trial"}
Statuses == {"blocked", "applied", "rolled_back", "rollback_failed"}

VARIABLES
  session,     \* kind, and whether the plug was attached when it was captured
  pc,          \* where apply_control_response is
  timeline,    \* "pausing": asked to pause, is_playing() until an update
  arm,         \* the targets whose settlement tolerance the arm is in
  drive,       \* the drive target: the captured one, the start, or the goal
  attached,    \* PlugAttachment.attached
  unsafe,      \* collision or force above the limit at the contact sensors
  current,     \* no update since the state the gate judges was read
  updates,     \* of the current loop
  streak,      \* consecutive passing samples of the current loop
  tripped,     \* the interlock raised
  moves,       \* how often the goal was commanded
  status,      \* outcome so far
  result,      \* result.json
  evidence     \* what the result carries: the post-action evidence, and the
               \* typed reason why a trial could not be rolled back

robot  == <<arm, attached, unsafe>>
loop   == <<updates, streak>>
record == <<moves, status, result, evidence>>
vars   == <<session, pc, timeline, robot, drive, current, loop, tripped, record>>

Interlocked == session.kind # "free"    \* contact_insertion_execution

\* What was measured after the action: joints and task space within their
\* tolerances, the contact and the plug, the progress towards the target.
PostActionEvidence ==
  [tracked : BOOLEAN, contact : BOOLEAN, attached : BOOLEAN, progressed : BOOLEAN]

InsertionTrialRollbackFailureReasons ==
  {"attachment_changed", "safety_interlock", "settlement_timeout", "drive_command_rejected"}

Starts == {{"start"}, {"start", "goal"}}

Init ==
  /\ session \in [kind : Kinds, attached : BOOLEAN]
  /\ pc = "captured"
  /\ timeline = "paused"
  /\ arm \in Starts /\ drive = "held" /\ attached = session.attached /\ unsafe \in BOOLEAN
  /\ current = FALSE
  /\ updates = 0 /\ streak = 0
  /\ tripped = FALSE /\ moves = 0 /\ status = None /\ result = None
  /\ evidence = [post |-> None, cause |-> None]

(***************************************************************************)
(* The simulator.                                                          *)
(***************************************************************************)
\* await next_update_async(): a requested pause is processed or still deferred.
Update ==
  IF timeline = "paused" THEN UNCHANGED <<timeline, robot, current>>
  ELSE /\ arm' \in SUBSET {"start", "goal"}
       /\ unsafe' \in BOOLEAN
       /\ attached' \in {attached, FALSE}
       /\ timeline' \in IF timeline = "pausing" THEN {"pausing", "paused"} ELSE {"playing"}
       /\ current' = FALSE

\* resume_live_simulation does not play a timeline that is_playing().
Resumed == IF timeline = "paused" THEN "playing" ELSE timeline

\* What LiveInsertionInterlock.observe would raise on after this update.
Tripping == Interlocked /\ (unsafe' \/ attached' # session.attached)

(***************************************************************************)
(* Claim and synchronization.                                              *)
(***************************************************************************)
Claim ==
  /\ pc = "captured"
  /\ pc' = "claimed"
  /\ UNCHANGED <<session, timeline, robot, drive, current, loop, tripped, record>>

\* live_runtime_for: the claim is spent, nothing was resumed.
RuntimeLost ==
  /\ pc = "claimed"
  /\ Interlocked
  /\ pc' = "closed"
  /\ UNCHANGED <<session, timeline, robot, drive, current, loop, tripped, record>>

\* Resume, one update under the interlock, read: what is read is the start, and
\* it stays live for the execution, unless contact or a check raised.
SynchronizedRead(continues) ==
  /\ pc = "claimed"
  /\ timeline' = "playing"
  /\ arm' \in Starts
  /\ unsafe' \in BOOLEAN
  /\ attached' \in {attached, FALSE}
  /\ \/ continues /\ current' = TRUE /\ pc' = "judging"
     \/ current' = FALSE /\ pc' = "closing"
  /\ UNCHANGED <<session, drive, loop, tripped, record>>

\* An insertion is free of contact during the update, and its state then is the
\* captured one.
SynchronizeInsertion ==
  /\ session.kind \in {"candidate", "trial"}
  /\ SynchronizedRead(~unsafe' /\ attached' = session.attached)

\* The interlock of a grasp watches the plug as well; its state is compared with
\* the captured drive target, which must still be the active one.
SynchronizeGrasp ==
  /\ session.kind = "grasp"
  /\ SynchronizedRead(~Tripping /\ drive = "held")

\* synchronized_actual_command: a stale articulation is refreshed by one update,
\* and the pause after it may be deferred.
SynchronizeFree ==
  /\ pc = "claimed"
  /\ ~Interlocked
  /\ arm' \in Starts
  /\ \/ UNCHANGED <<timeline, unsafe, attached>>
     \/ /\ timeline' \in {"paused", "pausing"}
        /\ unsafe' \in BOOLEAN
        /\ attached' \in {attached, FALSE}
  /\ \/ current' = TRUE /\ pc' = "judging"
     \/ current' = FALSE /\ pc' = "closed"
  /\ UNCHANGED <<session, drive, loop, tripped, record>>

(***************************************************************************)
(* Projection and gate; no await up to the command.                        *)
(***************************************************************************)
\* No scale passes, the observation or the response aged, the forward drive
\* target is invalid.
Block ==
  /\ pc = "judging"
  /\ status' = "blocked"
  /\ pc' = "writing"
  /\ UNCHANGED <<session, timeline, robot, drive, current, loop, tripped, moves, result, evidence>>

\* Ages, bounds, limits, drift and speed may refuse an action; contact does.
GateMayPass == ~unsafe

\* Mutant: the contact reading is not part of the decision.
Pass_AnyContact ==
  /\ pc = "judging"
  /\ pc' = "moving"
  /\ UNCHANGED <<session, timeline, robot, drive, current, loop, tripped, record>>

Pass ==
  /\ pc = "judging"
  /\ GateMayPass
  /\ pc' = "moving"
  /\ UNCHANGED <<session, timeline, robot, drive, current, loop, tripped, record>>

JudgeRaises ==
  /\ pc = "judging"
  /\ pc' = "closing"
  /\ UNCHANGED <<session, timeline, robot, drive, current, loop, tripped, record>>

(***************************************************************************)
(* Execution.                                                              *)
(***************************************************************************)
\* except Exception: what was raised is rolled back.
Raise ==
  /\ status' = "rolled_back"
  /\ pc' = "restoring"
  /\ updates' = 0 /\ streak' = 0

\* move_joint_command, frame_count = 1.
Move ==
  /\ pc = "moving"
  /\ timeline' = Resumed
  /\ drive' = "goal"
  /\ moves' = moves + 1
  /\ pc' = "sampling"
  /\ UNCHANGED <<session, robot, current, loop, tripped, status, result, evidence>>

MoveRaises ==
  /\ pc = "moving"
  /\ timeline' = Resumed
  /\ Raise
  /\ UNCHANGED <<session, robot, drive, current, tripped, moves, result, evidence>>

\* _advance_sample: updates until the control period has passed in the
\* simulation, which does not advance while it is paused.
Sample(elapsed) ==
  /\ pc = "sampling"
  /\ updates < MaxUpdates
  /\ elapsed => timeline = "playing"
  /\ Update
  /\ tripped' = Tripping
  /\ IF Tripping THEN Raise
     ELSE /\ pc' = IF elapsed THEN "settling" ELSE "sampling"
          /\ updates' = IF elapsed THEN 0 ELSE updates + 1
          /\ UNCHANGED <<streak, status>>
  /\ UNCHANGED <<session, drive, moves, result, evidence>>

\* What a settling loop makes of the arm: joints alone, or joints with the
\* task-space completion of the command; a trial looks only after an update.
Passes(sample) ==
  /\ sample => "goal" \in arm
  /\ session.kind \in {"free", "candidate"} => sample = ("goal" \in arm)
  /\ session.kind = "trial" /\ updates = 0 => ~sample
Required == IF session.kind \in {"grasp", "trial"} THEN RequiredSamples ELSE 1

\* settle_joint_command, settle_contact_grasp_command, settle_tracked_joint_command.
Settle(sample) ==
  /\ pc = "settling"
  /\ Passes(sample)
  /\ IF sample /\ streak + 1 >= Required
     THEN /\ pc' = "framing"
          /\ updates' = 0 /\ streak' = 0
          /\ UNCHANGED <<timeline, robot, current, tripped, status>>
     ELSE /\ updates < MaxUpdates
          /\ Update
          /\ tripped' = Tripping
          /\ IF Tripping THEN Raise
             ELSE /\ updates' = updates + 1
                  /\ streak' = IF sample THEN streak + 1 ELSE 0
                  /\ UNCHANGED <<pc, status>>
  /\ UNCHANGED <<session, drive, moves, result, evidence>>

\* capture_camera_frame, then the telemetry of its last update.
Frame(complete) ==
  /\ pc = "framing"
  /\ updates < MaxUpdates
  /\ Update
  /\ tripped' = Tripping
  /\ IF Tripping THEN Raise
     ELSE /\ pc' = IF complete THEN "assessing" ELSE "framing"
          /\ updates' = IF complete THEN 0 ELSE updates + 1
          /\ UNCHANGED <<streak, status>>
  /\ UNCHANGED <<session, drive, moves, result, evidence>>

\* Loops that run out, settling without progress, sensors without a reading.
ExecutionRaises ==
  /\ pc \in {"sampling", "settling", "framing"}
  /\ Raise
  /\ UNCHANGED <<session, timeline, robot, drive, current, tripped, moves, result, evidence>>

\* Mutant: joints and task space are compared, the contact evidence is not.
rollback_reason_AnyContact(post) ==
  IF ~post.tracked THEN "tracking"
  ELSE IF session.kind = "trial" /\ post.attached # session.attached THEN "attachment"
  ELSE IF session.kind = "trial" /\ ~post.progressed THEN "progress" ELSE None

\* The first criterion an action misses; a trial must also keep its plug and
\* come closer to its target.
rollback_reason(post) ==
  IF ~post.tracked THEN "tracking"
  ELSE IF post.contact THEN "contact"
  ELSE IF session.kind = "trial" /\ post.attached # session.attached THEN "attachment"
  ELSE IF session.kind = "trial" /\ ~post.progressed THEN "progress" ELSE None

\* Without an exception the post-action evidence decides.  A grasp it verifies
\* is attached first, so an exception after that is rolled back with the plug in
\* the hand.
Assess(tracked, acquired, progressed, raised) ==
  /\ pc = "assessing"
  /\ tracked => "goal" \in arm
  /\ attached' = (attached \/ (session.kind # "trial" /\ acquired /\ tracked /\ ~unsafe))
  /\ LET post == [tracked |-> tracked, contact |-> unsafe, attached |-> attached',
                  progressed |-> progressed]
     IN  /\ evidence' = IF raised THEN evidence ELSE [evidence EXCEPT !.post = post]
         /\ IF ~raised /\ rollback_reason(post) = None
            THEN status' = "applied" /\ pc' = "writing" /\ UNCHANGED loop
            ELSE Raise
  /\ UNCHANGED <<session, timeline, arm, unsafe, drive, current, tripped, moves, result>>

(***************************************************************************)
(* rollback_control_command, rollback_insertion_trial_command.             *)
(***************************************************************************)
\* Why the rollback of a trial failed: the first of these that its evidence
\* shows; an error with none of them leaves the failure without a reason.
InsertionTrialRollbackFailureReason(problem) ==
  IF attached' # session.attached THEN "attachment_changed"
  ELSE IF tripped' THEN "safety_interlock" ELSE problem

\* The reason is recorded for a trial, unless the robot cannot be read either.
RollbackFailed(problem) ==
  /\ status' = "rollback_failed"
  /\ pc' = "writing"
  /\ updates' = 0 /\ streak' = 0
  /\ \/ UNCHANGED evidence
     \/ /\ session.kind = "trial"
        /\ evidence' = [evidence EXCEPT !.cause = InsertionTrialRollbackFailureReason(problem)]

\* Mutant: an action that failed without contact is tried once more.
Restore_Retries ==
  /\ pc = "restoring"
  /\ drive' = IF session.kind = "trial" THEN "held" ELSE "start"
  /\ pc' = IF tripped THEN "rolling" ELSE "moving"
  /\ UNCHANGED <<session, timeline, robot, current, loop, tripped, record>>

\* A trial holds a load: its reset is reached through the captured drive target.
Restore ==
  /\ pc = "restoring"
  /\ drive' = IF session.kind = "trial" THEN "held" ELSE "start"
  /\ pc' = "rolling"
  /\ UNCHANGED <<session, timeline, robot, current, loop, tripped, record>>

RestoreRaises ==
  /\ pc = "restoring"
  /\ UNCHANGED <<session, timeline, robot, drive, current, tripped, moves, result>>
  /\ RollbackFailed("drive_command_rejected")

\* Mutant: the rollback waits for its settlement however long it takes.
Roll_Unbounded ==
  /\ pc = "rolling"
  /\ Update
  /\ tripped' = (tripped \/ Tripping)
  /\ CASE Tripping \/ attached' # session.attached -> RollbackFailed(None)
       [] ~Tripping /\ attached' = session.attached /\ "start" \in arm' /\ streak + 1 >= RequiredSamples ->
            pc' = "writing" /\ updates' = 0 /\ streak' = 0 /\ UNCHANGED <<status, evidence>>
       [] OTHER ->
            /\ streak' = IF "start" \in arm' THEN streak + 1 ELSE 0
            /\ UNCHANGED <<pc, updates, status, evidence>>
  /\ UNCHANGED <<session, drive, moves, result>>

Roll ==
  /\ pc = "rolling"
  /\ updates < MaxUpdates
  /\ Update
  /\ tripped' = (tripped \/ Tripping)
  /\ CASE Tripping \/ attached' # session.attached -> RollbackFailed(None)
       [] ~Tripping /\ attached' = session.attached /\ "start" \in arm' /\ streak + 1 >= RequiredSamples ->
            pc' = "writing" /\ updates' = 0 /\ streak' = 0 /\ UNCHANGED <<status, evidence>>
       [] OTHER ->
            /\ updates' = updates + 1
            /\ streak' = IF "start" \in arm' THEN streak + 1 ELSE 0
            /\ UNCHANGED <<pc, status, evidence>>
  /\ UNCHANGED <<session, drive, moves, result>>

\* The loop runs out, or a sensor has no reading.
RollRaises ==
  /\ pc = "rolling"
  /\ UNCHANGED <<session, timeline, robot, drive, current, tripped, moves, result>>
  /\ RollbackFailed(IF updates = MaxUpdates THEN "settlement_timeout" ELSE None)

(***************************************************************************)
(* write_result, and pause_control_timeline in the outermost finally.      *)
(***************************************************************************)
\* What a result says: the criterion it missed, or that its execution raised.
ControlResultStatus ==
  IF status # "rolled_back" THEN status
  ELSE IF evidence.post = None THEN "execution" ELSE rollback_reason(evidence.post)

\* The constructor of a result refuses an outcome its evidence contradicts.
ControlResult ==
  /\ ControlResultStatus # None
  /\ status = "blocked" => evidence.post = None
  /\ status = "applied" => evidence.post # None
  /\ status # "rollback_failed" => evidence.cause = None

WriteResult ==
  /\ pc = "writing"
  /\ ControlResult
  /\ result' = status
  /\ pc' = "closing"
  /\ UNCHANGED <<session, timeline, robot, drive, current, loop, tripped, moves, status, evidence>>

WriteRaises ==
  /\ pc = "writing"
  /\ pc' = "closing"
  /\ UNCHANGED <<session, timeline, robot, drive, current, loop, tripped, record>>

\* Mutant: a pause is taken to be immediate.
Pause_Deferred ==
  /\ pc = "closing"
  /\ timeline' = IF timeline = "paused" THEN "paused" ELSE "pausing"
  /\ pc' = "closed"
  /\ UNCHANGED <<session, robot, drive, current, loop, tripped, record>>

Pause ==
  /\ pc = "closing"
  /\ timeline' \in IF timeline = "paused" THEN {"paused"} ELSE {"pausing", "paused"}
  /\ pc' = IF timeline' = "paused" THEN "closed" ELSE "deferred"
  /\ UNCHANGED <<session, robot, drive, current, loop, tripped, record>>

\* One update processes a deferred pause, or the operation raises.
PauseDeferred ==
  /\ pc = "deferred"
  /\ Update
  /\ pc' = IF timeline' = "paused" THEN "closed" ELSE "stuck"
  /\ UNCHANGED <<session, drive, loop, tripped, record>>

Next ==
  \/ Claim \/ RuntimeLost \/ SynchronizeInsertion \/ SynchronizeGrasp \/ SynchronizeFree
  \/ Block \/ Pass \/ JudgeRaises
  \/ Move \/ MoveRaises
  \/ \E b \in BOOLEAN : Sample(b) \/ Settle(b) \/ Frame(b)
  \/ ExecutionRaises
  \/ \E tracked, acquired, progressed, raised \in BOOLEAN :
       Assess(tracked, acquired, progressed, raised)
  \/ Restore \/ RestoreRaises \/ Roll \/ RollRaises
  \/ WriteResult \/ WriteRaises \/ Pause \/ PauseDeferred

Spec     == Init /\ [][Next]_vars
\* The application keeps delivering updates, so every await returns.
FairSpec == Spec /\ WF_vars(Next)

-----------------------------------------------------------------------------
(***************************************************************************)
(* Properties                                                              *)
(***************************************************************************)
Places == {"captured", "claimed", "judging", "moving", "sampling", "settling", "framing",
           "assessing", "restoring", "rolling", "writing", "closing", "deferred", "closed",
           "stuck"}
Over   == {"closed", "stuck"}

EvidenceOK ==
  evidence \in [post  : PostActionEvidence \cup {None},
               cause : InsertionTrialRollbackFailureReasons \cup {None}]

\* Every variable has its type; the loops keep their bounds.
TypeOK ==
  /\ session \in [kind : Kinds, attached : BOOLEAN]
  /\ pc \in Places
  /\ timeline \in {"playing", "pausing", "paused"}
  /\ arm \in SUBSET {"start", "goal"}
  /\ drive \in {"held", "start", "goal"}
  /\ attached \in BOOLEAN /\ unsafe \in BOOLEAN /\ current \in BOOLEAN
  /\ updates \in 0..MaxUpdates /\ streak \in Nat
  /\ tripped \in BOOLEAN /\ moves \in Nat
  /\ status \in Statuses \cup {None} /\ result \in Statuses \cup {None}
  /\ EvidenceOK

\* What the result says is what the robot did, whatever raised on the way: an
\* applied action is at its goal without contact, a blocked one never moved, and
\* a rolled back one is at its start with the plug as it was captured.
Truthful(outcome) ==
  /\ outcome = "applied" =>
       /\ drive = "goal" /\ "goal" \in arm /\ ~unsafe /\ ~tripped
       /\ session.kind = "trial" => attached = session.attached
  /\ outcome = "blocked" => drive = "held" /\ moves = 0
  /\ outcome = "rolled_back" =>
       drive # "goal" /\ "start" \in arm /\ attached = session.attached

\* The reason of a failed rollback is the one that the robot's state shows.
InsertionTrialRollbackFailure ==
  evidence.cause # None =>
    /\ evidence.cause = "attachment_changed" <=> attached # session.attached
    /\ evidence.cause = "safety_interlock" <=> attached = session.attached /\ tripped

\* The report of a rollout judges a trial once more: its post-action evidence
\* must lead to the outcome, its failed rollback must have the right reason.
StepSummary ==
  session.kind = "trial" =>
    /\ evidence.post # None =>
         IF rollback_reason(evidence.post) = None THEN status = "applied"
         ELSE status \in {"rolled_back", "rollback_failed"}
    /\ status = "rollback_failed" => evidence.cause # None
    /\ InsertionTrialRollbackFailure

\* Nothing but the missing reason makes a result unfit to be written or read.
Accepted ==
  /\ ControlResult
  /\ StepSummary \/ (status = "rollback_failed" /\ evidence.cause = None)

ResultIsTruthful ==
  [][/\ result' # result => Truthful(result')
     /\ pc' = "writing" => Accepted']_vars

\* The robot is commanded only on the state that was judged: no update passes
\* between the reading and the command, and the reading was free of contact.
CommandOnJudgedState ==
  [][drive' = "goal" /\ drive # "goal" => current /\ ~unsafe]_vars

\* Once the interlock raised, the arm is not driven to the goal any more, unless
\* the rollback could not even be commanded.
InterlockStops ==
  [][tripped /\ drive = "goal" /\ status # "rollback_failed" => UNCHANGED arm]_vars

\* However apply ends, the timeline does not play on, and after a returned
\* result it is paused.
LeftPaused ==
  /\ pc \in Over => timeline # "playing"
  /\ pc = "closed" /\ result # None => timeline = "paused"

\* A claimed execution ends: every loop is bounded.
Ends == pc = "claimed" ~> pc \in Over

(***************************************************************************)
(* ControlSession knows of an execution that it is claimed, commands the   *)
(* robot at most once and then has one outcome.  Seen through the files    *)
(* of one captured and answered session, that is what happens here; which  *)
(* proposals may be acted on is settled in ControlSession before Claim.    *)
(***************************************************************************)
The == {"session"}
Acting(moved) ==
  [kind |-> "apply", session |-> "session", proposal |-> "action", moved |-> moved]
Operation ==
  IF pc \in {"captured", "closing", "deferred"} \cup Over THEN None
  ELSE IF moves = 0 THEN Acting(FALSE) ELSE Acting(TRUE)
Commanded == [i \in 1..moves |-> "action"]

Files == INSTANCE ControlSession WITH
  Sessions <- The, Proposals <- {"action"}, Responders <- {}, Policy <- [s \in The |-> "direct"],
  None <- None, ServerMayCrash <- FALSE,
  request <- The, state <- The, response <- [s \in The |-> "action"],
  safety <- [s \in The |-> None], binding <- [s \in The |-> None],
  execution <- IF pc = "captured" THEN {} ELSE The,
  result <- [s \in The |-> IF result = None THEN None
                           ELSE [status |-> result, proposal |-> "action"]],
  commanded <- [s \in The |-> Commanded],
  operation <- Operation,
  writing <- None, prepared <- [s \in The |-> None], responding <- <<>>

FollowsSessionProtocol == [][Files!Next]_(Files!vars)
=============================================================================
