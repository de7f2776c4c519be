----------------------- MODULE ControlExecutionProofs -----------------------
(***************************************************************************)
(* Proofs about ControlExecution, for any bounds of its loops.             *)
(***************************************************************************)
EXTENDS ControlExecution, Sequences, TLAPS

Executing == {"sampling", "settling", "framing", "assessing"}
Decided   == {"writing", "closing", "deferred", "closed", "stuck"}

(***************************************************************************)
(* The inductive invariant: what each place of the code may rely on.       *)
(***************************************************************************)
\* Up to the command nothing has happened to the drive.
BeforeCommand ==
  /\ pc \in {"captured", "claimed", "judging", "moving"} =>
       drive = "held" /\ moves = 0 /\ status = None /\ ~tripped
  /\ pc \in {"judging", "moving"} => current
  /\ pc = "moving" => ~unsafe

\* During the execution the arm is driven to the goal, untripped.
WhileExecuting ==
  pc \in Executing => drive = "goal" /\ moves = 1 /\ status = None /\ ~tripped

WhileRestoring ==
  /\ pc \in {"restoring", "rolling"} => status = "rolled_back"
  /\ pc = "rolling" => drive # "goal"

\* A decided status is written as it is, and what it says lasts as long as the
\* protocol needs it: the drive until the end, the rest until the write.
Outcome ==
  /\ pc = "writing" => status # None /\ Truthful(status)
  /\ pc \in Decided => (status = "applied" => ~tripped) /\ (status = "blocked" => ~tripped)
  /\ pc \in Decided /\ status = "rolled_back" => drive # "goal"
  /\ pc \in Decided /\ status = None => ~tripped
  /\ moves \in {0, 1} /\ (drive = "goal" => moves = 1)
  /\ result # None => pc \in Decided \ {"writing"}

Timeline ==
  /\ pc \in {"captured", "claimed"} => timeline = "paused"
  /\ pc = "deferred" => timeline = "pausing"
  /\ LeftPaused

\* The result has post-action evidence once the action was assessed, which then
\* says why it is rolled back; a reason of the rollback only once that failed.
Recorded ==
  /\ pc \notin {"restoring", "rolling"} \cup Decided => evidence.post = None
  /\ pc \notin Decided => evidence.cause = None
  /\ pc \in {"restoring", "rolling"} =>
       evidence.post = None \/ rollback_reason(evidence.post) # None
  /\ pc = "writing" => Accepted

Invariant ==
  TypeOK /\ BeforeCommand /\ WhileExecuting /\ WhileRestoring /\ Outcome /\ Timeline /\ Recorded

\* The invariant without the typing of the variables.
Rest == BeforeCommand /\ WhileExecuting /\ WhileRestoring /\ Outcome /\ Timeline

(***************************************************************************)
(* Typing.                                                                 *)
(***************************************************************************)
\* An update of the application keeps the types of what it changes.
LEMMA UpdateType ==
  ASSUME TypeOK, Update
  PROVE  /\ timeline' \in {"playing", "pausing", "paused"}
         /\ arm' \in SUBSET {"start", "goal"}
         /\ attached' \in BOOLEAN /\ unsafe' \in BOOLEAN /\ current' \in BOOLEAN
BY DEF TypeOK, Update, robot

\* A measured start is a set of targets the arm can be at.
LEMMA StartsType == \A a \in Starts : a \in SUBSET {"start", "goal"} /\ "start" \in a
BY DEF Starts

\* The initial states have the types.
LEMMA InitType == Init => TypeOK
<1> SUFFICES ASSUME Init PROVE TypeOK
    OBVIOUS
<1>1. session \in [kind : Kinds, attached : BOOLEAN] /\ session.attached \in BOOLEAN
  BY DEF Init
<1>2. arm \in SUBSET {"start", "goal"}
  BY StartsType DEF Init
<1>3. attached \in BOOLEAN /\ unsafe \in BOOLEAN /\ current \in BOOLEAN /\ tripped \in BOOLEAN
  BY <1>1 DEF Init
<1>4. updates \in 0..MaxUpdates /\ streak \in Nat /\ moves \in Nat
  BY ExecutionAssumption DEF ExecutionAssumption, Init
<1>5. /\ pc \in Places /\ timeline \in {"playing", "pausing", "paused"}
      /\ drive \in {"held", "start", "goal"}
      /\ status \in Statuses \cup {None} /\ result \in Statuses \cup {None}
  BY DEF Init, Places
<1>6. EvidenceOK
  BY DEF Init, EvidenceOK
<1> QED BY <1>1, <1>2, <1>3, <1>4, <1>5, <1>6 DEF TypeOK

\* A settling loop ends, raises under the interlock, or goes around again.
Settled ==
  /\ "goal" \in arm
  /\ pc' = "framing"
  /\ updates' = 0 /\ streak' = 0
  /\ UNCHANGED <<timeline, robot, current, tripped, status>>
Another ==
  /\ updates < MaxUpdates /\ updates' = updates + 1
  /\ streak' \in {streak + 1, 0}
  /\ UNCHANGED <<pc, status>>

LEMMA SettleCases ==
  ASSUME NEW b \in BOOLEAN, Settle(b)
  PROVE  /\ pc = "settling" /\ UNCHANGED <<session, drive, moves, result>>
         /\ \/ Settled
            \/ Update /\ tripped' = Tripping /\ Raise
            \/ Update /\ tripped' = Tripping /\ ~Tripping /\ Another
<1> DEFINE done == b /\ streak + 1 >= Required
<1>1. CASE done
  <2>1. "goal" \in arm BY <1>1 DEF Settle, Passes
  <2> QED BY <1>1, <2>1 DEF Settle, Settled
<1>2. CASE ~done
  <2>1. /\ updates < MaxUpdates /\ Update /\ tripped' = Tripping
        /\ IF Tripping THEN Raise
           ELSE /\ updates' = updates + 1
                /\ streak' = IF b THEN streak + 1 ELSE 0
                /\ UNCHANGED <<pc, status>>
    BY <1>2 DEF Settle
  <2>2. CASE Tripping BY <1>2, <2>1, <2>2 DEF Settle
  <2>3. CASE ~Tripping
    <3>1. streak' \in {streak + 1, 0} BY <2>1, <2>3
    <3> QED BY <1>2, <2>1, <2>3, <3>1 DEF Settle, Another
  <2> QED BY <2>2, <2>3
<1> QED BY <1>1, <1>2

\* The post-action evidence of Assess.
Post(tr, pr) == [tracked |-> tr, contact |-> unsafe, attached |-> attached', progressed |-> pr]

\* What a failed rollback records is a reason or nothing.
LEMMA FailureEvidence ==
  ASSUME EvidenceOK, NEW p \in InsertionTrialRollbackFailureReasons \cup {None},
         RollbackFailed(p)
  PROVE  EvidenceOK'
<1>1. InsertionTrialRollbackFailureReason(p) \in InsertionTrialRollbackFailureReasons \cup {None}
  BY DEF InsertionTrialRollbackFailureReason, InsertionTrialRollbackFailureReasons
<1> QED BY <1>1 DEF RollbackFailed, EvidenceOK

\* Every step keeps the type of the evidence.
LEMMA EvidenceType == TypeOK /\ [Next]_vars => EvidenceOK'
<1> SUFFICES ASSUME TypeOK, [Next]_vars PROVE EvidenceOK'
    OBVIOUS
<1>0. EvidenceOK BY DEF TypeOK
<1>1. CASE UNCHANGED evidence BY <1>0, <1>1 DEF EvidenceOK
<1>2. ASSUME NEW tr \in BOOLEAN, NEW ac \in BOOLEAN, NEW pr \in BOOLEAN, NEW ra \in BOOLEAN,
             Assess(tr, ac, pr, ra)
      PROVE  EvidenceOK'
  <2>1. attached' \in BOOLEAN /\ unsafe \in BOOLEAN
    BY <1>2 DEF Assess, TypeOK
  <2>2. Post(tr, pr) \in PostActionEvidence
    BY <2>1 DEF Post, PostActionEvidence
  <2>3. evidence' = evidence \/ evidence' = [evidence EXCEPT !.post = Post(tr, pr)]
    BY <1>2 DEF Assess, Post
  <2> QED BY <1>0, <2>2, <2>3 DEF EvidenceOK
<1>3. CASE RestoreRaises
  BY <1>0, <1>3, FailureEvidence DEF RestoreRaises, InsertionTrialRollbackFailureReasons
<1>4. CASE Roll
  BY <1>0, <1>1, <1>4, FailureEvidence DEF Roll
<1>5. CASE RollRaises
  BY <1>0, <1>5, FailureEvidence DEF RollRaises, InsertionTrialRollbackFailureReasons
<1>6. ASSUME NEW b \in BOOLEAN, Settle(b) PROVE EvidenceOK'
  BY <1>1, <1>6 DEF Settle
<1> QED
  BY <1>1, <1>2, <1>3, <1>4, <1>5, <1>6
     DEF Next, vars, record, Claim, RuntimeLost, SynchronizeInsertion, SynchronizeGrasp, SynchronizedRead, SynchronizeFree, Block, Pass,
         JudgeRaises, Move, MoveRaises, Sample, Frame, ExecutionRaises, Restore, WriteResult,
         WriteRaises, Pause, PauseDeferred

\* Every step keeps the types, and every loop its bound.
LEMMA TypeStep == TypeOK /\ [Next]_vars => TypeOK'
<1> SUFFICES ASSUME TypeOK, [Next]_vars PROVE TypeOK'
    OBVIOUS
<1>0. EvidenceOK' BY EvidenceType
<1> USE <1>0
<1> USE ExecutionAssumption DEF ExecutionAssumption, TypeOK, Places, Statuses, Kinds, robot, loop, record
<1>1. CASE Claim BY <1>1 DEF Claim
<1>2. CASE RuntimeLost BY <1>2 DEF RuntimeLost
<1>3. ASSUME NEW continues, SynchronizedRead(continues) PROVE TypeOK'
  <2>1. arm' \in SUBSET {"start", "goal"} BY <1>3, StartsType DEF SynchronizedRead
  <2>2. current' \in BOOLEAN /\ pc' \in Places BY <1>3 DEF SynchronizedRead
  <2> QED BY <1>3, <2>1, <2>2 DEF SynchronizedRead
<1>4. CASE SynchronizeFree
  <2>1. arm' \in SUBSET {"start", "goal"} BY <1>4, StartsType DEF SynchronizeFree
  <2>2. current' \in BOOLEAN /\ pc' \in Places BY <1>4 DEF SynchronizeFree
  <2>3. timeline' \in {"playing", "pausing", "paused"} /\ unsafe' \in BOOLEAN /\ attached' \in BOOLEAN
    BY <1>4 DEF SynchronizeFree
  <2> QED BY <1>4, <2>1, <2>2, <2>3 DEF SynchronizeFree
<1>5. CASE Block BY <1>5 DEF Block
<1>20. CASE Pass BY <1>20 DEF Pass, GateMayPass
<1>23. CASE JudgeRaises BY <1>23 DEF JudgeRaises
<1>6. CASE Move BY <1>6 DEF Move, Resumed
<1>7. CASE MoveRaises BY <1>7 DEF MoveRaises, Raise, Resumed
<1>8. ASSUME NEW b \in BOOLEAN, Sample(b) PROVE TypeOK'
  BY <1>8, UpdateType DEF Sample, Raise, Tripping
<1>9. ASSUME NEW b \in BOOLEAN, Settle(b) PROVE TypeOK'
  <2> pc = "settling" /\ UNCHANGED <<session, drive, moves, result>>
    BY <1>9, SettleCases
  <2>1. CASE Settled BY <2>1 DEF Settled
  <2>2. CASE Update /\ tripped' = Tripping /\ Raise
    BY <2>2, UpdateType DEF Raise, Tripping
  <2>3. CASE Update /\ tripped' = Tripping /\ ~Tripping /\ Another
    <3>1. tripped' = FALSE BY <2>3
    <3>2. updates' \in 0..MaxUpdates /\ streak' \in Nat BY <2>3 DEF Another
    <3> QED BY <2>3, <3>1, <3>2, UpdateType DEF Another
  <2> QED BY <1>9, <2>1, <2>2, <2>3, SettleCases
<1>10. ASSUME NEW b \in BOOLEAN, Frame(b) PROVE TypeOK'
  BY <1>10, UpdateType DEF Frame, Raise, Tripping
<1>11. CASE ExecutionRaises BY <1>11 DEF ExecutionRaises, Raise
<1>12. ASSUME NEW tr \in BOOLEAN, NEW ac \in BOOLEAN, NEW pr \in BOOLEAN, NEW ra \in BOOLEAN,
              Assess(tr, ac, pr, ra)
       PROVE TypeOK'
  BY <1>12 DEF Assess, Raise
<1>13. CASE Restore BY <1>13 DEF Restore
<1>21. CASE RestoreRaises BY <1>21 DEF RestoreRaises, RollbackFailed
<1>14. CASE Roll BY <1>14, UpdateType DEF Roll, RollbackFailed, Tripping
<1>15. CASE RollRaises BY <1>15 DEF RollRaises, RollbackFailed
<1>16. CASE WriteResult BY <1>16 DEF WriteResult
<1>22. CASE WriteRaises BY <1>22 DEF WriteRaises
<1>17. CASE Pause BY <1>17 DEF Pause
<1>18. CASE PauseDeferred BY <1>18, UpdateType DEF PauseDeferred
<1>19. CASE UNCHANGED vars BY <1>19 DEF vars
<1> QED
  BY <1>1, <1>2, <1>3, <1>4, <1>5, <1>6, <1>7, <1>8, <1>9, <1>10, <1>11, <1>12, <1>13, <1>14,
     <1>15, <1>16, <1>17, <1>18, <1>19, <1>20, <1>21, <1>22, <1>23
     DEF Next, SynchronizeInsertion, SynchronizeGrasp

(***************************************************************************)
(* The invariant is inductive.                                             *)
(***************************************************************************)
LEMMA RestInit == Init => Rest
BY DEF Init, Rest, BeforeCommand, WhileExecuting, WhileRestoring, Outcome, Timeline, LeftPaused,
       Executing, Decided, Over

\* No outcome is the absence of one.
LEMMA StatusIsSome ==
  None # "blocked" /\ None # "applied" /\ None # "rolled_back" /\ None # "rollback_failed"
BY ExecutionAssumption DEF ExecutionAssumption

\* Evidence without a reason to roll back is that of a tracked, free action, and
\* in a trial the plug is as it was.
LEMMA KeptIs ==
  ASSUME NEW tr \in BOOLEAN, NEW pr \in BOOLEAN, rollback_reason(Post(tr, pr)) = None
  PROVE  tr /\ ~unsafe /\ (session.kind = "trial" => attached' = session.attached)
BY ExecutionAssumption DEF ExecutionAssumption, rollback_reason, Post

LEMMA RestStep == TypeOK /\ TypeOK' /\ Rest /\ [Next]_vars => Rest'
<1> SUFFICES ASSUME TypeOK, TypeOK', Rest, [Next]_vars PROVE Rest'
    OBVIOUS
<1> USE DEF Rest, BeforeCommand, WhileExecuting, WhileRestoring, Outcome, Timeline, LeftPaused,
            Executing, Decided, Over, robot, loop, record
<1>1. CASE Claim BY <1>1 DEF Claim
<1>2. CASE RuntimeLost BY <1>2 DEF RuntimeLost
<1>3. ASSUME NEW continues, SynchronizedRead(continues) PROVE Rest'
  BY <1>3 DEF SynchronizedRead
<1>4. CASE SynchronizeFree BY <1>4 DEF SynchronizeFree
<1>5. CASE Block BY <1>5, StatusIsSome DEF Block, Truthful
<1>6. CASE Pass BY <1>6 DEF Pass, GateMayPass
<1>7. CASE JudgeRaises BY <1>7 DEF JudgeRaises
<1>8. CASE Move BY <1>8 DEF Move
<1>9. CASE MoveRaises BY <1>9 DEF MoveRaises, Raise
<1>10. ASSUME NEW b \in BOOLEAN, Sample(b) PROVE Rest'
  BY <1>10 DEF Sample, Raise
<1>11. ASSUME NEW b \in BOOLEAN, Settle(b) PROVE Rest'
  BY <1>11, SettleCases DEF Settled, Another, Raise
<1>12. ASSUME NEW b \in BOOLEAN, Frame(b) PROVE Rest'
  BY <1>12 DEF Frame, Raise
<1>13. CASE ExecutionRaises BY <1>13 DEF ExecutionRaises, Raise
<1>14. ASSUME NEW tr \in BOOLEAN, NEW ac \in BOOLEAN, NEW pr \in BOOLEAN, NEW ra \in BOOLEAN,
              Assess(tr, ac, pr, ra)
       PROVE Rest'
  <2> DEFINE kept == ~ra /\ rollback_reason(Post(tr, pr)) = None
  <2>1. /\ pc = "assessing" /\ (tr => "goal" \in arm)
        /\ UNCHANGED <<session, timeline, arm, unsafe, drive, current, tripped, moves, result>>
        /\ kept => status' = "applied" /\ pc' = "writing"
        /\ ~kept => Raise
    BY <1>14 DEF Assess, Post
  <2>2. CASE kept
    <3>1. tr /\ ~unsafe /\ (session.kind = "trial" => attached' = session'.attached)
      BY <2>1, <2>2, KeptIs
    <3>2. Truthful(status)'
      BY <2>1, <2>2, <3>1 DEF Truthful
    <3> QED BY <2>1, <2>2, <3>2, StatusIsSome
  <2>3. CASE ~kept BY <2>1, <2>3 DEF Raise
  <2> QED BY <2>2, <2>3
<1>15. CASE Restore BY <1>15 DEF Restore
<1>16. CASE RestoreRaises BY <1>16, StatusIsSome DEF RestoreRaises, RollbackFailed, Truthful
<1>17. CASE Roll BY <1>17, StatusIsSome DEF Roll, RollbackFailed, Truthful
<1>18. CASE RollRaises BY <1>18, StatusIsSome DEF RollRaises, RollbackFailed, Truthful
<1>19. CASE WriteResult BY <1>19 DEF WriteResult
<1>20. CASE WriteRaises BY <1>20 DEF WriteRaises
<1>21. CASE Pause BY <1>21 DEF Pause
<1>22. CASE PauseDeferred BY <1>22 DEF PauseDeferred, Update
<1>23. CASE UNCHANGED vars BY <1>23, StatusIsSome DEF vars, Truthful
<1> QED
  BY <1>1, <1>2, <1>3, <1>4, <1>5, <1>6, <1>7, <1>8, <1>9, <1>10, <1>11, <1>12, <1>13, <1>14,
     <1>15, <1>16, <1>17, <1>18, <1>19, <1>20, <1>21, <1>22, <1>23
     DEF Next, SynchronizeInsertion, SynchronizeGrasp

\* What is recorded is what the result needs.
LEMMA RecordedInit == Init => Recorded
BY DEF Init, Recorded, Decided

\* An outcome without a failed rollback is accepted when its evidence has the
\* priorities that the report recomputes.
LEMMA WritesAccepted ==
  ASSUME status' \in {"blocked", "applied", "rolled_back"}, evidence'.cause = None,
         status' = "blocked" => evidence'.post = None,
         status' = "applied" =>
           evidence'.post # None /\ rollback_reason(evidence'.post) = None,
         status' = "rolled_back" =>
           evidence'.post = None \/ rollback_reason(evidence'.post) # None,
         UNCHANGED session
  PROVE  Accepted'
<1> USE ExecutionAssumption DEF ExecutionAssumption
<1>1. rollback_reason(evidence.post)' = rollback_reason(evidence'.post)
  BY DEF rollback_reason
<1>2. ControlResultStatus' # None
  BY <1>1, StatusIsSome DEF ControlResultStatus
<1>3. ControlResult'
  BY <1>2, StatusIsSome DEF ControlResult
<1>4. StepSummary'
  BY <1>1 DEF StepSummary, InsertionTrialRollbackFailure
<1> QED BY <1>3, <1>4 DEF Accepted

\* So is a failed rollback, with the reason that its evidence shows.
LEMMA FailureAccepted ==
  ASSUME NEW p, p \in {None, "drive_command_rejected", "settlement_timeout"},
         EvidenceOK, evidence.cause = None, RollbackFailed(p), UNCHANGED session,
         evidence.post = None \/ rollback_reason(evidence.post) # None
  PROVE  Accepted'
<1> USE ExecutionAssumption DEF ExecutionAssumption
<1>1. status' = "rollback_failed"
  BY DEF RollbackFailed
<1>2. ControlResult'
  BY <1>1 DEF ControlResult, ControlResultStatus
<1>3. evidence'.post = evidence.post
  BY DEF RollbackFailed, EvidenceOK
<1>4. \/ evidence'.cause = None
      \/ evidence'.cause = InsertionTrialRollbackFailureReason(p)
  BY DEF RollbackFailed, EvidenceOK
<1>5. InsertionTrialRollbackFailure'
  BY <1>4 DEF InsertionTrialRollbackFailureReason, InsertionTrialRollbackFailure
<1>6. (StepSummary \/ (status = "rollback_failed" /\ evidence.cause = None))'
  <2>1. evidence'.post # None => rollback_reason(evidence.post)' # None
    BY <1>3 DEF rollback_reason
  <2> QED BY <1>1, <1>3, <1>5, <2>1 DEF StepSummary
<1> QED BY <1>1, <1>2, <1>6 DEF Accepted

LEMMA RecordedStep ==
  TypeOK /\ TypeOK' /\ Rest /\ Recorded /\ [Next]_vars => Recorded'
<1> SUFFICES ASSUME TypeOK, TypeOK', Rest, Recorded, [Next]_vars PROVE Recorded'
    OBVIOUS
<1> USE DEF Rest, BeforeCommand, WhileExecuting, WhileRestoring, Outcome, Executing, Decided, Over,
            robot, loop, record
<1>0. ASSUME UNCHANGED <<session, evidence>> PROVE \A x : rollback_reason(x)' = rollback_reason(x)
  BY <1>0 DEF rollback_reason
<1>1. CASE Claim BY <1>1 DEF Claim, Recorded
<1>2. CASE RuntimeLost BY <1>2 DEF RuntimeLost, Recorded
<1>3. CASE SynchronizeInsertion \/ SynchronizeGrasp
  BY <1>3 DEF SynchronizeInsertion, SynchronizeGrasp, SynchronizedRead, Recorded
<1>4. CASE SynchronizeFree BY <1>4 DEF SynchronizeFree, Recorded
<1>5. CASE Block
  <2>1. Accepted' BY <1>5, WritesAccepted DEF Block, Recorded
  <2> QED BY <1>5, <2>1 DEF Block, Recorded
<1>6. CASE Pass BY <1>6 DEF Pass, Recorded
<1>7. CASE JudgeRaises BY <1>7 DEF JudgeRaises, Recorded
<1>8. CASE Move BY <1>8 DEF Move, Recorded
<1>9. CASE MoveRaises BY <1>9 DEF MoveRaises, Raise, Recorded
<1>10. ASSUME NEW b \in BOOLEAN, Sample(b) PROVE Recorded'
  BY <1>10 DEF Sample, Raise, Recorded
<1>11. ASSUME NEW b \in BOOLEAN, Settle(b) PROVE Recorded'
  <2>1. UNCHANGED evidence BY <1>11 DEF Settle
  <2> QED BY <1>11, <2>1, SettleCases DEF Settled, Another, Raise, Recorded
<1>12. ASSUME NEW b \in BOOLEAN, Frame(b) PROVE Recorded'
  BY <1>12 DEF Frame, Raise, Recorded
<1>13. CASE ExecutionRaises BY <1>13 DEF ExecutionRaises, Raise, Recorded
<1>14. ASSUME NEW tr \in BOOLEAN, NEW ac \in BOOLEAN, NEW pr \in BOOLEAN, NEW ra \in BOOLEAN,
              Assess(tr, ac, pr, ra)
       PROVE Recorded'
  <2>1. /\ pc = "assessing" /\ UNCHANGED session
        /\ evidence' = IF ra THEN evidence ELSE [evidence EXCEPT !.post = Post(tr, pr)]
        /\ IF ~ra /\ rollback_reason(Post(tr, pr)) = None
           THEN status' = "applied" /\ pc' = "writing" /\ UNCHANGED loop
           ELSE Raise
    BY <1>14 DEF Assess, Post
  <2>2. evidence'.cause = None
    BY <2>1 DEF Recorded, TypeOK, EvidenceOK
  <2>3. IF ra THEN evidence'.post = None ELSE evidence'.post = Post(tr, pr)
    BY <2>1 DEF Recorded, TypeOK, EvidenceOK
  <2>4. CASE ~ra /\ rollback_reason(Post(tr, pr)) = None
    <3>1. Post(tr, pr) # None
      <4>1. attached' \in BOOLEAN /\ unsafe \in BOOLEAN BY DEF TypeOK
      <4>2. Post(tr, pr) \in [tracked : BOOLEAN, contact : BOOLEAN, attached : BOOLEAN,
                              progressed : BOOLEAN]
        BY <4>1 DEF Post
      <4> QED BY <4>2, ExecutionAssumption DEF ExecutionAssumption
    <3>2. Accepted' BY <2>1, <2>2, <2>3, <2>4, <3>1, WritesAccepted
    <3> QED BY <2>1, <2>2, <2>4, <3>2 DEF Recorded
  <2>5. CASE ~(~ra /\ rollback_reason(Post(tr, pr)) = None)
    <3>1. pc' = "restoring" BY <2>1, <2>5 DEF Raise
    <3>2. evidence'.post = None \/ rollback_reason(evidence.post)' # None
      BY <2>1, <2>3, <2>5 DEF rollback_reason
    <3> QED BY <2>2, <3>1, <3>2 DEF Recorded
  <2> QED BY <2>4, <2>5
<1>15. CASE Restore BY <1>15, <1>0 DEF Restore, Recorded
<1>16. CASE RestoreRaises
  <2>1. Accepted' BY <1>16, FailureAccepted DEF RestoreRaises, Recorded, TypeOK
  <2> QED BY <1>16, <2>1 DEF RestoreRaises, RollbackFailed, Recorded
<1>17. CASE Roll
  <2>1. CASE RollbackFailed(None)
    <3>1. Accepted' BY <1>17, <2>1, FailureAccepted DEF Roll, Recorded, TypeOK
    <3> QED BY <2>1, <3>1 DEF RollbackFailed, Recorded
  <2>2. CASE pc' = "writing" /\ UNCHANGED <<status, evidence>>
    <3>1. Accepted' BY <1>17, <2>2, WritesAccepted DEF Roll, Recorded
    <3> QED BY <2>2, <3>1 DEF Recorded
  <2>3. CASE UNCHANGED <<pc, status, evidence>>
    BY <1>0, <1>17, <2>3 DEF Roll, Recorded
  <2> QED BY <1>17, <2>1, <2>2, <2>3 DEF Roll
<1>18. CASE RollRaises
  <2>1. Accepted' BY <1>18, FailureAccepted DEF RollRaises, Recorded, TypeOK
  <2> QED BY <1>18, <2>1 DEF RollRaises, RollbackFailed, Recorded
<1>19. CASE WriteResult BY <1>19 DEF WriteResult, Recorded
<1>20. CASE WriteRaises BY <1>20 DEF WriteRaises, Recorded
<1>21. CASE Pause BY <1>21 DEF Pause, Recorded
<1>22. CASE PauseDeferred BY <1>22 DEF PauseDeferred, Recorded
<1>23. CASE UNCHANGED vars
  <2>1. Accepted' = Accepted
    BY <1>23 DEF vars, Accepted, ControlResult, ControlResultStatus, StepSummary,
       InsertionTrialRollbackFailure, rollback_reason
  <2> QED BY <1>0, <1>23, <2>1 DEF vars, Recorded
<1> QED
  BY <1>1, <1>2, <1>3, <1>4, <1>5, <1>6, <1>7, <1>8, <1>9, <1>10, <1>11, <1>12, <1>13, <1>14,
     <1>15, <1>16, <1>17, <1>18, <1>19, <1>20, <1>21, <1>22, <1>23 DEF Next

\* The inductive invariant: what every place of apply_control_response may rely on.
THEOREM Invariance == Spec => []Invariant
<1>1. Init => Invariant
  BY InitType, RestInit, RecordedInit DEF Invariant, Rest
<1>2. Invariant /\ [Next]_vars => Invariant'
  BY TypeStep, RestStep, RecordedStep DEF Invariant, Rest
<1> QED BY <1>1, <1>2, PTL DEF Spec
(***************************************************************************)
(* What follows from it.                                                   *)
(***************************************************************************)
\* Every variable has its type and every loop keeps its bound.
THEOREM TypeCorrect == Spec => []TypeOK
BY Invariance, PTL DEF Invariant

\* However apply_control_response ends, the timeline does not play on.
THEOREM PausedAfterwards == Spec => []LeftPaused
BY Invariance, PTL DEF Invariant, Timeline

\* Which steps change the result, the drive and the arm.
LEMMA ResultChanges ==
  ASSUME [Next]_vars, result' # result
  PROVE  pc = "writing" /\ result' = status
BY DEF Next, vars, robot, loop, record, Claim, RuntimeLost, SynchronizeInsertion, SynchronizeGrasp, SynchronizedRead, SynchronizeFree,
   Block, Pass, GateMayPass, JudgeRaises, Move, MoveRaises, Sample, Settle, Frame, ExecutionRaises, Assess,
   Restore, RestoreRaises, Roll, RollRaises, WriteResult, WriteRaises, Pause, PauseDeferred

LEMMA GoalCommanded ==
  ASSUME [Next]_vars, drive' = "goal", drive # "goal"
  PROVE  pc = "moving"
BY DEF Next, vars, robot, loop, record, Claim, RuntimeLost, SynchronizeInsertion, SynchronizeGrasp, SynchronizedRead, SynchronizeFree,
   Block, Pass, GateMayPass, JudgeRaises, Move, MoveRaises, Sample, Settle, Frame, ExecutionRaises, Assess,
   Restore, RestoreRaises, Roll, RollRaises, WriteResult, WriteRaises, Pause, PauseDeferred

LEMMA ArmMoves ==
  ASSUME [Next]_vars, arm' # arm
  PROVE  pc \in {"claimed", "sampling", "settling", "framing", "rolling", "deferred"}
BY DEF Next, vars, robot, loop, record, Claim, RuntimeLost, SynchronizeInsertion, SynchronizeGrasp, SynchronizedRead, SynchronizeFree,
   Block, Pass, GateMayPass, JudgeRaises, Move, MoveRaises, Sample, Settle, Frame, ExecutionRaises, Assess,
   Restore, RestoreRaises, Roll, RollRaises, WriteResult, WriteRaises, Pause, PauseDeferred

\* result.json says what the robot did, whatever raised on the way.
THEOREM TruthfulResult == Spec => ResultIsTruthful
<1>1. Invariant /\ Invariant' /\ [Next]_vars =>
        [/\ result' # result => Truthful(result')
         /\ pc' = "writing" => Accepted']_vars
  BY ResultChanges DEF Invariant, Outcome, Recorded
<1> QED BY <1>1, Invariance, PTL DEF Spec, ResultIsTruthful

\* The robot is commanded on the very state that was judged free of contact.
THEOREM JudgedCommand == Spec => CommandOnJudgedState
<1>1. Invariant /\ [Next]_vars =>
        [drive' = "goal" /\ drive # "goal" => current /\ ~unsafe]_vars
  BY GoalCommanded DEF Invariant, BeforeCommand
<1> QED BY <1>1, Invariance, PTL DEF Spec, CommandOnJudgedState

\* After the interlock raised, the arm is not driven on to the goal.
THEOREM InterlockHolds == Spec => InterlockStops
<1>1. Invariant /\ [Next]_vars =>
        [tripped /\ drive = "goal" /\ status # "rollback_failed" => UNCHANGED arm]_vars
  <2> SUFFICES ASSUME Invariant, [Next]_vars, tripped, drive = "goal",
                      status # "rollback_failed", arm' # arm
               PROVE  FALSE
      OBVIOUS
  <2>1. pc \in {"claimed", "sampling", "settling", "framing", "rolling", "deferred"}
    BY ArmMoves
  <2>2. CASE pc = "claimed" BY <2>2 DEF Invariant, BeforeCommand
  <2>3. CASE pc \in {"sampling", "settling", "framing"}
    BY <2>3 DEF Invariant, WhileExecuting, Executing
  <2>4. CASE pc = "rolling" BY <2>4 DEF Invariant, WhileRestoring
  <2>5. CASE pc = "deferred" BY <2>5 DEF Invariant, Outcome, Decided, TypeOK, Statuses
  <2> QED BY <2>1, <2>2, <2>3, <2>4, <2>5
<1> QED BY <1>1, Invariance, PTL DEF Spec, InterlockStops
(***************************************************************************)
(* The execution follows the protocol of its session.                      *)
(***************************************************************************)
\* The places of an execution that has claimed its session and has no outcome.
Active == pc \notin {"captured", "closing", "deferred"} \cup Over
Hidden == UNCHANGED <<result, moves>>

\* The operation that the session sees.
LEMMA OperationIs ==
  /\ ~Active => Operation = None
  /\ Active => /\ Operation # None
               /\ Operation = IF moves = 0 THEN Acting(FALSE) ELSE Acting(TRUE)
               /\ Operation.kind = "apply" /\ Operation.session = "session"
               /\ Operation.proposal = "action"
               /\ moves = 0 => Operation.moved = FALSE
               /\ moves # 0 => Operation.moved = TRUE
<1>1. \A b \in BOOLEAN :
        /\ Acting(b) # None /\ Acting(b).kind = "apply" /\ Acting(b).session = "session"
        /\ Acting(b).proposal = "action" /\ Acting(b).moved = b
  BY ExecutionAssumption DEF ExecutionAssumption, Acting
<1>2. ~Active => Operation = None
  BY DEF Active, Operation
<1>3. Active => Operation = IF moves = 0 THEN Acting(FALSE) ELSE Acting(TRUE)
  BY DEF Active, Operation
<1>4. Active /\ moves = 0 => Operation = Acting(FALSE)
  BY <1>3
<1>5. Active /\ moves # 0 => Operation = Acting(TRUE)
  BY <1>3
<1> QED BY <1>1, <1>2, <1>3, <1>4, <1>5

\* An execution that ends leaves no operation.
LEMMA OperationNext == ~Active' => Operation' = None
BY DEF Active, Operation

\* A step between two places of one execution is invisible in the session.
LEMMA Stutter ==
  ASSUME Hidden, pc # "captured", pc' # "captured", Active' <=> Active
  PROVE  UNCHANGED Files!vars
<1>1. Operation' = Operation
  BY DEF Hidden, Active, Operation, Over
<1>2. Commanded' = Commanded
  BY DEF Hidden, Commanded
<1> QED BY <1>1, <1>2 DEF Hidden, Files!vars, Files!files

\* An active execution owns the simulator.
LEMMA ActiveOwns == Active => Files!Owns("apply", "session")
BY OperationIs DEF Files!Owns, Files!ServerIdle

\* Claim is the BeginApply of the session.
LEMMA ClaimIsBeginApply ==
  ASSUME Invariant, Claim
  PROVE  Files!BeginApply("session")
<1>1. pc = "captured" /\ pc' = "claimed" /\ result = None /\ result' = None /\ moves = 0 /\ moves' = 0
  BY DEF Claim, record, Invariant, BeforeCommand, Outcome, Decided
<1>2. "session" \in The /\ None # "action"
  BY ExecutionAssumption DEF The, ExecutionAssumption
<1>3. Files!Free
  BY <1>1, OperationIs DEF Files!Free, Files!ServerIdle, Active
<1>4. Files!load("session")
  BY <1>1, <1>2 DEF Files!load, Files!Consumed, Files!Captured, Files!Trials
<1>5. Files!claim_execution("session")
  BY <1>1, <1>2 DEF Files!claim_execution, Files!Restricted, The
<1>6. Operation' = Acting(FALSE)
  BY <1>1 DEF Operation, Over
<1>7. Files!Begin("apply", "session", "action")
  BY <1>6 DEF Files!Begin, Acting
<1>8. Commanded' = Commanded
  BY <1>1 DEF Commanded
<1> QED BY <1>1, <1>2, <1>3, <1>4, <1>5, <1>7, <1>8 DEF Files!BeginApply

\* Move is its Command.
LEMMA MoveIsCommand ==
  ASSUME Invariant, Move
  PROVE  Files!Command("session")
<1>1. pc = "moving" /\ pc' = "sampling" /\ moves = 0 /\ moves' = 1 /\ UNCHANGED result
  BY DEF Move, Invariant, BeforeCommand
<1>2. Active /\ Operation = Acting(FALSE) /\ Operation' = Acting(TRUE)
  BY <1>1 DEF Active, Operation, Over
<1>3. ~Operation.moved
  BY <1>1, <1>2, OperationIs
<1>4. Operation' = [Operation EXCEPT !.moved = TRUE]
  <2>1. Acting(TRUE) = [Acting(FALSE) EXCEPT !.moved = TRUE]
    <3>1. \A a, b : Acting(b) = [Acting(a) EXCEPT !.moved = b]
      BY DEF Acting
    <3> QED BY <3>1
  <2> QED BY <1>2, <2>1
<1>5. Commanded = <<>> /\ Commanded' = <<"action">>
  BY <1>1 DEF Commanded
<1>6. Commanded' = Append(Commanded, Operation.proposal)
  <2>1. Operation.proposal = "action" BY <1>2, OperationIs
  <2>2. Append(<<>>, "action") = <<"action">> OBVIOUS
  <2> QED BY <1>5, <2>1, <2>2
<1>7. [s \in The |-> Commanded]' =
        [[s \in The |-> Commanded] EXCEPT !["session"] = Append(@, Operation.proposal)]
  BY <1>6 DEF The
<1> QED BY <1>1, <1>2, <1>3, <1>4, <1>7, ActiveOwns DEF Files!Command, Files!files

\* WriteResult is its FinishApply.
LEMMA WriteIsFinishApply ==
  ASSUME Invariant, WriteResult
  PROVE  Files!FinishApply("session", status) /\ status \in Files!Statuses
<1>1. /\ pc = "writing" /\ pc' = "closing" /\ result' = status /\ UNCHANGED <<moves, status>>
      /\ status \in Statuses /\ moves \in {0, 1}
      /\ (status = "applied" => moves = 1) /\ (status = "blocked" => moves = 0)
  BY DEF WriteResult, Invariant, Outcome, Truthful, TypeOK
<1>2. Active /\ ~Active'
  BY <1>1 DEF Active, Over
<1>3. Operation' = None /\ Operation.proposal = "action" /\ (Operation.moved <=> moves = 1)
  BY <1>1, <1>2, OperationIs, OperationNext
<1>4. status \in IF Operation.moved THEN Files!Statuses \ {"blocked"} ELSE Files!Statuses \ {"applied"}
  BY <1>1, <1>3 DEF Files!Statuses, Statuses
<1>5. Commanded' = Commanded
  BY <1>1 DEF Commanded
<1>6. status # None
  BY <1>1, StatusIsSome DEF Statuses
<1> DEFINE recorded(r) == [s \in The |-> IF r = None THEN None
                                          ELSE [status |-> r, proposal |-> "action"]]
<1>7. recorded(result') =
        [recorded(result) EXCEPT !["session"] = [status |-> status, proposal |-> Operation.proposal]]
  BY <1>1, <1>3, <1>6 DEF The
<1> QED BY <1>1, <1>2, <1>3, <1>4, <1>5, <1>7, ActiveOwns
        DEF Files!FinishApply, Files!Statuses, Statuses

\* A raised execution or a result that cannot be written is its OperationFails.
LEMMA RaiseIsOperationFails ==
  ASSUME Active, ~Active', pc' # "captured", Hidden
  PROVE  Files!OperationFails
<1>1. pc # "captured"
  BY DEF Active
<1>2. Operation # None /\ Operation' = None
  BY OperationIs, OperationNext
<1>3. Commanded' = Commanded
  BY DEF Hidden, Commanded
<1> QED BY <1>1, <1>2, <1>3 DEF Hidden, Files!OperationFails, Files!ServerIdle, Files!files

\* All other steps are invisible, or the end of the operation.
LEMMA OtherSteps ==
  ASSUME Invariant, [Next]_vars, ~Claim, ~Move, ~WriteResult
  PROVE  \/ UNCHANGED vars
         \/ Hidden /\ pc # "captured" /\ pc' # "captured"
<1> USE DEF Hidden, record, loop, robot
<1>1. CASE \/ RuntimeLost \/ SynchronizeInsertion \/ SynchronizeGrasp \/ SynchronizeFree \/ Block \/ Pass \/ JudgeRaises
  BY <1>1 DEF RuntimeLost, SynchronizeInsertion, SynchronizeGrasp, SynchronizedRead, SynchronizeFree, Block, Pass, JudgeRaises
<1>2. CASE MoveRaises \/ ExecutionRaises
  BY <1>2 DEF MoveRaises, ExecutionRaises, Raise
<1>3. ASSUME NEW b \in BOOLEAN, Sample(b) \/ Frame(b)
      PROVE  Hidden /\ pc # "captured" /\ pc' # "captured"
  BY <1>3 DEF Sample, Frame, Raise
<1>4. ASSUME NEW b \in BOOLEAN, Settle(b)
      PROVE  Hidden /\ pc # "captured" /\ pc' # "captured"
  BY <1>4, SettleCases DEF Settle, Settled, Another, Raise
<1>5. ASSUME NEW tr \in BOOLEAN, NEW ac \in BOOLEAN, NEW pr \in BOOLEAN, NEW ra \in BOOLEAN,
             Assess(tr, ac, pr, ra)
      PROVE  Hidden /\ pc # "captured" /\ pc' # "captured"
  BY <1>5 DEF Assess, Raise
<1>6. CASE Restore \/ RestoreRaises \/ Roll \/ RollRaises
  BY <1>6 DEF Restore, RestoreRaises, Roll, RollRaises, RollbackFailed
<1>7. CASE WriteRaises \/ Pause \/ PauseDeferred
  BY <1>7 DEF WriteRaises, Pause, PauseDeferred
<1> QED BY <1>1, <1>2, <1>3, <1>4, <1>5, <1>6, <1>7 DEF Next

\* An operation that is over does not begin again.
LEMMA NeverActiveAgain ==
  ASSUME [Next]_vars, pc # "captured", ~Active
  PROVE  ~Active'
BY DEF Active, Over, Next, vars, Claim, RuntimeLost, SynchronizeInsertion, SynchronizeGrasp, SynchronizedRead, SynchronizeFree,
   Block, Pass, GateMayPass, JudgeRaises, Move, MoveRaises, Sample, Settle, Frame, ExecutionRaises, Assess,
   Restore, RestoreRaises, Roll, RollRaises, WriteResult, WriteRaises, Pause, PauseDeferred

\* What apply_control_response does to the robot is, seen through the files of
\* its session, the apply operation of ControlSession.
THEOREM SessionProtocol == Spec => FollowsSessionProtocol
<1>1. Invariant /\ [Next]_vars => [Files!Next]_(Files!vars)
  <2> SUFFICES ASSUME Invariant, [Next]_vars PROVE [Files!Next]_(Files!vars)
      OBVIOUS
  <2> "session" \in The BY DEF The
  <2>1. CASE Claim BY <2>1, ClaimIsBeginApply DEF Files!Next
  <2>2. CASE Move BY <2>2, MoveIsCommand DEF Files!Next
  <2>3. CASE WriteResult BY <2>3, WriteIsFinishApply DEF Files!Next
  <2>4. CASE ~Claim /\ ~Move /\ ~WriteResult
    <3>1. CASE UNCHANGED vars
      <4>1. Operation' = Operation /\ Commanded' = Commanded
        BY <3>1 DEF vars, record, Operation, Over, Commanded
      <4> QED BY <3>1, <4>1 DEF vars, record, Files!vars, Files!files
    <3>2. CASE Hidden /\ pc # "captured" /\ pc' # "captured"
      <4>1. CASE Active' <=> Active BY <3>2, <4>1, Stutter
      <4>2. CASE Active /\ ~Active'
        BY <3>2, <4>2, RaiseIsOperationFails DEF Files!Next
      <4> QED BY <3>2, <4>1, <4>2, NeverActiveAgain
    <3> QED BY <2>4, <3>1, <3>2, OtherSteps
  <2> QED BY <2>1, <2>2, <2>3, <2>4
<1> QED BY <1>1, Invariance, PTL DEF Spec, FollowsSessionProtocol
=============================================================================
