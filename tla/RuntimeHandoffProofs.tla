----------------------- MODULE RuntimeHandoffProofs -----------------------
(***************************************************************************)
(* Proofs about RuntimeHandoff, for any number of sessions, poses and      *)
(* stages.  The inductive invariant says what a binding on the open stage  *)
(* is worth: its session was captured on this stage, and unless the robot  *)
(* went astray it is where that session's capture, or its motion, left it. *)
(***************************************************************************)
EXTENDS RuntimeHandoff, TLAPS

\* The state of a session was captured.
Live(s) == session[s].files \in {"captured", "answered"}

\* A directory without a captured state says nothing of its session.
Empties ==
  \A s \in Sessions : ~Live(s) =>
    /\ session[s].kind = "free" /\ session[s].source = None /\ session[s].previous = None
    /\ session[s].safety = "none" /\ session[s].result = "none"
    /\ ~session[s].claimed /\ ~session[s].moved

\* What a session's files say of each other.
Records ==
  \A s \in Sessions :
    /\ Live(s) => session[s].pose \in Poses /\ session[s].stage <= stage
    /\ session[s].source # None => session[s].kind = "trial"
    /\ session[s].claimed => session[s].files = "answered" /\ session[s].kind # "safety"
    /\ session[s].moved \/ session[s].result # "none" => session[s].claimed
    /\ session[s].result \in {"applied", "rolled_back"} => session[s].moved
    /\ session[s].result = "applied" => session[s].end \in Poses
    /\ session[s].safety # "none" => session[s].kind = "safety"

\* A trial follows the session that its safety evaluation followed.
Sources ==
  \A s \in Sessions :
    session[s].source # None =>
      /\ Live(session[s].source)
      /\ session[session[s].source].kind = "safety"
      /\ session[s].previous = session[session[s].source].previous

\* One capture starts from each reset.
OneReset ==
  \A d, e \in Sessions :
    /\ Live(d) /\ session[d].previous = None
    /\ Live(e) /\ session[e].previous = None
    /\ session[d].stage = session[e].stage
    => d = e

\* An evaluation of a step, and its trial, begin where that step ended.
Lineage ==
  \A s \in Sessions :
    session[s].kind \in {"safety", "trial"} /\ session[s].previous # None =>
      /\ session[session[s].previous].result = "applied"
      /\ session[s].ground = session[s].previous
      /\ session[s].stage = session[session[s].previous].stage

\* The session of the binding was captured, and no trial that took over from it
\* on its stage has moved the robot.
Bound ==
  binding # None =>
    /\ binding.stage <= stage
    /\ Live(binding.session)
    /\ \/ session[binding.session].kind = "safety"
       \/ session[binding.session].files = "answered"
       \/ session[binding.session].kind = "trial" /\ session[binding.session].previous = None
    /\ \A e \in Sessions :
         /\ session[e].source = binding.session
         /\ session[e].stage = session[binding.session].stage
         => ~session[e].moved

\* A session that holds the runtime of the open stage knows where the robot is.
Held ==
  \A s \in Sessions :
    binding = bound(s) /\ Insertion(s) =>
      /\ session[s].stage = stage
      /\ robot.pose \in Poses =>
           /\ ~session[s].moved \/ session[s].result = "rolled_back" =>
                robot.at = session[s].ground
           /\ session[s].result = "applied" => robot.at = s

\* A session that moved the robot or may do so next.
Used(e) == session[e].moved \/ (binding # None /\ binding.session = e)

\* An evaluation has one such trial on each stage.
OneTrial ==
  \A d, e \in Sessions :
    /\ Used(d) /\ Used(e)
    /\ session[d].source # None /\ session[d].source = session[e].source
    /\ session[d].stage = session[e].stage
    => d = e

\* What the operation under way may rely on until it ends.
Underway ==
  LET s == op.session
      p == op.previous
  IN /\ op.name = "replay" =>
          /\ s \in Sessions /\ ~Live(s) /\ (binding # None => binding.stage < stage)
          /\ \A e \in Sessions : Live(e) => session[e].stage < stage
     /\ op.name \in {"free", "grasp", "safety", "handoff"} =>
          /\ s \in Sessions /\ ~Live(s)
          /\ p \in Sessions /\ session[p].files = "answered"
          /\ op.name # "handoff" => session[p].result = "applied"
          /\ op.name = "safety" =>
               binding = bound(p) /\ session[p].kind \in {"trial", "grasp"}
     /\ op.name \in {"judge", "move"} =>
          /\ s \in Sessions /\ binding = bound(s)
          /\ session[s].claimed /\ session[s].result = "none"
          /\ session[s].moved <=> op.name = "move"
          /\ op.name = "move" => robot.pose = Astray

IInv ==
  /\ TypeOK /\ Empties /\ Records /\ Sources /\ OneReset /\ Lineage /\ Bound /\ Held
  /\ OneTrial /\ Underway /\ MotionIsGrounded

-----------------------------------------------------------------------------
USE HandoffAssumption
USE DEF Live, Used, Exists, Insertion, bound, live_runtime_for, Applied, InsertionFollowupLineage,
  GraspToInsertionLineage, _contact_grasp_followup_policy, Kinds, Results, Idle, Lost

\* What is written of one session.
SessionRecord ==
  [files : {"absent", "spoiled", "captured", "answered"}, kind : Kinds,
   previous : Sessions \cup {None}, source : Sessions \cup {None},
   pose : Poses \cup {Astray}, ground : Sessions \cup {None}, stage : Nat,
   safety : {"none", "passed", "failed"}, claimed : BOOLEAN,
   result : Results, end : Poses \cup {Astray}, moved : BOOLEAN]

\* The files of every session keep their shape when one session is written.
LEMMA WrittenType ==
  ASSUME NEW f \in [Sessions -> SessionRecord], NEW s \in Sessions, NEW r \in SessionRecord
  PROVE [f EXCEPT ![s] = r] \in [Sessions -> SessionRecord]
  OBVIOUS

\* What the steps write into a session's record has its shape.
LEMMA RecordUpdates ==
  ASSUME NEW r \in SessionRecord
  PROVE /\ [r EXCEPT !.claimed = TRUE] \in SessionRecord
        /\ [r EXCEPT !.moved = TRUE] \in SessionRecord
        /\ \A x \in Results : [r EXCEPT !.result = x] \in SessionRecord
        /\ \A x \in Results, y \in Poses :
             [r EXCEPT !.result = x, !.end = y] \in SessionRecord
        /\ \A x \in Poses, y \in Sessions : [r EXCEPT !.pose = x, !.ground = y] \in SessionRecord
        /\ [r EXCEPT !.kind = "trial", !.safety = "none"] \in SessionRecord
        /\ \A x \in {"captured", "answered"}, y \in Sessions \cup {None} :
             [r EXCEPT !.files = x, !.source = y] \in SessionRecord
<1>1. [r EXCEPT !.claimed = TRUE] \in SessionRecord
  BY Zenon DEF SessionRecord
<1>2. [r EXCEPT !.moved = TRUE] \in SessionRecord
  BY Zenon DEF SessionRecord
<1>3. ASSUME NEW x \in Results PROVE [r EXCEPT !.result = x] \in SessionRecord
  BY ZenonT(40) DEF SessionRecord
<1>4. ASSUME NEW x \in Results, NEW y \in Poses
      PROVE [r EXCEPT !.result = x, !.end = y] \in SessionRecord
  BY ZenonT(40) DEF SessionRecord
<1>5. ASSUME NEW x \in Poses, NEW y \in Sessions
      PROVE [r EXCEPT !.pose = x, !.ground = y] \in SessionRecord
  BY Zenon DEF SessionRecord
<1>6. [r EXCEPT !.kind = "trial", !.safety = "none"] \in SessionRecord
  BY Zenon DEF SessionRecord
<1>7. ASSUME NEW x \in {"captured", "answered"}, NEW y \in Sessions \cup {None}
      PROVE [r EXCEPT !.files = x, !.source = y] \in SessionRecord
  BY Zenon DEF SessionRecord
<1> QED BY <1>1, <1>2, <1>3, <1>4, <1>5, <1>6, <1>7

LEMMA CapturedType ==
  ASSUME TypeOK, NEW s \in Sessions, NEW kind \in Kinds, NEW p \in Sessions \cup {None}
  PROVE Captured(s, kind, p) \in [Sessions -> SessionRecord]
<1> DEFINE r == [Absent EXCEPT !.files = IF kind \in {"safety", "trial"} THEN "captured" ELSE "answered",
                    !.kind = kind, !.previous = p, !.pose = robot.pose,
                    !.ground = robot.at, !.stage = stage]
<1>1. r \in SessionRecord
  BY ZenonT(40) DEF TypeOK, SessionRecord, Absent
<1>2. session \in [Sessions -> SessionRecord]
  BY DEF TypeOK, SessionRecord
<1> QED BY <1>1, <1>2, WrittenType DEF Captured

LEMMA SpoiledType ==
  ASSUME TypeOK, NEW s \in Sessions PROVE Spoiled(s) \in [Sessions -> SessionRecord]
<1>1. [Absent EXCEPT !.files = "spoiled"] \in SessionRecord
  BY Zenon DEF SessionRecord, Absent
<1>2. session \in [Sessions -> SessionRecord]
  BY DEF TypeOK, SessionRecord
<1> QED BY <1>1, <1>2, WrittenType DEF Spoiled

LEMMA InitInvariant == Init => IInv
<1> SUFFICES ASSUME Init PROVE IInv
  OBVIOUS
<1>1. TypeOK
  BY DEF Init, TypeOK, Absent
<1>2. Empties /\ Records /\ Sources /\ OneReset /\ Lineage /\ OneTrial
  BY DEF Init, Empties, Records, Sources, OneReset, Lineage, OneTrial, Absent
<1>3. Bound /\ Held /\ Underway /\ MotionIsGrounded
  BY DEF Init, Bound, Held, Underway, MotionIsGrounded
<1> QED BY <1>1, <1>2, <1>3 DEF IInv

LEMMA StutterStep == IInv /\ UNCHANGED vars => IInv'
  BY DEF vars, IInv, TypeOK, Empties, Records, Sources, OneReset, Lineage, Bound, Held, OneTrial,
     Underway, MotionIsGrounded

LEMMA BeginCaptureStep ==
  ASSUME IInv, NEW s \in Sessions, BeginCapture(s) PROVE IInv'
  BY SMTT(30) DEF BeginCapture, Open, IInv, TypeOK, Empties, Records, Sources, OneReset, Lineage, Bound, Held, OneTrial,
     Underway, MotionIsGrounded

LEMMA OtherStep ==
  ASSUME IInv, OtherReset \/ Reload \/ Restart PROVE IInv'
  BY SMTT(30) DEF OtherReset, Reload, restore_live_runtime_handoff, Restart, Open, IInv, TypeOK, Empties, Records, Sources, OneReset, Lineage, Bound, Held, OneTrial,
     Underway, MotionIsGrounded

LEMMA BeginFollowupStep ==
  ASSUME IInv, NEW s \in Sessions, NEW p \in Sessions, NEW kind \in Kinds, BeginFollowup(s, kind, p) PROVE IInv'
  BY SMTT(30) DEF BeginFollowup, InsertionFollowup, Transition, GraspFollowup, GenericFollowup, IInv, TypeOK, Empties, Records, Sources, OneReset, Lineage, Bound, Held, OneTrial,
     Underway, MotionIsGrounded

LEMMA BeginHandoffStep ==
  ASSUME IInv, NEW s \in Sessions, NEW p \in Sessions, BeginHandoff(s, p) PROVE IInv'
  BY SMTT(30) DEF BeginHandoff, HandoffSource, IInv, TypeOK, Empties, Records, Sources, OneReset, Lineage, Bound, Held, OneTrial,
     Underway, MotionIsGrounded

LEMMA RetryStep ==
  ASSUME IInv, NEW p \in Sessions, NEW e \in Sessions, 
    \/ restore_insertion_no_actuation_retry(p, e) \/ restore_insertion_rollback_retry(p, e)
    \/ restore_grasp_transition_retry(p, e)
  PROVE IInv'
  BY SMTT(30) DEF restore_insertion_no_actuation_retry, restore_insertion_rollback_retry,
     restore_grasp_transition_retry, IInv, TypeOK, Empties, Records, Sources, OneReset, Lineage, Bound, Held, OneTrial,
     Underway, MotionIsGrounded

LEMMA CaptureResetStep ==
  ASSUME IInv, NEW s \in Sessions, NEW kind \in Kinds, CaptureReset(s, kind) PROVE IInv'
<1>0. /\ op.name = "replay" /\ op.session = s
      /\ \E pose \in Poses :
           /\ robot' = [at |-> s, pose |-> pose]
           /\ session' = [Captured(s, kind, None) EXCEPT ![s].pose = pose, ![s].ground = s]
      /\ binding' = bound(s) /\ op' = Idle /\ UNCHANGED stage
  <2>1. PICK rest \in Replayed(s) :
          /\ robot' = rest
          /\ session' = [Captured(s, kind, None) EXCEPT ![s].pose = rest.pose, ![s].ground = rest.at]
    BY DEF CaptureReset
  <2>2. rest.pose \in Poses /\ rest = [at |-> s, pose |-> rest.pose] /\ rest.at = s
    BY DEF Replayed
  <2> QED BY <2>1, <2>2 DEF CaptureReset
<1>1. TypeOK'
  <2>1. s \in Sessions /\ stage \in Nat
    BY DEF IInv, TypeOK
  <2>2. PICK pose \in Poses :
          session' = [Captured(s, kind, None) EXCEPT ![s].pose = pose, ![s].ground = s]
    BY <1>0
  <2>3. session' \in [Sessions -> SessionRecord]
    <3> DEFINE f == Captured(s, kind, None)
    <3>1. f \in [Sessions -> SessionRecord]
      BY CapturedType DEF IInv
    <3>2. [f[s] EXCEPT !.pose = pose, !.ground = s] \in SessionRecord
      BY <3>1, RecordUpdates
    <3>3. session' = [f EXCEPT ![s] = [f[s] EXCEPT !.pose = pose, !.ground = s]]
      BY <2>2
    <3> QED BY <3>1, <3>2, <3>3, WrittenType
  <2>4. \E q \in Poses : robot' = [at |-> s, pose |-> q]
    BY <1>0
  <2>5. /\ binding' = [session |-> s, stage |-> stage] /\ stage' = stage
        /\ op' = [name |-> "idle", session |-> None, previous |-> None]
    BY <1>0 DEF bound, Idle
  <2> QED BY <2>1, <2>3, <2>4, <2>5, SMTT(30) DEF TypeOK, SessionRecord
<1>2. Empties'
  BY <1>0, SMTT(30) DEF Captured, Absent, IInv, TypeOK, Empties, Records, Sources, OneReset, Lineage, Bound, Held, OneTrial, Underway, MotionIsGrounded
<1>3. Records'
  BY <1>0, SMTT(30) DEF Captured, Absent, IInv, TypeOK, Empties, Records, Sources, OneReset, Lineage, Bound, Held, OneTrial, Underway, MotionIsGrounded
<1>4. Sources'
  BY <1>0, SMTT(30) DEF Captured, Absent, IInv, TypeOK, Empties, Records, Sources, OneReset, Lineage, Bound, Held, OneTrial, Underway, MotionIsGrounded
<1>5. Lineage'
  BY <1>0, SMTT(30) DEF Captured, Absent, IInv, TypeOK, Empties, Records, Sources, OneReset, Lineage, Bound, Held, OneTrial, Underway, MotionIsGrounded
<1>6. Bound'
  BY <1>0, SMTT(30) DEF Captured, Absent, IInv, TypeOK, Empties, Records, Sources, OneReset, Lineage, Bound, Held, OneTrial, Underway, MotionIsGrounded
<1>7. Held'
  BY <1>0, SMTT(30) DEF Captured, Absent, IInv, TypeOK, Empties, Records, Sources, OneReset, Lineage, Bound, Held, OneTrial, Underway, MotionIsGrounded
<1>8. OneTrial'
  BY <1>0, SMTT(30) DEF Captured, Absent, IInv, TypeOK, Empties, Records, Sources, OneReset, Lineage, Bound, Held, OneTrial, Underway, MotionIsGrounded
<1>8a. OneReset'
  BY <1>0, SMTT(30) DEF Captured, Absent, IInv, TypeOK, Empties, Records, Sources, OneReset, Lineage, Bound, Held, OneTrial, Underway, MotionIsGrounded
<1>9. Underway'
  BY <1>0, SMTT(30) DEF Captured, Absent, IInv, TypeOK, Empties, Records, Sources, OneReset, Lineage, Bound, Held, OneTrial, Underway, MotionIsGrounded
<1>10. MotionIsGrounded'
  BY <1>0, SMTT(30) DEF Captured, Absent, IInv, TypeOK, Empties, Records, Sources, OneReset, Lineage, Bound, Held, OneTrial, Underway, MotionIsGrounded
<1> QED BY <1>1, <1>2, <1>3, <1>4, <1>5, <1>6, <1>7, <1>8, <1>8a, <1>9, <1>10 DEF IInv

LEMMA CaptureResetFailsStep ==
  ASSUME IInv, NEW s \in Sessions, CaptureResetFails(s) PROVE IInv'
<1>0. /\ op.name = "replay" /\ op.session = s
      /\ \/ robot' = Lost
         \/ \E pose \in Poses : robot' = [at |-> s, pose |-> pose]
      /\ session' \in {session, Spoiled(s)} /\ op' = Idle
      /\ UNCHANGED <<stage, binding>>
  BY DEF CaptureResetFails, Replayed
<1>1. TypeOK'
  <2>3. session' \in [Sessions -> SessionRecord]
    BY <1>0, SpoiledType DEF IInv, TypeOK, SessionRecord
  <2> QED BY <1>0, <2>3, SMTT(30) DEF Spoiled, Absent, IInv, TypeOK, SessionRecord, Underway
<1>2. Empties'
  BY <1>0, SMTT(30) DEF Spoiled, Absent, IInv, TypeOK, Empties, Records, Sources, OneReset, Lineage, Bound, Held, OneTrial, Underway, MotionIsGrounded
<1>3. Records'
  BY <1>0, SMTT(30) DEF Spoiled, Absent, IInv, TypeOK, Empties, Records, Sources, OneReset, Lineage, Bound, Held, OneTrial, Underway, MotionIsGrounded
<1>4. Sources'
  BY <1>0, SMTT(30) DEF Spoiled, Absent, IInv, TypeOK, Empties, Records, Sources, OneReset, Lineage, Bound, Held, OneTrial, Underway, MotionIsGrounded
<1>5. Lineage'
  BY <1>0, SMTT(30) DEF Spoiled, Absent, IInv, TypeOK, Empties, Records, Sources, OneReset, Lineage, Bound, Held, OneTrial, Underway, MotionIsGrounded
<1>6. Bound'
  BY <1>0, SMTT(30) DEF Spoiled, Absent, IInv, TypeOK, Empties, Records, Sources, OneReset, Lineage, Bound, Held, OneTrial, Underway, MotionIsGrounded
<1>7. Held'
  BY <1>0, SMTT(30) DEF Spoiled, Absent, IInv, TypeOK, Empties, Records, Sources, OneReset, Lineage, Bound, Held, OneTrial, Underway, MotionIsGrounded
<1>8. OneTrial'
  BY <1>0, SMTT(30) DEF Spoiled, Absent, IInv, TypeOK, Empties, Records, Sources, OneReset, Lineage, Bound, Held, OneTrial, Underway, MotionIsGrounded
<1>8a. OneReset'
  BY <1>0, SMTT(30) DEF Spoiled, Absent, IInv, TypeOK, Empties, Records, Sources, OneReset, Lineage, Bound, Held, OneTrial, Underway, MotionIsGrounded
<1>9. Underway'
  BY <1>0, SMTT(30) DEF Spoiled, Absent, IInv, TypeOK, Empties, Records, Sources, OneReset, Lineage, Bound, Held, OneTrial, Underway, MotionIsGrounded
<1>10. MotionIsGrounded'
  BY <1>0, SMTT(30) DEF Spoiled, Absent, IInv, TypeOK, Empties, Records, Sources, OneReset, Lineage, Bound, Held, OneTrial, Underway, MotionIsGrounded
<1> QED BY <1>1, <1>2, <1>3, <1>4, <1>5, <1>6, <1>7, <1>8, <1>8a, <1>9, <1>10 DEF IInv

LEMMA CaptureFollowupStep ==
  ASSUME IInv, CaptureFollowup PROVE IInv'
<1>1. TypeOK'
  <2>1. op.session \in Sessions /\ op.previous \in Sessions
    BY DEF CaptureFollowup, IInv, Underway
  <2>3. session' \in [Sessions -> SessionRecord]
    BY <2>1, CapturedType DEF CaptureFollowup, IInv
  <2> QED BY <2>3, SMTT(30) DEF CaptureFollowup, Captured, Absent, validate_followup_continuity, IInv, TypeOK, SessionRecord, Underway
<1>2. Empties'
  BY SMTT(30) DEF CaptureFollowup, Captured, Absent, validate_followup_continuity, IInv, TypeOK, Empties, Records, Sources, OneReset, Lineage, Bound, Held, OneTrial, Underway, MotionIsGrounded
<1>3. Records'
  BY SMTT(30) DEF CaptureFollowup, Captured, Absent, validate_followup_continuity, IInv, TypeOK, Empties, Records, Sources, OneReset, Lineage, Bound, Held, OneTrial, Underway, MotionIsGrounded
<1>4. Sources'
  BY SMTT(30) DEF CaptureFollowup, Captured, Absent, validate_followup_continuity, IInv, TypeOK, Empties, Records, Sources, OneReset, Lineage, Bound, Held, OneTrial, Underway, MotionIsGrounded
<1>5. Lineage'
  BY SMTT(30) DEF CaptureFollowup, Captured, Absent, validate_followup_continuity, IInv, TypeOK, Empties, Records, Sources, OneReset, Lineage, Bound, Held, OneTrial, Underway, MotionIsGrounded
<1>6. Bound'
  BY SMTT(30) DEF CaptureFollowup, Captured, Absent, validate_followup_continuity, IInv, TypeOK, Empties, Records, Sources, OneReset, Lineage, Bound, Held, OneTrial, Underway, MotionIsGrounded
<1>7. Held'
  BY SMTT(30) DEF CaptureFollowup, Captured, Absent, validate_followup_continuity, IInv, TypeOK, Empties, Records, Sources, OneReset, Lineage, Bound, Held, OneTrial, Underway, MotionIsGrounded
<1>8. OneTrial'
  BY SMTT(30) DEF CaptureFollowup, Captured, Absent, validate_followup_continuity, IInv, TypeOK, Empties, Records, Sources, OneReset, Lineage, Bound, Held, OneTrial, Underway, MotionIsGrounded
<1>8a. OneReset'
  BY SMTT(30) DEF CaptureFollowup, Captured, Absent, validate_followup_continuity, IInv, TypeOK, Empties, Records, Sources, OneReset, Lineage, Bound, Held, OneTrial, Underway, MotionIsGrounded
<1>9. Underway'
  BY SMTT(30) DEF CaptureFollowup, Captured, Absent, validate_followup_continuity, IInv, TypeOK, Empties, Records, Sources, OneReset, Lineage, Bound, Held, OneTrial, Underway, MotionIsGrounded
<1>10. MotionIsGrounded'
  BY SMTT(30) DEF CaptureFollowup, Captured, Absent, validate_followup_continuity, IInv, TypeOK, Empties, Records, Sources, OneReset, Lineage, Bound, Held, OneTrial, Underway, MotionIsGrounded
<1> QED BY <1>1, <1>2, <1>3, <1>4, <1>5, <1>6, <1>7, <1>8, <1>8a, <1>9, <1>10 DEF IInv

LEMMA CaptureHandoffStep ==
  ASSUME IInv, CaptureHandoff PROVE IInv'
<1>1. TypeOK'
  <2>1. op.session \in Sessions /\ op.previous \in Sessions
    BY DEF CaptureHandoff, IInv, Underway
  <2>3. session' \in [Sessions -> SessionRecord]
    BY <2>1, CapturedType DEF CaptureHandoff, IInv
  <2> QED BY <2>3, SMTT(30) DEF CaptureHandoff, Captured, Absent, _contact_grasp_rollback_handoff_state, IInv, TypeOK, SessionRecord, Underway
<1>2. Empties'
  BY SMTT(30) DEF CaptureHandoff, Captured, Absent, _contact_grasp_rollback_handoff_state, IInv, TypeOK, Empties, Records, Sources, OneReset, Lineage, Bound, Held, OneTrial, Underway, MotionIsGrounded
<1>3. Records'
  BY SMTT(30) DEF CaptureHandoff, Captured, Absent, _contact_grasp_rollback_handoff_state, IInv, TypeOK, Empties, Records, Sources, OneReset, Lineage, Bound, Held, OneTrial, Underway, MotionIsGrounded
<1>4. Sources'
  BY SMTT(30) DEF CaptureHandoff, Captured, Absent, _contact_grasp_rollback_handoff_state, IInv, TypeOK, Empties, Records, Sources, OneReset, Lineage, Bound, Held, OneTrial, Underway, MotionIsGrounded
<1>5. Lineage'
  BY SMTT(30) DEF CaptureHandoff, Captured, Absent, _contact_grasp_rollback_handoff_state, IInv, TypeOK, Empties, Records, Sources, OneReset, Lineage, Bound, Held, OneTrial, Underway, MotionIsGrounded
<1>6. Bound'
  BY SMTT(30) DEF CaptureHandoff, Captured, Absent, _contact_grasp_rollback_handoff_state, IInv, TypeOK, Empties, Records, Sources, OneReset, Lineage, Bound, Held, OneTrial, Underway, MotionIsGrounded
<1>7. Held'
  BY SMTT(30) DEF CaptureHandoff, Captured, Absent, _contact_grasp_rollback_handoff_state, IInv, TypeOK, Empties, Records, Sources, OneReset, Lineage, Bound, Held, OneTrial, Underway, MotionIsGrounded
<1>8. OneTrial'
  BY SMTT(30) DEF CaptureHandoff, Captured, Absent, _contact_grasp_rollback_handoff_state, IInv, TypeOK, Empties, Records, Sources, OneReset, Lineage, Bound, Held, OneTrial, Underway, MotionIsGrounded
<1>8a. OneReset'
  BY SMTT(30) DEF CaptureHandoff, Captured, Absent, _contact_grasp_rollback_handoff_state, IInv, TypeOK, Empties, Records, Sources, OneReset, Lineage, Bound, Held, OneTrial, Underway, MotionIsGrounded
<1>9. Underway'
  BY SMTT(30) DEF CaptureHandoff, Captured, Absent, _contact_grasp_rollback_handoff_state, IInv, TypeOK, Empties, Records, Sources, OneReset, Lineage, Bound, Held, OneTrial, Underway, MotionIsGrounded
<1>10. MotionIsGrounded'
  BY SMTT(30) DEF CaptureHandoff, Captured, Absent, _contact_grasp_rollback_handoff_state, IInv, TypeOK, Empties, Records, Sources, OneReset, Lineage, Bound, Held, OneTrial, Underway, MotionIsGrounded
<1> QED BY <1>1, <1>2, <1>3, <1>4, <1>5, <1>6, <1>7, <1>8, <1>8a, <1>9, <1>10 DEF IInv

LEMMA FollowupFailsStep ==
  ASSUME IInv, FollowupFails PROVE IInv'
<1>1. TypeOK'
  <2>1. op.session \in Sessions
    BY DEF FollowupFails, IInv, Underway
  <2>3. session' \in [Sessions -> SessionRecord]
    BY <2>1, SpoiledType DEF FollowupFails, IInv, TypeOK, SessionRecord
  <2> QED BY <2>3, SMTT(30) DEF FollowupFails, Pushed, Spoiled, Absent, IInv, TypeOK, SessionRecord, Underway
<1>2. Empties'
  BY SMTT(30) DEF FollowupFails, Pushed, Spoiled, Absent, IInv, TypeOK, Empties, Records, Sources, OneReset, Lineage, Bound, Held, OneTrial, Underway, MotionIsGrounded
<1>3. Records'
  BY SMTT(30) DEF FollowupFails, Pushed, Spoiled, Absent, IInv, TypeOK, Empties, Records, Sources, OneReset, Lineage, Bound, Held, OneTrial, Underway, MotionIsGrounded
<1>4. Sources'
  BY SMTT(30) DEF FollowupFails, Pushed, Spoiled, Absent, IInv, TypeOK, Empties, Records, Sources, OneReset, Lineage, Bound, Held, OneTrial, Underway, MotionIsGrounded
<1>5. Lineage'
  BY SMTT(30) DEF FollowupFails, Pushed, Spoiled, Absent, IInv, TypeOK, Empties, Records, Sources, OneReset, Lineage, Bound, Held, OneTrial, Underway, MotionIsGrounded
<1>6. Bound'
  BY SMTT(30) DEF FollowupFails, Pushed, Spoiled, Absent, IInv, TypeOK, Empties, Records, Sources, OneReset, Lineage, Bound, Held, OneTrial, Underway, MotionIsGrounded
<1>7. Held'
  BY SMTT(30) DEF FollowupFails, Pushed, Spoiled, Absent, IInv, TypeOK, Empties, Records, Sources, OneReset, Lineage, Bound, Held, OneTrial, Underway, MotionIsGrounded
<1>8. OneTrial'
  BY SMTT(30) DEF FollowupFails, Pushed, Spoiled, Absent, IInv, TypeOK, Empties, Records, Sources, OneReset, Lineage, Bound, Held, OneTrial, Underway, MotionIsGrounded
<1>8a. OneReset'
  BY SMTT(30) DEF FollowupFails, Pushed, Spoiled, Absent, IInv, TypeOK, Empties, Records, Sources, OneReset, Lineage, Bound, Held, OneTrial, Underway, MotionIsGrounded
<1>9. Underway'
  BY SMTT(30) DEF FollowupFails, Pushed, Spoiled, Absent, IInv, TypeOK, Empties, Records, Sources, OneReset, Lineage, Bound, Held, OneTrial, Underway, MotionIsGrounded
<1>10. MotionIsGrounded'
  BY SMTT(30) DEF FollowupFails, Pushed, Spoiled, Absent, IInv, TypeOK, Empties, Records, Sources, OneReset, Lineage, Bound, Held, OneTrial, Underway, MotionIsGrounded
<1> QED BY <1>1, <1>2, <1>3, <1>4, <1>5, <1>6, <1>7, <1>8, <1>8a, <1>9, <1>10 DEF IInv

LEMMA EvaluateSafetyStep ==
  ASSUME IInv, NEW s \in Sessions, NEW verdict \in {"passed", "failed"}, EvaluateSafety(s, verdict) PROVE IInv'
<1>1. TypeOK'
  <2>1. session \in [Sessions -> SessionRecord] /\ s \in Sessions
    BY DEF EvaluateSafety, Pushed, Absent, IInv, TypeOK, SessionRecord, Records, Underway
  <2>2. \A t \in Sessions : session'[t] \in SessionRecord
    BY <2>1, SMTT(30) DEF EvaluateSafety, Pushed, Absent, IInv, TypeOK, SessionRecord
  <2>3. session' \in [Sessions -> SessionRecord]
    BY <2>1, <2>2 DEF EvaluateSafety, Pushed, Absent
  <2> QED BY <2>3, SMTT(30) DEF EvaluateSafety, Pushed, Absent, IInv, TypeOK, SessionRecord, Underway
<1>2. Empties'
  BY SMTT(30) DEF EvaluateSafety, Pushed, Absent, IInv, TypeOK, Empties, Records, Sources, OneReset, Lineage, Bound, Held, OneTrial, Underway, MotionIsGrounded
<1>3. Records'
  BY SMTT(30) DEF EvaluateSafety, Pushed, Absent, IInv, TypeOK, Empties, Records, Sources, OneReset, Lineage, Bound, Held, OneTrial, Underway, MotionIsGrounded
<1>4. Sources'
  BY SMTT(30) DEF EvaluateSafety, Pushed, Absent, IInv, TypeOK, Empties, Records, Sources, OneReset, Lineage, Bound, Held, OneTrial, Underway, MotionIsGrounded
<1>5. Lineage'
  BY SMTT(30) DEF EvaluateSafety, Pushed, Absent, IInv, TypeOK, Empties, Records, Sources, OneReset, Lineage, Bound, Held, OneTrial, Underway, MotionIsGrounded
<1>6. Bound'
  BY SMTT(30) DEF EvaluateSafety, Pushed, Absent, IInv, TypeOK, Empties, Records, Sources, OneReset, Lineage, Bound, Held, OneTrial, Underway, MotionIsGrounded
<1>7. Held'
  BY SMTT(30) DEF EvaluateSafety, Pushed, Absent, IInv, TypeOK, Empties, Records, Sources, OneReset, Lineage, Bound, Held, OneTrial, Underway, MotionIsGrounded
<1>8. OneTrial'
  BY SMTT(30) DEF EvaluateSafety, Pushed, Absent, IInv, TypeOK, Empties, Records, Sources, OneReset, Lineage, Bound, Held, OneTrial, Underway, MotionIsGrounded
<1>8a. OneReset'
  BY SMTT(30) DEF EvaluateSafety, Pushed, Absent, IInv, TypeOK, Empties, Records, Sources, OneReset, Lineage, Bound, Held, OneTrial, Underway, MotionIsGrounded
<1>9. Underway'
  BY SMTT(30) DEF EvaluateSafety, Pushed, Absent, IInv, TypeOK, Empties, Records, Sources, OneReset, Lineage, Bound, Held, OneTrial, Underway, MotionIsGrounded
<1>10. MotionIsGrounded'
  BY SMTT(30) DEF EvaluateSafety, Pushed, Absent, IInv, TypeOK, Empties, Records, Sources, OneReset, Lineage, Bound, Held, OneTrial, Underway, MotionIsGrounded
<1> QED BY <1>1, <1>2, <1>3, <1>4, <1>5, <1>6, <1>7, <1>8, <1>8a, <1>9, <1>10 DEF IInv

LEMMA PersistedType ==
  ASSUME NEW e \in Sessions, NEW s \in Sessions, session \in [Sessions -> SessionRecord],
         NEW trial \in SessionRecord, Persisted(e, s, trial)
  PROVE session' \in [Sessions -> SessionRecord]
<1>1. PICK files \in {"captured", "answered"}, source \in {None, s} :
        session' = [session EXCEPT ![e] = [trial EXCEPT !.files = files, !.source = source]]
  BY DEF Persisted
<1>2. [trial EXCEPT !.files = files, !.source = source] \in SessionRecord
  BY RecordUpdates
<1> QED BY <1>1, <1>2, WrittenType

LEMMA FollowupTrialStep ==
  ASSUME IInv, NEW e \in Sessions, NEW s \in Sessions, persist_insertion_followup_response(e, s)
  PROVE IInv'
<1>1. TypeOK'
  <2>1. session \in [Sessions -> SessionRecord]
    BY DEF IInv, TypeOK, SessionRecord
  <2>2. [session[s] EXCEPT !.kind = "trial", !.safety = "none"] \in SessionRecord
    BY <2>1, RecordUpdates
  <2>3. session' \in [Sessions -> SessionRecord]
    BY <2>1, <2>2, PersistedType DEF persist_insertion_followup_response
  <2> QED BY <2>3, SMTT(30) DEF persist_insertion_followup_response, IInv, TypeOK, SessionRecord
<1>2. Empties'
  BY SMTT(30) DEF persist_insertion_followup_response, Persisted, Source, IInv, TypeOK, Empties, Records, Sources, OneReset, Lineage, Bound, Held, OneTrial, Underway, MotionIsGrounded
<1>3. Records'
  BY SMTT(30) DEF persist_insertion_followup_response, Persisted, Source, IInv, TypeOK, Empties, Records, Sources, OneReset, Lineage, Bound, Held, OneTrial, Underway, MotionIsGrounded
<1>4. Sources'
  BY SMTT(30) DEF persist_insertion_followup_response, Persisted, Source, IInv, TypeOK, Empties, Records, Sources, OneReset, Lineage, Bound, Held, OneTrial, Underway, MotionIsGrounded
<1>5. OneReset'
  BY SMTT(30) DEF persist_insertion_followup_response, Persisted, Source, IInv, TypeOK, Empties, Records, Sources, OneReset, Lineage, Bound, Held, OneTrial, Underway, MotionIsGrounded
<1>6. Lineage'
  BY SMTT(30) DEF persist_insertion_followup_response, Persisted, Source, IInv, TypeOK, Empties, Records, Sources, OneReset, Lineage, Bound, Held, OneTrial, Underway, MotionIsGrounded
<1>7. Bound'
  BY SMTT(30) DEF persist_insertion_followup_response, Persisted, Source, IInv, TypeOK, Empties, Records, Sources, OneReset, Lineage, Bound, Held, OneTrial, Underway, MotionIsGrounded
<1>8. Held'
  BY SMTT(30) DEF persist_insertion_followup_response, Persisted, Source, IInv, TypeOK, Empties, Records, Sources, OneReset, Lineage, Bound, Held, OneTrial, Underway, MotionIsGrounded
<1>9. OneTrial'
  BY SMTT(30) DEF persist_insertion_followup_response, Persisted, Source, IInv, TypeOK, Empties, Records, Sources, OneReset, Lineage, Bound, Held, OneTrial, Underway, MotionIsGrounded
<1>10. Underway'
  BY SMTT(30) DEF persist_insertion_followup_response, Persisted, Source, IInv, TypeOK, Empties, Records, Sources, OneReset, Lineage, Bound, Held, OneTrial, Underway, MotionIsGrounded
<1>11. MotionIsGrounded'
  BY SMTT(30) DEF persist_insertion_followup_response, Persisted, Source, IInv, TypeOK, Empties, Records, Sources, OneReset, Lineage, Bound, Held, OneTrial, Underway, MotionIsGrounded
<1> QED BY <1>1, <1>2, <1>3, <1>4, <1>5, <1>6, <1>7, <1>8, <1>9, <1>10, <1>11 DEF IInv

LEMMA ResetTrialStep ==
  ASSUME IInv, NEW e \in Sessions, NEW s \in Sessions, persist_insertion_trial_response(e, s)
  PROVE IInv'
<1>1. TypeOK'
  <2>1. session \in [Sessions -> SessionRecord]
    BY DEF IInv, TypeOK, SessionRecord
  <2>2. session[e] \in SessionRecord
    BY <2>1, RecordUpdates
  <2>3. session' \in [Sessions -> SessionRecord]
    BY <2>1, <2>2, PersistedType DEF persist_insertion_trial_response
  <2> QED BY <2>3, SMTT(30) DEF persist_insertion_trial_response, IInv, TypeOK, SessionRecord
<1>2. Empties'
  BY SMTT(30) DEF persist_insertion_trial_response, Persisted, Source, IInv, TypeOK, Empties, Records, Sources, OneReset, Lineage, Bound, Held, OneTrial, Underway, MotionIsGrounded
<1>3. Records'
  BY SMTT(30) DEF persist_insertion_trial_response, Persisted, Source, IInv, TypeOK, Empties, Records, Sources, OneReset, Lineage, Bound, Held, OneTrial, Underway, MotionIsGrounded
<1>4. Sources'
  BY SMTT(30) DEF persist_insertion_trial_response, Persisted, Source, IInv, TypeOK, Empties, Records, Sources, OneReset, Lineage, Bound, Held, OneTrial, Underway, MotionIsGrounded
<1>5. OneReset'
  BY SMTT(30) DEF persist_insertion_trial_response, Persisted, Source, IInv, TypeOK, Empties, Records, Sources, OneReset, Lineage, Bound, Held, OneTrial, Underway, MotionIsGrounded
<1>6. Lineage'
  BY SMTT(30) DEF persist_insertion_trial_response, Persisted, Source, IInv, TypeOK, Empties, Records, Sources, OneReset, Lineage, Bound, Held, OneTrial, Underway, MotionIsGrounded
<1>7. Bound'
  BY SMTT(30) DEF persist_insertion_trial_response, Persisted, Source, IInv, TypeOK, Empties, Records, Sources, OneReset, Lineage, Bound, Held, OneTrial, Underway, MotionIsGrounded
<1>8. Held'
  BY SMTT(30) DEF persist_insertion_trial_response, Persisted, Source, IInv, TypeOK, Empties, Records, Sources, OneReset, Lineage, Bound, Held, OneTrial, Underway, MotionIsGrounded
<1>9. OneTrial'
  BY SMTT(30) DEF persist_insertion_trial_response, Persisted, Source, IInv, TypeOK, Empties, Records, Sources, OneReset, Lineage, Bound, Held, OneTrial, Underway, MotionIsGrounded
<1>10. Underway'
  BY SMTT(30) DEF persist_insertion_trial_response, Persisted, Source, IInv, TypeOK, Empties, Records, Sources, OneReset, Lineage, Bound, Held, OneTrial, Underway, MotionIsGrounded
<1>11. MotionIsGrounded'
  BY SMTT(30) DEF persist_insertion_trial_response, Persisted, Source, IInv, TypeOK, Empties, Records, Sources, OneReset, Lineage, Bound, Held, OneTrial, Underway, MotionIsGrounded
<1> QED BY <1>1, <1>2, <1>3, <1>4, <1>5, <1>6, <1>7, <1>8, <1>9, <1>10, <1>11 DEF IInv

LEMMA ApplyStep ==
  ASSUME IInv, NEW s \in Sessions, Apply(s) PROVE IInv'
<1>1. TypeOK'
  <2>1. s \in Sessions /\ session \in [Sessions -> SessionRecord]
    BY DEF Apply, IInv, TypeOK, SessionRecord, Underway
  <2>2. [session[s] EXCEPT !.claimed = TRUE] \in SessionRecord
    BY <2>1, RecordUpdates
  <2>3. session' \in [Sessions -> SessionRecord]
    BY <2>1, <2>2, WrittenType DEF Apply
  <2> QED BY <2>3, SMTT(30) DEF Apply, Absent, IInv, TypeOK, SessionRecord, Underway
<1>2. Empties'
  BY SMTT(30) DEF Apply, Absent, IInv, TypeOK, Empties, Records, Sources, OneReset, Lineage, Bound, Held, OneTrial, Underway, MotionIsGrounded
<1>3. Records'
  BY SMTT(30) DEF Apply, Absent, IInv, TypeOK, Empties, Records, Sources, OneReset, Lineage, Bound, Held, OneTrial, Underway, MotionIsGrounded
<1>4. Sources'
  BY SMTT(30) DEF Apply, Absent, IInv, TypeOK, Empties, Records, Sources, OneReset, Lineage, Bound, Held, OneTrial, Underway, MotionIsGrounded
<1>5. Lineage'
  BY SMTT(30) DEF Apply, Absent, IInv, TypeOK, Empties, Records, Sources, OneReset, Lineage, Bound, Held, OneTrial, Underway, MotionIsGrounded
<1>6. Bound'
  BY SMTT(30) DEF Apply, Absent, IInv, TypeOK, Empties, Records, Sources, OneReset, Lineage, Bound, Held, OneTrial, Underway, MotionIsGrounded
<1>7. Held'
  BY SMTT(30) DEF Apply, Absent, IInv, TypeOK, Empties, Records, Sources, OneReset, Lineage, Bound, Held, OneTrial, Underway, MotionIsGrounded
<1>8. OneTrial'
  BY SMTT(30) DEF Apply, Absent, IInv, TypeOK, Empties, Records, Sources, OneReset, Lineage, Bound, Held, OneTrial, Underway, MotionIsGrounded
<1>8a. OneReset'
  BY SMTT(30) DEF Apply, Absent, IInv, TypeOK, Empties, Records, Sources, OneReset, Lineage, Bound, Held, OneTrial, Underway, MotionIsGrounded
<1>9. Underway'
  BY SMTT(30) DEF Apply, Absent, IInv, TypeOK, Empties, Records, Sources, OneReset, Lineage, Bound, Held, OneTrial, Underway, MotionIsGrounded
<1>10. MotionIsGrounded'
  BY SMTT(30) DEF Apply, Absent, IInv, TypeOK, Empties, Records, Sources, OneReset, Lineage, Bound, Held, OneTrial, Underway, MotionIsGrounded
<1> QED BY <1>1, <1>2, <1>3, <1>4, <1>5, <1>6, <1>7, <1>8, <1>8a, <1>9, <1>10 DEF IInv

LEMMA RefuseStep ==
  ASSUME IInv, Refuse PROVE IInv'
<1>1. TypeOK'
  <2>1. session \in [Sessions -> SessionRecord] /\ op.session \in Sessions
    BY DEF Refuse, Pushed, Absent, IInv, TypeOK, SessionRecord, Records, Underway
  <2>2. \A t \in Sessions : session'[t] \in SessionRecord
    BY <2>1, SMTT(30) DEF Refuse, Pushed, Absent, IInv, TypeOK, SessionRecord
  <2>3. session' \in [Sessions -> SessionRecord]
    BY <2>1, <2>2 DEF Refuse, Pushed, Absent
  <2> QED BY <2>3, SMTT(30) DEF Refuse, Pushed, Absent, IInv, TypeOK, SessionRecord, Underway
<1>2. Empties'
  BY SMTT(30) DEF Refuse, Pushed, Absent, IInv, TypeOK, Empties, Records, Sources, OneReset, Lineage, Bound, Held, OneTrial, Underway, MotionIsGrounded
<1>3. Records'
  BY SMTT(30) DEF Refuse, Pushed, Absent, IInv, TypeOK, Empties, Records, Sources, OneReset, Lineage, Bound, Held, OneTrial, Underway, MotionIsGrounded
<1>4. Sources'
  BY SMTT(30) DEF Refuse, Pushed, Absent, IInv, TypeOK, Empties, Records, Sources, OneReset, Lineage, Bound, Held, OneTrial, Underway, MotionIsGrounded
<1>5. Lineage'
  BY SMTT(30) DEF Refuse, Pushed, Absent, IInv, TypeOK, Empties, Records, Sources, OneReset, Lineage, Bound, Held, OneTrial, Underway, MotionIsGrounded
<1>6. Bound'
  BY SMTT(30) DEF Refuse, Pushed, Absent, IInv, TypeOK, Empties, Records, Sources, OneReset, Lineage, Bound, Held, OneTrial, Underway, MotionIsGrounded
<1>7. Held'
  BY SMTT(30) DEF Refuse, Pushed, Absent, IInv, TypeOK, Empties, Records, Sources, OneReset, Lineage, Bound, Held, OneTrial, Underway, MotionIsGrounded
<1>8. OneTrial'
  BY SMTT(30) DEF Refuse, Pushed, Absent, IInv, TypeOK, Empties, Records, Sources, OneReset, Lineage, Bound, Held, OneTrial, Underway, MotionIsGrounded
<1>8a. OneReset'
  BY SMTT(30) DEF Refuse, Pushed, Absent, IInv, TypeOK, Empties, Records, Sources, OneReset, Lineage, Bound, Held, OneTrial, Underway, MotionIsGrounded
<1>9. Underway'
  BY SMTT(30) DEF Refuse, Pushed, Absent, IInv, TypeOK, Empties, Records, Sources, OneReset, Lineage, Bound, Held, OneTrial, Underway, MotionIsGrounded
<1>10. MotionIsGrounded'
  BY SMTT(30) DEF Refuse, Pushed, Absent, IInv, TypeOK, Empties, Records, Sources, OneReset, Lineage, Bound, Held, OneTrial, Underway, MotionIsGrounded
<1> QED BY <1>1, <1>2, <1>3, <1>4, <1>5, <1>6, <1>7, <1>8, <1>8a, <1>9, <1>10 DEF IInv

LEMMA MoveStep ==
  ASSUME IInv, Move PROVE IInv'
<1>1. TypeOK'
  <2>1. op.session \in Sessions /\ session \in [Sessions -> SessionRecord]
    BY DEF Move, IInv, TypeOK, SessionRecord, Underway
  <2>2. [session[op.session] EXCEPT !.moved = TRUE] \in SessionRecord
    BY <2>1, RecordUpdates
  <2>3. session' \in [Sessions -> SessionRecord]
    BY <2>1, <2>2, WrittenType DEF Move
  <2> QED BY <2>3, SMTT(30) DEF Move, Absent, IInv, TypeOK, SessionRecord, Underway
<1>2. Empties'
  BY SMTT(30) DEF Move, Absent, IInv, TypeOK, Empties, Records, Sources, OneReset, Lineage, Bound, Held, OneTrial, Underway, MotionIsGrounded
<1>3. Records'
  BY SMTT(30) DEF Move, Absent, IInv, TypeOK, Empties, Records, Sources, OneReset, Lineage, Bound, Held, OneTrial, Underway, MotionIsGrounded
<1>4. Sources'
  BY SMTT(30) DEF Move, Absent, IInv, TypeOK, Empties, Records, Sources, OneReset, Lineage, Bound, Held, OneTrial, Underway, MotionIsGrounded
<1>5. Lineage'
  BY SMTT(30) DEF Move, Absent, IInv, TypeOK, Empties, Records, Sources, OneReset, Lineage, Bound, Held, OneTrial, Underway, MotionIsGrounded
<1>6. Bound'
  BY SMTT(30) DEF Move, Absent, IInv, TypeOK, Empties, Records, Sources, OneReset, Lineage, Bound, Held, OneTrial, Underway, MotionIsGrounded
<1>7. Held'
  BY SMTT(30) DEF Move, Absent, IInv, TypeOK, Empties, Records, Sources, OneReset, Lineage, Bound, Held, OneTrial, Underway, MotionIsGrounded
<1>8. OneTrial'
  BY SMTT(30) DEF Move, Absent, IInv, TypeOK, Empties, Records, Sources, OneReset, Lineage, Bound, Held, OneTrial, Underway, MotionIsGrounded
<1>8a. OneReset'
  BY SMTT(30) DEF Move, Absent, IInv, TypeOK, Empties, Records, Sources, OneReset, Lineage, Bound, Held, OneTrial, Underway, MotionIsGrounded
<1>9. Underway'
  BY SMTT(30) DEF Move, Absent, IInv, TypeOK, Empties, Records, Sources, OneReset, Lineage, Bound, Held, OneTrial, Underway, MotionIsGrounded
<1>10. MotionIsGrounded'
  BY SMTT(30) DEF Move, Absent, IInv, TypeOK, Empties, Records, Sources, OneReset, Lineage, Bound, Held, OneTrial, Underway, MotionIsGrounded
<1> QED BY <1>1, <1>2, <1>3, <1>4, <1>5, <1>6, <1>7, <1>8, <1>8a, <1>9, <1>10 DEF IInv

LEMMA EndMoveStep ==
  ASSUME IInv, NEW result \in Results, EndMove(result) PROVE IInv'
<1> DEFINE s == op.session
<1>1. /\ op.name = "move" /\ op' = Idle
      /\ s \in Sessions /\ binding = bound(s) /\ session[s].claimed
      /\ UNCHANGED <<stage, binding>>
  BY DEF EndMove, IInv, Underway
<1> DEFINE new(r, pose) == IF result = "applied"
                           THEN [session[s] EXCEPT !.result = r, !.end = pose]
                           ELSE [session[s] EXCEPT !.result = r]
<1>2. PICK r \in {"none", result}, pose \in Poses \cup {Astray} :
        /\ session' = [session EXCEPT ![s] = new(r, pose)]
        /\ \/ result = "applied" /\ pose \in Poses /\ robot' = [at |-> s, pose |-> pose]
           \/ result = "rolled_back" /\ robot' = [robot EXCEPT !.pose = session[s].pose]
           \/ result = "rollback_failed" /\ robot' = Lost
  <2>1. CASE result = "applied"
    BY <2>1 DEF EndMove
  <2>2. CASE result = "rolled_back"
    BY <2>2 DEF EndMove
  <2>3. CASE result = "rollback_failed"
    BY <2>3 DEF EndMove
  <2> QED BY <2>1, <2>2, <2>3 DEF EndMove
<1>3. TypeOK'
  <2>1. session \in [Sessions -> SessionRecord]
    BY DEF IInv, TypeOK, SessionRecord
  <2>2. new(r, pose) \in SessionRecord
    BY <1>1, <1>2, <2>1, RecordUpdates
  <2>3. session' \in [Sessions -> SessionRecord]
    BY <1>1, <1>2, <2>1, <2>2, WrittenType
  <2> QED BY <1>1, <1>2, <2>3 DEF IInv, TypeOK, SessionRecord
<1>4. Empties'
  BY <1>1, <1>2, SMTT(30) DEF IInv, TypeOK, Empties, Records, Sources, OneReset, Lineage, Bound, Held, OneTrial, Underway, MotionIsGrounded
<1>5. Records'
  BY <1>1, <1>2, SMTT(30) DEF IInv, TypeOK, Empties, Records, Sources, OneReset, Lineage, Bound, Held, OneTrial, Underway, MotionIsGrounded
<1>6. Sources'
  BY <1>1, <1>2, SMTT(30) DEF IInv, TypeOK, Empties, Records, Sources, OneReset, Lineage, Bound, Held, OneTrial, Underway, MotionIsGrounded
<1>7. Lineage'
  BY <1>1, <1>2, SMTT(30) DEF IInv, TypeOK, Empties, Records, Sources, OneReset, Lineage, Bound, Held, OneTrial, Underway, MotionIsGrounded
<1>8. Bound'
  BY <1>1, <1>2, SMTT(30) DEF IInv, TypeOK, Empties, Records, Sources, OneReset, Lineage, Bound, Held, OneTrial, Underway, MotionIsGrounded
<1>9. Held'
  BY <1>1, <1>2, SMTT(30) DEF IInv, TypeOK, Empties, Records, Sources, OneReset, Lineage, Bound, Held, OneTrial, Underway, MotionIsGrounded
<1>10. OneTrial'
  BY <1>1, <1>2, SMTT(30) DEF IInv, TypeOK, Empties, Records, Sources, OneReset, Lineage, Bound, Held, OneTrial, Underway, MotionIsGrounded
<1>10a. OneReset'
  BY <1>1, <1>2, SMTT(30) DEF IInv, TypeOK, Empties, Records, Sources, OneReset, Lineage, Bound, Held, OneTrial, Underway, MotionIsGrounded
<1>11. Underway'
  BY <1>1, <1>2, SMTT(30) DEF IInv, TypeOK, Empties, Records, Sources, OneReset, Lineage, Bound, Held, OneTrial, Underway, MotionIsGrounded
<1>12. MotionIsGrounded'
  BY <1>1, <1>2, SMTT(30) DEF IInv, TypeOK, Empties, Records, Sources, OneReset, Lineage, Bound, Held, OneTrial, Underway, MotionIsGrounded
<1> QED BY <1>3, <1>4, <1>5, <1>6, <1>7, <1>8, <1>9, <1>10, <1>10a, <1>11, <1>12 DEF IInv

-----------------------------------------------------------------------------
LEMMA Step == IInv /\ [Next]_vars => IInv'
<1> SUFFICES ASSUME IInv, [Next]_vars PROVE IInv'
  OBVIOUS
<1>1. CASE Capture
  BY <1>1, BeginCaptureStep, CaptureResetFailsStep, CaptureResetStep DEF Capture
<1>2. CASE Followup
  BY <1>2, BeginFollowupStep, BeginHandoffStep, CaptureFollowupStep, CaptureHandoffStep,
     FollowupFailsStep
     DEF Followup
<1>3. CASE Trial
  BY <1>3, EvaluateSafetyStep, FollowupTrialStep, ResetTrialStep DEF Trial
<1>4. CASE Motion
  BY <1>4, ApplyStep, RefuseStep, MoveStep, EndMoveStep DEF Motion
<1>5. CASE Retry
  BY <1>5, RetryStep DEF Retry
<1>6. CASE OtherReset \/ Reload \/ Restart
  BY <1>6, OtherStep
<1>7. CASE UNCHANGED vars
  BY <1>7, StutterStep
<1> QED BY <1>1, <1>2, <1>3, <1>4, <1>5, <1>6, <1>7 DEF Next

LEMMA Invariance == Spec => []IInv
  BY InitInvariant, Step, PTL DEF Spec

\* Every variable keeps the shape the code gives it.
THEOREM TypeCorrect == Spec => []TypeOK
  BY Invariance, PTL DEF IInv

\* An insertion session moves the robot only from the very state it was captured
\* in, however many sessions, retries and stages there are.
THEOREM Grounded == Spec => []MotionIsGrounded
  BY Invariance, PTL DEF IInv

\* A safety evaluation of an applied step looks at the end of that step.
THEOREM FollowupEnds == Spec => []FollowupStartsAtEnd
<1>1. IInv => FollowupStartsAtEnd
  BY DEF IInv, Lineage, FollowupStartsAtEnd
<1> QED BY <1>1, Invariance, PTL

\* A safety evaluation moves the robot at most once for each reset, however many
\* trials were bound to it.
THEOREM OneMotion == Spec => []OneMotionPerReset
<1>1. IInv => OneMotionPerReset
  BY DEF IInv, OneTrial, OneMotionPerReset
<1> QED BY <1>1, Invariance, PTL
=============================================================================
