-------------------------- MODULE UnknownStartProofs --------------------------
(***************************************************************************)
(* Proofs about UnknownStart and the recordings below it, for any names,   *)
(* windows, waits and bounds: that the scene is still between operations,  *)
(* and that what an unknown-start session says of the scene it was         *)
(* captured, judged and recovered in is true.                              *)
(***************************************************************************)
EXTENDS UnknownStart, TLAPS

(***************************************************************************)
(* Types.                                                                  *)
(***************************************************************************)
Names == Sessions \cup {"none"}
Recs == Recordings \cup {"none"}

SceneRecord ==
  [variant : Recordings \cup {"base"}, arm : {"at", "near", "away"},
   plug : {"placed", "moved"}, attached : BOOLEAN, collides : BOOLEAN, bound : Names]

SessionRecord ==
  [dir : BOOLEAN, reset : Recs,
   policy : {"none", "direct", "reset_trial_candidate"}, captured : SceneRecord \cup {NoScene},
   handoff : BOOLEAN, planned : BOOLEAN, safety : SceneRecord \cup {NoScene}, source : Names,
   result : {"none", "applied", "rolled_back", "rollback_failed"}, clean : BOOLEAN,
   recovery : {"none", "exact", "inexact"}, superseded : Nat]

Opening   == {"opening", "preparing", "warming"}
Playing   == {"settling", "filming"}
Writing   == {"steps", "manifest", "evidence", "capture_file"}
Capturing == {"pausing", "rendering", "handoff", "binding"}
Executing == {"responding", "applying", "moving"}
Recovering == {"pausing", "refreshing", "rolling_back", "initializing"}
Kind == RecordingKinds \cup Captures \cup {"recover", "preflight", "none"}
Pc == Opening \cup Playing \cup Writing \cup Capturing \cup Executing \cup Recovering \cup {"none"}

OpRecord ==
  [kind : Kind, rec : Recs, session : Names, pc : Pc,
   run : 0..MaxRuns, seg : Nat, late : Nat, waits : Nat, steps : Seq(Frame)]

DiskRecord ==
  [made : Nat, frames : Seq(Frame), steps : Seq(Frame),
   manifest : [kind : Kind, frames : Nat],
   negative : BOOLEAN, evidence : BOOLEAN, capture : BOOLEAN]

Typed ==
  /\ scene \in SceneRecord
  /\ timeline \in {"stopped", "paused", "playing"} /\ auto \in BOOLEAN
  /\ dt \in {"app", "sample", "film"}
  /\ op \in OpRecord /\ cameras \subseteq 1..MaxRuns
  /\ disk \in [Recordings -> DiskRecord]
  /\ runs \in 0..MaxRuns /\ faults \in 0..MaxFaults /\ ops \in Nat
  /\ sessions \in [Sessions -> SessionRecord]
  /\ authentic \subseteq Recordings
  /\ returned \in [kind : Kind, session : Names]

(***************************************************************************)
(* The invariant.                                                          *)
(***************************************************************************)
\* Which operation is at which of its steps.
Positions ==
  \/ op = NoOp
  \/ /\ op.kind \in RecordingKinds /\ op.rec \in Recordings /\ op.run \in 1..MaxRuns
     /\ op.pc \in Opening \cup Playing \cup Writing
     /\ op.pc \in {"evidence", "capture_file"} => op.kind = "reset"
     /\ op.pc = "filming" => op.seg >= 1
  \/ /\ op.kind \in Captures /\ op.rec \in Recordings /\ op.session \in Sessions
     /\ op.pc \in Capturing \cup Executing
     /\ op.pc \in Executing => op.kind = "execute"
  \/ /\ op.kind = "recover" /\ op.session \in Sessions /\ op.pc \in Recovering
  \/ /\ op.kind = "preflight" /\ op.rec \in Recordings /\ op.pc = "pausing"

\* Physics advances on its own only while something is filmed or executed, and
\* not when the image of a capture resumes the timeline.
Still == /\ op.pc \notin Playing \cup {"moving"} => ~Advances
         /\ op.pc = "rendering" => ~auto

\* A recording opens its stage with the timeline stopped.
Opened == op.pc \in Opening => timeline = "stopped"

\* The rendering period is another one only until the last frame.
Period == dt # "app" => op.pc \in Opening \cup Playing

IInvScene == Typed /\ Positions /\ Still /\ Opened /\ Period

\* A directory that was not made says nothing of its session.
Unmade == \A s \in Sessions : ~sessions[s].dir => sessions[s] = NoSession

\* What the unknown-start operation under way has established of its session.
Established ==
  /\ op.kind \in Captures => (Mine.dir <=> op.pc \notin {"pausing", "rendering"})
  /\ op.pc \in {"rendering", "handoff"} => op.rec \in authentic
  /\ op.pc = "handoff" =>
       Mine.reset = op.rec /\ AtReset(Mine.captured, op.rec) /\ Mine.safety = NoScene
  /\ op.kind = "recover" => Mine.handoff

\* What returned was an operation of a session.
Returns == returned.kind = "recover" => returned.session \in Sessions

IInvSession ==
  Unmade /\ Returns /\ Established /\ RequestIsGrounded /\ JudgedAtReset /\ RecoveryIsTrue

IInv == IInvScene /\ IInvSession

-----------------------------------------------------------------------------
USE RecordingsAssumption, UnknownStartAssumption
USE DEF Opening, Playing, Writing, Capturing, Executing, Recovering, Captures

(***************************************************************************)
(* Records that are written keep their shape.                              *)
(***************************************************************************)
LEMMA SceneUpdates ==
  ASSUME NEW x \in SceneRecord
  PROVE /\ \A r \in Recordings \cup {"base"} : [x EXCEPT !.variant = r] \in SceneRecord
        /\ \A y \in {"at", "near", "away"} : [x EXCEPT !.arm = y] \in SceneRecord
        /\ \A y \in {"placed", "moved"} : [x EXCEPT !.plug = y] \in SceneRecord
        /\ \A y \in {"at", "near", "away"}, z \in {"placed", "moved"} :
             [x EXCEPT !.arm = y, !.plug = z] \in SceneRecord
        /\ \A y \in BOOLEAN, z \in {"at", "near", "away"} :
             [x EXCEPT !.attached = y, !.arm = z] \in SceneRecord
        /\ \A y \in BOOLEAN, z \in BOOLEAN :
             [x EXCEPT !.attached = y, !.collides = z] \in SceneRecord
        /\ \A y \in BOOLEAN : [x EXCEPT !.attached = y] \in SceneRecord
        /\ \A y \in BOOLEAN : [x EXCEPT !.collides = y] \in SceneRecord
        /\ \A s \in Sessions : [x EXCEPT !.bound = s] \in SceneRecord
  BY Zenon DEF SceneRecord, Names

LEMMA OpUpdates ==
  ASSUME NEW o \in OpRecord
  PROVE /\ \A pc \in Pc : [o EXCEPT !.pc = pc] \in OpRecord
        /\ \A pc \in Pc, n \in Nat : [o EXCEPT !.pc = pc, !.late = n] \in OpRecord
        /\ \A pc \in Pc, n \in Nat : [o EXCEPT !.pc = pc, !.seg = n] \in OpRecord
        /\ \A n \in Nat, m \in Nat : [o EXCEPT !.seg = n, !.waits = m] \in OpRecord
        /\ \A steps \in Seq(Frame), n \in Nat, m \in Nat :
             [o EXCEPT !.steps = steps, !.seg = n, !.waits = m] \in OpRecord
  BY Zenon DEF OpRecord

LEMMA OpFields ==
  ASSUME NEW o \in OpRecord
  PROVE /\ o.kind \in Kind /\ o.rec \in Recs /\ o.session \in Names /\ o.pc \in Pc
        /\ o.run \in 0..MaxRuns /\ o.seg \in Nat /\ o.late \in Nat /\ o.waits \in Nat
        /\ o.steps \in Seq(Frame)
  BY DEF OpRecord

LEMMA DiskUpdates ==
  ASSUME NEW d \in DiskRecord
  PROVE /\ \A n \in Nat : [d EXCEPT !.made = n] \in DiskRecord
        /\ \A frames \in Seq(Frame) : [d EXCEPT !.frames = frames] \in DiskRecord
        /\ \A steps \in Seq(Frame) : [d EXCEPT !.steps = steps] \in DiskRecord
        /\ \A manifest \in [kind : Kind, frames : Nat] :
             [d EXCEPT !.manifest = manifest] \in DiskRecord
        /\ [d EXCEPT !.negative = TRUE] \in DiskRecord
        /\ [d EXCEPT !.evidence = TRUE] \in DiskRecord
        /\ [d EXCEPT !.capture = TRUE] \in DiskRecord
  BY Zenon DEF DiskRecord

LEMMA SessionUpdates ==
  ASSUME NEW x \in SessionRecord
  PROVE /\ [x EXCEPT !.dir = TRUE] \in SessionRecord
        /\ \A r \in Recordings, y \in SceneRecord, p \in {"direct", "reset_trial_candidate"} :
             [x EXCEPT !.dir = TRUE, !.reset = r, !.captured = y, !.policy = p]
               \in SessionRecord
        /\ [x EXCEPT !.handoff = TRUE] \in SessionRecord
        /\ [x EXCEPT !.planned = TRUE] \in SessionRecord
        /\ \A y \in SceneRecord : [x EXCEPT !.safety = y] \in SessionRecord
        /\ \A s \in Sessions : [x EXCEPT !.source = s] \in SessionRecord
        /\ \A y \in {"applied", "rolled_back", "rollback_failed"}, z \in BOOLEAN :
             [x EXCEPT !.result = y, !.clean = z] \in SessionRecord
        /\ \A y \in {"exact", "inexact"} : [x EXCEPT !.recovery = y] \in SessionRecord
        /\ \A n \in Nat : [x EXCEPT !.recovery = "none", !.superseded = n] \in SessionRecord
  BY Zenon DEF SessionRecord, Names, Recs

LEMMA Written ==
  ASSUME NEW S, NEW T, NEW f \in [S -> T], NEW x \in S, NEW y \in T
  PROVE [f EXCEPT ![x] = y] \in [S -> T]
  OBVIOUS

LEMMA Constants ==
  /\ BaseScene \in SceneRecord
  /\ NoOp \in OpRecord /\ NoSession \in SessionRecord /\ NoRecording \in DiskRecord
  /\ Nothing \in [kind : Kind, session : Names]
<1>1. BaseScene \in SceneRecord
  BY DEF BaseScene, SceneRecord, Names
<1>2. NoOp \in OpRecord
  BY DEF NoOp, OpRecord, Kind, Recs, Names, Pc
<1>3. NoSession \in SessionRecord
  BY DEF NoSession, SessionRecord, Recs, Names
<1>4. NoManifest \in [kind : Kind, frames : Nat]
  BY DEF NoManifest, Kind
<1>5. NoRecording \in DiskRecord
  BY <1>4 DEF NoRecording, DiskRecord
<1>6. Nothing \in [kind : Kind, session : Names]
  BY DEF Nothing, Kind, Names
<1> QED
  BY <1>1, <1>2, <1>3, <1>5, <1>6

(***************************************************************************)
(* Scripts are sequences of segments.                                      *)
(***************************************************************************)
StageNames == {Stages[i] : i \in 1..4}
SegmentRecord == [label : Labels, stage : StageNames,
                  frames : {"one", "settle", "window"},
                  before : {"keep", "attach", "detach", "collide"}]

LEMMA StageIs == Stages[1] \in StageNames /\ Stages[2] \in StageNames /\ Stages[3] \in StageNames /\ Stages[4] \in StageNames
  BY DEF StageNames

LEMMA Segments ==
  /\ \A label \in Labels, stage \in StageNames, frames \in {"one", "settle", "window"},
        before \in {"keep", "attach", "detach", "collide"} :
       Segment(label, stage, frames, before) \in SegmentRecord
  /\ \A label \in Labels, stage \in StageNames : Move(label, stage) \in SegmentRecord
  /\ \A label \in Labels, stage \in StageNames : Fill(label, stage) \in SegmentRecord
  BY Zenon DEF Segment, Move, Fill, SegmentRecord

LEMMA Concat == ASSUME NEW T, NEW s \in Seq(T), NEW t \in Seq(T) PROVE s \o t \in Seq(T)
  OBVIOUS
LEMMA Reaches == \A m, n \in Labels, stage \in StageNames : Reach(m, n, stage) \in Seq(SegmentRecord)
  BY Segments DEF Reach

LEMMA DemoType == DemoScript \in Seq(SegmentRecord)
<1> DEFINE A == Stages[1]  G == Stages[2]  L == Stages[3]  S == Stages[4]
<1>1. A \in StageNames /\ G \in StageNames /\ L \in StageNames /\ S \in StageNames
  BY StageIs
<1> HIDE DEF A, G, L, S
<1>2. <<Move("initial", A)>> \in Seq(SegmentRecord)
  BY <1>1, Segments DEF Labels
<1>3. /\ Reach("motion.ready", "settle.ready", A) \in Seq(SegmentRecord)
      /\ Reach("motion.pre_grasp", "settle.pre_grasp", A) \in Seq(SegmentRecord)
      /\ Reach("motion.grasp", "settle.grasp", A) \in Seq(SegmentRecord)
      /\ Reach("motion.pre_insertion", "settle.pre_insertion", G) \in Seq(SegmentRecord)
      /\ Reach("motion.insert", "settle.insert", L) \in Seq(SegmentRecord)
      /\ Reach("motion.release", "settle.release", S) \in Seq(SegmentRecord)
  BY <1>1, Reaches DEF Labels
<1>4. <<Fill("settle.grasp", A), Move("close.grasp", A),
        Segment("attached.grasp", G, "one", "attach")>> \in Seq(SegmentRecord)
  BY <1>1, Segments DEF Labels
<1>5. <<Fill("settle.pre_insertion", G), Fill("settle.pre_insertion", L)>> \in Seq(SegmentRecord)
  BY <1>1, Segments DEF Labels
<1>6. <<Fill("settle.insert", S)>> \in Seq(SegmentRecord)
  BY <1>1, Segments DEF Labels
<1>7. <<Segment("complete.release", S, "one", "detach")>> \in Seq(SegmentRecord)
  BY <1>1, Segments DEF Labels
<1> QED
 BY <1>2, <1>3, <1>4, <1>5, <1>6, <1>7, Concat, Zenon DEF DemoScript, A, G, L, S

LEMMA GraspType == record_successful_grasp \in Seq(SegmentRecord)
 BY Segments, StageIs DEF Labels, record_successful_grasp
LEMMA InsertionType == \A kind : record_successful_insertion(kind) \in Seq(SegmentRecord)
 BY Segments, StageIs DEF Labels, record_successful_insertion
LEMMA TargetsType == ExplorationTargets \in Seq(SegmentRecord)
 BY Segments, StageIs DEF Labels, ExplorationTargets
LEMMA ExplorationType == \A kind : ExplorationScript(kind) \in Seq(SegmentRecord)
<1> TAKE kind
<1>1. <<Move("initial", Stages[1])>> \in Seq(SegmentRecord) /\ <<>> \in Seq(SegmentRecord)
  BY Segments, StageIs DEF Labels
<1>2. (IF kind = "contact" THEN <<>> ELSE ExplorationTargets) \in Seq(SegmentRecord)
  BY TargetsType
<1>3. (IF kind = "domain" THEN <<>> ELSE record_successful_grasp) \in Seq(SegmentRecord)
  BY GraspType
<1>4. (IF kind \in {"insertion", "contact"} THEN record_successful_insertion(kind) ELSE <<>>) \in Seq(SegmentRecord)
  BY InsertionType
<1> QED
  BY <1>1, <1>2, <1>3, <1>4, Concat DEF ExplorationScript
LEMMA FilmType == \A kind \in Films : FilmScript(kind) \in Seq(SegmentRecord)
<1>1. FilmScript("candidate_film") \in Seq(SegmentRecord)
 BY Segments, StageIs DEF Labels, FilmScript
<1>2. FilmScript("grasp_film") \in Seq(SegmentRecord)
 BY Segments, StageIs DEF Labels, FilmScript
<1>3. FilmScript("insertion_film") \in Seq(SegmentRecord)
 BY Segments, StageIs DEF Labels, FilmScript
<1> QED BY <1>1, <1>2, <1>3 DEF Films

LEMMA ScriptIs ==
  /\ \A kind \in {"demo", "action"} : Script[kind] = DemoScript
  /\ \A kind \in Explorations : Script[kind] = ExplorationScript(kind)
  /\ \A kind \in Films : Script[kind] = FilmScript(kind)
  /\ Script["reset"] = <<Move("initial", Stages[1])>>
<1>1. \A kind \in Explorations : kind \notin {"demo", "action"} /\ kind \notin Films /\ kind \in RecordingKinds
  BY DEF RecordingKinds, Jobs, Explorations, Films
<1>2. \A kind \in Films : kind \notin {"demo", "action"} /\ kind \notin Explorations /\ kind \in RecordingKinds
  BY DEF RecordingKinds, Films, Jobs, Explorations
<1>3. \A kind \in {"demo", "action"} : kind \notin Films /\ kind \notin Explorations /\ kind \in RecordingKinds
  BY DEF RecordingKinds, Films, Jobs, Explorations
<1>4. /\ "reset" \notin {"demo", "action"} /\ "reset" \notin Explorations
      /\ "reset" \notin Films /\ "reset" \in RecordingKinds
  BY DEF RecordingKinds, Films, Jobs, Explorations
<1> QED BY <1>1, <1>2, <1>3, <1>4 DEF Script

LEMMA ScriptType == \A kind \in RecordingKinds : Script[kind] \in Seq(SegmentRecord)
<1>1. <<Move("initial", Stages[1])>> \in Seq(SegmentRecord)
  BY Segments, StageIs DEF Labels
<1> QED
  BY <1>1, ScriptIs, DemoType, ExplorationType, FilmType
     DEF RecordingKinds, Jobs

(***************************************************************************)
(* Recordings keep the scene's part of the invariant.                      *)
(***************************************************************************)
LEMMA TypedFields ==
  ASSUME Typed
  PROVE /\ op.kind \in Kind /\ op.rec \in Recs /\ op.session \in Names /\ op.pc \in Pc
        /\ op.run \in 0..MaxRuns /\ op.seg \in Nat /\ op.late \in Nat /\ op.waits \in Nat
        /\ op.steps \in Seq(Frame)
  BY OpFields DEF Typed

\* An operation that moves on keeps what it is.
LEMMA OpMoves ==
  ASSUME NEW o \in OpRecord, NEW pc
  PROVE LET w == [o EXCEPT !.pc = pc]
        IN /\ w.kind = o.kind /\ w.rec = o.rec /\ w.session = o.session /\ w.pc = pc
           /\ w.run = o.run /\ w.seg = o.seg /\ w.steps = o.steps
  BY DEF OpRecord

\* While a recording is at one of its steps, it is a recording.
LEMMA Recording ==
  ASSUME Typed, Positions, op.pc \in Opening \cup Playing \cup Writing
  PROVE /\ op.kind \in RecordingKinds /\ op.rec \in Recordings /\ op.run \in 1..MaxRuns
        /\ op.pc \in {"evidence", "capture_file"} => op.kind = "reset"
        /\ op.pc = "filming" => op.seg >= 1
  BY DEF Positions, NoOp

\* What a recording leaves alone.
Apart == returned' = Nothing /\ UNCHANGED <<sessions, authentic, ops>>

LEMMA RaiseScene ==
  ASSUME Typed, Raise, disk' \in [Recordings -> DiskRecord], faults' \in 0..MaxFaults,
         Apart
  PROVE IInvScene'
<1>1. Typed'
  BY Constants DEF Typed, Raise, Apart, restored_dt, EndTimeline
<1>2. timeline' # "playing"
  BY DEF Raise, EndTimeline
<1> QED
  BY <1>1, <1>2 DEF Raise, IInvScene, Positions, Still, Opened, Period, NoOp, restored_dt, Advances

LEMMA CountedType == ASSUME Typed, Counted PROVE faults' \in 0..MaxFaults
  BY DEF Typed, Counted

LEMMA StartRecordingScene ==
  ASSUME IInvScene, Apart, NEW kind \in Kinds, NEW r \in Recordings, StartRecording(kind, r)
  PROVE IInvScene'
<1> USE DEF IInvScene
<1>1. kind \in RecordingKinds /\ kind \in Kind
  BY DEF RecordingKinds, Jobs, Explorations, Films, Kind
<1>2. runs + 1 \in 1..MaxRuns
  BY DEF StartRecording, Typed
<1>3. op' = [kind |-> kind, rec |-> r, session |-> "none", pc |-> "opening",
             run |-> runs + 1, seg |-> 0, late |-> 1, waits |-> 0, steps |-> <<>>]
  BY DEF StartRecording, NoOp
<1>4. op' \in OpRecord
  BY <1>1, <1>2, <1>3 DEF OpRecord, Recs, Names, Pc
<1>5. /\ op'.kind = kind /\ op'.rec = r /\ op'.pc = "opening" /\ op'.run \in 1..MaxRuns
  BY <1>2, <1>3
<1>6. Typed'
  BY <1>2, <1>4, Constants DEF Typed, StartRecording, Apart
<1>7. Positions'
  BY <1>1, <1>5 DEF Positions
<1> QED
  BY <1>5, <1>6, <1>7 DEF StartRecording, Still, Opened, Period, Advances

\* A recording that stays one and goes on to pc.
LEMMA MovesOn ==
  ASSUME Typed, Positions, op.pc \in Opening \cup Playing \cup Writing, NEW pc \in Pc,
         op' = [op EXCEPT !.pc = pc],
         pc \in Opening \cup Playing \cup Writing,
         pc \in {"evidence", "capture_file"} => op.kind = "reset", pc # "filming"
  PROVE op' \in OpRecord /\ op'.pc = pc /\ Positions'
<1>1. op' \in OpRecord
  BY OpUpdates DEF Typed
<1>2. op'.pc = pc /\ op'.kind = op.kind /\ op'.rec = op.rec /\ op'.run = op.run
  BY OpMoves DEF Typed
<1>3. op.kind \in RecordingKinds /\ op.rec \in Recordings /\ op.run \in 1..MaxRuns
  BY Recording
<1> QED
  BY <1>1, <1>2, <1>3 DEF Positions

LEMMA ResetStageScene ==
  ASSUME IInvScene, Apart, reset_stage \/ reset_stage_fails
  PROVE IInvScene'
<1> USE DEF IInvScene
<1>1. CASE reset_stage
  <2>1. op' \in OpRecord /\ op'.pc = "preparing" /\ Positions'
    BY <1>1, MovesOn DEF reset_stage, Pc
  <2>2. Typed'
    BY <1>1, <2>1, Constants DEF Typed, reset_stage, Apart
  <2> QED
    BY <1>1, <2>1, <2>2 DEF reset_stage, Still, Opened, Period, Advances
<1>2. CASE reset_stage_fails
  <2>1. Typed'
    BY <1>2, Constants, CountedType DEF Typed, reset_stage_fails, Apart, restored_dt
  <2> QED
    BY <1>2, <2>1 DEF reset_stage_fails, Positions, Still, Opened, Period, Advances,
      restored_dt, NoOp
<1> QED
  BY <1>1, <1>2

LEMMA DemoRecorderType ==
  ASSUME Typed, Positions, op.pc \in Opening \cup Playing, DemoRecorder
  PROVE disk' \in [Recordings -> DiskRecord] /\ cameras' \subseteq 1..MaxRuns
<1>1. op.rec \in Recordings /\ op.run \in 1..MaxRuns
  BY Recording
<1>2. disk[op.rec] \in DiskRecord /\ op.run \in Nat
  BY <1>1 DEF Typed
<1>3. [disk[op.rec] EXCEPT !.made = op.run] \in DiskRecord
  BY <1>2, DiskUpdates
<1>4. disk' \in [Recordings -> DiskRecord]
  BY <1>1, <1>3, Written DEF DemoRecorder, Typed
<1> QED
  BY <1>1, <1>4 DEF DemoRecorder, Typed

LEMMA PrepareScene ==
  ASSUME IInvScene, Apart, Prepare \/ PrepareRefused
  PROVE IInvScene'
<1> USE DEF IInvScene
<1>0. scene' \in SceneRecord
  <2> DEFINE variant == IF op.kind \in {"demo", "action"} THEN "base" ELSE op.rec
  <2>1. scene' = [scene EXCEPT !.variant = variant]
    BY DEF Prepare, PrepareRefused, apply_variant
  <2>2. op.rec \in Recordings
    BY Recording DEF Prepare, PrepareRefused
  <2>3. variant \in Recordings \cup {"base"}
    BY <2>2
  <2> HIDE DEF variant
  <2> QED
    BY <2>1, <2>3, SceneUpdates DEF Typed
<1>1. CASE Prepare
  <2>1. op' = [op EXCEPT !.pc = "warming"]
    BY <1>1 DEF Prepare
  <2>2. op' \in OpRecord /\ op'.pc = "warming" /\ Positions'
    BY <1>1, <2>1, MovesOn DEF Prepare, Pc
  <2>4. disk' \in [Recordings -> DiskRecord] /\ cameras' \subseteq 1..MaxRuns
    BY <1>1, DemoRecorderType DEF Prepare, Typed
  <2>5. Typed'
    BY <1>0, <1>1, <2>2, <2>4, Constants DEF Typed, Prepare, Apart
  <2> QED
    BY <1>1, <2>2, <2>5 DEF Prepare, Still, Opened, Period, Advances
<1>2. CASE PrepareRefused
  <2>1. Typed'
    BY <1>0, <1>2, Constants DEF Typed, PrepareRefused, Apart, restored_dt
  <2> QED
    BY <1>2, <2>1 DEF PrepareRefused, Positions, Still, Opened, Period, Advances,
      restored_dt, NoOp
<1> QED
  BY <1>1, <1>2

LEMMA PlayScene ==
  ASSUME IInvScene, Apart, Play
  PROVE IInvScene'
<1> USE DEF IInvScene
<1>1. PICK late \in Nat : op' = [op EXCEPT !.pc = "settling", !.late = late]
  <2>1. (IF op.kind \in {"demo", "action"} THEN 1..SettleUpdates ELSE {1}) \subseteq Nat
    OBVIOUS
  <2> QED
    BY <2>1, Zenon DEF Play
<1>2. op' \in OpRecord
  BY <1>1, OpUpdates, TypedFields DEF Pc, Typed
<1>3. /\ op'.pc = "settling" /\ op'.kind = op.kind /\ op'.rec = op.rec /\ op'.run = op.run
  BY <1>1 DEF Typed, OpRecord
<1>4. Positions'
  BY <1>3, Recording DEF Play, Positions
<1>5. scene' \in SceneRecord
  BY SceneUpdates DEF Play, Typed
<1>6. Typed'
  BY <1>2, <1>5, Constants DEF Typed, Play, Apart
<1> QED
  BY <1>3, <1>4, <1>6 DEF Still, Opened, Period

LEMMA SettleScene ==
  ASSUME IInvScene, Apart, SettleReset \/ SettleFails
  PROVE IInvScene'
<1> USE DEF IInvScene
<1>1. CASE SettleReset
  <2>1. op' \in OpRecord
    BY <1>1, OpUpdates, TypedFields DEF SettleReset, Pc, Typed
  <2>2. /\ op'.pc = "filming" /\ op'.kind = op.kind /\ op'.rec = op.rec /\ op'.run = op.run
        /\ op'.seg = 1
    BY <1>1 DEF Typed, OpRecord, SettleReset
  <2>3. Positions'
    BY <1>1, <2>2, Recording DEF SettleReset, Positions
  <2>4. scene' \in SceneRecord /\ faults' \in 0..MaxFaults
    BY <1>1, SceneUpdates, CountedType DEF SettleReset, Typed
  <2>5. disk' \in [Recordings -> DiskRecord] /\ cameras' \subseteq 1..MaxRuns
    BY <1>1, DemoRecorderType DEF SettleReset, Typed
  <2>6. Typed'
    BY <1>1, <2>1, <2>4, <2>5, Constants DEF Typed, SettleReset, Apart
  <2> QED
    BY <2>2, <2>3, <2>6 DEF Still, Opened, Period
<1>2. CASE SettleFails
  BY <1>2, RaiseScene, CountedType DEF SettleFails, Typed
<1> QED
  BY <1>1, <1>2

\* Filming is at a segment of its script.
LEMMA CurrentType ==
  ASSUME Typed, Positions, Filming
  PROVE /\ Current \in SegmentRecord
        /\ BeforeSegment \in SceneRecord
        /\ \A unsafe \in BOOLEAN : recording_snapshot(unsafe) \in Frame
<1>1. op.kind \in RecordingKinds /\ op.rec \in Recordings /\ op.run \in 1..MaxRuns /\ op.seg >= 1
  BY Recording DEF Filming
<1>2. op.seg \in 1..Len(Script[op.kind]) /\ Script[op.kind] \in Seq(SegmentRecord)
  BY <1>1, ScriptType, TypedFields DEF Filming
<1>3. Current \in SegmentRecord
  BY <1>2 DEF Current
<1>4. BeforeSegment \in SceneRecord
  <2> DEFINE collides == scene.collides /\ op.kind \in FixedJoint
  <2>1. scene \in SceneRecord /\ collides \in BOOLEAN
    BY Zenon DEF Typed
  <2>2. \/ BeforeSegment = scene
        \/ BeforeSegment = [scene EXCEPT !.attached = TRUE, !.collides = collides]
        \/ BeforeSegment = [scene EXCEPT !.attached = FALSE]
        \/ BeforeSegment = [scene EXCEPT !.collides = TRUE]
    BY DEF BeforeSegment
  <2> HIDE DEF collides
  <2> QED
    BY <2>1, <2>2, SceneUpdates
<1>5. ASSUME NEW unsafe \in BOOLEAN PROVE recording_snapshot(unsafe) \in Frame
  <2>1. /\ BeforeSegment.attached \in BOOLEAN /\ BeforeSegment.collides \in BOOLEAN
        /\ scene.plug \in {"placed", "moved"}
    BY <1>4 DEF SceneRecord, Typed
  <2>2. Current.label \in Labels /\ Current.stage \in {Stages[i] : i \in 1..4}
    BY <1>3 DEF SegmentRecord, StageNames
  <2> QED
    BY <1>1, <2>1, <2>2, Zenon DEF recording_snapshot, Frame
<1> QED
  BY <1>3, <1>4, <1>5

LEMMA AddStepType ==
  ASSUME Typed, Positions, Filming, NEW frame \in Frame, add_step(frame)
  PROVE disk' \in [Recordings -> DiskRecord]
<1>1. op.rec \in Recordings
  BY Recording DEF Filming
<1>2. disk[op.rec] \in DiskRecord
  BY <1>1 DEF Typed
<1> DEFINE n == Len(op.steps) + 1
           old == disk[op.rec].frames
           new == IF n <= Len(old) THEN [old EXCEPT ![n] = frame] ELSE Append(old, frame)
<1>3. n \in Nat \ {0} /\ old \in Seq(Frame)
  BY <1>2, TypedFields DEF DiskRecord
<1>4. disk' = [disk EXCEPT ![op.rec].frames = new]
  BY DEF add_step
<1> HIDE DEF n, old
<1>5. new \in Seq(Frame)
  BY <1>3
<1> HIDE DEF new
<1>6. [disk[op.rec] EXCEPT !.frames = new] \in DiskRecord
  BY <1>2, <1>5, DiskUpdates
<1> QED
  BY <1>1, <1>4, <1>6, Written DEF Typed

LEMMA CaptureFrameScene ==
  ASSUME IInvScene, Apart, CaptureFrame
  PROVE IInvScene'
<1> USE DEF IInvScene
<1>1. PICK unsafe \in BOOLEAN :
        LET frame == recording_snapshot(unsafe)
            steps == Append(op.steps, frame)
        IN /\ add_step(frame)
           /\ scene' = BeforeSegment
           /\ IF unsafe THEN Counted ELSE UNCHANGED faults
           /\ IF unsafe /\ op.kind \in Films
              THEN /\ cameras' = cameras \ {op.run} /\ op' = NoOp
                   /\ EndTimeline(op.kind, FALSE) /\ restored_dt
              ELSE /\ UNCHANGED <<timeline, dt, cameras>>
                   /\ op' = [op EXCEPT !.steps = steps,
                                       !.seg = IF SegmentEnds(steps) THEN @ + 1 ELSE @,
                                       !.waits = IF SegmentEnds(steps) THEN 0 ELSE @ + 1]
  BY Zenon DEF CaptureFrame
<1> DEFINE frame == recording_snapshot(unsafe)
           steps == Append(op.steps, frame)
<1>2. Filming /\ op.pc = "filming" /\ UNCHANGED <<auto, runs>>
  BY DEF CaptureFrame, Filming
<1>3. frame \in Frame /\ scene' \in SceneRecord
  BY <1>1, <1>2, CurrentType
<1>4. disk' \in [Recordings -> DiskRecord]
  BY <1>1, <1>2, <1>3, AddStepType
<1>5. faults' \in 0..MaxFaults
  BY <1>1, CountedType DEF Typed
<1>6. CASE unsafe /\ op.kind \in Films
  <2>1. op' = NoOp /\ cameras' \subseteq 1..MaxRuns /\ timeline' = "paused" /\ dt' = "app"
    BY <1>1, <1>6 DEF EndTimeline, restored_dt, Films, Jobs, Explorations, Typed
  <2>2. Typed'
    BY <1>2, <1>3, <1>4, <1>5, <2>1, Constants DEF Typed, Apart
  <2> QED
    BY <2>1, <2>2 DEF Positions, Still, Opened, Period, NoOp, Advances
<1>7. CASE ~(unsafe /\ op.kind \in Films)
  <2>1. /\ op' = [op EXCEPT !.steps = steps,
                            !.seg = IF SegmentEnds(steps) THEN op.seg + 1 ELSE op.seg,
                            !.waits = IF SegmentEnds(steps) THEN 0 ELSE op.waits + 1]
        /\ UNCHANGED <<timeline, dt, cameras>>
    BY <1>1, <1>7
  <2>2. /\ (IF SegmentEnds(steps) THEN op.seg + 1 ELSE op.seg) \in Nat
        /\ (IF SegmentEnds(steps) THEN op.seg + 1 ELSE op.seg) >= op.seg
        /\ (IF SegmentEnds(steps) THEN 0 ELSE op.waits + 1) \in Nat
        /\ steps \in Seq(Frame)
    BY <1>3, TypedFields
  <2> HIDE DEF steps
  <2>3. op' \in OpRecord
    BY <2>1, <2>2, OpUpdates DEF Typed
  <2>4. /\ op'.pc = "filming" /\ op'.kind = op.kind /\ op'.rec = op.rec /\ op'.run = op.run
        /\ op'.seg >= op.seg
    BY <1>2, <2>1, <2>2 DEF Typed, OpRecord
  <2>5. Positions'
    BY <1>2, <2>3, <2>4, Recording, TypedFields DEF Positions, OpRecord
  <2>6. Typed'
    BY <1>2, <1>3, <1>4, <1>5, <2>1, <2>3, Constants DEF Typed, Apart
  <2> QED
    BY <1>2, <2>1, <2>4, <2>5, <2>6 DEF Still, Opened, Period
<1> QED
  BY <1>6, <1>7

LEMMA FillScene ==
  ASSUME IInvScene, Apart, FillIsComplete \/ CaptureFails
  PROVE IInvScene'
<1> USE DEF IInvScene
<1>1. CASE FillIsComplete
  <2>1. op' = [op EXCEPT !.seg = op.seg + 1, !.waits = 0] /\ op.pc = "filming"
    BY <1>1 DEF FillIsComplete, Filming
  <2> DEFINE seg == op.seg + 1
  <2>2. op \in OpRecord /\ seg \in Nat /\ 0 \in Nat
    BY TypedFields DEF Typed
  <2> HIDE DEF seg
  <2>3. [op EXCEPT !.seg = seg, !.waits = 0] \in OpRecord
    BY <2>2, OpUpdates
  <2>4. op' \in OpRecord
    BY <2>1, <2>3 DEF seg
  <2>5. /\ op'.pc = "filming" /\ op'.kind = op.kind /\ op'.rec = op.rec /\ op'.run = op.run
        /\ op'.seg = op.seg + 1
    BY <2>1 DEF Typed, OpRecord
  <2>6. Positions'
    BY <2>1, <2>5, Recording, TypedFields DEF Positions
  <2>7. Typed'
    BY <1>1, <2>4, Constants DEF Typed, FillIsComplete, simulator, Apart
  <2> QED
    BY <1>1, <2>1, <2>5, <2>6, <2>7 DEF FillIsComplete, simulator, Still, Opened, Period
<1>2. CASE CaptureFails
  BY <1>2, RaiseScene, CountedType DEF CaptureFails, Typed
<1> QED
  BY <1>1, <1>2

LEMMA CompleteScene ==
  ASSUME IInvScene, Apart, Complete
  PROVE IInvScene'
<1> USE DEF IInvScene
<1>1. op' = [op EXCEPT !.pc = "steps"] /\ op.pc = "filming"
  BY DEF Complete, Filmed
<1>2. op' \in OpRecord /\ op'.pc = "steps" /\ Positions'
  BY <1>1, MovesOn DEF Pc
<1>3. timeline' # "playing" /\ timeline' \in {"stopped", "paused", "playing"} /\ dt' = "app"
  BY DEF Complete, EndTimeline, restored_dt, Typed
<1>4. Typed'
  BY <1>2, <1>3, Constants DEF Typed, Complete, Apart
<1> QED
  BY <1>2, <1>3, <1>4 DEF Still, Opened, Period, Advances

LEMMA CompleteFailsScene ==
  ASSUME IInvScene, Apart, CompleteFails
  PROVE IInvScene'
<1> USE DEF IInvScene
<1>1. disk' \in [Recordings -> DiskRecord] /\ faults' \in 0..MaxFaults
  <2>1. op.rec \in Recordings
    BY Recording DEF CompleteFails, Filmed
  <2>2. [disk[op.rec] EXCEPT !.negative = TRUE] \in DiskRecord
    BY <2>1, DiskUpdates DEF Typed
  <2> QED
    BY <2>1, <2>2, Written, CountedType DEF CompleteFails, Typed
<1> QED
  BY <1>1, RaiseScene DEF CompleteFails

\* The end of a recording writes its files and leaves the simulator alone.
LEMMA WriteScene ==
  ASSUME IInvScene, Apart, WriteSteps \/ WriteManifest \/ WriteEvidence \/ WriteCapture
  PROVE IInvScene'
<1> USE DEF IInvScene
<1>1. op.pc \in Writing /\ UNCHANGED <<simulator, cameras, runs, faults>>
  BY DEF WriteSteps, WriteManifest, WriteEvidence, WriteCapture
<1>2. op.rec \in Recordings /\ op.kind \in RecordingKinds
  BY <1>1, Recording
<1>3. disk[op.rec] \in DiskRecord
  BY <1>2 DEF Typed
<1>4. PICK d \in DiskRecord : disk' = [disk EXCEPT ![op.rec] = d]
  <2>1. CASE WriteSteps
    <3>1. [disk[op.rec] EXCEPT !.steps = op.steps] \in DiskRecord
      BY <1>3, DiskUpdates, TypedFields
    <3> QED
      BY <2>1, <3>1 DEF WriteSteps
  <2>2. CASE WriteManifest
    <3>1. [kind |-> op.kind, frames |-> Len(op.steps)] \in [kind : Kind, frames : Nat]
      BY TypedFields
    <3>2. [disk[op.rec] EXCEPT !.manifest = [kind |-> op.kind, frames |-> Len(op.steps)]]
            \in DiskRecord
      BY <1>3, <3>1, DiskUpdates
    <3> QED
      BY <2>2, <3>2 DEF WriteManifest
  <2>3. CASE WriteEvidence
    BY <1>3, <2>3, DiskUpdates DEF WriteEvidence
  <2>4. CASE WriteCapture
    BY <1>3, <2>4, DiskUpdates DEF WriteCapture
  <2> QED
    BY <2>1, <2>2, <2>3, <2>4
<1>5. disk' \in [Recordings -> DiskRecord]
  BY <1>2, <1>4, Written DEF Typed
<1>6. \/ op' = NoOp
      \/ /\ op' \in OpRecord /\ op'.pc \in {"manifest", "evidence", "capture_file"}
         /\ Positions'
  <2>1. CASE WriteSteps
    BY <1>1, <2>1, MovesOn DEF WriteSteps, Pc
  <2>2. CASE WriteManifest
    BY <1>1, <2>2, MovesOn DEF WriteManifest, Pc
  <2>3. CASE WriteEvidence
    BY <1>1, <2>3, MovesOn, Recording DEF WriteEvidence, Pc
  <2>4. CASE WriteCapture
    BY <2>4 DEF WriteCapture
  <2> QED
    BY <2>1, <2>2, <2>3, <2>4
<1>7. op' \in OpRecord /\ Positions'
  BY <1>6, Constants DEF Positions
<1>8. Typed'
  BY <1>1, <1>5, <1>7, Constants DEF Typed, simulator, Apart
<1>9. op'.pc \notin Opening \cup Playing \cup {"rendering", "moving"}
  BY <1>6 DEF NoOp
<1>10. ~Advances' /\ dt' = "app"
  BY <1>1 DEF Still, Period, simulator, Advances
<1> QED
  BY <1>7, <1>8, <1>9, <1>10 DEF Still, Opened, Period

LEMMA StopScene ==
  ASSUME IInvScene, Apart, CancelJob \/ Crash
  PROVE IInvScene'
<1>1. op' = NoOp /\ dt' = "app" /\ timeline' = "stopped"
  BY DEF CancelJob, Crash, restored_dt
<1>2. Typed'
  BY <1>1, Constants, CountedType DEF IInvScene, Typed, CancelJob, Crash, Apart
<1> QED
  BY <1>1, <1>2 DEF IInvScene, Positions, Still, Opened, Period, NoOp, Advances

\* Every step of a recording keeps the scene's part of the invariant.
LEMMA RecordScene ==
  ASSUME IInvScene, Record
  PROVE IInvScene'
<1> USE StartRecordingScene, ResetStageScene, PrepareScene, PlayScene, SettleScene,
      CaptureFrameScene, FillScene, CompleteScene, CompleteFailsScene, WriteScene, StopScene
<1>1. Apart
  BY DEF Record, Apart
<1>2. CASE \E kind \in Kinds, r \in Recordings : HasSource(kind) /\ StartRecording(kind, r)
  BY <1>1, <1>2
<1>3. CASE RecordingStep
  BY <1>1, <1>3 DEF RecordingStep
<1>4. CASE Crash
  BY <1>1, <1>4
<1> QED
  BY <1>2, <1>3, <1>4 DEF Record

(***************************************************************************)
(* The unknown-start operations.                                           *)
(***************************************************************************)
LEMMA HandoffIsReset ==
  ASSUME NEW s, NEW r, unknown_start_handoff_failures(s, r) = {}, s.attached \in BOOLEAN
  PROVE AtReset(s, r)
  BY DEF unknown_start_handoff_failures, AtReset

LEMMA RecordSession ==
  ASSUME IInv, IInvScene', Record
  PROVE IInvSession'
<1>1. returned' = Nothing /\ UNCHANGED <<sessions, authentic>>
  BY DEF Record
<1>2. op' = NoOp \/ op'.kind \in RecordingKinds
  <2>1. CASE \E kind \in Kinds, r \in Recordings : HasSource(kind) /\ StartRecording(kind, r)
    <3>1. PICK kind \in Kinds, r \in Recordings : StartRecording(kind, r)
      BY <2>1
    <3> QED
      BY <3>1 DEF StartRecording, NoOp, RecordingKinds, Jobs, Explorations, Films
  <2>2. CASE RecordingStep
    <3> USE DEF Raise
    <3>1. op.kind \in RecordingKinds /\ op \in OpRecord
      BY <2>2, Recording DEF RecordingStep, IInv, IInvScene, Typed, reset_stage, reset_stage_fails,
        Prepare, PrepareRefused, Play, SettleReset, SettleFails, CaptureFrame, FillIsComplete,
        CaptureFails, Filming, Complete, CompleteFails, Filmed, WriteSteps, WriteManifest,
        WriteEvidence, WriteCapture, CancelJob
    <3>2. op' = NoOp \/ op'.kind = op.kind
      BY <2>2, <3>1 DEF RecordingStep, OpRecord, reset_stage, reset_stage_fails,
        Prepare, PrepareRefused, Play, SettleReset, SettleFails, CaptureFrame, FillIsComplete,
        CaptureFails, Complete, CompleteFails, WriteSteps, WriteManifest,
        WriteEvidence, WriteCapture, CancelJob
    <3> QED
      BY <3>1, <3>2
  <2>3. CASE Crash
    BY <2>3 DEF Crash
  <2> QED
    BY <2>1, <2>2, <2>3 DEF Record
<1>3. op'.kind \notin Captures \cup {"recover"} /\ op'.pc \notin {"rendering", "handoff"}
  BY <1>2 DEF IInvScene, Positions, NoOp, RecordingKinds, Jobs, Explorations, Films
<1>4. Established'
  BY <1>3 DEF Established
<1>5. Unmade' /\ RequestIsGrounded' /\ JudgedAtReset'
  BY <1>1 DEF IInv, IInvSession, Unmade, RequestIsGrounded, JudgedAtReset
<1>6. RecoveryIsTrue' /\ Returns'
  BY <1>1 DEF RecoveryIsTrue, Returns, Nothing
<1> QED
  BY <1>4, <1>5, <1>6 DEF IInvSession

\* An operation that begins is at its first step.
LEMMA BeginsPausing ==
  ASSUME Typed, NEW kind \in Captures \cup {"recover", "preflight"}, NEW s \in Names,
         NEW r \in Recs, Begin(kind, s, r, "pausing")
  PROVE /\ op' \in OpRecord /\ op'.kind = kind /\ op'.session = s /\ op'.rec = r
        /\ op'.pc = "pausing" /\ op.pc = "none" /\ op.kind = "none" /\ ops' \in Nat
        /\ returned' = Nothing /\ op = NoOp
<1>1. op' = [kind |-> kind, rec |-> r, session |-> s, pc |-> "pausing", run |-> 0,
             seg |-> 0, late |-> 1, waits |-> 0, steps |-> <<>>]
  BY DEF Begin, NoOp
<1>2. op' \in OpRecord
  BY <1>1 DEF OpRecord, Pc, Kind
<1> QED
  BY <1>1, <1>2 DEF Begin, Typed, NoOp

\* One that goes on to a later step keeps what it is of.
LEMMA StaysItself ==
  ASSUME Typed, NEW pc \in Pc, StaysAt(pc)
  PROVE /\ op' \in OpRecord /\ op'.kind = op.kind /\ op'.session = op.session
        /\ op'.rec = op.rec /\ op'.pc = pc /\ returned' = Nothing
<1>1. op' \in OpRecord
  BY OpUpdates DEF StaysAt, Typed
<1> QED
  BY <1>1, OpMoves DEF StaysAt, Typed

\* What an ended operation leaves.
LEMMA Ending ==
  ASSUME Typed, NEW ok \in BOOLEAN, Ends(ok)
  PROVE /\ op' = NoOp /\ op' \in OpRecord /\ op'.pc = "none" /\ op'.kind = "none"
        /\ returned' \in [kind : Kind, session : Names]
        /\ returned' \in {[kind |-> op.kind, session |-> op.session], Nothing}
        /\ ~ok => returned' = Nothing
  BY Constants, TypedFields DEF Ends, NoOp

\* A step beside the recordings leaves their period and their files alone.
LEMMA BesideRecordings ==
  ASSUME IInvScene, op.pc \notin Opening \cup Playing, UNCHANGED dt, UNCHANGED <<disk, cameras, runs>>,
         scene' \in SceneRecord, timeline' \in {"stopped", "paused", "playing"}, auto' \in BOOLEAN,
         op' \in OpRecord, op'.pc \notin Opening \cup Playing, Positions', Still',
         faults' \in 0..MaxFaults, ops' \in Nat,
         sessions' \in [Sessions -> SessionRecord], authentic' \subseteq Recordings,
         returned' \in [kind : Kind, session : Names]
  PROVE IInvScene'
<1>1. Typed'
  BY DEF IInvScene, Typed
<1> QED
  BY <1>1 DEF IInvScene, Opened, Period

\* A step that leaves the sessions alone keeps what is said of them.
LEMMA LeavesSessions ==
  ASSUME IInvSession, UNCHANGED <<sessions, authentic>>, returned'.kind # "recover", Established'
  PROVE IInvSession'
<1>1. Unmade' /\ RequestIsGrounded' /\ JudgedAtReset'
  BY DEF IInvSession, Unmade, RequestIsGrounded, JudgedAtReset
<1> QED
  BY <1>1 DEF IInvSession, RecoveryIsTrue, Returns

\* The record that is written is the one session that changes.
LEMMA SetWrites ==
  ASSUME Typed, NEW s \in Sessions, NEW w \in SessionRecord, Set(s, w)
  PROVE /\ sessions' \in [Sessions -> SessionRecord] /\ sessions'[s] = w
        /\ \A t \in Sessions : t # s => sessions'[t] = sessions[t]
  BY DEF Typed, Set

\* A capture, an execution and a recovery are of a session.
LEMMA OfSession ==
  ASSUME Typed, Positions
  PROVE /\ op.kind \in Captures =>
             /\ op.session \in Sessions /\ op.rec \in Recordings /\ Mine \in SessionRecord
             /\ op.pc \notin Opening \cup Playing
        /\ op.pc \in Executing => op.kind = "execute"
        /\ op.pc \in Recovering \ {"pausing"} => op.kind = "recover"
        /\ op.kind = "recover" =>
             op.session \in Sessions /\ Mine \in SessionRecord /\ op.pc \in Recovering
        /\ op.kind = "preflight" => op.pc = "pausing" /\ op.rec \in Recordings
<1>1. /\ op.kind \in Captures => op.session \in Sessions /\ op.rec \in Recordings
                                   /\ op.pc \notin Opening \cup Playing
      /\ op.kind = "recover" => op.session \in Sessions /\ op.pc \in Recovering
      /\ op.kind = "preflight" => op.pc = "pausing" /\ op.rec \in Recordings
      /\ op.pc \in Executing => op.kind = "execute"
      /\ op.pc \in Recovering \ {"pausing"} => op.kind = "recover"
  BY DEF Positions, NoOp, RecordingKinds, Jobs, Explorations, Films
<1> QED
  BY <1>1 DEF Mine, Typed

\* Nothing and what a step other than a recovery returns is not a recovery.
LEMMA NotRecovery ==
  ASSUME returned' \in {[kind |-> op.kind, session |-> op.session], Nothing},
         op.kind # "recover" \/ returned' = Nothing
  PROVE returned'.kind # "recover"
  BY DEF Nothing

LEMMA StartCaptureStep ==
  ASSUME IInv, NEW kind \in Captures, NEW s \in Sessions, NEW r \in Recordings,
         StartCapture(kind, s, r)
  PROVE IInv'
<1> USE DEF IInv
<1>1. /\ op' \in OpRecord /\ op'.kind = kind /\ op'.session = s /\ op'.rec = r
      /\ op'.pc = "pausing" /\ op.pc = "none" /\ ops' \in Nat /\ returned' = Nothing
  BY BeginsPausing DEF StartCapture, IInvScene, Names, Recs
<1>2. Positions'
  BY <1>1 DEF Positions
<1>3. Still'
  BY <1>1 DEF StartCapture, Still, IInvScene, Advances
<1>4. IInvScene'
  BY <1>1, <1>2, <1>3, BesideRecordings, Constants DEF StartCapture, files, IInvScene, Typed
<1>5. Established'
  BY <1>1 DEF StartCapture, Established, Mine
<1>6. returned'.kind # "recover"
  BY <1>1 DEF Nothing
<1> QED
  BY <1>4, <1>5, <1>6, LeavesSessions DEF StartCapture

LEMMA StartPreflightStep ==
  ASSUME IInv, NEW r \in Recordings, StartPreflight(r)
  PROVE IInv'
<1> USE DEF IInv
<1>1. /\ op' \in OpRecord /\ op'.kind = "preflight" /\ op'.rec = r
      /\ op'.pc = "pausing" /\ op.pc = "none" /\ ops' \in Nat /\ returned' = Nothing
  BY BeginsPausing DEF StartPreflight, IInvScene, Names, Recs
<1>2. Positions'
  BY <1>1 DEF Positions
<1>3. Still'
  BY <1>1 DEF StartPreflight, Still, IInvScene, Advances
<1>4. IInvScene'
  BY <1>1, <1>2, <1>3, BesideRecordings, Constants DEF StartPreflight, files, IInvScene, Typed
<1>5. Established'
  BY <1>1 DEF Established
<1>6. returned'.kind # "recover"
  BY <1>1 DEF Nothing
<1> QED
  BY <1>4, <1>5, <1>6, LeavesSessions DEF StartPreflight

\* What a write leaves of the other sessions' claims.
LEMMA OtherSessions ==
  ASSUME IInvSession, NEW s \in Sessions, authentic \subseteq authentic',
         \A t \in Sessions : t # s => sessions'[t] = sessions[t],
         sessions'[s].dir,
         sessions'[s].handoff =>
           /\ sessions'[s].reset \in authentic'
           /\ AtReset(sessions'[s].captured, sessions'[s].reset)
           /\ sessions'[s].safety # NoScene =>
                AtReset(sessions'[s].safety, sessions'[s].reset)
  PROVE Unmade' /\ RequestIsGrounded' /\ JudgedAtReset'
<1>1. Unmade'
  BY DEF IInvSession, Unmade
<1>2. RequestIsGrounded'
  BY DEF IInvSession, RequestIsGrounded, AtReset
<1>3. JudgedAtReset'
  <2> SUFFICES ASSUME NEW t \in Sessions, sessions'[t].handoff, sessions'[t].safety # NoScene
               PROVE AtReset(sessions'[t].safety, sessions'[t].reset)
    BY DEF JudgedAtReset, NoScene, BaseScene, AtReset
  <2> QED
    BY DEF IInvSession, JudgedAtReset
<1> QED
  BY <1>1, <1>2, <1>3

\* An unmade session says nothing.
LEMMA HandoffMeansDir ==
  ASSUME IInv, NEW s \in Sessions
  PROVE /\ sessions[s].handoff \/ sessions[s].planned \/ sessions[s].captured # NoScene
             => sessions[s].dir
        /\ sessions[s] \in SessionRecord
  BY DEF IInv, IInvScene, IInvSession, Typed, Unmade, NoSession

LEMMA StartRecoveryStep ==
  ASSUME IInv, NEW s \in Sessions, StartRecovery(s)
  PROVE IInv'
<1> USE DEF IInv
<1>1. sessions[s].handoff /\ sessions[s].dir /\ sessions[s] \in SessionRecord
      /\ sessions[s].reset \in Recs
  BY HandoffMeansDir DEF StartRecovery, Recoverable, SessionRecord
<1>2. /\ op' \in OpRecord /\ op'.kind = "recover" /\ op'.session = s
      /\ op'.pc = "pausing" /\ op.pc = "none" /\ ops' \in Nat /\ returned' = Nothing
  BY <1>1, BeginsPausing DEF StartRecovery, IInvScene, Names
<1>3. Positions'
  BY <1>2 DEF Positions
<1>4. Still'
  BY <1>2 DEF StartRecovery, Still, IInvScene, Advances
<1>5. /\ sessions' \in [Sessions -> SessionRecord]
      /\ \A t \in Sessions : t # s => sessions'[t] = sessions[t]
      /\ sessions'[s].handoff /\ sessions'[s].dir /\ sessions'[s].reset = sessions[s].reset
      /\ sessions'[s].captured = sessions[s].captured /\ sessions'[s].safety = sessions[s].safety
  <2>1. CASE sessions[s].recovery = "inexact"
    <3> DEFINE n == sessions[s].superseded + 1
               w == [sessions[s] EXCEPT !.recovery = "none", !.superseded = n]
    <3>1. Set(s, w)
      BY <2>1 DEF StartRecovery, Supersede
    <3>2. n \in Nat
      BY <1>1 DEF SessionRecord
    <3> HIDE DEF n
    <3>3. w \in SessionRecord
      BY <1>1, <3>2, SessionUpdates
    <3>4. /\ w.handoff = sessions[s].handoff /\ w.dir = sessions[s].dir
          /\ w.reset = sessions[s].reset /\ w.captured = sessions[s].captured
          /\ w.safety = sessions[s].safety
      BY <1>1 DEF SessionRecord
    <3> HIDE DEF w
    <3> QED
      BY <1>1, <3>1, <3>3, <3>4, SetWrites DEF IInvScene
  <2>2. CASE sessions[s].recovery # "inexact"
    BY <1>1, <2>2 DEF StartRecovery, Supersede, IInvScene, Typed
  <2> QED
    BY <2>1, <2>2
<1>6. IInvScene'
  BY <1>2, <1>3, <1>4, <1>5, BesideRecordings, Constants
     DEF StartRecovery, files, IInvScene, Typed
<1>7. Established'
  BY <1>2, <1>5 DEF Established, Mine
<1>8. Unmade' /\ RequestIsGrounded' /\ JudgedAtReset'
  BY <1>1, <1>5, OtherSessions DEF StartRecovery, IInvSession, RequestIsGrounded, JudgedAtReset
<1>9. RecoveryIsTrue' /\ Returns'
  BY <1>2 DEF RecoveryIsTrue, Returns, Nothing
<1> QED
  BY <1>6, <1>7, <1>8, <1>9 DEF IInvSession

\* An operation that ends, the timeline not advancing and no session written.
LEMMA EndedStep ==
  ASSUME IInv, NEW ok \in BOOLEAN, Ends(ok), ok => op.kind # "recover",
         op.pc \notin Opening \cup Playing, UNCHANGED <<dt, disk, cameras, runs, ops>>,
         scene' \in SceneRecord, timeline' \in {"stopped", "paused", "playing"}, auto' \in BOOLEAN,
         ~Advances', faults' \in 0..MaxFaults, UNCHANGED <<sessions, authentic>>
  PROVE IInv'
<1>1. /\ op' = NoOp /\ op' \in OpRecord /\ op'.pc = "none" /\ op'.kind = "none"
      /\ returned' \in [kind : Kind, session : Names] /\ returned'.kind # "recover"
  BY Ending, NotRecovery DEF IInv, IInvScene
<1>2. Positions' /\ Still' /\ Established'
  BY <1>1 DEF Positions, Still, Established
<1>3. IInvScene'
  BY <1>1, <1>2, BesideRecordings DEF IInv, IInvScene, Typed
<1> QED
  BY <1>1, <1>2, <1>3, LeavesSessions DEF IInv

LEMMA FinalizeResetStep ==
  ASSUME IInv, NEW r \in Recordings, FinalizeReset(r)
  PROVE IInv'
<1> USE DEF IInv
<1>1. /\ UNCHANGED <<scene, timeline, auto, dt, op, cameras, disk, runs, faults>>
      /\ UNCHANGED <<sessions, returned, ops>> /\ authentic' = authentic \cup {r}
  BY DEF FinalizeReset, sceneVars
<1>2. IInvScene'
  BY <1>1 DEF IInvScene, Typed, Positions, Still, Opened, Period, Advances
<1>3. Unmade' /\ RequestIsGrounded' /\ JudgedAtReset' /\ RecoveryIsTrue' /\ Returns' /\ Established'
  BY <1>1 DEF IInvSession, Unmade, RequestIsGrounded, JudgedAtReset, RecoveryIsTrue, Returns,
    Established, Mine
<1> QED
  BY <1>2, <1>3 DEF IInvSession

\* A plan changes nothing a session says of the scene.
LEMMA PlanStep ==
  ASSUME IInv, NEW s \in Sessions, Plan(s)
  PROVE IInv'
<1> USE DEF IInv
<1> DEFINE w == [sessions[s] EXCEPT !.planned = TRUE]
<1>1. /\ UNCHANGED <<scene, timeline, auto, dt, op, cameras, disk, runs, faults>>
      /\ UNCHANGED <<authentic, returned, ops>> /\ Set(s, w)
  BY DEF Plan, sceneVars
<1>2. sessions[s].dir /\ sessions[s] \in SessionRecord
  BY HandoffMeansDir DEF Plan
<1>3. w \in SessionRecord
  BY <1>2, SessionUpdates
<1>4. /\ w.handoff = sessions[s].handoff /\ w.dir = sessions[s].dir
      /\ w.reset = sessions[s].reset /\ w.captured = sessions[s].captured
      /\ w.safety = sessions[s].safety /\ w.recovery = sessions[s].recovery
  BY <1>2 DEF SessionRecord
<1> HIDE DEF w
<1>5. /\ sessions' \in [Sessions -> SessionRecord] /\ sessions'[s] = w
      /\ \A t \in Sessions : t # s => sessions'[t] = sessions[t]
  BY <1>1, <1>3, SetWrites DEF IInvScene
<1>6. IInvScene'
  BY <1>1, <1>5 DEF IInvScene, Typed, Positions, Still, Opened, Period, Advances
<1>7. Unmade' /\ RequestIsGrounded' /\ JudgedAtReset'
  BY <1>1, <1>2, <1>4, <1>5, OtherSessions DEF IInvSession, RequestIsGrounded, JudgedAtReset
<1>8. \A t \in Sessions :
        /\ sessions'[t].handoff = sessions[t].handoff /\ sessions'[t].dir = sessions[t].dir
        /\ sessions'[t].reset = sessions[t].reset
        /\ sessions'[t].captured = sessions[t].captured
        /\ sessions'[t].safety = sessions[t].safety
        /\ sessions'[t].recovery = sessions[t].recovery
  BY <1>4, <1>5
<1>9. Established'
  <2>1. op.kind \in Captures \cup {"recover"} => op.session \in Sessions
    BY OfSession DEF IInvScene
  <2>2. op.pc \in {"rendering", "handoff"} => op.kind \in Captures
    BY DEF IInvScene, Positions, NoOp
  <2> QED
    BY <1>1, <1>8, <2>1, <2>2 DEF IInvSession, Established, Mine
<1>10. RecoveryIsTrue' /\ Returns'
  <2> SUFFICES ASSUME returned.kind = "recover" PROVE RecoveryIsTrue' /\ Returns'
    BY <1>1 DEF RecoveryIsTrue, Returns
  <2>1. returned.session \in Sessions
    BY DEF IInvSession, Returns
  <2> QED
    BY <1>1, <1>8, <2>1 DEF IInvSession, RecoveryIsTrue, Returns
<1> QED
  BY <1>6, <1>7, <1>9, <1>10 DEF IInvSession

LEMMA EvaluateStep ==
  ASSUME IInv, NEW s \in Sessions, evaluate_shadow_candidate(s)
  PROVE IInv'
<1> USE DEF IInv
<1> DEFINE w == [sessions[s] EXCEPT !.safety = scene]
<1>1. /\ UNCHANGED <<scene, timeline, auto, dt, op, cameras, disk, runs, faults>>
      /\ UNCHANGED <<authentic, ops>> /\ Set(s, w) /\ op = NoOp /\ returned' = Nothing
  BY DEF evaluate_shadow_candidate, sceneVars
<1>2. sessions[s].dir /\ sessions[s] \in SessionRecord
  BY HandoffMeansDir DEF evaluate_shadow_candidate
<1>3. w \in SessionRecord
  BY <1>2, SessionUpdates DEF IInvScene, Typed
<1>4. /\ w.handoff = sessions[s].handoff /\ w.dir = sessions[s].dir
      /\ w.reset = sessions[s].reset /\ w.captured = sessions[s].captured
      /\ w.safety = scene
  BY <1>2 DEF SessionRecord
<1> HIDE DEF w
<1>5. /\ sessions' \in [Sessions -> SessionRecord] /\ sessions'[s] = w
      /\ \A t \in Sessions : t # s => sessions'[t] = sessions[t]
  BY <1>1, <1>3, SetWrites DEF IInvScene
<1>6. IInvScene'
  BY <1>1, <1>5, Constants DEF IInvScene, Typed, Positions, Still, Opened, Period, Advances
<1>7. sessions[s].handoff => AtReset(scene, sessions[s].reset)
  BY HandoffIsReset DEF evaluate_shadow_candidate, reauthenticate_unknown_start_shadow_session,
    IInvScene, Typed, SceneRecord
<1>8. Unmade' /\ RequestIsGrounded' /\ JudgedAtReset'
  BY <1>1, <1>2, <1>4, <1>5, <1>7, OtherSessions DEF IInvSession, RequestIsGrounded
<1>9. Established'
  BY <1>1 DEF NoOp, Established
<1>10. RecoveryIsTrue' /\ Returns'
  BY <1>1 DEF RecoveryIsTrue, Returns, Nothing
<1> QED
  BY <1>6, <1>8, <1>9, <1>10 DEF IInvSession

LEMMA ValidateStep ==
  ASSUME IInv, Validate
  PROVE IInv'
<1> USE DEF IInv
<1>1. /\ op.kind \in Captures /\ op.pc = "pausing" /\ op.rec \in Recordings
      /\ op.session \in Sessions /\ Mine \in SessionRecord /\ ~Mine.dir
  BY OfSession DEF Validate, IInvScene, IInvSession, Established
<1>2. /\ timeline' \in {"stopped", "paused"} /\ ~auto' /\ auto' \in BOOLEAN
      /\ UNCHANGED <<dt, disk, cameras, runs, faults, sessions, authentic, ops>>
  BY DEF Validate, PausedTimeline, files, IInvScene, Typed
<1>3. scene' \in SceneRecord
  BY SceneUpdates DEF Validate, IInvScene, Typed
<1>4. CASE StaysAt("rendering") /\ op.rec \in authentic
  <2>1. /\ op' \in OpRecord /\ op'.kind = op.kind /\ op'.session = op.session
        /\ op'.rec = op.rec /\ op'.pc = "rendering" /\ returned' = Nothing
    BY <1>4, StaysItself DEF IInvScene, Pc
  <2>2. Positions' /\ Still'
    BY <1>1, <1>2, <2>1 DEF Positions, Still, Advances
  <2>3. IInvScene'
    BY <1>1, <1>2, <1>3, <2>1, <2>2, BesideRecordings, Constants DEF IInvScene, Typed
  <2>4. Established'
    BY <1>1, <1>2, <1>4, <2>1 DEF Established, Mine
  <2> QED
    BY <1>2, <2>1, <2>3, <2>4, LeavesSessions DEF Nothing
<1>5. CASE Ends(FALSE)
  <2>1. /\ ~Advances' /\ faults' \in 0..MaxFaults /\ op.pc \notin Opening \cup Playing
        /\ timeline' \in {"stopped", "paused", "playing"}
    BY <1>1, <1>2 DEF Advances, IInvScene, Typed
  <2> QED
    BY <1>2, <1>3, <1>5, <2>1, EndedStep
<1> QED
  BY <1>4, <1>5 DEF Validate, load_authenticated_reset

\* An image that moved nothing and whose scene was validated again.
LEMMA RenderStep ==
  ASSUME IInv, Render
  PROVE IInv'
<1> USE DEF IInv
<1>1. /\ op.kind \in Captures /\ op.pc = "rendering" /\ op.rec \in Recordings
      /\ op.session \in Sessions /\ Mine \in SessionRecord /\ ~Mine.dir /\ op.rec \in authentic
  BY OfSession DEF Render, IInvScene, IInvSession, Established
<1>2. Mine = NoSession
  BY <1>1 DEF IInvSession, Unmade, Mine
<1>3. /\ UNCHANGED <<timeline, auto, dt, disk, cameras, runs, authentic, ops>>
      /\ scene' \in SceneRecord /\ faults' \in 0..MaxFaults
  BY SceneUpdates, CountedType DEF Render, files, IInvScene, Typed
<1>4. ~auto
  BY <1>1 DEF IInvScene, Still
<1>5. CASE Revalidated
  <2> DEFINE policy == IF op.kind = "shadow" THEN "direct" ELSE "reset_trial_candidate"
             w == [Mine EXCEPT !.dir = TRUE, !.reset = op.rec, !.captured = scene',
                               !.policy = policy]
  <2>1. Set(op.session, w) /\ StaysAt("handoff")
    BY <1>5 DEF Render
  <2>2. policy \in {"direct", "reset_trial_candidate"}
    OBVIOUS
  <2> HIDE DEF policy
  <2>3. w \in SessionRecord
    BY <1>1, <1>3, <2>2, SessionUpdates
  <2>4. /\ w.dir /\ w.reset = op.rec /\ w.captured = scene' /\ ~w.handoff /\ w.safety = NoScene
    BY <1>1, <1>2 DEF SessionRecord, NoSession
  <2> HIDE DEF w
  <2>5. /\ sessions' \in [Sessions -> SessionRecord] /\ sessions'[op.session] = w
        /\ \A t \in Sessions : t # op.session => sessions'[t] = sessions[t]
    BY <1>1, <2>1, <2>3, SetWrites DEF IInvScene
  <2>6. /\ op' \in OpRecord /\ op'.kind = op.kind /\ op'.session = op.session
        /\ op'.rec = op.rec /\ op'.pc = "handoff" /\ returned' = Nothing
    BY <2>1, StaysItself DEF IInvScene, Pc
  <2>7. Positions' /\ Still'
    BY <1>1, <1>3, <1>4, <2>6 DEF Positions, Still, Advances
  <2>8. IInvScene'
    BY <1>1, <1>3, <2>5, <2>6, <2>7, BesideRecordings, Constants DEF IInvScene, Typed
  <2>9. AtReset(scene', op.rec)
    BY <1>3, <1>5, HandoffIsReset DEF Revalidated, SceneRecord
  <2>10. Established'
    BY <1>1, <1>3, <2>4, <2>5, <2>6, <2>9 DEF Established, Mine, AtReset
  <2>11. Unmade' /\ RequestIsGrounded' /\ JudgedAtReset'
    BY <1>1, <1>3, <2>4, <2>5, OtherSessions
  <2>12. RecoveryIsTrue' /\ Returns'
    BY <2>6 DEF RecoveryIsTrue, Returns, Nothing
  <2> QED
    BY <2>8, <2>10, <2>11, <2>12 DEF IInvSession
<1>6. CASE ~Revalidated
  <2> DEFINE w == [Mine EXCEPT !.dir = TRUE]
  <2>1. Set(op.session, w) /\ Ends(FALSE)
    BY <1>6 DEF Render
  <2>2. w \in SessionRecord
    BY <1>1, SessionUpdates
  <2>3. w.dir /\ ~w.handoff
    BY <1>1, <1>2 DEF SessionRecord, NoSession
  <2> HIDE DEF w
  <2>4. /\ sessions' \in [Sessions -> SessionRecord] /\ sessions'[op.session] = w
        /\ \A t \in Sessions : t # op.session => sessions'[t] = sessions[t]
    BY <1>1, <2>1, <2>2, SetWrites DEF IInvScene
  <2>5. op' = NoOp /\ op' \in OpRecord /\ op'.pc = "none" /\ op'.kind = "none" /\ returned' = Nothing
    BY <2>1, Ending DEF IInvScene
  <2>6. Positions' /\ Still' /\ Established'
    BY <1>3, <1>4, <2>5 DEF Positions, Still, Established, Advances
  <2>7. IInvScene'
    BY <1>1, <1>3, <2>4, <2>5, <2>6, BesideRecordings, Constants DEF IInvScene, Typed
  <2>8. Unmade' /\ RequestIsGrounded' /\ JudgedAtReset'
    BY <1>1, <1>3, <2>3, <2>4, OtherSessions
  <2>9. RecoveryIsTrue' /\ Returns'
    BY <2>5 DEF RecoveryIsTrue, Returns, Nothing
  <2> QED
    BY <2>6, <2>7, <2>8, <2>9 DEF IInvSession
<1> QED
  BY <1>5, <1>6

LEMMA RenderFailsStep ==
  ASSUME IInv, RenderFails
  PROVE IInv'
<1> USE DEF IInv
<1>1. /\ op.kind \in Captures /\ op.pc = "rendering" /\ ~auto
  BY DEF RenderFails, IInvScene, Still
<1>2. /\ scene' \in SceneRecord /\ timeline' \in {"stopped", "paused", "playing"}
      /\ auto' \in BOOLEAN /\ ~Advances' /\ faults' \in 0..MaxFaults
      /\ UNCHANGED <<dt, disk, cameras, runs, ops, sessions, authentic>>
  BY <1>1, CountedType DEF RenderFails, files, IInvScene, Typed, Advances
<1> QED
  BY <1>1, <1>2, EndedStep DEF RenderFails

LEMMA WriteHandoffStep ==
  ASSUME IInv, WriteHandoff
  PROVE IInv'
<1> USE DEF IInv
<1>1. /\ op.kind \in Captures /\ op.pc = "handoff" /\ op.rec \in Recordings
      /\ op.session \in Sessions /\ Mine \in SessionRecord /\ op.rec \in authentic
      /\ Mine.reset = op.rec /\ AtReset(Mine.captured, op.rec) /\ Mine.safety = NoScene
  BY OfSession DEF WriteHandoff, IInvScene, IInvSession, Established
<1>2. /\ UNCHANGED <<scene, timeline, auto, dt, disk, cameras, runs, faults, authentic, ops>>
  BY DEF WriteHandoff, files
<1> DEFINE w == [Mine EXCEPT !.handoff = TRUE]
<1>3. Set(op.session, w) /\ StaysAt("binding")
  BY DEF WriteHandoff
<1>4. w \in SessionRecord
  BY <1>1, SessionUpdates
<1>5. Mine.dir
  BY <1>1 DEF IInvSession, Established
<1>6. /\ w.dir = Mine.dir /\ w.reset = Mine.reset /\ w.captured = Mine.captured /\ w.handoff
      /\ w.safety = Mine.safety
  BY <1>1 DEF SessionRecord
<1> HIDE DEF w
<1>7. /\ sessions' \in [Sessions -> SessionRecord] /\ sessions'[op.session] = w
      /\ \A t \in Sessions : t # op.session => sessions'[t] = sessions[t]
  BY <1>1, <1>3, <1>4, SetWrites DEF IInvScene
<1>8. /\ op' \in OpRecord /\ op'.kind = op.kind /\ op'.session = op.session
      /\ op'.rec = op.rec /\ op'.pc = "binding" /\ returned' = Nothing
  BY <1>3, StaysItself DEF IInvScene, Pc
<1>9. Positions' /\ Still' /\ Established'
  BY <1>1, <1>2, <1>5, <1>6, <1>7, <1>8
     DEF IInvScene, Positions, Still, Advances, Established, Mine
<1>10. IInvScene'
  BY <1>1, <1>2, <1>7, <1>8, <1>9, BesideRecordings, Constants DEF IInvScene, Typed
<1>11. Unmade' /\ RequestIsGrounded' /\ JudgedAtReset'
  BY <1>1, <1>2, <1>5, <1>6, <1>7, OtherSessions
<1>12. RecoveryIsTrue' /\ Returns'
  BY <1>8 DEF RecoveryIsTrue, Returns, Nothing
<1> QED
  BY <1>9, <1>10, <1>11, <1>12 DEF IInvSession

\* A capture, an execution or a recovery that goes on without writing a session.
LEMMA StayStep ==
  ASSUME IInv, NEW pc \in Pc, StaysAt(pc),
         \/ /\ op.kind = "execute" /\ op.pc \in {"binding", "responding", "applying"}
            /\ pc \in Executing
         \/ op.kind = "recover" /\ pc \in Recovering,
         UNCHANGED <<dt, disk, cameras, runs, ops, sessions, authentic>>,
         scene' \in SceneRecord, timeline' \in {"stopped", "paused", "playing"},
         auto' \in BOOLEAN, pc = "moving" \/ ~Advances', faults' \in 0..MaxFaults
  PROVE IInv'
<1> USE DEF IInv
<1>1. /\ op' \in OpRecord /\ op'.kind = op.kind /\ op'.session = op.session
      /\ op'.rec = op.rec /\ op'.pc = pc /\ returned' = Nothing
  BY StaysItself DEF IInvScene
<1>2. /\ op.kind \in Captures \cup {"recover"} /\ op.session \in Sessions
      /\ op.pc \notin Opening \cup Playing /\ pc \notin Opening \cup Playing
      /\ op.kind \in Captures => op.rec \in Recordings
  BY OfSession DEF IInvScene
<1>3. Positions'
  BY <1>1, <1>2 DEF Positions
<1>4. Still'
  BY <1>1 DEF Still
<1>5. Established'
  BY <1>1, <1>2 DEF IInvSession, Established, Mine
<1>6. IInvScene'
  BY <1>1, <1>2, <1>3, <1>4, BesideRecordings, Constants DEF IInvScene, Typed
<1> QED
  BY <1>1, <1>5, <1>6, LeavesSessions DEF Nothing

\* A write of what a session did, not of the scene it was captured or judged in.
LEMMA ResultStep ==
  ASSUME IInv, NEW s \in Sessions, NEW w \in SessionRecord, Set(s, w), UNCHANGED authentic,
         sessions[s].dir, w.dir = sessions[s].dir, w.handoff = sessions[s].handoff,
         w.reset = sessions[s].reset, w.captured = sessions[s].captured,
         w.safety = sessions[s].safety
  PROVE /\ sessions' \in [Sessions -> SessionRecord] /\ sessions'[s] = w
        /\ Unmade' /\ RequestIsGrounded' /\ JudgedAtReset'
<1>1. /\ sessions' \in [Sessions -> SessionRecord] /\ sessions'[s] = w
      /\ \A t \in Sessions : t # s => sessions'[t] = sessions[t]
  BY SetWrites DEF IInv, IInvScene
<1>2. Unmade' /\ RequestIsGrounded' /\ JudgedAtReset'
  BY <1>1, OtherSessions DEF IInv, IInvSession, RequestIsGrounded, JudgedAtReset
<1> QED
  BY <1>1, <1>2

LEMMA BindStep ==
  ASSUME IInv, bind_live_runtime
  PROVE IInv'
<1> USE DEF IInv
<1>1. /\ op.kind \in Captures /\ op.pc = "binding" /\ op.session \in Sessions
  BY OfSession DEF bind_live_runtime, IInvScene
<1>2. ~Advances
  BY <1>1 DEF IInvScene, Still
<1>3. /\ UNCHANGED <<dt, disk, cameras, runs, ops, sessions, authentic>>
      /\ scene' \in SceneRecord /\ timeline' \in {"stopped", "paused", "playing"}
      /\ auto' \in BOOLEAN /\ ~Advances' /\ faults' \in 0..MaxFaults
  BY <1>1, <1>2, SceneUpdates DEF bind_live_runtime, files, IInvScene, Typed, Advances
<1>4. CASE op.kind = "execute"
  BY <1>1, <1>3, <1>4, StayStep DEF bind_live_runtime, Pc
<1>5. CASE op.kind # "execute"
  BY <1>1, <1>3, <1>5, EndedStep DEF bind_live_runtime
<1> QED
  BY <1>4, <1>5

LEMMA RespondStep ==
  ASSUME IInv, persist_experimental_candidate_response
  PROVE IInv'
<1> USE DEF IInv
<1>1. /\ op.kind = "execute" /\ op.pc = "responding" /\ op.session \in Sessions
      /\ op.rec \in Recordings /\ Mine \in SessionRecord /\ Mine.dir
  BY OfSession DEF persist_experimental_candidate_response, IInvScene, IInvSession, Established
<1>2. UNCHANGED <<scene, timeline, auto, dt, disk, cameras, runs, faults, authentic, ops>>
  BY DEF persist_experimental_candidate_response, files
<1>3. ~Advances
  BY <1>1 DEF IInvScene, Still
<1>4. ASSUME NEW src \in Sessions, Set(op.session, [Mine EXCEPT !.source = src]),
             StaysAt("applying")
      PROVE IInv'
  <2> DEFINE w == [Mine EXCEPT !.source = src]
  <2>1. w \in SessionRecord
    BY <1>1, SessionUpdates
  <2>2. /\ w.dir = Mine.dir /\ w.handoff = Mine.handoff /\ w.reset = Mine.reset
        /\ w.captured = Mine.captured /\ w.safety = Mine.safety
    BY <1>1 DEF SessionRecord
  <2>3. Set(op.session, w)
    BY <1>4
  <2> HIDE DEF w
  <2>4. /\ sessions' \in [Sessions -> SessionRecord] /\ sessions'[op.session] = w
        /\ Unmade' /\ RequestIsGrounded' /\ JudgedAtReset'
    BY <1>1, <1>2, <2>1, <2>2, <2>3, ResultStep DEF Mine
  <2>5. /\ op' \in OpRecord /\ op'.kind = op.kind /\ op'.session = op.session
        /\ op'.rec = op.rec /\ op'.pc = "applying" /\ returned' = Nothing
    BY <1>4, StaysItself DEF IInvScene, Pc
  <2>6. Positions' /\ Still' /\ Established'
    BY <1>1, <1>2, <1>3, <2>2, <2>4, <2>5 DEF Positions, Still, Established, Mine, Advances
  <2>7. IInvScene'
    BY <1>1, <1>2, <2>4, <2>5, <2>6, BesideRecordings, Constants DEF IInvScene, Typed
  <2>8. RecoveryIsTrue' /\ Returns'
    BY <2>5 DEF RecoveryIsTrue, Returns, Nothing
  <2> QED
    BY <2>4, <2>6, <2>7, <2>8 DEF IInvSession
<1>5. CASE Ends(FALSE) /\ UNCHANGED sessions
  <2>1. /\ op.pc \notin Opening \cup Playing /\ ~Advances' /\ scene' \in SceneRecord
        /\ timeline' \in {"stopped", "paused", "playing"} /\ auto' \in BOOLEAN
        /\ faults' \in 0..MaxFaults
    BY <1>1, <1>2, <1>3 DEF IInvScene, Typed, Advances
  <2> QED
    BY <1>2, <1>5, <2>1, EndedStep
<1> QED
  BY <1>4, <1>5 DEF persist_experimental_candidate_response

LEMMA ApplyStep ==
  ASSUME IInv, Apply
  PROVE IInv'
<1>1. op.kind = "execute" /\ op.pc = "applying"
  BY OfSession DEF Apply, IInv, IInvScene
<1>2. /\ UNCHANGED <<dt, disk, cameras, runs, ops, sessions, authentic>>
      /\ scene' \in SceneRecord /\ timeline' \in {"stopped", "paused", "playing"}
      /\ auto' \in BOOLEAN /\ faults' \in 0..MaxFaults /\ StaysAt("moving")
  BY SceneUpdates DEF Apply, files, IInv, IInvScene, Typed
<1> QED
  BY <1>1, <1>2, StayStep DEF Pc

LEMMA MoveEndsStep ==
  ASSUME IInv, MoveEnds
  PROVE IInv'
<1> USE DEF IInv
<1>1. /\ op.kind = "execute" /\ op.pc = "moving" /\ op.session \in Sessions
      /\ Mine \in SessionRecord /\ Mine.dir
  BY OfSession DEF MoveEnds, IInvScene, IInvSession, Established
<1>2. /\ UNCHANGED <<auto, dt, disk, cameras, runs, authentic, ops>> /\ Ends(TRUE)
      /\ timeline' \in {"stopped", "paused"}
  BY DEF MoveEnds, files, PausedTimeline, IInvScene, Typed
<1>3. PICK result \in {"applied", "rolled_back", "rollback_failed"}, clean \in BOOLEAN :
        /\ IF clean THEN UNCHANGED faults ELSE Counted
        /\ Set(op.session, [Mine EXCEPT !.result = result, !.clean = clean])
        /\ scene' = [scene EXCEPT !.arm = IF result = "rolled_back" THEN "near" ELSE "away",
                                  !.plug = IF clean THEN scene.plug ELSE "moved"]
  BY Zenon DEF MoveEnds
<1>4. faults' \in 0..MaxFaults
  BY <1>3, CountedType DEF IInvScene, Typed
<1>5. scene' \in SceneRecord
  <2>1. scene \in SceneRecord /\ scene.plug \in {"placed", "moved"}
    BY DEF IInvScene, Typed, SceneRecord
  <2> DEFINE arm == IF result = "rolled_back" THEN "near" ELSE "away"
             plug == IF clean THEN scene.plug ELSE "moved"
  <2>2. arm \in {"at", "near", "away"} /\ plug \in {"placed", "moved"}
    BY <2>1
  <2>3. scene' = [scene EXCEPT !.arm = arm, !.plug = plug]
    BY <1>3
  <2> HIDE DEF arm, plug
  <2> QED
    BY <2>1, <2>2, <2>3, SceneUpdates
<1> DEFINE w == [Mine EXCEPT !.result = result, !.clean = clean]
<1>6. w \in SessionRecord
  BY <1>1, SessionUpdates
<1>7. /\ w.dir = Mine.dir /\ w.handoff = Mine.handoff /\ w.reset = Mine.reset
      /\ w.captured = Mine.captured /\ w.safety = Mine.safety
  BY <1>1 DEF SessionRecord
<1>8. Set(op.session, w)
  BY <1>3
<1> HIDE DEF w
<1>9. /\ sessions' \in [Sessions -> SessionRecord] /\ sessions'[op.session] = w
      /\ Unmade' /\ RequestIsGrounded' /\ JudgedAtReset'
  BY <1>1, <1>2, <1>6, <1>7, <1>8, ResultStep DEF Mine
<1>10. /\ op' = NoOp /\ op' \in OpRecord /\ op'.pc = "none" /\ op'.kind = "none"
       /\ returned' \in [kind : Kind, session : Names] /\ returned'.kind # "recover"
  BY <1>1, <1>2, Ending, NotRecovery DEF IInvScene
<1>11. Positions' /\ Still' /\ Established'
  BY <1>2, <1>10 DEF Positions, Still, Established, Advances
<1>12. IInvScene'
  BY <1>1, <1>2, <1>4, <1>5, <1>9, <1>10, <1>11, BesideRecordings DEF IInvScene, Typed
<1> QED
  BY <1>9, <1>10, <1>11, <1>12 DEF IInvSession, RecoveryIsTrue, Returns

\* The steps of a recovery up to its last.
LEMMA RecoveryStep ==
  ASSUME IInv, RecoveryPauses \/ Refresh \/ RollBack
  PROVE IInv'
<1> USE DEF IInv
<1>1. op.kind = "recover" /\ op.pc \notin Opening \cup Playing
  BY OfSession DEF RecoveryPauses, Refresh, RollBack, IInvScene
<1>2. /\ UNCHANGED <<dt, disk, cameras, runs, ops, sessions, authentic>>
      /\ timeline' \in {"stopped", "paused"} /\ auto' \in BOOLEAN
  BY DEF RecoveryPauses, Refresh, RollBack, files, PausedTimeline, IInvScene, Typed
<1>3. scene' \in SceneRecord /\ faults' \in 0..MaxFaults
  BY SceneUpdates, CountedType DEF RecoveryPauses, Refresh, RollBack, IInvScene, Typed
<1>4. \/ StaysAt("refreshing") \/ StaysAt("rolling_back") \/ StaysAt("initializing")
      \/ Ends(FALSE)
  BY DEF RecoveryPauses, Refresh, RollBack
<1>5. ~Advances'
  BY <1>2 DEF Advances
<1>6. CASE Ends(FALSE)
  BY <1>1, <1>2, <1>3, <1>5, <1>6, EndedStep
<1>7. ASSUME NEW pc \in {"refreshing", "rolling_back", "initializing"}, StaysAt(pc)
      PROVE IInv'
  BY <1>1, <1>2, <1>3, <1>5, <1>7, StayStep DEF Pc
<1> QED
  BY <1>4, <1>6, <1>7

\* A recovery that returns found the scene at its reset.
LEMMA RecoveryEndsStep ==
  ASSUME IInv, RecoveryEnds
  PROVE IInv'
<1> USE DEF IInv
<1>1. /\ op.kind = "recover" /\ op.pc = "initializing" /\ op.session \in Sessions
      /\ Mine \in SessionRecord /\ Mine.handoff
  BY OfSession DEF RecoveryEnds, IInvScene, IInvSession, Established
<1>2. /\ UNCHANGED <<timeline, dt, disk, cameras, runs, faults, authentic, ops>> /\ ~auto'
      /\ auto' \in BOOLEAN /\ scene' \in SceneRecord /\ scene' = [scene EXCEPT !.arm = "at"]
  BY SceneUpdates DEF RecoveryEnds, files, IInvScene, Typed
<1>3. Mine.dir
  BY <1>1, HandoffMeansDir DEF Mine
<1>4. CASE ~reauthenticate_unknown_start_shadow_session(op.session, scene')
  <2>1. /\ ~Advances' /\ timeline' \in {"stopped", "paused", "playing"}
        /\ op.pc \notin Opening \cup Playing /\ faults' \in 0..MaxFaults
    BY <1>1, <1>2 DEF Advances, IInvScene, Typed
  <2> QED
    BY <1>2, <1>4, <2>1, EndedStep DEF RecoveryEnds
<1>5. CASE reauthenticate_unknown_start_shadow_session(op.session, scene')
  <2>1. Ends(TRUE) /\ timeline # "playing"
    BY <1>1, <1>5 DEF RecoveryEnds, reauthenticate_unknown_start_shadow_session, Mine
  <2>2. AtReset(scene', Mine.reset)
    BY <1>1, <1>2, <1>5, HandoffIsReset
       DEF reauthenticate_unknown_start_shadow_session, Mine, SceneRecord
  <2>3. /\ sessions' \in [Sessions -> SessionRecord]
        /\ sessions'[op.session].recovery # "none"
        /\ sessions'[op.session].reset = Mine.reset
        /\ Unmade' /\ RequestIsGrounded' /\ JudgedAtReset'
    <3>1. CASE Mine.recovery # "none"
      <4>1. UNCHANGED sessions
        BY <1>5, <3>1 DEF RecoveryEnds, Mine
      <4> QED
        BY <1>2, <3>1, <4>1 DEF Mine, IInvSession, Unmade, RequestIsGrounded,
          JudgedAtReset, IInvScene, Typed
    <3>2. CASE Mine.recovery = "none"
      <4>1. PICK readback \in {"exact", "inexact"} :
              Set(op.session, [Mine EXCEPT !.recovery = readback])
        BY <1>5, <3>2 DEF RecoveryEnds, Mine
      <4> DEFINE w == [Mine EXCEPT !.recovery = readback]
      <4>2. w \in SessionRecord
        BY <1>1, SessionUpdates
      <4>3. /\ w.dir = Mine.dir /\ w.handoff = Mine.handoff /\ w.reset = Mine.reset
            /\ w.captured = Mine.captured /\ w.safety = Mine.safety
            /\ w.recovery = readback
        BY <1>1 DEF SessionRecord
      <4>4. Set(op.session, w)
        BY <4>1
      <4> HIDE DEF w
      <4>5. /\ sessions' \in [Sessions -> SessionRecord] /\ sessions'[op.session] = w
            /\ Unmade' /\ RequestIsGrounded' /\ JudgedAtReset'
        BY <1>1, <1>2, <1>3, <4>2, <4>3, <4>4, ResultStep DEF Mine
      <4> QED
        BY <4>3, <4>5
    <3> QED
      BY <3>1, <3>2
  <2>4. /\ op' = NoOp /\ op' \in OpRecord /\ op'.pc = "none" /\ op'.kind = "none"
        /\ returned' \in [kind : Kind, session : Names]
        /\ returned' \in {[kind |-> op.kind, session |-> op.session], Nothing}
    BY <2>1, Ending DEF IInvScene
  <2>5. Positions' /\ Still' /\ Established'
    BY <1>2, <2>4 DEF Positions, Still, Established, Advances
  <2>6. IInvScene'
    BY <1>1, <1>2, <2>3, <2>4, <2>5, BesideRecordings DEF IInvScene, Typed
  <2>7. RecoveryIsTrue' /\ Returns'
    BY <1>1, <1>2, <2>1, <2>2, <2>3, <2>4 DEF RecoveryIsTrue, Returns, Nothing, AtReset
  <2> QED
    BY <2>3, <2>5, <2>6, <2>7 DEF IInvSession
<1> QED
  BY <1>4, <1>5

LEMMA PreflightStep ==
  ASSUME IInv, Preflight
  PROVE IInv'
<1> USE DEF IInv
<1>1. op.kind = "preflight" /\ op.pc \notin Opening \cup Playing
  BY OfSession DEF Preflight, IInvScene
<1> DEFINE ok == /\ load_authenticated_reset(op.rec) /\ BindsPlug(scene)
                 /\ unknown_start_handoff_failures(scene, op.rec) = {}
<1>2. Ends(ok) /\ ok \in BOOLEAN
  BY DEF Preflight, load_authenticated_reset, BindsPlug
<1>3. /\ UNCHANGED <<dt, disk, cameras, runs, ops, sessions, authentic>> /\ ~Advances'
      /\ scene' \in SceneRecord /\ timeline' \in {"stopped", "paused", "playing"}
      /\ auto' \in BOOLEAN /\ faults' \in 0..MaxFaults
  BY DEF Preflight, files, PausedTimeline, IInvScene, Typed, Advances
<1> HIDE DEF ok
<1> QED
  BY <1>1, <1>2, <1>3, EndedStep

-----------------------------------------------------------------------------
LEMMA InitInv == UInit => IInv
<1> SUFFICES ASSUME UInit PROVE IInv
  OBVIOUS
<1>1. Typed
  BY Constants DEF UInit, Init, Typed
<1>2. Positions /\ Still /\ Opened /\ Period
  BY DEF UInit, Init, Positions, Still, Opened, Period, Advances, NoOp
<1>3. Unmade /\ Returns /\ Established /\ RequestIsGrounded /\ JudgedAtReset /\ RecoveryIsTrue
  BY DEF UInit, Init, Unmade, Returns, Established, RequestIsGrounded, JudgedAtReset,
    RecoveryIsTrue, NoSession, Nothing, NoOp
<1> QED
  BY <1>1, <1>2, <1>3 DEF IInv, IInvScene, IInvSession

LEMMA StepInv == IInv /\ [Next]_vars => IInv'
<1> SUFFICES ASSUME IInv, [Next]_vars PROVE IInv'
  OBVIOUS
<1>1. CASE Record
  BY <1>1, RecordScene, RecordSession DEF IInv
<1>2. CASE UnknownStartStep
  BY <1>2, StartCaptureStep, FinalizeResetStep, StartPreflightStep, PlanStep, EvaluateStep,
     StartRecoveryStep, ValidateStep, RenderStep, RenderFailsStep, WriteHandoffStep, BindStep,
     RespondStep, ApplyStep, MoveEndsStep, RecoveryStep, RecoveryEndsStep, PreflightStep
     DEF UnknownStartStep
<1>3. CASE UNCHANGED vars
  BY <1>3 DEF vars, sceneVars, IInv, IInvScene, IInvSession, Typed, Positions, Still, Opened,
    Period, Unmade, Returns, Established, RequestIsGrounded, JudgedAtReset, RecoveryIsTrue,
    Mine, Advances
<1> QED
  BY <1>1, <1>2, <1>3 DEF Next


(***************************************************************************)
(* What every script has in common.  StageOf orders the segments; a link   *)
(* of two segments keeps the order, holds the plug from the segment that   *)
(* attaches it, and in a contact recording turns the connector's           *)
(* collisions on before the plug is aligned.                               *)
(***************************************************************************)
StageOf(segment) == StageIndex(segment.stage)

Link(kind, p, q) ==
  /\ StageOf(p) <= StageOf(q)
  /\ q.before \in {"keep", "collide"} => (StageOf(p) >= 2 <=> StageOf(q) >= 2)
  /\ q.before = "attach" => StageOf(q) >= 2
  /\ kind = "contact" /\ StageOf(q) >= 3 =>
       \/ q.before = "collide"
       \/ q.before # "attach" /\ (StageOf(p) >= 3 \/ p.before = "collide")

\* A part of a script before the plug is released, from stage lo to stage hi.
Part(kind, S, lo, hi, first) ==
  /\ S \in Seq(SegmentRecord) /\ Len(S) >= 1
  /\ StageOf(S[1]) = lo /\ S[1].before = first /\ StageOf(S[Len(S)]) = hi
  /\ \A j \in 1..Len(S) :
       /\ S[j].before # "keep" \/ kind \notin {"demo", "action"} => S[j].frames = "one"
       /\ S[j].before # "detach"
       /\ j < Len(S) => Link(kind, S[j], S[j + 1])

LEMMA Indices ==
  /\ StageIndex(Stages[1]) = 1 /\ StageIndex(Stages[2]) = 2
  /\ StageIndex(Stages[3]) = 3 /\ StageIndex(Stages[4]) = 4
<1>1. \A i \in 1..4, j \in 1..4 : Stages[i] = Stages[j] => i = j
  BY DEF Stages
<1>2. \A i \in 1..4 : StageIndex(Stages[i]) \in 1..4 /\ Stages[StageIndex(Stages[i])] = Stages[i]
  BY DEF StageIndex
<1> QED
  BY <1>1, <1>2

LEMMA StageOfType == \A x : x.stage \in StageNames => StageOf(x) \in 1..4
  BY Indices DEF StageNames, StageOf

LEMMA SegmentIs ==
  ASSUME NEW label, NEW i \in 1..4, NEW frames, NEW before
  PROVE LET s == Segment(label, Stages[i], frames, before)
        IN StageOf(s) = i /\ s.frames = frames /\ s.before = before
  BY Indices DEF Segment, StageOf

LEMMA Joined ==
  ASSUME NEW kind, NEW S, NEW T, NEW a \in 1..4, NEW b \in 1..4, NEW c \in 1..4, NEW d \in 1..4,
         NEW x, NEW y, Part(kind, S, a, b, x), Part(kind, T, c, d, y),
         b <= c, y \in {"keep", "collide"} => (b >= 2 <=> c >= 2), y = "attach" => c >= 2,
         kind = "contact" /\ c >= 3 => y = "collide" \/ (y # "attach" /\ b >= 3)
  PROVE Part(kind, S \o T, a, d, x)
<1> DEFINE U == S \o T
           m == Len(S)
           n == Len(T)
<1>1. /\ S \in Seq(SegmentRecord) /\ T \in Seq(SegmentRecord) /\ m \in Nat /\ n \in Nat
      /\ m >= 1 /\ n >= 1
  BY DEF Part
<1>2. /\ U \in Seq(SegmentRecord) /\ Len(U) = m + n
      /\ \A j \in 1..m : U[j] = S[j]
      /\ \A j \in 1..n : U[m + j] = T[j]
  BY <1>1
<1>3. Link(kind, S[m], T[1])
  BY DEF Part, Link
<1>4. ASSUME NEW j \in 1..Len(U)
      PROVE /\ U[j].before # "keep" \/ kind \notin {"demo", "action"} => U[j].frames = "one"
            /\ U[j].before # "detach"
            /\ j < Len(U) => Link(kind, U[j], U[j + 1])
  <2>1. CASE j < m
    <3>1. U[j] = S[j] /\ U[j + 1] = S[j + 1] /\ j \in 1..m
      BY <1>1, <1>2, <2>1
    <3> QED
      BY <2>1, <3>1 DEF Part
  <2>2. CASE j = m
    <3>1. U[j] = S[m] /\ U[j + 1] = T[1] /\ j \in 1..m
      BY <1>1, <1>2, <2>2
    <3> QED
      BY <1>3, <2>2, <3>1 DEF Part
  <2>3. CASE j > m
    <3>1. PICK k \in 1..n : j = m + k
      <4>1. j - m \in 1..n /\ j = m + (j - m)
        BY <1>1, <1>2, <2>3
      <4> QED
        BY <4>1
    <3>2. U[j] = T[k] /\ (j < Len(U) => k < n /\ U[j + 1] = T[k + 1])
      <4>1. j < Len(U) => k + 1 \in 1..n /\ j + 1 = m + (k + 1)
        BY <1>1, <1>2, <3>1
      <4> QED
        BY <1>1, <1>2, <3>1, <4>1
    <3> QED
      BY <3>2 DEF Part
  <2> QED
    BY <1>1, <2>1, <2>2, <2>3
<1>5. U[1] = S[1] /\ U[Len(U)] = T[n]
  BY <1>1, <1>2
<1> HIDE DEF U
<1>6. Part(kind, U, a, d, x)
  BY <1>1, <1>2, <1>4, <1>5 DEF Part
<1> QED
  BY <1>6 DEF U

\* Two parts that meet in a stage.
LEMMA JoinedWithin ==
  ASSUME NEW kind, NEW S, NEW T, NEW a \in 1..4, NEW b \in 1..4, NEW d \in 1..4,
         NEW x, NEW y \in {"keep", "collide"}, Part(kind, S, a, b, x), Part(kind, T, b, d, y)
  PROVE Part(kind, S \o T, a, d, x)
<1>1. /\ b <= b /\ (y \in {"keep", "collide"} => (b >= 2 <=> b >= 2)) /\ y # "attach"
      /\ kind = "contact" /\ b >= 3 => y = "collide" \/ (y # "attach" /\ b >= 3)
  OBVIOUS
<1> QED
  BY <1>1, Joined, Zenon

LEMMA MoveIs ==
  ASSUME NEW label \in Labels, NEW i \in 1..4
  PROVE /\ LET s == Move(label, Stages[i])
           IN s \in SegmentRecord /\ StageOf(s) = i /\ s.frames = "one" /\ s.before = "keep"
        /\ LET s == Fill(label, Stages[i])
           IN s \in SegmentRecord /\ StageOf(s) = i /\ s.frames = "window" /\ s.before = "keep"
        /\ \A before \in {"keep", "attach", "detach", "collide"} :
             LET s == Segment(label, Stages[i], "one", before)
             IN s \in SegmentRecord /\ StageOf(s) = i /\ s.frames = "one" /\ s.before = before
        /\ LET s == Segment(label, Stages[i], "settle", "keep")
           IN s \in SegmentRecord /\ StageOf(s) = i /\ s.frames = "settle" /\ s.before = "keep"
<1>1. Stages[i] \in StageNames
  BY DEF StageNames
<1> QED
  BY <1>1, Segments, SegmentIs DEF Move, Fill

\* Two segments of one stage that keep the plug.
LEMMA ReachPart ==
  ASSUME NEW kind \in {"demo", "action"}, NEW motion \in Labels, NEW settle \in Labels, NEW i \in 1..4
  PROVE Part(kind, Reach(motion, settle, Stages[i]), i, i, "keep")
<1> DEFINE p == Move(motion, Stages[i])
           q == Segment(settle, Stages[i], "settle", "keep")
<1>1. /\ p \in SegmentRecord /\ StageOf(p) = i /\ p.frames = "one" /\ p.before = "keep"
      /\ q \in SegmentRecord /\ StageOf(q) = i /\ q.frames = "settle" /\ q.before = "keep"
  BY MoveIs
<1>2. Reach(motion, settle, Stages[i]) = <<p, q>>
  BY DEF Reach
<1> HIDE DEF p, q
<1>3. Link(kind, p, q)
  BY <1>1 DEF Link
<1>4. Part(kind, <<p, q>>, i, i, "keep")
  BY <1>1, <1>3 DEF Part
<1> QED
  BY <1>2, <1>4

LEMMA GraspPart == ASSUME NEW kind PROVE Part(kind, record_successful_grasp, 1, 2, "keep")
<1> DEFINE p1 == Move("motion.pre_grasp", Stages[1])
           p2 == Move("motion.grasp", Stages[1])
           p3 == Move("close.grasp", Stages[1])
           p4 == Segment("attached.grasp", Stages[2], "one", "attach")
           p5 == Move("motion.pre_insertion", Stages[2])
           p6 == Move("settle.pre_insertion", Stages[2])
<1>1. /\ p1 \in SegmentRecord /\ StageOf(p1) = 1 /\ p1.frames = "one" /\ p1.before = "keep"
      /\ p2 \in SegmentRecord /\ StageOf(p2) = 1 /\ p2.frames = "one" /\ p2.before = "keep"
      /\ p3 \in SegmentRecord /\ StageOf(p3) = 1 /\ p3.frames = "one" /\ p3.before = "keep"
  BY MoveIs DEF Labels
<1>2. /\ p5 \in SegmentRecord /\ StageOf(p5) = 2 /\ p5.frames = "one" /\ p5.before = "keep"
      /\ p6 \in SegmentRecord /\ StageOf(p6) = 2 /\ p6.frames = "one" /\ p6.before = "keep"
  BY MoveIs DEF Labels
<1>3. p4 \in SegmentRecord /\ StageOf(p4) = 2 /\ p4.frames = "one" /\ p4.before = "attach"
  BY MoveIs DEF Labels
<1>4. record_successful_grasp = <<p1, p2, p3, p4, p5, p6>>
  BY DEF record_successful_grasp
<1> HIDE DEF p1, p2, p3, p4, p5, p6
<1>5. /\ Link(kind, p1, p2) /\ Link(kind, p2, p3) /\ Link(kind, p3, p4) /\ Link(kind, p4, p5)
      /\ Link(kind, p5, p6)
  BY <1>1, <1>2, <1>3 DEF Link
<1>6. Part(kind, <<p1, p2, p3, p4, p5, p6>>, 1, 2, "keep")
  BY <1>1, <1>2, <1>3, <1>5 DEF Part
<1> QED
  BY <1>4, <1>6

LEMMA InsertionPart ==
  ASSUME NEW kind
  PROVE Part(kind, record_successful_insertion(kind), 2, 4,
             IF kind = "contact" THEN "collide" ELSE "keep")
<1> DEFINE first == IF kind = "contact" THEN "collide" ELSE "keep"
           p1 == Segment("motion.pre_insertion", Stages[2], "one", first)
           p2 == Move("settle.pre_insertion", Stages[3])
           p3 == Move("motion.insert", Stages[3])
           p4 == Move("settle.insert", Stages[4])
<1>1. /\ \A p \in {p2, p3, p4} : p \in SegmentRecord /\ p.frames = "one" /\ p.before = "keep"
      /\ StageOf(p2) = 3 /\ StageOf(p3) = 3 /\ StageOf(p4) = 4
  BY MoveIs DEF Labels
<1>2. p1 \in SegmentRecord /\ StageOf(p1) = 2 /\ p1.frames = "one" /\ p1.before = first
  <2>1. "motion.pre_insertion" \in Labels /\ 2 \in 1..4
    BY DEF Labels
  <2>2. \A before \in {"keep", "attach", "detach", "collide"} :
          LET s == Segment("motion.pre_insertion", Stages[2], "one", before)
          IN s \in SegmentRecord /\ StageOf(s) = 2 /\ s.frames = "one" /\ s.before = before
    BY <2>1, MoveIs
  <2> QED
    BY <2>2
<1>3. record_successful_insertion(kind) = <<p1, p2, p3, p4>>
  BY DEF record_successful_insertion
<1>4. first \in {"keep", "collide"} /\ (kind = "contact" => first = "collide")
  OBVIOUS
<1> HIDE DEF first, p1, p2, p3, p4
<1>5. Link(kind, p1, p2) /\ Link(kind, p2, p3) /\ Link(kind, p3, p4)
  BY <1>1, <1>2, <1>4 DEF Link
<1>6. Part(kind, <<p1, p2, p3, p4>>, 2, 4, first)
  BY <1>1, <1>2, <1>4, <1>5 DEF Part
<1> QED
  BY <1>3, <1>6 DEF first

LEMMA TargetsPart == ASSUME NEW kind PROVE Part(kind, ExplorationTargets, 1, 1, "keep")
<1> DEFINE p == Move("settle.ready", Stages[1])
           q == Move("motion.ready", Stages[1])
<1>1. /\ p \in SegmentRecord /\ StageOf(p) = 1 /\ p.frames = "one" /\ p.before = "keep"
      /\ q \in SegmentRecord /\ StageOf(q) = 1 /\ q.frames = "one" /\ q.before = "keep"
  BY MoveIs DEF Labels
<1>2. ExplorationTargets = <<p, q, q, q>>
  BY DEF ExplorationTargets
<1> HIDE DEF p, q
<1>3. Link(kind, p, q) /\ Link(kind, q, q)
  BY <1>1 DEF Link
<1>4. Part(kind, <<p, q, q, q>>, 1, 1, "keep")
  BY <1>1, <1>3 DEF Part
<1> QED
  BY <1>2, <1>4

LEMMA InitialPart ==
  ASSUME NEW kind PROVE Part(kind, <<Move("initial", Stages[1])>>, 1, 1, "keep")
<1>1. "initial" \in Labels /\ 1 \in 1..4
  BY DEF Labels
<1> DEFINE s == Move("initial", Stages[1])
<1>2. s \in SegmentRecord /\ StageOf(s) = 1 /\ s.frames = "one" /\ s.before = "keep"
  BY <1>1, MoveIs
<1> HIDE DEF s
<1>3. Part(kind, <<s>>, 1, 1, "keep")
  BY <1>2 DEF Part
<1> QED
  BY <1>3 DEF s

LEMMA ExplorationPart ==
  /\ Part("domain", ExplorationScript("domain"), 1, 1, "keep")
  /\ Part("grasp", ExplorationScript("grasp"), 1, 2, "keep")
  /\ Part("insertion", ExplorationScript("insertion"), 1, 4, "keep")
  /\ Part("contact", ExplorationScript("contact"), 1, 4, "keep")
<1> DEFINE I == <<Move("initial", Stages[1])>>
           T == ExplorationTargets
           G == record_successful_grasp
           N(kind) == record_successful_insertion(kind)
<1>1. /\ I \in Seq(SegmentRecord) /\ T \in Seq(SegmentRecord) /\ G \in Seq(SegmentRecord)
      /\ N("insertion") \in Seq(SegmentRecord) /\ N("contact") \in Seq(SegmentRecord)
  BY InitialPart, TargetsPart, GraspPart, InsertionPart DEF Part
<1>2. /\ ExplorationScript("domain") = ((I \o T) \o <<>>) \o <<>>
      /\ ExplorationScript("grasp") = ((I \o T) \o G) \o <<>>
      /\ ExplorationScript("insertion") = ((I \o T) \o G) \o N("insertion")
      /\ ExplorationScript("contact") = ((I \o <<>>) \o G) \o N("contact")
  BY DEF ExplorationScript
<1>3. \A kind : /\ Part(kind, I, 1, 1, "keep") /\ Part(kind, T, 1, 1, "keep")
                /\ Part(kind, G, 1, 2, "keep")
                /\ Part(kind, N(kind), 2, 4, IF kind = "contact" THEN "collide" ELSE "keep")
  BY InitialPart, TargetsPart, GraspPart, InsertionPart
<1> HIDE DEF I, T, G, N
<1>4. 1 \in 1..4 /\ 2 \in 1..4 /\ 4 \in 1..4
  OBVIOUS
<1>5. /\ (I \o T) \o <<>> = I \o T /\ I \o <<>> = I
      /\ ((I \o T) \o G) \o <<>> = (I \o T) \o G
  BY <1>1
<1>6. \A kind : Part(kind, I \o T, 1, 1, "keep")
  <2> TAKE kind
  <2>1. Part(kind, I, 1, 1, "keep") /\ Part(kind, T, 1, 1, "keep")
    BY <1>3
  <2> QED
    BY <1>4, <2>1, JoinedWithin, Zenon
<1>7. \A kind : Part(kind, (I \o T) \o G, 1, 2, "keep")
  BY <1>4, <1>3, <1>6, JoinedWithin, Zenon
<1>8. Part("insertion", ((I \o T) \o G) \o N("insertion"), 1, 4, "keep")
  <2>1. Part("insertion", N("insertion"), 2, 4, "keep")
    BY <1>3
  <2> QED
    BY <1>4, <1>7, <2>1, JoinedWithin, Zenon
<1>9. Part("contact", I \o G, 1, 2, "keep")
  BY <1>4, <1>3, JoinedWithin, Zenon
<1>10. Part("contact", (I \o G) \o N("contact"), 1, 4, "keep")
  <2>1. Part("contact", N("contact"), 2, 4, "collide")
    BY <1>3
  <2> QED
    BY <1>4, <1>9, <2>1, JoinedWithin, Zenon
<1> QED
  BY <1>2, <1>5, <1>6, <1>7, <1>8, <1>10

\* The demo and the action recording have one script, which releases the plug in
\* its last segment.
LEMMA DemoPart ==
  ASSUME NEW kind \in {"demo", "action"}
  PROVE \E T : \E last \in SegmentRecord :
          /\ DemoScript = T \o <<last>> /\ Part(kind, T, 1, 4, "keep")
          /\ StageOf(last) = 4 /\ last.frames = "one" /\ last.before = "detach"
<1> DEFINE I == <<Move("initial", Stages[1])>>
           a == Fill("settle.grasp", Stages[1])
           b == Move("close.grasp", Stages[1])
           c == Segment("attached.grasp", Stages[2], "one", "attach")
           d == Fill("settle.pre_insertion", Stages[2])
           e == Fill("settle.pre_insertion", Stages[3])
           f == Fill("settle.insert", Stages[4])
           last == Segment("complete.release", Stages[4], "one", "detach")
           R1 == Reach("motion.ready", "settle.ready", Stages[1])
           R2 == Reach("motion.pre_grasp", "settle.pre_grasp", Stages[1])
           R3 == Reach("motion.grasp", "settle.grasp", Stages[1])
           R4 == Reach("motion.pre_insertion", "settle.pre_insertion", Stages[2])
           R5 == Reach("motion.insert", "settle.insert", Stages[3])
           R6 == Reach("motion.release", "settle.release", Stages[4])
<1>1. DemoScript = ((((((((((I \o R1) \o R2) \o R3) \o <<a, b, c>>) \o R4) \o <<d, e>>) \o R5)
                      \o <<f>>) \o R6) \o <<last>>)
  BY DEF DemoScript
<1>2. /\ Part(kind, I, 1, 1, "keep")
      /\ Part(kind, R1, 1, 1, "keep") /\ Part(kind, R2, 1, 1, "keep")
      /\ Part(kind, R3, 1, 1, "keep") /\ Part(kind, R4, 2, 2, "keep")
      /\ Part(kind, R5, 3, 3, "keep") /\ Part(kind, R6, 4, 4, "keep")
  <2>1. Part(kind, I, 1, 1, "keep")
    BY InitialPart
  <2>2. /\ "motion.ready" \in Labels /\ "settle.ready" \in Labels
        /\ "motion.pre_grasp" \in Labels /\ "settle.pre_grasp" \in Labels
        /\ "motion.grasp" \in Labels /\ "settle.grasp" \in Labels
        /\ "motion.pre_insertion" \in Labels /\ "settle.pre_insertion" \in Labels
        /\ "motion.insert" \in Labels /\ "settle.insert" \in Labels
        /\ "motion.release" \in Labels /\ "settle.release" \in Labels
    BY DEF Labels
  <2>3. 1 \in 1..4 /\ 2 \in 1..4 /\ 3 \in 1..4 /\ 4 \in 1..4
    OBVIOUS
  <2> QED
    BY <2>1, <2>2, <2>3, ReachPart, Zenon
<1>3. /\ a \in SegmentRecord /\ StageOf(a) = 1 /\ a.before = "keep"
      /\ b \in SegmentRecord /\ StageOf(b) = 1 /\ b.before = "keep"
      /\ d \in SegmentRecord /\ StageOf(d) = 2 /\ d.before = "keep"
      /\ e \in SegmentRecord /\ StageOf(e) = 3 /\ e.before = "keep"
      /\ f \in SegmentRecord /\ StageOf(f) = 4 /\ f.before = "keep"
  BY MoveIs DEF Labels
<1>4. /\ c \in SegmentRecord /\ StageOf(c) = 2 /\ c.before = "attach" /\ c.frames = "one"
      /\ last \in SegmentRecord /\ StageOf(last) = 4 /\ last.before = "detach"
      /\ last.frames = "one"
  BY MoveIs DEF Labels
<1> HIDE DEF I, a, b, c, d, e, f, last, R1, R2, R3, R4, R5, R6
<1>5. Part(kind, <<a, b, c>>, 1, 2, "keep")
  <2>1. Link(kind, a, b) /\ Link(kind, b, c)
    BY <1>3, <1>4 DEF Link
  <2> QED
    BY <1>3, <1>4, <2>1 DEF Part
<1>6. Part(kind, <<d, e>>, 2, 3, "keep")
  <2>1. Link(kind, d, e)
    BY <1>3 DEF Link
  <2> QED
    BY <1>3, <2>1 DEF Part
<1>7. Part(kind, <<f>>, 4, 4, "keep")
  BY <1>3 DEF Part
<1>8. 1 \in 1..4 /\ 2 \in 1..4 /\ 3 \in 1..4 /\ 4 \in 1..4
  OBVIOUS
<1>9. Part(kind, (((I \o R1) \o R2) \o R3) \o <<a, b, c>>, 1, 2, "keep")
  <2>1. Part(kind, (I \o R1) \o R2, 1, 1, "keep")
    <3>1. Part(kind, I \o R1, 1, 1, "keep")
      BY <1>2, <1>8, JoinedWithin, Zenon
    <3> QED
      BY <1>2, <1>8, <3>1, JoinedWithin, Zenon
  <2>2. Part(kind, ((I \o R1) \o R2) \o R3, 1, 1, "keep")
    BY <1>2, <1>8, <2>1, JoinedWithin, Zenon
  <2> QED
    BY <1>5, <1>8, <2>2, JoinedWithin, Zenon
<1> DEFINE G == (((I \o R1) \o R2) \o R3) \o <<a, b, c>>
<1>10. Part(kind, G, 1, 2, "keep")
  BY <1>9
<1> HIDE DEF G
<1>11. Part(kind, ((G \o R4) \o <<d, e>>) \o R5, 1, 3, "keep")
  <2>1. Part(kind, G \o R4, 1, 2, "keep")
    BY <1>2, <1>8, <1>10, JoinedWithin, Zenon
  <2>2. Part(kind, (G \o R4) \o <<d, e>>, 1, 3, "keep")
    BY <1>6, <1>8, <2>1, JoinedWithin, Zenon
  <2> QED
    BY <1>2, <1>8, <2>2, JoinedWithin, Zenon
<1> DEFINE L == ((G \o R4) \o <<d, e>>) \o R5
<1>12. Part(kind, L, 1, 3, "keep")
  BY <1>11
<1> HIDE DEF L
<1>13. Part(kind, L \o <<f>>, 1, 4, "keep")
  <2>1. /\ 3 <= 4 /\ ("keep" \in {"keep", "collide"} => (3 >= 2 <=> 4 >= 2))
        /\ "keep" # "attach" /\ kind # "contact"
    OBVIOUS
  <2> QED
    BY <1>7, <1>8, <1>12, <2>1, Joined, Zenon
<1>14. Part(kind, (L \o <<f>>) \o R6, 1, 4, "keep")
  BY <1>2, <1>8, <1>13, JoinedWithin, Zenon
<1>15. DemoScript = ((L \o <<f>>) \o R6) \o <<last>>
  BY <1>1 DEF L, G
<1> HIDE DEF L
<1> QED
  BY <1>4, <1>14, <1>15, Zenon

LEMMA FilmPart ==
  /\ Part("candidate_film", FilmScript("candidate_film"), 1, 1, "keep")
  /\ Part("grasp_film", FilmScript("grasp_film"), 1, 2, "keep")
  /\ Part("insertion_film", FilmScript("insertion_film"), 2, 2, "keep")
<1>1. Part("candidate_film", FilmScript("candidate_film"), 1, 1, "keep")
  <2> DEFINE p == Move("motion.ready", Stages[1])
             q == Move("complete.ready", Stages[1])
  <2>1. /\ p \in SegmentRecord /\ StageOf(p) = 1 /\ p.frames = "one" /\ p.before = "keep"
        /\ q \in SegmentRecord /\ StageOf(q) = 1 /\ q.frames = "one" /\ q.before = "keep"
    BY MoveIs DEF Labels
  <2>2. FilmScript("candidate_film") = <<p, p, q>>
    BY DEF FilmScript
  <2> HIDE DEF p, q
  <2>3. Link("candidate_film", p, p) /\ Link("candidate_film", p, q)
    BY <2>1 DEF Link
  <2>4. Part("candidate_film", <<p, p, q>>, 1, 1, "keep")
    BY <2>1, <2>3 DEF Part
  <2> QED
    BY <2>2, <2>4
<1>2. Part("grasp_film", FilmScript("grasp_film"), 1, 2, "keep")
  <2> DEFINE p == Move("motion.grasp", Stages[1])
             c == Segment("attached.grasp", Stages[2], "one", "attach")
             q == Move("motion.pre_insertion", Stages[2])
             r == Move("complete.pre_insertion", Stages[2])
  <2>1. /\ p \in SegmentRecord /\ StageOf(p) = 1 /\ p.frames = "one" /\ p.before = "keep"
        /\ q \in SegmentRecord /\ StageOf(q) = 2 /\ q.frames = "one" /\ q.before = "keep"
        /\ r \in SegmentRecord /\ StageOf(r) = 2 /\ r.frames = "one" /\ r.before = "keep"
        /\ c \in SegmentRecord /\ StageOf(c) = 2 /\ c.frames = "one" /\ c.before = "attach"
    BY MoveIs DEF Labels
  <2>2. FilmScript("grasp_film") = <<p, p, c, q, r>>
    BY DEF FilmScript
  <2> HIDE DEF p, q, r, c
  <2>3. /\ Link("grasp_film", p, p) /\ Link("grasp_film", p, c) /\ Link("grasp_film", c, q)
        /\ Link("grasp_film", q, r)
    BY <2>1 DEF Link
  <2>4. Part("grasp_film", <<p, p, c, q, r>>, 1, 2, "keep")
    BY <2>1, <2>3 DEF Part
  <2> QED
    BY <2>2, <2>4
<1>3. Part("insertion_film", FilmScript("insertion_film"), 2, 2, "keep")
  <2> DEFINE p == Move("motion.pre_insertion", Stages[2])
             q == Move("complete.pre_insertion", Stages[2])
  <2>1. /\ p \in SegmentRecord /\ StageOf(p) = 2 /\ p.frames = "one" /\ p.before = "keep"
        /\ q \in SegmentRecord /\ StageOf(q) = 2 /\ q.frames = "one" /\ q.before = "keep"
    BY MoveIs DEF Labels
  <2>2. FilmScript("insertion_film") = <<p, p, q>>
    BY DEF FilmScript
  <2> HIDE DEF p, q
  <2>3. Link("insertion_film", p, p) /\ Link("insertion_film", p, q)
    BY <2>1 DEF Link
  <2>4. Part("insertion_film", <<p, p, q>>, 2, 2, "keep")
    BY <2>1, <2>3 DEF Part
  <2> QED
    BY <2>2, <2>4
<1> QED
  BY <1>1, <1>2, <1>3

(***************************************************************************)
(* What a script says of the plug at each of its segments.                 *)
(***************************************************************************)
Releases(kind, j) == kind \in {"demo", "action"} /\ j = Len(Script[kind])
Holds(kind, j) == StageOf(Script[kind][j]) >= 2 /\ ~Releases(kind, j)
HoldsBefore(kind, j) == IF j = 1 THEN kind = "insertion_film" ELSE Holds(kind, j - 1)
CollidesBefore(kind, j) ==
  /\ kind = "contact" /\ j > 1
  /\ StageOf(Script[kind][j - 1]) >= 3 \/ Script[kind][j - 1].before = "collide"

Faithful(kind) ==
  LET S == Script[kind]
  IN /\ S \in Seq(SegmentRecord) /\ Len(S) >= 1
     /\ S[Len(S)].frames = "one" /\ StageOf(S[Len(S)]) = LastStage(kind)
     /\ \A j \in 1..Len(S) :
          /\ j < Len(S) => StageOf(S[j]) <= StageOf(S[j + 1])
          /\ S[j].before # "keep" => S[j].frames = "one"
          /\ S[j].before = "attach" => Holds(kind, j)
          /\ S[j].before = "detach" => ~Holds(kind, j)
          /\ S[j].before \in {"keep", "collide"} => (Holds(kind, j) <=> HoldsBefore(kind, j))
          /\ kind = "contact" /\ StageOf(S[j]) >= 3 =>
               S[j].before = "collide" \/ (S[j].before # "attach" /\ CollidesBefore(kind, j))

LEMMA PartFaithful ==
  ASSUME NEW kind \in RecordingKinds \ {"demo", "action"}, NEW lo \in 1..4,
         Part(kind, Script[kind], lo, LastStage(kind), "keep"),
         kind = "insertion_film" <=> lo >= 2, kind = "contact" => lo < 3
  PROVE Faithful(kind)
<1> DEFINE S == Script[kind]
<1>1. /\ S \in Seq(SegmentRecord) /\ Len(S) >= 1 /\ StageOf(S[Len(S)]) = LastStage(kind)
      /\ StageOf(S[1]) = lo /\ S[1].before = "keep" /\ Len(S) \in Nat
  BY DEF Part
<1>2. \A j \in 1..Len(S) : Holds(kind, j) <=> StageOf(S[j]) >= 2
  BY DEF Holds, Releases
<1>3. ASSUME NEW j \in 1..Len(S)
      PROVE /\ j < Len(S) => StageOf(S[j]) <= StageOf(S[j + 1])
            /\ S[j].frames = "one" /\ S[j].before # "detach"
  BY DEF Part, Link
<1>4. ASSUME NEW j \in 1..Len(S)
      PROVE /\ S[j].before = "attach" => Holds(kind, j)
            /\ S[j].before \in {"keep", "collide"} => (Holds(kind, j) <=> HoldsBefore(kind, j))
            /\ kind = "contact" /\ StageOf(S[j]) >= 3 =>
                 S[j].before = "collide" \/ (S[j].before # "attach" /\ CollidesBefore(kind, j))
  <2>1. CASE j = 1
    BY <1>1, <1>2, <2>1 DEF HoldsBefore
  <2>2. CASE j # 1
    <3>1. j - 1 \in 1..Len(S) /\ j - 1 < Len(S) /\ (j - 1) + 1 = j /\ j > 1
      BY <1>1, <2>2
    <3>2. Link(kind, S[j - 1], S[j])
      BY <3>1 DEF Part
    <3>3. HoldsBefore(kind, j) <=> StageOf(S[j - 1]) >= 2
      BY <1>2, <2>2, <3>1 DEF HoldsBefore
    <3> QED
      BY <1>2, <3>1, <3>2, <3>3 DEF Link, CollidesBefore
  <2> QED
    BY <2>1, <2>2
<1> QED
  BY <1>1, <1>3, <1>4 DEF Faithful

LEMMA DemoFaithful ==
  ASSUME NEW kind \in {"demo", "action"}
  PROVE Faithful(kind)
<1> DEFINE S == Script[kind]
<1>1. PICK T : \E last \in SegmentRecord :
          /\ DemoScript = T \o <<last>> /\ Part(kind, T, 1, 4, "keep")
          /\ StageOf(last) = 4 /\ last.frames = "one" /\ last.before = "detach"
  BY DemoPart
<1>2. PICK last \in SegmentRecord :
          /\ DemoScript = T \o <<last>> /\ Part(kind, T, 1, 4, "keep")
          /\ StageOf(last) = 4 /\ last.frames = "one" /\ last.before = "detach"
  BY <1>1
<1>3. S = T \o <<last>>
  BY <1>2, ScriptIs
<1> DEFINE n == Len(T)
<1>4. T \in Seq(SegmentRecord) /\ n \in Nat /\ n >= 1 /\ StageOf(T[1]) = 1 /\ T[1].before = "keep"
      /\ StageOf(T[n]) = 4
  BY <1>2 DEF Part
<1>5. /\ S \in Seq(SegmentRecord) /\ Len(S) = n + 1 /\ S[n + 1] = last
      /\ \A j \in 1..n : S[j] = T[j]
  BY <1>2, <1>3, <1>4
<1> HIDE DEF n
<1>6. /\ S[Len(S)].frames = "one" /\ StageOf(S[Len(S)]) = LastStage(kind) /\ Len(S) >= 1
  BY <1>2, <1>4, <1>5 DEF LastStage
<1> HIDE DEF S
<1>7. /\ \A j \in 1..n : Holds(kind, j) <=> StageOf(T[j]) >= 2
      /\ ~Holds(kind, n + 1)
  BY <1>4, <1>5 DEF Holds, Releases, S
<1>8. ASSUME NEW j \in 1..Len(S)
      PROVE /\ j < Len(S) => StageOf(S[j]) <= StageOf(S[j + 1])
            /\ S[j].before # "keep" => S[j].frames = "one"
            /\ S[j].before = "attach" => Holds(kind, j)
            /\ S[j].before = "detach" => ~Holds(kind, j)
            /\ S[j].before \in {"keep", "collide"} => (Holds(kind, j) <=> HoldsBefore(kind, j))
  <2>1. CASE j = n + 1
    BY <1>2, <1>4, <1>5, <1>7, <2>1
  <2>2. CASE j \in 1..n
    <3>1. /\ S[j] = T[j] /\ T[j].before # "detach" /\ (T[j].before # "keep" => T[j].frames = "one")
      BY <1>2, <1>5, <2>2 DEF Part, n
    <3>2. j < Len(S) => StageOf(S[j]) <= StageOf(S[j + 1])
      <4>1. CASE j = n
        BY <1>2, <1>4, <1>5, <4>1
      <4>2. CASE j # n
        <5>1. j < n /\ j + 1 \in 1..n
          BY <1>4, <2>2, <4>2
        <5>2. Link(kind, T[j], T[j + 1])
          BY <1>2, <2>2, <5>1 DEF Part, n
        <5> QED
          BY <1>5, <2>2, <5>1, <5>2 DEF Link
      <4> QED
        BY <4>1, <4>2
    <3>3. /\ T[j].before = "attach" => Holds(kind, j)
          /\ T[j].before \in {"keep", "collide"} => (Holds(kind, j) <=> HoldsBefore(kind, j))
      <4>1. CASE j = 1
        BY <1>4, <1>7, <2>2, <4>1 DEF HoldsBefore
      <4>2. CASE j # 1
        <5>1. j - 1 \in 1..n /\ j - 1 < n /\ (j - 1) + 1 = j
          BY <1>4, <2>2, <4>2
        <5>2. Link(kind, T[j - 1], T[j])
          BY <1>2, <5>1 DEF Part, n
        <5>3. HoldsBefore(kind, j) <=> StageOf(T[j - 1]) >= 2
          BY <1>7, <4>2, <5>1 DEF HoldsBefore
        <5> QED
          BY <1>7, <2>2, <5>2, <5>3 DEF Link
      <4> QED
        BY <4>1, <4>2
    <3> QED
      BY <3>1, <3>2, <3>3
  <2> QED
    BY <1>4, <1>5, <2>1, <2>2
<1>9. kind # "contact"
  OBVIOUS
<1> QED
  BY <1>5, <1>6, <1>8, <1>9 DEF Faithful, S

LEMMA ScriptFaithful == \A kind \in RecordingKinds : Faithful(kind)
<1>1. Faithful("domain")
  <2>1. Script["domain"] = ExplorationScript("domain")
    BY ScriptIs DEF Explorations
  <2>2. LastStage("domain") = 1
    BY DEF LastStage
  <2>3. Part("domain", Script["domain"], 1, LastStage("domain"), "keep")
    BY <2>1, <2>2, ExplorationPart
  <2>4. "domain" \in RecordingKinds \ {"demo", "action"}
    BY DEF RecordingKinds, Jobs, Explorations, Films
  <2> QED
    BY <2>3, <2>4, PartFaithful
<1>2. Faithful("grasp")
  <2>1. Script["grasp"] = ExplorationScript("grasp")
    BY ScriptIs DEF Explorations
  <2>2. LastStage("grasp") = 2
    BY DEF LastStage
  <2>3. Part("grasp", Script["grasp"], 1, LastStage("grasp"), "keep")
    BY <2>1, <2>2, ExplorationPart
  <2>4. "grasp" \in RecordingKinds \ {"demo", "action"}
    BY DEF RecordingKinds, Jobs, Explorations, Films
  <2> QED
    BY <2>3, <2>4, PartFaithful
<1>3. Faithful("insertion")
  <2>1. Script["insertion"] = ExplorationScript("insertion")
    BY ScriptIs DEF Explorations
  <2>2. LastStage("insertion") = 4
    BY DEF LastStage
  <2>3. Part("insertion", Script["insertion"], 1, LastStage("insertion"), "keep")
    BY <2>1, <2>2, ExplorationPart
  <2>4. "insertion" \in RecordingKinds \ {"demo", "action"}
    BY DEF RecordingKinds, Jobs, Explorations, Films
  <2> QED
    BY <2>3, <2>4, PartFaithful
<1>4. Faithful("contact")
  <2>1. Script["contact"] = ExplorationScript("contact")
    BY ScriptIs DEF Explorations
  <2>2. LastStage("contact") = 4
    BY DEF LastStage
  <2>3. Part("contact", Script["contact"], 1, LastStage("contact"), "keep")
    BY <2>1, <2>2, ExplorationPart
  <2>4. "contact" \in RecordingKinds \ {"demo", "action"}
    BY DEF RecordingKinds, Jobs, Explorations, Films
  <2> QED
    BY <2>3, <2>4, PartFaithful
<1>5. Faithful("candidate_film")
  <2>1. Script["candidate_film"] = FilmScript("candidate_film")
    BY ScriptIs DEF Films
  <2>2. LastStage("candidate_film") = 1
    BY DEF LastStage
  <2>3. Part("candidate_film", Script["candidate_film"], 1, LastStage("candidate_film"), "keep")
    BY <2>1, <2>2, FilmPart
  <2>4. "candidate_film" \in RecordingKinds \ {"demo", "action"}
    BY DEF RecordingKinds, Jobs, Explorations, Films
  <2> QED
    BY <2>3, <2>4, PartFaithful
<1>6. Faithful("grasp_film")
  <2>1. Script["grasp_film"] = FilmScript("grasp_film")
    BY ScriptIs DEF Films
  <2>2. LastStage("grasp_film") = 2
    BY DEF LastStage
  <2>3. Part("grasp_film", Script["grasp_film"], 1, LastStage("grasp_film"), "keep")
    BY <2>1, <2>2, FilmPart
  <2>4. "grasp_film" \in RecordingKinds \ {"demo", "action"}
    BY DEF RecordingKinds, Jobs, Explorations, Films
  <2> QED
    BY <2>3, <2>4, PartFaithful
<1>7. Faithful("insertion_film")
  <2>1. Script["insertion_film"] = FilmScript("insertion_film")
    BY ScriptIs DEF Films
  <2>2. LastStage("insertion_film") = 2
    BY DEF LastStage
  <2>3. Part("insertion_film", Script["insertion_film"], 2, LastStage("insertion_film"), "keep")
    BY <2>1, <2>2, FilmPart
  <2>4. "insertion_film" \in RecordingKinds \ {"demo", "action"}
    BY DEF RecordingKinds, Jobs, Explorations, Films
  <2> QED
    BY <2>3, <2>4, PartFaithful
<1>8. Faithful("reset")
  <2>1. Script["reset"] = <<Move("initial", Stages[1])>>
    BY ScriptIs
  <2>2. LastStage("reset") = 1
    BY DEF LastStage
  <2>3. Part("reset", Script["reset"], 1, LastStage("reset"), "keep")
    BY <2>1, <2>2, InitialPart
  <2>4. "reset" \in RecordingKinds \ {"demo", "action"}
    BY DEF RecordingKinds, Jobs, Explorations, Films
  <2> QED
    BY <2>3, <2>4, PartFaithful
<1> QED
  BY <1>1, <1>2, <1>3, <1>4, <1>5, <1>6, <1>7, <1>8, DemoFaithful
     DEF RecordingKinds, Jobs, Explorations, Films

(***************************************************************************)
(* A recording is whole.  The part of the invariant below says where the   *)
(* operation is in its script, and that its directory holds what it filmed. *)
(***************************************************************************)
Sound(kind, steps, run, ended) ==
  \A i \in 1..Len(steps) :
    /\ steps[i].run = run /\ ~steps[i].unsafe
    /\ i > 1 => StageOf(steps[i - 1]) <= StageOf(steps[i])
    /\ steps[i].attached <=>
         /\ StageOf(steps[i]) >= 2
         /\ ~(ended /\ kind \in {"demo", "action"} /\ i = Len(steps))
    /\ kind = "contact" /\ StageOf(steps[i]) >= 3 => steps[i].collides

Whole(d) ==
  d.manifest # NoManifest =>
    /\ Len(d.steps) = d.manifest.frames /\ d.steps = d.frames
    /\ Sound(d.manifest.kind, d.steps, d.made, TRUE)
    /\ StageOf(d.steps[Len(d.steps)]) = LastStage(d.manifest.kind)

\* A directory that was not made is empty.
Fresh == \A r \in Recordings : disk[r].made = 0 =>
           disk[r].frames = <<>> /\ disk[r].manifest = NoManifest

\* The directory of the operation holds the frames it has filmed.
Holding == /\ disk[op.rec].made = op.run /\ disk[op.rec].frames = op.steps
           /\ disk[op.rec].manifest = NoManifest

Ended == op.seg > Len(Script[op.kind])

\* At a segment the plug is as the segments before it left it.
AtSegment ==
  /\ scene.attached <=> HoldsBefore(op.kind, op.seg)
  /\ CollidesBefore(op.kind, op.seg) => scene.collides
  /\ op.waits > 0 => Current.frames # "one"
  /\ op.steps # <<>> => StageOf(op.steps[Len(op.steps)]) <= StageOf(Current)

AtEnd == op.steps # <<>> /\ StageOf(op.steps[Len(op.steps)]) = LastStage(op.kind)

Progress ==
  op.kind \in RecordingKinds =>
    /\ op.pc \in Opening \cup {"settling"} => op.steps = <<>> /\ op.waits = 0
    /\ op.pc = "settling" => (scene.attached <=> op.kind = "insertion_film")
    /\ op.pc \in {"warming", "settling"} /\ op.kind # "insertion_film" => Holding
    /\ op.pc \in {"filming", "steps", "manifest"} =>
         /\ Holding /\ Sound(op.kind, op.steps, op.run, Ended)
         /\ IF Ended THEN AtEnd ELSE AtSegment
    /\ op.pc \in {"steps", "manifest"} => Ended
    /\ op.pc = "manifest" => disk[op.rec].steps = op.steps

IInvFilm == Fresh /\ Progress /\ \A r \in Recordings : Whole(disk[r])

LEMMA WholeIs == (\A r \in Recordings : Whole(disk[r])) <=> RecordingIsWhole
  BY DEF Whole, Sound, StageOf, RecordingIsWhole

-----------------------------------------------------------------------------
\* A step that writes no recording and leaves none under way, or the one that is.
LEMMA Aside ==
  ASSUME IInvFilm, UNCHANGED disk, op'.kind \notin RecordingKinds \/ UNCHANGED <<op, scene>>
  PROVE IInvFilm'
  BY DEF IInvFilm, Fresh, Progress, Holding, AtSegment, AtEnd, Ended, Current

\* A write into the directory of the operation.
LEMMA WritesDirectory ==
  ASSUME Typed, IInvFilm, op.rec \in Recordings, NEW d \in DiskRecord,
         disk' = [disk EXCEPT ![op.rec] = d], d.made # 0 \/ d = disk[op.rec], Whole(d)
  PROVE /\ disk'[op.rec] = d /\ Fresh' /\ \A r \in Recordings : Whole(disk[r])'
<1>1. \A r \in Recordings : disk'[r] = IF r = op.rec THEN d ELSE disk[r]
  BY DEF Typed
<1>2. Fresh'
  BY <1>1 DEF IInvFilm, Fresh
<1>3. \A r \in Recordings : Whole(disk'[r])
  BY <1>1 DEF IInvFilm
<1> QED
  BY <1>1, <1>2, <1>3

LEMMA NoOpKind == NoOp.kind \notin RecordingKinds
  BY DEF NoOp, RecordingKinds, Jobs, Explorations, Films

\* What the operation is outside its steps.
LEMMA UnknownStartFilm ==
  ASSUME IInv, IInv', IInvFilm, UnknownStartStep
  PROVE IInvFilm'
<1>1. UNCHANGED disk
  BY DEF UnknownStartStep, StartCapture, StartPreflight, FinalizeReset, Plan,
    evaluate_shadow_candidate, StartRecovery, Validate, Render, RenderFails, WriteHandoff,
    bind_live_runtime, persist_experimental_candidate_response, Apply, MoveEnds, RecoveryPauses,
    Refresh, RollBack, RecoveryEnds, Preflight, files, sceneVars
<1>2. \/ UNCHANGED <<op, scene>>
      \/ op' = NoOp
      \/ op'.pc \in Capturing \cup Executing \cup Recovering
  <2>1. ASSUME NEW kind, NEW s, NEW r, Begin(kind, s, r, "pausing")
        PROVE op'.pc = "pausing"
    BY <2>1 DEF Begin, NoOp
  <2>2. ASSUME NEW pc, StaysAt(pc) PROVE op'.pc = pc
    BY <2>2 DEF StaysAt, IInv, IInvScene, Typed, OpRecord
  <2>3. ASSUME NEW ok, Ends(ok) PROVE op' = NoOp
    BY <2>3 DEF Ends
  <2> QED
    BY <2>1, <2>2, <2>3 DEF UnknownStartStep, StartCapture, StartPreflight, FinalizeReset, Plan,
      evaluate_shadow_candidate, StartRecovery, Validate, Render, RenderFails, WriteHandoff,
      bind_live_runtime, persist_experimental_candidate_response, Apply, MoveEnds,
      RecoveryPauses, Refresh, RollBack, RecoveryEnds, Preflight, sceneVars
<1>3. op'.kind \notin RecordingKinds \/ UNCHANGED <<op, scene>>
  BY <1>2, NoOpKind DEF IInv, IInvScene, Positions, RecordingKinds, Jobs, Explorations, Films
<1> QED
  BY <1>1, <1>3, Aside

\* An operation that ends leaves its directory as it is.
LEMMA EndsFilm ==
  ASSUME IInvFilm, UNCHANGED disk, op' = NoOp
  PROVE IInvFilm'
  BY Aside, NoOpKind

\* What a field of a directory keeps of the others.
LEMMA DiskFields ==
  ASSUME NEW d \in DiskRecord
  PROVE /\ \A n : LET w == [d EXCEPT !.made = n]
                  IN w.made = n /\ w.frames = d.frames /\ w.steps = d.steps /\ w.manifest = d.manifest
        /\ \A f : LET w == [d EXCEPT !.frames = f]
                  IN w.made = d.made /\ w.frames = f /\ w.steps = d.steps /\ w.manifest = d.manifest
        /\ \A f : LET w == [d EXCEPT !.steps = f]
                  IN w.made = d.made /\ w.frames = d.frames /\ w.steps = f /\ w.manifest = d.manifest
        /\ \A m : LET w == [d EXCEPT !.manifest = m]
                  IN w.made = d.made /\ w.frames = d.frames /\ w.steps = d.steps /\ w.manifest = m
        /\ \A w \in {[d EXCEPT !.negative = TRUE], [d EXCEPT !.evidence = TRUE],
                     [d EXCEPT !.capture = TRUE]} :
             w.made = d.made /\ w.frames = d.frames /\ w.steps = d.steps /\ w.manifest = d.manifest
  BY DEF DiskRecord

LEMMA StartRecordingFilm ==
  ASSUME IInv, IInvFilm, NEW kind \in Kinds, NEW r \in Recordings, StartRecording(kind, r)
  PROVE IInvFilm'
<1>1. /\ op'.pc = "opening" /\ op'.steps = <<>> /\ op'.waits = 0 /\ UNCHANGED disk
  BY DEF StartRecording, NoOp
<1>2. Progress'
  BY <1>1 DEF Progress
<1> QED
  BY <1>1, <1>2 DEF IInvFilm, Fresh

LEMMA OpenFilm ==
  ASSUME IInv, IInvFilm, reset_stage \/ reset_stage_fails \/ PrepareRefused \/ SettleFails
                         \/ CaptureFails \/ CancelJob \/ Crash
  PROVE IInvFilm'
<1>1. CASE reset_stage
  <2>1. op \in OpRecord /\ op.kind \in RecordingKinds /\ op' = [op EXCEPT !.pc = "preparing"]
        /\ op.pc = "opening" /\ UNCHANGED disk
    BY <1>1 DEF reset_stage, IInv, IInvScene, Typed
  <2>2. /\ op'.pc = "preparing" /\ op'.steps = op.steps /\ op'.waits = op.waits
    BY <2>1 DEF OpRecord
  <2>3. Progress'
    BY <2>1, <2>2 DEF IInvFilm, Progress
  <2> QED
    BY <2>1, <2>3 DEF IInvFilm, Fresh
<1>2. CASE reset_stage_fails \/ PrepareRefused \/ SettleFails \/ CaptureFails \/ CancelJob \/ Crash
  BY <1>2, EndsFilm
     DEF reset_stage_fails, PrepareRefused, SettleFails, CaptureFails, CancelJob, Crash, Raise
<1> QED
  BY <1>1, <1>2

\* The directory a recorder makes is the operation's.
LEMMA RecorderFilm ==
  ASSUME IInv, IInvFilm, op.rec \in Recordings, op.run \in 1..MaxRuns, MakesRecorder, DemoRecorder
  PROVE /\ disk'[op.rec].made = op.run /\ disk'[op.rec].frames = <<>>
        /\ disk'[op.rec].manifest = NoManifest
        /\ Fresh' /\ \A r \in Recordings : Whole(disk[r])'
<1> DEFINE d == [disk[op.rec] EXCEPT !.made = op.run]
<1>1. disk[op.rec] \in DiskRecord /\ op.run \in Nat /\ disk' = [disk EXCEPT ![op.rec] = d]
  BY DEF IInv, IInvScene, Typed, DemoRecorder
<1>2. d \in DiskRecord
  BY <1>1, DiskUpdates
<1>3. d.made = op.run /\ d.frames = <<>> /\ d.manifest = NoManifest
  BY <1>1, DiskFields DEF MakesRecorder, IInvFilm, Fresh
<1> HIDE DEF d
<1>4. Whole(d)
  BY <1>3 DEF Whole
<1>5. Typed /\ d.made # 0
  BY <1>3 DEF IInv, IInvScene
<1>6. disk'[op.rec] = d /\ Fresh' /\ \A r \in Recordings : Whole(disk[r])'
  BY <1>1, <1>2, <1>4, <1>5, WritesDirectory
<1> QED
  BY <1>3, <1>6

LEMMA PrepareFilm ==
  ASSUME IInv, IInvFilm, Prepare
  PROVE IInvFilm'
<1>1. op \in OpRecord /\ op.pc = "preparing" /\ op' = [op EXCEPT !.pc = "warming"]
  BY DEF Prepare, IInv, IInvScene, Typed
<1>2. op.kind \in RecordingKinds /\ op.rec \in Recordings /\ op.run \in 1..MaxRuns
  BY <1>1, Recording DEF IInv, IInvScene
<1>3. /\ op'.pc = "warming" /\ op'.steps = op.steps /\ op'.waits = op.waits
      /\ op'.kind = op.kind /\ op'.rec = op.rec /\ op'.run = op.run
  BY <1>1 DEF OpRecord
<1>4. op.steps = <<>> /\ op.waits = 0
  BY <1>1, <1>2 DEF IInvFilm, Progress
<1>5. CASE op.kind = "insertion_film"
  <2>1. UNCHANGED disk
    BY <1>5 DEF Prepare
  <2> QED
    BY <1>3, <1>4, <1>5, <2>1 DEF IInvFilm, Progress, Fresh
<1>6. CASE op.kind # "insertion_film"
  <2>1. MakesRecorder /\ DemoRecorder
    BY <1>6 DEF Prepare
  <2>2. /\ disk'[op.rec].made = op.run /\ disk'[op.rec].frames = <<>>
        /\ disk'[op.rec].manifest = NoManifest
        /\ Fresh' /\ \A r \in Recordings : Whole(disk[r])'
    BY <1>2, <2>1, RecorderFilm
  <2>3. Progress'
    BY <1>3, <1>4, <2>2 DEF Progress, Holding
  <2> QED
    BY <2>2, <2>3 DEF IInvFilm
<1> QED
  BY <1>5, <1>6

LEMMA PlayFilm ==
  ASSUME IInv, IInvFilm, Play
  PROVE IInvFilm'
<1>1. op \in OpRecord /\ op.pc = "warming" /\ op.kind \in RecordingKinds /\ UNCHANGED disk
      /\ scene \in SceneRecord
  BY DEF Play, IInv, IInvScene, Typed
<1>2. /\ op'.pc = "settling" /\ op'.steps = op.steps /\ op'.waits = op.waits
      /\ op'.kind = op.kind /\ op'.rec = op.rec /\ op'.run = op.run
  BY <1>1 DEF Play, OpRecord
<1>3. scene'.attached <=> op.kind = "insertion_film"
  BY <1>1 DEF Play, SceneRecord
<1>4. Progress'
  BY <1>1, <1>2, <1>3 DEF IInvFilm, Progress, Holding
<1> QED
  BY <1>1, <1>4 DEF IInvFilm, Fresh

LEMMA SettleFilm ==
  ASSUME IInv, IInvFilm, SettleReset
  PROVE IInvFilm'
<1>1. op \in OpRecord /\ op.pc = "settling" /\ op' = [op EXCEPT !.pc = "filming", !.seg = 1]
      /\ scene \in SceneRecord
  BY DEF SettleReset, IInv, IInvScene, Typed
<1>2. op.kind \in RecordingKinds /\ op.rec \in Recordings /\ op.run \in 1..MaxRuns
  BY <1>1, Recording DEF IInv, IInvScene
<1>3. /\ op'.pc = "filming" /\ op'.steps = op.steps /\ op'.waits = op.waits /\ op'.seg = 1
      /\ op'.kind = op.kind /\ op'.rec = op.rec /\ op'.run = op.run
  BY <1>1 DEF OpRecord
<1>4. op.steps = <<>> /\ op.waits = 0 /\ (scene.attached <=> op.kind = "insertion_film")
  BY <1>1, <1>2 DEF IInvFilm, Progress
<1>5. scene'.attached = scene.attached
  BY <1>1 DEF SettleReset, SceneRecord
<1>6. /\ disk'[op.rec].made = op.run /\ disk'[op.rec].frames = <<>>
      /\ disk'[op.rec].manifest = NoManifest
      /\ Fresh' /\ \A r \in Recordings : Whole(disk[r])'
  <2>1. CASE op.kind = "insertion_film"
    BY <1>2, <2>1, RecorderFilm DEF SettleReset
  <2>2. CASE op.kind # "insertion_film"
    <3>1. UNCHANGED disk
      BY <2>2 DEF SettleReset
    <3> QED
      BY <1>1, <1>2, <1>4, <2>2, <3>1 DEF IInvFilm, Progress, Holding, Fresh
  <2> QED
    BY <2>1, <2>2
<1>7. Len(Script[op.kind]) >= 1
  BY <1>2, ScriptFaithful DEF Faithful
<1>8. ~Ended' /\ Holding'
  BY <1>3, <1>4, <1>6, <1>7 DEF Ended, Holding
<1>9. AtSegment'
  BY <1>3, <1>4, <1>5 DEF AtSegment, HoldsBefore, CollidesBefore
<1>10. Sound(op.kind, op.steps, op.run, Ended)'
  BY <1>3, <1>4 DEF Sound
<1>11. Progress'
  BY <1>3, <1>8, <1>9, <1>10 DEF Progress
<1> QED
  BY <1>6, <1>11 DEF IInvFilm

\* What a segment does to the plug: the frame it films holds it as the script says.
LEMMA BeforeHolds ==
  ASSUME IInv, IInvFilm, Filming
  PROVE /\ BeforeSegment.attached <=> Holds(op.kind, op.seg)
        /\ op.kind = "contact" /\ StageOf(Current) >= 3 => BeforeSegment.collides
        /\ CollidesBefore(op.kind, op.seg + 1) => BeforeSegment.collides
<1> DEFINE S == Script[op.kind]
<1>1. op.pc = "filming" /\ op.kind \in RecordingKinds /\ scene \in SceneRecord /\ op.seg \in Nat
  BY Recording, TypedFields DEF Filming, IInv, IInvScene, Typed
<1>2. ~Ended /\ op.seg \in 1..Len(S)
  <2>1. op.seg >= 1
    BY <1>1, Recording DEF IInv, IInvScene
  <2>2. op.seg <= Len(S) /\ Len(S) \in Nat
    BY <1>1, ScriptType DEF Filming
  <2> QED
    BY <1>1, <2>1, <2>2 DEF Ended
<1>3. AtSegment
  BY <1>1, <1>2 DEF IInvFilm, Progress
<1>4. /\ Current.before # "keep" => Current.frames = "one"
      /\ Current.before = "attach" => Holds(op.kind, op.seg)
      /\ Current.before = "detach" => ~Holds(op.kind, op.seg)
      /\ Current.before \in {"keep", "collide"} =>
           (Holds(op.kind, op.seg) <=> HoldsBefore(op.kind, op.seg))
      /\ op.kind = "contact" /\ StageOf(Current) >= 3 =>
           \/ Current.before = "collide"
           \/ Current.before # "attach" /\ CollidesBefore(op.kind, op.seg)
  BY <1>1, <1>2, ScriptFaithful DEF Faithful, Current
<1>5. Current.before \in {"keep", "attach", "detach", "collide"}
  BY <1>1, CurrentType DEF SegmentRecord, IInv, IInvScene
<1>6. Current.before # "keep" => ~(op.waits > 0)
  BY <1>3, <1>4 DEF AtSegment
<1>7. CASE Current.before # "keep"
  <2>1. CASE Current.before = "attach"
    <3>1. BeforeSegment = [scene EXCEPT !.attached = TRUE,
                                        !.collides = @ /\ op.kind \in FixedJoint]
      BY <1>6, <2>1 DEF BeforeSegment
    <3>2. BeforeSegment.attached = TRUE
      BY <1>1, <3>1 DEF SceneRecord
    <3> QED
      BY <1>1, <1>4, <2>1, <3>2 DEF CollidesBefore, Current
  <2>2. CASE Current.before = "detach"
    <3>1. BeforeSegment = [scene EXCEPT !.attached = FALSE]
      BY <1>6, <2>2 DEF BeforeSegment
    <3>2. BeforeSegment.attached = FALSE /\ BeforeSegment.collides = scene.collides
      BY <1>1, <3>1 DEF SceneRecord
    <3> QED
      BY <1>1, <1>3, <1>4, <2>2, <3>2 DEF CollidesBefore, Current, AtSegment
  <2>3. CASE Current.before = "collide"
    <3>1. BeforeSegment = [scene EXCEPT !.collides = TRUE]
      BY <1>6, <2>3 DEF BeforeSegment
    <3>2. BeforeSegment.attached = scene.attached /\ BeforeSegment.collides = TRUE
      BY <1>1, <3>1 DEF SceneRecord
    <3> QED
      BY <1>3, <1>4, <2>3, <3>2 DEF AtSegment
  <2> QED
    BY <1>5, <1>7, <2>1, <2>2, <2>3
<1>8. CASE Current.before = "keep"
  <2>1. BeforeSegment = scene
    BY <1>8 DEF BeforeSegment
  <2> QED
    BY <1>1, <1>3, <1>4, <1>8, <2>1 DEF CollidesBefore, Current, AtSegment
<1> QED
  BY <1>7, <1>8

\* One frame more of a recording that is sound.
LEMMA SoundAppend ==
  ASSUME NEW kind, NEW run, NEW steps \in Seq(Frame), NEW frame \in Frame, NEW ended \in BOOLEAN,
         Sound(kind, steps, run, FALSE), frame.run = run, ~frame.unsafe,
         steps # <<>> => StageOf(steps[Len(steps)]) <= StageOf(frame),
         frame.attached <=> StageOf(frame) >= 2 /\ ~(ended /\ kind \in {"demo", "action"}),
         kind = "contact" /\ StageOf(frame) >= 3 => frame.collides
  PROVE Sound(kind, Append(steps, frame), run, ended)
<1> DEFINE n == Len(steps)
           new == Append(steps, frame)
<1>1. n \in Nat /\ Len(new) = n + 1 /\ new[n + 1] = frame /\ (\A i \in 1..n : new[i] = steps[i])
  OBVIOUS
<1>2. n >= 1 => steps # <<>>
  OBVIOUS
<1> HIDE DEF new
<1>3. ASSUME NEW i \in 1..n
      PROVE /\ new[i].run = run /\ ~new[i].unsafe
            /\ i > 1 => StageOf(new[i - 1]) <= StageOf(new[i])
            /\ new[i].attached <=>
                 /\ StageOf(new[i]) >= 2
                 /\ ~(ended /\ kind \in {"demo", "action"} /\ i = Len(new))
            /\ kind = "contact" /\ StageOf(new[i]) >= 3 => new[i].collides
  <2>1. new[i] = steps[i] /\ (i > 1 => new[i - 1] = steps[i - 1]) /\ i # Len(new)
    BY <1>1
  <2> QED
    BY <2>1 DEF Sound
<1>4. ASSUME NEW i, i = n + 1
      PROVE /\ new[i].run = run /\ ~new[i].unsafe
            /\ i > 1 => StageOf(new[i - 1]) <= StageOf(new[i])
            /\ new[i].attached <=>
                 /\ StageOf(new[i]) >= 2
                 /\ ~(ended /\ kind \in {"demo", "action"} /\ i = Len(new))
            /\ kind = "contact" /\ StageOf(new[i]) >= 3 => new[i].collides
  <2>1. new[i] = frame /\ i = Len(new) /\ (i > 1 => new[i - 1] = steps[n] /\ steps # <<>>)
    BY <1>1, <1>2, <1>4
  <2> QED
    BY <2>1
<1>5. \A i \in 1..Len(new) : i \in 1..n \/ i = n + 1
  BY <1>1
<1>6. Sound(kind, new, run, ended)
  BY <1>3, <1>4, <1>5 DEF Sound
<1> QED
  BY <1>6 DEF new

LEMMA CaptureFrameFilm ==
  ASSUME IInv, IInvFilm, CaptureFrame
  PROVE IInvFilm'
<1>1. PICK unsafe \in BOOLEAN :
        LET frame == recording_snapshot(unsafe)
            steps == Append(op.steps, frame)
        IN /\ unsafe => op.kind \in Films
           /\ add_step(frame)
           /\ scene' = BeforeSegment
           /\ IF unsafe /\ op.kind \in Films
              THEN op' = NoOp
              ELSE op' = [op EXCEPT !.steps = steps,
                                    !.seg = IF SegmentEnds(steps) THEN @ + 1 ELSE @,
                                    !.waits = IF SegmentEnds(steps) THEN 0 ELSE @ + 1]
  <2>1. \A unsafe \in IF op.kind \in Sensed \ Observed THEN BOOLEAN ELSE {FALSE} :
          unsafe \in BOOLEAN /\ (unsafe => op.kind \in Films)
    BY DEF Sensed, Observed
  <2> QED
    BY <2>1, Zenon DEF CaptureFrame
<1> DEFINE frame == recording_snapshot(unsafe)
           steps == Append(op.steps, frame)
           S == Script[op.kind]
<1>2. /\ Filming /\ op.pc = "filming" /\ op \in OpRecord /\ Typed /\ Positions
      /\ op.kind \in RecordingKinds /\ op.rec \in Recordings /\ op.run \in 1..MaxRuns
      /\ op.seg \in Nat /\ op.waits \in Nat /\ op.steps \in Seq(Frame)
  BY Recording, TypedFields DEF CaptureFrame, Filming, IInv, IInvScene, Typed
<1>3. /\ ~Ended /\ op.seg \in 1..Len(S) /\ Len(S) \in Nat
      /\ S[Len(S)].frames = "one" /\ StageOf(S[Len(S)]) = LastStage(op.kind)
      /\ op.seg < Len(S) => StageOf(Current) <= StageOf(S[op.seg + 1])
  <2>1. op.seg >= 1
    BY <1>2, Recording
  <2>2. op.seg <= Len(S) /\ S \in Seq(SegmentRecord)
    BY <1>2, ScriptType DEF Filming
  <2> QED
    BY <1>2, <2>1, <2>2, ScriptFaithful DEF Ended, Faithful, Current
<1>4. Holding /\ Sound(op.kind, op.steps, op.run, FALSE) /\ AtSegment
  <2>1. Holding /\ Sound(op.kind, op.steps, op.run, Ended) /\ AtSegment
    BY <1>2, <1>3 DEF IInvFilm, Progress
  <2> QED
    BY <1>3, <2>1 DEF Sound
<1>5. /\ frame \in Frame /\ frame.run = op.run /\ frame.unsafe = unsafe
      /\ frame.attached = BeforeSegment.attached /\ frame.collides = BeforeSegment.collides
      /\ frame.stage = Current.stage
  BY <1>2, CurrentType DEF recording_snapshot
<1>6. StageOf(frame) = StageOf(Current)
  BY <1>5 DEF StageOf
<1> HIDE DEF frame
<1>7. /\ steps \in Seq(Frame) /\ Len(steps) = Len(op.steps) + 1 /\ steps # <<>>
      /\ steps[Len(steps)] = frame
  BY <1>2, <1>5
<1>8. /\ disk'[op.rec].made = op.run /\ disk'[op.rec].manifest = NoManifest
      /\ disk'[op.rec].frames = steps
      /\ Fresh' /\ \A r \in Recordings : Whole(disk[r])'
  <2> DEFINE d == [disk[op.rec] EXCEPT !.frames = steps]
  <2>1. disk' = [disk EXCEPT ![op.rec] = d]
    <3>1. disk[op.rec].frames = op.steps /\ ~(Len(op.steps) + 1 <= Len(op.steps))
      BY <1>2, <1>4 DEF Holding
    <3>2. add_step(frame)
      BY <1>1 DEF frame
    <3> QED
      BY <3>1, <3>2 DEF add_step
  <2>2. disk[op.rec] \in DiskRecord
    BY <1>2 DEF Typed
  <2>3. d \in DiskRecord /\ d.made = op.run /\ d.frames = steps /\ d.manifest = NoManifest
    BY <1>4, <1>7, <2>2, DiskUpdates, DiskFields DEF Holding
  <2> HIDE DEF d
  <2>4. Whole(d) /\ d.made # 0
    BY <1>2, <2>3 DEF Whole
  <2> QED
    BY <1>2, <2>1, <2>3, <2>4, WritesDirectory
<1>9. CASE op' = NoOp
  BY <1>8, <1>9, NoOpKind DEF IInvFilm, Progress
<1>10. CASE op' # NoOp
  <2> DEFINE ends == SegmentEnds(steps)
  <2>1. /\ op' = [op EXCEPT !.steps = steps,
                            !.seg = IF ends THEN op.seg + 1 ELSE op.seg,
                            !.waits = IF ends THEN 0 ELSE op.waits + 1]
        /\ ~unsafe /\ scene' = BeforeSegment
    BY <1>1, <1>10 DEF frame
  <2>2. Current.frames = "one" => ends
    BY DEF SegmentEnds
  <2> HIDE DEF ends, steps
  <2>3. /\ op'.pc = "filming" /\ op'.kind = op.kind /\ op'.rec = op.rec /\ op'.run = op.run
        /\ op'.steps = steps /\ op'.seg = (IF ends THEN op.seg + 1 ELSE op.seg)
        /\ op'.waits = (IF ends THEN 0 ELSE op.waits + 1)
    BY <1>2, <2>1 DEF OpRecord
  <2>4. /\ BeforeSegment.attached <=> Holds(op.kind, op.seg)
        /\ op.kind = "contact" /\ StageOf(Current) >= 3 => BeforeSegment.collides
        /\ CollidesBefore(op.kind, op.seg + 1) => BeforeSegment.collides
    BY <1>2, BeforeHolds
  <2>5. Ended' <=> op.seg = Len(S)
    <3>1. op.seg = Len(S) => ends
      BY <1>3, <2>2 DEF Current
    <3> QED
      BY <1>2, <1>3, <2>3, <3>1 DEF Ended
  <2>6. Sound(op.kind, steps, op.run, Ended')
    <3>1. op.steps # <<>> => StageOf(op.steps[Len(op.steps)]) <= StageOf(frame)
      BY <1>4, <1>6 DEF AtSegment
    <3>2. frame.attached <=>
            StageOf(frame) >= 2 /\ ~(op.seg = Len(S) /\ op.kind \in {"demo", "action"})
      BY <1>5, <1>6, <2>4 DEF Holds, Releases, Current
    <3>3. op.kind = "contact" /\ StageOf(frame) >= 3 => frame.collides
      BY <1>5, <1>6, <2>4
    <3>4. Sound(op.kind, steps, op.run, op.seg = Len(S))
      BY <1>2, <1>4, <1>5, <2>1, <3>1, <3>2, <3>3, SoundAppend DEF steps
    <3> QED
      BY <2>5, <3>4
  <2>7. CASE op.seg = Len(S)
    <3>1. Ended' /\ AtEnd'
      BY <1>3, <1>6, <1>7, <2>3, <2>5, <2>7 DEF AtEnd, Current
    <3>2. Progress'
      BY <1>8, <2>3, <2>6, <3>1 DEF Progress, Holding
    <3> QED
      BY <1>8, <3>2 DEF IInvFilm
  <2>8. CASE op.seg # Len(S)
    <3>1. ~Ended'
      BY <2>5, <2>8
    <3>2. StageOf(frame) <= StageOf(Current')
      <4>1. CASE ends
        BY <1>3, <1>6, <2>3, <2>8, <4>1 DEF Current
      <4>2. CASE ~ends
        <5>1. StageOf(Current) \in 1..4
          BY <1>2, CurrentType, StageOfType DEF SegmentRecord
        <5> QED
          BY <1>6, <2>3, <4>2, <5>1 DEF Current
      <4> QED
        BY <4>1, <4>2
    <3>3. AtSegment'
      <4>1. op'.waits > 0 => Current'.frames # "one"
        BY <2>2, <2>3 DEF Current
      <4>2. /\ scene'.attached <=> HoldsBefore(op'.kind, op'.seg)
            /\ CollidesBefore(op'.kind, op'.seg) => scene'.collides
        <5>1. CASE ends
          BY <1>2, <1>3, <2>1, <2>3, <2>4, <5>1 DEF HoldsBefore
        <5>2. CASE ~ends
          <6>1. op'.seg = op.seg /\ op'.kind = op.kind /\ Current.before = "keep"
            BY <1>2, <1>3, <2>2, <2>3, <5>2, ScriptFaithful DEF Faithful, Current
          <6>2. BeforeSegment = scene
            BY <6>1 DEF BeforeSegment
          <6> QED
            BY <1>4, <2>1, <6>1, <6>2 DEF AtSegment
        <5> QED
          BY <5>1, <5>2
      <4> QED
        BY <1>7, <2>3, <3>2, <4>1, <4>2 DEF AtSegment
    <3>4. Progress'
      BY <1>8, <2>3, <2>6, <3>1, <3>3 DEF Progress, Holding
    <3> QED
      BY <1>8, <3>4 DEF IInvFilm
  <2> QED
    BY <2>7, <2>8
<1> QED
  BY <1>9, <1>10

LEMMA FillFilm ==
  ASSUME IInv, IInvFilm, FillIsComplete
  PROVE IInvFilm'
<1> DEFINE S == Script[op.kind]
<1>1. /\ Filming /\ op.pc = "filming" /\ op \in OpRecord /\ op.kind \in RecordingKinds
      /\ op.seg \in Nat /\ op.steps \in Seq(Frame) /\ UNCHANGED <<disk, scene>>
  BY Recording, TypedFields DEF FillIsComplete, Filming, IInv, IInvScene, Typed, simulator
<1>2. /\ ~Ended /\ op.seg \in 1..Len(S) /\ Len(S) \in Nat /\ S[Len(S)].frames = "one"
      /\ op.seg < Len(S) => StageOf(Current) <= StageOf(S[op.seg + 1])
  <2>1. op.seg >= 1
    BY <1>1, Recording DEF IInv, IInvScene
  <2>2. op.seg <= Len(S) /\ S \in Seq(SegmentRecord)
    BY <1>1, ScriptType DEF Filming
  <2> QED
    BY <1>1, <2>1, <2>2, ScriptFaithful DEF Ended, Faithful, Current
<1>3. Holding /\ Sound(op.kind, op.steps, op.run, Ended) /\ AtSegment
  BY <1>1, <1>2 DEF IInvFilm, Progress
<1>4. Current.frames = "window"
  BY DEF FillIsComplete
<1>5. op.seg < Len(S)
  BY <1>2, <1>4 DEF Current
<1>6. /\ op'.pc = "filming" /\ op'.kind = op.kind /\ op'.rec = op.rec /\ op'.run = op.run
      /\ op'.steps = op.steps /\ op'.seg = op.seg + 1 /\ op'.waits = 0
  BY <1>1 DEF FillIsComplete, OpRecord
<1>7. ~Ended'
  BY <1>2, <1>5, <1>6 DEF Ended
<1>8. Current.before = "keep"
  BY <1>1, <1>2, <1>4, ScriptFaithful DEF Faithful, Current
<1>9. BeforeSegment = scene
  BY <1>8 DEF BeforeSegment
<1>10. /\ scene.attached <=> Holds(op.kind, op.seg)
       /\ CollidesBefore(op.kind, op.seg + 1) => scene.collides
  BY <1>1, <1>9, BeforeHolds
<1>11. op.steps # <<>> => StageOf(op.steps[Len(op.steps)]) <= StageOf(Current')
  <2>1. Current \in SegmentRecord /\ StageOf(Current) \in 1..4
    BY <1>1, CurrentType, StageOfType DEF SegmentRecord, IInv, IInvScene
  <2>2. Current' = S[op.seg + 1] /\ StageOf(S[op.seg + 1]) \in 1..4
    <3>1. S[op.seg + 1] \in SegmentRecord
      BY <1>1, <1>2, <1>5, ScriptType
    <3> QED
      BY <1>6, <3>1, StageOfType DEF Current, SegmentRecord
  <2>3. op.steps # <<>> => StageOf(op.steps[Len(op.steps)]) \in 1..4
    <3>1. op.steps # <<>> => op.steps[Len(op.steps)] \in Frame
      BY <1>1
    <3> QED
      BY <3>1, StageOfType DEF Frame, StageNames
  <2>4. op.steps # <<>> => StageOf(op.steps[Len(op.steps)]) <= StageOf(Current)
    BY <1>3 DEF AtSegment
  <2>5. StageOf(Current) <= StageOf(S[op.seg + 1])
    BY <1>2, <1>5
  <2> QED
    BY <2>1, <2>2, <2>3, <2>4, <2>5
<1>12. AtSegment'
  BY <1>1, <1>2, <1>6, <1>10, <1>11 DEF AtSegment, HoldsBefore
<1>13. Holding' /\ Sound(op.kind, op.steps, op.run, Ended)'
  BY <1>1, <1>2, <1>3, <1>6, <1>7 DEF Holding, Sound
<1>14. Progress'
  BY <1>6, <1>7, <1>12, <1>13 DEF Progress
<1> QED
  BY <1>1, <1>14 DEF IInvFilm, Fresh

LEMMA CompleteFilm ==
  ASSUME IInv, IInvFilm, Complete \/ CompleteFails
  PROVE IInvFilm'
<1>1. op \in OpRecord /\ op.pc = "filming" /\ op.kind \in RecordingKinds /\ op.rec \in Recordings
      /\ disk[op.rec] \in DiskRecord
  BY Recording DEF Complete, CompleteFails, Filmed, IInv, IInvScene, Typed
<1>2. Holding
  BY <1>1 DEF IInvFilm, Progress
<1>3. CASE Complete
  <2>1. Ended /\ UNCHANGED disk
    <3>1. op.seg \in Nat /\ Len(Script[op.kind]) \in Nat
      BY <1>1, ScriptType, TypedFields DEF IInv, IInvScene
    <3> QED
      BY <1>3, <3>1 DEF Complete, Filmed, Ended
  <2>2. /\ op'.pc = "steps" /\ op'.kind = op.kind /\ op'.rec = op.rec /\ op'.run = op.run
        /\ op'.steps = op.steps /\ op'.seg = op.seg
    BY <1>1, <1>3 DEF Complete, OpRecord
  <2>3. Sound(op.kind, op.steps, op.run, Ended) /\ AtEnd
    BY <1>1, <2>1 DEF IInvFilm, Progress
  <2>4. Ended' /\ AtEnd' /\ Holding' /\ Sound(op.kind, op.steps, op.run, Ended)'
    BY <1>2, <2>1, <2>2, <2>3 DEF Ended, AtEnd, Holding
  <2>5. Progress'
    BY <2>2, <2>4 DEF Progress
  <2> QED
    BY <2>1, <2>5 DEF IInvFilm, Fresh
<1>4. CASE CompleteFails
  <2>1. op' = NoOp
    BY <1>4 DEF CompleteFails, Raise
  <2>2. CASE UNCHANGED disk
    BY <2>1, <2>2, EndsFilm
  <2>3. CASE disk' = [disk EXCEPT ![op.rec].negative = TRUE]
    <3> DEFINE d == [disk[op.rec] EXCEPT !.negative = TRUE]
    <3>1. d \in DiskRecord
      BY <1>1, DiskUpdates
    <3>2. d.made = op.run /\ d.manifest = NoManifest
      BY <1>1, <1>2, DiskFields DEF Holding
    <3>3. disk' = [disk EXCEPT ![op.rec] = d]
      BY <2>3
    <3> HIDE DEF d
    <3>4. Whole(d) /\ d.made # 0 /\ Typed
      BY <1>1, <3>2, Recording DEF Whole, IInv, IInvScene
    <3>5. Fresh' /\ \A r \in Recordings : Whole(disk[r])'
      BY <1>1, <3>1, <3>3, <3>4, WritesDirectory
    <3> QED
      BY <2>1, <3>5, NoOpKind DEF IInvFilm, Progress
  <2> QED
    BY <1>4, <2>2, <2>3 DEF CompleteFails
<1> QED
  BY <1>3, <1>4

LEMMA WriteFilm ==
  ASSUME IInv, IInvFilm, WriteSteps \/ WriteManifest
  PROVE IInvFilm'
<1>1. /\ op \in OpRecord /\ op.pc \in {"steps", "manifest"} /\ op.kind \in RecordingKinds
      /\ op.rec \in Recordings /\ op.run \in 1..MaxRuns /\ disk[op.rec] \in DiskRecord /\ Typed
      /\ op.steps \in Seq(Frame)
  BY Recording, TypedFields DEF WriteSteps, WriteManifest, IInv, IInvScene, Typed
<1>2. Holding /\ Sound(op.kind, op.steps, op.run, Ended) /\ Ended /\ AtEnd
  BY <1>1 DEF IInvFilm, Progress
<1>3. CASE WriteSteps
  <2> DEFINE d == [disk[op.rec] EXCEPT !.steps = op.steps]
  <2>1. d \in DiskRecord
    BY <1>1, DiskUpdates
  <2>2. /\ d.made = op.run /\ d.manifest = NoManifest /\ d.frames = op.steps
        /\ d.steps = op.steps
    BY <1>1, <1>2, DiskFields DEF Holding
  <2>3. disk' = [disk EXCEPT ![op.rec] = d]
    BY <1>3 DEF WriteSteps
  <2> HIDE DEF d
  <2>4. Whole(d) /\ d.made # 0
    BY <1>1, <2>2 DEF Whole
  <2>5. disk'[op.rec] = d /\ Fresh' /\ \A r \in Recordings : Whole(disk[r])'
    BY <1>1, <2>1, <2>3, <2>4, WritesDirectory
  <2>6. /\ op'.pc = "manifest" /\ op'.kind = op.kind /\ op'.rec = op.rec /\ op'.run = op.run
        /\ op'.steps = op.steps /\ op'.seg = op.seg
    BY <1>1, <1>3 DEF WriteSteps, OpRecord
  <2>7. Ended' /\ AtEnd' /\ Holding' /\ Sound(op.kind, op.steps, op.run, Ended)'
    BY <1>2, <2>2, <2>5, <2>6 DEF Ended, AtEnd, Holding
  <2>8. Progress'
    BY <2>2, <2>5, <2>6, <2>7 DEF Progress
  <2> QED
    BY <2>5, <2>8 DEF IInvFilm
<1>4. CASE WriteManifest
  <2> DEFINE m == [kind |-> op.kind, frames |-> Len(op.steps)]
             d == [disk[op.rec] EXCEPT !.manifest = m]
  <2>1. m \in [kind : Kind, frames : Nat]
    BY <1>1 DEF Kind
  <2>2. d \in DiskRecord
    BY <1>1, <2>1, DiskUpdates
  <2>3. op.pc = "manifest" /\ disk[op.rec].steps = op.steps
    BY <1>1, <1>4 DEF WriteManifest, IInvFilm, Progress
  <2>4. m.kind = op.kind /\ m.frames = Len(op.steps)
    OBVIOUS
  <2> HIDE DEF m
  <2>5. /\ d.made = op.run /\ d.manifest = m /\ d.frames = op.steps /\ d.steps = op.steps
    BY <1>1, <1>2, <2>3, DiskFields DEF Holding
  <2>6. disk' = [disk EXCEPT ![op.rec] = d]
    BY <1>4 DEF WriteManifest, m
  <2> HIDE DEF d
  <2>7. Whole(d) /\ d.made # 0
    <3>1. Sound(op.kind, op.steps, op.run, TRUE)
      BY <1>2 DEF Sound
    <3>2. StageOf(op.steps[Len(op.steps)]) = LastStage(op.kind)
      BY <1>2 DEF AtEnd
    <3>3. d.made # 0
      BY <1>1, <2>5
    <3>4. /\ Len(d.steps) = d.manifest.frames /\ d.steps = d.frames
          /\ Sound(d.manifest.kind, d.steps, d.made, TRUE)
          /\ StageOf(d.steps[Len(d.steps)]) = LastStage(d.manifest.kind)
      BY <2>4, <2>5, <3>1, <3>2
    <3> QED
      BY <3>3, <3>4 DEF Whole
  <2>8. Fresh' /\ \A r \in Recordings : Whole(disk[r])'
    BY <1>1, <2>2, <2>6, <2>7, WritesDirectory
  <2>9. op' = NoOp \/ op'.pc = "evidence"
    BY <1>1, <1>4 DEF WriteManifest, OpRecord
  <2>10. Progress'
    BY <2>9, NoOpKind DEF Progress
  <2> QED
    BY <2>8, <2>10 DEF IInvFilm
<1> QED
  BY <1>3, <1>4

\* The evidence and the capture beside a reset's manifest.
LEMMA EvidenceFilm ==
  ASSUME IInv, IInvFilm, WriteEvidence \/ WriteCapture
  PROVE IInvFilm'
<1>1. /\ op \in OpRecord /\ op.pc \in Writing /\ op.rec \in Recordings
      /\ disk[op.rec] \in DiskRecord /\ Typed
  BY Recording DEF WriteEvidence, WriteCapture, IInv, IInvScene, Typed
<1>2. PICK d \in {[disk[op.rec] EXCEPT !.evidence = TRUE], [disk[op.rec] EXCEPT !.capture = TRUE]} :
        disk' = [disk EXCEPT ![op.rec] = d]
  BY DEF WriteEvidence, WriteCapture
<1>3. d \in DiskRecord
  BY <1>1, <1>2, DiskUpdates
<1>4. /\ d.made = disk[op.rec].made /\ d.frames = disk[op.rec].frames
      /\ d.steps = disk[op.rec].steps /\ d.manifest = disk[op.rec].manifest
  <2>1. CASE d = [disk[op.rec] EXCEPT !.evidence = TRUE]
    BY <1>1, <2>1 DEF DiskRecord
  <2>2. CASE d = [disk[op.rec] EXCEPT !.capture = TRUE]
    BY <1>1, <2>2 DEF DiskRecord
  <2> QED
    BY <1>2, <2>1, <2>2
<1>5. \A r \in Recordings :
        /\ disk'[r].made = disk[r].made /\ disk'[r].frames = disk[r].frames
        /\ disk'[r].steps = disk[r].steps /\ disk'[r].manifest = disk[r].manifest
  BY <1>1, <1>2, <1>4 DEF Typed
<1>6. Fresh' /\ \A r \in Recordings : Whole(disk[r])'
  BY <1>5 DEF IInvFilm, Fresh, Whole
<1>7. op' = NoOp \/ op'.pc = "capture_file"
  BY <1>1 DEF WriteEvidence, WriteCapture, OpRecord
<1>8. Progress'
  BY <1>7, NoOpKind DEF Progress
<1> QED
  BY <1>6, <1>8 DEF IInvFilm

LEMMA StepFilm == IInv /\ IInv' /\ IInvFilm /\ [Next]_vars => IInvFilm'
<1> SUFFICES ASSUME IInv, IInv', IInvFilm, [Next]_vars PROVE IInvFilm'
  OBVIOUS
<1>1. CASE Record
  <2>1. CASE \E kind \in Kinds, r \in Recordings : HasSource(kind) /\ StartRecording(kind, r)
    BY <2>1, StartRecordingFilm
  <2>2. CASE RecordingStep \/ Crash
    BY <2>2, OpenFilm, PrepareFilm, PlayFilm, SettleFilm, CaptureFrameFilm, FillFilm,
       CompleteFilm, WriteFilm, EvidenceFilm DEF RecordingStep
  <2> QED
    BY <1>1, <2>1, <2>2 DEF Record
<1>2. CASE UnknownStartStep
  BY <1>2, UnknownStartFilm
<1>3. CASE UNCHANGED vars
  BY <1>3, Aside DEF vars, sceneVars
<1> QED
  BY <1>1, <1>2, <1>3 DEF Next

LEMMA InitFilm == UInit => IInvFilm
<1> SUFFICES ASSUME UInit PROVE IInvFilm
  OBVIOUS
<1>1. op = NoOp /\ \A r \in Recordings : disk[r] = NoRecording
  BY DEF UInit, Init
<1>2. Whole(NoRecording) /\ NoRecording.frames = <<>> /\ NoRecording.manifest = NoManifest
  BY DEF Whole, NoRecording
<1> QED
  BY <1>1, <1>2, NoOpKind DEF IInvFilm, Fresh, Progress

\* The invariants of the scene, of the sessions and of the recordings hold in
\* every behaviour of the recordings and the unknown-start operations.
THEOREM UnknownStartInvariant == Spec => [](IInv /\ IInvFilm)
  BY InitInv, InitFilm, StepInv, StepFilm, PTL DEF Spec

\* Every variable keeps its type.
THEOREM UnknownStartTypeCorrect == Spec => []TypeOK
<1>1. Typed => TypeOK
  <2> SUFFICES ASSUME Typed PROVE TypeOK
    OBVIOUS
  <2>1. \A r \in Recordings : \A i \in 1..Len(disk[r].frames) : disk[r].frames[i] \in Frame
    BY DEF Typed, DiskRecord
  <2> QED
    BY <2>1 DEF Typed, TypeOK, SceneRecord, OpRecord
<1> QED
  BY <1>1, UnknownStartInvariant, PTL DEF IInv, IInvScene

\* However the last operation ended - done, raised, cancelled, or with the
\* process - nothing moves after it: physics does not advance on its own and the
\* rendering period is the application's.
THEOREM SceneIsStill == Spec => []IdleIsStill
<1>1. IInv => IdleIsStill
  BY DEF IInv, IInvScene, Still, Period, IdleIsStill, NoOp
<1> QED
  BY <1>1, UnknownStartInvariant, PTL

\* A recording with a manifest holds all its frames, of one run, as its script
\* says: the claim of isaac_demo_camera.py's recorder, for every kind.
THEOREM ManifestsAreWhole == Spec => []RecordingIsWhole
<1>1. IInvFilm => RecordingIsWhole
  BY WholeIs DEF IInvFilm
<1> QED
  BY <1>1, UnknownStartInvariant, PTL

\* A session with a handoff was captured from exactly the scene its reset recorded.
THEOREM RequestsAreGrounded == Spec => []RequestIsGrounded
<1>1. IInv => RequestIsGrounded
  BY DEF IInv, IInvSession
<1> QED
  BY <1>1, UnknownStartInvariant, PTL

\* The scene a planned action was judged against is the one it was captured from.
THEOREM JudgementsAreAtReset == Spec => []JudgedAtReset
<1>1. IInv => JudgedAtReset
  BY DEF IInv, IInvSession
<1> QED
  BY <1>1, UnknownStartInvariant, PTL

\* A recovery that returned left the scene at its reset, paused, and is recorded.
THEOREM RecoveriesAreTrue == Spec => []RecoveryIsTrue
<1>1. IInv => RecoveryIsTrue
  BY DEF IInv, IInvSession
<1> QED
  BY <1>1, UnknownStartInvariant, PTL
=============================================================================
