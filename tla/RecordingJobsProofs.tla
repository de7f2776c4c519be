------------------------ MODULE RecordingJobsProofs ------------------------
(***************************************************************************)
(* Proofs about RecordingJobs, for any jobs, operations and runs, with or  *)
(* without disk failures and server restarts, and about CaptureClient,     *)
(* which calls it, whether calls are lost or not.                          *)
(***************************************************************************)
EXTENDS CaptureClient, TLAPS

(***************************************************************************)
(* The inductive invariant.                                                *)
(***************************************************************************)
ForegroundOwns == \A o \in foreground : active = o

\* Run ids and job ids point at each other.
TaskIsOfJob ==
  /\ \A r \in Runs : pc[r] # "unused" => job[r] \in Jobs
  /\ \A j \in Jobs : tasks[j] # None => job[tasks[j]] = j /\ pc[tasks[j]] # "unused"

\* A heartbeat task belongs to a run at the matching place of _run; before the
\* first step there is none.
BeatMatches ==
  \A r \in Runs : /\ beat[r] = "beating" => pc[r] = "factory"
                  /\ beat[r] = "cancelling" => pc[r] \in {"completing", "failing"}
                  /\ beat[r] = "dead" => pc[r] \in {"factory", "completing", "failing"}

\* An absent file names no run.
AbsentIsAbsent == \A j \in Jobs : file[j].status = "absent" => file[j].run = None

\* A run under a file found stale, or chosen for quarantine, has lost its
\* heartbeat for good and so cannot write a terminal status any more.
MuteUnderQuarantine ==
  \A j \in Jobs : running_job_is_stale(j) \/ quarantining = j =>
    /\ file[j].status \in {"running", "error"}
    /\ \A r \in Runs : Live(r) /\ job[r] = j => beat[r] = "dead"

\* Who owns the simulator, and which task is registered where.
Ownership ==
  LiveRunIsRegistered /\ ForegroundOwns /\ TaskIsOfJob /\ ClaimHasOwner /\ BeatMatches

\* What the status files say of it.
Files == AbsentIsAbsent /\ TerminalMeansOver /\ ArtifactIsOwn /\ MuteUnderQuarantine

IInv == TypeOK /\ Ownership /\ Files

(***************************************************************************)
(* It holds initially and every action preserves it: a lemma per action.   *)
(***************************************************************************)
LEMMA Initially == Init => IInv
BY ConstantsAssumption DEF Init, IInv, TypeOK, Ownership, LiveRunIsRegistered, ForegroundOwns, TaskIsOfJob,
   ClaimHasOwner, BeatMatches, Files, AbsentIsAbsent, TerminalMeansOver, ArtifactIsOwn, MuteUnderQuarantine,
   running_job_is_stale, Live, LivePcs, Absent, Terminal

LEMMA RunExclusiveStep ==
  ASSUME IInv, NEW o \in Operations, RunExclusive(o)
  PROVE  IInv'
<1> USE ConstantsAssumption DEF IInv, Ownership, TypeOK, LiveRunIsRegistered, TaskIsOfJob,
    Live, LivePcs, manager, run, Write, Release, RunExclusive
<1>1. TypeOK'
  BY DEF Absent, Terminal
<1>2. Ownership'
  BY DEF ForegroundOwns, ClaimHasOwner, BeatMatches
<1>3. Files'
  BY DEF Files, AbsentIsAbsent, TerminalMeansOver, ArtifactIsOwn, MuteUnderQuarantine, BeatMatches,
    running_job_is_stale, Absent, Terminal
<1> QED
  BY <1>1, <1>2, <1>3

LEMMA EndExclusiveStep ==
  ASSUME IInv, NEW o \in Operations, EndExclusive(o)
  PROVE  IInv'
<1> USE ConstantsAssumption DEF IInv, Ownership, TypeOK, LiveRunIsRegistered, TaskIsOfJob,
    Live, LivePcs, manager, run, Write, Release, EndExclusive
<1>1. TypeOK'
  BY DEF Absent, Terminal
<1>2. Ownership'
  BY DEF ForegroundOwns, ClaimHasOwner, BeatMatches
<1>3. Files'
  BY DEF Files, AbsentIsAbsent, TerminalMeansOver, ArtifactIsOwn, MuteUnderQuarantine, BeatMatches,
    running_job_is_stale, Absent, Terminal
<1> QED
  BY <1>1, <1>2, <1>3

LEMMA StartStep ==
  ASSUME IInv, NEW j \in Jobs, NEW r \in Runs, Start(j, r)
  PROVE  IInv'
<1> USE ConstantsAssumption DEF IInv, Ownership, TypeOK, LiveRunIsRegistered, TaskIsOfJob,
    Live, LivePcs, manager, run, Write, Release, Start
<1>1. TypeOK'
  BY DEF Absent, Terminal
<1>2. Ownership'
  BY DEF ForegroundOwns, ClaimHasOwner, BeatMatches
<1>3. AbsentIsAbsent'
  BY DEF Files, AbsentIsAbsent
<1>4. TerminalMeansOver'
  BY DEF Files, TerminalMeansOver, Terminal
<1>5. ArtifactIsOwn'
  BY DEF Files, ArtifactIsOwn
<1>6. MuteUnderQuarantine'
  BY DEF Files, MuteUnderQuarantine, running_job_is_stale
<1> QED
  BY <1>1, <1>2, <1>3, <1>4, <1>5, <1>6 DEF Files

LEMMA StartFailsStep ==
  ASSUME IInv, NEW j \in Jobs, StartFails(j)
  PROVE  IInv'
<1> USE ConstantsAssumption DEF IInv, Ownership, TypeOK, LiveRunIsRegistered, TaskIsOfJob,
    Live, LivePcs, manager, run, Write, Release, StartFails
<1>1. TypeOK'
  BY DEF Absent, Terminal
<1>2. Ownership'
  BY DEF ForegroundOwns, ClaimHasOwner, BeatMatches
<1>3. Files'
  BY DEF Files, AbsentIsAbsent, TerminalMeansOver, ArtifactIsOwn, MuteUnderQuarantine, BeatMatches,
    running_job_is_stale, Absent, Terminal
<1> QED
  BY <1>1, <1>2, <1>3

LEMMA CancelStep ==
  ASSUME IInv, NEW j \in Jobs, Cancel(j)
  PROVE  IInv'
<1> USE ConstantsAssumption DEF IInv, Ownership, TypeOK, LiveRunIsRegistered, TaskIsOfJob,
    Live, LivePcs, manager, run, Write, Release, Cancel
<1>1. TypeOK'
  BY DEF Absent, Terminal
<1>2. Ownership'
  BY DEF ForegroundOwns, ClaimHasOwner, BeatMatches
<1>3. Files'
  BY DEF Files, AbsentIsAbsent, TerminalMeansOver, ArtifactIsOwn, MuteUnderQuarantine, BeatMatches,
    running_job_is_stale, Absent, Terminal
<1> QED
  BY <1>1, <1>2, <1>3

LEMMA FirstStepStep ==
  ASSUME IInv, NEW r \in Runs, FirstStep(r)
  PROVE  IInv'
<1> USE ConstantsAssumption DEF IInv, Ownership, TypeOK, LiveRunIsRegistered, TaskIsOfJob,
    Live, LivePcs, manager, run, Write, Release, FirstStep
<1>1. TypeOK'
  BY DEF Absent, Terminal
<1>2. Ownership'
  BY DEF ForegroundOwns, ClaimHasOwner, BeatMatches
<1>3. (AbsentIsAbsent /\ TerminalMeansOver /\ ArtifactIsOwn)'
  BY DEF Files, AbsentIsAbsent, TerminalMeansOver, ArtifactIsOwn, Terminal
<1>4. MuteUnderQuarantine'
  BY DEF Files, MuteUnderQuarantine, BeatMatches, running_job_is_stale
<1> QED
  BY <1>1, <1>2, <1>3, <1>4 DEF Files

LEMMA LeaveFactoryStep ==
  ASSUME IInv, NEW r \in Runs, NEW p \in {"completing", "failing"}, LeaveFactory(r, p)
  PROVE  IInv'
<1> USE ConstantsAssumption DEF IInv, Ownership, TypeOK, LiveRunIsRegistered, TaskIsOfJob,
    Live, LivePcs, manager, run, Write, Release, LeaveFactory, StopHeartbeat
<1>1. TypeOK'
  BY DEF Absent, Terminal
<1>2. Ownership'
  BY DEF ForegroundOwns, ClaimHasOwner, BeatMatches
<1>3. Files'
  BY DEF Files, AbsentIsAbsent, TerminalMeansOver, ArtifactIsOwn, MuteUnderQuarantine, BeatMatches,
    running_job_is_stale, Absent, Terminal
<1> QED
  BY <1>1, <1>2, <1>3

LEMMA TerminalizeStep ==
  ASSUME IInv, NEW r \in Runs, Terminalize(r)
  PROVE  IInv'
<1> USE ConstantsAssumption DEF IInv, Ownership, TypeOK, LiveRunIsRegistered, TaskIsOfJob,
    Live, LivePcs, manager, run, Write, Release, Terminalize
<1>1. TypeOK'
  BY DEF Absent, Terminal
<1>2. Ownership'
  BY DEF ForegroundOwns, ClaimHasOwner, BeatMatches
<1>3. Files'
  BY DEF Files, AbsentIsAbsent, TerminalMeansOver, ArtifactIsOwn, MuteUnderQuarantine, BeatMatches,
    running_job_is_stale, Absent, Terminal
<1> QED
  BY <1>1, <1>2, <1>3

LEMMA TerminalizeFailsStep ==
  ASSUME IInv, NEW r \in Runs, TerminalizeFails(r)
  PROVE  IInv'
<1> USE ConstantsAssumption DEF IInv, Ownership, TypeOK, LiveRunIsRegistered, TaskIsOfJob,
    Live, LivePcs, manager, run, Write, Release, TerminalizeFails
<1>1. TypeOK'
  BY DEF Absent, Terminal
<1>2. Ownership'
  BY DEF ForegroundOwns, ClaimHasOwner, BeatMatches
<1>3. Files'
  BY DEF Files, AbsentIsAbsent, TerminalMeansOver, ArtifactIsOwn, MuteUnderQuarantine, BeatMatches,
    running_job_is_stale, Absent, Terminal
<1> QED
  BY <1>1, <1>2, <1>3

LEMMA ForgetStep ==
  ASSUME IInv, NEW r \in Runs, Forget(r)
  PROVE  IInv'
<1> USE ConstantsAssumption DEF IInv, Ownership, TypeOK, LiveRunIsRegistered, TaskIsOfJob,
    Live, LivePcs, manager, run, Write, Release, Forget
<1>1. TypeOK'
  BY DEF Absent, Terminal
<1>2. Ownership'
  BY DEF ForegroundOwns, ClaimHasOwner, BeatMatches
<1>3. Files'
  BY DEF Files, AbsentIsAbsent, TerminalMeansOver, ArtifactIsOwn, MuteUnderQuarantine, BeatMatches,
    running_job_is_stale, Absent, Terminal
<1> QED
  BY <1>1, <1>2, <1>3

LEMMA HeartbeatStep ==
  ASSUME IInv, NEW r \in Runs, Heartbeat(r)
  PROVE  IInv'
<1> USE ConstantsAssumption DEF IInv, Ownership, TypeOK, LiveRunIsRegistered, TaskIsOfJob,
    Live, LivePcs, manager, run, Write, Release, Heartbeat
<1>1. TypeOK'
  <2>1. job[r] \in Jobs
    BY DEF BeatMatches
  <2>2. CASE Write(job[r], r, "running") /\ UNCHANGED beat
    BY <2>1, <2>2 DEF Terminal
  <2>3. CASE beat' = [beat EXCEPT ![r] = "dead"] /\ UNCHANGED file
    BY <2>3 DEF Terminal
  <2> QED
    BY <2>2, <2>3
<1>2. Ownership'
  BY DEF ForegroundOwns, ClaimHasOwner, BeatMatches
<1>3. Files'
  BY DEF Files, AbsentIsAbsent, TerminalMeansOver, ArtifactIsOwn, MuteUnderQuarantine, BeatMatches,
    running_job_is_stale, Absent, Terminal
<1> QED
  BY <1>1, <1>2, <1>3

LEMMA ProgressStep ==
  ASSUME IInv, NEW r \in Runs, Progress(r)
  PROVE  IInv'
<1> USE ConstantsAssumption DEF IInv, Ownership, TypeOK, LiveRunIsRegistered, TaskIsOfJob,
    Live, LivePcs, manager, run, Write, Release, Progress
<1>1. TypeOK'
  BY DEF Absent, Terminal
<1>2. Ownership'
  BY DEF ForegroundOwns, ClaimHasOwner, BeatMatches
<1>3. Files'
  BY DEF Files, AbsentIsAbsent, TerminalMeansOver, ArtifactIsOwn, MuteUnderQuarantine, BeatMatches,
    running_job_is_stale, Absent, Terminal
<1> QED
  BY <1>1, <1>2, <1>3

LEMMA ReloadStep ==
  ASSUME IInv, Reload
  PROVE  IInv'
<1> USE ConstantsAssumption DEF IInv, Ownership, TypeOK, LiveRunIsRegistered, TaskIsOfJob,
    Live, LivePcs, manager, run, Write, Release, Reload
<1>1. TypeOK'
  BY DEF Absent, Terminal
<1>2. Ownership'
  BY DEF ForegroundOwns, ClaimHasOwner, BeatMatches
<1>3. Files'
  BY DEF Files, AbsentIsAbsent, TerminalMeansOver, ArtifactIsOwn, MuteUnderQuarantine, BeatMatches,
    running_job_is_stale, Absent, Terminal
<1> QED
  BY <1>1, <1>2, <1>3

LEMMA RestartStep ==
  ASSUME IInv, Restart
  PROVE  IInv'
<1> USE ConstantsAssumption DEF IInv, Ownership, TypeOK, LiveRunIsRegistered, TaskIsOfJob,
    Live, LivePcs, manager, run, Write, Release, Restart
<1>1. TypeOK'
  BY DEF Absent, Terminal
<1>2. Ownership'
  BY DEF ForegroundOwns, ClaimHasOwner, BeatMatches
<1>3. Files'
  BY DEF Files, AbsentIsAbsent, TerminalMeansOver, ArtifactIsOwn, MuteUnderQuarantine, BeatMatches,
    running_job_is_stale, Absent, Terminal
<1> QED
  BY <1>1, <1>2, <1>3

LEMMA GoSilentStep ==
  ASSUME IInv, NEW j \in Jobs, GoSilent(j)
  PROVE  IInv'
<1> USE ConstantsAssumption DEF IInv, Ownership, TypeOK, LiveRunIsRegistered, TaskIsOfJob,
    Live, LivePcs, manager, run, Write, Release, GoSilent
<1>1. TypeOK'
  BY DEF Absent, Terminal
<1>2. Ownership'
  BY DEF ForegroundOwns, ClaimHasOwner, BeatMatches
<1>3. Files'
  BY DEF Files, AbsentIsAbsent, TerminalMeansOver, ArtifactIsOwn, MuteUnderQuarantine, BeatMatches,
    running_job_is_stale, Absent, Terminal
<1> QED
  BY <1>1, <1>2, <1>3

LEMMA FindQuarantinableStep ==
  ASSUME IInv, NEW j \in Jobs, FindQuarantinable(j)
  PROVE  IInv'
<1> USE ConstantsAssumption DEF IInv, Ownership, TypeOK, LiveRunIsRegistered, TaskIsOfJob,
    Live, LivePcs, manager, run, Write, Release, FindQuarantinable, job_is_quarantinable
<1>1. TypeOK'
  BY DEF Absent, Terminal
<1>2. Ownership'
  BY DEF ForegroundOwns, ClaimHasOwner, BeatMatches
<1>3. Files'
  BY DEF Files, AbsentIsAbsent, TerminalMeansOver, ArtifactIsOwn, MuteUnderQuarantine, BeatMatches,
    running_job_is_stale, Absent, Terminal
<1> QED
  BY <1>1, <1>2, <1>3

LEMMA QuarantineStep ==
  ASSUME IInv, NEW j \in Jobs, Quarantine(j)
  PROVE  IInv'
<1> USE ConstantsAssumption DEF IInv, Ownership, TypeOK, LiveRunIsRegistered, TaskIsOfJob,
    Live, LivePcs, manager, run, Write, Release, Quarantine
<1>1. TypeOK'
  BY DEF Absent, Terminal
<1>2. Ownership'
  BY DEF ForegroundOwns, ClaimHasOwner, BeatMatches
<1>3. Files'
  BY DEF Files, AbsentIsAbsent, TerminalMeansOver, ArtifactIsOwn, MuteUnderQuarantine, BeatMatches,
    running_job_is_stale, Absent, Terminal
<1> QED
  BY <1>1, <1>2, <1>3

\* The invariant holds in every reachable state: the per-action lemmas, one case
\* per disjunct of Next.
THEOREM Invariance == Spec => []IInv
<1>1. IInv /\ [Next]_vars => IInv'
  <2> SUFFICES ASSUME IInv, [Next]_vars PROVE IInv'
    OBVIOUS
  <2>1. ASSUME NEW o \in Operations, RunExclusive(o) \/ EndExclusive(o) PROVE IInv'
    BY <2>1, RunExclusiveStep, EndExclusiveStep
  <2>2. ASSUME NEW j \in Jobs, NEW r \in Runs, Start(j, r) PROVE IInv'
    BY <2>2, StartStep
  <2>3. ASSUME NEW j \in Jobs, StartFails(j) \/ Cancel(j) PROVE IInv'
    BY <2>3, StartFailsStep, CancelStep
  <2>4. ASSUME NEW r \in Runs, FactoryReturns(r) \/ FactoryRaises(r) \/ FactoryCancelled(r) PROVE IInv'
    BY <2>4, LeaveFactoryStep DEF FactoryReturns, FactoryRaises, FactoryCancelled
  <2>5. ASSUME NEW r \in Runs, Task(r) PROVE IInv'
    BY <2>4, <2>5, FirstStepStep, TerminalizeStep, TerminalizeFailsStep, ForgetStep, HeartbeatStep, ProgressStep
       DEF Task
  <2>6. CASE Reload \/ Restart
    BY <2>6, ReloadStep, RestartStep
  <2>7. ASSUME NEW j \in Jobs, GoSilent(j) \/ FindQuarantinable(j) \/ Quarantine(j) PROVE IInv'
    BY <2>7, GoSilentStep, FindQuarantinableStep, QuarantineStep
  <2>8. CASE UNCHANGED vars
    BY <2>8 DEF vars, manager, run, IInv, TypeOK, Ownership, LiveRunIsRegistered, ForegroundOwns, TaskIsOfJob,
       ClaimHasOwner, BeatMatches, Files, AbsentIsAbsent, TerminalMeansOver, ArtifactIsOwn, MuteUnderQuarantine,
       running_job_is_stale, Live
  <2> QED
    BY <2>1, <2>2, <2>3, <2>5, <2>6, <2>7, <2>8 DEF Next
<1> QED
  BY Initially, <1>1, PTL DEF Spec

(***************************************************************************)
(* What follows from it.                                                   *)
(***************************************************************************)

\* Every variable keeps its type.
THEOREM TypeCorrect == Spec => []TypeOK
<1>1. IInv => TypeOK
  BY DEF IInv
<1> QED
  BY Invariance, <1>1, PTL

\* The simulator is driven by one operation at a time, whatever claims,
\* cancellations, callbacks, reloads and restarts interleave.
THEOREM MutualExclusion == Spec => []OneOperation
<1>1. IInv => OneOperation
  BY ConstantsAssumption DEF IInv, TypeOK, Ownership, LiveRunIsRegistered, ForegroundOwns, TaskIsOfJob,
     OneOperation, Live, LivePcs
<1> QED
  BY Invariance, <1>1, PTL

\* A live task is never orphaned by a reload or by an earlier run's callback.
THEOREM Registered == Spec => []LiveRunIsRegistered
<1>1. IInv => LiveRunIsRegistered
  BY DEF IInv, Ownership
<1> QED
  BY Invariance, <1>1, PTL

\* The interlock is never held by nobody.
THEOREM NoLeakedClaim == Spec => []ClaimHasOwner
<1>1. IInv => ClaimHasOwner
  BY DEF IInv, Ownership
<1> QED
  BY Invariance, <1>1, PTL

\* A terminal status file means that the operation is over.
THEOREM TerminalIsOver == Spec => []TerminalMeansOver
<1>1. IInv => TerminalMeansOver
  BY DEF IInv, Files
<1> QED
  BY Invariance, <1>1, PTL

\* A live run's status file is its own.
THEOREM OwnArtifact == Spec => []ArtifactIsOwn
<1>1. IInv => ArtifactIsOwn
  BY DEF IInv, Files
<1> QED
  BY Invariance, <1>1, PTL

\* A terminal status is final.  The writers of a status file are live runs, whose
\* own file is not terminal; a quarantine moves only a file whose run is mute.
THEOREM TerminalStatusIsFinal == Spec => TerminalIsFinal
<1> DEFINE Final == \A j \in Jobs :
             /\ file[j].status = "complete" => file'[j] = file[j]
             /\ file[j].status = "error" => file'[j] \in {file[j], Absent}
<1>1. IInv /\ [Next]_vars => [Final]_vars
  <2> SUFFICES ASSUME IInv, Next PROVE Final
    OBVIOUS
  <2> USE DEF IInv, Ownership, Files, TypeOK, LiveRunIsRegistered, TaskIsOfJob, TerminalMeansOver, Terminal,
       Live, LivePcs, Write
  <2>1. ASSUME NEW j \in Jobs, NEW r \in Runs, Start(j, r) PROVE Final
    BY <2>1 DEF Start
  <2>2. ASSUME NEW r \in Runs, Terminalize(r) \/ Heartbeat(r) \/ Progress(r) PROVE Final
    <3>1. Live(r) /\ job[r] \in Jobs
      BY <2>2 DEF Terminalize, Heartbeat, Progress, BeatMatches
    <3>2. file' = file \/ \E rec : file' = [file EXCEPT ![job[r]] = rec]
      BY <2>2 DEF Terminalize, Heartbeat, Progress
    <3>3. file[job[r]].status \notin Terminal
      BY <3>1
    <3> QED
      BY <3>1, <3>2, <3>3
  <2>3. ASSUME NEW j \in Jobs, GoSilent(j) PROVE Final
    BY <2>3 DEF GoSilent
  <2>4. ASSUME NEW j \in Jobs, Quarantine(j) PROVE Final
    BY <2>4 DEF Quarantine, MuteUnderQuarantine
  <2>5. CASE UNCHANGED file
    BY <2>5
  <2> QED
    BY <2>1, <2>2, <2>3, <2>4, <2>5 DEF Next, Task, RunExclusive, EndExclusive, StartFails, Cancel, FirstStep,
       FactoryReturns, FactoryRaises, FactoryCancelled, LeaveFactory, TerminalizeFails, Forget, Reload, Restart,
       FindQuarantinable
<1> QED
  BY <1>1, Invariance, PTL DEF Spec, TerminalIsFinal

(***************************************************************************)
(* RecordingJobs implements SimulatorInterlock.                            *)
(***************************************************************************)
Holders   == foreground \cup {r \in Runs : Live(r)}
Artifacts == [j \in Jobs |-> [status |-> file[j].status, run |-> file[j].run]]

\* A step that changes neither the live activities nor any status is a stutter.
LEMMA Stutter ==
  ASSUME foreground' = foreground, \A r \in Runs : Live(r)' <=> Live(r),
         \A j \in Jobs : file'[j].status = file[j].status /\ file'[j].run = file[j].run
  PROVE  Holders' = Holders /\ Artifacts' = Artifacts
BY DEF Holders, Artifacts

\* When nothing owns the simulator nothing holds it.
LEMMA UnownedUnheld ==
  ASSUME IInv, active = None
  PROVE  Holders = {}
BY ConstantsAssumption DEF IInv, TypeOK, Ownership, LiveRunIsRegistered, ForegroundOwns, TaskIsOfJob, Holders, Live,
   LivePcs

\* A foreground body excludes live runs, and a live run everything else.
LEMMA UnderForegroundNoRun ==
  ASSUME IInv, foreground # {}
  PROVE  \A r \in Runs : ~Live(r)
BY ConstantsAssumption DEF IInv, TypeOK, Ownership, LiveRunIsRegistered, ForegroundOwns, TaskIsOfJob, Live, LivePcs

LEMMA LiveOwnsAlone ==
  ASSUME IInv, NEW r \in Runs, Live(r)
  PROVE  foreground = {} /\ \A s \in Runs : Live(s) => s = r
BY ConstantsAssumption DEF IInv, TypeOK, Ownership, LiveRunIsRegistered, ForegroundOwns, TaskIsOfJob, Live, LivePcs

\* A live run finds its file absent or its own, and names one of the jobs.
LEMMA LiveArtifact ==
  ASSUME IInv, NEW r \in Runs, Live(r)
  PROVE  /\ job[r] \in Jobs /\ tasks[job[r]] = r /\ runIds[job[r]] = r /\ r \in Holders
         /\ Artifacts[job[r]] \in {Interlock!Status(r, "running"), Interlock!Absent}
<1>1. job[r] \in Jobs /\ tasks[job[r]] = r /\ runIds[job[r]] = r /\ r \in Holders
  BY DEF IInv, Ownership, LiveRunIsRegistered, TaskIsOfJob, Live, LivePcs, Holders
<1>2. \/ file[job[r]].status = "absent" /\ file[job[r]].run = None
      \/ file[job[r]].status = "running" /\ file[job[r]].run = r
  BY <1>1 DEF IInv, Files, ArtifactIsOwn, AbsentIsAbsent
<1> QED
  BY <1>1, <1>2 DEF Artifacts, Interlock!Status, Interlock!Absent

\* A status write of a live run changes its own entry of the artifacts.
LEMMA WriteArtifact ==
  ASSUME TypeOK, NEW j \in Jobs, NEW r, NEW s, Write(j, r, s)
  PROVE  Artifacts' = [Artifacts EXCEPT ![j] = Interlock!Status(r, s)]
BY DEF TypeOK, Write, Artifacts, Interlock!Status

\* Every behaviour of the manager, its callbacks and the processes around it is a
\* behaviour of the interlock: starts, terminal writes and quarantines are its
\* steps, everything the loop does in between is invisible.
THEOREM Refinement == Spec => ImplementsInterlock
<1>1. Init => Interlock!Init
  BY DEF Init, Interlock!Init, Interlock!Absent, Live, LivePcs, Absent
<1>2. IInv /\ [Next]_vars => [Interlock!Next]_<<Holders, Artifacts>>
  <2> DEFINE Unseen == Holders' = Holders /\ Artifacts' = Artifacts
  <2> SUFFICES ASSUME IInv, Next PROVE Interlock!Next \/ Unseen
    <3>1. UNCHANGED vars => Unseen
      BY DEF vars, run, Holders, Artifacts, Live
    <3> QED
      BY <3>1
  <2> USE ConstantsAssumption
  <2>1. ASSUME NEW o \in Operations, RunExclusive(o) PROVE Interlock!BeginOperation(o)
    BY <2>1, UnownedUnheld DEF RunExclusive, Interlock!BeginOperation, Holders, Artifacts, run, Live
  <2>2. ASSUME NEW o \in Operations, EndExclusive(o) PROVE Interlock!Abandon(o)
    <3>1. \A r \in Runs : ~Live(r)
      BY <2>2, UnderForegroundNoRun DEF EndExclusive
    <3> QED
      BY <2>2, <3>1 DEF EndExclusive, Interlock!Abandon, Holders, Artifacts, run, Live
  <2>3. ASSUME NEW j \in Jobs, NEW r \in Runs, Start(j, r) PROVE Interlock!BeginRun(j, r)
    <3>1. Holders = {} /\ Holders' = {r}
      BY <2>3, UnownedUnheld DEF Start, Holders, Live, LivePcs, IInv, TypeOK
    <3>2. Artifacts[j] = Interlock!Absent
      BY <2>3 DEF Start, Artifacts, Interlock!Absent, IInv, Files, AbsentIsAbsent
    <3>3. Artifacts' = [Artifacts EXCEPT ![j] = Interlock!Status(r, "running")]
      BY <2>3, WriteArtifact DEF Start, IInv
    <3> QED
      BY <3>1, <3>2, <3>3 DEF Interlock!BeginRun, Holders, Artifacts
  <2>4. ASSUME NEW r \in Runs, FirstStep(r) \/ TerminalizeFails(r) PROVE Interlock!Abandon(r) \/ Unseen
    <3>1. \/ pc' = [pc EXCEPT ![r] = "done"]
          \/ pc[r] = "scheduled" /\ pc' = [pc EXCEPT ![r] = "factory"]
      BY <2>4 DEF FirstStep, TerminalizeFails
    <3>2. Live(r) /\ foreground' = foreground /\ file' = file
      BY <2>4 DEF FirstStep, TerminalizeFails, Live, LivePcs
    <3>3. CASE pc' = [pc EXCEPT ![r] = "done"]
      BY <3>2, <3>3, LiveOwnsAlone DEF Holders, Artifacts, Live, LivePcs, IInv, TypeOK, Interlock!Abandon
    <3>4. CASE pc[r] = "scheduled" /\ pc' = [pc EXCEPT ![r] = "factory"]
      BY <3>2, <3>4, Stutter DEF Live, LivePcs, IInv, TypeOK
    <3> QED
      BY <3>1, <3>3, <3>4
  <2>5. ASSUME NEW r \in Runs, NEW p \in {"completing", "failing"}, LeaveFactory(r, p) PROVE Unseen
    BY <2>5, Stutter DEF LeaveFactory, Live, LivePcs, IInv, TypeOK
  <2>6. ASSUME NEW r \in Runs, Terminalize(r) PROVE Interlock!Terminalize(job[r], r)
    <3>1. Live(r) /\ foreground' = foreground /\ pc' = [pc EXCEPT ![r] = "done"]
      BY <2>6 DEF Terminalize, Live, LivePcs
    <3>2. Holders' = Holders \ {r}
      BY <3>1, LiveOwnsAlone DEF Holders, Live, LivePcs, IInv, TypeOK
    <3>3. PICK s \in {"complete", "error"} : Write(job[r], r, s)
      BY <2>6 DEF Terminalize
    <3>4. Artifacts' = [Artifacts EXCEPT ![job[r]] = Interlock!Status(r, s)]
      BY <3>1, <3>3, LiveArtifact, WriteArtifact DEF IInv
    <3> QED
      BY <3>1, <3>2, <3>4, LiveArtifact DEF Interlock!Terminalize, Holders, Artifacts
  <2>7. ASSUME NEW r \in Runs, Heartbeat(r) \/ Progress(r) PROVE Interlock!Report(job[r], r) \/ Unseen
    <3>1. Live(r) /\ UNCHANGED <<foreground, pc>>
      BY <2>7 DEF Heartbeat, Progress, IInv, Ownership, BeatMatches, Live, LivePcs, run
    <3>2. Write(job[r], r, "running") \/ file' = file
      BY <2>7, <3>1, LiveArtifact DEF Heartbeat, Progress
    <3>3. CASE Write(job[r], r, "running")
      <4>1. Artifacts' = [Artifacts EXCEPT ![job[r]] = Interlock!Status(r, "running")]
        BY <3>1, <3>3, LiveArtifact, WriteArtifact DEF IInv
      <4> QED
        BY <3>1, <4>1, LiveArtifact DEF Interlock!Report, Holders, Artifacts, Live
    <3>4. CASE file' = file
      BY <3>1, <3>4, Stutter DEF Live
    <3> QED
      BY <3>2, <3>3, <3>4
  <2>8. ASSUME NEW r \in Runs, Forget(r) PROVE Unseen
    BY <2>8, Stutter DEF Forget, Live, LivePcs, IInv, TypeOK
  <2>9. CASE Restart
    <3>1. Holders' = {} /\ Artifacts' = Artifacts
      BY <2>9 DEF Restart, Holders, Artifacts, Live, LivePcs
    <3>2. Holders = {} \/ \E a \in Operations \cup Runs : Holders = {a}
      BY LiveOwnsAlone DEF Holders, IInv, TypeOK, Ownership, ForegroundOwns
    <3>3. ASSUME NEW a \in Operations \cup Runs, Holders = {a} PROVE Interlock!Abandon(a)
      BY <3>1, <3>3 DEF Interlock!Abandon, Holders, Artifacts
    <3> QED
      BY <3>1, <3>2, <3>3 DEF Interlock!Next
  <2>10. ASSUME NEW j \in Jobs, Quarantine(j) PROVE Interlock!Archive(j)
    <3>1. Artifacts' = [Artifacts EXCEPT ![j] = Interlock!Absent]
      BY <2>10 DEF Quarantine, Artifacts, Absent, Interlock!Absent, IInv, TypeOK
    <3>2. Artifacts[j].status \in {"running", "error"}
      BY <2>10 DEF Quarantine, Artifacts, IInv, Files, MuteUnderQuarantine
    <3> QED
      BY <2>10, <3>1, <3>2 DEF Quarantine, run, Holders, Artifacts, Live, Interlock!Archive
  <2>11. ASSUME NEW j \in Jobs, GoSilent(j) PROVE Unseen
    BY <2>11, Stutter DEF GoSilent, run, Live, IInv, TypeOK
  <2>12. ASSUME UNCHANGED <<foreground, pc, file>> PROVE Unseen
    BY <2>12, Stutter DEF Live
  <2> QED
    <3>1. ASSUME NEW r \in Runs, Task(r) PROVE Interlock!Next \/ Unseen
      <4>1. CASE \E p \in {"completing", "failing"} : LeaveFactory(r, p)
        BY <2>5, <4>1
      <4>2. CASE FirstStep(r) \/ TerminalizeFails(r)
        BY <2>4, <4>2 DEF Interlock!Next
      <4>3. CASE Terminalize(r)
        BY <2>6, <4>3, LiveArtifact DEF Interlock!Next, Terminalize, Live, LivePcs
      <4>4. CASE Heartbeat(r) \/ Progress(r)
        <5>1. Live(r)
          BY <4>4 DEF Heartbeat, Progress, IInv, Ownership, BeatMatches, Live, LivePcs
        <5> QED
          BY <2>7, <4>4, <5>1, LiveArtifact DEF Interlock!Next
      <4> QED
        BY <3>1, <4>1, <4>2, <4>3, <4>4, <2>8 DEF Task, FactoryReturns, FactoryRaises, FactoryCancelled
    <3>2. ASSUME NEW j \in Jobs, StartFails(j) \/ Cancel(j) \/ FindQuarantinable(j) PROVE Unseen
      BY <2>12, <3>2 DEF StartFails, Cancel, FindQuarantinable, run
    <3>3. CASE Reload
      BY <2>12, <3>3 DEF Reload, run
    <3>4. ASSUME NEW o \in Operations, RunExclusive(o) \/ EndExclusive(o) PROVE Interlock!Next
      BY <2>1, <2>2, <3>4 DEF Interlock!Next
    <3>5. ASSUME NEW j \in Jobs, NEW r \in Runs, Start(j, r) PROVE Interlock!Next
      BY <2>3, <3>5 DEF Interlock!Next
    <3>6. ASSUME NEW j \in Jobs, GoSilent(j) \/ Quarantine(j) PROVE Interlock!Next \/ Unseen
      BY <2>10, <2>11, <3>6 DEF Interlock!Next
    <3> QED
      BY <2>9, <3>1, <3>2, <3>3, <3>4, <3>5, <3>6 DEF Next
<1> QED
  BY <1>1, <1>2, Invariance, PTL DEF Spec, ImplementsInterlock, Interlock!Spec, Holders, Artifacts

(***************************************************************************)
(* The client of a job, CaptureClient.                                     *)
(***************************************************************************)
\* What a step of the composition does to the manager.
LEMMA ServerMoves ==
  ASSUME ClientNext
  PROVE  [Next]_vars
<1> USE DEF Served, Sent, Reply, Goto
<1>1. ASSUME NEW j \in Jobs, ClientStep(j) \/ RefuseCancel(j) PROVE UNCHANGED vars
  BY <1>1 DEF ClientStep, CallStart, StartCallFails, StartCallLost, Poll, Deadline,
     CallCancel, CancelCallFails, Recheck, Settle, RefuseCancel
<1>2. ASSUME NEW j \in Jobs, RefuseStart(j) PROVE [Next]_vars
  BY <1>2 DEF RefuseStart, Next
<1>3. ASSUME NEW j \in Jobs, ServeCancel(j) PROVE Next
  BY <1>3 DEF ServeCancel, Next
<1>4. ASSUME NEW j \in Jobs, NEW r \in Runs, ServeStart(j, r) PROVE Next
  BY <1>4 DEF ServeStart, Next
<1>5. CASE ServerStep
  BY <1>5 DEF ServerStep, Next
<1>6. CASE ServerRestart
  BY <1>6 DEF ServerRestart, Next
<1> QED
  BY <1>1, <1>2, <1>3, <1>4, <1>5, <1>6 DEF ClientNext

\* The composition runs the manager: its behaviours, seen at the server, are
\* behaviours of RecordingJobs, whatever is called, lost or late.
THEOREM ClientRunsServer == ClientSpec => Spec
<1>1. ClientInit => Init
  BY DEF ClientInit
<1>2. [ClientNext]_clientVars => [Next]_vars
  BY ServerMoves DEF clientVars, vars, manager, run
<1> QED
  BY <1>1, <1>2, PTL DEF ClientSpec, Spec

Waited   == {"succeeded", "failed", "timedOut"}
Over(j)  == active # j /\ \A r \in Runs : Live(r) => job[r] # j

\* A start that was not served yet is one its caller still waits for or gave up:
\* nobody starts the job of a wait that goes on, or is over, again.
StartIsAwaited ==
  \A j \in Jobs : <<j, "start">> \in inbox => client[j] \in {"starting", "aborted"}

ClientInv ==
  /\ client \in [Jobs -> ClientPcs]
  /\ inbox \subseteq Calls
  /\ StartIsAwaited
  /\ \A j \in Jobs : client[j] \in Waited => Over(j)

\* Only a start gets something under way.
Quiet == /\ active' \in {active, None} \cup Operations
         /\ \A r \in Runs : Live(r)' => Live(r) /\ job'[r] = job[r]

LEMMA OnlyStartsStart ==
  ASSUME IInv
  PROVE  /\ \A o \in Operations : RunExclusive(o) \/ EndExclusive(o) => Quiet
         /\ \A j \in Jobs : StartFails(j) \/ Cancel(j) => Quiet
         /\ \A r \in Runs : Task(r) => Quiet
         /\ Reload \/ Restart => Quiet
         /\ UNCHANGED vars => Quiet
<1> USE DEF Quiet, IInv, TypeOK, Live, LivePcs, manager, run, Write, Release
<1>1. ASSUME NEW o \in Operations, RunExclusive(o) \/ EndExclusive(o) PROVE Quiet
  BY <1>1 DEF RunExclusive, EndExclusive
<1>2. ASSUME NEW j \in Jobs, StartFails(j) \/ Cancel(j) PROVE Quiet
  BY <1>2 DEF StartFails, Cancel
<1>3. ASSUME NEW r \in Runs, Task(r) PROVE Quiet
  <2>1. CASE FirstStep(r) \/ TerminalizeFails(r) \/ Heartbeat(r) \/ Progress(r)
    BY <2>1 DEF FirstStep, TerminalizeFails, Heartbeat, Progress
  <2>2. CASE \E p \in {"completing", "failing"} : LeaveFactory(r, p)
    BY <2>2 DEF LeaveFactory
  <2>3. CASE Terminalize(r) \/ Forget(r)
    BY <2>3 DEF Terminalize, Forget
  <2> QED
    BY <1>3, <2>1, <2>2, <2>3 DEF Task, FactoryReturns, FactoryRaises, FactoryCancelled
<1>4. CASE Reload \/ Restart
  BY <1>4 DEF Reload, Restart
<1>5. CASE UNCHANGED vars
  BY <1>5 DEF vars
<1> QED
  BY <1>1, <1>2, <1>3, <1>4, <1>5

LEMMA OverStaysOver ==
  ASSUME TypeOK, Quiet, NEW j \in Jobs, Over(j)
  PROVE  Over(j)'
BY ConstantsAssumption DEF Quiet, Over, TypeOK

\* The invariant of the waits, one case per action of the composition.
LEMMA ClientStepInv ==
  ASSUME IInv, ClientInv, [ClientNext]_clientVars
  PROVE  ClientInv'
<1> USE ConstantsAssumption DEF ClientInv, StartIsAwaited, Waited, Calls, ClientPcs,
        Served, Sent, Reply, Goto
<1>1. TypeOK
  BY DEF IInv
<1>2. UNCHANGED vars => Quiet
  BY OnlyStartsStart DEF vars, manager, run
<1>3. ASSUME Quiet, UNCHANGED client, inbox' \subseteq inbox PROVE ClientInv'
  BY <1>1, <1>3, OverStaysOver
<1>4. ASSUME NEW j \in Jobs,
             \/ CallStart(j) \/ StartCallFails(j) \/ StartCallLost(j) \/ Deadline(j)
             \/ CallCancel(j) \/ CancelCallFails(j)
      PROVE  ClientInv'
  <2>1. Quiet
    BY <1>2, <1>4 DEF CallStart, StartCallFails, StartCallLost, Deadline, CallCancel,
       CancelCallFails
  <2>2. \A i \in Jobs : client'[i] \in Waited => client[i] \in Waited
    BY <1>4 DEF CallStart, StartCallFails, StartCallLost, Deadline, CallCancel,
       CancelCallFails
  <2>3. StartIsAwaited' /\ client' \in [Jobs -> ClientPcs] /\ inbox' \subseteq Calls
    BY <1>4 DEF CallStart, StartCallFails, StartCallLost, Deadline, CallCancel,
       CancelCallFails
  <2> QED
    BY <1>1, <2>1, <2>2, <2>3, OverStaysOver
<1>5. ASSUME NEW j \in Jobs, Poll(j) \/ Recheck(j) \/ Settle(j)
      PROVE  ClientInv'
  <2>1. Quiet
    BY <1>2, <1>5 DEF Poll, Recheck, Settle
  <2>2. client'[j] \in Waited => Over(j)
    BY <1>5 DEF Poll, Recheck, Settle, Ended, status,
       IInv, Files, TerminalMeansOver, Terminal, Over
  <2>3. \A i \in Jobs \ {j} : client'[i] = client[i]
    BY <1>5 DEF Poll, Recheck, Settle
  <2>4. StartIsAwaited' /\ client' \in [Jobs -> ClientPcs] /\ inbox' \subseteq Calls
    BY <1>5 DEF Poll, Recheck, Settle
  <2> QED
    BY <1>1, <2>1, <2>2, <2>3, <2>4, OverStaysOver
<1>6. ASSUME NEW j \in Jobs, RefuseStart(j) \/ ServeCancel(j) \/ RefuseCancel(j)
      PROVE  ClientInv'
  <2>1. Quiet
    BY <1>2, <1>6, OnlyStartsStart DEF RefuseStart, ServeCancel, RefuseCancel
  <2>2. \A i \in Jobs : client'[i] \in Waited => client[i] \in Waited
    BY <1>6 DEF RefuseStart, ServeCancel, RefuseCancel
  <2>3. StartIsAwaited' /\ client' \in [Jobs -> ClientPcs] /\ inbox' \subseteq Calls
    BY <1>6 DEF RefuseStart, ServeCancel, RefuseCancel
  <2> QED
    BY <1>1, <2>1, <2>2, <2>3, OverStaysOver
<1>7. ASSUME NEW j \in Jobs, NEW r \in Runs, ServeStart(j, r) PROVE ClientInv'
  <2>1. Start(j, r) /\ client[j] \in {"starting", "aborted"}
    BY <1>7 DEF ServeStart
  <2>2. \A i \in Jobs : client'[i] \in Waited => client[i] \in Waited /\ i # j
    BY <1>7, <2>1 DEF ServeStart
  <2>3. \A i \in Jobs \ {j} : Over(i) => Over(i)'
    BY <1>1, <2>1 DEF Start, Over, Live, LivePcs, TypeOK
  <2>4. StartIsAwaited' /\ client' \in [Jobs -> ClientPcs] /\ inbox' \subseteq Calls
    BY <1>7 DEF ServeStart
  <2> QED
    BY <2>2, <2>3, <2>4
<1>8. CASE ServerStep
  <2>1. Quiet
    BY <1>8, OnlyStartsStart DEF ServerStep
  <2> QED
    BY <1>3, <1>8, <2>1 DEF ServerStep
<1>9. CASE ServerRestart
  <2>1. Quiet
    BY <1>9, OnlyStartsStart DEF ServerRestart
  <2> QED
    BY <1>3, <1>9, <2>1 DEF ServerRestart
<1>10. CASE UNCHANGED clientVars
  BY <1>2, <1>3, <1>10 DEF clientVars
<1> QED
  BY <1>4, <1>5, <1>6, <1>7, <1>8, <1>9, <1>10 DEF ClientNext, ClientStep

\* A wait that returned, with whatever status and by whichever way, leaves nothing
\* of its capture behind: neither its claim nor a task, also after a restart and
\* with calls that arrive late.
THEOREM WaitReleases == ClientSpec => []ReturnedMeansReleased
<1>1. ClientInit => ClientInv
  BY DEF ClientInit, ClientInv, StartIsAwaited, Waited, ClientPcs, Calls
<1>2. IInv /\ ClientInv /\ [ClientNext]_clientVars => ClientInv'
  BY ClientStepInv
<1>3. ClientInv => ReturnedMeansReleased
  BY DEF ClientInv, Waited, Over, ReturnedMeansReleased
<1> QED
  BY <1>1, <1>2, <1>3, ClientRunsServer, Invariance, PTL DEF ClientSpec

\* Both together keep their types.
THEOREM ClientTypeCorrect == ClientSpec => []ClientTypeOK
<1>1. ClientInit => ClientInv
  BY DEF ClientInit, ClientInv, StartIsAwaited, Waited, ClientPcs, Calls
<1>2. IInv /\ ClientInv /\ [ClientNext]_clientVars => ClientInv'
  BY ClientStepInv
<1>3. IInv /\ ClientInv => ClientTypeOK
  BY DEF IInv, ClientInv, TypeOK, ClientTypeOK, TypeOK, LivePcs, LivePcs,
     Terminal, Terminal
<1> QED
  BY <1>1, <1>2, <1>3, ClientRunsServer, Invariance, PTL DEF ClientSpec
=============================================================================
