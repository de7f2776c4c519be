--------------------------- MODULE RecordingJobs ---------------------------
(***************************************************************************)
(* sim/recording_jobs.py: the RecordingJobManager that lives in the Isaac  *)
(* Python server.  Its methods run on one asyncio loop, so an action below *)
(* is what happens between two awaits; other requests, the background task *)
(* of a job, its heartbeat task and the done callback interleave.          *)
(*                                                                         *)
(* A job (recording id) has one status file, replaced atomically.  Every   *)
(* start of a job gets a fresh run id (uuid4): Runs is the supply of run   *)
(* ids, and bounds how many background tasks a behaviour starts.           *)
(* Outside the server, an operator may quarantine the file of a job that   *)
(* failed or went silent (ops/aws.sh), and the server process may die.     *)
(***************************************************************************)

CONSTANTS
  Jobs,              \* recording ids, "control-<session>" ids
  Operations,        \* ids of foreground operations (run_exclusive)
  Runs,              \* run ids
  None,              \* Python's None
  DiskMayFail,       \* a status write may raise OSError
  ServerMayRestart   \* the server process may die and come back

ASSUME ConstantsAssumption ==
  /\ Jobs \cap Operations = {}
  /\ None \notin Jobs \cup Operations \cup Runs
  /\ DiskMayFail \in BOOLEAN
  /\ ServerMayRestart \in BOOLEAN

VARIABLES
  active,            \* _active_operation_id
  tasks,             \* _tasks: the run whose asyncio task a job id maps to
  runIds,            \* _run_ids
  foreground,        \* which run_exclusive bodies are suspended in an await
  pc,                \* where the task of a run is in _run
  job,               \* the recording id a run was started for
  cancelRequested,   \* task.cancel() was called on the run's task
  beat,              \* the heartbeat task of a run
  file,              \* the status files, as every process sees them
  quarantining       \* the job an operator has found quarantinable

manager == <<active, tasks, runIds>>
run     == <<pc, job, cancelRequested, beat>>
vars    == <<manager, foreground, run, file, quarantining>>

Absent   == [status |-> "absent", run |-> None, fresh |-> FALSE]
Terminal == {"complete", "error"}

\* A run between start() and the end of its task; "completing" and "failing"
\* are the finally block of _run with the payload it is going to write.
LivePcs == {"scheduled", "factory", "completing", "failing"}
Live(r) == pc[r] \in LivePcs

\* _write: the file of j now carries this status, run id and a new timestamp.
Write(j, r, status) ==
  file' = [file EXCEPT ![j] = [status |-> status, run |-> r, fresh |-> TRUE]]

Release(id) == active' = IF active = id THEN None ELSE active

Init ==
  /\ active = None
  /\ tasks = [j \in Jobs |-> None]
  /\ runIds = [j \in Jobs |-> None]
  /\ foreground = {}
  /\ pc = [r \in Runs |-> "unused"]
  /\ job = [r \in Runs |-> None]
  /\ cancelRequested = [r \in Runs |-> FALSE]
  /\ beat = [r \in Runs |-> "none"]
  /\ file = [j \in Jobs |-> Absent]
  /\ quarantining = None

(***************************************************************************)
(* Foreground operations.  run_exclusive_sync claims and releases within   *)
(* one loop step, so it is a stuttering step guarded like RunExclusive.    *)
(***************************************************************************)
\* Mutant: the claim is taken without looking at the present owner.
RunExclusive_Unguarded(o) ==
  /\ active' = o
  /\ foreground' = foreground \cup {o}
  /\ UNCHANGED <<tasks, runIds, run, file, quarantining>>

RunExclusive(o) ==
  /\ active = None
  /\ active' = o
  /\ foreground' = foreground \cup {o}
  /\ UNCHANGED <<tasks, runIds, run, file, quarantining>>

\* The awaited operation returned, raised or was cancelled: finally releases.
EndExclusive(o) ==
  /\ o \in foreground
  /\ foreground' = foreground \ {o}
  /\ Release(o)
  /\ UNCHANGED <<tasks, runIds, run, file, quarantining>>

(***************************************************************************)
(* Background jobs.                                                        *)
(***************************************************************************)
\* Mutant: start() does not look for an existing status file.
Start_OverExisting(j, r) ==
  /\ active = None
  /\ pc[r] = "unused"
  /\ active' = j
  /\ tasks' = [tasks EXCEPT ![j] = r]
  /\ runIds' = [runIds EXCEPT ![j] = r]
  /\ pc' = [pc EXCEPT ![r] = "scheduled"]
  /\ job' = [job EXCEPT ![r] = j]
  /\ Write(j, r, "running")
  /\ UNCHANGED <<foreground, cancelRequested, beat, quarantining>>

Start(j, r) ==
  /\ file[j].status = "absent"
  /\ active = None
  /\ pc[r] = "unused"
  /\ active' = j
  /\ tasks' = [tasks EXCEPT ![j] = r]
  /\ runIds' = [runIds EXCEPT ![j] = r]
  /\ pc' = [pc EXCEPT ![r] = "scheduled"]
  /\ job' = [job EXCEPT ![r] = j]
  /\ Write(j, r, "running")
  /\ UNCHANGED <<foreground, cancelRequested, beat, quarantining>>

\* The first status write raises: the run id and the claim are given back.
StartFails(j) ==
  /\ DiskMayFail
  /\ file[j].status = "absent"
  /\ active = None
  /\ runIds' = [runIds EXCEPT ![j] = None]
  /\ UNCHANGED <<active, tasks, foreground, run, file, quarantining>>

\* The loop's first step of the task.  A task cancelled before it never enters
\* _run: no heartbeat, no status write, only the done callback.
FirstStep(r) ==
  /\ pc[r] = "scheduled"
  /\ IF cancelRequested[r]
     THEN pc' = [pc EXCEPT ![r] = "done"] /\ UNCHANGED beat
     ELSE /\ pc' = [pc EXCEPT ![r] = "factory"]
          /\ beat' = [beat EXCEPT ![r] = "beating"]
  /\ UNCHANGED <<manager, foreground, job, cancelRequested, file, quarantining>>

\* heartbeat.cancel(): a heartbeat that already died stays dead.
StopHeartbeat(r) ==
  beat' = [beat EXCEPT ![r] = IF @ = "beating" THEN "cancelling" ELSE @]

LeaveFactory(r, payload) ==
  /\ pc[r] = "factory"
  /\ pc' = [pc EXCEPT ![r] = payload]
  /\ StopHeartbeat(r)
  /\ UNCHANGED <<manager, foreground, job, cancelRequested, file, quarantining>>

\* A pending cancellation is raised at the factory's next await, so a factory
\* returns only when none is pending; its cleanup may raise something else.
FactoryReturns(r)   == ~cancelRequested[r] /\ LeaveFactory(r, "completing")
FactoryRaises(r)    == LeaveFactory(r, "failing")
FactoryCancelled(r) == cancelRequested[r] /\ LeaveFactory(r, "failing")

\* The rest of _run after the heartbeat has been awaited: the terminal write
\* and the release, with no await in between.  A cancellation that arrives
\* while the heartbeat is awaited is swallowed with the heartbeat's own.
Terminalize(r) ==
  /\ pc[r] \in {"completing", "failing"}
  /\ beat[r] = "cancelling"
  /\ Write(job[r], r, IF pc[r] = "completing" THEN "complete" ELSE "error")
  /\ Release(job[r])
  /\ pc' = [pc EXCEPT ![r] = "done"]
  /\ beat' = [beat EXCEPT ![r] = "none"]
  /\ UNCHANGED <<tasks, runIds, foreground, job, cancelRequested, quarantining>>

\* Awaiting a heartbeat that died re-raises its OSError, and the terminal write
\* may raise one itself: the task ends without a terminal file or a release.
TerminalizeFails(r) ==
  /\ pc[r] \in {"completing", "failing"}
  /\ beat[r] = "dead" \/ DiskMayFail
  /\ pc' = [pc EXCEPT ![r] = "done"]
  /\ beat' = [beat EXCEPT ![r] = "none"]
  /\ UNCHANGED <<manager, foreground, job, cancelRequested, file, quarantining>>

\* Mutant: the callback leaves the claim to _run.
Forget_KeepsClaim(r) ==
  /\ pc[r] = "done"
  /\ pc' = [pc EXCEPT ![r] = "forgotten"]
  /\ IF tasks[job[r]] = r
     THEN /\ tasks' = [tasks EXCEPT ![job[r]] = None]
          /\ runIds' = [runIds EXCEPT ![job[r]] = None]
     ELSE UNCHANGED <<tasks, runIds>>
  /\ UNCHANGED <<active, foreground, job, cancelRequested, beat, file, quarantining>>

\* The done callback.  It acts only for the task the id still maps to.
Forget(r) ==
  /\ pc[r] = "done"
  /\ pc' = [pc EXCEPT ![r] = "forgotten"]
  /\ IF tasks[job[r]] = r
     THEN /\ tasks' = [tasks EXCEPT ![job[r]] = None]
          /\ runIds' = [runIds EXCEPT ![job[r]] = None]
          /\ Release(job[r])
     ELSE UNCHANGED manager
  /\ UNCHANGED <<foreground, job, cancelRequested, beat, file, quarantining>>

\* One turn of _heartbeat: it writes, or dies with the write's OSError.
Heartbeat(r) ==
  /\ beat[r] = "beating"
  /\ \/ Write(job[r], r, "running") /\ UNCHANGED beat
     \/ DiskMayFail /\ beat' = [beat EXCEPT ![r] = "dead"] /\ UNCHANGED file
  /\ UNCHANGED <<manager, foreground, pc, job, cancelRequested, quarantining>>

\* progress(), which only the factory of the job calls.
Progress(r) ==
  /\ pc[r] = "factory"
  /\ tasks[job[r]] # None
  /\ Write(job[r], runIds[job[r]], "running")
  /\ UNCHANGED <<manager, foreground, run, quarantining>>

\* cancel(): answered "cancelling" while the task is not done.
Cancel(j) ==
  /\ tasks[j] # None
  /\ Live(tasks[j])
  /\ cancelRequested' = [cancelRequested EXCEPT ![tasks[j]] = TRUE]
  /\ UNCHANGED <<manager, foreground, pc, job, beat, file, quarantining>>

(***************************************************************************)
(* The server process.                                                     *)
(***************************************************************************)
\* Mutant: the resident manager is replaced even while it owns an operation.
Reload_Unguarded ==
  /\ active' = None
  /\ tasks' = [j \in Jobs |-> None]
  /\ runIds' = [j \in Jobs |-> None]
  /\ UNCHANGED <<foreground, run, file, quarantining>>

\* reload_demo_runtime: a new manager replaces the resident one, unless that
\* one owns an operation.  Callbacks of the old manager no longer matter.
Reload ==
  /\ active = None
  /\ tasks' = [j \in Jobs |-> None]
  /\ runIds' = [j \in Jobs |-> None]
  /\ UNCHANGED <<active, foreground, run, file, quarantining>>

Restart ==
  /\ ServerMayRestart
  /\ active' = None
  /\ tasks' = [j \in Jobs |-> None]
  /\ runIds' = [j \in Jobs |-> None]
  /\ foreground' = {}
  /\ pc' = [r \in Runs |-> IF pc[r] = "unused" THEN "unused" ELSE "forgotten"]
  /\ beat' = [r \in Runs |-> "none"]
  /\ UNCHANGED <<job, cancelRequested, file, quarantining>>

(***************************************************************************)
(* Outside the server.                                                     *)
(***************************************************************************)
\* 30 s pass without a write.  A working heartbeat writes every 5 s.
GoSilent(j) ==
  /\ file[j].status = "running"
  /\ file[j].fresh
  /\ \A r \in Runs : Live(r) /\ job[r] = j => beat[r] = "dead"
  /\ file' = [file EXCEPT ![j] = [status |-> "running", run |-> @.run, fresh |-> FALSE]]
  /\ UNCHANGED <<manager, foreground, run, quarantining>>

running_job_is_stale(j) == file[j].status = "running" /\ ~file[j].fresh
job_is_quarantinable(j) == file[j].status = "error" \/ running_job_is_stale(j)

\* demo-quarantine-partial-recording reads the file, then moves it away.
FindQuarantinable(j) ==
  /\ quarantining = None
  /\ job_is_quarantinable(j)
  /\ quarantining' = j
  /\ UNCHANGED <<manager, foreground, run, file>>

Quarantine(j) ==
  /\ quarantining = j
  /\ quarantining' = None
  /\ file' = [file EXCEPT ![j] = Absent]
  /\ UNCHANGED <<manager, foreground, run>>

Task(r) ==
  \/ FirstStep(r)
  \/ FactoryReturns(r) \/ FactoryRaises(r) \/ FactoryCancelled(r)
  \/ Terminalize(r) \/ TerminalizeFails(r)
  \/ Forget(r)
  \/ Heartbeat(r) \/ Progress(r)

Next ==
  \/ \E o \in Operations : RunExclusive(o) \/ EndExclusive(o)
  \/ \E j \in Jobs, r \in Runs : Start(j, r)
  \/ \E j \in Jobs : StartFails(j) \/ Cancel(j)
  \/ \E r \in Runs : Task(r)
  \/ Reload \/ Restart
  \/ \E j \in Jobs : GoSilent(j) \/ FindQuarantinable(j) \/ Quarantine(j)

Spec == Init /\ [][Next]_vars

\* The loop keeps turning: a task that is ready runs, a pending cancellation is
\* delivered, the heartbeat's cancellation ends its await.  Nothing is assumed
\* of a factory that was not cancelled, nor of foreground operations.
Fairness ==
  \A r \in Runs :
    /\ WF_vars(FirstStep(r))
    /\ WF_vars(FactoryCancelled(r))
    /\ WF_vars(Terminalize(r) \/ TerminalizeFails(r))
    /\ WF_vars(Forget(r))

FairSpec == Spec /\ Fairness

-----------------------------------------------------------------------------
(***************************************************************************)
(* Properties                                                              *)
(***************************************************************************)
\* Every variable has its type.
TypeOK ==
  /\ active \in Jobs \cup Operations \cup {None}
  /\ tasks \in [Jobs -> Runs \cup {None}]
  /\ runIds \in [Jobs -> Runs \cup {None}]
  /\ foreground \subseteq Operations
  /\ pc \in [Runs -> LivePcs \cup {"unused", "done", "forgotten"}]
  /\ job \in [Runs -> Jobs \cup {None}]
  /\ cancelRequested \in [Runs -> BOOLEAN]
  /\ beat \in [Runs -> {"none", "beating", "cancelling", "dead"}]
  /\ file \in [Jobs -> [status : Terminal \cup {"absent", "running"},
                        run : Runs \cup {None}, fresh : BOOLEAN]]
  /\ quarantining \in Jobs \cup {None}

\* The simulator is driven by one operation at a time: two background tasks, two
\* foreground bodies, or one of each, are never suspended in their bodies
\* together, although claims, cancellations, done callbacks of earlier runs,
\* reloads and restarts interleave (the interlock of recording_jobs.py:57-97).
OneOperation ==
  /\ \A r, s \in Runs : Live(r) /\ Live(s) => r = s
  /\ \A o, p \in foreground : o = p
  /\ foreground # {} => \A r \in Runs : ~Live(r)

\* A live task stays reachable through the manager: its id is the one that owns
\* the simulator, cancel() finds it under that id, and progress() stamps its
\* run id.  A reload or the callback of an earlier run never orphans it.
LiveRunIsRegistered ==
  \A r \in Runs : Live(r) => /\ active = job[r]
                             /\ tasks[job[r]] = r
                             /\ runIds[job[r]] = r

\* A claim has an owner that will give it back: a foreground body still
\* running, or a task whose done callback is still to come.  Otherwise every
\* later operation of this server would be refused.
ClaimHasOwner ==
  /\ active \in Operations => active \in foreground
  /\ active \in Jobs => \E r \in Runs : /\ tasks[active] = r
                                        /\ job[r] = active
                                        /\ Live(r) \/ pc[r] = "done"

\* "A terminal artifact means the simulator operation is over": a client that
\* reads a terminal status finds the claim of that job released and no task of
\* it at work (recording_jobs.py:224-226).
TerminalMeansOver ==
  \A j \in Jobs : file[j].status \in Terminal =>
    /\ active # j
    /\ \A r \in Runs : Live(r) => job[r] # j

\* While a run is live its job's status file, unless quarantined under it,
\* carries its run id and "running": no leftover of an earlier run.
ArtifactIsOwn ==
  \A r \in Runs : Live(r) =>
    \/ file[job[r]].status = "absent"
    \/ file[job[r]].status = "running" /\ file[job[r]].run = r

\* A terminal status is final: no late heartbeat or progress of its own or of
\* another run overwrites it; only an "error" may be quarantined.
TerminalIsFinal ==
  [][\A j \in Jobs :
       /\ file[j].status = "complete" => file'[j] = file[j]
       /\ file[j].status = "error" => file'[j] \in {file[j], Absent}]_vars

\* Cancelling a job gives the simulator back: its task ends and, unless
\* another run of the job owns it by now, the claim is released, wherever in its
\* life the cancellation caught the task.
CancelReleases ==
  \A r \in Runs, j \in Jobs :
    cancelRequested[r] /\ job[r] = j ~> ~Live(r) /\ (active = j => tasks[j] \notin {r, None})

\* The manager, its callbacks and the processes around it implement the
\* interlock their clients rely on.
Interlock == INSTANCE SimulatorInterlock WITH
  holders  <- foreground \cup {r \in Runs : Live(r)},
  artifact <- [j \in Jobs |-> [status |-> file[j].status, run |-> file[j].run]]

ImplementsInterlock == Interlock!Spec
=============================================================================
