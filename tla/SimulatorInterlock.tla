------------------------- MODULE SimulatorInterlock -------------------------
(***************************************************************************)
(* What the simulator's clients rely on, without tasks, heartbeats or      *)
(* callbacks: at most one activity (a foreground operation or one run of a *)
(* background job) holds the simulator, only the holder writes a job's     *)
(* status file, and the write of a terminal status is the moment the run   *)
(* lets go.  RecordingJobs implements this specification.                  *)
(***************************************************************************)
CONSTANTS Jobs, Operations, Runs, None

VARIABLES holders, artifact

Absent == [status |-> "absent", run |-> None]
Status(r, s) == [status |-> s, run |-> r]

Init ==
  /\ holders = {}
  /\ artifact = [j \in Jobs |-> Absent]

BeginOperation(o) ==
  /\ holders = {}
  /\ holders' = {o}
  /\ UNCHANGED artifact

BeginRun(j, r) ==
  /\ holders = {}
  /\ artifact[j] = Absent
  /\ holders' = {r}
  /\ artifact' = [artifact EXCEPT ![j] = Status(r, "running")]

\* The file may have been archived under the holder; it then comes back.
Report(j, r) ==
  /\ r \in holders
  /\ artifact[j] \in {Status(r, "running"), Absent}
  /\ artifact' = [artifact EXCEPT ![j] = Status(r, "running")]
  /\ UNCHANGED holders

Terminalize(j, r) ==
  /\ r \in holders
  /\ artifact[j] \in {Status(r, "running"), Absent}
  /\ \E s \in {"complete", "error"} :
       artifact' = [artifact EXCEPT ![j] = Status(r, s)]
  /\ holders' = holders \ {r}

\* An operation ends, or a run ends without a terminal status (it was cancelled
\* before it began, its status write failed, or the server died).
Abandon(a) ==
  /\ a \in holders
  /\ holders' = holders \ {a}
  /\ UNCHANGED artifact

Archive(j) ==
  /\ artifact[j].status \in {"running", "error"}
  /\ artifact' = [artifact EXCEPT ![j] = Absent]
  /\ UNCHANGED holders

Next ==
  \/ \E o \in Operations : BeginOperation(o)
  \/ \E j \in Jobs, r \in Runs : BeginRun(j, r) \/ Report(j, r) \/ Terminalize(j, r)
  \/ \E a \in Operations \cup Runs : Abandon(a)
  \/ \E j \in Jobs : Archive(j)

Spec == Init /\ [][Next]_<<holders, artifact>>
=============================================================================
