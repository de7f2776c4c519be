--------------------------- MODULE ControlWorker ---------------------------
(***************************************************************************)
(* The resident inference worker.  ops/jepa_wm.sh starts, stops and asks   *)
(* about one process of jepa_wm/control_server.py through three files: its *)
(* socket, its pid and the name of the artifact manifest it was started    *)
(* with (jepa_wm/worker_artifacts.py).  Nothing locks them: two commands   *)
(* may overlap, a command may be cut off, a worker may load for longer     *)
(* than its start waits and linger after it was killed, a manifest may be  *)
(* rewritten under a worker, and the pid of a dead one be given to another *)
(* process.                                                                *)
(*                                                                         *)
(* The clients (jepa_wm/control_client.py) only see the socket, so what    *)
(* they rely on is the worker's own check of each request                  *)
(* (jepa_wm/control_worker.py).  Artifacts are reduced to the proposal and *)
(* to the adapter, which stands for the calibration and the planner too.   *)
(***************************************************************************)
CONSTANTS
  Names,             \* artifact manifests
  Proposals, Adapters,
  Workers,           \* process ids of the servers that may be started
  Commands,          \* processes of control-worker-start and -stop
  Sessions,
  ExpectedProposal,  \* expected_proposal of a session's request.json
  ObservationId,     \* not unique: a replay's is chosen by its caller
  None

Artifacts == [proposal : Proposals, adapter : Adapters]

ASSUME WorkerAssumption ==
  /\ ExpectedProposal \in [Sessions -> Proposals]
  /\ None \notin Workers \cup Names \cup Adapters \cup Artifacts

VARIABLES
  manifest,          \* <name>.worker.json
  life,              \* of each worker process
  name,              \* the manifest a worker was started with
  loaded,            \* what it read from it
  cache,             \* _latest: the direct answer whose encodings it keeps
  socket,            \* the worker that bound the socket file, if it exists
  pidFile, artifactsFile,
  command,           \* where each start or stop is
  call,              \* a client's exchange for a session
  direct, shadow,    \* response.json and shadow.json of a session
  disturbances       \* what happened that the commands do not guard against

files   == <<socket, pidFile, artifactsFile>>
workers == <<life, name, loaded, cache>>
clients == <<call, direct, shadow>>
workerVars == <<manifest, workers, files, command, clients, disturbances>>

Idle == [at |-> "idle", name |-> None, pid |-> None]

WorkerInit ==
  /\ manifest \in [Names -> Artifacts]
  /\ life = [w \in Workers |-> "none"]
  /\ name = [w \in Workers |-> None]
  /\ loaded = [w \in Workers |-> None]
  /\ cache = [w \in Workers |-> None]
  /\ socket = None /\ pidFile = None /\ artifactsFile = None
  /\ command = [c \in Commands |-> Idle]
  /\ call = [s \in Sessions |-> None]
  /\ direct = [s \in Sessions |-> None]
  /\ shadow = [s \in Sessions |-> None]
  /\ disturbances = {}

\* kill -0: also true of a process that does not die, and of a foreign one.
Alive(w) == life[w] \in {"loading", "serving", "dying", "foreign"}

PidIsAlive == pidFile # None /\ Alive(pidFile)

control_worker_is_running == socket # None /\ artifactsFile # None /\ PidIsAlive

(***************************************************************************)
(* Manifests.                                                              *)
(***************************************************************************)
\* configure_control_worker and rebase_control_worker_proposal replace a
\* manifest whether or not a worker was started with it.
Configure(n, artifacts) ==
  /\ manifest' = [manifest EXCEPT ![n] = artifacts]
  /\ UNCHANGED <<workers, files, command, clients, disturbances>>

(***************************************************************************)
(* Commands.  Their checks are one step each, and so is one rm.            *)
(***************************************************************************)
Goto(c, at) == command' = [command EXCEPT ![c].at = at]
Quit(c)     == command' = [command EXCEPT ![c] = Idle]
Disturb(d)  == disturbances' = disturbances \cup {d}

\* A command that is going to change something while another one does.
Enter(c, at, n, pid) ==
  /\ command[c] = Idle
  /\ command' = [command EXCEPT ![c] = [at |-> at, name |-> n, pid |-> pid]]
  /\ IF \E d \in Commands \ {c} : command[d] # Idle
     THEN Disturb("overlap") ELSE UNCHANGED disturbances

\* Mutant: a start replaces whatever is not ready.
BeginStart_Impatient(c, n) ==
  /\ ~control_worker_is_running
  /\ Enter(c, "clean", n, None)
  /\ UNCHANGED <<manifest, workers, files, clients>>

\* start_control_worker: a live process with incomplete files, or a ready
\* worker with another manifest, is an error; a ready worker with this one is
\* good.  All three leave everything as it is.
BeginStart(c, n) ==
  /\ ~PidIsAlive
  /\ Enter(c, "clean", n, None)
  /\ UNCHANGED <<manifest, workers, files, clients>>

Clean(c) ==
  /\ command[c].at = "clean"
  /\ socket' = None /\ pidFile' = None /\ artifactsFile' = None
  /\ Goto(c, "launch")
  /\ UNCHANGED <<manifest, workers, clients, disturbances>>

Launch(c, w) ==
  /\ command[c].at = "launch"
  /\ life[w] = "none"
  /\ life' = [life EXCEPT ![w] = "loading"]
  /\ name' = [name EXCEPT ![w] = command[c].name]
  /\ command' = [command EXCEPT ![c].at = "pid", ![c].pid = w]
  /\ UNCHANGED <<manifest, loaded, cache, files, clients, disturbances>>

WritePid(c) ==
  /\ command[c].at = "pid"
  /\ pidFile' = command[c].pid
  /\ Goto(c, "artifacts")
  /\ UNCHANGED <<manifest, workers, socket, artifactsFile, clients, disturbances>>

WriteArtifacts(c) ==
  /\ command[c].at = "artifacts"
  /\ artifactsFile' = command[c].name
  /\ Goto(c, "wait")
  /\ UNCHANGED <<manifest, workers, socket, pidFile, clients, disturbances>>

\* The start ends when there is a socket, when its worker is gone, or after a
\* minute: then the files of a worker that still loads stay behind.
EndStart(c) ==
  /\ command[c].at = "wait"
  /\ Quit(c)
  /\ UNCHANGED <<manifest, workers, files, clients, disturbances>>

\* stop_control_worker without a pid file.
StopStopped(c) ==
  /\ pidFile = None
  /\ command[c] = Idle
  /\ socket' = None /\ artifactsFile' = None
  /\ IF \E d \in Commands \ {c} : command[d] # Idle
     THEN Disturb("overlap") ELSE UNCHANGED disturbances
  /\ UNCHANGED <<manifest, workers, pidFile, command, clients>>

BeginStop(c) ==
  /\ pidFile # None
  /\ Enter(c, "kill", None, pidFile)
  /\ UNCHANGED <<manifest, workers, files, clients>>

\* An unexpected process is not killed, and the command gives up.
Kill(c) ==
  /\ command[c].at = "kill"
  /\ LET w == command[c].pid IN
     \/ life[w] = "foreign" /\ Quit(c) /\ UNCHANGED life
     \/ life[w] # "foreign" /\ Alive(w) /\ Goto(c, "drain")
          /\ life' = [life EXCEPT ![w] = "dying"]
     \/ ~Alive(w) /\ Goto(c, "remove") /\ UNCHANGED life
  /\ UNCHANGED <<manifest, name, loaded, cache, files, clients, disturbances>>

\* Waits until the process is gone, or for 5 s: then it goes on all the same.
Drain(c) ==
  /\ command[c].at = "drain"
  /\ IF Alive(command[c].pid) THEN Disturb("linger") ELSE UNCHANGED disturbances
  /\ Goto(c, "remove")
  /\ UNCHANGED <<manifest, workers, files, clients>>

Remove(c) ==
  /\ command[c].at = "remove"
  /\ socket' = None /\ pidFile' = None /\ artifactsFile' = None
  /\ Quit(c)
  /\ UNCHANGED <<manifest, workers, clients, disturbances>>

\* The command's connection is lost or it is killed; nohup protects the worker.
CutOff(c) ==
  /\ command[c] # Idle
  /\ Quit(c)
  /\ Disturb("cut")
  /\ UNCHANGED <<manifest, workers, files, clients>>

(***************************************************************************)
(* The worker process.                                                     *)
(***************************************************************************)
Load(w) ==
  /\ life[w] = "loading"
  /\ loaded[w] = None
  /\ loaded' = [loaded EXCEPT ![w] = manifest[name[w]]]
  /\ UNCHANGED <<manifest, life, name, cache, files, command, clients, disturbances>>

\* ControlUnixServer unlinks any socket there is and binds its own.
Bind(w) ==
  /\ life[w] = "loading"
  /\ loaded[w] # None
  /\ life' = [life EXCEPT ![w] = "serving"]
  /\ socket' = w
  /\ UNCHANGED <<manifest, name, loaded, cache, pidFile, artifactsFile>>
  /\ UNCHANGED <<command, clients, disturbances>>

\* It raises while it loads, is out of memory, or dies of the signal of a stop:
\* none of these unlinks the socket.
Die(w) ==
  /\ life[w] \in {"loading", "serving", "dying"}
  /\ life' = [life EXCEPT ![w] = "dead"]
  /\ UNCHANGED <<manifest, name, loaded, cache, files, command, clients, disturbances>>

\* After a reboot, say, another process has the pid.
ReusePid(w) ==
  /\ life[w] = "dead"
  /\ life' = [life EXCEPT ![w] = "foreign"]
  /\ Disturb("reuse")
  /\ UNCHANGED <<manifest, name, loaded, cache, files, command, clients>>

(***************************************************************************)
(* Clients: infer_control_session and infer_shadow_session.                *)
(***************************************************************************)
Calls == [kind : {"direct", "shadow"}, at : {"connect", "sent"},
          worker : Workers \cup {None}, adapter : Adapters \cup {None}]

Answer(s, w, encoded) ==
  [worker |-> w, proposal |-> loaded[w].proposal, adapter |-> loaded[w].adapter,
   encoded |-> encoded]

\* What a session is answered directly: its worker and its frames identify the
\* control; a second prediction of the same pair differs in its time only.
RequestDirect(s) ==
  /\ call[s] = None /\ direct[s] = None
  /\ control_worker_is_running
  /\ call' = [call EXCEPT ![s] = [kind |-> "direct", at |-> "connect", worker |-> None,
                                  adapter |-> None]]
  /\ UNCHANGED <<manifest, workers, files, command, direct, shadow, disturbances>>

\* The manifest named by the artifacts file says what the shadow plan expects.
RequestShadow(s) ==
  /\ call[s] = None /\ direct[s] # None /\ shadow[s] = None
  /\ control_worker_is_running
  /\ call' = [call EXCEPT ![s] = [kind |-> "shadow", at |-> "connect", worker |-> None,
                                  adapter |-> manifest[artifactsFile].adapter]]
  /\ UNCHANGED <<manifest, workers, files, command, direct, shadow, disturbances>>

Connect(s) ==
  /\ call[s] # None /\ call[s].at = "connect"
  /\ socket # None /\ life[socket] = "serving"
  /\ call' = [call EXCEPT ![s].at = "sent", ![s].worker = socket]
  /\ UNCHANGED <<manifest, workers, files, command, direct, shadow, disturbances>>

\* The connection is refused or reset, the request refused, or the client dies.
CallFails(s) ==
  /\ call[s] # None
  /\ call' = [call EXCEPT ![s] = None]
  /\ UNCHANGED <<manifest, workers, files, command, direct, shadow, disturbances>>

Receives(s, w, kind) ==
  /\ call[s] # None /\ call[s].at = "sent" /\ call[s].kind = kind /\ call[s].worker = w
  /\ life[w] = "serving"

\* Mutant: the worker answers whatever proposal is expected of it.
Predict_AnyProposal(s, w) ==
  /\ Receives(s, w, "direct")
  /\ cache' = [cache EXCEPT ![w] = Answer(s, w, s)]
  /\ \/ direct' = [direct EXCEPT ![s] = Answer(s, w, s)]
     \/ UNCHANGED direct
  /\ call' = [call EXCEPT ![s] = None]
  /\ UNCHANGED <<manifest, life, name, loaded, files, command, shadow, disturbances>>

\* predict; the answer is cached even if the client is no longer there.
Predict(s, w) ==
  /\ Receives(s, w, "direct")
  /\ ExpectedProposal[s] = loaded[w].proposal
  /\ cache' = [cache EXCEPT ![w] = Answer(s, w, s)]
  /\ \/ direct' = [direct EXCEPT ![s] = Answer(s, w, s)]
     \/ UNCHANGED direct
  /\ call' = [call EXCEPT ![s] = None]
  /\ UNCHANGED <<manifest, life, name, loaded, files, command, shadow, disturbances>>

\* Mutant: the encodings are found by observation id alone.
CacheHits_ById(s, w) ==
  /\ cache[w] # None
  /\ ObservationId[cache[w].encoded] = ObservationId[s]

CacheHits(s, w) ==
  /\ cache[w] # None
  /\ ObservationId[cache[w].encoded] = ObservationId[s]
  /\ cache[w] = direct[s]

\* Without the cached encodings the observation is encoded again, which checks
\* its proposal; with them nothing does.
plan_shadow(s, w) ==
  /\ Receives(s, w, "shadow")
  /\ call[s].adapter = loaded[w].adapter
  /\ CacheHits(s, w) \/ ExpectedProposal[s] = loaded[w].proposal
  /\ shadow' = [shadow EXCEPT ![s] =
                  Answer(s, w, IF CacheHits(s, w) THEN cache[w].encoded ELSE s)]
  /\ call' = [call EXCEPT ![s] = None]
  /\ UNCHANGED <<manifest, workers, files, command, direct, disturbances>>

WorkerNext ==
  \/ \E n \in Names, artifacts \in Artifacts : Configure(n, artifacts)
  \/ \E c \in Commands :
       \/ \E n \in Names : BeginStart(c, n)
       \/ Clean(c) \/ WritePid(c) \/ WriteArtifacts(c) \/ EndStart(c)
       \/ \E w \in Workers : Launch(c, w)
       \/ StopStopped(c) \/ BeginStop(c) \/ Kill(c) \/ Drain(c) \/ Remove(c)
       \/ CutOff(c)
  \/ \E w \in Workers : Load(w) \/ Bind(w) \/ Die(w) \/ ReusePid(w)
  \/ \E s \in Sessions :
       \/ RequestDirect(s) \/ RequestShadow(s) \/ Connect(s) \/ CallFails(s)
       \/ \E w \in Workers : Predict(s, w) \/ plan_shadow(s, w)

WorkerSpec == WorkerInit /\ [][WorkerNext]_workerVars

-----------------------------------------------------------------------------
(***************************************************************************)
(* Properties                                                              *)
(***************************************************************************)
Answers == [worker : Workers, proposal : Proposals, adapter : Adapters, encoded : Sessions]
Places  == {"idle", "clean", "launch", "pid", "artifacts", "wait", "kill", "drain", "remove"}

\* Every variable has its type.
WorkerTypeOK ==
  /\ manifest \in [Names -> Artifacts]
  /\ life \in [Workers -> {"none", "loading", "serving", "dying", "dead", "foreign"}]
  /\ name \in [Workers -> Names \cup {None}]
  /\ loaded \in [Workers -> Artifacts \cup {None}]
  /\ cache \in [Workers -> Answers \cup {None}]
  /\ socket \in Workers \cup {None} /\ pidFile \in Workers \cup {None}
  /\ artifactsFile \in Names \cup {None}
  /\ command \in [Commands -> [at : Places, name : Names \cup {None}, pid : Workers \cup {None}]]
  /\ call \in [Sessions -> Calls \cup {None}]
  /\ direct \in [Sessions -> Answers \cup {None}]
  /\ shadow \in [Sessions -> Answers \cup {None}]
  /\ disturbances \subseteq {"overlap", "cut", "linger", "reuse"}

\* Whatever happened to the files, a session's response and its shadow plan come
\* from a worker with the proposal that its observation expects.
AnswerIsExpected ==
  \A s \in Sessions :
    /\ direct[s] # None => direct[s].proposal = ExpectedProposal[s]
    /\ shadow[s] # None => shadow[s].proposal = ExpectedProposal[s]

\* A shadow plan is scored on the frames of its own observation, also when
\* another session's with the same id was the last that its worker encoded.
PlanSeesOwnFrames ==
  \A s \in Sessions : shadow[s] # None => shadow[s].encoded = s

\* As long as no two commands overlapped, none was cut off and no killed worker
\* outlasted the wait for it, stop finds every live worker: a start that gave up
\* on a slow one leaves nothing behind that a later command would not see.
NoOrphan ==
  disturbances \subseteq {"reuse"} /\ (\A c \in Commands : command[c] = Idle) =>
    \A w \in Workers : life[w] \in {"loading", "serving", "dying"} => pidFile = w

\* Ready means what status prints: under the same provisos (and while pids are not
\* reused) the process of the pid file is the one at the socket, started with the
\* manifest that the artifacts file names.
ReadyIsTrue ==
  disturbances = {} /\ control_worker_is_running =>
    /\ socket = pidFile
    /\ name[pidFile] = artifactsFile
=============================================================================
