--------------------------- MODULE CaptureClient ---------------------------
(***************************************************************************)
(* The shell side of a control capture, ops/shell_helpers.sh, composed with *)
(* the job manager of the server.  The orchestrator of a session starts    *)
(* the job "control-<session>" and waits for its status file; at its       *)
(* deadline it cancels the job and waits for the terminal status.          *)
(*                                                                         *)
(* A call is one TCP exchange of code for output (isaac_server_call): once *)
(* sent, the server may run it after the caller has given up, and the      *)
(* caller may give up although the server ran it.  Session ids, and so job *)
(* ids, are not shared: a job id stands for its orchestrator.  No workflow *)
(* quarantines the file of a control capture.                              *)
(***************************************************************************)
EXTENDS RecordingJobs

CONSTANT CallsMayFail      \* a call may be refused or outlive its timeout

ASSUME CallsAssumption == CallsMayFail \in BOOLEAN

VARIABLES client,          \* where the orchestrator of a job is
          inbox            \* calls the server has been sent and not run yet

clientVars == <<vars, client, inbox>>

Calls     == Jobs \X {"start", "cancel"}
ClientPcs == {"idle", "starting", "polling", "cancelling", "cancelSent", "recheck", "settling",
              "unanswered",    \* settling, but the cancellation had no answer
              "succeeded", "failed", "timedOut", "aborted"}

\* control_capture_job_status: "" for a file that does not exist.
status(j)    == file[j].status
Ended(j)     == status(j) \in Terminal
Goto(j, q)   == client' = [client EXCEPT ![j] = q]

\* The reply reaches a caller that still waits for it.
Reply(j, from, to) == client' = [client EXCEPT ![j] = IF @ = from THEN to ELSE @]
Sent(call)         == inbox' = inbox \cup {call}
Served(call)       == call \in inbox /\ inbox' = inbox \ {call}

ClientInit == Init /\ client = [j \in Jobs |-> "idle"] /\ inbox = {}

(***************************************************************************)
(* start_and_wait_control_capture                                          *)
(***************************************************************************)
CallStart(j) ==
  /\ client[j] = "idle"
  /\ Goto(j, "starting")
  /\ Sent(<<j, "start">>)
  /\ UNCHANGED vars

ServeStart(j, r) ==
  /\ Served(<<j, "start">>)
  /\ Start(j, r)
  /\ Reply(j, "starting", "polling")

\* start() raised: the file exists, another operation runs, or the write failed.
RefuseStart(j) ==
  /\ Served(<<j, "start">>)
  /\ \/ (status(j) # "absent" \/ active # None) /\ UNCHANGED vars
     \/ StartFails(j)
  /\ Reply(j, "starting", "aborted")

\* Refused, or 60 s without an answer: under set -e the script ends here.  The
\* server may have the code already.
StartCallFails(j) ==
  /\ CallsMayFail
  /\ client[j] = "starting"
  /\ Goto(j, "aborted")
  /\ inbox' \in {inbox, inbox \ {<<j, "start">>}}
  /\ UNCHANGED vars

\* The server went down with the call: the connection ends without an answer, an
\* empty response shows no error status, and the script goes on to wait.
StartCallLost(j) ==
  /\ client[j] = "starting" /\ <<j, "start">> \notin inbox
  /\ Goto(j, "polling")
  /\ UNCHANGED <<vars, inbox>>

(***************************************************************************)
(* wait_control_capture_job                                                *)
(***************************************************************************)
Poll(j) ==
  /\ client[j] = "polling"
  /\ Ended(j)
  /\ Goto(j, IF status(j) = "complete" THEN "succeeded" ELSE "failed")
  /\ UNCHANGED <<vars, inbox>>

\* Mutant: at the deadline the script waits on without cancelling.
Deadline_NoCancel(j) ==
  /\ client[j] = "polling"
  /\ \A r \in Runs : job[r] = j => pc[r] # "scheduled"
  /\ Goto(j, "settling")
  /\ UNCHANGED <<vars, inbox>>

\* 900 s after the reply to start the loop has given the task its first step.
Deadline(j) ==
  /\ client[j] = "polling"
  /\ \A r \in Runs : job[r] = j => pc[r] # "scheduled"
  /\ Goto(j, "cancelling")
  /\ UNCHANGED <<vars, inbox>>

CallCancel(j) ==
  /\ client[j] = "cancelling"
  /\ Goto(j, "cancelSent")
  /\ Sent(<<j, "cancel">>)
  /\ UNCHANGED vars

ServeCancel(j) ==
  /\ Served(<<j, "cancel">>)
  /\ Cancel(j)
  /\ Reply(j, "cancelSent", "settling")

\* cancel() raised because the task is gone: the reply carries status "error".
RefuseCancel(j) ==
  /\ Served(<<j, "cancel">>)
  /\ tasks[j] # None => ~Live(tasks[j])
  /\ UNCHANGED vars
  /\ Reply(j, "cancelSent", "recheck")

\* The call is the condition of a while loop, where bash ignores -e: a refused
\* or timed-out exchange leaves the response empty, an empty response shows no
\* error status, and isaac_server_call returns 0 like a delivered cancellation.
CancelCallFails(j) ==
  /\ CallsMayFail
  /\ client[j] = "cancelSent"
  /\ Goto(j, "unanswered")
  /\ inbox' \in {inbox, inbox \ {<<j, "cancel">>}}
  /\ UNCHANGED vars

\* Mutant: a refused cancellation is taken to mean that the job is over.
Recheck_TrustsRefusal(j) ==
  /\ client[j] = "recheck"
  /\ Goto(j, "timedOut")
  /\ UNCHANGED <<vars, inbox>>

Recheck(j) ==
  /\ client[j] = "recheck"
  /\ Goto(j, IF Ended(j) THEN "timedOut" ELSE "cancelling")
  /\ UNCHANGED <<vars, inbox>>

Settle(j) ==
  /\ client[j] \in {"settling", "unanswered"}
  /\ Ended(j)
  /\ Goto(j, "timedOut")
  /\ UNCHANGED <<vars, inbox>>

(***************************************************************************)
(* The server's own steps.  A restart drops the calls it had not run.      *)
(***************************************************************************)
ServerStep ==
  /\ \/ \E r \in Runs : Task(r)
     \/ \E o \in Operations : RunExclusive(o) \/ EndExclusive(o)
     \/ Reload
  /\ UNCHANGED <<client, inbox>>

ServerRestart == Restart /\ inbox' = {} /\ UNCHANGED client

ClientStep(j) ==
  \/ CallStart(j) \/ StartCallFails(j) \/ StartCallLost(j)
  \/ Poll(j) \/ Deadline(j)
  \/ CallCancel(j) \/ CancelCallFails(j) \/ Recheck(j) \/ Settle(j)

ClientNext ==
  \/ \E j \in Jobs : ClientStep(j) \/ RefuseStart(j) \/ ServeCancel(j) \/ RefuseCancel(j)
  \/ \E j \in Jobs, r \in Runs : ServeStart(j, r)
  \/ ServerStep \/ ServerRestart

ClientSpec == ClientInit /\ [][ClientNext]_clientVars

\* The server's loop turns (Fairness), runs what it was sent, and the
\* orchestrator's script goes on: it polls every second and watches its clock.
\* Nothing is assumed of the capture itself, which may never finish on its own.
ClientFairness ==
  /\ \A r \in Runs :
       /\ WF_clientVars(FirstStep(r) /\ UNCHANGED <<client, inbox>>)
       /\ WF_clientVars(FactoryCancelled(r) /\ UNCHANGED <<client, inbox>>)
       /\ WF_clientVars((Terminalize(r) \/ TerminalizeFails(r)) /\ UNCHANGED <<client, inbox>>)
       /\ WF_clientVars(Forget(r) /\ UNCHANGED <<client, inbox>>)
  /\ \A j \in Jobs :
       /\ WF_clientVars(ServeCancel(j) \/ RefuseCancel(j))
       /\ WF_clientVars(<<j, "cancel">> \notin inbox /\ CancelCallFails(j))   \* the 60 s pass
       /\ WF_clientVars(Poll(j) \/ Deadline(j))
       /\ WF_clientVars(CallCancel(j))
       /\ WF_clientVars(Recheck(j))
       /\ WF_clientVars(Settle(j))

FairClientSpec == ClientSpec /\ ClientFairness

-----------------------------------------------------------------------------
\* Types of the two variables this module adds.
ClientTypeOK ==
  /\ TypeOK
  /\ client \in [Jobs -> ClientPcs]
  /\ inbox \subseteq Calls

\* A wait that returned, with any status, leaves the simulator to the caller's
\* next call: the capture's task is over and its claim released, even when the
\* wait gave up at the deadline and cancelled (wait_control_capture_job:364-411).
ReturnedMeansReleased ==
  \A j \in Jobs : client[j] \in {"succeeded", "failed", "timedOut"} =>
    /\ active # j
    /\ \A r \in Runs : Live(r) => job[r] # j

\* The server has lost the task, in a restart or to a full disk, and left no
\* terminal status: the orchestrator's loop has no way out, then or later.
RunLost(j) == ~Ended(j) /\ \A r \in Runs : Live(r) => job[r] # j

\* Once its capture is under way the wait ends, whether or not the capture would
\* ever have finished by itself.  The two excuses are the cases the code does not
\* handle: a cancellation the script took for delivered, and a run lost without
\* a terminal status (wait_control_capture_job:364-411).
WaitEnds ==
  \A j \in Jobs : client[j] = "polling" ~>
    \/ client[j] \in {"succeeded", "failed", "timedOut"}
    \/ client[j] = "unanswered" \/ RunLost(j)

=============================================================================
