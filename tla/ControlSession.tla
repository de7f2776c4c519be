--------------------------- MODULE ControlSession ---------------------------
(***************************************************************************)
(* sim/control_session.py: one control step of the robot is a directory of *)
(* JSON files that several processes fill in.  The Isaac server captures   *)
(* the observation (request.json, then state.json), evaluates direct       *)
(* proposals without motion (direct_safety.json), binds trials to the      *)
(* evaluated source (insertion_trial_binding.json), claims the execution   *)
(* (execution.json, created exclusively) and records its result            *)
(* (result.json).  Responder processes write the worker's proposal         *)
(* (response.json).                                                        *)
(*                                                                         *)
(* Each file is replaced atomically, but nothing spans two files: the      *)
(* server may die between two writing, and a responder acts between any two *)
(* of them.  Server code runs on one loop; capture, evaluation, follow-up  *)
(* binding and apply exclude one another (RecordingJobs!OneOperation),     *)
(* preparing and persisting a response run in any await of theirs.         *)
(* A proposal stands for the actions and the identity of the model output. *)
(***************************************************************************)
EXTENDS Sequences, Naturals

CONSTANTS
  Sessions,
  Proposals,
  Responders,        \* control_response_cli processes
  Policy,            \* ControlExecutionPolicy of each session
  None,
  ServerMayCrash

Policies   == {"direct", "baseline", "evaluation", "measurement", "reset_trial", "followup_trial"}
Trials     == {"reset_trial", "followup_trial"}    \* is_insertion_trial_execution_policy
Restricted == {"evaluation", "measurement"}        \* diagnostics without actuation

Verdict == [proposal : Proposals, passed : BOOLEAN]
Binding == [source : Sessions, proposal : Proposals]

ASSUME SessionAssumption ==
  /\ Policy \in [Sessions -> Policies]
  /\ None \notin Sessions \cup Proposals \cup Verdict \cup Binding
  /\ ServerMayCrash \in BOOLEAN

VARIABLES
  request, state,    \* sessions with a request.json, a state.json
  response,          \* response.json: the proposal to act on
  safety,            \* direct_safety.json: the proposal evaluated, and the verdict
  binding,           \* insertion_trial_binding.json: source session and its proposal
  execution,         \* sessions with an execution.json
  result,            \* result.json: status and the proposal acted on
  commanded,         \* the motion commands the robot was given for a session
  operation,         \* the operation that owns the simulator
  writing,           \* the next of a synchronous sequence of writes of the server
  prepared,          \* _PREPARED_SOURCES: source evidence validated before
  responding         \* responder processes between their check and their write

files == <<request, state, response, safety, binding, execution, result>>
vars  == <<files, commanded, operation, writing, prepared, responding>>

Statuses == {"blocked", "applied", "rolled_back", "rollback_failed"}

Init ==
  /\ request = {} /\ state = {} /\ execution = {}
  /\ response = [s \in Sessions |-> None]
  /\ safety = [s \in Sessions |-> None]
  /\ binding = [s \in Sessions |-> None]
  /\ result = [s \in Sessions |-> None]
  /\ commanded = [s \in Sessions |-> <<>>]
  /\ operation = None
  /\ writing = None
  /\ prepared = [s \in Sessions |-> None]
  /\ responding = [p \in Responders |-> None]

(***************************************************************************)
(* What the files of a session say.                                        *)
(***************************************************************************)
Captured(s) == s \in request /\ s \in state                 \* load_capture
Consumed(s) == s \in execution \/ result[s] # None

\* load_insertion_trial_source_evidence: the source was evaluated on the very
\* response it still has, and was never executed.
AuthenticSource(src) ==
  /\ Captured(src)
  /\ ~Consumed(src)
  /\ Policy[src] = "evaluation"
  /\ safety[src] # None
  /\ response[src] = safety[src].proposal

\* load_insertion_trial_binding for the response the session has.
ValidBinding(s) ==
  /\ binding[s] # None
  /\ AuthenticSource(binding[s].source)
  /\ safety[binding[s].source].passed
  /\ binding[s].proposal = safety[binding[s].source].proposal
  /\ response[s] = binding[s].proposal

\* The server runs no other code while it is in a sequence of writes.
ServerIdle == writing = None
Free       == ServerIdle /\ operation = None
Owns(kind, s) ==
  ServerIdle /\ operation # None /\ operation.kind = kind /\ operation.session = s
Begin(kind, s, proposal) ==
  operation' = [kind |-> kind, session |-> s, proposal |-> proposal, moved |-> FALSE]

\* The sequence of writes for s is about to write this file; it ends after
\* state.json, or with a binding goes on to that and to the response it implies.
NextWrite(s, name, bind) == [session |-> s, file |-> name, bind |-> bind]

(***************************************************************************)
(* Capture: the job replays and observes, then write_capture.              *)
(***************************************************************************)
BeginCapture(s) ==
  /\ Free
  /\ Policy[s] # "followup_trial"
  /\ s \notin request
  /\ Begin("capture", s, None)
  /\ UNCHANGED <<files, commanded, writing, prepared, responding>>

\* write_capture: refused when either file exists.
write_capture(s) ==
  /\ s \notin request
  /\ s \notin state
  /\ writing' = NextWrite(s, "request", None)

FinishCapture(s) ==
  /\ Owns("capture", s)
  /\ write_capture(s)
  /\ operation' = None
  /\ UNCHANGED <<files, commanded, prepared, responding>>

WriteRequest ==
  /\ ~ServerIdle
  /\ writing.file = "request"
  /\ request' = request \cup {writing.session}
  /\ writing' = [writing EXCEPT !.file = "state"]
  /\ UNCHANGED <<state, response, safety, binding, execution, result>>
  /\ UNCHANGED <<commanded, operation, prepared, responding>>

WriteState ==
  /\ ~ServerIdle
  /\ writing.file = "state"
  /\ state' = state \cup {writing.session}
  /\ writing' = IF writing.bind = None THEN None ELSE [writing EXCEPT !.file = "binding"]
  /\ UNCHANGED <<request, response, safety, binding, execution, result>>
  /\ UNCHANGED <<commanded, operation, prepared, responding>>

WriteBinding ==
  /\ ~ServerIdle
  /\ writing.file = "binding"
  /\ binding' = [binding EXCEPT ![writing.session] = writing.bind]
  /\ writing' = [writing EXCEPT !.file = "response"]
  /\ UNCHANGED <<request, state, response, safety, execution, result>>
  /\ UNCHANGED <<commanded, operation, prepared, responding>>

\* write_response raises, and the sequence ends, when there is a response.
WriteResponse ==
  /\ ~ServerIdle
  /\ writing.file = "response"
  /\ response' = IF response[writing.session] = None
                 THEN [response EXCEPT ![writing.session] = writing.bind.proposal]
                 ELSE response
  /\ writing' = None
  /\ UNCHANGED <<request, state, safety, binding, execution, result>>
  /\ UNCHANGED <<commanded, operation, prepared, responding>>

(***************************************************************************)
(* Responses.                                                              *)
(***************************************************************************)
\* control_response_cli does not look at the policy; only a baseline session
\* expects a proposal that no worker has.
Answered == Policies \ {"baseline"}

\* Mutant: an existing capture is not required.
RespondCheck_Uncaptured(p, s, v) ==
  /\ responding[p] = None
  /\ Policy[s] \in Answered
  /\ response[s] = None
  /\ responding' = [responding EXCEPT ![p] = [session |-> s, proposal |-> v]]
  /\ UNCHANGED <<files, commanded, operation, writing, prepared>>

\* control_response_cli: write_response checks in one step and writes in another.
RespondCheck(p, s, v) ==
  /\ responding[p] = None
  /\ Policy[s] \in Answered
  /\ response[s] = None
  /\ Captured(s)
  /\ responding' = [responding EXCEPT ![p] = [session |-> s, proposal |-> v]]
  /\ UNCHANGED <<files, commanded, operation, writing, prepared>>

RespondWrite(p) ==
  /\ responding[p] # None
  /\ response' = [response EXCEPT ![responding[p].session] = responding[p].proposal]
  /\ responding' = [responding EXCEPT ![p] = None]
  /\ UNCHANGED <<request, state, safety, binding, execution, result>>
  /\ UNCHANGED <<commanded, operation, writing, prepared>>

ResponderDies(p) ==
  /\ responding[p] # None
  /\ responding' = [responding EXCEPT ![p] = None]
  /\ UNCHANGED <<files, commanded, operation, writing, prepared>>

persist_baseline_response(s, v) ==
  /\ ServerIdle
  /\ Policy[s] = "baseline"
  /\ Captured(s)
  /\ response[s] = None
  /\ response' = [response EXCEPT ![s] = v]
  /\ UNCHANGED <<request, state, safety, binding, execution, result>>
  /\ UNCHANGED <<commanded, operation, writing, prepared, responding>>

(***************************************************************************)
(* Direct safety of a proposal, evaluated on the live state.               *)
(***************************************************************************)
BeginEvaluate(s) ==
  /\ Free
  /\ Captured(s)
  /\ response[s] # None
  /\ Policy[s] = "evaluation"
  /\ Begin("evaluate", s, response[s])
  /\ UNCHANGED <<files, commanded, writing, prepared, responding>>

\* write_direct_safety, after the await: the evidence must be of the response
\* the session has now.
FinishEvaluate(s, passed) ==
  /\ Owns("evaluate", s)
  /\ ~Consumed(s)
  /\ safety[s] = None
  /\ response[s] = operation.proposal
  /\ safety' = [safety EXCEPT ![s] = [proposal |-> operation.proposal, passed |-> passed]]
  /\ operation' = None
  /\ UNCHANGED <<request, state, response, binding, execution, result>>
  /\ UNCHANGED <<commanded, writing, prepared, responding>>

(***************************************************************************)
(* Trials: a response that repeats an evaluated proposal.                  *)
(***************************************************************************)
\* prepare_insertion_trial_source retains the evidence before it looks at the
\* verdict.
prepare_insertion_trial_source(src) ==
  /\ ServerIdle
  /\ AuthenticSource(src)
  /\ prepared' = [prepared EXCEPT ![src] = safety[src]]
  /\ UNCHANGED <<files, commanded, operation, writing, responding>>

\* _PREPARED_SOURCES.consume: evidence is used once, and reloaded without it.
Evidence(src) == IF prepared[src] # None THEN prepared[src] ELSE safety[src]
Consume(src) ==
  /\ prepared[src] # None \/ AuthenticSource(src)
  /\ prepared' = [prepared EXCEPT ![src] = None]

\* build_insertion_trial_response and the validation of its binding.
Bindable(src) ==
  /\ Captured(src)
  /\ Policy[src] = "evaluation"
  /\ Evidence(src).passed

BindingOf(src) == [source |-> src, proposal |-> Evidence(src).proposal]

\* The source is consumed even when the rest is refused.
persist_insertion_trial_response(s, src) ==
  /\ ServerIdle
  /\ Policy[s] = "reset_trial"
  /\ Consume(src)
  /\ writing' = IF Captured(s) /\ binding[s] = None /\ Bindable(src)
                THEN NextWrite(s, "binding", BindingOf(src)) ELSE None
  /\ UNCHANGED <<files, commanded, operation, responding>>

\* Clones the capture of the source for the execution session and binds it.
persist_insertion_followup_response(s, src) ==
  /\ Free
  /\ Policy[s] = "followup_trial"
  /\ Consume(src)
  /\ writing' = IF s \notin request /\ s \notin state /\ Bindable(src)
                THEN NextWrite(s, "request", BindingOf(src)) ELSE None
  /\ UNCHANGED <<files, commanded, operation, responding>>

(***************************************************************************)
(* apply_control_response: load, claim_execution, act, write_result.       *)
(***************************************************************************)
\* Mutant: a trial executes whatever response it finds beside its binding.
load_AnyResponse(s) ==
  /\ ~Consumed(s)
  /\ Captured(s)
  /\ response[s] # None
  /\ IF Policy[s] \in Trials
     THEN binding[s] # None /\ AuthenticSource(binding[s].source)
     ELSE binding[s] = None

load(s) ==
  /\ ~Consumed(s)
  /\ Captured(s)
  /\ response[s] # None
  /\ IF Policy[s] \in Trials THEN ValidBinding(s) ELSE binding[s] = None

claim_execution(s) ==
  /\ Policy[s] \notin Restricted
  /\ safety[s] = None
  /\ s \notin execution
  /\ execution' = execution \cup {s}

\* Mutant: the claim is left to the end of the execution.
BeginApply_ClaimsLate(s) ==
  /\ Free
  /\ load(s)
  /\ Policy[s] \notin Restricted
  /\ Begin("apply", s, response[s])
  /\ UNCHANGED <<files, commanded, writing, prepared, responding>>

BeginApply(s) ==
  /\ Free
  /\ load(s)
  /\ claim_execution(s)
  /\ Begin("apply", s, response[s])
  /\ UNCHANGED <<request, state, response, safety, binding, result>>
  /\ UNCHANGED <<commanded, writing, prepared, responding>>

\* move_joint_command, after the gate let a projection of the proposal pass.
Command(s) ==
  /\ Owns("apply", s)
  /\ ~operation.moved
  /\ operation' = [operation EXCEPT !.moved = TRUE]
  /\ commanded' = [commanded EXCEPT ![s] = Append(@, operation.proposal)]
  /\ UNCHANGED <<files, writing, prepared, responding>>

\* write_result replaces whatever is there.  An execution that raised before
\* its first command still verifies a rollback.
FinishApply(s, status) ==
  /\ Owns("apply", s)
  /\ status \in IF operation.moved THEN Statuses \ {"blocked"} ELSE Statuses \ {"applied"}
  /\ result' = [result EXCEPT ![s] = [status |-> status, proposal |-> operation.proposal]]
  /\ operation' = None
  /\ UNCHANGED <<request, state, response, safety, binding, execution>>
  /\ UNCHANGED <<commanded, writing, prepared, responding>>

\* An operation raised: a capture or evaluation that failed or is refused, an
\* apply that lost its runtime or its loop between the claim and the result.
OperationFails ==
  /\ ServerIdle
  /\ operation # None
  /\ operation' = None
  /\ UNCHANGED <<files, commanded, writing, prepared, responding>>

\* The server dies, perhaps within a sequence of writes.
Crash ==
  /\ ServerMayCrash
  /\ operation' = None
  /\ writing' = None
  /\ prepared' = [s \in Sessions |-> None]
  /\ UNCHANGED <<files, commanded, responding>>

Next ==
  \/ \E s \in Sessions :
       \/ BeginCapture(s) \/ FinishCapture(s)
       \/ BeginEvaluate(s)
       \/ \E passed \in BOOLEAN : FinishEvaluate(s, passed)
       \/ prepare_insertion_trial_source(s)
       \/ BeginApply(s) \/ Command(s)
       \/ \E status \in Statuses : FinishApply(s, status)
  \/ \E s \in Sessions, v \in Proposals : persist_baseline_response(s, v)
  \/ \E s, src \in Sessions :
       persist_insertion_trial_response(s, src) \/ persist_insertion_followup_response(s, src)
  \/ \E p \in Responders :
       \/ \E s \in Sessions, v \in Proposals : RespondCheck(p, s, v)
       \/ RespondWrite(p) \/ ResponderDies(p)
  \/ WriteRequest \/ WriteState \/ WriteBinding \/ WriteResponse
  \/ OperationFails \/ Crash

Spec == Init /\ [][Next]_vars

-----------------------------------------------------------------------------
(***************************************************************************)
(* Properties                                                              *)
(***************************************************************************)
Writings == [session : Sessions, file : {"request", "state", "binding", "response"},
             bind : Binding \cup {None}]
Operations == [kind : {"capture", "evaluate", "apply"}, session : Sessions,
               proposal : Proposals \cup {None}, moved : BOOLEAN]

\* Every variable has its type.
TypeOK ==
  /\ request \subseteq Sessions /\ state \subseteq Sessions /\ execution \subseteq Sessions
  /\ response \in [Sessions -> Proposals \cup {None}]
  /\ safety \in [Sessions -> Verdict \cup {None}]
  /\ binding \in [Sessions -> Binding \cup {None}]
  /\ result \in [Sessions -> [status : Statuses, proposal : Proposals] \cup {None}]
  /\ commanded \in [Sessions -> Seq(Proposals)]
  /\ operation \in Operations \cup {None}
  /\ writing \in Writings \cup {None}
  /\ prepared \in [Sessions -> Verdict \cup {None}]
  /\ responding \in [Responders -> [session : Sessions, proposal : Proposals] \cup {None}]

\* "Every session is single-use": whatever crashes, repeated applies and failed
\* operations do, the robot is commanded at most once for a session, and never
\* without the claim on disk.
SingleUse ==
  \A s \in Sessions : Len(commanded[s]) <= 1 /\ (commanded[s] # <<>> => s \in execution)

\* "restricted insertion diagnostic sessions cannot be executed": nor can a
\* session with safety evidence, wherever the evaluation is when apply is called.
DiagnosticsNeverApplied ==
  \A s \in Sessions : Policy[s] \in Restricted \/ safety[s] # None =>
    commanded[s] = <<>> /\ s \notin execution

\* A trial moves the robot only by the proposal its source session was found
\* safe with, although the source's response may have been replaced since it
\* was evaluated or since its evidence was cached.
TrialActsOnSafeSource ==
  \A s \in Sessions : Policy[s] \in Trials /\ commanded[s] # <<>> =>
    /\ binding[s] # None
    /\ safety[binding[s].source] = [proposal |-> commanded[s][1], passed |-> TRUE]
    /\ commanded[binding[s].source] = <<>>

\* The files of a session form a chain, cut anywhere by a crash: evidence and
\* results never outlive what they are about.
EvidenceHasGround ==
  \A s \in Sessions :
    /\ s \in state => s \in request
    /\ response[s] # None \/ binding[s] # None \/ safety[s] # None => Captured(s)
    /\ s \in execution => response[s] # None
    /\ result[s] # None => /\ s \in execution
                           /\ result[s].status = "applied" => commanded[s] = <<result[s].proposal>>
                           /\ result[s].status = "blocked" => commanded[s] = <<>>

\* A recorded outcome is final: no repeated apply, late operation or restart
\* replaces it.
ResultIsFinal ==
  [][\A s \in Sessions : result[s] # None => result'[s] = result[s]]_vars
=============================================================================
