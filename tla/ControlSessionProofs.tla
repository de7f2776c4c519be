------------------------ MODULE ControlSessionProofs ------------------------
(***************************************************************************)
(* Proofs about ControlSession, for any sessions, policies, proposals and  *)
(* responder processes, with or without crashes of the server; and about   *)
(* PolicyEvidence, the offline experiments that clear those policies.      *)
(***************************************************************************)
EXTENDS ControlSession, PolicyEvidence, TLAPS

(***************************************************************************)
(* The inductive invariant.                                                *)
(***************************************************************************)
\* The files of a session, and a response about to be written, have a capture
\* under them; an execution has a response and a result an execution.
Chain ==
  /\ \A s \in Sessions :
       /\ s \in state => s \in request
       /\ response[s] # None \/ binding[s] # None \/ safety[s] # None => Captured(s)
       /\ s \in execution => response[s] # None
       /\ result[s] # None => s \in execution
  /\ \A p \in Responders : responding[p] # None => Captured(responding[p].session)

\* The claim stands before any command; evaluated sessions are never claimed.
Claims ==
  \A s \in Sessions :
    /\ s \in execution => Policy[s] \notin Restricted /\ safety[s] = None
    /\ safety[s] # None => Policy[s] = "evaluation"
    /\ commanded[s] # <<>> => s \in execution
    /\ commanded[s] = <<>> \/ \E v \in Proposals : commanded[s] = <<v>>

\* The session was bound to a source that was found safe with this proposal.
Grounded(s, v) ==
  binding[s] # None /\ safety[binding[s].source] = [proposal |-> v, passed |-> TRUE]

Grounds ==
  \A s \in Sessions : Policy[s] \in Trials =>
    /\ s \in execution => binding[s] # None
    /\ commanded[s] # <<>> => Grounded(s, commanded[s][1])

Outcomes ==
  \A s \in Sessions : result[s] # None =>
    /\ result[s].status = "applied" => commanded[s] = <<result[s].proposal>>
    /\ result[s].status = "blocked" => commanded[s] = <<>>

\* What the operation that owns the simulator may rely on across its awaits.
Owner ==
  operation # None =>
    /\ operation.kind = "apply" =>
         /\ operation.session \in execution
         /\ result[operation.session] = None
         /\ operation.proposal \in Proposals
         /\ commanded[operation.session] =
              IF operation.moved THEN <<operation.proposal>> ELSE <<>>
         /\ Policy[operation.session] \in Trials =>
              Grounded(operation.session, operation.proposal)
    /\ operation.kind = "evaluate" =>
         /\ Captured(operation.session)
         /\ Policy[operation.session] = "evaluation"
         /\ operation.proposal \in Proposals

\* A sequence of writes fills in files that are not there yet.
Sequence ==
  writing # None =>
    /\ writing.file \in {"request", "state"} => writing.session \notin state
    /\ writing.file = "state" => writing.session \in request
    /\ writing.file \in {"binding", "response"} =>
         writing.bind # None /\ Captured(writing.session)
    /\ writing.bind # None => Policy[writing.session] \in Trials
    /\ writing.bind # None /\ writing.file # "response" => binding[writing.session] = None

IInv == TypeOK /\ Chain /\ Claims /\ Grounds /\ Outcomes /\ Owner /\ Sequence

(***************************************************************************)
(* It holds initially and every action preserves it: a lemma per action.   *)
(***************************************************************************)
LEMMA Initially == Init => IInv
BY SessionAssumption DEF Init, IInv, TypeOK, Chain, Claims, Grounds, Outcomes, Owner, Sequence

LEMMA BeginCaptureStep ==
  ASSUME IInv, NEW s \in Sessions, BeginCapture(s)
  PROVE  IInv'
<1> USE SessionAssumption DEF IInv, files, Captured, Restricted, Trials, Binding, Verdict,
    BeginCapture, Free, ServerIdle, Begin
<1>1. TypeOK'
  BY DEF TypeOK, Chain, Claims, Owner, Sequence, Writings, Operations, Statuses
<1>2. Chain'
  BY DEF TypeOK, Chain, Owner, Sequence
<1>3. Claims'
  BY DEF TypeOK, Chain, Claims, Owner
<1>4. Grounds'
  BY DEF TypeOK, Chain, Claims, Grounds, Grounded, Owner, Sequence
<1>5. Outcomes'
  BY DEF TypeOK, Chain, Claims, Outcomes, Owner
<1>6. Owner'
  BY DEF TypeOK, Chain, Claims, Grounds, Owner, Grounded, Sequence
<1>7. Sequence'
  BY DEF TypeOK, Chain, Claims, Owner, Sequence
<1> QED
  BY <1>1, <1>2, <1>3, <1>4, <1>5, <1>6, <1>7 DEF IInv

LEMMA FinishCaptureStep ==
  ASSUME IInv, NEW s \in Sessions, FinishCapture(s)
  PROVE  IInv'
<1> USE SessionAssumption DEF IInv, files, Captured, Restricted, Trials, Binding, Verdict,
    FinishCapture, Owns, ServerIdle, write_capture, NextWrite
<1>1. TypeOK'
  BY DEF TypeOK, Chain, Claims, Owner, Sequence, Writings, Operations, Statuses
<1>2. Chain'
  BY DEF TypeOK, Chain, Owner, Sequence
<1>3. Claims'
  BY DEF TypeOK, Chain, Claims, Owner
<1>4. Grounds'
  BY DEF TypeOK, Chain, Claims, Grounds, Grounded, Owner, Sequence
<1>5. Outcomes'
  BY DEF TypeOK, Chain, Claims, Outcomes, Owner
<1>6. Owner'
  BY DEF TypeOK, Chain, Claims, Grounds, Owner, Grounded, Sequence
<1>7. Sequence'
  BY DEF TypeOK, Chain, Claims, Owner, Sequence
<1> QED
  BY <1>1, <1>2, <1>3, <1>4, <1>5, <1>6, <1>7 DEF IInv

LEMMA WriteRequestStep ==
  ASSUME IInv, WriteRequest
  PROVE  IInv'
<1> USE SessionAssumption DEF IInv, files, Captured, Restricted, Trials, Binding, Verdict,
    WriteRequest, ServerIdle
<1>1. TypeOK'
  BY DEF TypeOK, Chain, Claims, Owner, Sequence, Writings, Operations, Statuses
<1>2. Chain'
  BY DEF TypeOK, Chain, Owner, Sequence
<1>3. Claims'
  BY DEF TypeOK, Chain, Claims, Owner
<1>4. Grounds'
  BY DEF TypeOK, Chain, Claims, Grounds, Grounded, Owner, Sequence
<1>5. Outcomes'
  BY DEF TypeOK, Chain, Claims, Outcomes, Owner
<1>6. Owner'
  BY DEF TypeOK, Chain, Claims, Grounds, Owner, Grounded, Sequence
<1>7. Sequence'
  BY DEF TypeOK, Chain, Claims, Owner, Sequence
<1> QED
  BY <1>1, <1>2, <1>3, <1>4, <1>5, <1>6, <1>7 DEF IInv

LEMMA WriteStateStep ==
  ASSUME IInv, WriteState
  PROVE  IInv'
<1> USE SessionAssumption DEF IInv, files, Captured, Restricted, Trials, Binding, Verdict,
    WriteState, ServerIdle
<1>1. TypeOK'
  BY DEF TypeOK, Chain, Claims, Owner, Sequence, Writings, Operations, Statuses
<1>2. Chain'
  BY DEF TypeOK, Chain, Owner, Sequence
<1>3. Claims'
  BY DEF TypeOK, Chain, Claims, Owner
<1>4. Grounds'
  BY DEF TypeOK, Chain, Claims, Grounds, Grounded, Owner, Sequence
<1>5. Outcomes'
  BY DEF TypeOK, Chain, Claims, Outcomes, Owner
<1>6. Owner'
  BY DEF TypeOK, Chain, Claims, Grounds, Owner, Grounded, Sequence
<1>7. Sequence'
  BY DEF TypeOK, Chain, Claims, Owner, Sequence
<1> QED
  BY <1>1, <1>2, <1>3, <1>4, <1>5, <1>6, <1>7 DEF IInv

LEMMA WriteBindingStep ==
  ASSUME IInv, WriteBinding
  PROVE  IInv'
<1> USE SessionAssumption DEF IInv, files, Captured, Restricted, Trials, Binding, Verdict,
    WriteBinding, ServerIdle
<1>1. TypeOK'
  BY DEF TypeOK, Chain, Claims, Owner, Sequence, Writings, Operations, Statuses
<1>2. Chain'
  BY DEF TypeOK, Chain, Owner, Sequence
<1>3. Claims'
  BY DEF TypeOK, Chain, Claims, Owner
<1>4. Grounds'
  BY DEF TypeOK, Chain, Claims, Grounds, Grounded, Owner, Sequence
<1>5. Outcomes'
  BY DEF TypeOK, Chain, Claims, Outcomes, Owner
<1>6. Owner'
  BY DEF TypeOK, Chain, Claims, Grounds, Owner, Grounded, Sequence
<1>7. Sequence'
  BY DEF TypeOK, Chain, Claims, Owner, Sequence
<1> QED
  BY <1>1, <1>2, <1>3, <1>4, <1>5, <1>6, <1>7 DEF IInv

LEMMA WriteResponseStep ==
  ASSUME IInv, WriteResponse
  PROVE  IInv'
<1> USE SessionAssumption DEF IInv, files, Captured, Restricted, Trials, Binding, Verdict,
    WriteResponse, ServerIdle
<1>1. TypeOK'
  BY DEF TypeOK, Chain, Claims, Owner, Sequence, Writings, Operations, Statuses
<1>2. Chain'
  BY DEF TypeOK, Chain, Owner, Sequence
<1>3. Claims'
  BY DEF TypeOK, Chain, Claims, Owner
<1>4. Grounds'
  BY DEF TypeOK, Chain, Claims, Grounds, Grounded, Owner, Sequence
<1>5. Outcomes'
  BY DEF TypeOK, Chain, Claims, Outcomes, Owner
<1>6. Owner'
  BY DEF TypeOK, Chain, Claims, Grounds, Owner, Grounded, Sequence
<1>7. Sequence'
  BY DEF TypeOK, Chain, Claims, Owner, Sequence
<1> QED
  BY <1>1, <1>2, <1>3, <1>4, <1>5, <1>6, <1>7 DEF IInv

LEMMA RespondCheckStep ==
  ASSUME IInv, NEW p \in Responders, NEW s \in Sessions, NEW v \in Proposals, RespondCheck(p, s, v)
  PROVE  IInv'
<1> USE SessionAssumption DEF IInv, files, Captured, Restricted, Trials, Binding, Verdict,
    RespondCheck
<1>1. TypeOK'
  BY DEF TypeOK, Chain, Claims, Owner, Sequence, Writings, Operations, Statuses
<1>2. Chain'
  BY DEF TypeOK, Chain, Owner, Sequence
<1>3. Claims'
  BY DEF TypeOK, Chain, Claims, Owner
<1>4. Grounds'
  BY DEF TypeOK, Chain, Claims, Grounds, Grounded, Owner, Sequence
<1>5. Outcomes'
  BY DEF TypeOK, Chain, Claims, Outcomes, Owner
<1>6. Owner'
  BY DEF TypeOK, Chain, Claims, Grounds, Owner, Grounded, Sequence
<1>7. Sequence'
  BY DEF TypeOK, Chain, Claims, Owner, Sequence
<1> QED
  BY <1>1, <1>2, <1>3, <1>4, <1>5, <1>6, <1>7 DEF IInv

LEMMA RespondWriteStep ==
  ASSUME IInv, NEW p \in Responders, RespondWrite(p)
  PROVE  IInv'
<1> USE SessionAssumption DEF IInv, files, Captured, Restricted, Trials, Binding, Verdict,
    RespondWrite
<1>1. TypeOK'
  BY DEF TypeOK, Chain, Claims, Owner, Sequence, Writings, Operations, Statuses
<1>2. Chain'
  BY DEF TypeOK, Chain, Owner, Sequence
<1>3. Claims'
  BY DEF TypeOK, Chain, Claims, Owner
<1>4. Grounds'
  BY DEF TypeOK, Chain, Claims, Grounds, Grounded, Owner, Sequence
<1>5. Outcomes'
  BY DEF TypeOK, Chain, Claims, Outcomes, Owner
<1>6. Owner'
  BY DEF TypeOK, Chain, Claims, Grounds, Owner, Grounded, Sequence
<1>7. Sequence'
  BY DEF TypeOK, Chain, Claims, Owner, Sequence
<1> QED
  BY <1>1, <1>2, <1>3, <1>4, <1>5, <1>6, <1>7 DEF IInv

LEMMA ResponderDiesStep ==
  ASSUME IInv, NEW p \in Responders, ResponderDies(p)
  PROVE  IInv'
<1> USE SessionAssumption DEF IInv, files, Captured, Restricted, Trials, Binding, Verdict,
    ResponderDies
<1>1. TypeOK'
  BY DEF TypeOK, Chain, Claims, Owner, Sequence, Writings, Operations, Statuses
<1>2. Chain'
  BY DEF TypeOK, Chain, Owner, Sequence
<1>3. Claims'
  BY DEF TypeOK, Chain, Claims, Owner
<1>4. Grounds'
  BY DEF TypeOK, Chain, Claims, Grounds, Grounded, Owner, Sequence
<1>5. Outcomes'
  BY DEF TypeOK, Chain, Claims, Outcomes, Owner
<1>6. Owner'
  BY DEF TypeOK, Chain, Claims, Grounds, Owner, Grounded, Sequence
<1>7. Sequence'
  BY DEF TypeOK, Chain, Claims, Owner, Sequence
<1> QED
  BY <1>1, <1>2, <1>3, <1>4, <1>5, <1>6, <1>7 DEF IInv

LEMMA PersistBaselineStep ==
  ASSUME IInv, NEW s \in Sessions, NEW v \in Proposals, persist_baseline_response(s, v)
  PROVE  IInv'
<1> USE SessionAssumption DEF IInv, files, Captured, Restricted, Trials, Binding, Verdict,
    persist_baseline_response, ServerIdle
<1>1. TypeOK'
  BY DEF TypeOK, Chain, Claims, Owner, Sequence, Writings, Operations, Statuses
<1>2. Chain'
  BY DEF TypeOK, Chain, Owner, Sequence
<1>3. Claims'
  BY DEF TypeOK, Chain, Claims, Owner
<1>4. Grounds'
  BY DEF TypeOK, Chain, Claims, Grounds, Grounded, Owner, Sequence
<1>5. Outcomes'
  BY DEF TypeOK, Chain, Claims, Outcomes, Owner
<1>6. Owner'
  BY DEF TypeOK, Chain, Claims, Grounds, Owner, Grounded, Sequence
<1>7. Sequence'
  BY DEF TypeOK, Chain, Claims, Owner, Sequence
<1> QED
  BY <1>1, <1>2, <1>3, <1>4, <1>5, <1>6, <1>7 DEF IInv

LEMMA BeginEvaluateStep ==
  ASSUME IInv, NEW s \in Sessions, BeginEvaluate(s)
  PROVE  IInv'
<1> USE SessionAssumption DEF IInv, files, Captured, Restricted, Trials, Binding, Verdict,
    BeginEvaluate, Free, ServerIdle, Begin
<1>1. TypeOK'
  BY DEF TypeOK, Chain, Claims, Owner, Sequence, Writings, Operations, Statuses
<1>2. Chain'
  BY DEF TypeOK, Chain, Owner, Sequence
<1>3. Claims'
  BY DEF TypeOK, Chain, Claims, Owner
<1>4. Grounds'
  BY DEF TypeOK, Chain, Claims, Grounds, Grounded, Owner, Sequence
<1>5. Outcomes'
  BY DEF TypeOK, Chain, Claims, Outcomes, Owner
<1>6. Owner'
  BY DEF TypeOK, Chain, Claims, Grounds, Owner, Grounded, Sequence
<1>7. Sequence'
  BY DEF TypeOK, Chain, Claims, Owner, Sequence
<1> QED
  BY <1>1, <1>2, <1>3, <1>4, <1>5, <1>6, <1>7 DEF IInv

LEMMA FinishEvaluateStep ==
  ASSUME IInv, NEW s \in Sessions, NEW passed \in BOOLEAN, FinishEvaluate(s, passed)
  PROVE  IInv'
<1> USE SessionAssumption DEF IInv, files, Captured, Restricted, Trials, Binding, Verdict,
    FinishEvaluate, Owns, ServerIdle, Consumed
<1>1. TypeOK'
  BY DEF TypeOK, Chain, Claims, Owner, Sequence, Writings, Operations, Statuses
<1>2. Chain'
  BY DEF TypeOK, Chain, Owner, Sequence
<1>3. Claims'
  BY DEF TypeOK, Chain, Claims, Owner
<1>4. Grounds'
  <2>1. \A t \in Sessions : safety[t] # None => safety'[t] = safety[t]
    BY DEF TypeOK
  <2>2. ASSUME NEW t \in Sessions, NEW v \in Proposals, Grounded(t, v)
        PROVE  Grounded(t, v)'
    <3>1. binding[t] \in Binding
      BY <2>2 DEF TypeOK, Grounded
    <3>2. [proposal |-> v, passed |-> TRUE] \in Verdict
      OBVIOUS
    <3>3. safety[binding[t].source] # None
      BY <2>2, <3>2 DEF Grounded
    <3> QED
      BY <2>1, <2>2, <3>1, <3>3 DEF Grounded
  <2>3. \A t \in Sessions : commanded[t] # <<>> => commanded[t][1] \in Proposals
    BY DEF Claims
  <2> QED
    BY <2>2, <2>3 DEF Grounds
<1>5. Outcomes'
  BY DEF TypeOK, Chain, Claims, Outcomes, Owner
<1>6. Owner'
  BY DEF TypeOK, Chain, Claims, Grounds, Owner, Grounded, Sequence
<1>7. Sequence'
  BY DEF TypeOK, Chain, Claims, Owner, Sequence
<1> QED
  BY <1>1, <1>2, <1>3, <1>4, <1>5, <1>6, <1>7 DEF IInv

LEMMA PrepareSourceStep ==
  ASSUME IInv, NEW s \in Sessions, prepare_insertion_trial_source(s)
  PROVE  IInv'
<1> USE SessionAssumption DEF IInv, files, Captured, Restricted, Trials, Binding, Verdict,
    prepare_insertion_trial_source, ServerIdle, AuthenticSource
<1>1. TypeOK'
  BY DEF TypeOK, Chain, Claims, Owner, Sequence, Writings, Operations, Statuses
<1>2. Chain'
  BY DEF TypeOK, Chain, Owner, Sequence
<1>3. Claims'
  BY DEF TypeOK, Chain, Claims, Owner
<1>4. Grounds'
  BY DEF TypeOK, Chain, Claims, Grounds, Grounded, Owner, Sequence
<1>5. Outcomes'
  BY DEF TypeOK, Chain, Claims, Outcomes, Owner
<1>6. Owner'
  BY DEF TypeOK, Chain, Claims, Grounds, Owner, Grounded, Sequence
<1>7. Sequence'
  BY DEF TypeOK, Chain, Claims, Owner, Sequence
<1> QED
  BY <1>1, <1>2, <1>3, <1>4, <1>5, <1>6, <1>7 DEF IInv

LEMMA PersistTrialStep ==
  ASSUME IInv, NEW s \in Sessions, NEW src \in Sessions, persist_insertion_trial_response(s, src)
  PROVE  IInv'
<1> USE SessionAssumption DEF IInv, files, Captured, Restricted, Trials, Binding, Verdict,
    persist_insertion_trial_response, ServerIdle, Consume, AuthenticSource, Evidence, Bindable,
    BindingOf, NextWrite
<1>1. TypeOK'
  BY DEF TypeOK, Chain, Claims, Owner, Sequence, Writings, Operations, Statuses
<1>2. Chain'
  BY DEF TypeOK, Chain, Owner, Sequence
<1>3. Claims'
  BY DEF TypeOK, Chain, Claims, Owner
<1>4. Grounds'
  BY DEF TypeOK, Chain, Claims, Grounds, Grounded, Owner, Sequence
<1>5. Outcomes'
  BY DEF TypeOK, Chain, Claims, Outcomes, Owner
<1>6. Owner'
  BY DEF TypeOK, Chain, Claims, Grounds, Owner, Grounded, Sequence
<1>7. Sequence'
  BY DEF TypeOK, Chain, Claims, Owner, Sequence
<1> QED
  BY <1>1, <1>2, <1>3, <1>4, <1>5, <1>6, <1>7 DEF IInv

LEMMA PersistFollowupStep ==
  ASSUME IInv, NEW s \in Sessions, NEW src \in Sessions, persist_insertion_followup_response(s, src)
  PROVE  IInv'
<1> USE SessionAssumption DEF IInv, files, Captured, Restricted, Trials, Binding, Verdict,
    persist_insertion_followup_response, Free, ServerIdle, Consume, AuthenticSource, Evidence,
    Bindable, BindingOf, NextWrite
<1>1. TypeOK'
  BY DEF TypeOK, Chain, Claims, Owner, Sequence, Writings, Operations, Statuses
<1>2. Chain'
  BY DEF TypeOK, Chain, Owner, Sequence
<1>3. Claims'
  BY DEF TypeOK, Chain, Claims, Owner
<1>4. Grounds'
  BY DEF TypeOK, Chain, Claims, Grounds, Grounded, Owner, Sequence
<1>5. Outcomes'
  BY DEF TypeOK, Chain, Claims, Outcomes, Owner
<1>6. Owner'
  BY DEF TypeOK, Chain, Claims, Grounds, Owner, Grounded, Sequence
<1>7. Sequence'
  BY DEF TypeOK, Chain, Claims, Owner, Sequence
<1> QED
  BY <1>1, <1>2, <1>3, <1>4, <1>5, <1>6, <1>7 DEF IInv

LEMMA BeginApplyStep ==
  ASSUME IInv, NEW s \in Sessions, BeginApply(s)
  PROVE  IInv'
<1> USE SessionAssumption DEF IInv, files, Captured, Restricted, Trials, Binding, Verdict,
    BeginApply, Free, ServerIdle, Begin, load, claim_execution, Consumed, ValidBinding,
    AuthenticSource
<1>1. TypeOK'
  BY DEF TypeOK, Chain, Claims, Owner, Sequence, Writings, Operations, Statuses
<1>2. Chain'
  BY DEF TypeOK, Chain, Owner, Sequence
<1>3. Claims'
  BY DEF TypeOK, Chain, Claims, Owner
<1>4. Grounds'
  BY DEF TypeOK, Chain, Claims, Grounds, Grounded, Owner, Sequence
<1>5. Outcomes'
  BY DEF TypeOK, Chain, Claims, Outcomes, Owner
<1>6. Owner'
  <2>1. response[s] \in Proposals /\ commanded[s] = <<>> /\ result[s] = None
    BY DEF TypeOK, Claims
  <2>2. ASSUME Policy[s] \in Trials
        PROVE  Grounded(s, response[s])
    <3>1. binding[s] \in Binding
      BY <2>2 DEF TypeOK
    <3>2. safety[binding[s].source] \in Verdict
      BY <2>2, <3>1 DEF TypeOK
    <3>3. safety[binding[s].source].proposal = response[s] /\ safety[binding[s].source].passed
      BY <2>2
    <3> QED
      BY <2>2, <3>2, <3>3 DEF Grounded
  <2>3. operation'.kind = "apply" /\ operation'.session = s /\ operation'.proposal = response[s]
        /\ operation'.moved = FALSE
    OBVIOUS
  <2>4. Policy[s] \in Trials => Grounded(s, response[s])'
    BY <2>2 DEF Grounded
  <2>5. s \in execution' /\ commanded' = commanded /\ result' = result /\ response' = response
    OBVIOUS
  <2> HIDE DEF BeginApply
  <2> QED
    BY <2>1, <2>3, <2>4, <2>5 DEF Owner, Grounded
<1>7. Sequence'
  BY DEF TypeOK, Chain, Claims, Owner, Sequence
<1> QED
  BY <1>1, <1>2, <1>3, <1>4, <1>5, <1>6, <1>7 DEF IInv

LEMMA CommandStep ==
  ASSUME IInv, NEW s \in Sessions, Command(s)
  PROVE  IInv'
<1> USE SessionAssumption DEF IInv, files, Captured, Restricted, Trials, Binding, Verdict,
    Command, Owns, ServerIdle
<1>a. commanded[s] = <<>> /\ operation.proposal \in Proposals /\ s \in execution
  BY DEF Owner
<1>1. TypeOK'
  <2>1. commanded' = [commanded EXCEPT ![s] = <<operation.proposal>>]
    BY <1>a
  <2>2. operation' \in Operations
    BY DEF TypeOK, Operations
  <2> QED
    BY <1>a, <2>1, <2>2 DEF TypeOK
<1>2. Chain'
  BY DEF TypeOK, Chain, Owner, Sequence
<1>3. Claims'
  BY DEF TypeOK, Chain, Claims, Owner
<1>4. Grounds'
  <2>1. commanded'[s] = <<operation.proposal>>
    BY <1>a DEF TypeOK
  <2>2. \A t \in Sessions : t # s => commanded'[t] = commanded[t]
    BY DEF TypeOK
  <2>3. Policy[s] \in Trials => Grounded(s, commanded'[s][1])
    BY <2>1, <1>a DEF Owner
  <2> QED
    BY <2>2, <2>3, <1>a DEF Grounds, Grounded, Owner
<1>5. Outcomes'
  BY DEF TypeOK, Chain, Claims, Outcomes, Owner
<1>6. Owner'
  BY DEF TypeOK, Chain, Claims, Grounds, Owner, Grounded, Sequence
<1>7. Sequence'
  BY DEF TypeOK, Chain, Claims, Owner, Sequence
<1> QED
  BY <1>1, <1>2, <1>3, <1>4, <1>5, <1>6, <1>7 DEF IInv

LEMMA FinishApplyStep ==
  ASSUME IInv, NEW s \in Sessions, NEW status \in Statuses, FinishApply(s, status)
  PROVE  IInv'
<1> USE SessionAssumption DEF IInv, files, Captured, Restricted, Trials, Binding, Verdict,
    FinishApply, Owns, ServerIdle
<1>1. TypeOK'
  BY DEF TypeOK, Chain, Claims, Owner, Sequence, Writings, Operations, Statuses
<1>2. Chain'
  BY DEF TypeOK, Chain, Owner, Sequence
<1>3. Claims'
  BY DEF TypeOK, Chain, Claims, Owner
<1>4. Grounds'
  BY DEF TypeOK, Chain, Claims, Grounds, Grounded, Owner, Sequence
<1>5. Outcomes'
  BY DEF TypeOK, Chain, Claims, Outcomes, Owner
<1>6. Owner'
  BY DEF TypeOK, Chain, Claims, Grounds, Owner, Grounded, Sequence
<1>7. Sequence'
  BY DEF TypeOK, Chain, Claims, Owner, Sequence
<1> QED
  BY <1>1, <1>2, <1>3, <1>4, <1>5, <1>6, <1>7 DEF IInv

LEMMA OperationFailsStep ==
  ASSUME IInv, OperationFails
  PROVE  IInv'
<1> USE SessionAssumption DEF IInv, files, Captured, Restricted, Trials, Binding, Verdict,
    OperationFails, ServerIdle
<1>1. TypeOK'
  BY DEF TypeOK, Chain, Claims, Owner, Sequence, Writings, Operations, Statuses
<1>2. Chain'
  BY DEF TypeOK, Chain, Owner, Sequence
<1>3. Claims'
  BY DEF TypeOK, Chain, Claims, Owner
<1>4. Grounds'
  BY DEF TypeOK, Chain, Claims, Grounds, Grounded, Owner, Sequence
<1>5. Outcomes'
  BY DEF TypeOK, Chain, Claims, Outcomes, Owner
<1>6. Owner'
  BY DEF TypeOK, Chain, Claims, Grounds, Owner, Grounded, Sequence
<1>7. Sequence'
  BY DEF TypeOK, Chain, Claims, Owner, Sequence
<1> QED
  BY <1>1, <1>2, <1>3, <1>4, <1>5, <1>6, <1>7 DEF IInv

LEMMA CrashStep ==
  ASSUME IInv, Crash
  PROVE  IInv'
<1> USE SessionAssumption DEF IInv, files, Captured, Restricted, Trials, Binding, Verdict,
    Crash
<1>1. TypeOK'
  BY DEF TypeOK, Chain, Claims, Owner, Sequence, Writings, Operations, Statuses
<1>2. Chain'
  BY DEF TypeOK, Chain, Owner, Sequence
<1>3. Claims'
  BY DEF TypeOK, Chain, Claims, Owner
<1>4. Grounds'
  BY DEF TypeOK, Chain, Claims, Grounds, Grounded, Owner, Sequence
<1>5. Outcomes'
  BY DEF TypeOK, Chain, Claims, Outcomes, Owner
<1>6. Owner'
  BY DEF TypeOK, Chain, Claims, Grounds, Owner, Grounded, Sequence
<1>7. Sequence'
  BY DEF TypeOK, Chain, Claims, Owner, Sequence
<1> QED
  BY <1>1, <1>2, <1>3, <1>4, <1>5, <1>6, <1>7 DEF IInv

\* A stuttering step changes none of it.
LEMMA StutterStep ==
  ASSUME IInv, UNCHANGED vars
  PROVE  IInv'
<1> USE DEF vars, files
<1>1. TypeOK' /\ Chain' /\ Claims'
  BY DEF IInv, TypeOK, Chain, Claims, Captured
<1>2. Grounds' /\ Outcomes' /\ Owner' /\ Sequence'
  BY DEF IInv, Grounds, Grounded, Outcomes, Owner, Sequence, Captured
<1> QED
  BY <1>1, <1>2 DEF IInv

(***************************************************************************)
(* Theorems.                                                               *)
(***************************************************************************)
\* The inductive invariant holds in every reachable state.
THEOREM Invariance == Spec => []IInv
<1>1. ASSUME IInv, [Next]_vars PROVE IInv'
  BY <1>1, BeginCaptureStep, FinishCaptureStep, WriteRequestStep, WriteStateStep, WriteBindingStep,
     WriteResponseStep, RespondCheckStep, RespondWriteStep, ResponderDiesStep, PersistBaselineStep,
     BeginEvaluateStep, FinishEvaluateStep, PrepareSourceStep, PersistTrialStep,
     PersistFollowupStep,
     BeginApplyStep, CommandStep, FinishApplyStep, OperationFailsStep, CrashStep, StutterStep
     DEF Next
<1> QED
  BY Initially, <1>1, PTL DEF Spec

\* Type correctness.
THEOREM TypeCorrect == Spec => []TypeOK
BY Invariance, PTL DEF IInv

\* A session moves the robot at most once, and only under a claim on disk
\* (apply_control_response and claim_execution).
THEOREM OncePerSession == Spec => []SingleUse
<1>1. Len(<<>>) = 0 /\ \A v \in Proposals : Len(<<v>>) = 1
  OBVIOUS
<1>2. ASSUME IInv, NEW s \in Sessions
      PROVE  Len(commanded[s]) <= 1 /\ (commanded[s] # <<>> => s \in execution)
  <2>1. CASE commanded[s] = <<>>
    BY <1>1, <2>1
  <2>2. CASE \E v \in Proposals : commanded[s] = <<v>>
    BY <1>1, <1>2, <2>2 DEF IInv, Claims
  <2> QED
    BY <1>2, <2>1, <2>2 DEF IInv, Claims
<1>3. IInv => SingleUse
  BY <1>2 DEF SingleUse
<1> QED
  BY Invariance, <1>3, PTL

\* A diagnostic session is never applied (claim_execution's restriction).
THEOREM DiagnosticsSafe == Spec => []DiagnosticsNeverApplied
<1>1. IInv => DiagnosticsNeverApplied
  BY DEF IInv, Claims, DiagnosticsNeverApplied
<1> QED
  BY Invariance, <1>1, PTL

\* A trial acts only on a proposal its source was found safe with, whatever
\* happened to the source's response or its cached evidence since.
THEOREM TrialsGrounded == Spec => []TrialActsOnSafeSource
<1>1. ASSUME IInv, NEW s \in Sessions, Policy[s] \in Trials, commanded[s] # <<>>
      PROVE  /\ binding[s] # None
             /\ safety[binding[s].source] = [proposal |-> commanded[s][1], passed |-> TRUE]
             /\ commanded[binding[s].source] = <<>>
  <2>1. Grounded(s, commanded[s][1])
    BY <1>1 DEF IInv, Grounds
  <2>2. commanded[s][1] \in Proposals
    BY <1>1 DEF IInv, Claims
  <2>3. binding[s].source \in Sessions
    <3>1. binding[s] \in Binding
      BY <1>1, <2>1 DEF Grounded, IInv, TypeOK
    <3> QED
      BY <3>1 DEF Binding
  <2>4. [proposal |-> commanded[s][1], passed |-> TRUE] # None
    <3>1. [proposal |-> commanded[s][1], passed |-> TRUE] \in Verdict
      BY <2>2 DEF Verdict
    <3> QED
      BY <3>1, SessionAssumption
  <2>5. binding[s].source \notin execution
    BY <1>1, <2>1, <2>3, <2>4 DEF Grounded, IInv, Claims
  <2>6. commanded[binding[s].source] = <<>>
    BY <1>1, <2>3, <2>5 DEF IInv, Claims
  <2> QED
    BY <2>1, <2>6 DEF Grounded
<1>2. IInv => TrialActsOnSafeSource
  BY <1>1 DEF TrialActsOnSafeSource
<1> QED
  BY Invariance, <1>2, PTL

\* No crash leaves a file of a session without the files it is about, nor a
\* result that contradicts what the robot was told.
THEOREM EvidenceGrounded == Spec => []EvidenceHasGround
<1>1. IInv => EvidenceHasGround
  BY DEF IInv, Chain, Outcomes, EvidenceHasGround
<1> QED
  BY Invariance, <1>1, PTL

\* A recorded result is never replaced (write_result itself would).
THEOREM ResultFinal == Spec => ResultIsFinal
<1>1. ASSUME IInv, [Next]_vars, NEW s \in Sessions, result[s] # None
      PROVE  result'[s] = result[s]
  <2>1. CASE \E t \in Sessions, status \in Statuses : FinishApply(t, status)
    BY <1>1, <2>1 DEF FinishApply, Owns, IInv, Owner, TypeOK
  <2>2. CASE ~\E t \in Sessions, status \in Statuses : FinishApply(t, status)
    <3>1. UNCHANGED result
      BY <1>1, <2>2 DEF Next, vars, files, BeginCapture, FinishCapture, WriteRequest, WriteState,
        WriteBinding, WriteResponse, RespondCheck, RespondWrite, ResponderDies,
        persist_baseline_response, BeginEvaluate, FinishEvaluate, prepare_insertion_trial_source,
        persist_insertion_trial_response, persist_insertion_followup_response, BeginApply, Command,
        OperationFails, Crash
    <3> QED
      BY <3>1
  <2> QED
    BY <2>1, <2>2
<1>2. ASSUME IInv, [Next]_vars
      PROVE  [\A s \in Sessions : result[s] # None => result'[s] = result[s]]_vars
  BY <1>1, <1>2
<1>3. Spec => [][Next]_vars
  BY PTL DEF Spec
<1> QED
  BY Invariance, <1>2, <1>3, PTL DEF ResultIsFinal

-----------------------------------------------------------------------------
(***************************************************************************)
(* The offline experiments, whose policies answer such sessions:           *)
(* PolicyEvidence with OfflineExperiments, for any number of processes and *)
(* as many invocations as there are names to keep them under.  First,      *)
(* where the invocations of a command may be.                              *)
(***************************************************************************)
IsRun(r) ==
  r = [command |-> r.command, at |-> r.at, id |-> r.id, artifact |-> r.artifact,
       source |-> r.source]

IsConfig(c) ==
  c = [probe |-> c.probe, artifact |-> c.artifact, training |-> c.training,
       evaluation |-> c.evaluation, adjudication |-> c.adjudication, claim |-> c.claim,
       failure |-> c.failure]

CommandsOf ==
  [conditioning |-> {"train", "A", "R", "canonical", "summarize"},
   routing      |-> {"train", "preflight", "A", "R", "canonical", "summarize"},
   observed     |-> {"train", "preflight", "evaluate-train"},
   causal       |-> {"preflight", "probe"},
   physical     |-> {"train", "preflight", "probe"},
   residual     |-> {"train", "preflight", "evaluate-train", "adjudicate", "v1", "v2"},
   adapter      |-> {"train", "R", "readiness"},
   proposal     |-> {"train", "R", "readiness"},
   task         |-> {"train", "R", "readiness"},
   planner      |-> {"train", "benchmark", "readiness"},
   grasp        |-> {"train", "rollout", "baselines", "readiness", "film"},
   insertion    |-> {"train", "finetune", "handoff", "followup"}]

Places ==
  [train      |-> {"entering", "training", "reporting", "leaving", "refused"},
   preflight  |-> {"scoring", "refused"},
   probe      |-> {"scoring"},
   A          |-> {"scoring"},
   R          |-> {"loading", "reading", "scoring"},
   canonical  |-> {"authorizing", "baseline", "router", "selected", "loading", "scoring"},
   summarize  |-> {"judging"},
   readiness  |-> {"validating", "judging", "writing", "selecting", "summarizing"},
   adjudicate |-> {"judging"},
   benchmark  |-> {"initialized", "planning"},
   rollout    |-> {"rolling"},
   baselines  |-> {"comparing"},
   film       |-> {"verified", "recording"},
   finetune   |-> {"parent", "optimizing", "reporting"},
   handoff    |-> {"persisting"},
   followup   |-> {"validating"},
   v1         |-> {"loading", "claiming", "opening", "populations", "refused"},
   v2         |-> {"loading", "claiming", "opening", "populations", "refused"}]

PlacesOf(command) ==
  IF command = "evaluate-train" THEN {"loading", "entering", "scoring", "leaving", "refused"}
  ELSE Places[command]

Place(command, at) ==
  /\ command \in CommandsOf[experiment] /\ at \in PlacesOf(command)
  /\ at = "loading" => experiment \in {"conditioning", "routing", "observed", "residual"}
  /\ at = "validating" => experiment \in {"task", "insertion"}
  /\ at = "writing" => experiment = "proposal"
  /\ at = "reading" => experiment \in {"adapter", "proposal", "task"}
  /\ at \in {"entering", "leaving", "refused"} => experiment \in Residual

\* Where a command has written under its number and loads nothing any more.
Past == {"reporting", "leaving", "refused", "opening", "populations"}

\* A number whose bearer has written: no other invocation bears it from then on.
Used(x) == x \in 1 .. runs /\ \A p \in Processes : Me(p).id = x => Me(p).at \in Past

Counted == experiment \in Experiments /\ runs \in 0 .. MaxRuns[experiment]

Filed ==
  /\ file = [n \in FilesOf[experiment] |-> file[n]]
  /\ \A n \in FilesOf[experiment] : file[n].by \in 0 .. runs
  /\ \A n \in FilesOf[experiment] \ {"state"} : There(n) => Used(file[n].by)

Running ==
  /\ process = [p \in Processes |-> process[p]]
  /\ \A p \in Processes :
       /\ IsRun(Me(p))
       /\ Me(p) # NoRun => Place(Me(p).command, Me(p).at) /\ Me(p).id \in 1 .. runs
  /\ \A p, q \in Processes : p # q /\ Me(p).id = Me(q).id => Me(p) = NoRun

Remembered ==
  /\ loaded = [i \in 1 .. MaxRuns[experiment] |-> loaded[i]]
  /\ IsConfig(config)

IInvRuns == Counted /\ Filed /\ Running /\ Remembered

-----------------------------------------------------------------------------
(***************************************************************************)
(* Every step of a process begins an invocation or continues one.          *)
(***************************************************************************)
Begins(p) ==
  \E command, at, source :
    Start(p, command, at, source) /\ Place(command, at)

\* It writes one file under its number, and then loads nothing any more.
WritesOnce(p, past) ==
  \/ file' = file
  \/ \E n, of, says, from : Write(n, of, says, from, p) /\ (n = "state" \/ past)

LoadsOnce(p) ==
  \/ loaded' = loaded
  \/ Me(p).at \notin Past /\ \E x : loaded' = [loaded EXCEPT ![Me(p).id] = x]

ContinuesAs(p, r) ==
  /\ Me(p) # NoRun /\ UNCHANGED <<experiment, runs, config>>
  /\ process' = [process EXCEPT ![p] = r]
  /\ \/ r = NoRun
     \/ /\ IsRun(r) /\ r.id = Me(p).id /\ Place(r.command, r.at)
        /\ Me(p).at \in Past => r.at \in Past
  /\ WritesOnce(p, r = NoRun \/ r.at \in Past) /\ LoadsOnce(p)

Continues(p) == \E r : ContinuesAs(p, r)

\* What such a step leaves alone.
Frame(p) ==
  /\ experiment' = experiment /\ runs' \in runs .. MaxRuns[experiment] /\ config' = config
  /\ \A q \in Processes \ {p} : process'[q] = process[q]
  /\ \A x \in 1 .. runs : Used(x) => Used(x)' /\ loaded'[x] = loaded[x]
  /\ \A q \in Processes \ {p} : Me(q) # NoRun => loaded'[Me(q).id] = loaded[Me(q).id]

LEMMA NumberOfRuns ==
  ASSUME Counted PROVE MaxRuns[experiment] \in 0 .. 6 /\ runs \in Nat
  BY ExperimentsAssumption DEF Counted, Kept

LEMMA Begun ==
  ASSUME IInvRuns, NEW p \in Processes, Begins(p)
  PROVE IInvRuns' /\ Frame(p)
<1>0. PICK command, at, source :
        Start(p, command, at, source) /\ Place(command, at)
  BY DEF Begins
<1> DEFINE artifact == IF There("artifact") THEN from_artifact("artifact") ELSE 0
           r == [command |-> command, at |-> at, id |-> runs + 1, artifact |-> artifact,
                 source |-> source]
<1>1. /\ process' = [process EXCEPT ![p] = r] /\ Me(p) = NoRun /\ runs' = runs + 1
      /\ runs < MaxRuns[experiment]
      /\ UNCHANGED <<experiment, file, config, opened, measured, loaded>>
  BY <1>0 DEF Start
<1>2. /\ IsRun(r) /\ r.command = command /\ r.at = at /\ r.id = runs + 1 /\ r # NoRun
      /\ NoRun.id = 0
  <2>1. runs + 1 # 0
    BY NumberOfRuns DEF IInvRuns
  <2> QED
    BY <1>0, <2>1 DEF IsRun, NoRun
<1> HIDE DEF r
<1>3. /\ process' = [q \in Processes |-> process'[q]] /\ process'[p] = r
      /\ \A q \in Processes \ {p} : process'[q] = process[q]
  BY <1>1 DEF IInvRuns, Running
<1>4. runs \in Nat /\ MaxRuns[experiment] \in Nat /\ runs' \in 0 .. MaxRuns[experiment]
      /\ runs' \in runs .. MaxRuns[experiment]
  BY <1>1, NumberOfRuns DEF IInvRuns, Counted
<1>5. \A x \in 1 .. runs : Used(x) => Used(x)'
  BY <1>1, <1>2, <1>3, <1>4 DEF Used, Me
<1>6. Counted'
  BY <1>1, <1>4 DEF IInvRuns, Counted
<1>7. Filed'
  <2>1. \A n \in FilesOf[experiment] : file[n].by \in 0 .. runs'
    BY <1>1, <1>4 DEF IInvRuns, Filed
  <2>2. \A n \in FilesOf[experiment] \ {"state"} : There(n) => Used(file[n].by)'
    BY <1>1, <1>5 DEF IInvRuns, Filed, Used, There, Me
  <2> QED
    BY <1>1, <2>1, <2>2 DEF IInvRuns, Filed, There, Used, Me
<1>8. Running'
  <2>1. \A q \in Processes : q # p /\ Me(q) # NoRun => Me(q).id \in 1 .. runs
    BY DEF IInvRuns, Running
  <2>2. \A q \in Processes : Me(q) = NoRun \/ Me(q).id \in 1 .. runs
    BY <2>1, <1>1
  <2>3. \A q \in Processes :
          /\ IsRun(process'[q])
          /\ process'[q] # NoRun =>
               Place(process'[q].command, process'[q].at) /\ process'[q].id \in 1 .. runs'
    BY <1>0, <1>1, <1>2, <1>3, <1>4, <2>1 DEF IInvRuns, Running, Me
  <2>4. ASSUME NEW q \in Processes, NEW s \in Processes, q # s,
               process'[q].id = process'[s].id
        PROVE process'[q] = NoRun
    <3>1. CASE q = p
      BY <1>2, <1>3, <1>4, <2>2, <2>4, <3>1 DEF Me
    <3>2. CASE s = p
      BY <1>2, <1>3, <1>4, <2>2, <2>4, <3>2 DEF Me
    <3>3. CASE q # p /\ s # p
      BY <1>3, <2>4, <3>3 DEF IInvRuns, Running, Me
    <3> QED
      BY <3>1, <3>2, <3>3
  <2> QED
    BY <1>1, <1>3, <2>3, <2>4 DEF Running, Me, Place
<1>9. Remembered'
  BY <1>1 DEF IInvRuns, Remembered
<1> QED
  BY <1>1, <1>3, <1>4, <1>5, <1>6, <1>7, <1>8, <1>9 DEF IInvRuns, Frame, Me

LEMMA Continued ==
  ASSUME IInvRuns, NEW p \in Processes, Continues(p)
  PROVE IInvRuns' /\ Frame(p)
<1>0. PICK r : ContinuesAs(p, r)
  BY DEF Continues
<1>1. /\ process' = [process EXCEPT ![p] = r] /\ Me(p) # NoRun /\ runs' = runs
      /\ experiment' = experiment /\ config' = config
      /\ \/ r = NoRun
         \/ /\ IsRun(r) /\ r.id = Me(p).id /\ Place(r.command, r.at)
            /\ Me(p).at \in Past => r.at \in Past
  BY <1>0 DEF ContinuesAs
<1>2. /\ process' = [q \in Processes |-> process'[q]] /\ process'[p] = r
      /\ \A q \in Processes \ {p} : process'[q] = process[q]
  BY <1>1 DEF IInvRuns, Running
<1>3. runs \in Nat /\ MaxRuns[experiment] \in Nat /\ runs \in 0 .. MaxRuns[experiment]
  BY NumberOfRuns DEF IInvRuns, Counted
<1>4. Me(p).id \in 1 .. runs /\ \A q \in Processes \ {p} : Me(q).id # Me(p).id
  BY <1>1 DEF IInvRuns, Running
<1>5. NoRun.id = 0 /\ IsRun(NoRun) /\ \A q \in Processes : Me(q) = NoRun \/ Me(q).id \in 1 .. runs
  BY DEF NoRun, IsRun, IInvRuns, Running
<1>6. \A x \in 1 .. runs : Used(x) => Used(x)'
  BY <1>1, <1>2, <1>3, <1>5 DEF Used, Me
<1>7. r = NoRun \/ r.at \in Past =>
        \A q \in Processes : process'[q].id = Me(p).id => process'[q].at \in Past
  BY <1>2, <1>3, <1>4, <1>5 DEF Me
<1>8. Filed'
  <2>1. CASE file' = file
    <3>1. \A n \in FilesOf[experiment] \ {"state"} : There(n) => Used(file[n].by)'
      BY <1>1, <1>6, <2>1 DEF IInvRuns, Filed, Used, There, Me
    <3> QED
      BY <1>1, <2>1, <3>1 DEF IInvRuns, Filed, There, Used, Me
  <2>2. ASSUME NEW n, NEW of, NEW says, NEW from,
               file' = [file EXCEPT ![n] = Doc(Me(p).id, of, says, from)],
               n = "state" \/ r = NoRun \/ r.at \in Past
        PROVE Filed'
    <3> DEFINE d == Doc(Me(p).id, of, says, from)
    <3>1. d.by = Me(p).id
      BY DEF Doc
    <3> HIDE DEF d
    <3>2. /\ file' = [m \in FilesOf[experiment] |-> file'[m]]
          /\ \A m \in FilesOf[experiment] : file'[m] = IF m = n THEN d ELSE file[m]
      BY <2>2 DEF IInvRuns, Filed, d
    <3>3. \A m \in FilesOf[experiment] : file'[m].by \in 0 .. runs
      BY <1>3, <1>4, <3>1, <3>2 DEF IInvRuns, Filed
    <3>4. \A m \in FilesOf[experiment] \ {"state"} :
            file'[m].by # 0 => /\ file'[m].by \in 1 .. runs
                              /\ \A q \in Processes :
                                   process'[q].id = file'[m].by => process'[q].at \in Past
      <4> TAKE m \in FilesOf[experiment] \ {"state"}
      <4>1. CASE m = n
        BY <1>4, <1>7, <2>2, <3>1, <3>2, <4>1
      <4>2. CASE m # n
        <5>1. file'[m] = file[m] /\ m \in DOMAIN file
          BY <3>2, <4>2 DEF IInvRuns, Filed
        <5>2. file[m].by # 0 => Used(file[m].by)
          BY <5>1 DEF IInvRuns, Filed, There
        <5> QED
          BY <1>1, <1>6, <5>1, <5>2 DEF Used, Me
      <4> QED
        BY <4>1, <4>2
    <3> QED
      BY <1>1, <3>2, <3>3, <3>4 DEF Filed, There, Used, Me
  <2> QED
    BY <1>0, <2>1, <2>2 DEF ContinuesAs, WritesOnce, Write
<1>9. Running'
  <2>1. \A q \in Processes :
          /\ IsRun(process'[q])
          /\ process'[q] # NoRun =>
               Place(process'[q].command, process'[q].at) /\ process'[q].id \in 1 .. runs
    BY <1>1, <1>2, <1>4, <1>5 DEF IInvRuns, Running, Me
  <2>2. ASSUME NEW q \in Processes, NEW s \in Processes, q # s,
               process'[q].id = process'[s].id
        PROVE process'[q] = NoRun
    <3>1. CASE q = p
      BY <1>1, <1>2, <1>3, <1>4, <1>5, <2>2, <3>1 DEF Me
    <3>2. CASE s = p
      BY <1>1, <1>2, <1>3, <1>4, <1>5, <2>2, <3>2 DEF Me
    <3>3. CASE q # p /\ s # p
      BY <1>2, <2>2, <3>3 DEF IInvRuns, Running, Me
    <3> QED
      BY <3>1, <3>2, <3>3
  <2> QED
    BY <1>1, <1>2, <2>1, <2>2 DEF Running, Me, Place
<1>10. /\ \A x \in 1 .. runs : Used(x) => loaded'[x] = loaded[x]
       /\ \A q \in Processes \ {p} : Me(q) # NoRun => loaded'[Me(q).id] = loaded[Me(q).id]
       /\ Remembered'
  <2>1. CASE loaded' = loaded
    BY <1>1, <2>1 DEF IInvRuns, Remembered
  <2>2. ASSUME Me(p).at \notin Past, NEW x, loaded' = [loaded EXCEPT ![Me(p).id] = x]
        PROVE /\ \A y \in 1 .. runs : Used(y) => loaded'[y] = loaded[y]
              /\ \A q \in Processes \ {p} : Me(q) # NoRun => loaded'[Me(q).id] = loaded[Me(q).id]
              /\ Remembered'
    <3>1. \A y \in 1 .. runs : y # Me(p).id => loaded'[y] = loaded[y]
      BY <1>3, <2>2 DEF IInvRuns, Remembered
    <3>2. \A y \in 1 .. runs : Used(y) => y # Me(p).id
      BY <2>2 DEF Used
    <3>3. Remembered'
      BY <1>1, <2>2 DEF IInvRuns, Remembered
    <3> QED
      BY <1>4, <1>5, <3>1, <3>2, <3>3
  <2> QED
    BY <1>0, <2>1, <2>2 DEF ContinuesAs, LoadsOnce
<1>11. Counted'
  BY <1>1 DEF IInvRuns, Counted
<1> QED
  BY <1>1, <1>2, <1>3, <1>6, <1>8, <1>9, <1>10, <1>11 DEF IInvRuns, Frame, Me

LEMMA GoesOn ==
  ASSUME IInvRuns, NEW p \in Processes, NEW at, Me(p) # NoRun,
         UNCHANGED <<experiment, runs, config>>, Goto(p, at), Place(Me(p).command, at),
         Me(p).at \in Past => at \in Past, WritesOnce(p, at \in Past), LoadsOnce(p)
  PROVE Continues(p)
<1> DEFINE r == [command |-> Me(p).command, at |-> at, id |-> Me(p).id,
                 artifact |-> Me(p).artifact, source |-> Me(p).source]
<1>1. process' = [process EXCEPT ![p] = r]
  <2>1. IsRun(process[p])
    BY DEF IInvRuns, Running, Me
  <2>2. [process[p] EXCEPT !.at = at] = r
    BY <2>1 DEF IsRun, Me
  <2>3. process' = [process EXCEPT ![p] = [process[p] EXCEPT !.at = at]]
    BY DEF Goto
  <2> QED
    BY <2>2, <2>3
<1>2. IsRun(r) /\ r.id = Me(p).id /\ r.command = Me(p).command /\ r.at = at
  BY DEF IsRun
<1> HIDE DEF r
<1>3. WritesOnce(p, r = NoRun \/ r.at \in Past)
  BY <1>2 DEF WritesOnce
<1> QED
  BY <1>1, <1>2, <1>3 DEF Continues, ContinuesAs

LEMMA GoesAway ==
  ASSUME NEW p \in Processes, Me(p) # NoRun, UNCHANGED <<experiment, runs, config>>,
         Finish(p), WritesOnce(p, TRUE), LoadsOnce(p)
  PROVE Continues(p)
<1>1. WritesOnce(p, NoRun = NoRun \/ NoRun.at \in Past)
  BY DEF WritesOnce
<1> QED
  BY <1>1 DEF Continues, ContinuesAs, Finish

\* What the tables say of the other direction: who is at a place, and who runs a command.
LEMMA NamedExperiment ==
  ASSUME Counted
  PROVE experiment \in {"conditioning", "routing", "observed", "causal", "physical", "residual",
                        "adapter", "proposal", "task", "planner", "grasp", "insertion"}
  BY ExperimentsAssumption DEF Counted, FilesOf

LEMMA Located ==
  ASSUME IInvRuns, NEW command, NEW at, Place(command, at)
  PROVE /\ at \in {"authorizing", "baseline", "router", "selected"} => command = "canonical"
        /\ at = "loading" => command \in {"R", "canonical", "evaluate-train", "v1", "v2"}
        /\ at = "reading" => command = "R"
        /\ at = "validating" => command \in {"readiness", "followup"}
        /\ at \in {"claiming", "opening", "populations"} => command \in Versions
        /\ at = "entering" => command \in {"train", "evaluate-train"}
        /\ command = "evaluate-train" => experiment \in {"observed", "residual"}
        /\ command \in Versions \cup {"adjudicate"} => experiment = "residual"
        /\ command = "canonical" => experiment \in {"conditioning", "routing"}
        /\ command = "followup" => experiment = "insertion"
<1>1. command \in {"train", "preflight", "probe", "A", "R", "canonical", "summarize", "readiness",
                   "adjudicate", "benchmark", "rollout", "baselines", "film", "finetune",
                   "handoff", "followup", "v1", "v2", "evaluate-train"}
  BY NamedExperiment DEF IInvRuns, Place, CommandsOf
<1>2. /\ command = "evaluate-train" => experiment \in {"observed", "residual"}
      /\ command \in Versions \cup {"adjudicate"} => experiment = "residual"
      /\ command = "canonical" => experiment \in {"conditioning", "routing"}
      /\ command = "followup" => experiment = "insertion"
  BY NamedExperiment DEF IInvRuns, Place, CommandsOf, Versions
<1>3. /\ at \in {"authorizing", "baseline", "router", "selected"} => command = "canonical"
      /\ at = "loading" => command \in {"R", "canonical", "evaluate-train", "v1", "v2"}
      /\ at = "reading" => command = "R"
      /\ at = "validating" => command \in {"readiness", "followup"}
      /\ at \in {"claiming", "opening", "populations"} => command \in Versions
      /\ at = "entering" => command \in {"train", "evaluate-train"}
  BY <1>1 DEF Place, PlacesOf, Places, Versions
<1> QED
  BY <1>2, <1>3

LEMMA Standing ==
  ASSUME IInvRuns, NEW p \in Processes
  PROVE /\ Me(p) = NoRun => Me(p).at = "idle" /\ Me(p).command = "none" /\ Me(p).id = 0
        /\ Me(p) # NoRun => Place(Me(p).command, Me(p).at) /\ Me(p).id \in 1 .. runs
        /\ Me(p).at \in {"authorizing", "baseline", "router", "selected"} =>
           Me(p).command = "canonical"
        /\ Me(p).at = "loading" =>
             Me(p).command \in {"R", "canonical", "evaluate-train", "v1", "v2"}
        /\ Me(p).at = "reading" => Me(p).command = "R"
        /\ Me(p).at = "validating" => Me(p).command \in {"readiness", "followup"}
        /\ Me(p).at \in {"claiming", "opening", "populations"} => Me(p).command \in Versions
        /\ Me(p).at = "entering" => Me(p).command \in {"train", "evaluate-train"}
        /\ Me(p).command = "evaluate-train" => experiment \in {"observed", "residual"}
        /\ Me(p).command \in Versions \cup {"adjudicate"} => experiment = "residual"
        /\ Me(p).command = "canonical" => experiment \in {"conditioning", "routing"}
        /\ Me(p).command = "followup" => experiment = "insertion"
<1>1. CASE Me(p) = NoRun
  BY <1>1 DEF NoRun, Versions
<1>2. CASE Me(p) # NoRun
  <2>1. Place(Me(p).command, Me(p).at) /\ Me(p).id \in 1 .. runs
    BY <1>2 DEF IInvRuns, Running
  <2> QED
    BY <1>2, <2>1, Located
<1> QED
  BY <1>1, <1>2

LEMMA KeptNames ==
  /\ \A i \in 1 .. 6 : Kept[i] \in {"kept 1", "kept 2", "kept 3", "kept 4", "kept 5", "kept 6"}
  /\ \A i, j \in 1 .. 6 : Kept[i] = Kept[j] => i = j
  BY DEF Kept

LEMMA NoReport == ASSUME Filed, experiment = "insertion" PROVE ~There("R")
  BY KeptNames DEF Filed, There, FilesOf, Trained

LEMMA Rewritten ==
  ASSUME NEW r, IsRun(r), NEW at, NEW source
  PROVE [[r EXCEPT !.at = at] EXCEPT !.source = source] =
          [command |-> r.command, at |-> at, id |-> r.id, artifact |-> r.artifact,
           source |-> source]
<1>1. [r EXCEPT !.at = at] =
        [command |-> r.command, at |-> at, id |-> r.id, artifact |-> r.artifact,
         source |-> r.source]
  BY DEF IsRun
<1>2. [[command |-> r.command, at |-> at, id |-> r.id, artifact |-> r.artifact,
        source |-> r.source] EXCEPT !.source = source] =
        [command |-> r.command, at |-> at, id |-> r.id, artifact |-> r.artifact,
         source |-> source]
  OBVIOUS
<1> QED
  BY <1>1, <1>2

\* Who scores.
LEMMA Scorer ==
  ASSUME IInvRuns, NEW p \in Processes, Me(p).at = "scoring"
  PROVE Me(p).command \in {"preflight", "probe", "A", "R", "canonical", "evaluate-train"}
<1>1. Me(p) # NoRun
  BY DEF NoRun
<1>2. Place(Me(p).command, Me(p).at)
  BY <1>1, Standing
<1>3. Me(p).command \in {"train", "preflight", "probe", "A", "R", "canonical", "summarize",
                         "readiness", "adjudicate", "benchmark", "rollout", "baselines", "film",
                         "finetune", "handoff", "followup", "v1", "v2", "evaluate-train"}
  BY <1>2, NamedExperiment DEF IInvRuns, Place, CommandsOf
<1> QED
  BY <1>2, <1>3 DEF Place, PlacesOf, Places

\* Authority is read file by file; what was read is kept with the process.
Authorities == {"baseline", "router", "selected", "loading"}

AuthorizesAs(p, at, source) ==
  /\ at \in Authorities
  /\ process' = [process EXCEPT ![p] =
       [command |-> Me(p).command, at |-> at, id |-> Me(p).id, artifact |-> Me(p).artifact,
        source |-> source]]
  /\ at = "selected" => source = file["R"]
  /\ at = "loading" => /\ Me(p).at = "selected" /\ Me(p).source.says = "passed"
                       /\ Me(p).source.of = Me(p).artifact

LEMMA Authorizing ==
  ASSUME IInvRuns, NEW p \in Processes, _authorize_evaluation(p)
  PROVE /\ Me(p) # NoRun /\ UNCHANGED <<experiment, file, runs, config, History>>
        /\ Me(p).at \in {"authorizing", "baseline", "router", "selected"}
        /\ \E at, source : AuthorizesAs(p, at, source)
<1>1. IsRun(process[p])
  BY DEF IInvRuns, Running, Me
<1>2. UNCHANGED <<experiment, file, runs, config, History>>
  BY DEF _authorize_evaluation
<1>3. CASE ReadsCanarySummary(p)
  <2>1. process' = [process EXCEPT ![p] =
          [[process[p] EXCEPT !.at = "baseline"] EXCEPT !.source = file["summary"]]]
    BY <1>3 DEF ReadsCanarySummary
  <2>2. process' = [process EXCEPT ![p] =
          [command |-> Me(p).command, at |-> "baseline", id |-> Me(p).id,
           artifact |-> Me(p).artifact, source |-> file["summary"]]]
    BY <1>1, <2>1, Rewritten DEF Me
  <2>3. Me(p).at = "authorizing" /\ Me(p) # NoRun
    BY <1>3 DEF ReadsCanarySummary, NoRun
  <2>4. AuthorizesAs(p, "baseline", file["summary"])
    BY <2>2, <2>3 DEF AuthorizesAs, Authorities
  <2> QED
    BY <1>2, <2>3, <2>4
<1>4. CASE ReadsBaselineReport(p)
  <2>1. process' = [process EXCEPT ![p] =
          [command |-> Me(p).command, at |-> "router", id |-> Me(p).id,
           artifact |-> Me(p).artifact, source |-> Me(p).source]]
    <3>1. process' = [process EXCEPT ![p] = [process[p] EXCEPT !.at = "router"]]
      BY <1>4 DEF ReadsBaselineReport, Goto
    <3>2. [process[p] EXCEPT !.at = "router"] =
            [command |-> Me(p).command, at |-> "router", id |-> Me(p).id,
             artifact |-> Me(p).artifact, source |-> Me(p).source]
      BY <1>1 DEF IsRun, Me
    <3> QED
      BY <3>1, <3>2
  <2>2. Me(p).at = "baseline" /\ Me(p) # NoRun
    BY <1>4 DEF ReadsBaselineReport, NoRun
  <2>3. AuthorizesAs(p, "router", Me(p).source)
    BY <2>1, <2>2 DEF AuthorizesAs, Authorities
  <2> QED
    BY <1>2, <2>2, <2>3
<1>5. CASE ReadsRouterReport(p)
  <2>1. process' = [process EXCEPT ![p] =
          [[process[p] EXCEPT !.at = "selected"] EXCEPT !.source = file["R"]]]
    BY <1>5 DEF ReadsRouterReport
  <2>2. process' = [process EXCEPT ![p] =
          [command |-> Me(p).command, at |-> "selected", id |-> Me(p).id,
           artifact |-> Me(p).artifact, source |-> file["R"]]]
    BY <1>1, <2>1, Rewritten DEF Me
  <2>3. Me(p).at = "router" /\ Me(p) # NoRun
    BY <1>5 DEF ReadsRouterReport, NoRun
  <2>4. AuthorizesAs(p, "selected", file["R"])
    BY <2>2, <2>3 DEF AuthorizesAs, Authorities
  <2> QED
    BY <1>2, <2>3, <2>4
<1>6. CASE SelectsRouter(p)
  <2>1. process' = [process EXCEPT ![p] =
          [[process[p] EXCEPT !.at = "loading"] EXCEPT !.source = NoFile]]
    BY <1>6 DEF SelectsRouter
  <2>2. process' = [process EXCEPT ![p] =
          [command |-> Me(p).command, at |-> "loading", id |-> Me(p).id,
           artifact |-> Me(p).artifact, source |-> NoFile]]
    BY <1>1, <2>1, Rewritten DEF Me
  <2>3. /\ Me(p).at = "selected" /\ Me(p) # NoRun
        /\ Me(p).source.says = "passed" /\ Me(p).source.of = Me(p).artifact
    BY <1>6 DEF SelectsRouter, NoRun
  <2>4. AuthorizesAs(p, "loading", NoFile)
    BY <2>2, <2>3 DEF AuthorizesAs, Authorities
  <2> QED
    BY <1>2, <2>3, <2>4
<1> QED
  BY <1>3, <1>4, <1>5, <1>6 DEF _authorize_evaluation

LEMMA TrainSteps ==
  ASSUME IInvRuns, NEW p \in Processes, Train(p)
  PROVE Begins(p) \/ Continues(p)
<1>0. /\ Me(p) = NoRun => Me(p).at = "idle" /\ Me(p).command = "none"
      /\ Me(p) # NoRun => Place(Me(p).command, Me(p).at)
      /\ Me(p).at \in {"authorizing", "baseline", "router", "selected"} =>
           Me(p).command = "canonical"
      /\ Me(p).at = "loading" => Me(p).command \in {"R", "canonical", "evaluate-train", "v1", "v2"}
      /\ Me(p).at = "validating" => Me(p).command \in {"readiness", "followup"}
      /\ Me(p).at \in {"claiming", "opening", "populations"} => Me(p).command \in Versions
      /\ Me(p).command \in Versions => experiment = "residual"
      /\ Me(p).command = "canonical" => experiment \in {"conditioning", "routing"}
      /\ Me(p).command = "followup" => experiment = "insertion"
  BY Standing
<1> USE DEF Place, PlacesOf, Places, CommandsOf, History, WritesOnce, LoadsOnce, Past, Residual
<1>1. CASE train_treatment(p)
  BY <1>0, <1>1 DEF train_treatment, Begins
<1>2. CASE train_router(p)
  BY <1>0, <1>2 DEF train_router, Begins
<1>3. CASE observed_train_router(p)
  BY <1>0, <1>3 DEF observed_train_router, Begins
<1>4. CASE train_residual(p)
  BY <1>0, <1>4 DEF train_residual, Residual, Begins
<1>5. CASE adapt_recordings(p)
  BY <1>0, <1>5 DEF adapt_recordings, Begins
<1>6. CASE train_action_proposal(p)
  BY <1>0, <1>6 DEF train_action_proposal, Begins
<1>7. CASE save_action_conditioning(p)
  BY <1>0, <1>7, GoesOn DEF save_action_conditioning
<1>8. CASE WriteTrainingReport(p)
  BY <1>0, <1>8, GoesOn, GoesAway DEF WriteTrainingReport, Residual
<1>9. CASE write_run_state(p)
  BY <1>0, <1>9, GoesOn, GoesAway DEF write_run_state, Residual
<1> QED
  BY <1>1, <1>2, <1>3, <1>4, <1>5, <1>6, <1>7, <1>8, <1>9 DEF Train

LEMMA EvaluateSteps ==
  ASSUME IInvRuns, NEW p \in Processes, Evaluate(p)
  PROVE Begins(p) \/ Continues(p)
<1>0. /\ Me(p) = NoRun => Me(p).at = "idle" /\ Me(p).command = "none"
      /\ Me(p) # NoRun => Place(Me(p).command, Me(p).at)
      /\ Me(p).at \in {"authorizing", "baseline", "router", "selected"} =>
           Me(p).command = "canonical"
      /\ Me(p).at = "loading" => Me(p).command \in {"R", "canonical", "evaluate-train", "v1", "v2"}
      /\ Me(p).at = "validating" => Me(p).command \in {"readiness", "followup"}
      /\ Me(p).at \in {"claiming", "opening", "populations"} => Me(p).command \in Versions
      /\ Me(p).command \in Versions => experiment = "residual"
      /\ Me(p).command = "canonical" => experiment \in {"conditioning", "routing"}
      /\ Me(p).command = "followup" => experiment = "insertion"
  BY Standing
<1> USE DEF Place, PlacesOf, Places, CommandsOf, History, WritesOnce, LoadsOnce, Past, Residual
<1>1. CASE preflight(p)
  BY <1>0, <1>1 DEF preflight, Begins
<1>2. CASE observed_preflight(p)
  BY <1>0, <1>2 DEF observed_preflight, Begins
<1>3. CASE residual_preflight(p)
  BY <1>0, <1>3 DEF residual_preflight, Residual, Begins
<1>4. CASE physical_probe(p)
  BY <1>0, <1>4 DEF physical_probe, Begins
<1>5. CASE causal_preflight(p)
  BY <1>0, <1>5 DEF causal_preflight, Begins
<1>6. CASE causal_probe(p)
  BY <1>0, <1>6 DEF causal_probe, Begins
<1>7. CASE \E name \in {"A", "R", "canonical"} : evaluate_treatment(p, name)
  BY <1>0, <1>7 DEF evaluate_treatment, Begins
<1>8. CASE \E name \in {"A", "R", "canonical"} : evaluate(p, name)
  BY <1>0, <1>8 DEF evaluate, Begins
<1>9. CASE _authorize_evaluation(p)
  <2>1. /\ Me(p) # NoRun /\ UNCHANGED <<experiment, file, runs, config, loaded>>
        /\ Me(p).at \in {"authorizing", "baseline", "router", "selected"}
    BY <1>9, Authorizing
  <2>2. PICK at, source :
          /\ at \in Authorities
          /\ process' = [process EXCEPT ![p] =
               [command |-> Me(p).command, at |-> at, id |-> Me(p).id,
                artifact |-> Me(p).artifact, source |-> source]]
    BY <1>9, Authorizing DEF AuthorizesAs
  <2> DEFINE r == [command |-> Me(p).command, at |-> at, id |-> Me(p).id,
                   artifact |-> Me(p).artifact, source |-> source]
  <2>3. IsRun(r) /\ r.id = Me(p).id /\ r.command = Me(p).command /\ r.at = at
    BY DEF IsRun
  <2>4. Place(Me(p).command, at) /\ Me(p).at \notin Past
    <3>1. Me(p).command = "canonical" /\ Place(Me(p).command, Me(p).at)
      BY <1>0, <2>1
    <3>2. experiment = "routing" \/ at # "loading" \/ experiment = "conditioning"
      BY <1>0, <3>1
    <3> QED
      BY <2>1, <2>2, <3>1, <3>2 DEF Authorities
  <2>5. WritesOnce(p, r = NoRun \/ r.at \in Past) /\ LoadsOnce(p)
    BY <2>1
  <2> HIDE DEF r, Place, WritesOnce, LoadsOnce, Past
  <2>6. process' = [process EXCEPT ![p] = r]
    BY <2>2 DEF r
  <2> QED
    BY <2>1, <2>3, <2>4, <2>5, <2>6 DEF Continues, ContinuesAs
<1>10. CASE evaluate_train(p)
  BY <1>0, <1>10 DEF evaluate_train, Begins
<1>11. CASE observed_evaluate_train(p)
  BY <1>0, <1>11 DEF observed_evaluate_train, Begins
<1>12. CASE Load(p)
  <2> DEFINE at == CASE Me(p).command \in Versions -> "claiming"
                     [] experiment = "residual" /\ Me(p).command = "evaluate-train" -> "entering"
                     [] OTHER -> "scoring"
  <2>1. WritesOnce(p, FALSE) /\ LoadsOnce(p)
    BY <1>12 DEF Load
  <2>2. /\ UNCHANGED <<experiment, runs, config>> /\ Goto(p, at) /\ Me(p) # NoRun
        /\ Place(Me(p).command, at) /\ Me(p).at \notin Past
    BY <1>0, <1>12 DEF Load, Versions
  <2>3. WritesOnce(p, at \in Past)
    BY <2>1
  <2> HIDE DEF Place, WritesOnce, LoadsOnce, Past, at
  <2> QED
    BY <2>1, <2>2, <2>3, GoesOn
<1>13. CASE evaluate_recording(p)
  BY <1>0, <1>13 DEF evaluate_recording, Begins
<1>14. CASE evaluate_action_proposal(p)
  BY <1>0, <1>14 DEF evaluate_action_proposal, Begins
<1>15. CASE LoadInPlace(p)
  <2>1. WritesOnce(p, FALSE) /\ LoadsOnce(p)
    BY <1>15 DEF LoadInPlace
  <2>2. /\ UNCHANGED <<experiment, runs, config>> /\ Goto(p, "scoring") /\ Me(p) # NoRun
        /\ Place(Me(p).command, "scoring") /\ Me(p).at \notin Past
    BY <1>0, <1>15 DEF LoadInPlace
  <2>3. WritesOnce(p, "scoring" \in Past)
    BY <2>1
  <2> HIDE DEF Place, WritesOnce, LoadsOnce, Past
  <2> QED
    BY <2>1, <2>2, <2>3, GoesOn
<1>16. CASE WriteEvaluation(p)
  BY <1>0, <1>16, GoesOn, GoesAway DEF WriteEvaluation
<1> QED
  BY <1>1, <1>2, <1>3, <1>4, <1>5, <1>6, <1>7, <1>8, <1>9, <1>10, <1>11, <1>12, <1>13, <1>14,
     <1>15, <1>16 DEF Evaluate

LEMMA JudgeSteps ==
  ASSUME IInvRuns, NEW p \in Processes, Judge(p)
  PROVE Begins(p) \/ Continues(p)
<1>0. /\ Me(p) = NoRun => Me(p).at = "idle" /\ Me(p).command = "none"
      /\ Me(p) # NoRun => Place(Me(p).command, Me(p).at)
      /\ Me(p).at \in {"authorizing", "baseline", "router", "selected"} =>
           Me(p).command = "canonical"
      /\ Me(p).at = "loading" => Me(p).command \in {"R", "canonical", "evaluate-train", "v1", "v2"}
      /\ Me(p).at = "validating" => Me(p).command \in {"readiness", "followup"}
      /\ Me(p).at \in {"claiming", "opening", "populations"} => Me(p).command \in Versions
      /\ Me(p).command \in Versions => experiment = "residual"
      /\ Me(p).command = "canonical" => experiment \in {"conditioning", "routing"}
      /\ Me(p).command = "followup" => experiment = "insertion"
  BY Standing
<1> USE DEF Place, PlacesOf, Places, CommandsOf, History, WritesOnce, LoadsOnce, Past, Residual
<1>1. CASE conditioning_summarize_canary(p)
  BY <1>0, <1>1 DEF conditioning_summarize_canary, Begins
<1>2. CASE summarize_canary(p)
  BY <1>0, <1>2 DEF summarize_canary, Begins
<1>3. CASE WriteSummary(p)
  BY <1>0, <1>3, GoesAway DEF WriteSummary
<1>4. CASE validate_insertion_adapter(p)
  BY <1>0, <1>4 DEF validate_insertion_adapter, Begins
<1>5. CASE _summarize_insertion_world_model_readiness(p)
  BY <1>0, <1>5, GoesAway DEF _summarize_insertion_world_model_readiness
<1>6. CASE validate_proposal_identity(p)
  BY <1>0, <1>6 DEF validate_proposal_identity, Begins
<1>7. CASE validate_evaluation(p)
  <2>1. WritesOnce(p, FALSE) /\ LoadsOnce(p)
    BY <1>7 DEF validate_evaluation
  <2>2. /\ UNCHANGED <<experiment, runs, config>> /\ Goto(p, "judging") /\ Me(p) # NoRun
        /\ Place(Me(p).command, "judging") /\ Me(p).at \notin Past
    BY <1>0, <1>7, NoReport DEF IInvRuns, validate_evaluation
  <2>3. WritesOnce(p, "judging" \in Past)
    BY <2>1
  <2> HIDE DEF Place, WritesOnce, LoadsOnce, Past
  <2> QED
    BY <2>1, <2>2, <2>3, GoesOn
<1>8. CASE build_proposal_readiness(p)
  <2>1. CASE experiment = "task"
    BY <1>0, <1>8, <2>1, GoesAway DEF build_proposal_readiness
  <2>2. CASE experiment # "task"
    BY <1>8, <2>2 DEF build_proposal_readiness, Begins
  <2> QED
    BY <2>1, <2>2
<1>9. CASE WriteReadiness(p)
  BY <1>0, <1>9, GoesAway DEF WriteReadiness
<1>10. CASE adjudicate(p)
  BY <1>0, <1>10 DEF adjudicate, Begins
<1>11. CASE adjudicate_report(p)
  BY <1>0, <1>11, GoesAway DEF adjudicate_report
<1> QED
  BY <1>1, <1>2, <1>3, <1>4, <1>5, <1>6, <1>7, <1>8, <1>9, <1>10, <1>11 DEF Judge

LEMMA HeldOutSteps ==
  ASSUME IInvRuns, NEW p \in Processes, HeldOut(p)
  PROVE Begins(p) \/ Continues(p)
<1>0. /\ Me(p) = NoRun => Me(p).at = "idle" /\ Me(p).command = "none"
      /\ Me(p) # NoRun => Place(Me(p).command, Me(p).at)
      /\ Me(p).at \in {"authorizing", "baseline", "router", "selected"} =>
           Me(p).command = "canonical"
      /\ Me(p).at = "loading" => Me(p).command \in {"R", "canonical", "evaluate-train", "v1", "v2"}
      /\ Me(p).at = "validating" => Me(p).command \in {"readiness", "followup"}
      /\ Me(p).at \in {"claiming", "opening", "populations"} => Me(p).command \in Versions
      /\ Me(p).command \in Versions => experiment = "residual"
      /\ Me(p).command = "canonical" => experiment \in {"conditioning", "routing"}
      /\ Me(p).command = "followup" => experiment = "insertion"
  BY Standing
<1> USE DEF Place, PlacesOf, Places, CommandsOf, History, WritesOnce, LoadsOnce, Past, Residual
<1>1. CASE held_out_evaluate(p)
  BY <1>0, <1>1 DEF held_out_evaluate, Begins
<1>2. CASE _authenticate_before_claim(p)
  BY <1>0, <1>2 DEF _authenticate_before_claim, Begins
<1>3. CASE ClaimAccess(p)
  <2>1. WritesOnce(p, TRUE) /\ LoadsOnce(p)
    BY <1>3 DEF Versions, ClaimAccess, _claim_canonical_access
  <2>2. /\ UNCHANGED <<experiment, runs, config>> /\ Goto(p, "opening") /\ Me(p) # NoRun
        /\ Place(Me(p).command, "opening") /\ "opening" \in Past
    BY <1>0, <1>3 DEF Versions, ClaimAccess, _claim_canonical_access
  <2>3. WritesOnce(p, "opening" \in Past)
    BY <2>1
  <2> HIDE DEF Place, WritesOnce, LoadsOnce, Past
  <2> QED
    BY <2>1, <2>2, <2>3, GoesOn
<1>4. CASE _authenticate_recordings(p)
  <2>1. WritesOnce(p, TRUE) /\ LoadsOnce(p)
    BY <1>4 DEF Versions, _authenticate_recordings
  <2>2. /\ UNCHANGED <<experiment, runs, config>> /\ Goto(p, "populations") /\ Me(p) # NoRun
        /\ Place(Me(p).command, "populations") /\ "populations" \in Past
    BY <1>0, <1>4 DEF Versions, _authenticate_recordings
  <2>3. WritesOnce(p, "populations" \in Past)
    BY <2>1
  <2> HIDE DEF Place, WritesOnce, LoadsOnce, Past
  <2> QED
    BY <2>1, <2>2, <2>3, GoesOn
<1>5. CASE evaluate_population_gate(p)
  BY <1>0, <1>5, GoesAway DEF evaluate_population_gate
<1> QED
  BY <1>1, <1>2, <1>3, <1>4, <1>5 DEF HeldOut

LEMMA FailSteps ==
  ASSUME IInvRuns, NEW p \in Processes, Fail(p)
  PROVE Begins(p) \/ Continues(p)
<1>0. /\ Me(p) = NoRun => Me(p).at = "idle" /\ Me(p).command = "none"
      /\ Me(p) # NoRun => Place(Me(p).command, Me(p).at)
      /\ Me(p).at \in {"authorizing", "baseline", "router", "selected"} =>
           Me(p).command = "canonical"
      /\ Me(p).at = "loading" => Me(p).command \in {"R", "canonical", "evaluate-train", "v1", "v2"}
      /\ Me(p).at = "validating" => Me(p).command \in {"readiness", "followup"}
      /\ Me(p).at \in {"claiming", "opening", "populations"} => Me(p).command \in Versions
      /\ Me(p).command \in Versions => experiment = "residual"
      /\ Me(p).command = "canonical" => experiment \in {"conditioning", "routing"}
      /\ Me(p).command = "followup" => experiment = "insertion"
  BY Standing
<1> USE DEF Place, PlacesOf, Places, CommandsOf, History, WritesOnce, LoadsOnce, Past, Residual
<1>1. CASE \E command \in {"train", "evaluate-train"} \cup Versions : Refuse(p, command)
  BY <1>0, <1>1 DEF Refuse, Versions, Residual, Begins
<1>2. CASE Raise(p)
  BY <1>0, <1>2, GoesOn, GoesAway DEF Raise, Residual
<1>3. CASE _write_failure_record(p)
  BY <1>0, <1>3, GoesAway DEF _write_failure_record
<1>4. CASE _write_failure(p)
  BY <1>0, <1>4, GoesAway DEF _write_failure
<1>5. CASE Die(p)
  BY <1>0, <1>5, GoesAway DEF Die
<1> QED
  BY <1>1, <1>2, <1>3, <1>4, <1>5 DEF Fail

LEMMA PlanSteps ==
  ASSUME IInvRuns, NEW p \in Processes, Plan(p)
  PROVE Begins(p) \/ Continues(p)
<1>0. /\ Me(p) = NoRun => Me(p).at = "idle" /\ Me(p).command = "none"
      /\ Me(p) # NoRun => Place(Me(p).command, Me(p).at)
      /\ Me(p).at \in {"authorizing", "baseline", "router", "selected"} =>
           Me(p).command = "canonical"
      /\ Me(p).at = "loading" => Me(p).command \in {"R", "canonical", "evaluate-train", "v1", "v2"}
      /\ Me(p).at = "validating" => Me(p).command \in {"readiness", "followup"}
      /\ Me(p).at \in {"claiming", "opening", "populations"} => Me(p).command \in Versions
      /\ Me(p).command \in Versions => experiment = "residual"
      /\ Me(p).command = "canonical" => experiment \in {"conditioning", "routing"}
      /\ Me(p).command = "followup" => experiment = "insertion"
  BY Standing
<1> USE DEF Place, PlacesOf, Places, CommandsOf, History, WritesOnce, LoadsOnce, Past, Residual
<1>1. CASE BenchmarkInitialization(p)
  BY <1>0, <1>1 DEF BenchmarkInitialization, Begins
<1>2. CASE LoadProposal(p)
  <2>1. WritesOnce(p, FALSE) /\ LoadsOnce(p)
    BY <1>2 DEF LoadProposal
  <2>2. /\ UNCHANGED <<experiment, runs, config>> /\ Goto(p, "planning") /\ Me(p) # NoRun
        /\ Place(Me(p).command, "planning") /\ Me(p).at \notin Past
    BY <1>0, <1>2 DEF LoadProposal
  <2>3. WritesOnce(p, "planning" \in Past)
    BY <2>1
  <2> HIDE DEF Place, WritesOnce, LoadsOnce, Past
  <2> QED
    BY <2>1, <2>2, <2>3, GoesOn
<1>3. CASE benchmark_recording(p)
  <2>1. \E says : Write(Kept[Me(p).artifact], Me(p).artifact, says, <<>>, p)
    BY <1>3 DEF benchmark_recording, PlannerBenchmarkReport, Write, Doc
  <2> QED
    BY <1>0, <1>3, <2>1, GoesAway DEF benchmark_recording
<1>4. CASE validate_insertion_proposal(p)
  BY <1>0, <1>4 DEF validate_insertion_proposal, Begins
<1>5. CASE summarize_insertion_planner_readiness(p)
  BY <1>0, <1>5, GoesAway DEF summarize_insertion_planner_readiness
<1> QED
  BY <1>1, <1>2, <1>3, <1>4, <1>5 DEF Plan

LEMMA GraspSteps ==
  ASSUME IInvRuns, NEW p \in Processes, Grasp(p)
  PROVE Begins(p) \/ Continues(p)
<1>0. /\ Me(p) = NoRun => Me(p).at = "idle" /\ Me(p).command = "none"
      /\ Me(p) # NoRun => Place(Me(p).command, Me(p).at)
      /\ Me(p).at \in {"authorizing", "baseline", "router", "selected"} =>
           Me(p).command = "canonical"
      /\ Me(p).at = "loading" => Me(p).command \in {"R", "canonical", "evaluate-train", "v1", "v2"}
      /\ Me(p).at = "validating" => Me(p).command \in {"readiness", "followup"}
      /\ Me(p).at \in {"claiming", "opening", "populations"} => Me(p).command \in Versions
      /\ Me(p).command \in Versions => experiment = "residual"
      /\ Me(p).command = "canonical" => experiment \in {"conditioning", "routing"}
      /\ Me(p).command = "followup" => experiment = "insertion"
  BY Standing
<1> USE DEF Place, PlacesOf, Places, CommandsOf, History, WritesOnce, LoadsOnce, Past, Residual
<1>1. CASE StartRollout(p)
  BY <1>0, <1>1 DEF StartRollout, Begins
<1>2. CASE EndRollout(p)
  BY <1>0, <1>2, GoesAway DEF EndRollout
<1>3. CASE report_control_baselines(p)
  BY <1>0, <1>3 DEF report_control_baselines, Begins
<1>4. CASE WriteBaselines(p)
  BY <1>0, <1>4, GoesAway DEF WriteBaselines
<1>5. CASE GraspControlReadinessSummary(p)
  BY <1>0, <1>5 DEF GraspControlReadinessSummary, Begins
<1>6. CASE WriteGraspReadiness(p)
  BY <1>0, <1>6, GoesAway DEF WriteGraspReadiness
<1>7. CASE load_verified(p)
  BY <1>0, <1>7 DEF load_verified, Begins
<1>8. CASE load_container_reconstruction(p)
  <2> DEFINE r == [command |-> Me(p).command, at |-> "recording", id |-> Me(p).id,
                   artifact |-> Me(p).artifact, source |-> load_persisted]
  <2>1. process' = [process EXCEPT ![p] = r]
    <3>1. process' = [process EXCEPT ![p] =
            [[process[p] EXCEPT !.at = "recording"] EXCEPT !.source = load_persisted]]
      BY <1>8 DEF load_container_reconstruction
    <3>2. IsRun(process[p])
      BY DEF IInvRuns, Running, Me
    <3> QED
      BY <3>1, <3>2, Rewritten DEF Me
  <2>2. IsRun(r) /\ r.id = Me(p).id /\ Place(r.command, r.at)
    BY <1>0, <1>8 DEF IsRun, load_container_reconstruction
  <2> QED
    BY <1>0, <1>8, <2>1, <2>2 DEF load_container_reconstruction, Continues, ContinuesAs
<1>9. CASE record_grasp_demo(p)
  BY <1>0, <1>9, GoesAway DEF record_grasp_demo
<1> QED
  BY <1>1, <1>2, <1>3, <1>4, <1>5, <1>6, <1>7, <1>8, <1>9 DEF Grasp

LEMMA InsertSteps ==
  ASSUME IInvRuns, NEW p \in Processes, Insert(p)
  PROVE Begins(p) \/ Continues(p)
<1>0. /\ Me(p) = NoRun => Me(p).at = "idle" /\ Me(p).command = "none"
      /\ Me(p) # NoRun => Place(Me(p).command, Me(p).at)
      /\ Me(p).at \in {"authorizing", "baseline", "router", "selected"} =>
           Me(p).command = "canonical"
      /\ Me(p).at = "loading" => Me(p).command \in {"R", "canonical", "evaluate-train", "v1", "v2"}
      /\ Me(p).at = "validating" => Me(p).command \in {"readiness", "followup"}
      /\ Me(p).at \in {"claiming", "opening", "populations"} => Me(p).command \in Versions
      /\ Me(p).command \in Versions => experiment = "residual"
      /\ Me(p).command = "canonical" => experiment \in {"conditioning", "routing"}
      /\ Me(p).command = "followup" => experiment = "insertion"
  BY Standing
<1> USE DEF Place, PlacesOf, Places, CommandsOf, History, WritesOnce, LoadsOnce, Past, Residual
<1>1. CASE finetune_insertion_transition(p)
  BY <1>0, <1>1 DEF finetune_insertion_transition, Begins
<1>2. CASE load_action_proposal(p)
  <2>1. WritesOnce(p, FALSE) /\ LoadsOnce(p)
    BY <1>2 DEF load_action_proposal
  <2>2. /\ UNCHANGED <<experiment, runs, config>> /\ Goto(p, "optimizing") /\ Me(p) # NoRun
        /\ Place(Me(p).command, "optimizing") /\ Me(p).at \notin Past
    BY <1>0, <1>2 DEF load_action_proposal
  <2>3. WritesOnce(p, "optimizing" \in Past)
    BY <2>1
  <2> HIDE DEF Place, WritesOnce, LoadsOnce, Past
  <2> QED
    BY <2>1, <2>2, <2>3, GoesOn
<1>3. CASE save_action_proposal(p)
  <2>1. PICK says \in {"trained", "failed"} :
          /\ Write("child", 0, says, Me(p).source.from, p)
          /\ process' = [process EXCEPT ![p].at = "reporting", ![p].source.says = says]
    BY <1>3 DEF save_action_proposal
  <2> DEFINE source == [process[p].source EXCEPT !.says = says]
             r == [command |-> Me(p).command, at |-> "reporting", id |-> Me(p).id,
                   artifact |-> Me(p).artifact, source |-> source]
  <2>2. process' = [process EXCEPT ![p] = r]
    <3>1. process' = [process EXCEPT ![p] =
            [[process[p] EXCEPT !.at = "reporting"] EXCEPT !.source = source]]
      BY <2>1
    <3>2. IsRun(process[p])
      BY DEF IInvRuns, Running, Me
    <3> QED
      BY <3>1, <3>2, Rewritten DEF Me
  <2>3. IsRun(r) /\ r.id = Me(p).id /\ Place(r.command, r.at) /\ r.at \in Past
    BY <1>0, <1>3 DEF IsRun, save_action_proposal
  <2> QED
    BY <1>0, <1>3, <2>1, <2>2, <2>3 DEF save_action_proposal, Continues, ContinuesAs
<1>4. CASE WriteFinetuneReport(p)
  BY <1>0, <1>4, GoesAway DEF WriteFinetuneReport
<1>5. CASE write_insertion_proposal_handoff(p)
  BY <1>0, <1>5 DEF write_insertion_proposal_handoff, Begins
<1>6. CASE persist_insertion_proposal_handoff(p)
  BY <1>0, <1>6, GoesAway DEF persist_insertion_proposal_handoff
<1>7. CASE AnswerFollowup(p)
  BY <1>0, <1>7 DEF AnswerFollowup, Begins
<1>8. CASE ValidateFollowup(p)
  BY <1>0, <1>8, GoesAway DEF ValidateFollowup
<1> QED
  BY <1>1, <1>2, <1>3, <1>4, <1>5, <1>6, <1>7, <1>8 DEF Insert

Step(p) ==
  \/ Train(p) \/ Evaluate(p) \/ Judge(p) \/ HeldOut(p) \/ Fail(p)
  \/ Plan(p) \/ Grasp(p) \/ Insert(p)

LEMMA Stepped ==
  ASSUME IInvRuns, NEW p \in Processes, Step(p)
  PROVE IInvRuns' /\ Frame(p)
<1>1. Begins(p) \/ Continues(p)
  BY TrainSteps, EvaluateSteps, JudgeSteps, HeldOutSteps, FailSteps, PlanSteps, GraspSteps,
     InsertSteps DEF Step
<1> QED
  BY <1>1, Begun, Continued

\* A commit changes nothing but the configuration ...
LEMMA Committed ==
  ASSUME IInvRuns, Commit
  PROVE IInvRuns' /\ UNCHANGED <<experiment, file, process, runs, History>>
<1>1. UNCHANGED <<experiment, file, process, runs, History>>
  BY DEF Commit
<1>2. IsConfig(config')
  BY DEF Commit, IsConfig, Unset, IInvRuns, Remembered
<1> QED
  BY <1>1, <1>2 DEF IInvRuns, Counted, Filed, Running, Remembered, History, There, Used, Me, Place

\* ... and an answer leaves one session, under the next number.
LEMMA AnsweredOnce ==
  ASSUME IInvRuns, NEW path \in Paths, NEW previous, NEW reachable,
         AnswerSession(path, previous, reachable)
  PROVE /\ IInvRuns' /\ runs' = runs + 1 /\ runs + 1 \in 1 .. 6
        /\ \A n \in FilesOf[experiment] :
             file'[n] = IF n = Kept[runs + 1]
                        THEN Doc(runs + 1, Now(path), path, <<previous, reachable>>) ELSE file[n]
        /\ \A x \in 1 .. runs : Used(x) => Used(x)'
<1> DEFINE d == Doc(runs + 1, Now(path), path, <<previous, reachable>>)
<1>1. /\ file' = [file EXCEPT ![Kept[runs + 1]] = d] /\ runs' = runs + 1
      /\ runs < MaxRuns[experiment]
      /\ UNCHANGED <<experiment, process, config, loaded>>
  BY DEF AnswerSession, History
<1>2. d.by = runs + 1
  BY DEF Doc
<1> HIDE DEF d
<1>3. runs \in Nat /\ MaxRuns[experiment] \in 0 .. 6 /\ runs + 1 \in 1 .. 6
      /\ runs + 1 \in 0 .. MaxRuns[experiment]
  BY <1>1, NumberOfRuns DEF IInvRuns
<1>4. /\ file' = [n \in FilesOf[experiment] |-> file'[n]]
      /\ \A n \in FilesOf[experiment] : file'[n] = IF n = Kept[runs + 1] THEN d ELSE file[n]
  BY <1>1 DEF IInvRuns, Filed
<1>5. \A x \in 1 .. runs : Used(x) => Used(x)'
  BY <1>1, <1>3 DEF Used, Me
<1>6. \A p \in Processes : Me(p).id # runs + 1
  BY <1>3, Standing
<1>7. Filed'
  <2>1. ASSUME NEW n \in FilesOf[experiment] PROVE file'[n].by \in 0 .. runs + 1
    <3>1. file[n].by \in 0 .. runs
      BY DEF IInvRuns, Filed
    <3>2. file'[n].by = runs + 1 \/ file'[n].by = file[n].by
      BY <1>2, <1>4
    <3> QED
      BY <1>3, <3>1, <3>2
  <2>2. ASSUME NEW n \in FilesOf[experiment] \ {"state"}, file'[n].by # 0
        PROVE /\ file'[n].by \in 1 .. runs + 1
              /\ \A q \in Processes : process[q].id = file'[n].by => process[q].at \in Past
    <3>1. CASE n = Kept[runs + 1]
      BY <1>2, <1>3, <1>4, <1>6, <3>1 DEF Me
    <3>2. CASE n # Kept[runs + 1]
      <4>1. file'[n] = file[n] /\ n \in DOMAIN file
        BY <1>4, <3>2 DEF IInvRuns, Filed
      <4>2. Used(file[n].by)
        BY <2>2, <4>1 DEF IInvRuns, Filed, There
      <4> QED
        BY <1>3, <4>1, <4>2 DEF Used, Me
    <3> QED
      BY <3>1, <3>2
  <2> QED
    BY <1>1, <1>4, <2>1, <2>2 DEF Filed, There, Used, Me
<1>8. Running'
  BY <1>1, <1>3 DEF IInvRuns, Running, Place, Me
<1>9. Counted' /\ Remembered'
  BY <1>1, <1>3 DEF IInvRuns, Counted, Remembered
<1> QED
  BY <1>1, <1>3, <1>4, <1>5, <1>7, <1>8, <1>9 DEF IInvRuns, d
ReportingStep(p) ==
  \/ train_treatment(p) \/ train_router(p) \/ observed_train_router(p) \/ train_residual(p)
  \/ save_action_conditioning(p) \/ WriteTrainingReport(p) \/ write_run_state(p)
  \/ preflight(p) \/ observed_preflight(p) \/ residual_preflight(p)
  \/ (\E name \in {"A", "R", "canonical"} : evaluate_treatment(p, name))
  \/ (\E name \in {"A", "R", "canonical"} : evaluate(p, name)) \/ _authorize_evaluation(p)
  \/ evaluate_train(p) \/ observed_evaluate_train(p) \/ Load(p) \/ WriteEvaluation(p)
  \/ conditioning_summarize_canary(p) \/ summarize_canary(p) \/ WriteSummary(p)
  \/ adjudicate(p) \/ adjudicate_report(p) \/ held_out_evaluate(p)
  \/ _authenticate_before_claim(p) \/ ClaimAccess(p) \/ _authenticate_recordings(p)
  \/ evaluate_population_gate(p)
  \/ (\E command \in {"train", "evaluate-train"} \cup Versions : Refuse(p, command))
  \/ Raise(p) \/ _write_failure_record(p) \/ _write_failure(p) \/ Die(p)

LEMMA ReportingActions ==
  ASSUME IInvRuns, NEW p \in Processes, Step(p),
         experiment \in {"conditioning", "routing", "observed", "residual"}
  PROVE ReportingStep(p)
<1>1. \/ /\ Place(Me(p).command, Me(p).at)
         /\ Me(p).command \in {"train", "A", "R", "canonical", "summarize", "preflight",
              "evaluate-train", "adjudicate", "v1", "v2"}
      \/ Me(p).command = "none" /\ Me(p).at = "idle"
  BY Standing DEF Place, CommandsOf
<1>2. Me(p).at \in {"entering", "training", "reporting", "leaving", "refused", "scoring",
        "loading", "authorizing", "baseline", "router", "selected", "judging", "claiming",
        "opening", "populations", "idle"}
  BY <1>1 DEF Place, PlacesOf, Places, Residual
<1>3. CASE Train(p)
  BY <1>1, <1>2, <1>3 DEF Train, adapt_recordings, train_action_proposal, ReportingStep,
     Residual, Versions
<1>4. CASE Evaluate(p)
  BY <1>1, <1>2, <1>4 DEF Evaluate, physical_probe, causal_preflight, causal_probe,
     evaluate_recording, evaluate_action_proposal, LoadInPlace, ReportingStep, Residual,
     Versions
<1>5. CASE Judge(p)
  BY <1>1, <1>2, <1>5 DEF Judge, validate_insertion_adapter,
     _summarize_insertion_world_model_readiness, validate_proposal_identity,
     validate_evaluation, build_proposal_readiness, WriteReadiness, ReportingStep
<1>6. CASE HeldOut(p)
  BY <1>1, <1>2, <1>6 DEF HeldOut, ReportingStep, Residual, Versions
<1>7. CASE Fail(p)
  BY <1>1, <1>2, <1>7 DEF Fail, ReportingStep, Residual, Versions
<1>8. CASE Plan(p)
  BY <1>1, <1>2, <1>8 DEF Plan, BenchmarkInitialization, LoadProposal, benchmark_recording,
     validate_insertion_proposal, summarize_insertion_planner_readiness, ReportingStep
<1>9. CASE Grasp(p)
  BY <1>1, <1>2, <1>9 DEF Grasp, StartRollout, EndRollout, report_control_baselines,
     WriteBaselines, GraspControlReadinessSummary, WriteGraspReadiness, load_verified,
     load_container_reconstruction, record_grasp_demo, ReportingStep
<1>10. CASE Insert(p)
  BY <1>1, <1>2, <1>10 DEF Insert, finetune_insertion_transition, load_action_proposal,
     save_action_proposal, WriteFinetuneReport, write_insertion_proposal_handoff,
     persist_insertion_proposal_handoff, AnswerFollowup, ValidateFollowup, ReportingStep
<1> QED
  BY <1>3, <1>4, <1>5, <1>6, <1>7, <1>8, <1>9, <1>10 DEF Step

RoutingStep(p) ==
  \/ train_router(p) \/ save_action_conditioning(p) \/ WriteTrainingReport(p)
  \/ preflight(p) \/ (\E name \in {"A", "R", "canonical"} : evaluate(p, name))
  \/ _authorize_evaluation(p) \/ Load(p) \/ WriteEvaluation(p) \/ summarize_canary(p)
  \/ WriteSummary(p) \/ Raise(p) \/ Die(p)

LEMMA RoutingActions ==
  ASSUME IInvRuns, NEW p \in Processes, Step(p),
         experiment = "routing"
  PROVE RoutingStep(p)
<1>1. \/ /\ Place(Me(p).command, Me(p).at)
         /\ Me(p).command \in {"train", "preflight", "A", "R", "canonical", "summarize"}
      \/ Me(p).command = "none" /\ Me(p).at = "idle"
  BY Standing DEF Place, CommandsOf
<1>2. Me(p).at \in {"training", "reporting", "scoring", "loading", "authorizing", "baseline", "router", "selected", "judging",
        "idle"}
  BY <1>1 DEF Place, PlacesOf, Places, Residual
<1>3. CASE Train(p)
  BY <1>1, <1>2, <1>3 DEF Train, train_treatment, observed_train_router, train_residual,
     adapt_recordings, train_action_proposal, write_run_state, RoutingStep, Residual, Versions
<1>4. CASE Evaluate(p)
  BY <1>1, <1>2, <1>4 DEF Evaluate, observed_preflight, residual_preflight, physical_probe,
     causal_preflight, causal_probe, evaluate_treatment, evaluate_train,
     observed_evaluate_train, evaluate_recording, evaluate_action_proposal, LoadInPlace,
     RoutingStep, Residual, Versions
<1>5. CASE Judge(p)
  BY <1>1, <1>2, <1>5 DEF Judge, conditioning_summarize_canary, validate_insertion_adapter,
     _summarize_insertion_world_model_readiness, validate_proposal_identity,
     validate_evaluation, build_proposal_readiness, WriteReadiness, adjudicate,
     adjudicate_report, RoutingStep
<1>6. CASE HeldOut(p)
  BY <1>1, <1>2, <1>6 DEF HeldOut, held_out_evaluate, _authenticate_before_claim, ClaimAccess,
     _authenticate_recordings, evaluate_population_gate, RoutingStep, Residual, Versions
<1>7. CASE Fail(p)
  BY <1>1, <1>2, <1>7 DEF Fail, Refuse, _write_failure_record, _write_failure, RoutingStep,
     Residual, Versions
<1>8. CASE Plan(p)
  BY <1>1, <1>2, <1>8 DEF Plan, BenchmarkInitialization, LoadProposal, benchmark_recording,
     validate_insertion_proposal, summarize_insertion_planner_readiness, RoutingStep
<1>9. CASE Grasp(p)
  BY <1>1, <1>2, <1>9 DEF Grasp, StartRollout, EndRollout, report_control_baselines,
     WriteBaselines, GraspControlReadinessSummary, WriteGraspReadiness, load_verified,
     load_container_reconstruction, record_grasp_demo, RoutingStep
<1>10. CASE Insert(p)
  BY <1>1, <1>2, <1>10 DEF Insert, finetune_insertion_transition, load_action_proposal,
     save_action_proposal, WriteFinetuneReport, write_insertion_proposal_handoff,
     persist_insertion_proposal_handoff, AnswerFollowup, ValidateFollowup, RoutingStep
<1> QED
  BY <1>3, <1>4, <1>5, <1>6, <1>7, <1>8, <1>9, <1>10 DEF Step

AdapterStep(p) ==
  \/ adapt_recordings(p) \/ save_action_conditioning(p) \/ WriteTrainingReport(p)
  \/ evaluate_recording(p) \/ LoadInPlace(p) \/ WriteEvaluation(p)
  \/ validate_insertion_adapter(p) \/ _summarize_insertion_world_model_readiness(p)
  \/ Raise(p) \/ Die(p)

LEMMA AdapterActions ==
  ASSUME IInvRuns, NEW p \in Processes, Step(p),
         experiment = "adapter"
  PROVE AdapterStep(p)
<1>1. \/ /\ Place(Me(p).command, Me(p).at)
         /\ Me(p).command \in {"train", "R", "readiness"}
      \/ Me(p).command = "none" /\ Me(p).at = "idle"
  BY Standing DEF Place, CommandsOf
<1>2. Me(p).at \in {"training", "reporting", "reading", "scoring", "judging", "selecting",
        "summarizing", "idle"}
  BY <1>1 DEF Place, PlacesOf, Places, Residual
<1>3. CASE Train(p)
  BY <1>1, <1>2, <1>3 DEF Train, train_treatment, train_router, observed_train_router,
     train_residual, train_action_proposal, write_run_state, AdapterStep, Residual, Versions
<1>4. CASE Evaluate(p)
  BY <1>1, <1>2, <1>4 DEF Evaluate, preflight, observed_preflight, residual_preflight,
     physical_probe, causal_preflight, causal_probe, evaluate_treatment, evaluate,
     _authorize_evaluation,
     ReadsCanarySummary, ReadsBaselineReport, ReadsRouterReport, SelectsRouter, evaluate_train, observed_evaluate_train, Load,
     evaluate_action_proposal, AdapterStep, Residual, Versions
<1>5. CASE Judge(p)
  BY <1>1, <1>2, <1>5 DEF Judge, conditioning_summarize_canary, summarize_canary, WriteSummary,
     validate_proposal_identity, validate_evaluation, build_proposal_readiness, WriteReadiness,
     adjudicate, adjudicate_report, AdapterStep
<1>6. CASE HeldOut(p)
  BY <1>1, <1>2, <1>6 DEF HeldOut, held_out_evaluate, _authenticate_before_claim, ClaimAccess,
     _authenticate_recordings, evaluate_population_gate, AdapterStep, Residual, Versions
<1>7. CASE Fail(p)
  BY <1>1, <1>2, <1>7 DEF Fail, Refuse, _write_failure_record, _write_failure, AdapterStep,
     Residual, Versions
<1>8. CASE Plan(p)
  BY <1>1, <1>2, <1>8 DEF Plan, BenchmarkInitialization, LoadProposal, benchmark_recording,
     validate_insertion_proposal, summarize_insertion_planner_readiness, AdapterStep
<1>9. CASE Grasp(p)
  BY <1>1, <1>2, <1>9 DEF Grasp, StartRollout, EndRollout, report_control_baselines,
     WriteBaselines, GraspControlReadinessSummary, WriteGraspReadiness, load_verified,
     load_container_reconstruction, record_grasp_demo, AdapterStep
<1>10. CASE Insert(p)
  BY <1>1, <1>2, <1>10 DEF Insert, finetune_insertion_transition, load_action_proposal,
     save_action_proposal, WriteFinetuneReport, write_insertion_proposal_handoff,
     persist_insertion_proposal_handoff, AnswerFollowup, ValidateFollowup, AdapterStep
<1> QED
  BY <1>3, <1>4, <1>5, <1>6, <1>7, <1>8, <1>9, <1>10 DEF Step

PhysicalStep(p) ==
  \/ train_residual(p) \/ save_action_conditioning(p) \/ WriteTrainingReport(p)
  \/ write_run_state(p) \/ residual_preflight(p) \/ physical_probe(p) \/ WriteEvaluation(p)
  \/ (\E command \in {"train", "evaluate-train"} \cup Versions : Refuse(p, command))
  \/ Raise(p) \/ _write_failure_record(p) \/ Die(p)

LEMMA PhysicalActions ==
  ASSUME IInvRuns, NEW p \in Processes, Step(p),
         experiment = "physical"
  PROVE PhysicalStep(p)
<1>1. \/ /\ Place(Me(p).command, Me(p).at)
         /\ Me(p).command \in {"train", "preflight", "probe"}
      \/ Me(p).command = "none" /\ Me(p).at = "idle"
  BY Standing DEF Place, CommandsOf
<1>2. Me(p).at \in {"entering", "training", "reporting", "leaving", "refused", "scoring",
        "idle"}
  BY <1>1 DEF Place, PlacesOf, Places, Residual
<1>3. CASE Train(p)
  BY <1>1, <1>2, <1>3 DEF Train, train_treatment, train_router, observed_train_router,
     adapt_recordings, train_action_proposal, PhysicalStep, Residual, Versions
<1>4. CASE Evaluate(p)
  BY <1>1, <1>2, <1>4 DEF Evaluate, preflight, observed_preflight, causal_preflight,
     causal_probe, evaluate_treatment, evaluate, _authorize_evaluation,
     ReadsCanarySummary, ReadsBaselineReport, ReadsRouterReport, SelectsRouter, evaluate_train,
     observed_evaluate_train, Load, evaluate_recording, evaluate_action_proposal, LoadInPlace,
     PhysicalStep, Residual, Versions
<1>5. CASE Judge(p)
  BY <1>1, <1>2, <1>5 DEF Judge, conditioning_summarize_canary, summarize_canary, WriteSummary,
     validate_insertion_adapter, _summarize_insertion_world_model_readiness,
     validate_proposal_identity, validate_evaluation, build_proposal_readiness, WriteReadiness,
     adjudicate, adjudicate_report, PhysicalStep
<1>6. CASE HeldOut(p)
  BY <1>1, <1>2, <1>6 DEF HeldOut, held_out_evaluate, _authenticate_before_claim, ClaimAccess,
     _authenticate_recordings, evaluate_population_gate, PhysicalStep, Residual, Versions
<1>7. CASE Fail(p)
  BY <1>1, <1>2, <1>7 DEF Fail, _write_failure, PhysicalStep, Residual, Versions
<1>8. CASE Plan(p)
  BY <1>1, <1>2, <1>8 DEF Plan, BenchmarkInitialization, LoadProposal, benchmark_recording,
     validate_insertion_proposal, summarize_insertion_planner_readiness, PhysicalStep
<1>9. CASE Grasp(p)
  BY <1>1, <1>2, <1>9 DEF Grasp, StartRollout, EndRollout, report_control_baselines,
     WriteBaselines, GraspControlReadinessSummary, WriteGraspReadiness, load_verified,
     load_container_reconstruction, record_grasp_demo, PhysicalStep
<1>10. CASE Insert(p)
  BY <1>1, <1>2, <1>10 DEF Insert, finetune_insertion_transition, load_action_proposal,
     save_action_proposal, WriteFinetuneReport, write_insertion_proposal_handoff,
     persist_insertion_proposal_handoff, AnswerFollowup, ValidateFollowup, PhysicalStep
<1> QED
  BY <1>3, <1>4, <1>5, <1>6, <1>7, <1>8, <1>9, <1>10 DEF Step

ResidualStep(p) ==
  \/ train_residual(p) \/ save_action_conditioning(p) \/ WriteTrainingReport(p)
  \/ write_run_state(p) \/ residual_preflight(p) \/ evaluate_train(p) \/ Load(p)
  \/ WriteEvaluation(p) \/ adjudicate(p) \/ adjudicate_report(p) \/ held_out_evaluate(p)
  \/ _authenticate_before_claim(p) \/ ClaimAccess(p) \/ _authenticate_recordings(p)
  \/ evaluate_population_gate(p)
  \/ (\E command \in {"train", "evaluate-train"} \cup Versions : Refuse(p, command))
  \/ Raise(p) \/ _write_failure_record(p) \/ _write_failure(p) \/ Die(p)

LEMMA ResidualActions ==
  ASSUME IInvRuns, NEW p \in Processes, Step(p),
         experiment = "residual"
  PROVE ResidualStep(p)
<1>1. \/ /\ Place(Me(p).command, Me(p).at)
         /\ Me(p).command \in {"train", "preflight", "evaluate-train", "adjudicate", "v1", "v2"}
      \/ Me(p).command = "none" /\ Me(p).at = "idle"
  BY Standing DEF Place, CommandsOf
<1>2. Me(p).at \in {"entering", "training", "reporting", "leaving", "refused", "scoring",
        "loading", "judging", "claiming", "opening", "populations", "idle"}
  BY <1>1 DEF Place, PlacesOf, Places, Residual
<1>3. CASE Train(p)
  BY <1>1, <1>2, <1>3 DEF Train, train_treatment, train_router, observed_train_router,
     adapt_recordings, train_action_proposal, ResidualStep, Residual, Versions
<1>4. CASE Evaluate(p)
  BY <1>1, <1>2, <1>4 DEF Evaluate, preflight, observed_preflight, physical_probe,
     causal_preflight, causal_probe, evaluate_treatment, evaluate, _authorize_evaluation,
     ReadsCanarySummary, ReadsBaselineReport, ReadsRouterReport, SelectsRouter,
     observed_evaluate_train, evaluate_recording, evaluate_action_proposal, LoadInPlace,
     ResidualStep, Residual, Versions
<1>5. CASE Judge(p)
  BY <1>1, <1>2, <1>5 DEF Judge, conditioning_summarize_canary, summarize_canary, WriteSummary,
     validate_insertion_adapter, _summarize_insertion_world_model_readiness,
     validate_proposal_identity, validate_evaluation, build_proposal_readiness, WriteReadiness,
     ResidualStep
<1>6. CASE HeldOut(p)
  BY <1>1, <1>2, <1>6 DEF HeldOut, ResidualStep, Residual, Versions
<1>7. CASE Fail(p)
  BY <1>1, <1>2, <1>7 DEF Fail, ResidualStep, Residual, Versions
<1>8. CASE Plan(p)
  BY <1>1, <1>2, <1>8 DEF Plan, BenchmarkInitialization, LoadProposal, benchmark_recording,
     validate_insertion_proposal, summarize_insertion_planner_readiness, ResidualStep
<1>9. CASE Grasp(p)
  BY <1>1, <1>2, <1>9 DEF Grasp, StartRollout, EndRollout, report_control_baselines,
     WriteBaselines, GraspControlReadinessSummary, WriteGraspReadiness, load_verified,
     load_container_reconstruction, record_grasp_demo, ResidualStep
<1>10. CASE Insert(p)
  BY <1>1, <1>2, <1>10 DEF Insert, finetune_insertion_transition, load_action_proposal,
     save_action_proposal, WriteFinetuneReport, write_insertion_proposal_handoff,
     persist_insertion_proposal_handoff, AnswerFollowup, ValidateFollowup, ResidualStep
<1> QED
  BY <1>3, <1>4, <1>5, <1>6, <1>7, <1>8, <1>9, <1>10 DEF Step

PlannerStep(p) ==
  \/ train_action_proposal(p) \/ save_action_conditioning(p) \/ WriteTrainingReport(p)
  \/ Raise(p) \/ Die(p) \/ BenchmarkInitialization(p) \/ LoadProposal(p)
  \/ benchmark_recording(p) \/ validate_insertion_proposal(p)
  \/ summarize_insertion_planner_readiness(p)

LEMMA PlannerActions ==
  ASSUME IInvRuns, NEW p \in Processes, Step(p),
         experiment = "planner"
  PROVE PlannerStep(p)
<1>1. \/ /\ Place(Me(p).command, Me(p).at)
         /\ Me(p).command \in {"train", "benchmark", "readiness"}
      \/ Me(p).command = "none" /\ Me(p).at = "idle"
  BY Standing DEF Place, CommandsOf
<1>2. Me(p).at \in {"training", "reporting", "initialized", "planning", "judging",
        "selecting", "summarizing", "idle"}
  BY <1>1 DEF Place, PlacesOf, Places, Residual
<1>3. CASE Train(p)
  BY <1>1, <1>2, <1>3 DEF Train, train_treatment, train_router, observed_train_router,
     train_residual, adapt_recordings, write_run_state, PlannerStep, Residual, Versions
<1>4. CASE Evaluate(p)
  BY <1>1, <1>2, <1>4 DEF Evaluate, preflight, observed_preflight, residual_preflight,
     physical_probe, causal_preflight, causal_probe, evaluate_treatment, evaluate,
     _authorize_evaluation,
     ReadsCanarySummary, ReadsBaselineReport, ReadsRouterReport, SelectsRouter, evaluate_train, observed_evaluate_train, Load, evaluate_recording,
     evaluate_action_proposal, LoadInPlace, WriteEvaluation, PlannerStep, Residual, Versions
<1>5. CASE Judge(p)
  BY <1>1, <1>2, <1>5 DEF Judge, conditioning_summarize_canary, summarize_canary, WriteSummary,
     validate_insertion_adapter, _summarize_insertion_world_model_readiness,
     validate_proposal_identity, validate_evaluation, build_proposal_readiness, WriteReadiness,
     adjudicate, adjudicate_report, PlannerStep
<1>6. CASE HeldOut(p)
  BY <1>1, <1>2, <1>6 DEF HeldOut, held_out_evaluate, _authenticate_before_claim, ClaimAccess,
     _authenticate_recordings, evaluate_population_gate, PlannerStep, Residual, Versions
<1>7. CASE Fail(p)
  BY <1>1, <1>2, <1>7 DEF Fail, Refuse, _write_failure_record, _write_failure, PlannerStep,
     Residual, Versions
<1>8. CASE Plan(p)
  BY <1>1, <1>2, <1>8 DEF Plan, PlannerStep
<1>9. CASE Grasp(p)
  BY <1>1, <1>2, <1>9 DEF Grasp, StartRollout, EndRollout, report_control_baselines,
     WriteBaselines, GraspControlReadinessSummary, WriteGraspReadiness, load_verified,
     load_container_reconstruction, record_grasp_demo, PlannerStep
<1>10. CASE Insert(p)
  BY <1>1, <1>2, <1>10 DEF Insert, finetune_insertion_transition, load_action_proposal,
     save_action_proposal, WriteFinetuneReport, write_insertion_proposal_handoff,
     persist_insertion_proposal_handoff, AnswerFollowup, ValidateFollowup, PlannerStep
<1> QED
  BY <1>3, <1>4, <1>5, <1>6, <1>7, <1>8, <1>9, <1>10 DEF Step

GraspStep(p) ==
  \/ train_action_proposal(p) \/ save_action_conditioning(p) \/ WriteTrainingReport(p)
  \/ Raise(p) \/ Die(p) \/ StartRollout(p) \/ EndRollout(p) \/ report_control_baselines(p)
  \/ WriteBaselines(p) \/ GraspControlReadinessSummary(p) \/ WriteGraspReadiness(p)
  \/ load_verified(p) \/ load_container_reconstruction(p) \/ record_grasp_demo(p)

LEMMA GraspActions ==
  ASSUME IInvRuns, NEW p \in Processes, Step(p),
         experiment = "grasp"
  PROVE GraspStep(p)
<1>1. \/ /\ Place(Me(p).command, Me(p).at)
         /\ Me(p).command \in {"train", "rollout", "baselines", "readiness", "film"}
      \/ Me(p).command = "none" /\ Me(p).at = "idle"
  BY Standing DEF Place, CommandsOf
<1>2. Me(p).at \in {"training", "reporting", "rolling", "comparing", "judging", "selecting",
        "summarizing", "verified", "recording", "idle"}
  BY <1>1 DEF Place, PlacesOf, Places, Residual
<1>3. CASE Train(p)
  BY <1>1, <1>2, <1>3 DEF Train, train_treatment, train_router, observed_train_router,
     train_residual, adapt_recordings, write_run_state, GraspStep, Residual, Versions
<1>4. CASE Evaluate(p)
  BY <1>1, <1>2, <1>4 DEF Evaluate, preflight, observed_preflight, residual_preflight,
     physical_probe, causal_preflight, causal_probe, evaluate_treatment, evaluate,
     _authorize_evaluation,
     ReadsCanarySummary, ReadsBaselineReport, ReadsRouterReport, SelectsRouter, evaluate_train, observed_evaluate_train, Load, evaluate_recording,
     evaluate_action_proposal, LoadInPlace, WriteEvaluation, GraspStep, Residual, Versions
<1>5. CASE Judge(p)
  BY <1>1, <1>2, <1>5 DEF Judge, conditioning_summarize_canary, summarize_canary, WriteSummary,
     validate_insertion_adapter, _summarize_insertion_world_model_readiness,
     validate_proposal_identity, validate_evaluation, build_proposal_readiness, WriteReadiness,
     adjudicate, adjudicate_report, GraspStep
<1>6. CASE HeldOut(p)
  BY <1>1, <1>2, <1>6 DEF HeldOut, held_out_evaluate, _authenticate_before_claim, ClaimAccess,
     _authenticate_recordings, evaluate_population_gate, GraspStep, Residual, Versions
<1>7. CASE Fail(p)
  BY <1>1, <1>2, <1>7 DEF Fail, Refuse, _write_failure_record, _write_failure, GraspStep,
     Residual, Versions
<1>8. CASE Plan(p)
  BY <1>1, <1>2, <1>8 DEF Plan, BenchmarkInitialization, LoadProposal, benchmark_recording,
     validate_insertion_proposal, summarize_insertion_planner_readiness, GraspStep
<1>9. CASE Grasp(p)
  BY <1>1, <1>2, <1>9 DEF Grasp, GraspStep
<1>10. CASE Insert(p)
  BY <1>1, <1>2, <1>10 DEF Insert, finetune_insertion_transition, load_action_proposal,
     save_action_proposal, WriteFinetuneReport, write_insertion_proposal_handoff,
     persist_insertion_proposal_handoff, AnswerFollowup, ValidateFollowup, GraspStep
<1> QED
  BY <1>3, <1>4, <1>5, <1>6, <1>7, <1>8, <1>9, <1>10 DEF Step

InsertionStep(p) ==
  \/ train_action_proposal(p) \/ save_action_conditioning(p) \/ WriteTrainingReport(p)
  \/ Raise(p) \/ Die(p) \/ finetune_insertion_transition(p) \/ load_action_proposal(p)
  \/ save_action_proposal(p) \/ WriteFinetuneReport(p)
  \/ write_insertion_proposal_handoff(p) \/ persist_insertion_proposal_handoff(p)
  \/ AnswerFollowup(p) \/ ValidateFollowup(p)

LEMMA InsertionActions ==
  ASSUME IInvRuns, NEW p \in Processes, Step(p),
         experiment = "insertion"
  PROVE InsertionStep(p)
<1>1. \/ /\ Place(Me(p).command, Me(p).at)
         /\ Me(p).command \in {"train", "finetune", "handoff", "followup"}
      \/ Me(p).command = "none" /\ Me(p).at = "idle"
  BY Standing DEF Place, CommandsOf
<1>2. Me(p).at \in {"training", "reporting", "parent", "optimizing", "persisting",
        "validating", "idle"}
  BY <1>1 DEF Place, PlacesOf, Places, Residual
<1>3. CASE Train(p)
  BY <1>1, <1>2, <1>3 DEF Train, train_treatment, train_router, observed_train_router,
     train_residual, adapt_recordings, write_run_state, InsertionStep, Residual, Versions
<1>4. CASE Evaluate(p)
  BY <1>1, <1>2, <1>4 DEF Evaluate, preflight, observed_preflight, residual_preflight,
     physical_probe, causal_preflight, causal_probe, evaluate_treatment, evaluate,
     _authorize_evaluation,
     ReadsCanarySummary, ReadsBaselineReport, ReadsRouterReport, SelectsRouter, evaluate_train, observed_evaluate_train, Load, evaluate_recording,
     evaluate_action_proposal, LoadInPlace, WriteEvaluation, InsertionStep, Residual, Versions
<1>5. CASE Judge(p)
  BY <1>1, <1>2, <1>5, NoReport DEF Judge, conditioning_summarize_canary, summarize_canary,
     WriteSummary, validate_insertion_adapter, _summarize_insertion_world_model_readiness,
     validate_proposal_identity, validate_evaluation, build_proposal_readiness, WriteReadiness,
     adjudicate, adjudicate_report, InsertionStep, IInvRuns
<1>6. CASE HeldOut(p)
  BY <1>1, <1>2, <1>6 DEF HeldOut, held_out_evaluate, _authenticate_before_claim, ClaimAccess,
     _authenticate_recordings, evaluate_population_gate, InsertionStep, Residual, Versions
<1>7. CASE Fail(p)
  BY <1>1, <1>2, <1>7 DEF Fail, Refuse, _write_failure_record, _write_failure, InsertionStep,
     Residual, Versions
<1>8. CASE Plan(p)
  BY <1>1, <1>2, <1>8 DEF Plan, BenchmarkInitialization, LoadProposal, benchmark_recording,
     validate_insertion_proposal, summarize_insertion_planner_readiness, InsertionStep
<1>9. CASE Grasp(p)
  BY <1>1, <1>2, <1>9 DEF Grasp, StartRollout, EndRollout, report_control_baselines,
     WriteBaselines, GraspControlReadinessSummary, WriteGraspReadiness, load_verified,
     load_container_reconstruction, record_grasp_demo, InsertionStep
<1>10. CASE Insert(p)
  BY <1>1, <1>2, <1>10 DEF Insert, InsertionStep
<1> QED
  BY <1>3, <1>4, <1>5, <1>6, <1>7, <1>8, <1>9, <1>10 DEF Step


(***************************************************************************)
(* What the parts of a step do, for the proofs below.                      *)
(***************************************************************************)
LEMMA Fields ==
  ASSUME NEW by, NEW of, NEW says, NEW from
  PROVE /\ Doc(by, of, says, from).by = by /\ Doc(by, of, says, from).of = of
        /\ Doc(by, of, says, from).says = says /\ Doc(by, of, says, from).from = from
  BY DEF Doc

LEMMA Entering ==
  ASSUME IInvRuns, NEW p \in Processes, NEW command, NEW at, NEW source,
         Start(p, command, at, source)
  PROVE /\ process'[p].command = command /\ process'[p].at = at /\ process'[p].id = runs + 1
        /\ process'[p].source = source
        /\ There("artifact") => process'[p].artifact = from_artifact("artifact")
        /\ ~There("artifact") => process'[p].artifact = 0
        /\ Me(p) = NoRun /\ runs' = runs + 1
        /\ UNCHANGED <<file, config, opened, measured, loaded>>
  BY DEF Start, IInvRuns, Running

LEMMA Going ==
  ASSUME IInvRuns, NEW p \in Processes, NEW at, Goto(p, at)
  PROVE /\ process'[p].command = Me(p).command /\ process'[p].at = at
        /\ process'[p].id = Me(p).id /\ process'[p].artifact = Me(p).artifact
        /\ process'[p].source = Me(p).source
  BY DEF Goto, Me, IInvRuns, Running, IsRun

LEMMA Leaving ==
  ASSUME IInvRuns, NEW p \in Processes, Finish(p)
  PROVE process'[p] = NoRun /\ NoRun.command = "none" /\ NoRun.at = "idle" /\ NoRun.id = 0
  BY DEF Finish, IInvRuns, Running, NoRun

LEMMA Writing ==
  ASSUME IInvRuns, NEW p \in Processes, NEW n, NEW of, NEW says, NEW from,
         Write(n, of, says, from, p)
  PROVE \A m \in FilesOf[experiment] :
          file'[m] = IF m = n THEN Doc(Me(p).id, of, says, from) ELSE file[m]
  BY DEF Write, IInvRuns, Filed

LEMMA Files ==
  ASSUME IInvRuns
  PROVE /\ DOMAIN file = FilesOf[experiment]
        /\ \A n \in FilesOf[experiment] \ {"state"} : file[n].by # 0 => Used(file[n].by)
        /\ \A n : There(n) <=> n \in FilesOf[experiment] /\ file[n].by # 0
<1>1. DOMAIN file = FilesOf[experiment]
  BY DEF IInvRuns, Filed
<1>2. \A n : There(n) <=> n \in FilesOf[experiment] /\ file[n].by # 0
  BY <1>1 DEF There
<1> QED
  BY <1>1, <1>2 DEF IInvRuns, Filed

(***************************************************************************)
(* Reports: what is scored was loaded before, and the report names it.     *)
(***************************************************************************)
Reporting == experiment \in {"conditioning", "routing", "observed", "residual"}

Scorers == {"R", "canonical", "evaluate-train"} \cup Versions
Scoring == {"entering", "scoring", "claiming", "opening", "populations"}

Scored ==
  Reporting => \A p \in Processes :
    Me(p).command \in Scorers /\ Me(p).at \in Scoring => loaded[Me(p).id] # 0

Reports == {"R", "canonical", "evaluation", Output.v1, Output.v2}

\* A step that begins an invocation begins before its artifact is scored.
LEMMA ReportingBegins ==
  ASSUME IInvRuns, NEW p \in Processes, Reporting, ReportingStep(p), Me(p) = NoRun
  PROVE \E command, at, source : /\ Start(p, command, at, source)
                                 /\ command \notin Scorers \/ at \notin Scoring
<1>1. CASE train_treatment(p)
  BY <1>1 DEF train_treatment, Scorers, Scoring, Versions
<1>2. CASE train_router(p)
  BY <1>2 DEF train_router, Scorers, Scoring, Versions
<1>3. CASE observed_train_router(p)
  BY <1>3 DEF observed_train_router, Scorers, Scoring, Versions
<1>4. CASE train_residual(p)
  BY <1>4 DEF train_residual, Scorers, Scoring, Versions
<1>5. CASE preflight(p)
  BY <1>5 DEF preflight, Scorers, Scoring, Versions
<1>6. CASE observed_preflight(p)
  BY <1>6 DEF observed_preflight, Scorers, Scoring, Versions
<1>7. CASE residual_preflight(p)
  BY <1>7 DEF residual_preflight, Scorers, Scoring, Versions
<1>8. CASE \E name \in {"A", "R", "canonical"} : evaluate_treatment(p, name)
  BY <1>8 DEF evaluate_treatment, Scorers, Scoring, Versions
<1>9. CASE \E name \in {"A", "R", "canonical"} : evaluate(p, name)
  BY <1>9 DEF evaluate, Scorers, Scoring, Versions
<1>10. CASE evaluate_train(p)
  BY <1>10 DEF evaluate_train, Scorers, Scoring, Versions
<1>11. CASE observed_evaluate_train(p)
  BY <1>11 DEF observed_evaluate_train, Scorers, Scoring, Versions
<1>12. CASE conditioning_summarize_canary(p)
  BY <1>12 DEF conditioning_summarize_canary, Scorers, Scoring, Versions
<1>13. CASE summarize_canary(p)
  BY <1>13 DEF summarize_canary, Scorers, Scoring, Versions
<1>14. CASE adjudicate(p)
  BY <1>14 DEF adjudicate, Scorers, Scoring, Versions
<1>15. CASE held_out_evaluate(p)
  BY <1>15 DEF held_out_evaluate, Scorers, Scoring, Versions
<1>16. CASE _authenticate_before_claim(p)
  BY <1>16 DEF _authenticate_before_claim, Scorers, Scoring, Versions
<1>17. CASE \E command \in {"train", "evaluate-train"} \cup Versions : Refuse(p, command)
  BY <1>17 DEF Refuse, Scorers, Scoring, Versions
<1> QED
  BY <1>1, <1>2, <1>3, <1>4, <1>5, <1>6, <1>7, <1>8, <1>9, <1>10, <1>11, <1>12, <1>13, <1>14,
     <1>15, <1>16, <1>17,
     Standing DEF ReportingStep, save_action_conditioning, WriteTrainingReport, write_run_state,
     _authorize_evaluation, ReadsCanarySummary, ReadsBaselineReport, ReadsRouterReport,
     SelectsRouter, Load, WriteEvaluation, WriteSummary, adjudicate_report, ClaimAccess,
     _authenticate_recordings, evaluate_population_gate, Raise, _write_failure_record,
     _write_failure, Die, Residual

LEMMA ReportingContinues ==
  ASSUME IInvRuns, NEW p \in Processes, Reporting, ReportingStep(p), Me(p) # NoRun
  PROVE \/ save_action_conditioning(p) \/ WriteTrainingReport(p) \/ write_run_state(p)
        \/ _authorize_evaluation(p) \/ Load(p) \/ WriteEvaluation(p) \/ WriteSummary(p)
        \/ adjudicate_report(p) \/ ClaimAccess(p) \/ _authenticate_recordings(p)
        \/ evaluate_population_gate(p) \/ Raise(p) \/ _write_failure_record(p)
        \/ _write_failure(p) \/ Die(p)
  BY DEF ReportingStep, Start, train_treatment, train_router, observed_train_router,
     train_residual, preflight, observed_preflight, residual_preflight, evaluate_treatment,
     evaluate, evaluate_train, observed_evaluate_train, conditioning_summarize_canary,
     summarize_canary, adjudicate, held_out_evaluate, _authenticate_before_claim, Refuse

\* What was scored before stays so; what is scored from now on was loaded.
LEMMA ScoredByOne ==
  ASSUME IInvRuns, Scored, NEW p \in Processes, Reporting, ReportingStep(p), Me(p) # NoRun
  PROVE process'[p].command \in Scorers /\ process'[p].at \in Scoring =>
          loaded'[process'[p].id] # 0
<1>1. Me(p).command \in Scorers /\ Me(p).at \in Scoring => loaded[Me(p).id] # 0
  BY DEF Scored
<1>2. /\ Me(p).id \in 1 .. MaxRuns[experiment] /\ "none" \notin Scorers /\ "train" \notin Scorers
      /\ Me(p).at = "entering" => Me(p).command \in {"train", "evaluate-train"}
      /\ Me(p).at \in {"claiming", "opening", "populations"} => Me(p).command \in Versions
  BY NumberOfRuns, Standing DEF IInvRuns, Counted, Scorers, Versions
<1>3. CASE save_action_conditioning(p)
  BY <1>3, Going DEF save_action_conditioning, Scoring
<1>4. CASE WriteTrainingReport(p)
  BY <1>4, <1>2, Going, Leaving DEF WriteTrainingReport, Scoring
<1>5. CASE write_run_state(p)
  BY <1>1, <1>2, <1>5, Going, Leaving DEF write_run_state, Scoring, Scorers, History
<1>6. CASE _authorize_evaluation(p)
  <2>1. PICK at, source :
          /\ at \in Authorities
          /\ process' = [process EXCEPT ![p] =
               [command |-> Me(p).command, at |-> at, id |-> Me(p).id,
                artifact |-> Me(p).artifact, source |-> source]]
    BY <1>6, Authorizing DEF AuthorizesAs
  <2>2. process'[p].at \notin Scoring
    BY <2>1 DEF IInvRuns, Running, Authorities, Scoring
  <2> QED
    BY <2>2
<1>7. CASE Load(p)
  <2>1. loaded' = [loaded EXCEPT ![Me(p).id] = from_artifact("artifact")]
    BY <1>7 DEF Load
  <2>2. from_artifact("artifact") # 0
    BY <1>7 DEF Load, There, from_artifact
  <2>3. loaded'[Me(p).id] # 0
    BY <1>2, <2>1, <2>2 DEF IInvRuns, Remembered
  <2> QED
    BY <1>7, <2>3, Going DEF Load
<1>8. CASE WriteEvaluation(p)
  BY <1>2, <1>8, Going, Leaving DEF WriteEvaluation, Scoring
<1>9. CASE WriteSummary(p)
  BY <1>2, <1>9, Leaving DEF WriteSummary
<1>10. CASE adjudicate_report(p)
  BY <1>2, <1>10, Leaving DEF adjudicate_report
<1>11. CASE ClaimAccess(p)
  BY <1>1, <1>2, <1>11, Going DEF ClaimAccess, _claim_canonical_access, Scoring, Scorers, History
<1>12. CASE _authenticate_recordings(p)
  BY <1>1, <1>2, <1>12, Going DEF _authenticate_recordings, Scoring, Scorers
<1>13. CASE evaluate_population_gate(p)
  BY <1>2, <1>13, Leaving DEF evaluate_population_gate
<1>14. CASE Raise(p)
  BY <1>2, <1>14, Going, Leaving DEF Raise, Scoring
<1>15. CASE _write_failure_record(p)
  BY <1>2, <1>15, Leaving DEF _write_failure_record
<1>16. CASE _write_failure(p)
  BY <1>2, <1>16, Leaving DEF _write_failure
<1>17. CASE Die(p)
  BY <1>2, <1>17, Leaving DEF Die
<1> QED
  BY <1>3, <1>4, <1>5, <1>6, <1>7, <1>8, <1>9, <1>10, <1>11, <1>12, <1>13, <1>14, <1>15, <1>16,
     <1>17, ReportingContinues

\* A report is written about what was loaded; the other files are no reports.
LEMMA ReportByOne ==
  ASSUME IInvRuns, Scored, NEW p \in Processes, Reporting, ReportingStep(p), Me(p) # NoRun,
         NEW n \in Reports, n \in FilesOf[experiment]
  PROVE \/ file'[n] = file[n]
        \/ /\ file'[n].by = Me(p).id /\ file'[n].of = loaded[Me(p).id]
           /\ loaded[Me(p).id] # 0 /\ loaded' = loaded
<1>1. /\ n \notin Trained \cup {"state", "preflight", "probe", "A", "summary", "adjudication",
                               "failure", "invocation"}
      /\ \A v \in Versions : n # Claim[v] /\ n # Failure[v]
  <2>1. /\ Output.v1 = "v1 output" /\ Output.v2 = "v2 output"
        /\ \A v \in Versions : Claim[v] \in {"v1 claim", "v2 claim"}
        /\ \A v \in Versions : Failure[v] \in {"v1 failure", "v2 failure"}
    BY DEF Output, Claim, Failure, Versions
  <2> QED
    BY <2>1 DEF Reports, Trained
<1>2. Me(p).at \in {"claiming", "opening", "populations"} => Me(p).command \in Versions
  BY Standing
<1>3. CASE save_action_conditioning(p)
  BY <1>1, <1>3, Writing DEF save_action_conditioning, Trained
<1>4. CASE WriteTrainingReport(p)
  BY <1>1, <1>4, Writing DEF WriteTrainingReport, Trained
<1>5. CASE write_run_state(p)
  BY <1>1, <1>5, Writing DEF write_run_state
<1>6. CASE _authorize_evaluation(p)
  BY <1>6 DEF _authorize_evaluation
<1>7. CASE Load(p)
  BY <1>7 DEF Load
<1>8. CASE WriteEvaluation(p)
  <2>1. PICK says \in Verdicts(p) :
          Write(IF Me(p).command = "evaluate-train" THEN "evaluation" ELSE Me(p).command,
                About(p), says, Sources(p), p)
    BY <1>8 DEF WriteEvaluation
  <2>2. Me(p).at = "scoring" /\ loaded' = loaded
    BY <1>8 DEF WriteEvaluation
  <2>3. CASE Me(p).command \in {"R", "canonical", "evaluate-train"}
    <3>1. About(p) = loaded[Me(p).id]
      BY <2>3 DEF About, Named, Reporting
    <3>2. loaded[Me(p).id] # 0
      BY <2>2, <2>3 DEF Scored, Scorers, Scoring
    <3> QED
      BY <2>1, <2>2, <3>1, <3>2, Writing, Fields
  <2>4. CASE Me(p).command \in {"preflight", "probe", "A"}
    BY <1>1, <2>1, <2>4, Writing
  <2>5. Me(p).command \in {"R", "canonical", "evaluate-train", "preflight", "probe", "A"}
    BY <2>2, Standing, Scorer
  <2> QED
    BY <2>3, <2>4, <2>5
<1>9. CASE WriteSummary(p)
  BY <1>1, <1>9, Writing DEF WriteSummary
<1>10. CASE adjudicate_report(p)
  BY <1>1, <1>10, Writing DEF adjudicate_report
<1>11. CASE ClaimAccess(p)
  BY <1>1, <1>2, <1>11, Writing DEF ClaimAccess, _claim_canonical_access
<1>12. CASE _authenticate_recordings(p)
  BY <1>12 DEF _authenticate_recordings
<1>13. CASE evaluate_population_gate(p)
  <2>1. PICK says \in {"passed", "failed"} :
          Write(Output[Me(p).command], loaded[Me(p).id], says, <<>>, p)
    BY <1>13 DEF evaluate_population_gate
  <2>2. Me(p).at = "populations" /\ loaded' = loaded
    BY <1>13 DEF evaluate_population_gate, History
  <2>3. loaded[Me(p).id] # 0
    BY <1>2, <2>2 DEF Scored, Scorers, Scoring
  <2> QED
    BY <2>1, <2>2, <2>3, Writing, Fields
<1>14. CASE Raise(p)
  BY <1>14 DEF Raise
<1>15. CASE _write_failure_record(p)
  BY <1>1, <1>15, Writing DEF _write_failure_record
<1>16. CASE _write_failure(p)
  BY <1>1, <1>16, Writing DEF _write_failure
<1>17. CASE Die(p)
  BY <1>17 DEF Die
<1> QED
  BY <1>3, <1>4, <1>5, <1>6, <1>7, <1>8, <1>9, <1>10, <1>11, <1>12, <1>13, <1>14, <1>15, <1>16,
     <1>17, ReportingContinues

LEMMA ReportStep ==
  ASSUME IInvRuns, Scored, ReportIsOfWhatRan, NEW p \in Processes, Step(p)
  PROVE Scored' /\ ReportIsOfWhatRan'
<1>1. IInvRuns' /\ Frame(p) /\ experiment' = experiment
  BY Stepped DEF Frame
<1> SUFFICES ASSUME Reporting
             PROVE  Scored' /\ ReportIsOfWhatRan'
  BY <1>1 DEF Reporting, Scored, ReportIsOfWhatRan
<1>2. ReportingStep(p)
  BY ReportingActions DEF Reporting
<1>3. process'[p].command \in Scorers /\ process'[p].at \in Scoring =>
        loaded'[process'[p].id] # 0
  <2>1. CASE Me(p) = NoRun
    BY <1>2, <2>1, ReportingBegins, Entering
  <2>2. CASE Me(p) # NoRun
    BY <1>2, <2>2, ScoredByOne
  <2> QED
    BY <2>1, <2>2
<1>4. \A q \in Processes \ {p} :
        process'[q].command \in Scorers /\ process'[q].at \in Scoring =>
          loaded'[process'[q].id] # 0
  <2> TAKE q \in Processes \ {p}
  <2>1. process'[q] = Me(q) /\ (Me(q) # NoRun => loaded'[Me(q).id] = loaded[Me(q).id])
    BY <1>1 DEF Frame, Me
  <2>2. Me(q) = NoRun => Me(q).command \notin Scorers
    BY Standing DEF Scorers, Versions
  <2> QED
    BY <2>1, <2>2 DEF Scored
<1>5. \A n \in Reports \cap FilesOf[experiment] :
        \/ file'[n] = file[n]
        \/ /\ file'[n].by = Me(p).id /\ file'[n].of = loaded[Me(p).id]
           /\ loaded[Me(p).id] # 0 /\ loaded' = loaded
  <2>1. CASE Me(p) = NoRun
    BY <1>2, <2>1, ReportingBegins, Entering
  <2>2. CASE Me(p) # NoRun
    BY <1>2, <2>2, ReportByOne
  <2> QED
    BY <2>1, <2>2
<1>6. ASSUME NEW n \in Reports, There(n)'
      PROVE file'[n].of = loaded'[file'[n].by] /\ file'[n].of # 0
  <2>1. n \in FilesOf[experiment] /\ file'[n].by # 0
    BY <1>1, <1>6 DEF There, IInvRuns, Filed
  <2>2. CASE file'[n] = file[n]
    <3>1. There(n) /\ n # "state"
      BY <2>1, <2>2, Files DEF Reports, Output
    <3>2. file[n].of = loaded[file[n].by] /\ file[n].of # 0
      BY <3>1 DEF ReportIsOfWhatRan, Reporting, Reports
    <3>3. loaded'[file[n].by] = loaded[file[n].by]
      BY <1>1, <2>1, <2>2, <3>1, Files DEF Frame, Used
    <3> QED
      BY <2>2, <3>2, <3>3
  <2> QED
    BY <1>5, <2>1, <2>2
<1> QED
  BY <1>1, <1>3, <1>4, <1>6 DEF Scored, ReportIsOfWhatRan, Me, Reporting, Reports

(***************************************************************************)
(* Measuring: what is cleared passes on a report that passed.              *)
(***************************************************************************)
PassingReport   == file["R"].says = "passed" => file["R"].of \in measured
PassingSummary  == file["summary"].says = "passed" => file["summary"].of \in measured
PassingProbe    == file["probe"].says = "passed" => file["probe"].by \in measured
PassingAnything == \A n \in FilesOf[experiment] :
                     file[n].says = "passed" => file[n].of \in measured

AuthorizedArtifact(p) ==
  /\ Me(p).command = "canonical" /\ Me(p).at = "selected" =>
       (Me(p).source.says = "passed" => Me(p).source.of \in measured)
  /\ Me(p).command = "canonical" /\ Me(p).at = "loading" => Me(p).artifact \in measured
  /\ Me(p).command = "canonical" /\ Me(p).at = "scoring" => loaded[Me(p).id] \in measured

PassedProbe(p) == Me(p).command = "train" /\ Me(p).at # "refused" => Me(p).source.by \in measured

Passing ==
  /\ experiment = "routing" => PassingReport /\ \A p \in Processes : AuthorizedArtifact(p)
  /\ experiment = "adapter" => PassingReport /\ PassingSummary
  /\ experiment = "physical" => PassingProbe /\ \A p \in Processes : PassedProbe(p)
  /\ experiment = "planner" => PassingAnything

LEMMA RoutingStepPasses ==
  ASSUME IInvRuns, NEW p \in Processes, experiment = "routing", RoutingStep(p),
         PassingReport, AuthorizedArtifact(p)
  PROVE PassingReport' /\ AuthorizedArtifact(p)' /\ measured \subseteq measured'
<1> USE DEF Me
<1>1. /\ "R" \in FilesOf[experiment] /\ experiment \notin Residual
      /\ Me(p) # NoRun => Me(p).id \in 1 .. MaxRuns[experiment]
  BY NumberOfRuns, Standing DEF FilesOf, Residual, IInvRuns, Counted
<1>2. CASE train_router(p) \/ preflight(p) \/ summarize_canary(p)
  BY <1>2, Entering DEF train_router, preflight, summarize_canary, PassingReport,
     AuthorizedArtifact
<1>3. CASE \E name \in {"A", "R", "canonical"} : evaluate(p, name)
  BY <1>3, Entering DEF evaluate, PassingReport, AuthorizedArtifact
<1>4. CASE save_action_conditioning(p)
  BY <1>1, <1>4, Going, Writing DEF save_action_conditioning, History, PassingReport,
     AuthorizedArtifact
<1>5. CASE WriteTrainingReport(p)
  BY <1>1, <1>5, Leaving, Writing DEF WriteTrainingReport, History, PassingReport,
     AuthorizedArtifact
<1>6. CASE _authorize_evaluation(p)
  <2>1. PICK at, source :
          /\ at \in Authorities
          /\ process' = [process EXCEPT ![p] =
               [command |-> Me(p).command, at |-> at, id |-> Me(p).id,
                artifact |-> Me(p).artifact, source |-> source]]
          /\ at = "selected" => source = file["R"]
          /\ at = "loading" => /\ Me(p).at = "selected"
                               /\ Me(p).source.says = "passed"
                               /\ Me(p).source.of = Me(p).artifact
    BY <1>6, Authorizing DEF AuthorizesAs
  <2>2. process'[p] = [command |-> Me(p).command, at |-> at, id |-> Me(p).id,
                       artifact |-> Me(p).artifact, source |-> source]
    BY <2>1 DEF IInvRuns, Running
  <2>3. UNCHANGED <<file, measured, loaded>>
    BY <1>6, Authorizing DEF History
  <2>4. at = "loading" /\ Me(p).command = "canonical" => Me(p).artifact \in measured
    BY <2>1 DEF AuthorizedArtifact
  <2>5. at \in {"baseline", "router", "selected", "loading"}
    BY <2>1 DEF Authorities
  <2> QED
    BY <2>1, <2>2, <2>3, <2>4, <2>5 DEF PassingReport, AuthorizedArtifact
<1>7. CASE Load(p)
  <2>1. /\ loaded' = [loaded EXCEPT ![Me(p).id] = from_artifact("artifact")]
        /\ Me(p).at = "loading" /\ Me(p) # NoRun /\ from_artifact("artifact") = Me(p).artifact
        /\ UNCHANGED <<file, measured>>
    BY <1>7 DEF Load, Expected, NoRun
  <2>2. loaded'[Me(p).id] = Me(p).artifact
    BY <1>1, <2>1 DEF IInvRuns, Remembered
  <2>3. /\ process'[p].id = Me(p).id /\ process'[p].command = Me(p).command
        /\ process'[p].at \in {"claiming", "entering", "scoring"}
    BY <1>7, Going DEF Load
  <2> QED
    BY <2>1, <2>2, <2>3 DEF PassingReport, AuthorizedArtifact
<1>8. CASE WriteEvaluation(p)
  <2>1. PICK says \in Verdicts(p) :
          /\ Write(IF Me(p).command = "evaluate-train" THEN "evaluation" ELSE Me(p).command,
                   About(p), says, Sources(p), p)
          /\ Me(p).command = "R" /\ says = "passed" => measured' = measured \cup {About(p)}
          /\ measured \subseteq measured'
    BY <1>8 DEF WriteEvaluation
  <2>2. process'[p] = NoRun /\ NoRun.command = "none"
    BY <1>1, <1>8, Leaving DEF WriteEvaluation, Residual
  <2> QED
    BY <1>1, <2>1, <2>2, Writing, Fields DEF PassingReport, AuthorizedArtifact
<1>9. CASE WriteSummary(p)
  BY <1>1, <1>9, Leaving, Writing DEF WriteSummary, History, PassingReport, AuthorizedArtifact
<1>10. CASE Raise(p) \/ Die(p)
  BY <1>1, <1>10, Leaving DEF Raise, Die, History, PassingReport, AuthorizedArtifact
<1> QED
  BY <1>2, <1>3, <1>4, <1>5, <1>6, <1>7, <1>8, <1>9, <1>10 DEF RoutingStep

LEMMA AdapterStepPasses ==
  ASSUME IInvRuns, NEW p \in Processes, experiment = "adapter", AdapterStep(p),
         PassingReport, PassingSummary
  PROVE PassingReport' /\ PassingSummary'
<1>1. {"R", "summary"} \subseteq FilesOf[experiment] /\ experiment \notin Residual
  BY DEF FilesOf, Residual
<1>2. CASE \/ adapt_recordings(p) \/ evaluate_recording(p) \/ validate_insertion_adapter(p)
           \/ LoadInPlace(p) \/ Raise(p) \/ Die(p)
  BY <1>2 DEF adapt_recordings, evaluate_recording, validate_insertion_adapter, LoadInPlace,
     Raise, Die, Start, History, PassingReport, PassingSummary
<1>3. CASE save_action_conditioning(p) \/ WriteTrainingReport(p)
  BY <1>1, <1>3, Writing DEF save_action_conditioning, WriteTrainingReport, History,
     PassingReport, PassingSummary
<1>4. CASE WriteEvaluation(p)
  <2>1. PICK says \in Verdicts(p) :
          /\ Write(IF Me(p).command = "evaluate-train" THEN "evaluation" ELSE Me(p).command,
                   About(p), says, Sources(p), p)
          /\ Me(p).command = "R" /\ says = "passed" => measured' = measured \cup {About(p)}
          /\ measured \subseteq measured'
    BY <1>4 DEF WriteEvaluation
  <2>2. Me(p).command # "summary"
    BY <1>4, Scorer DEF WriteEvaluation
  <2> QED
    BY <1>1, <2>1, <2>2, Writing, Fields DEF PassingReport, PassingSummary
<1>5. CASE _summarize_insertion_world_model_readiness(p)
  BY <1>1, <1>5, Writing, Fields DEF _summarize_insertion_world_model_readiness,
     validate_insertion_adapter_evaluation, History, PassingReport, PassingSummary
<1> QED
  BY <1>2, <1>3, <1>4, <1>5 DEF AdapterStep

LEMMA PhysicalStepPasses ==
  ASSUME IInvRuns, NEW p \in Processes, experiment = "physical", PhysicalStep(p),
         PassingProbe, PassedProbe(p)
  PROVE PassingProbe' /\ PassedProbe(p)' /\ measured \subseteq measured'
<1> USE DEF Me
<1>1. "probe" \in FilesOf[experiment]
  BY DEF FilesOf
<1>2. CASE train_residual(p)
  <2>1. /\ Start(p, "train", "entering", file["probe"]) /\ file["probe"].by \in measured
    BY <1>2 DEF train_residual, _authenticate_passed_probe, PassingProbe
  <2> QED
    BY <2>1, Entering DEF PassingProbe, PassedProbe
<1>3. CASE residual_preflight(p) \/ physical_probe(p)
  BY <1>3, Entering DEF residual_preflight, physical_probe, PassingProbe, PassedProbe
<1>4. CASE \E command \in {"train", "evaluate-train"} \cup Versions : Refuse(p, command)
  BY <1>4, Entering DEF Refuse, PassingProbe, PassedProbe
<1>5. CASE save_action_conditioning(p)
  BY <1>1, <1>5, Going, Writing DEF save_action_conditioning, History, PassingProbe, PassedProbe
<1>6. CASE WriteTrainingReport(p)
  BY <1>1, <1>6, Going, Leaving, Writing DEF WriteTrainingReport, History, PassingProbe,
     PassedProbe
<1>7. CASE write_run_state(p)
  BY <1>1, <1>7, Going, Leaving, Writing DEF write_run_state, History, PassingProbe, PassedProbe
<1>8. CASE WriteEvaluation(p)
  <2>1. PICK says \in Verdicts(p) :
          /\ Write(IF Me(p).command = "evaluate-train" THEN "evaluation" ELSE Me(p).command,
                   About(p), says, Sources(p), p)
          /\ Me(p).command = "probe" /\ says = "passed" => measured' = measured \cup {Me(p).id}
          /\ measured \subseteq measured'
    BY <1>8 DEF WriteEvaluation
  <2>2. process'[p] = NoRun /\ NoRun.command = "none"
    BY <1>8, Leaving DEF WriteEvaluation
  <2> QED
    BY <1>1, <2>1, <2>2, Writing, Fields DEF PassingProbe, PassedProbe
<1>9. CASE Raise(p)
  BY <1>9, Going, Leaving DEF Raise, History, PassingProbe, PassedProbe
<1>10. CASE _write_failure_record(p)
  BY <1>1, <1>10, Leaving, Writing DEF _write_failure_record, History, PassingProbe, PassedProbe
<1>11. CASE Die(p)
  BY <1>11, Leaving DEF Die, History, PassingProbe, PassedProbe
<1> QED
  BY <1>2, <1>3, <1>4, <1>5, <1>6, <1>7, <1>8, <1>9, <1>10, <1>11 DEF PhysicalStep

LEMMA PlannerStepPasses ==
  ASSUME IInvRuns, NEW p \in Processes, experiment = "planner", PlannerStep(p), PassingAnything
  PROVE \A n \in FilesOf[experiment] : file'[n].says = "passed" => file'[n].of \in measured'
<1>1. CASE \/ train_action_proposal(p) \/ BenchmarkInitialization(p) \/ LoadProposal(p)
           \/ validate_insertion_proposal(p) \/ Raise(p) \/ Die(p)
  BY <1>1 DEF train_action_proposal, BenchmarkInitialization, LoadProposal,
     validate_insertion_proposal, Raise, Die, Start, History, PassingAnything
<1>2. CASE save_action_conditioning(p) \/ WriteTrainingReport(p)
  BY <1>2, Writing, Fields DEF save_action_conditioning, WriteTrainingReport, History,
     PassingAnything
<1>3. CASE benchmark_recording(p)
  <2>1. PICK says :
          /\ Write(Kept[Me(p).artifact], Me(p).artifact, says, <<>>, p)
          /\ says = "passed" => Me(p).artifact \in measured'
          /\ measured \subseteq measured'
    BY <1>3 DEF benchmark_recording, PlannerBenchmarkReport, Write, Doc
  <2> QED
    BY <2>1, Writing, Fields DEF PassingAnything
<1>4. CASE summarize_insertion_planner_readiness(p)
  <2>1. PICK reports \in SUBSET KeptRuns, i \in KeptRuns :
          /\ {r \in reports : Session(r).of = Me(p).artifact} = {i}
          /\ Write("summary", Me(p).artifact, Session(i).says, <<Session(i).by>>, p)
          /\ measured' = measured
    BY <1>4 DEF summarize_insertion_planner_readiness, _select_current_policy_evidence,
       InsertionPlannerSeedEvidence, History
  <2>2. Session(i).says = "passed" => Session(i).of \in measured
    BY Files DEF KeptRuns, Session, PassingAnything
  <2>3. Session(i).of = Me(p).artifact
    <3>1. i \in {r \in reports : Session(r).of = Me(p).artifact}
      BY <2>1
    <3> QED
      BY <3>1
  <2> QED
    BY <2>1, <2>2, <2>3, Writing, Fields DEF PassingAnything
<1> QED
  BY <1>1, <1>2, <1>3, <1>4 DEF PlannerStep

LEMMA PassingStep ==
  ASSUME IInvRuns, Passing, NEW p \in Processes, Step(p)
  PROVE Passing'
<1>1. experiment' = experiment /\ Frame(p) /\ IInvRuns'
  BY Stepped DEF Frame
<1>2. ASSUME experiment = "routing"
      PROVE PassingReport' /\ \A q \in Processes : AuthorizedArtifact(q)'
  <2>1. PassingReport' /\ AuthorizedArtifact(p)' /\ measured \subseteq measured'
    BY <1>2, RoutingActions, RoutingStepPasses DEF Passing
  <2>2. ASSUME NEW q \in Processes \ {p}
        PROVE AuthorizedArtifact(q)'
    <3>1. process'[q] = Me(q) /\ (Me(q) # NoRun => loaded'[Me(q).id] = loaded[Me(q).id])
      BY <1>1 DEF Frame, Me
    <3>2. AuthorizedArtifact(q) /\ (Me(q) = NoRun => Me(q).command # "canonical")
      BY <1>2, Standing DEF Passing
    <3> QED
      BY <2>1, <3>1, <3>2 DEF AuthorizedArtifact, Me
  <2> QED
    BY <2>1, <2>2
<1>3. ASSUME experiment = "adapter"
      PROVE PassingReport' /\ PassingSummary'
  BY <1>3, AdapterActions, AdapterStepPasses DEF Passing
<1>4. ASSUME experiment = "physical"
      PROVE PassingProbe' /\ \A q \in Processes : PassedProbe(q)'
  <2>1. PassingProbe' /\ PassedProbe(p)' /\ measured \subseteq measured'
    BY <1>4, PhysicalActions, PhysicalStepPasses DEF Passing
  <2>2. ASSUME NEW q \in Processes \ {p}
        PROVE PassedProbe(q)'
    <3>1. process'[q] = Me(q) /\ PassedProbe(q)
      BY <1>1, <1>4 DEF Frame, Me, Passing
    <3> QED
      BY <2>1, <3>1 DEF PassedProbe, Me
  <2> QED
    BY <2>1, <2>2
<1>5. ASSUME experiment = "planner"
      PROVE PassingAnything'
  BY <1>1, <1>5, PlannerActions, PlannerStepPasses DEF Passing, PassingAnything
<1> QED
  BY <1>1, <1>2, <1>3, <1>4, <1>5 DEF Passing

(***************************************************************************)
(* Held out: the recordings are opened on the authority of a commit.       *)
(***************************************************************************)
Authority ==
  /\ config.evaluation # 0 /\ config.adjudication # 0 /\ Used(config.adjudication)
  /\ file["adjudication"].by = config.adjudication => file["adjudication"].says = "passed"

\* What is judged is what was committed, under a number that is not given again.
Adjudicated ==
  /\ config.adjudication # 0 => config.evaluation # 0 /\ Used(config.adjudication)
  /\ There("adjudication") =>
       config.evaluation # 0 /\ file["adjudication"].of = config.artifact

AdjudicatesCommitted(p) ==
  Me(p).command = "adjudicate" => config.evaluation # 0 /\ Me(p).source.of = config.artifact

ActsOnAuthority(p) ==
  Me(p).command \in Versions =>
    /\ Me(p).at # "refused" => Authority
    /\ Me(p).at = "loading" => Me(p).artifact = config.artifact
    /\ Me(p).at \in {"claiming", "opening"} => loaded[Me(p).id] = config.artifact

OpenedOnAuthority == \A o \in opened : Authority /\ o.artifact = config.artifact

HeldOutInv ==
  IF experiment = "residual"
  THEN /\ Adjudicated /\ OpenedOnAuthority
       /\ \A p \in Processes : AdjudicatesCommitted(p) /\ ActsOnAuthority(p)
  ELSE opened = {}

\* The file of the adjudication is written by its command only.
LEMMA AdjudicationWritten ==
  ASSUME IInvRuns, NEW p \in Processes, experiment = "residual", ResidualStep(p)
  PROVE \/ file'["adjudication"] = file["adjudication"]
        \/ /\ Me(p).command = "adjudicate" /\ Me(p).at = "judging"
           /\ file'["adjudication"].by = Me(p).id
           /\ file'["adjudication"].of = Me(p).source.of
<1>1. /\ "adjudication" \in FilesOf[experiment]
      /\ \A v \in Versions : /\ Claim[v] # "adjudication" /\ Failure[v] # "adjudication"
                             /\ Output[v] # "adjudication"
      /\ Me(p).at \in {"claiming", "opening", "populations"} => Me(p).command \in Versions
  BY Standing DEF FilesOf, Claim, Failure, Output, Versions
<1>2. Me(p).command = "adjudicate" => Me(p).at = "judging"
  BY Standing DEF Place, PlacesOf, Places
<1>3. CASE \/ train_residual(p) \/ residual_preflight(p) \/ evaluate_train(p) \/ adjudicate(p)
           \/ held_out_evaluate(p) \/ _authenticate_before_claim(p) \/ Load(p)
           \/ _authenticate_recordings(p) \/ Raise(p) \/ Die(p)
           \/ \E command \in {"train", "evaluate-train"} \cup Versions : Refuse(p, command)
  BY <1>3 DEF train_residual, residual_preflight, evaluate_train, adjudicate, held_out_evaluate,
     _authenticate_before_claim, Load, _authenticate_recordings, Raise, Die, Refuse, Start
<1>4. CASE save_action_conditioning(p) \/ WriteTrainingReport(p) \/ write_run_state(p)
  BY <1>1, <1>4, Writing DEF save_action_conditioning, WriteTrainingReport, write_run_state
<1>5. CASE WriteEvaluation(p)
  <2>1. PICK says \in Verdicts(p) :
          Write(IF Me(p).command = "evaluate-train" THEN "evaluation" ELSE Me(p).command,
                About(p), says, Sources(p), p)
    BY <1>5 DEF WriteEvaluation
  <2>2. Me(p).command # "adjudication"
    BY <1>5, Scorer DEF WriteEvaluation
  <2> QED
    BY <1>1, <2>1, <2>2, Writing
<1>6. CASE adjudicate_report(p)
  BY <1>1, <1>2, <1>6, Writing, Fields DEF adjudicate_report
<1>7. CASE ClaimAccess(p)
  BY <1>1, <1>7, Writing DEF ClaimAccess, _claim_canonical_access
<1>8. CASE evaluate_population_gate(p)
  BY <1>1, <1>8, Writing DEF evaluate_population_gate
<1>9. CASE _write_failure_record(p)
  BY <1>1, <1>9, Writing DEF _write_failure_record
<1>10. CASE _write_failure(p)
  BY <1>1, <1>10, Writing DEF _write_failure
<1> QED
  BY <1>3, <1>4, <1>5, <1>6, <1>7, <1>8, <1>9, <1>10 DEF ResidualStep

\* So an authority lasts.
LEMMA AuthorityLasts ==
  ASSUME IInvRuns, NEW p \in Processes, experiment = "residual", Step(p), Authority
  PROVE Authority'
<1>1. IInvRuns' /\ Frame(p)
  BY Stepped
<1>2. config' = config /\ config.adjudication \in 1 .. runs /\ Used(config.adjudication)'
  BY <1>1 DEF Authority, Used, Frame
<1>3. CASE file'["adjudication"] = file["adjudication"]
  BY <1>2, <1>3 DEF Authority
<1>4. CASE /\ Me(p).at = "judging" /\ file'["adjudication"].by = Me(p).id
  <2>1. Me(p).id # config.adjudication
    BY <1>4 DEF Authority, Used, Past
  <2> QED
    BY <1>2, <1>4, <2>1 DEF Authority
<1> QED
  BY <1>3, <1>4, ResidualActions, AdjudicationWritten

\* An invocation is begun on the authority, and keeps the artifact it names.
LEMMA ActsByOne ==
  ASSUME IInvRuns, NEW p \in Processes, experiment = "residual", ResidualStep(p),
         Adjudicated, AdjudicatesCommitted(p), ActsOnAuthority(p)
  PROVE /\ process'[p].command = "adjudicate" =>
             config.evaluation # 0 /\ process'[p].source.of = config.artifact
        /\ process'[p].command \in Versions =>
             /\ process'[p].at # "refused" => Authority
             /\ process'[p].at = "loading" => process'[p].artifact = config.artifact
             /\ process'[p].at \in {"claiming", "opening"} =>
                  loaded'[process'[p].id] = config.artifact
        /\ opened' = opened \/ /\ Authority
                               /\ \A o \in opened' \ opened : o.artifact = config.artifact
<1>1. /\ "adjudication" \in FilesOf[experiment] /\ "artifact" \in FilesOf[experiment]
      /\ \A c \in {"train", "preflight", "evaluate-train", "adjudicate", "none"} : c \notin Versions
      /\ Me(p) # NoRun => Me(p).id \in 1 .. MaxRuns[experiment]
      /\ Me(p).at = "refused" => Me(p) # NoRun
      /\ Me(p).at \in {"claiming", "opening", "populations"} => Me(p).command \in Versions
  BY NumberOfRuns, Standing DEF FilesOf, Trained, Versions, IInvRuns, Counted, NoRun
<1>2. CASE train_residual(p) \/ residual_preflight(p) \/ evaluate_train(p)
  BY <1>1, <1>2, Entering DEF train_residual, residual_preflight, evaluate_train
<1>3. CASE \E command \in {"train", "evaluate-train"} \cup Versions : Refuse(p, command)
  BY <1>1, <1>3, Entering DEF Refuse, Versions
<1>4. CASE adjudicate(p)
  BY <1>1, <1>4, Entering DEF adjudicate
<1>5. CASE held_out_evaluate(p) \/ _authenticate_before_claim(p)
  <2>1. \E v \in Versions : Start(p, v, "loading", NoFile)
    BY <1>5 DEF held_out_evaluate, _authenticate_before_claim, Versions
  <2>2. /\ config.adjudication # 0 /\ from_artifact("artifact") = config.artifact
        /\ file["adjudication"].says = "passed"
    BY <1>5 DEF held_out_evaluate, _authenticate_before_claim, _authenticate_authority
  <2>3. Authority
    BY <2>2 DEF Authority, Adjudicated
  <2>4. process'[p].artifact = config.artifact
    BY <1>1, <2>1, <2>2, Entering, Files DEF from_artifact
  <2> QED
    BY <1>1, <2>1, <2>3, <2>4, Entering
<1>6. CASE save_action_conditioning(p) \/ WriteTrainingReport(p)
  BY <1>1, <1>6, Going DEF save_action_conditioning, WriteTrainingReport, Residual, History
<1>7. CASE write_run_state(p)
  BY <1>1, <1>7, Going, Leaving, Standing DEF write_run_state, History
<1>8. CASE Load(p)
  <2>1. /\ loaded' = [loaded EXCEPT ![Me(p).id] = from_artifact("artifact")]
        /\ Me(p).at = "loading" /\ Me(p) # NoRun /\ from_artifact("artifact") = Me(p).artifact
        /\ opened' = opened
    BY <1>8 DEF Load, Expected, NoRun
  <2>2. loaded'[Me(p).id] = Me(p).artifact
    BY <1>1, <2>1 DEF IInvRuns, Remembered
  <2>3. /\ process'[p].id = Me(p).id /\ process'[p].command = Me(p).command
        /\ process'[p].at \in {"claiming", "entering", "scoring"}
    BY <1>8, Going DEF Load
  <2> QED
    BY <1>1, <2>1, <2>2, <2>3, Standing DEF ActsOnAuthority
<1>9. CASE WriteEvaluation(p)
  <2>1. Me(p).command \notin Versions \cup {"adjudicate"}
    BY <1>9, Scorer DEF WriteEvaluation, Versions
  <2>2. process'[p].command \in {Me(p).command, "none"} /\ opened' = opened
    BY <1>9, Going, Leaving DEF WriteEvaluation
  <2> QED
    BY <1>1, <2>1, <2>2
<1>10. CASE adjudicate_report(p) \/ evaluate_population_gate(p)
  BY <1>1, <1>10, Leaving DEF adjudicate_report, evaluate_population_gate, History
<1>11. CASE ClaimAccess(p)
  BY <1>1, <1>11, Going DEF ClaimAccess, _claim_canonical_access, History, ActsOnAuthority
<1>12. CASE _authenticate_recordings(p)
  BY <1>1, <1>12, Going DEF _authenticate_recordings, ActsOnAuthority
<1>13. CASE Raise(p)
  BY <1>1, <1>13, Going, Leaving DEF Raise, History
<1>14. CASE _write_failure_record(p) \/ _write_failure(p) \/ Die(p)
  BY <1>1, <1>14, Leaving DEF _write_failure_record, _write_failure, Die, History
<1> QED
  BY <1>2, <1>3, <1>4, <1>5, <1>6, <1>7, <1>8, <1>9, <1>10, <1>11, <1>12, <1>13, <1>14
     DEF ResidualStep

\* Nothing else opens anything.
LEMMA NothingOpened ==
  ASSUME IInvRuns, NEW p \in Processes, experiment # "residual", Step(p)
  PROVE opened' = opened
<1>1. CASE Train(p)
  BY <1>1 DEF Train, train_treatment, train_router, observed_train_router, train_residual,
     adapt_recordings, train_action_proposal, save_action_conditioning, WriteTrainingReport,
     write_run_state, Start, History
<1>2. CASE Evaluate(p)
  BY <1>2 DEF Evaluate, preflight, observed_preflight, residual_preflight, physical_probe,
     causal_preflight, causal_probe, evaluate_treatment, evaluate, _authorize_evaluation,
     evaluate_train, observed_evaluate_train, Load, evaluate_recording,
     evaluate_action_proposal, LoadInPlace, WriteEvaluation, Start, History
<1>3. CASE Judge(p)
  BY <1>3 DEF Judge, conditioning_summarize_canary, summarize_canary, WriteSummary,
     validate_insertion_adapter, _summarize_insertion_world_model_readiness,
     validate_proposal_identity, validate_evaluation, build_proposal_readiness, WriteReadiness,
     adjudicate, adjudicate_report, Start, History
<1>4. CASE HeldOut(p)
  BY <1>4, Standing DEF HeldOut, held_out_evaluate, _authenticate_before_claim, ClaimAccess,
     _authenticate_recordings, evaluate_population_gate, Start, History, Versions
<1>5. CASE Fail(p)
  BY <1>5 DEF Fail, Refuse, Raise, _write_failure_record, _write_failure, Die, Start, History
<1>6. CASE Plan(p)
  BY <1>6 DEF Plan, BenchmarkInitialization, LoadProposal, benchmark_recording,
     validate_insertion_proposal, summarize_insertion_planner_readiness, Start, History
<1>7. CASE Grasp(p)
  BY <1>7 DEF Grasp, StartRollout, EndRollout, report_control_baselines, WriteBaselines,
     GraspControlReadinessSummary, WriteGraspReadiness, load_verified,
     load_container_reconstruction, record_grasp_demo, Start, History
<1>8. CASE Insert(p)
  BY <1>8 DEF Insert, finetune_insertion_transition, load_action_proposal,
     save_action_proposal, WriteFinetuneReport, write_insertion_proposal_handoff,
     persist_insertion_proposal_handoff, AnswerFollowup, ValidateFollowup, Start, History
<1> QED
  BY <1>1, <1>2, <1>3, <1>4, <1>5, <1>6, <1>7, <1>8 DEF Step

LEMMA HeldOutStep ==
  ASSUME IInvRuns, HeldOutInv, NEW p \in Processes, Step(p)
  PROVE HeldOutInv'
<1>1. IInvRuns' /\ Frame(p) /\ experiment' = experiment /\ config' = config
  BY Stepped DEF Frame
<1>2. CASE experiment # "residual"
  BY <1>1, <1>2, NothingOpened DEF HeldOutInv
<1>3. CASE experiment = "residual"
  <2>1. ResidualStep(p)
    BY <1>3, ResidualActions
  <2>2. Authority => Authority'
    BY <1>3, AuthorityLasts
  <2>3. /\ Adjudicated /\ OpenedOnAuthority
        /\ \A q \in Processes : AdjudicatesCommitted(q) /\ ActsOnAuthority(q)
    BY <1>3 DEF HeldOutInv
  <2>4. Adjudicated'
    <3>1. config.adjudication # 0 => config.evaluation # 0 /\ Used(config.adjudication)'
      BY <1>1, <2>3 DEF Adjudicated, Used, Frame
    <3>2. There("adjudication")' =>
            config.evaluation # 0 /\ file'["adjudication"].of = config.artifact
      <4>1. CASE file'["adjudication"] = file["adjudication"]
        <5>1. There("adjudication")' => There("adjudication")
          BY <1>1, <4>1, Files DEF There, IInvRuns, Filed
        <5> QED
          BY <2>3, <4>1, <5>1 DEF Adjudicated
      <4>2. CASE /\ Me(p).command = "adjudicate"
                 /\ file'["adjudication"].of = Me(p).source.of
        BY <2>3, <4>2 DEF AdjudicatesCommitted
      <4> QED
        BY <1>3, <2>1, <4>1, <4>2, AdjudicationWritten
    <3> QED
      BY <1>1, <3>1, <3>2 DEF Adjudicated
  <2>5. AdjudicatesCommitted(p)' /\ ActsOnAuthority(p)'
    BY <1>1, <1>3, <2>1, <2>2, <2>3, ActsByOne DEF AdjudicatesCommitted, ActsOnAuthority, Me
  <2>6. ASSUME NEW q \in Processes \ {p}
        PROVE AdjudicatesCommitted(q)' /\ ActsOnAuthority(q)'
    <3>1. process'[q] = Me(q) /\ (Me(q) # NoRun => loaded'[Me(q).id] = loaded[Me(q).id])
      BY <1>1 DEF Frame, Me
    <3>2. Me(q) = NoRun => Me(q).command \notin Versions
      BY Standing DEF Versions
    <3> QED
      BY <1>1, <2>2, <2>3, <3>1, <3>2 DEF AdjudicatesCommitted, ActsOnAuthority, Me
  <2>7. OpenedOnAuthority'
    <3>1. \/ opened' = opened
          \/ Authority /\ \A o \in opened' \ opened : o.artifact = config.artifact
      BY <1>3, <2>1, <2>3, ActsByOne
    <3> QED
      BY <1>1, <2>2, <2>3, <3>1 DEF OpenedOnAuthority
  <2> QED
    BY <1>1, <1>3, <2>4, <2>5, <2>6, <2>7 DEF HeldOutInv
<1> QED
  BY <1>2, <1>3

\* A commit is made once: what rests on an earlier one does not see it.
LEMMA HeldOutCommit ==
  ASSUME IInvRuns, HeldOutInv, Commit
  PROVE HeldOutInv'
<1>1. UNCHANGED <<experiment, file, process, runs, opened, loaded>>
  BY DEF Commit, History
<1>2. CASE experiment # "residual"
  BY <1>1, <1>2 DEF HeldOutInv
<1>3. CASE experiment = "residual"
  <2>1. /\ Adjudicated /\ OpenedOnAuthority
        /\ \A q \in Processes : AdjudicatesCommitted(q) /\ ActsOnAuthority(q)
    BY <1>3 DEF HeldOutInv
  <2>2. /\ There("adjudication") => Used(file["adjudication"].by)
        /\ There("evaluation") => file["evaluation"].by # 0
        /\ There("adjudication") => file["adjudication"].by # 0
    BY Files
  <2>3. CASE config = Unset
    <3>1. config.evaluation = 0 /\ config.adjudication = 0
      BY <2>3 DEF Unset
    <3>2. config'.adjudication = 0
      BY <1>3, <2>3, <3>1 DEF Commit, Unset
    <3> QED
      BY <1>1, <1>3, <2>1, <3>1, <3>2 DEF HeldOutInv, Adjudicated, OpenedOnAuthority, Authority,
         AdjudicatesCommitted, ActsOnAuthority, There, Used, Me
  <2>4. CASE config # Unset
    <3>1. \/ /\ config.evaluation # 0 /\ config.adjudication = 0 /\ There("adjudication")
             /\ config' = [config EXCEPT !.adjudication = from_artifact("adjudication")]
          \/ /\ config.adjudication # 0
             /\ config' = [config EXCEPT !.claim = from_artifact(Claim.v1),
                                         !.failure = from_artifact(Failure.v1)]
      BY <2>4 DEF Commit
    <3>2. /\ config'.evaluation = config.evaluation /\ config'.artifact = config.artifact
          /\ \/ config'.adjudication = config.adjudication
             \/ /\ config.adjudication = 0 /\ There("adjudication")
                /\ config'.adjudication = file["adjudication"].by
      BY <3>1 DEF IInvRuns, Remembered, IsConfig, from_artifact
    <3>3. config.adjudication = 0 => ~Authority
      BY DEF Authority
    <3> QED
      BY <1>1, <1>3, <2>1, <2>2, <3>2, <3>3 DEF HeldOutInv, Adjudicated, OpenedOnAuthority,
         Authority, AdjudicatesCommitted, ActsOnAuthority, There, Used, Me
  <2> QED
    BY <2>3, <2>4
<1> QED
  BY <1>2, <1>3

(***************************************************************************)
(* Opened once: a claim stands, and is of the one who opens under it.      *)
(***************************************************************************)
LEMMA ClaimNames ==
  /\ "v1" \in Versions /\ "v2" \in Versions
  /\ \A v \in Versions :
       /\ v = "v1" \/ v = "v2"
       /\ Claim[v] \in FilesOf["residual"] /\ Failure[v] \in FilesOf["residual"]
       /\ \A n \in {"artifact", "training", "preflight", "probe", "A", "R", "canonical",
                   "evaluation", "adjudication", "state", "failure", "invocation"} : n # Claim[v]
       /\ \A w \in Versions : /\ Failure[w] # Claim[v] /\ Output[w] # Claim[v]
                              /\ w # v => Claim[w] # Claim[v]
<1>1. /\ Claim["v1"] = "v1 claim" /\ Claim["v2"] = "v2 claim"
      /\ Output["v1"] = "v1 output" /\ Output["v2"] = "v2 output"
      /\ Failure["v1"] = "v1 failure" /\ Failure["v2"] = "v2 failure"
  BY Zenon DEF Claim, Output, Failure
<1>2. \A v : v \in Versions <=> v = "v1" \/ v = "v2"
  BY Zenon DEF Versions
<1>3. FilesOf["residual"] = Trained \cup {"preflight", "evaluation", "adjudication", "state",
                                         "failure", "invocation"}
                            \cup UNION {{Claim[v], Output[v], Failure[v]} : v \in Versions}
  BY Zenon DEF FilesOf
<1>4. ASSUME NEW v \in Versions
      PROVE Claim[v] \in FilesOf["residual"] /\ Failure[v] \in FilesOf["residual"]
  <2>1. {Claim[v], Output[v], Failure[v]} \in {{Claim[w], Output[w], Failure[w]} : w \in Versions}
    OBVIOUS
  <2>2. Claim[v] \in {Claim[v], Output[v], Failure[v]} /\ Failure[v] \in {Claim[v], Output[v], Failure[v]}
    OBVIOUS
  <2>3. {Claim[v], Output[v], Failure[v]} \subseteq FilesOf["residual"]
    BY <1>3, <2>1
  <2> QED
    BY <2>2, <2>3
<1>5. ASSUME NEW v \in Versions,
             NEW n \in {"artifact", "training", "preflight", "probe", "A", "R", "canonical",
                       "evaluation", "adjudication", "state", "failure", "invocation"}
      PROVE n # Claim[v]
  BY <1>1, <1>2, <1>5, Zenon
<1>6. ASSUME NEW v \in Versions, NEW w \in Versions
      PROVE Failure[w] # Claim[v] /\ Output[w] # Claim[v] /\ (w # v => Claim[w] # Claim[v])
  <2>1. (v = "v1" \/ v = "v2") /\ (w = "v1" \/ w = "v2")
    BY <1>2
  <2>2. Failure[w] # Claim[v]
    BY <1>1, <2>1, Zenon
  <2>3. Output[w] # Claim[v]
    BY <1>1, <2>1, Zenon
  <2>4. Claim["v1"] # Claim["v2"]
    BY <1>1, Zenon
  <2> QED
    BY <2>1, <2>2, <2>3, <2>4
<1> QED
  BY <1>2, <1>4, <1>5, <1>6, Zenon

FirstFailed == There(Claim.v1) /\ There(Failure.v1)

ActsUnderClaim(p) ==
  Me(p).command \in Versions =>
    /\ Me(p).at = "opening" =>
         There(Claim[Me(p).command]) /\ file[Claim[Me(p).command]].by = Me(p).id
    /\ Me(p).command = "v2" /\ Me(p).at # "refused" => FirstFailed

OpenedUnderClaim(o) ==
  /\ o.version \in Versions
  /\ There(Claim[o.version]) /\ file[Claim[o.version]].by = o.run
  /\ o.version = "v2" => FirstFailed

ClaimInv ==
  experiment = "residual" =>
    /\ \A o \in opened : OpenedUnderClaim(o)
    /\ \A p \in Processes : ActsUnderClaim(p)
    /\ config.claim # 0 => FirstFailed

\* No file goes away.
LEMMA FilesStay ==
  ASSUME IInvRuns, NEW p \in Processes, Step(p), NEW n \in FilesOf[experiment], There(n)
  PROVE There(n)' /\ file'[n].by # 0
<1>1. Begins(p) \/ Continues(p)
  BY TrainSteps, EvaluateSteps, JudgeSteps, HeldOutSteps, FailSteps, PlanSteps, GraspSteps,
     InsertSteps DEF Step
<1>2. \/ file' = file
      \/ Me(p) # NoRun /\ \E m, of, says, from : Write(m, of, says, from, p)
  BY <1>1 DEF Begins, Start, Continues, ContinuesAs, WritesOnce
<1>3. IInvRuns' /\ experiment' = experiment
  BY Stepped DEF Frame
<1>4. file'[n].by # 0
  <2>1. CASE file' = file
    BY <2>1 DEF There
  <2>2. ASSUME Me(p) # NoRun, NEW m, NEW of, NEW says, NEW from, Write(m, of, says, from, p)
        PROVE file'[n].by # 0
    <3>1. Me(p).id # 0
      BY <2>2, Standing, NumberOfRuns DEF IInvRuns
    <3>2. file'[n] = IF n = m THEN Doc(Me(p).id, of, says, from) ELSE file[n]
      BY <2>2, Writing
    <3> QED
      BY <3>1, <3>2, Fields DEF There
  <2> QED
    BY <1>2, <2>1, <2>2
<1>5. DOMAIN file' = FilesOf[experiment]
  BY <1>3 DEF IInvRuns, Filed
<1> QED
  BY <1>4, <1>5 DEF There

\* A claim is written where there is none.
LEMMA ClaimWritten ==
  ASSUME IInvRuns, NEW p \in Processes, experiment = "residual", ResidualStep(p),
         NEW v \in Versions
  PROVE \/ file'[Claim[v]] = file[Claim[v]]
        \/ ~There(Claim[v]) /\ Me(p).at = "claiming"
<1>1. /\ Claim[v] \in FilesOf[experiment]
      /\ Claim[v] \notin {"artifact", "training", "preflight", "evaluation", "adjudication",
                         "state", "failure", "invocation"}
      /\ \A w \in Versions : /\ Failure[w] # Claim[v] /\ Output[w] # Claim[v]
                             /\ w # v => Claim[w] # Claim[v]
      /\ Me(p).at \in {"claiming", "opening", "populations"} => Me(p).command \in Versions
  BY ClaimNames, Standing
<1>2. CASE \/ train_residual(p) \/ residual_preflight(p) \/ evaluate_train(p) \/ adjudicate(p)
           \/ held_out_evaluate(p) \/ _authenticate_before_claim(p) \/ Load(p)
           \/ _authenticate_recordings(p) \/ Raise(p) \/ Die(p)
           \/ \E command \in {"train", "evaluate-train"} \cup Versions : Refuse(p, command)
  BY <1>2 DEF train_residual, residual_preflight, evaluate_train, adjudicate, held_out_evaluate,
     _authenticate_before_claim, Load, _authenticate_recordings, Raise, Die, Refuse, Start
<1>3. CASE save_action_conditioning(p) \/ WriteTrainingReport(p) \/ write_run_state(p)
  BY <1>1, <1>3, Writing DEF save_action_conditioning, WriteTrainingReport, write_run_state
<1>4. CASE WriteEvaluation(p)
  <2>1. PICK says \in Verdicts(p) :
          Write(IF Me(p).command = "evaluate-train" THEN "evaluation" ELSE Me(p).command,
                About(p), says, Sources(p), p)
    BY <1>4 DEF WriteEvaluation
  <2>2. Me(p).command \in {"preflight", "probe", "A", "R", "canonical", "evaluate-train"}
    BY <1>4, Scorer DEF WriteEvaluation
  <2>3. Claim[v] \notin {"preflight", "probe", "A", "R", "canonical", "evaluation"}
    BY ClaimNames
  <2> QED
    BY <1>1, <2>1, <2>2, <2>3, Writing
<1>5. CASE adjudicate_report(p)
  BY <1>1, <1>5, Writing DEF adjudicate_report
<1>6. CASE ClaimAccess(p)
  <2>1. Me(p).at = "claiming" /\ ~There(Claim[Me(p).command]) /\ Me(p).command \in Versions
    BY <1>1, <1>6 DEF ClaimAccess, _claim_canonical_access, Absent
  <2>2. CASE Me(p).command = v
    BY <2>1, <2>2
  <2>3. CASE Me(p).command # v
    BY <1>1, <1>6, <2>1, <2>3, Writing DEF ClaimAccess, _claim_canonical_access
  <2> QED
    BY <2>2, <2>3
<1>7. CASE evaluate_population_gate(p)
  BY <1>1, <1>7, Writing DEF evaluate_population_gate
<1>8. CASE _write_failure_record(p)
  BY <1>1, <1>8, Writing DEF _write_failure_record
<1>9. CASE _write_failure(p)
  BY <1>1, <1>9, Writing DEF _write_failure
<1> QED
  BY <1>2, <1>3, <1>4, <1>5, <1>6, <1>7, <1>8, <1>9 DEF ResidualStep

\* What a version has behind it when it goes on.
LEMMA ClaimsByOne ==
  ASSUME IInvRuns, NEW p \in Processes, experiment = "residual", ResidualStep(p),
         ActsUnderClaim(p), config.claim # 0 => FirstFailed
  PROVE /\ process'[p].command \in Versions =>
             /\ process'[p].at = "opening" =>
                  file'[Claim[process'[p].command]].by = process'[p].id /\ process'[p].id # 0
             /\ process'[p].command = "v2" /\ process'[p].at # "refused" => FirstFailed
        /\ opened' = opened
           \/ /\ Me(p).at = "opening" /\ Me(p).command \in Versions
              /\ \A o \in opened' \ opened :
                   o.version = Me(p).command /\ o.run = Me(p).id
<1>1. /\ \A c \in {"train", "preflight", "evaluate-train", "adjudicate", "none"} : c \notin Versions
      /\ Me(p) # NoRun => Me(p).id # 0
      /\ Me(p).at = "refused" => Me(p) # NoRun
      /\ Me(p).at \in {"claiming", "opening", "populations"} =>
           Me(p) # NoRun /\ Me(p).command \in Versions
      /\ \A v \in Versions : Claim[v] \in FilesOf[experiment]
  <2>1. \A c \in {"train", "preflight", "evaluate-train", "adjudicate", "none"} : c \notin Versions
    BY DEF Versions
  <2>2. Me(p) # NoRun => Me(p).id # 0
    BY NumberOfRuns, Standing DEF IInvRuns
  <2>3. /\ Me(p).at \in {"refused", "claiming", "opening", "populations"} => Me(p) # NoRun
        /\ Me(p).at \in {"claiming", "opening", "populations"} => Me(p).command \in Versions
    BY Standing
  <2> QED
    BY <2>1, <2>2, <2>3, ClaimNames
<1>2. CASE train_residual(p) \/ residual_preflight(p) \/ evaluate_train(p) \/ adjudicate(p)
  BY <1>1, <1>2, Entering DEF train_residual, residual_preflight, evaluate_train, adjudicate
<1>3. CASE \E command \in {"train", "evaluate-train"} \cup Versions : Refuse(p, command)
  BY <1>1, <1>3, Entering DEF Refuse, Versions
<1>4. CASE held_out_evaluate(p)
  <2>1. Start(p, "v1", "loading", NoFile)
    BY <1>4 DEF held_out_evaluate
  <2> QED
    BY <2>1, Entering
<1>5. CASE _authenticate_before_claim(p)
  <2>1. Start(p, "v2", "loading", NoFile) /\ config.claim # 0
    BY <1>5 DEF _authenticate_before_claim, authenticate_prior_evidence
  <2> QED
    BY <2>1, Entering
<1>6. CASE save_action_conditioning(p) \/ WriteTrainingReport(p)
  BY <1>1, <1>6, Going DEF save_action_conditioning, WriteTrainingReport, Residual, History
<1>7. CASE write_run_state(p)
  BY <1>1, <1>7, Going, Leaving, Standing DEF write_run_state, History
<1>8. CASE Load(p)
  BY <1>8, Going, Standing DEF Load, ActsUnderClaim
<1>9. CASE WriteEvaluation(p)
  <2>1. Me(p).command \notin Versions
    BY <1>9, Scorer DEF WriteEvaluation, Versions
  <2>2. process'[p].command \in {Me(p).command, "none"} /\ opened' = opened
    BY <1>9, Going, Leaving DEF WriteEvaluation
  <2> QED
    BY <1>1, <2>1, <2>2
<1>10. CASE adjudicate_report(p) \/ evaluate_population_gate(p)
  BY <1>1, <1>10, Leaving DEF adjudicate_report, evaluate_population_gate, History
<1>11. CASE ClaimAccess(p)
  <2>1. /\ Write(Claim[Me(p).command], 0, "claimed", <<>>, p) /\ Goto(p, "opening")
        /\ Me(p).at = "claiming" /\ opened' = opened
    BY <1>11 DEF ClaimAccess, _claim_canonical_access, History
  <2>2. file'[Claim[Me(p).command]].by = Me(p).id
    BY <1>1, <2>1, Writing, Fields
  <2> QED
    BY <1>1, <2>1, <2>2, Going DEF ActsUnderClaim
<1>12. CASE _authenticate_recordings(p)
  BY <1>1, <1>12, Going DEF _authenticate_recordings, ActsUnderClaim
<1>13. CASE Raise(p)
  BY <1>1, <1>13, Going, Leaving DEF Raise, History
<1>14. CASE _write_failure_record(p) \/ _write_failure(p) \/ Die(p)
  BY <1>1, <1>14, Leaving DEF _write_failure_record, _write_failure, Die, History
<1> QED
  BY <1>2, <1>3, <1>4, <1>5, <1>6, <1>7, <1>8, <1>9, <1>10, <1>11, <1>12, <1>13, <1>14
     DEF ResidualStep

LEMMA ClaimStep ==
  ASSUME IInvRuns, ClaimInv, NEW p \in Processes, Step(p)
  PROVE ClaimInv'
<1>1. IInvRuns' /\ Frame(p) /\ experiment' = experiment /\ config' = config
  BY Stepped DEF Frame
<1> SUFFICES ASSUME experiment = "residual"
             PROVE /\ \A o \in opened' : OpenedUnderClaim(o)'
                   /\ \A q \in Processes : ActsUnderClaim(q)'
                   /\ config'.claim # 0 => FirstFailed'
  BY <1>1 DEF ClaimInv
<1>2. /\ \A o \in opened : OpenedUnderClaim(o)
      /\ \A q \in Processes : ActsUnderClaim(q)
      /\ config.claim # 0 => FirstFailed
  BY DEF ClaimInv
<1>3. ResidualStep(p)
  BY ResidualActions
<1>4. /\ \A v \in Versions : Claim[v] \in FilesOf[experiment]
      /\ Claim.v1 \in FilesOf[experiment] /\ Failure.v1 \in FilesOf[experiment]
  BY ClaimNames
<1>5. FirstFailed => FirstFailed'
  BY <1>4, FilesStay DEF FirstFailed
<1>6. ASSUME NEW v \in Versions, There(Claim[v])
      PROVE There(Claim[v])' /\ file'[Claim[v]].by = file[Claim[v]].by
  BY <1>3, <1>4, <1>6, FilesStay, ClaimWritten
<1>7. ASSUME NEW o \in opened PROVE OpenedUnderClaim(o)'
  BY <1>2, <1>5, <1>6 DEF OpenedUnderClaim
<1>8. ASSUME NEW o \in opened' \ opened PROVE OpenedUnderClaim(o)'
  <2>1. /\ Me(p).at = "opening" /\ Me(p).command \in Versions
        /\ o.version = Me(p).command /\ o.run = Me(p).id
    BY <1>2, <1>3, ClaimsByOne
  <2>2. /\ There(Claim[Me(p).command]) /\ file[Claim[Me(p).command]].by = Me(p).id
        /\ Me(p).command = "v2" => FirstFailed
    BY <1>2, <2>1 DEF ActsUnderClaim
  <2> QED
    BY <1>5, <1>6, <2>1, <2>2 DEF OpenedUnderClaim
<1>9. ActsUnderClaim(p)'
  <2>1. ASSUME NEW v \in Versions, process'[p].command = v, process'[p].at = "opening"
        PROVE There(Claim[v])'
    <3>1. file'[Claim[v]].by # 0
      BY <1>2, <1>3, <2>1, ClaimsByOne
    <3>2. Claim[v] \in DOMAIN file'
      BY <1>1, <1>4, <2>1 DEF IInvRuns, Filed
    <3> QED
      BY <3>1, <3>2 DEF There
  <2>2. process'[p].command \in Versions =>
             /\ process'[p].at = "opening" =>
                  file'[Claim[process'[p].command]].by = process'[p].id
             /\ process'[p].command = "v2" /\ process'[p].at # "refused" => FirstFailed
    BY <1>2, <1>3, ClaimsByOne
  <2>3. There(Claim[process[p].command])' <=>
          Claim[process'[p].command] \in DOMAIN file' /\ file'[Claim[process'[p].command]].by # 0
    BY DEF There
  <2>4. \A v \in Versions : There(Claim[v])' => Claim[v] \in DOMAIN file' /\ file'[Claim[v]].by # 0
    BY DEF There
  <2>5. ASSUME process'[p].command \in Versions, process'[p].at = "opening"
        PROVE There(Claim[process[p].command])'
    BY <2>1, <2>3, <2>4, <2>5
  <2> QED
    BY <1>5, <2>2, <2>5 DEF ActsUnderClaim, Me
<1>10. ASSUME NEW q \in Processes \ {p} PROVE ActsUnderClaim(q)'
  <2>1. process'[q] = process[q]
    BY <1>1 DEF Frame
  <2> QED
    BY <1>2, <1>5, <1>6, <2>1 DEF ActsUnderClaim, Me
<1> QED
  BY <1>1, <1>2, <1>5, <1>7, <1>8, <1>9, <1>10

LEMMA ClaimCommit ==
  ASSUME IInvRuns, ClaimInv, Commit
  PROVE ClaimInv'
<1>1. UNCHANGED <<experiment, file, process, runs, opened>>
  BY DEF Commit, History
<1>2. config'.claim = config.claim \/ FirstFailed \/ config'.claim = 0
  BY DEF Commit, FirstFailed, Unset, IInvRuns, Remembered, IsConfig
<1> QED
  BY <1>1, <1>2 DEF ClaimInv, OpenedUnderClaim, ActsUnderClaim, FirstFailed, There, Me

LEMMA HeldOutHolds ==
  ASSUME IInvRuns, HeldOutInv, ClaimInv
  PROVE HeldOutIsEarned
<1> SUFFICES ASSUME NEW o \in opened
             PROVE /\ o.artifact = config.artifact
                   /\ file["adjudication"].by = config.adjudication =>
                        /\ file["adjudication"].says = "passed"
                        /\ file["adjudication"].of = o.artifact
                   /\ \A other \in opened : other.version = o.version => other.run = o.run
                   /\ o.version = "v2" => There(Claim.v1) /\ There(Failure.v1)
  BY DEF HeldOutIsEarned
<1>1. experiment = "residual" /\ Authority /\ o.artifact = config.artifact /\ Adjudicated
  BY DEF HeldOutInv, OpenedOnAuthority
<1>2. file["adjudication"].by = config.adjudication => There("adjudication")
  BY <1>1, Files DEF Authority, FilesOf
<1>3. \A other \in opened : OpenedUnderClaim(other)
  BY <1>1 DEF ClaimInv
<1>4. /\ \A other \in opened : other.version = o.version => other.run = o.run
      /\ o.version = "v2" => There(Claim.v1) /\ There(Failure.v1)
  BY <1>3 DEF OpenedUnderClaim, FirstFailed
<1> QED
  BY <1>1, <1>2, <1>4 DEF Authority, Adjudicated

(***************************************************************************)
(* KeptRuns: what a rollout or a session has left is its own, for good.    *)
(***************************************************************************)
Lasting == \A i \in 1 .. 6 : There(Kept[i]) => Session(i).by = i

LEMMA SessionNumbers ==
  ASSUME IInvRuns, Lasting, experiment \in {"grasp", "insertion"}
  PROVE /\ \A i \in 1 .. 6 : Kept[i] \in FilesOf[experiment]
        /\ KeptRuns = {i \in 1 .. 6 : file[Kept[i]].by # 0}
        /\ \A i \in KeptRuns : i \in 1 .. runs /\ Session(i).by = i /\ Used(i)
<1>1. \A i \in 1 .. 6 : Kept[i] \in FilesOf[experiment] /\ Kept[i] # "state"
  <2>1. \A i \in 1 .. 6 : Kept[i] \in FilesOf[experiment]
    <3>1. CASE experiment = "grasp"
      BY <3>1 DEF FilesOf
    <3>2. CASE experiment = "insertion"
      BY <3>2 DEF FilesOf
    <3> QED
      BY <3>1, <3>2
  <2>2. \A i \in 1 .. 6 : Kept[i] # "state"
    BY KeptNames
  <2> QED
    BY <2>1, <2>2
<1>2. runs \in 0 .. 6
  BY NumberOfRuns DEF IInvRuns, Counted
<1>3. \A i \in 1 .. 6 : There(Kept[i]) <=> file[Kept[i]].by # 0
  BY <1>1, Files
<1>4. \A i \in 1 .. 6 : There(Kept[i]) => Session(i).by = i /\ Used(i) /\ i \in 1 .. runs
  BY <1>1, <1>3, Files DEF Lasting, Session, Used
<1> QED
  BY <1>1, <1>2, <1>3, <1>4 DEF KeptRuns

\* A step that writes a session only under its own number, before it is used, keeps
\* the others.
LEMMA SessionsLast ==
  ASSUME IInvRuns, Lasting, experiment \in {"grasp", "insertion"}, NEW p \in Processes,
         IInvRuns', Frame(p),
         \A i \in 1 .. 6 : \/ file'[Kept[i]] = file[Kept[i]]
                           \/ /\ i = Me(p).id /\ Me(p).at \notin Past
                              /\ file'[Kept[i]].by = i
  PROVE /\ Lasting' /\ KeptRuns \subseteq KeptRuns'
        /\ \A i \in KeptRuns : file'[Kept[i]] = file[Kept[i]]
<1>1. experiment' = experiment /\ runs' \in runs .. MaxRuns[experiment] /\ runs \in Nat
  BY NumberOfRuns DEF Frame, IInvRuns
<1>2. /\ \A i \in 1 .. 6 : Kept[i] \in FilesOf[experiment]
      /\ \A n : There(n)' <=> n \in FilesOf[experiment] /\ file'[n].by # 0
  BY <1>1, SessionNumbers DEF There, IInvRuns, Filed
<1>3. ASSUME NEW i \in KeptRuns
      PROVE /\ file'[Kept[i]] = file[Kept[i]]
            /\ i \in 1 .. runs /\ i \in 1 .. 6 /\ file[Kept[i]].by # 0
  BY SessionNumbers DEF Used
<1>4. Lasting'
  <2>1. \A i \in 1 .. 6 : file'[Kept[i]].by # 0 => file'[Kept[i]].by = i
    BY <1>2, Files DEF Lasting, Session
  <2> QED
    BY <1>2, <2>1 DEF Lasting, Session
<1>5. KeptRuns \subseteq KeptRuns'
  BY <1>1, <1>2, <1>3 DEF KeptRuns
<1> QED
  BY <1>3, <1>4, <1>5

(***************************************************************************)
(* Grasp: the film is of a rollout that passed.                            *)
(***************************************************************************)
ComparedSession == There("baseline") => file["baseline"].from[1] \in KeptRuns

FilmedSession ==
  There("film") => LET i == file["film"].from[1]
                   IN /\ i \in KeptRuns /\ Session(i).of = file["film"].of
                      /\ Session(i).says = "passed"

ComparesSession(p) == Me(p).command = "baselines" => Me(p).source.by \in KeptRuns

FilmsReady(p) ==
  Me(p).command = "film" /\ Me(p).at = "recording" =>
    LET i == Me(p).source.by
    IN /\ i \in KeptRuns /\ Session(i).of = Me(p).artifact /\ Session(i).says = "passed"

GraspInv ==
  experiment = "grasp" =>
    /\ Lasting /\ ComparedSession /\ FilmedSession
    /\ \A p \in Processes : ComparesSession(p) /\ FilmsReady(p)

LEMMA GraspFiles ==
  ASSUME IInvRuns, NEW p \in Processes, experiment = "grasp", GraspStep(p)
  PROVE /\ \A i \in 1 .. 6 : \/ file'[Kept[i]] = file[Kept[i]]
                             \/ /\ i = Me(p).id /\ Me(p).at \notin Past
                                /\ file'[Kept[i]].by = i
        /\ \/ file'["baseline"] = file["baseline"]
           \/ Me(p).command = "baselines" /\ file'["baseline"].from = <<Me(p).source.by>>
        /\ \/ file'["film"] = file["film"]
           \/ /\ Me(p).command = "film" /\ Me(p).at = "recording"
              /\ file'["film"].of = Me(p).artifact /\ file'["film"].from = <<Me(p).source.by>>
<1>1. /\ \A i \in 1 .. 6 : /\ Kept[i] \in FilesOf[experiment]
                           /\ Kept[i] \notin {"artifact", "training", "baseline", "summary", "film"}
      /\ {"baseline", "film"} \subseteq FilesOf[experiment]
      /\ \A i, j \in 1 .. 6 : Kept[i] = Kept[j] => i = j
  <2>1. \A i \in 1 .. 6 : Kept[i] \in FilesOf[experiment]
    BY DEF FilesOf
  <2>2. \A i \in 1 .. 6 : Kept[i] \notin {"artifact", "training", "baseline", "summary", "film"}
    BY KeptNames
  <2>3. {"baseline", "film"} \subseteq FilesOf[experiment]
    BY DEF FilesOf
  <2> QED
    BY <2>1, <2>2, <2>3, KeptNames
<1>2. Me(p) # NoRun => Me(p).id \in 1 .. 6
  BY NumberOfRuns, Standing DEF IInvRuns, Counted
<1>3. CASE \/ train_action_proposal(p) \/ StartRollout(p) \/ report_control_baselines(p)
           \/ GraspControlReadinessSummary(p) \/ load_verified(p)
           \/ load_container_reconstruction(p) \/ Raise(p) \/ Die(p)
  BY <1>3 DEF train_action_proposal, StartRollout, report_control_baselines, Start,
     GraspControlReadinessSummary, load_verified, load_container_reconstruction, Raise, Die
<1>4. CASE save_action_conditioning(p) \/ WriteTrainingReport(p) \/ WriteGraspReadiness(p)
  BY <1>1, <1>4, Writing DEF save_action_conditioning, WriteTrainingReport, WriteGraspReadiness
<1>5. CASE EndRollout(p)
  <2>1. Me(p).command = "rollout" /\ Me(p) # NoRun
    BY <1>5 DEF EndRollout, NoRun
  <2>2. Me(p).at \notin Past
    BY <2>1, Standing DEF Place, PlacesOf, Places, Past
  <2> QED
    BY <1>1, <1>2, <1>5, <2>1, <2>2, Writing, Fields DEF EndRollout
<1>6. CASE WriteBaselines(p)
  BY <1>1, <1>6, Writing, Fields DEF WriteBaselines
<1>7. CASE record_grasp_demo(p)
  BY <1>1, <1>7, Writing, Fields DEF record_grasp_demo
<1> QED
  BY <1>3, <1>4, <1>5, <1>6, <1>7 DEF GraspStep

LEMMA GraspByOne ==
  ASSUME IInvRuns, NEW p \in Processes, experiment = "grasp", GraspStep(p), Lasting,
         ComparedSession
  PROVE /\ process'[p].command = "baselines" => process'[p].source.by \in KeptRuns
        /\ process'[p].command = "film" /\ process'[p].at = "recording" =>
             LET i == process'[p].source.by
             IN /\ i \in KeptRuns /\ Session(i).of = process'[p].artifact
                /\ Session(i).says = "passed"
<1>1. experiment \notin Residual /\ \A i \in KeptRuns : Session(i).by = i
  BY SessionNumbers DEF Residual
<1>2. CASE \/ train_action_proposal(p) \/ StartRollout(p) \/ GraspControlReadinessSummary(p)
           \/ load_verified(p)
  BY <1>2, Entering DEF train_action_proposal, StartRollout, GraspControlReadinessSummary,
     load_verified
<1>3. CASE report_control_baselines(p)
  BY <1>1, <1>3, Entering DEF report_control_baselines
<1>4. CASE save_action_conditioning(p)
  BY <1>4, Going DEF save_action_conditioning
<1>5. CASE load_container_reconstruction(p)
  <2> DEFINE i == file["baseline"].from[1]
  <2>1. /\ There("baseline") /\ Session(i).says = "passed" /\ Session(i).of = Me(p).artifact
    BY <1>5 DEF load_container_reconstruction, _require_saved_summary, load_persisted
  <2>2. i \in KeptRuns /\ Session(i).by = i
    BY <1>1, <2>1 DEF ComparedSession
  <2>3. process' = [process EXCEPT ![p] =
          [[process[p] EXCEPT !.at = "recording"] EXCEPT !.source = Session(i)]]
    BY <1>5 DEF load_container_reconstruction, load_persisted
  <2>4. process'[p] = [command |-> Me(p).command, at |-> "recording", id |-> Me(p).id,
                       artifact |-> Me(p).artifact, source |-> Session(i)]
    BY <2>3, Rewritten DEF IInvRuns, Running, Me
  <2>5. Me(p).command = "film"
    BY <1>5 DEF load_container_reconstruction
  <2> QED
    BY <2>1, <2>2, <2>4, <2>5
<1>6. CASE \/ WriteTrainingReport(p) \/ EndRollout(p) \/ WriteBaselines(p)
           \/ WriteGraspReadiness(p) \/ record_grasp_demo(p) \/ Raise(p) \/ Die(p)
  BY <1>1, <1>6, Leaving DEF WriteTrainingReport, EndRollout, WriteBaselines,
     WriteGraspReadiness, record_grasp_demo, Raise, Die
<1> QED
  BY <1>2, <1>3, <1>4, <1>5, <1>6 DEF GraspStep

LEMMA GraspInvStep ==
  ASSUME IInvRuns, GraspInv, NEW p \in Processes, Step(p)
  PROVE GraspInv'
<1>1. IInvRuns' /\ Frame(p) /\ experiment' = experiment
  BY Stepped DEF Frame
<1> SUFFICES ASSUME experiment = "grasp"
             PROVE  GraspInv'
  BY <1>1 DEF GraspInv
<1>2. GraspStep(p) /\ Lasting /\ ComparedSession /\ FilmedSession
      /\ \A q \in Processes : ComparesSession(q) /\ FilmsReady(q)
  BY GraspActions DEF GraspInv
<1>3. /\ Lasting' /\ KeptRuns \subseteq KeptRuns'
      /\ \A i \in KeptRuns : file'[Kept[i]] = file[Kept[i]]
  BY <1>1, <1>2, GraspFiles, SessionsLast
<1>4. {"baseline", "film"} \subseteq FilesOf[experiment]
  BY DEF FilesOf
<1>5. /\ file'["baseline"].by # 0 => file'["baseline"].from[1] \in KeptRuns
      /\ file'["film"].by # 0 =>
           LET i == file'["film"].from[1]
           IN /\ i \in KeptRuns /\ Session(i).of = file'["film"].of
              /\ Session(i).says = "passed"
  <2>1. /\ file["baseline"].by # 0 => file["baseline"].from[1] \in KeptRuns
        /\ file["film"].by # 0 =>
             LET i == file["film"].from[1]
             IN /\ i \in KeptRuns /\ Session(i).of = file["film"].of
                /\ Session(i).says = "passed"
    BY <1>2, <1>4, Files DEF ComparedSession, FilmedSession
  <2> QED
    BY <1>2, <2>1, GraspFiles DEF ComparesSession, FilmsReady
<1>6. ComparedSession' /\ FilmedSession'
  BY <1>1, <1>3, <1>4, <1>5 DEF ComparedSession, FilmedSession, Session, There, IInvRuns, Filed
<1>7. ComparesSession(p)' /\ FilmsReady(p)'
  BY <1>2, <1>3, GraspByOne DEF ComparesSession, FilmsReady, Session, Me
<1>8. ASSUME NEW q \in Processes \ {p}
      PROVE ComparesSession(q)' /\ FilmsReady(q)'
  <2>1. process'[q] = Me(q)
    BY <1>1 DEF Frame, Me
  <2> QED
    BY <1>2, <1>3, <2>1 DEF ComparesSession, FilmsReady, Session, Me
<1> QED
  BY <1>3, <1>6, <1>7, <1>8 DEF GraspInv

(***************************************************************************)
(* Insertion: a hand-off is true of the weights.                           *)
(***************************************************************************)
\* What answered session i was trained from the bytes, or the bytes from what
\* answered the session after it.
Handed(i, bytes) ==
  \/ loaded[Session(i).of] = bytes
  \/ \E t \in KeptRuns : Session(t).from[1] = i /\ loaded[bytes] = Session(t).of

Chosen(selection) ==
  selection.session \in KeptRuns /\ (selection.parent = "base" => Used(selection.bytes))

\* The child was trained from the bytes it was selected for, if they still are there.
OfParent(selection, child) ==
  /\ Chosen(selection)
  /\ selection.parent = "base" /\ file["artifact"].by = selection.bytes =>
       loaded[child] = selection.bytes

SessionsAnswered == \A i \in KeptRuns : Session(i).says \in Paths /\ Used(Session(i).of)
ChildOfParent    == There("child") => OfParent(file["child"].from, file["child"].by)

HandedOff ==
  There("handoff") => LET h == file["handoff"]
                      IN h.from[1] \in KeptRuns /\ Used(h.of) /\ Handed(h.from[1], h.of)

FollowedUp ==
  There("followup") => There("handoff") /\ file["followup"].of = file["handoff"].of

Finetunes(p) ==
  Me(p).command = "finetune" =>
    /\ \E by, of, says, from : Me(p).source = Doc(by, of, says, from)
    /\ Chosen(Me(p).source.from)
    /\ Me(p).at \in {"optimizing", "reporting"} => OfParent(Me(p).source.from, Me(p).id)

HandsOff(p) ==
  Me(p).command = "handoff" =>
    LET s == Me(p).source IN s.by \in KeptRuns /\ Used(s.of) /\ Handed(s.by, s.of)

FollowsUp(p) == Me(p).command = "followup" => There("handoff")

DescentInv ==
  experiment = "insertion" =>
    /\ Lasting /\ SessionsAnswered /\ ChildOfParent /\ HandedOff /\ FollowedUp
    /\ \A p \in Processes : Finetunes(p) /\ HandsOff(p) /\ FollowsUp(p)

InsertionNames == {"artifact", "training", "child", "child report", "handoff", "followup"}

LEMMA InsertionNamed ==
  ASSUME experiment = "insertion"
  PROVE /\ \A i \in 1 .. 6 : Kept[i] \in FilesOf[experiment] /\ Kept[i] \notin InsertionNames
        /\ InsertionNames \subseteq FilesOf[experiment]
        /\ \A i, j \in 1 .. 6 : Kept[i] = Kept[j] => i = j
<1>1. \A i \in 1 .. 6 : Kept[i] \in FilesOf[experiment]
  BY DEF FilesOf
<1>2. \A i \in 1 .. 6 : Kept[i] \notin InsertionNames
  BY KeptNames DEF InsertionNames
<1>3. InsertionNames \subseteq FilesOf[experiment]
  BY DEF FilesOf, InsertionNames, Trained
<1> QED
  BY <1>1, <1>2, <1>3, KeptNames

\* What a step keeps: the sessions, what is used, and which bytes the parent has.
Keeps ==
  /\ KeptRuns \subseteq KeptRuns' /\ \A i \in KeptRuns : file'[Kept[i]] = file[Kept[i]]
  /\ \A x \in 1 .. runs : Used(x) => Used(x)' /\ loaded'[x] = loaded[x]
  /\ \A x : Used(x) /\ file'["artifact"].by = x => file["artifact"].by = x

LEMMA HandedStays ==
  ASSUME Keeps, SessionsAnswered, NEW i \in KeptRuns, NEW bytes, Used(bytes), Handed(i, bytes)
  PROVE Handed(i, bytes)'
<1>1. loaded'[bytes] = loaded[bytes]
  BY DEF Keeps, Used
<1>2. Session(i)' = Session(i) /\ loaded'[Session(i).of] = loaded[Session(i).of]
  BY DEF Keeps, SessionsAnswered, Session, Used
<1>3. CASE loaded[Session(i).of] = bytes
  BY <1>2, <1>3 DEF Handed
<1>4. ASSUME NEW t \in KeptRuns, Session(t).from[1] = i, loaded[bytes] = Session(t).of
      PROVE Handed(i, bytes)'
  BY <1>1, <1>4 DEF Handed, Keeps, Session
<1> QED
  BY <1>3, <1>4 DEF Handed

LEMMA OfParentStays ==
  ASSUME Keeps, NEW selection, NEW child, OfParent(selection, child),
         loaded'[child] = loaded[child]
  PROVE OfParent(selection, child)'
<1>1. Chosen(selection)'
  BY DEF OfParent, Chosen, Keeps, Used
<1> QED
  BY <1>1 DEF OfParent, Chosen, Keeps

LEMMA InsertionWritten ==
  ASSUME IInvRuns, NEW p \in Processes, experiment = "insertion", NEW n \in InsertionNames,
         NEW of, NEW says, NEW from, Write(n, of, says, from, p)
  PROVE /\ \A i \in 1 .. 6 : file'[Kept[i]] = file[Kept[i]]
        /\ \A m \in InsertionNames :
             file'[m] = IF m = n THEN Doc(Me(p).id, of, says, from) ELSE file[m]
  BY Writing, InsertionNamed

LEMMA InsertionFiles ==
  ASSUME IInvRuns, NEW p \in Processes, experiment = "insertion", InsertionStep(p)
  PROVE /\ \A i \in 1 .. 6 : file'[Kept[i]] = file[Kept[i]]
        /\ \/ file'["artifact"] = file["artifact"]
           \/ file'["artifact"].by = Me(p).id /\ Me(p).at = "training"
        /\ \/ file'["child"] = file["child"]
           \/ /\ Me(p).command = "finetune" /\ Me(p).at = "optimizing" /\ loaded' = loaded
              /\ file'["child"].by = Me(p).id /\ file'["child"].from = Me(p).source.from
              /\ file'["artifact"] = file["artifact"]
        /\ \/ file'["handoff"] = file["handoff"] /\ file'["followup"] = file["followup"]
           \/ /\ Me(p).command = "handoff" /\ ~There("handoff")
              /\ file'["handoff"].of = Me(p).source.of
              /\ file'["handoff"].from = <<Me(p).source.by>>
              /\ file'["followup"] = file["followup"]
           \/ /\ Me(p).command = "followup" /\ file'["followup"].of = file["handoff"].of
              /\ file'["handoff"] = file["handoff"]
<1>1. CASE \/ train_action_proposal(p) \/ Raise(p) \/ Die(p) \/ finetune_insertion_transition(p)
           \/ load_action_proposal(p) \/ write_insertion_proposal_handoff(p)
           \/ AnswerFollowup(p)
  BY <1>1 DEF train_action_proposal, Raise, Die, finetune_insertion_transition, Start,
     load_action_proposal, write_insertion_proposal_handoff, AnswerFollowup
<1>2. CASE save_action_conditioning(p)
  <2>1. Write("artifact", Me(p).id, "trained", <<>>, p)
    BY <1>2 DEF save_action_conditioning
  <2> DEFINE d == Doc(Me(p).id, Me(p).id, "trained", <<>>)
  <2>2. /\ \A i \in 1 .. 6 : file'[Kept[i]] = file[Kept[i]]
        /\ \A m \in InsertionNames : file'[m] = IF m = "artifact" THEN d ELSE file[m]
    <3>1. "artifact" \in InsertionNames
      BY DEF InsertionNames
    <3> QED
      BY <2>1, <3>1, InsertionWritten, Zenon
  <2>3. d.by = Me(p).id
    BY DEF Doc
  <2> HIDE DEF d
  <2>4. Me(p).at = "training"
    BY <1>2 DEF save_action_conditioning
  <2> QED
    BY <2>2, <2>3, <2>4 DEF InsertionNames
<1>3. CASE WriteTrainingReport(p) \/ WriteFinetuneReport(p)
  <2>1. ASSUME NEW n \in {"training", "child report"}, NEW of, NEW says, NEW from,
               Write(n, of, says, from, p)
        PROVE /\ \A i \in 1 .. 6 : file'[Kept[i]] = file[Kept[i]]
              /\ \A m \in InsertionNames \ {"training", "child report"} : file'[m] = file[m]
    <3>1. n \in InsertionNames
      BY DEF InsertionNames
    <3>2. /\ \A i \in 1 .. 6 : file'[Kept[i]] = file[Kept[i]]
          /\ \A m \in InsertionNames :
               file'[m] = IF m = n THEN Doc(Me(p).id, of, says, from) ELSE file[m]
      BY <2>1, <3>1, InsertionWritten, Zenon
    <3> QED
      BY <3>2
  <2>2. \/ Write("training", from_artifact("artifact"), "trained", <<>>, p)
        \/ Write("child report", Now("child"), Me(p).source.says, Me(p).source.from, p)
    BY <1>3 DEF WriteTrainingReport, WriteFinetuneReport
  <2>3. /\ \A i \in 1 .. 6 : file'[Kept[i]] = file[Kept[i]]
        /\ \A m \in InsertionNames \ {"training", "child report"} : file'[m] = file[m]
    BY <2>1, <2>2, Zenon
  <2> QED
    BY <2>3 DEF InsertionNames
<1>4. CASE save_action_proposal(p)
  <2>1. PICK says : Write("child", 0, says, Me(p).source.from, p)
    BY <1>4 DEF save_action_proposal
  <2> DEFINE d == Doc(Me(p).id, 0, says, Me(p).source.from)
  <2>2. /\ \A i \in 1 .. 6 : file'[Kept[i]] = file[Kept[i]]
        /\ \A m \in InsertionNames : file'[m] = IF m = "child" THEN d ELSE file[m]
    <3>1. "child" \in InsertionNames
      BY DEF InsertionNames
    <3> QED
      BY <2>1, <3>1, InsertionWritten, Zenon
  <2>3. d.by = Me(p).id /\ d.from = Me(p).source.from
    BY DEF Doc
  <2> HIDE DEF d
  <2>4. Me(p).command = "finetune" /\ Me(p).at = "optimizing" /\ loaded' = loaded
    BY <1>4 DEF save_action_proposal, History
  <2> QED
    BY <2>2, <2>3, <2>4 DEF InsertionNames
<1>5. CASE persist_insertion_proposal_handoff(p)
  <2>1. Write("handoff", Me(p).source.of, Me(p).source.says, <<Me(p).source.by>>, p)
    BY <1>5 DEF persist_insertion_proposal_handoff
  <2> DEFINE d == Doc(Me(p).id, Me(p).source.of, Me(p).source.says, <<Me(p).source.by>>)
  <2>2. /\ \A i \in 1 .. 6 : file'[Kept[i]] = file[Kept[i]]
        /\ \A m \in InsertionNames : file'[m] = IF m = "handoff" THEN d ELSE file[m]
    <3>1. "handoff" \in InsertionNames
      BY DEF InsertionNames
    <3> QED
      BY <2>1, <3>1, InsertionWritten, Zenon
  <2>3. d.of = Me(p).source.of /\ d.from = <<Me(p).source.by>>
    BY DEF Doc
  <2> HIDE DEF d
  <2>4. Me(p).command = "handoff" /\ ~There("handoff")
    BY <1>5 DEF persist_insertion_proposal_handoff, Absent
  <2> QED
    BY <2>2, <2>3, <2>4 DEF InsertionNames
<1>6. CASE ValidateFollowup(p)
  <2>1. Write("followup", Me(p).source.of, Me(p).source.says, Me(p).source.from, p)
    BY <1>6 DEF ValidateFollowup
  <2> DEFINE d == Doc(Me(p).id, Me(p).source.of, Me(p).source.says, Me(p).source.from)
  <2>2. /\ \A i \in 1 .. 6 : file'[Kept[i]] = file[Kept[i]]
        /\ \A m \in InsertionNames : file'[m] = IF m = "followup" THEN d ELSE file[m]
    <3>1. "followup" \in InsertionNames
      BY DEF InsertionNames
    <3> QED
      BY <2>1, <3>1, InsertionWritten, Zenon
  <2>3. d.of = Me(p).source.of
    BY DEF Doc
  <2> HIDE DEF d
  <2>4. Me(p).command = "followup" /\ Me(p).source.of = file["handoff"].of
    BY <1>6 DEF ValidateFollowup
  <2> QED
    BY <2>2, <2>3, <2>4 DEF InsertionNames
<1> QED
  BY <1>1, <1>2, <1>3, <1>4, <1>5, <1>6 DEF InsertionStep

LEMMA HandoffBegins ==
  ASSUME IInvRuns, experiment = "insertion", SessionsAnswered, ChildOfParent,
         NEW i \in KeptRuns, NEW requested \in Paths,
         Session(i).of = Now(Session(i).says),
         InsertionProposalHandoff(i, requested)
         \/ InsertionTransitionDescendantHandoff(i, requested)
  PROVE Used(Now(requested)) /\ Handed(i, Now(requested))
<1> DEFINE selection == file["child"].from
<1>1. ASSUME NEW path \in Paths, IsBridge(path)
      PROVE /\ path = "child" /\ Used(Now("base")) /\ Used(Now("child"))
            /\ file["child report"].from = selection
            /\ selection.parent = "base" /\ Now("base") = selection.bytes
            /\ selection.session \in KeptRuns /\ loaded[Now("child")] = selection.bytes
  <2>1. path = "child"
    BY <1>1 DEF IsBridge, Paths
  <2>2. /\ There("child") /\ There("artifact") /\ file["child report"].from = selection
        /\ selection.parent = "base" /\ Now("base") = selection.bytes
    BY <1>1, <2>1 DEF IsBridge, Report, Artifact, Now, ParentBytes, TrainingArtifactIdentity
  <2>3. Now("base") = file["artifact"].by /\ Now("child") = file["child"].by
    BY DEF Now, Artifact, from_artifact
  <2>4. OfParent(selection, file["child"].by)
    BY <2>2 DEF ChildOfParent
  <2>5. Used(file["artifact"].by) /\ Used(file["child"].by)
    BY <2>2, Files
  <2> QED
    BY <2>1, <2>2, <2>3, <2>4, <2>5 DEF OfParent, Chosen
<1>2. CASE InsertionProposalHandoff(i, requested)
  <2>1. Session(i).says \in Paths /\ IsBridge(Session(i).says)
    BY <1>2 DEF InsertionProposalHandoff, SessionsAnswered
  <2>2. Session(i).says = "child" /\ requested = "base"
    <3>1. Session(i).says = "child" /\ selection.parent = "base"
          /\ file["child report"].from = selection
      BY <1>1, <2>1
    <3>2. requested = file[Report[Session(i).says]].from.parent
      BY <1>2 DEF InsertionProposalHandoff
    <3>3. Report["child"] = "child report"
      BY DEF Report
    <3> QED
      BY <3>1, <3>2, <3>3
  <2> QED
    BY <1>1, <2>1, <2>2 DEF Handed
<1>3. CASE InsertionTransitionDescendantHandoff(i, requested)
  <2>1. IsBridge(requested)
    BY <1>3 DEF InsertionTransitionDescendantHandoff
  <2>2. requested = "child"
    BY <1>1, <2>1
  <2>3. Session(selection.session).from[1] = i
        /\ Session(selection.session).of = selection.bytes
    BY <1>1, <1>3, <2>1, <2>2 DEF InsertionTransitionDescendantHandoff, Report
  <2> QED
    BY <1>1, <2>1, <2>2, <2>3 DEF Handed
<1> QED
  BY <1>2, <1>3

\* What the process that steps knows then.
LEMMA InsertionByOne ==
  ASSUME IInvRuns, NEW p \in Processes, experiment = "insertion", InsertionStep(p),
         SessionsAnswered, ChildOfParent, Finetunes(p)
  PROVE LET r == process'[p]
        IN /\ r.command = "finetune" =>
                /\ \E by, of, says, from : r.source = Doc(by, of, says, from)
                /\ Chosen(r.source.from)
                /\ /\ r.at \in {"optimizing", "reporting"} /\ r.source.from.parent = "base"
                   /\ file'["artifact"].by = r.source.from.bytes
                   => loaded'[r.id] = r.source.from.bytes
           /\ r.command = "handoff" =>
                /\ r.source.by \in KeptRuns /\ Used(r.source.of)
                /\ Handed(r.source.by, r.source.of)
           /\ r.command = "followup" => There("handoff")
<1>0. experiment \notin Residual
  BY DEF Residual
<1>1. CASE train_action_proposal(p)
  BY <1>1, Entering DEF train_action_proposal
<1>2. CASE save_action_conditioning(p)
  BY <1>2, Going DEF save_action_conditioning
<1>3. CASE \/ WriteTrainingReport(p) \/ WriteFinetuneReport(p) \/ Raise(p) \/ Die(p)
           \/ persist_insertion_proposal_handoff(p) \/ ValidateFollowup(p)
  BY <1>0, <1>3, Leaving DEF WriteTrainingReport, WriteFinetuneReport, Raise, Die,
     persist_insertion_proposal_handoff, ValidateFollowup
<1>4. CASE finetune_insertion_transition(p)
  <2>1. PICK path \in Paths, i \in KeptRuns :
          /\ IsParent(path)
          /\ Start(p, "finetune", "parent", Doc(i, Now(path), "selection", Selection(path, i)))
    BY <1>4 DEF finetune_insertion_transition
  <2> DEFINE r == process'[p]
  <2>2. /\ r.command = "finetune" /\ r.at = "parent"
        /\ r.source = Doc(i, Now(path), "selection", Selection(path, i))
    BY <2>1, Entering
  <2>3. r.source.from = Selection(path, i)
    BY <2>2, Fields
  <2>4. path = "base" => Used(Now(path))
    BY <2>1, Files DEF IsParent, TrainingArtifactIdentity, Now, Artifact, from_artifact
  <2>5. Chosen(Selection(path, i))
    BY <2>4 DEF Chosen, Selection
  <2> HIDE DEF r
  <2> QED
    BY <2>2, <2>3, <2>5 DEF r
<1>5. CASE load_action_proposal(p)
  <2> DEFINE r == process'[p]
  <2>1. /\ r.command = "finetune" /\ r.at = "optimizing" /\ r.id = Me(p).id
        /\ r.source = Me(p).source /\ Me(p).command = "finetune" /\ file' = file
    BY <1>5, Going DEF load_action_proposal
  <2>2. Me(p) # NoRun
    BY <2>1 DEF NoRun
  <2>3. Me(p).id \in 1 .. MaxRuns[experiment]
    BY <2>2, Standing, NumberOfRuns DEF IInvRuns, Counted
  <2>4. loaded'[Me(p).id] = Now(Me(p).source.from.parent)
    BY <1>5, <2>3 DEF load_action_proposal, IInvRuns, Remembered
  <2>5. Now("base") = file["artifact"].by
    BY DEF Now, Artifact, from_artifact
  <2> HIDE DEF r
  <2> QED
    BY <2>1, <2>4, <2>5 DEF Finetunes, r
<1>6. CASE save_action_proposal(p)
  <2>1. Me(p).command = "finetune" /\ Me(p).at = "optimizing" /\ loaded' = loaded
    BY <1>6 DEF save_action_proposal, History
  <2>2. PICK by, of, says, from : Me(p).source = Doc(by, of, says, from)
    BY <2>1 DEF Finetunes
  <2>3. PICK verdict :
          process' = [process EXCEPT ![p] =
            [[process[p] EXCEPT !.at = "reporting"] EXCEPT
               !.source = [process[p].source EXCEPT !.says = verdict]]]
    <3>1. PICK verdict : process' = [process EXCEPT ![p].at = "reporting",
                                                    ![p].source.says = verdict]
      BY <1>6 DEF save_action_proposal
    <3>2. process' = [process EXCEPT ![p] =
            [[process[p] EXCEPT !.at = "reporting"] EXCEPT
               !.source = [[process[p] EXCEPT !.at = "reporting"].source EXCEPT
                             !.says = verdict]]]
      BY <3>1
    <3>3. [process[p] EXCEPT !.at = "reporting"].source = process[p].source
      BY DEF IInvRuns, Running, IsRun, Me
    <3> QED
      BY <3>2, <3>3
  <2>4. [process[p].source EXCEPT !.says = verdict] = Doc(by, of, verdict, from)
    BY <2>2 DEF Doc, Me
  <2>5. process'[p] = [command |-> Me(p).command, at |-> "reporting", id |-> Me(p).id,
                       artifact |-> Me(p).artifact, source |-> Doc(by, of, verdict, from)]
    BY <2>3, <2>4, Rewritten DEF IInvRuns, Running, Me
  <2>6. Me(p).source.from = from /\ process'[p].source.from = from
    BY <2>2, <2>5, Fields
  <2>7. OfParent(from, Me(p).id)
    BY <2>1, <2>6 DEF Finetunes
  <2>8. file'["artifact"] = file["artifact"]
    BY <2>1, InsertionFiles
  <2> QED
    BY <2>1, <2>5, <2>6, <2>7, <2>8 DEF OfParent
<1>7. CASE write_insertion_proposal_handoff(p)
  <2>1. PICK i \in KeptRuns, requested \in Paths :
          /\ Session(i).of = Now(Session(i).says)
          /\ \/ InsertionProposalHandoff(i, requested)
             \/ InsertionTransitionDescendantHandoff(i, requested)
          /\ Start(p, "handoff", "persisting", Doc(i, Now(requested), requested, <<>>))
    BY <1>7 DEF write_insertion_proposal_handoff
  <2>2. Used(Now(requested)) /\ Handed(i, Now(requested))
    BY <2>1, HandoffBegins
  <2>3. process'[p].command = "handoff"
        /\ process'[p].source = Doc(i, Now(requested), requested, <<>>)
    BY <2>1, Entering
  <2>4. process'[p].source.by = i /\ process'[p].source.of = Now(requested)
    BY <2>3, Fields
  <2> QED
    BY <2>2, <2>3, <2>4
<1>8. CASE AnswerFollowup(p)
  BY <1>8, Entering DEF AnswerFollowup
<1> QED
  BY <1>1, <1>2, <1>3, <1>4, <1>5, <1>6, <1>7, <1>8 DEF InsertionStep

LEMMA InsertionKeeps ==
  ASSUME IInvRuns, NEW p \in Processes, experiment = "insertion", InsertionStep(p), Lasting,
         IInvRuns', Frame(p)
  PROVE Keeps /\ Lasting'
<1>1. \A i \in 1 .. 6 : file'[Kept[i]] = file[Kept[i]]
  BY InsertionFiles
<1>2. /\ Lasting' /\ KeptRuns \subseteq KeptRuns'
      /\ \A i \in KeptRuns : file'[Kept[i]] = file[Kept[i]]
  BY <1>1, SessionsLast
<1>3. ASSUME NEW x, Used(x), file'["artifact"].by = x
      PROVE file["artifact"].by = x
  <2>1. CASE file'["artifact"] = file["artifact"]
    BY <1>3, <2>1
  <2>2. CASE file'["artifact"].by = Me(p).id /\ Me(p).at = "training"
    BY <1>3, <2>2 DEF Used, Past
  <2> QED
    BY <2>1, <2>2, InsertionFiles
<1> QED
  BY <1>2, <1>3 DEF Keeps, Frame

\* What is kept by a step that changes no file of the lineage's own, or by its writer.
LEMMA DescentStep ==
  ASSUME IInvRuns, DescentInv, NEW p \in Processes, Step(p)
  PROVE DescentInv'
<1>1. IInvRuns' /\ Frame(p) /\ experiment' = experiment
  BY Stepped DEF Frame
<1> SUFFICES ASSUME experiment = "insertion"
             PROVE  DescentInv'
  BY <1>1 DEF DescentInv
<1>2. /\ InsertionStep(p)
      /\ Lasting /\ SessionsAnswered /\ ChildOfParent /\ HandedOff /\ FollowedUp
      /\ \A q \in Processes : Finetunes(q) /\ HandsOff(q) /\ FollowsUp(q)
  BY InsertionActions DEF DescentInv
<1>3. Keeps /\ Lasting' /\ \A i \in 1 .. 6 : file'[Kept[i]] = file[Kept[i]]
  BY <1>1, <1>2, InsertionKeeps, InsertionFiles
<1>4. {"artifact", "child", "handoff", "followup"} \subseteq FilesOf[experiment]
  BY InsertionNamed DEF InsertionNames
<1>5. \A n \in {"artifact", "child", "handoff", "followup"} :
        (There(n) <=> file[n].by # 0) /\ (There(n)' <=> file'[n].by # 0)
  BY <1>1, <1>4, Files DEF There, IInvRuns, Filed
<1>6. SessionsAnswered'
  <2>1. KeptRuns' = KeptRuns
    <3>1. KeptRuns = {i \in 1 .. 6 : file[Kept[i]].by # 0}
      BY <1>2, SessionNumbers
    <3>2. runs' \in 0 .. 6
      BY <1>1, NumberOfRuns DEF IInvRuns, Counted
    <3>3. \A i \in 1 .. 6 : There(Kept[i])' <=> file'[Kept[i]].by # 0
      BY <1>1, InsertionNamed DEF There, IInvRuns, Filed
    <3>4. KeptRuns \subseteq KeptRuns'
      BY <1>3 DEF Keeps
    <3> QED
      BY <1>3, <3>1, <3>2, <3>3, <3>4 DEF KeptRuns
  <2> QED
    BY <1>2, <1>3, <2>1 DEF SessionsAnswered, Session, Keeps, Used
<1>7. ChildOfParent'
  <2>1. ASSUME NEW selection, NEW child, file'["child"].by # 0,
               selection = file'["child"].from, child = file'["child"].by
        PROVE OfParent(selection, child)'
    <3>1. CASE file'["child"] = file["child"]
      <4>1. OfParent(selection, child) /\ Used(child)
        BY <1>2, <1>4, <1>5, <2>1, <3>1, Files DEF ChildOfParent
      <4>2. loaded'[child] = loaded[child]
        BY <1>3, <4>1 DEF Keeps, Used
      <4> QED
        BY <1>3, <4>1, <4>2, OfParentStays
    <3>2. CASE /\ Me(p).command = "finetune" /\ Me(p).at = "optimizing" /\ loaded' = loaded
               /\ file'["child"].by = Me(p).id /\ file'["child"].from = Me(p).source.from
      <4>1. OfParent(selection, child)
        BY <1>2, <2>1, <3>2 DEF Finetunes
      <4> QED
        BY <1>3, <3>2, <4>1, OfParentStays
    <3> QED
      BY <1>2, <3>1, <3>2, InsertionFiles
  <2> QED
    BY <1>5, <2>1 DEF ChildOfParent, OfParent, Chosen
<1>8. HandedOff' /\ FollowedUp'
  <2>1. ASSUME NEW i, NEW bytes, i \in KeptRuns, Used(bytes), Handed(i, bytes)
        PROVE i \in KeptRuns' /\ Used(bytes)' /\ Handed(i, bytes)'
    BY <1>2, <1>3, <2>1, HandedStays DEF Keeps, Used
  <2>2. ASSUME NEW i, NEW bytes, file'["handoff"].by # 0,
               i = file'["handoff"].from[1], bytes = file'["handoff"].of
        PROVE i \in KeptRuns /\ Used(bytes) /\ Handed(i, bytes)
    <3>1. CASE file'["handoff"] = file["handoff"]
      BY <1>2, <1>5, <2>2, <3>1 DEF HandedOff
    <3>2. CASE /\ Me(p).command = "handoff"
               /\ file'["handoff"].of = Me(p).source.of
               /\ file'["handoff"].from = <<Me(p).source.by>>
      <4>1. i = Me(p).source.by /\ bytes = Me(p).source.of
        BY <2>2, <3>2
      <4> QED
        BY <1>2, <3>2, <4>1 DEF HandsOff
    <3> QED
      BY <1>2, <3>1, <3>2, InsertionFiles
  <2>3. ASSUME NEW i, NEW bytes, file'["handoff"].by # 0,
               i = file'["handoff"].from[1], bytes = file'["handoff"].of
        PROVE i \in KeptRuns' /\ Used(bytes)' /\ Handed(i, bytes)'
    BY <2>1, <2>2, <2>3
  <2>4. HandedOff'
    BY <1>5, <2>3 DEF HandedOff, Handed, Used
  <2>5. FollowedUp'
    BY <1>2, <1>5, InsertionFiles DEF FollowedUp, FollowsUp
  <2> QED
    BY <2>4, <2>5
<1>9. ASSUME NEW q \in Processes
      PROVE Finetunes(q)' /\ HandsOff(q)' /\ FollowsUp(q)'
  <2> DEFINE r == process'[q]
  <2>1. /\ r.command = "finetune" =>
             /\ \E by, of, says, from : r.source = Doc(by, of, says, from)
             /\ Chosen(r.source.from)
             /\ /\ r.at \in {"optimizing", "reporting"} /\ r.source.from.parent = "base"
                /\ file'["artifact"].by = r.source.from.bytes
                => loaded'[r.id] = r.source.from.bytes
        /\ r.command = "handoff" =>
             /\ r.source.by \in KeptRuns /\ Used(r.source.of)
             /\ Handed(r.source.by, r.source.of)
        /\ r.command = "followup" => There("handoff")
    <3>1. CASE q = p
      BY <1>2, <3>1, InsertionByOne
    <3>2. CASE q # p
      <4>1. r = Me(q) /\ (Me(q) # NoRun => loaded'[Me(q).id] = loaded[Me(q).id])
        BY <1>1, <3>2 DEF Frame, Me
      <4>2. \A x : Used(x) /\ file'["artifact"].by = x => file["artifact"].by = x
        BY <1>3 DEF Keeps
      <4>3. Me(q).command \in {"finetune", "handoff", "followup"} => Me(q) # NoRun
        BY DEF NoRun
      <4> HIDE DEF r
      <4> QED
        BY <1>2, <4>1, <4>2, <4>3 DEF Finetunes, HandsOff, FollowsUp, OfParent, Chosen
    <3> QED
      BY <3>1, <3>2
  <2> HIDE DEF r
  <2>2. There("handoff") => There("handoff")'
    BY <1>2, <1>5, InsertionFiles
  <2>3. FollowsUp(q)'
    BY <2>1, <2>2 DEF FollowsUp, r, Me
  <2>4. HandsOff(q)'
    <3>1. ASSUME NEW i, NEW bytes, r.command = "handoff", i = r.source.by, bytes = r.source.of
          PROVE i \in KeptRuns' /\ Used(bytes)' /\ Handed(i, bytes)'
      BY <1>2, <1>3, <2>1, <3>1, HandedStays DEF Keeps, Used
    <3> QED
      BY <3>1 DEF HandsOff, r, Me, Handed, Used
  <2>5. Finetunes(q)'
    <3>1. ASSUME NEW selection, r.command = "finetune", selection = r.source.from
          PROVE Chosen(selection)'
      BY <1>3, <2>1, <3>1 DEF Chosen, Keeps, Used
    <3>2. r.command = "finetune" => Chosen(process[q].source.from)' 
      BY <3>1 DEF Chosen, r, Me, Used
    <3> QED
      BY <2>1, <3>2 DEF Finetunes, OfParent, r, Me
  <2> QED
    BY <2>3, <2>4, <2>5
<1> QED
  BY <1>3, <1>6, <1>7, <1>8, <1>9 DEF DescentInv

\* An answered session is one more, under a number of its own.
LEMMA DescentAnswered ==
  ASSUME IInvRuns, DescentInv, NEW path \in Paths, NEW previous \in 0 .. runs,
         NEW reachable \in BOOLEAN, AnswerSession(path, previous, reachable)
  PROVE DescentInv'
<1>1. /\ experiment = "insertion" /\ There(Artifact[path])
      /\ UNCHANGED <<experiment, process, config, opened, measured, loaded>>
  BY DEF AnswerSession, History
<1>2. /\ Lasting /\ SessionsAnswered /\ ChildOfParent /\ HandedOff /\ FollowedUp
      /\ \A q \in Processes : Finetunes(q) /\ HandsOff(q) /\ FollowsUp(q)
  BY <1>1 DEF DescentInv
<1> DEFINE d == Doc(runs + 1, Now(path), path, <<previous, reachable>>)
<1>3. /\ IInvRuns' /\ runs' = runs + 1 /\ runs + 1 \in 1 .. 6
      /\ \A n \in FilesOf[experiment] : file'[n] = IF n = Kept[runs + 1] THEN d ELSE file[n]
      /\ \A x \in 1 .. runs : Used(x) => Used(x)'
  BY AnsweredOnce
<1>4. d.by = runs + 1 /\ d.of = Now(path) /\ d.says = path
  BY DEF Doc
<1> HIDE DEF d
<1>5. /\ \A i \in 1 .. 6 : Kept[i] \in FilesOf[experiment] /\ Kept[i] \notin InsertionNames
      /\ InsertionNames \subseteq FilesOf[experiment]
      /\ \A i, j \in 1 .. 6 : Kept[i] = Kept[j] => i = j
  BY <1>1, InsertionNamed
<1>6. /\ \A n \in InsertionNames : file'[n] = file[n]
      /\ \A i \in 1 .. 6 : file'[Kept[i]] = IF i = runs + 1 THEN d ELSE file[Kept[i]]
  BY <1>3, <1>5
<1>7. /\ KeptRuns = {i \in 1 .. 6 : file[Kept[i]].by # 0}
      /\ \A i \in KeptRuns : i \in 1 .. runs /\ Session(i).by = i /\ Used(i)
  BY <1>1, <1>2, SessionNumbers
<1>8. runs \in Nat /\ runs' \in 0 .. 6
  BY <1>3, NumberOfRuns DEF IInvRuns
<1>9. /\ \A n : There(n) <=> n \in FilesOf[experiment] /\ file[n].by # 0
      /\ \A n : There(n)' <=> n \in FilesOf[experiment] /\ file'[n].by # 0
  BY <1>1, <1>3, Files DEF There, IInvRuns, Filed
<1>10. KeptRuns' = KeptRuns \cup {runs + 1}
  <2>1. KeptRuns' = {i \in 1 .. runs' : file'[Kept[i]].by # 0}
    BY <1>5, <1>8, <1>9 DEF KeptRuns
  <2> QED
    BY <1>3, <1>4, <1>6, <1>7, <1>8, <2>1
<1>11. Lasting'
  BY <1>2, <1>4, <1>5, <1>6, <1>9 DEF Lasting, Session
<1>12. Keeps
  <2>1. "artifact" \in InsertionNames
    BY DEF InsertionNames
  <2>2. \A i \in KeptRuns : file'[Kept[i]] = file[Kept[i]]
    BY <1>6, <1>7, <1>8
  <2> QED
    BY <1>1, <1>3, <1>6, <1>10, <2>1, <2>2 DEF Keeps
<1>13. SessionsAnswered'
  <2>1. Used(Now(path))
    <3>1. Artifact[path] \in {"artifact", "child"}
      BY DEF Artifact, Paths
    <3>2. Artifact[path] # "state"
      BY <3>1
    <3> QED
      BY <1>1, <1>9, <3>2, Files DEF Now, from_artifact
  <2>2. \A x : Used(x) => Used(x)'
    BY <1>3 DEF Used
  <2>3. ASSUME NEW i \in KeptRuns', NEW says, NEW of,
               says = file'[Kept[i]].says, of = file'[Kept[i]].of
        PROVE says \in Paths /\ Used(of)'
    <3>1. CASE i = runs + 1
      <4>1. file'[Kept[i]] = d
        BY <1>3, <1>6, <3>1
      <4> QED
        BY <1>4, <2>1, <2>2, <2>3, <4>1
    <3>2. CASE i \in KeptRuns
      <4>1. file'[Kept[i]] = file[Kept[i]]
        BY <1>12, <3>2 DEF Keeps
      <4>2. file[Kept[i]].says \in Paths /\ Used(file[Kept[i]].of)
        BY <1>2, <3>2 DEF SessionsAnswered, Session
      <4> QED
        BY <2>2, <2>3, <4>1, <4>2
    <3> QED
      BY <1>10, <3>1, <3>2
  <2> QED
    BY <2>3 DEF SessionsAnswered, Session, Used
<1>14. /\ file'["child"] = file["child"] /\ file'["handoff"] = file["handoff"]
       /\ file'["followup"] = file["followup"]
       /\ There("child")' = There("child") /\ There("handoff")' = There("handoff")
       /\ There("followup")' = There("followup")
  BY <1>6, <1>9 DEF InsertionNames, There
<1>15. ASSUME NEW selection, NEW child, OfParent(selection, child)
       PROVE OfParent(selection, child)'
  BY <1>1, <1>12, <1>15, OfParentStays
<1>16. ASSUME NEW i, NEW bytes, i \in KeptRuns, Used(bytes), Handed(i, bytes)
       PROVE i \in KeptRuns' /\ Used(bytes)' /\ Handed(i, bytes)'
  BY <1>2, <1>12, <1>16, HandedStays DEF Keeps, Used
<1>17. ChildOfParent'
  <2>1. ASSUME NEW selection, NEW child, There("child"),
               selection = file["child"].from, child = file["child"].by
        PROVE OfParent(selection, child)'
    BY <1>2, <1>15, <2>1 DEF ChildOfParent
  <2> QED
    BY <1>14, <2>1 DEF ChildOfParent, OfParent, Chosen
<1>18. HandedOff'
  <2>1. ASSUME NEW i, NEW bytes, There("handoff"),
               i = file["handoff"].from[1], bytes = file["handoff"].of
        PROVE i \in KeptRuns' /\ Used(bytes)' /\ Handed(i, bytes)'
    BY <1>2, <1>16, <2>1 DEF HandedOff
  <2> QED
    BY <1>14, <2>1 DEF HandedOff, Handed, Used
<1>19. FollowedUp'
  BY <1>2, <1>14 DEF FollowedUp
<1>20. ASSUME NEW q \in Processes
       PROVE Finetunes(q)' /\ HandsOff(q)' /\ FollowsUp(q)'
  <2>1. Finetunes(q) /\ HandsOff(q) /\ FollowsUp(q) /\ process' = process
    BY <1>1, <1>2
  <2>2. FollowsUp(q)'
    BY <1>14, <2>1 DEF FollowsUp, Me
  <2>3. HandsOff(q)'
    <3>1. ASSUME NEW i, NEW bytes, Me(q).command = "handoff",
                 i = Me(q).source.by, bytes = Me(q).source.of
          PROVE i \in KeptRuns' /\ Used(bytes)' /\ Handed(i, bytes)'
      BY <1>16, <2>1, <3>1 DEF HandsOff
    <3> QED
      BY <2>1, <3>1 DEF HandsOff, Handed, Used, Me
  <2>4. Finetunes(q)'
    <3>1. ASSUME NEW selection, Me(q).command = "finetune", selection = Me(q).source.from
          PROVE Chosen(selection)'
      BY <1>12, <2>1, <3>1 DEF Finetunes, Chosen, Keeps, Used
    <3>2. ASSUME NEW selection, NEW child, Me(q).command = "finetune",
                 Me(q).at \in {"optimizing", "reporting"},
                 selection = Me(q).source.from, child = Me(q).id
          PROVE OfParent(selection, child)'
      BY <1>15, <2>1, <3>2 DEF Finetunes
    <3> QED
      BY <2>1, <3>1, <3>2 DEF Finetunes, OfParent, Chosen, Me, Used
  <2> QED
    BY <2>2, <2>3, <2>4
<1> QED
  BY <1>11, <1>13, <1>17, <1>18, <1>19, <1>20 DEF DescentInv

(***************************************************************************)
(* Numbers: what is loaded, named and measured bears a number that an      *)
(* invocation has.                                                         *)
(***************************************************************************)
Numbered ==
  IF experiment = "insertion" THEN measured = {}
  ELSE /\ \A i \in 1 .. MaxRuns[experiment] : loaded[i] \in 0 .. runs
       /\ \A p \in Processes : Me(p).artifact \in 0 .. runs
       /\ measured \subseteq 0 .. runs

\* The steps of an invocation that has begun.
Continuing(p) ==
  \/ save_action_conditioning(p) \/ WriteTrainingReport(p) \/ write_run_state(p)
  \/ _authorize_evaluation(p) \/ Load(p) \/ LoadInPlace(p) \/ WriteEvaluation(p)
  \/ WriteSummary(p) \/ _summarize_insertion_world_model_readiness(p)
  \/ validate_evaluation(p) \/ build_proposal_readiness(p) \/ WriteReadiness(p)
  \/ adjudicate_report(p) \/ ClaimAccess(p) \/ _authenticate_recordings(p)
  \/ evaluate_population_gate(p) \/ Raise(p) \/ _write_failure_record(p) \/ _write_failure(p)
  \/ Die(p) \/ LoadProposal(p) \/ benchmark_recording(p)
  \/ summarize_insertion_planner_readiness(p) \/ EndRollout(p) \/ WriteBaselines(p)
  \/ WriteGraspReadiness(p) \/ load_container_reconstruction(p) \/ record_grasp_demo(p)
  \/ load_action_proposal(p) \/ save_action_proposal(p) \/ WriteFinetuneReport(p)
  \/ persist_insertion_proposal_handoff(p) \/ ValidateFollowup(p)

LEMMA BeginsOrContinues ==
  ASSUME IInvRuns, NEW p \in Processes, Step(p)
  PROVE Begins(p) \/ (Me(p) # NoRun /\ Continuing(p))
<1>1. CASE Me(p) = NoRun
  <2>1. Begins(p) \/ Continues(p)
    BY TrainSteps, EvaluateSteps, JudgeSteps, HeldOutSteps, FailSteps, PlanSteps, GraspSteps,
       InsertSteps DEF Step
  <2> QED
    BY <1>1, <2>1 DEF Continues, ContinuesAs
<1>2. CASE Me(p) # NoRun
  <2>1. \A command, at, source : ~Start(p, command, at, source)
    BY <1>2 DEF Start
  <2>2. CASE Train(p)
    BY <2>1, <2>2, <1>2 DEF Train, train_treatment, train_router, observed_train_router,
       train_residual, adapt_recordings, train_action_proposal, Continuing
  <2>3. CASE Evaluate(p)
    BY <2>1, <2>3, <1>2 DEF Evaluate, preflight, observed_preflight, residual_preflight,
       physical_probe, causal_preflight, causal_probe, evaluate_treatment, evaluate,
       evaluate_train, observed_evaluate_train, evaluate_recording, evaluate_action_proposal,
       Continuing
  <2>4. CASE Judge(p)
    BY <2>1, <2>4, <1>2 DEF Judge, conditioning_summarize_canary, summarize_canary,
       validate_insertion_adapter, validate_proposal_identity, adjudicate, Continuing
  <2>5. CASE HeldOut(p) \/ Fail(p)
    BY <2>1, <2>5, <1>2 DEF HeldOut, held_out_evaluate, _authenticate_before_claim, Fail, Refuse,
       Continuing
  <2>6. CASE Plan(p) \/ Grasp(p)
    BY <2>1, <2>6, <1>2 DEF Plan, BenchmarkInitialization, validate_insertion_proposal, Grasp,
       StartRollout, report_control_baselines, GraspControlReadinessSummary, load_verified,
       Continuing
  <2>7. CASE Insert(p)
    BY <2>1, <2>7, <1>2 DEF Insert, finetune_insertion_transition,
       write_insertion_proposal_handoff, AnswerFollowup, Continuing
  <2> QED
    BY <1>2, <2>2, <2>3, <2>4, <2>5, <2>6, <2>7 DEF Step
<1> QED
  BY <1>1, <1>2

LEMMA ArtifactFiles ==
  \A e \in {"adapter", "proposal", "task", "planner"} : "artifact" \in FilesOf[e]
<1>1. "artifact" \in FilesOf["adapter"] /\ "artifact" \in FilesOf["proposal"]
  BY DEF FilesOf, Trained
<1>2. "artifact" \in FilesOf["task"] /\ "artifact" \in FilesOf["planner"]
  BY DEF FilesOf, Trained
<1> QED
  BY <1>1, <1>2

LEMMA NumberedByOne ==
  ASSUME IInvRuns, Numbered, experiment # "insertion", NEW p \in Processes, Me(p) # NoRun,
         Continuing(p)
  PROVE /\ process'[p].artifact \in 0 .. runs
        /\ \/ measured' = measured
           \/ \E x \in 0 .. runs : measured' = measured \cup {x}
        /\ \/ loaded' = loaded
           \/ \E x \in 0 .. runs : loaded' = [loaded EXCEPT ![Me(p).id] = x]
<1>1. /\ Me(p).artifact \in 0 .. runs /\ NoRun.artifact \in 0 .. runs
      /\ Me(p).id \in 0 .. runs /\ loaded[Me(p).id] \in 0 .. runs
  <2>1. Me(p).id \in 1 .. runs /\ Me(p).id \in 1 .. MaxRuns[experiment] /\ 0 \in 0 .. runs
    BY Standing, NumberOfRuns DEF IInvRuns, Counted
  <2> QED
    BY <2>1, NumberOfRuns DEF Numbered, NoRun, IInvRuns
<1>2. /\ There("artifact") => from_artifact("artifact") \in 0 .. runs
      /\ Place(Me(p).command, Me(p).at)
  BY Files, Standing DEF IInvRuns, Filed, from_artifact
<1>15. CASE _authorize_evaluation(p)
  <2>1. PICK at, source :
          /\ at \in Authorities
          /\ process' = [process EXCEPT ![p] =
               [command |-> Me(p).command, at |-> at, id |-> Me(p).id,
                artifact |-> Me(p).artifact, source |-> source]]
    BY <1>15, Authorizing DEF AuthorizesAs
  <2>2. process'[p].artifact = Me(p).artifact
    BY <2>1 DEF IInvRuns, Running
  <2>3. UNCHANGED <<measured, loaded>>
    BY <1>15, Authorizing DEF History
  <2> QED
    BY <1>1, <2>2, <2>3
<1>3. CASE \/ save_action_conditioning(p) \/ validate_evaluation(p)
           \/ ClaimAccess(p) \/ _authenticate_recordings(p)
  BY <1>1, <1>3, Going DEF save_action_conditioning, validate_evaluation, ClaimAccess,
     _claim_canonical_access, _authenticate_recordings, History
<1>4. CASE WriteTrainingReport(p) \/ write_run_state(p) \/ Raise(p)
  BY <1>1, <1>4, Going, Leaving DEF WriteTrainingReport, write_run_state, Raise, History
<1>5. CASE \/ WriteSummary(p) \/ _summarize_insertion_world_model_readiness(p)
           \/ WriteReadiness(p) \/ adjudicate_report(p) \/ evaluate_population_gate(p)
           \/ _write_failure_record(p) \/ _write_failure(p) \/ Die(p)
           \/ summarize_insertion_planner_readiness(p) \/ WriteBaselines(p)
           \/ WriteGraspReadiness(p) \/ record_grasp_demo(p) \/ WriteFinetuneReport(p)
           \/ persist_insertion_proposal_handoff(p) \/ ValidateFollowup(p)
  BY <1>1, <1>5, Leaving DEF WriteSummary, _summarize_insertion_world_model_readiness,
     WriteReadiness, adjudicate_report, evaluate_population_gate, _write_failure_record,
     _write_failure, Die, summarize_insertion_planner_readiness, WriteBaselines,
     WriteGraspReadiness, record_grasp_demo, WriteFinetuneReport,
     persist_insertion_proposal_handoff, ValidateFollowup, History
<1>6. CASE build_proposal_readiness(p)
  BY <1>1, <1>6, Leaving DEF build_proposal_readiness, Start, History
<1>7. CASE Load(p)
  BY <1>1, <1>2, <1>7, Going DEF Load
<1>8. CASE LoadInPlace(p) \/ LoadProposal(p)
  <2>1. from_artifact("artifact") \in 0 .. runs
    <3>1. "artifact" \in FilesOf[experiment]
      <4>1. experiment \in {"adapter", "proposal", "task", "planner"}
        BY <1>2, <1>8, Standing, NamedExperiment DEF LoadInPlace, LoadProposal, Place,
           CommandsOf, IInvRuns
      <4> QED
        BY <4>1, ArtifactFiles
    <3> QED
      BY <3>1 DEF IInvRuns, Filed, from_artifact
  <2> QED
    BY <1>1, <1>8, <2>1, Going DEF LoadInPlace, LoadProposal
<1>9. CASE WriteEvaluation(p)
  <2>1. process'[p].artifact \in 0 .. runs /\ loaded' = loaded
    BY <1>1, <1>9, Going, Leaving DEF WriteEvaluation
  <2>2. Named(p) \in 0 .. runs
    <3>1. experiment \in {"adapter", "proposal", "task"} =>
            from_artifact("artifact") \in 0 .. runs
      <4>1. experiment \in {"adapter", "proposal", "task"} => "artifact" \in FilesOf[experiment]
        BY ArtifactFiles
      <4> QED
        BY <4>1 DEF IInvRuns, Filed, from_artifact
    <3> QED
      BY <1>1, <3>1 DEF Named
  <2> DEFINE n == IF Me(p).command = "evaluate-train" THEN "evaluation" ELSE Me(p).command
  <2>3. n \in {"R", "evaluation"} => About(p) = Named(p)
    BY <1>9, Scorer DEF WriteEvaluation, About
  <2> DEFINE more(says) == CASE says # "passed" -> {}
                             [] n \in {"R", "evaluation"} -> {About(p)}
                             [] experiment = "physical" /\ n = "probe" -> {Me(p).id}
                             [] OTHER -> {}
  <2>4. PICK says : measured' = measured \cup more(says)
    BY <1>9 DEF WriteEvaluation
  <2>5. more(says) = {} \/ \E x \in 0 .. runs : more(says) = {x}
    <3>1. CASE n \in {"R", "evaluation"}
      BY <2>2, <2>3, <3>1
    <3>2. CASE n \notin {"R", "evaluation"}
      BY <1>1, <3>2
    <3> QED
      BY <3>1, <3>2
  <2> HIDE DEF more
  <2> QED
    BY <2>1, <2>4, <2>5
<1>10. CASE benchmark_recording(p)
  <2>1. process'[p].artifact \in 0 .. runs /\ loaded' = loaded
    BY <1>1, <1>10, Leaving DEF benchmark_recording
  <2>2. \A source, wins : PlannerBenchmarkReport(p, source, wins).of = Me(p).artifact
    BY DEF PlannerBenchmarkReport, Doc
  <2> QED
    BY <1>1, <1>10, <2>1, <2>2 DEF benchmark_recording
<1>11. CASE EndRollout(p)
  BY <1>1, <1>11, Leaving DEF EndRollout
<1>12. CASE load_container_reconstruction(p)
  <2>1. process' = [process EXCEPT ![p] =
          [[process[p] EXCEPT !.at = "recording"] EXCEPT !.source = load_persisted]]
    BY <1>12 DEF load_container_reconstruction
  <2>2. process'[p] = [command |-> Me(p).command, at |-> "recording", id |-> Me(p).id,
                       artifact |-> Me(p).artifact, source |-> load_persisted]
    BY <2>1, Rewritten DEF IInvRuns, Running, Me
  <2>3. process'[p].artifact = Me(p).artifact
    BY <2>2
  <2>4. UNCHANGED <<measured, loaded>>
    BY <1>12 DEF load_container_reconstruction, History
  <2> QED
    BY <1>1, <2>3, <2>4
<1>13. CASE load_action_proposal(p) \/ save_action_proposal(p)
  <2>1. Me(p).command = "finetune"
    BY <1>13 DEF load_action_proposal, save_action_proposal
  <2> QED
    BY <1>2, <2>1, NamedExperiment DEF Place, CommandsOf, IInvRuns
<1> QED
  BY <1>3, <1>4, <1>5, <1>6, <1>7, <1>8, <1>9, <1>10, <1>11, <1>12, <1>13, <1>15
     DEF Continuing

LEMMA NumberedStep ==
  ASSUME IInvRuns, Numbered, NEW p \in Processes, Step(p)
  PROVE Numbered'
<1>1. IInvRuns' /\ Frame(p) /\ experiment' = experiment
  BY Stepped DEF Frame
<1>2. CASE experiment = "insertion"
  <2>1. InsertionStep(p)
    BY <1>2, InsertionActions
  <2>2. measured' = measured
    BY <1>2, <2>1 DEF InsertionStep, train_action_proposal, Start, save_action_conditioning,
       WriteTrainingReport, Raise, Die, finetune_insertion_transition, load_action_proposal,
       save_action_proposal, WriteFinetuneReport, write_insertion_proposal_handoff,
       persist_insertion_proposal_handoff, AnswerFollowup, ValidateFollowup, History
  <2> QED
    BY <1>1, <1>2, <2>2 DEF Numbered
<1>3. CASE experiment # "insertion"
  <2>1. /\ \A i \in 1 .. MaxRuns[experiment] : loaded[i] \in 0 .. runs
        /\ \A q \in Processes : Me(q).artifact \in 0 .. runs
        /\ measured \subseteq 0 .. runs
    BY <1>3 DEF Numbered
  <2>2. runs \in Nat /\ runs' \in Nat /\ runs <= runs'
    BY <1>1, NumberOfRuns DEF IInvRuns, Frame, Counted
  <2>3. /\ process'[p].artifact \in 0 .. runs
        /\ \/ measured' = measured
           \/ \E x \in 0 .. runs : measured' = measured \cup {x}
        /\ \/ loaded' = loaded
           \/ \E x \in 0 .. runs : loaded' = [loaded EXCEPT ![Me(p).id] = x]
    <3>1. CASE Begins(p)
      <4>1. PICK command, at, source : Start(p, command, at, source)
        BY <3>1 DEF Begins
      <4>2. /\ There("artifact") => process'[p].artifact = from_artifact("artifact")
            /\ ~There("artifact") => process'[p].artifact = 0
            /\ UNCHANGED <<measured, loaded>>
        BY <4>1, Entering
      <4>3. There("artifact") => from_artifact("artifact") \in 0 .. runs
        BY Files DEF IInvRuns, Filed, from_artifact
      <4> QED
        BY <2>2, <4>2, <4>3
    <3>2. CASE Me(p) # NoRun /\ Continuing(p)
      BY <1>3, <3>2, NumberedByOne
    <3> QED
      BY <3>1, <3>2, BeginsOrContinues
  <2>4. \A q \in Processes : process'[q].artifact \in 0 .. runs'
    BY <1>1, <2>1, <2>2, <2>3 DEF Frame, Me
  <2>5. measured' \subseteq 0 .. runs'
    <3>1. 0 .. runs \subseteq 0 .. runs'
      BY <2>2
    <3>2. measured' \subseteq 0 .. runs
      BY <2>1, <2>3
    <3> QED
      BY <3>1, <3>2
  <2>6. \A i \in 1 .. MaxRuns[experiment] : loaded'[i] \in 0 .. runs'
    <3>1. CASE loaded' = loaded
      BY <2>1, <2>2, <3>1
    <3>2. ASSUME NEW x \in 0 .. runs, loaded' = [loaded EXCEPT ![Me(p).id] = x]
          PROVE \A i \in 1 .. MaxRuns[experiment] : loaded'[i] \in 0 .. runs'
      <4>1. \A i \in 1 .. MaxRuns[experiment] :
              loaded'[i] = IF i = Me(p).id THEN x ELSE loaded[i]
        BY <3>2 DEF IInvRuns, Remembered
      <4> QED
        BY <2>1, <2>2, <4>1
    <3> QED
      BY <2>3, <3>1, <3>2
  <2> QED
    BY <1>1, <1>3, <2>4, <2>5, <2>6 DEF Numbered, Me
<1> QED
  BY <1>2, <1>3

(***************************************************************************)
(* The whole.                                                              *)
(***************************************************************************)
OfflineInv ==
  /\ IInvRuns /\ Scored /\ ReportIsOfWhatRan /\ Passing /\ HeldOutInv /\ ClaimInv
  /\ GraspInv /\ DescentInv /\ Numbered

LEMMA OfflineHolds == OfflineInit => OfflineInv
<1> SUFFICES ASSUME OfflineInit PROVE OfflineInv
  OBVIOUS
<1>1. /\ experiment \in Experiments /\ runs = 0 /\ opened = {}
      /\ file = [n \in FilesOf[experiment] |-> NoFile]
      /\ process = [p \in Processes |-> NoRun]
      /\ loaded = [i \in 1 .. MaxRuns[experiment] |-> 0] /\ config = Unset
  BY DEF OfflineInit
<1>2. /\ NoFile.by = 0 /\ NoFile.says = "nothing" /\ NoRun.command = "none" /\ NoRun.at = "idle"
      /\ IsRun(NoRun) /\ NoRun.id = 0
  BY DEF NoFile, Doc, NoRun, IsRun
<1>3. \A p \in Processes : Me(p) = NoRun
  BY <1>1 DEF Me
<1>4. \A n : ~There(n)
  BY <1>1, <1>2 DEF There
<1>5. IInvRuns
  <2>1. Counted
    BY <1>1, ExperimentsAssumption DEF Counted, Kept
  <2>2. Filed
    BY <1>1, <1>2, <1>4 DEF Filed
  <2>3. Running
    BY <1>1, <1>2, <1>3 DEF Running
  <2>4. Remembered
    BY <1>1 DEF Remembered, IsConfig, Unset
  <2> QED
    BY <2>1, <2>2, <2>3, <2>4 DEF IInvRuns
<1>6. Scored /\ ReportIsOfWhatRan
  BY <1>2, <1>3, <1>4 DEF Scored, ReportIsOfWhatRan, Scorers, Versions
<1>7. Passing
  <2>1. /\ "R" \in FilesOf["routing"] /\ {"R", "summary"} \subseteq FilesOf["adapter"]
        /\ "probe" \in FilesOf["physical"]
    BY DEF FilesOf
  <2>2. \A n \in FilesOf[experiment] : file[n].says # "passed"
    BY <1>1, <1>2
  <2> QED
    BY <1>2, <1>3, <2>1, <2>2 DEF Passing, PassingReport, PassingSummary, PassingProbe,
       PassingAnything, AuthorizedArtifact, PassedProbe
<1>8. HeldOutInv
  BY <1>1, <1>2, <1>3, <1>4 DEF HeldOutInv, Adjudicated, OpenedOnAuthority,
     AdjudicatesCommitted, ActsOnAuthority, Versions, Unset
<1>9. GraspInv
  BY <1>2, <1>3, <1>4 DEF GraspInv, Lasting, ComparedSession, FilmedSession, ComparesSession,
     FilmsReady
<1>10. DescentInv
  BY <1>1, <1>2, <1>3, <1>4 DEF DescentInv, Lasting, SessionsAnswered, KeptRuns, ChildOfParent,
     HandedOff, FollowedUp, Finetunes, HandsOff, FollowsUp
<1>11. Numbered
  BY <1>1, <1>3, <1>5, NumberOfRuns DEF Numbered, OfflineInit, NoRun, IInvRuns
<1>12. ClaimInv
  <2>1. NoRun.command \notin Versions
    BY <1>2 DEF Versions
  <2> QED
    BY <1>1, <1>3, <2>1 DEF ClaimInv, ActsUnderClaim, Unset
<1> QED
  BY <1>5, <1>6, <1>7, <1>8, <1>9, <1>10, <1>11, <1>12 DEF OfflineInv

LEMMA DescentKept ==
  ASSUME DescentInv, UNCHANGED <<experiment, file, process, runs, loaded>>
  PROVE DescentInv'
<1> SUFFICES ASSUME experiment = "insertion"
             PROVE  DescentInv'
  BY DEF DescentInv
<1>1. /\ Lasting /\ SessionsAnswered /\ ChildOfParent /\ HandedOff /\ FollowedUp
      /\ \A q \in Processes : Finetunes(q) /\ HandsOff(q) /\ FollowsUp(q)
  BY DEF DescentInv
<1>2. /\ KeptRuns' = KeptRuns /\ \A i : Session(i)' = Session(i)
      /\ \A n : There(n)' = There(n)
      /\ \A x : Used(x)' = Used(x)
  BY DEF KeptRuns, Session, There, Used, Me
<1>3. Lasting' /\ SessionsAnswered' /\ FollowedUp'
  BY <1>1, <1>2 DEF Lasting, SessionsAnswered, FollowedUp, Session, Used
<1>4. ChildOfParent'
  BY <1>1, <1>2 DEF ChildOfParent, OfParent, Chosen, Used
<1>5. HandedOff'
  BY <1>1, <1>2 DEF HandedOff, Handed, Used, Session
<1>6. ASSUME NEW q \in Processes
      PROVE Finetunes(q)' /\ HandsOff(q)' /\ FollowsUp(q)'
  <2>1. Finetunes(q) /\ HandsOff(q) /\ FollowsUp(q) /\ Me(q)' = Me(q)
    BY <1>1 DEF Me
  <2>2. Finetunes(q)'
    BY <1>2, <2>1 DEF Finetunes, OfParent, Chosen, Used
  <2>3. HandsOff(q)'
    BY <1>2, <2>1 DEF HandsOff, Handed, Used, Session
  <2>4. FollowsUp(q)'
    BY <1>2, <2>1 DEF FollowsUp
  <2> QED
    BY <2>2, <2>3, <2>4
<1> QED
  BY <1>3, <1>4, <1>5, <1>6 DEF DescentInv

LEMMA OfflineCommit ==
  ASSUME OfflineInv, Commit
  PROVE OfflineInv'
<1>1. /\ IInvRuns'
      /\ UNCHANGED <<experiment, file, process, runs, opened, measured, loaded>>
  BY Committed DEF OfflineInv, History
<1>2. HeldOutInv'
  BY HeldOutCommit DEF OfflineInv
<1>3. Scored' /\ ReportIsOfWhatRan'
  BY <1>1 DEF OfflineInv, Scored, ReportIsOfWhatRan, Reporting, There, Me
<1>4. Passing'
  BY <1>1 DEF OfflineInv, Passing, PassingReport, PassingSummary, PassingProbe,
     PassingAnything, AuthorizedArtifact, PassedProbe, Me
<1>5. GraspInv'
  BY <1>1 DEF OfflineInv, GraspInv, Lasting, ComparedSession, FilmedSession, ComparesSession,
     FilmsReady, KeptRuns, Session, There, Me
<1>6. DescentInv'
  BY <1>1, DescentKept DEF OfflineInv
<1>7. Numbered'
  BY <1>1 DEF OfflineInv, Numbered, Me
<1>8. ClaimInv'
  BY ClaimCommit DEF OfflineInv
<1> QED
  BY <1>1, <1>2, <1>3, <1>4, <1>5, <1>6, <1>7, <1>8 DEF OfflineInv

LEMMA OfflineStutter ==
  ASSUME OfflineInv, UNCHANGED offlineVars
  PROVE OfflineInv'
<1>1. UNCHANGED <<experiment, file, process, runs, config, opened, measured, loaded>>
  BY DEF offlineVars
<1>2. IInvRuns'
  BY <1>1 DEF OfflineInv, IInvRuns, Counted, Filed, Running, Remembered, There, Used, Me, Place
<1>3. HeldOutInv'
  BY <1>1 DEF OfflineInv, HeldOutInv, Adjudicated, OpenedOnAuthority, AdjudicatesCommitted,
     ActsOnAuthority, Authority, There, Used, Me
<1>4. Scored' /\ ReportIsOfWhatRan'
  BY <1>1 DEF OfflineInv, Scored, ReportIsOfWhatRan, Reporting, There, Me
<1>5. Passing'
  BY <1>1 DEF OfflineInv, Passing, PassingReport, PassingSummary, PassingProbe,
     PassingAnything, AuthorizedArtifact, PassedProbe, Me
<1>6. GraspInv'
  BY <1>1 DEF OfflineInv, GraspInv, Lasting, ComparedSession, FilmedSession, ComparesSession,
     FilmsReady, KeptRuns, Session, There, Me
<1>7. DescentInv'
  BY <1>1, DescentKept DEF OfflineInv
<1>8. Numbered'
  BY <1>1 DEF OfflineInv, Numbered, Me
<1>9. ClaimInv'
  BY <1>1 DEF OfflineInv, ClaimInv, OpenedUnderClaim, ActsUnderClaim, FirstFailed, There, Me
<1> QED
  BY <1>2, <1>3, <1>4, <1>5, <1>6, <1>7, <1>8, <1>9 DEF OfflineInv

LEMMA OfflineStep ==
  ASSUME OfflineInv, [PolicyNext]_offlineVars
  PROVE OfflineInv'
<1>1. ASSUME NEW p \in Processes, Step(p)
      PROVE OfflineInv'
  <2>1. IInvRuns'
    BY <1>1, Stepped DEF OfflineInv
  <2>2. Scored' /\ ReportIsOfWhatRan'
    BY <1>1, ReportStep DEF OfflineInv
  <2>3. Passing' /\ HeldOutInv' /\ ClaimInv'
    BY <1>1, PassingStep, HeldOutStep, ClaimStep DEF OfflineInv
  <2>4. GraspInv' /\ DescentInv' /\ Numbered'
    BY <1>1, GraspInvStep, DescentStep, NumberedStep DEF OfflineInv
  <2> QED
    BY <2>1, <2>2, <2>3, <2>4 DEF OfflineInv
<1>2. ASSUME NEW path \in Paths, NEW previous \in 0 .. runs, NEW reachable \in BOOLEAN,
             AnswerSession(path, previous, reachable)
      PROVE OfflineInv'
  <2>1. /\ experiment = "insertion" /\ experiment' = experiment /\ opened' = opened
        /\ measured' = measured
    BY <1>2 DEF AnswerSession, History
  <2>2. IInvRuns' /\ DescentInv'
    BY <1>2, AnsweredOnce, DescentAnswered DEF OfflineInv
  <2>3. Scored' /\ ReportIsOfWhatRan' /\ Passing' /\ GraspInv'
    BY <2>1 DEF Scored, Reporting, ReportIsOfWhatRan, Passing, GraspInv
  <2>4. HeldOutInv' /\ ClaimInv' /\ Numbered'
    BY <2>1 DEF OfflineInv, HeldOutInv, ClaimInv, Numbered
  <2> QED
    BY <2>2, <2>3, <2>4 DEF OfflineInv
<1>3. \/ \E p \in Processes : Step(p)
      \/ Commit
      \/ \E path \in Paths, previous \in 0 .. runs, reachable \in BOOLEAN :
           AnswerSession(path, previous, reachable)
      \/ UNCHANGED offlineVars
  BY DEF PolicyNext, OfflineNext, Step
<1> QED
  BY <1>1, <1>2, <1>3, OfflineCommit, OfflineStutter

LEMMA OfflineInvariance == PolicySpec => []OfflineInv
<1>1. OfflineInv /\ [PolicyNext]_offlineVars => OfflineInv'
  BY OfflineStep
<1> QED
  BY <1>1, OfflineHolds, PTL DEF PolicySpec

-----------------------------------------------------------------------------
\* Type correctness of the experiments: files, invocations and what was measured bear
\* numbers that were given.
THEOREM OfflineTypeCorrect == PolicySpec => []OfflineTypeOK
<1>1. ASSUME OfflineInv
      PROVE OfflineTypeOK
  <2>1. measured \subseteq 0 .. runs
    BY <1>1 DEF OfflineInv, Numbered
  <2>2. runs \in Nat /\ \A p \in Processes : Me(p).id \in 0 .. runs
    BY <1>1, NumberOfRuns, Standing DEF OfflineInv, IInvRuns
  <2> QED
    BY <1>1, <2>1, <2>2, Files DEF OfflineInv, IInvRuns, Counted, Filed, OfflineTypeOK
<1> QED
  BY <1>1, OfflineInvariance, PTL

\* What is cleared was measured: a canonical evaluation authorizes an artifact that a
\* passing report names and loads those bytes, an insertion readiness passes what its
\* report is about, and a residual is trained on a probe that passed.
THEOREM ClearedCorrect == PolicySpec => []ClearedWasMeasured
<1>1. OfflineInv => ClearedWasMeasured
  BY DEF OfflineInv, Passing, PassingSummary, AuthorizedArtifact, PassedProbe, ClearedWasMeasured
<1> QED
  BY <1>1, OfflineInvariance, PTL

\* An evaluation report names the weights that were scored, whatever is trained under
\* that name meanwhile.
THEOREM ReportCorrect == PolicySpec => []ReportIsOfWhatRan
<1>1. OfflineInv => ReportIsOfWhatRan
  BY DEF OfflineInv
<1> QED
  BY <1>1, OfflineInvariance, PTL

\* The held-out recordings are opened with the committed artifact, which the committed
\* adjudication passed.
THEOREM HeldOutCorrect == PolicySpec => []HeldOutIsEarned
<1>1. OfflineInv => HeldOutIsEarned
  BY HeldOutHolds DEF OfflineInv
<1> QED
  BY <1>1, OfflineInvariance, PTL

\* A ready planner was measured, a filmed grasp passed, and a hand-off between
\* proposals is true of the weights that they were trained from.
THEOREM PolicyCorrect == PolicySpec => []PolicyIsEarned
<1>1. ASSUME OfflineInv
      PROVE PolicyIsEarned
  <2>1. ReadyWasMeasured
    BY <1>1 DEF OfflineInv, Passing, PassingAnything, FilesOf, ReadyWasMeasured
  <2>2. FilmIsOfReady
    BY <1>1 DEF OfflineInv, GraspInv, FilmedSession, FilmIsOfReady
  <2>3. HandoffIsTrue
    BY <1>1 DEF OfflineInv, DescentInv, HandedOff, FollowedUp, Handed, HandoffIsTrue
  <2> QED
    BY <2>1, <2>2, <2>3 DEF PolicyIsEarned
<1> QED
  BY <1>1, OfflineInvariance, PTL
=============================================================================
