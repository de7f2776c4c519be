---------------------------- MODULE EvidenceGate ----------------------------
(***************************************************************************)
(* One-shot evidence gates: experiments that may be run once, whose files  *)
(* (CLAIM, EVALUATION, RESULT, FAILURE) are the only memory of what        *)
(* happened.  A run of a gate is a workflow of three kinds of processes:   *)
(*   op[o]      the operator's command, a case branch of ops/aws.sh, on    *)
(*              another machine: it syncs the repository, runs a script on *)
(*              the host, backs the host up, finalizes or records failure; *)
(*   script[o]  ops/run_*.sh on the host: claim, work, evaluate;           *)
(*   fin[o]     the `finalize` command it starts at the end.               *)
(* A remote call may lose its connection: the operator sees an error while *)
(* the process on the host goes on.  A server that dies amid a call leaves *)
(* an empty answer, which the shells take for a good one.  Several         *)
(* operators may run one gate.                                             *)
(*                                                                         *)
(* A behaviour is about one gate, the constant function of its first state.*)
(* P is the host's disk, R the recovery volume backup_state.sh copies to.  *)
(***************************************************************************)
EXTENDS Naturals

CONSTANTS
  Operators,    \* runs of the operator's command, one each
  Nobody,       \* no author
  Gates,        \* the gates this instance looks at
  MaxFaults     \* bound: lost connections and killed scripts of a behaviour

\* The gates that drive the arm to a grasp, each the successor of another.
GraspGates == {"grasp", "handoff", "continuation", "hold", "resolution", "rotation", "horizon"}
AllGates == GraspGates \cup {"reset", "canary", "replay", "action"}

ASSUME GateAssumption ==
  /\ Nobody \notin Operators
  /\ Gates \subseteq AllGates
  /\ MaxFaults \in Nat

VARIABLES
  gate,     \* the gate the behaviour is about
  op,       \* where the operator's command is
  good,     \* command_status == 0
  script,   \* where the script on the host is
  server,   \* the simulator or worker call of a script
  fin,      \* the finalize process
  P, R,     \* the gate's files on the host and on the recovery volume
  faults,   \* how many faults have happened
  unsaid    \* the claimant could not write its claim or its failure (a
            \* record of what happened; the code has no such state)

vars == <<gate, op, good, script, server, fin, P, R, faults, unsaid>>

(***************************************************************************)
(* The gates differ in few ways.                                           *)
(***************************************************************************)
\* The ERR trap of the script is set before the claim is tried.
TrapsFirst == {"canary", "replay"}

\* The operator stops the resident worker between the run and the backup.
StopsWorker == {"canary", "replay"}

\* finalize writes the recovery volume before the host.
RecoveryFirst == {"canary", "replay"}

Data    == {"none", "partial", "complete"}
Verdict == {"none", "positive", "negative"}
Results == {"none", "verified", "passed", "failed"}
Files   == [claim : Operators \cup {Nobody}, whole : BOOLEAN, data : Data,
            evaluation : Verdict, result : Results, failure : Operators \cup {Nobody}]

\* The claim is taken by its name; whole says that it also has its contents.
Empty == [claim |-> Nobody, whole |-> FALSE, data |-> "none", evaluation |-> "none",
          result |-> "none", failure |-> Nobody]

OpPcs == {"start", "run", "stop", "failStop", "backup", "backupLedger", "failBackup",
          "finalize", "wait", "failFinal", "again", "againLedger", "done"}
ScriptPcs == {"none", "prepare", "check", "write", "fill", "work", "call", "evaluate",
              "tidy", "trap", "ok", "failed", "killed"}
FinPcs == {"none", "check", "first", "second", "ok", "failed"}

TypeOK ==
  /\ gate \in Gates
  /\ op \in [Operators -> OpPcs]
  /\ good \in [Operators -> BOOLEAN]
  /\ script \in [Operators -> ScriptPcs]
  /\ server \in [Operators -> {"idle", "running", "ended", "failed"}]
  /\ fin \in [Operators -> FinPcs]
  /\ P \in Files
  /\ R \in Files
  /\ faults \in 0..MaxFaults
  /\ unsaid \in BOOLEAN

Init ==
  /\ gate \in Gates
  /\ op = [o \in Operators |-> "start"]
  /\ good = [o \in Operators |-> TRUE]
  /\ script = [o \in Operators |-> "none"]
  /\ server = [o \in Operators |-> "idle"]
  /\ fin = [o \in Operators |-> "none"]
  /\ P = Empty
  /\ R = Empty
  /\ faults = 0
  /\ unsaid = FALSE

GotoOp(o, next, ok) ==
  /\ op' = [op EXCEPT ![o] = next]
  /\ good' = [good EXCEPT ![o] = ok]

GotoScript(o, next) == script' = [script EXCEPT ![o] = next]

\* Mutant: the script has no trap.
Err_NoTrap(o, trapped) == GotoScript(o, "failed")

\* The trap runs the failure command, when it is set at this point.
Err(o, trapped) == GotoScript(o, IF trapped THEN "trap" ELSE "failed")

(***************************************************************************)
(* The script: prepare, claim, work, evaluate.                             *)
(***************************************************************************)
\* Argument checks, runtime authentication, worker restart, preflight, the
\* recovery motion of the predecessor: all that comes before the claim.
Prepare(o) ==
  /\ script[o] = "prepare"
  /\ \/ GotoScript(o, "check")
     \/ Err(o, FALSE)
  /\ UNCHANGED <<gate, op, good, server, fin, P, R, faults, unsaid>>

\* What the claim commands look at before they create the claim file.
ResetIsOpen  == P.failure = Nobody /\ P.claim = Nobody
LiveIsOpen   == P.evaluation = "none" /\ P.result = "none" /\ P.failure = Nobody
CanaryIsOpen == TRUE
ReplayIsOpen == TRUE

IsOpen == CASE gate = "reset"  -> ResetIsOpen
            [] gate = "canary" -> CanaryIsOpen
            [] gate = "replay" -> ReplayIsOpen
            [] OTHER           -> LiveIsOpen

\* The claim also authenticates the runtime and the predecessor's evidence:
\* it may be refused for that.
CheckClaim(o) ==
  /\ script[o] = "check"
  /\ \/ IsOpen /\ GotoScript(o, "write")
     \/ Err(o, gate \in TrapsFirst)
  /\ UNCHANGED <<gate, op, good, server, fin, P, R, faults, unsaid>>

\* Mutant: the claim is written with write_json_atomic, over another's.
WriteClaim_Replace(o) ==
  /\ script[o] = "write"
  /\ P' = [P EXCEPT !.claim = o, !.whole = FALSE]
  /\ GotoScript(o, "fill")
  /\ UNCHANGED <<gate, op, good, server, fin, R, faults, unsaid>>

\* Exclusive creation, O_EXCL or mkdir, takes the claim before it has contents;
\* the reset links a file that is written already.
WriteClaim(o) ==
  /\ script[o] = "write"
  /\ IF P.claim = Nobody
     THEN P' = [P EXCEPT !.claim = o, !.whole = (gate = "reset")] /\ GotoScript(o, "fill")
     ELSE P' = P /\ Err(o, gate \in TrapsFirst)
  /\ UNCHANGED <<gate, op, good, server, fin, R, faults, unsaid>>

\* Then the contents are written and flushed to the disk.  When that fails the
\* claim stays; most gates have no trap yet that could tell, and the replay's
\* tells nothing without the claim file.
FillClaim(o) ==
  /\ script[o] = "fill"
  /\ \/ /\ P' = [P EXCEPT !.whole = TRUE]
        /\ GotoScript(o, "work")
        /\ UNCHANGED unsaid
     \/ /\ P' \in {P, [P EXCEPT !.whole = TRUE]}
        /\ Err(o, gate \in TrapsFirst)
        /\ unsaid' = (gate # "canary" /\ ~(gate = "replay" /\ P'.whole))
  /\ UNCHANGED <<gate, op, good, server, fin, R, faults>>

\* The script calls the simulator (or the worker); the call runs there.
CallServer(o) ==
  /\ script[o] = "work"
  /\ server[o] = "idle"
  /\ server' = [server EXCEPT ![o] = "running"]
  /\ P' = [P EXCEPT !.data = "partial"]
  /\ GotoScript(o, "call")
  /\ UNCHANGED <<gate, op, good, fin, R, faults, unsaid>>

\* A step before or between the calls fails.
WorkFails(o) ==
  /\ script[o] = "work"
  /\ Err(o, TRUE)
  /\ UNCHANGED <<gate, op, good, server, fin, P, R, faults, unsaid>>

\* The server finishes its part, whether or not anybody still waits for it, or
\* it dies before that: then its connection ends without an answer.
ServerEnds(o) ==
  /\ server[o] = "running"
  /\ \/ /\ server' = [server EXCEPT ![o] = "ended"]
        /\ \E data \in {"partial", "complete"} : P' = [P EXCEPT !.data = data]
     \/ /\ server' = [server EXCEPT ![o] = "failed"]
        /\ P' = P
  /\ UNCHANGED <<gate, op, good, script, fin, R, faults, unsaid>>

\* The control client of the replay wants an answer; isaac_server_call and
\* print_checked_isaac_response only look for an error in it.
Passes == gate = "replay" => P.data = "complete"

\* The call returns, or gives up on a server that goes on.  The reset has no
\* evaluation: its script hands the recording over after the call.
CallReturns(o) ==
  /\ script[o] = "call"
  /\ \/ /\ server[o] = "ended" /\ Passes
        /\ GotoScript(o, IF gate = "reset" THEN "tidy" ELSE "evaluate")
     \/ Err(o, TRUE)
  /\ UNCHANGED <<gate, op, good, server, fin, P, R, faults, unsaid>>

LiveIsEvaluable   == P.claim # Nobody /\ P.result = "none" /\ P.failure = Nobody
CanaryIsEvaluable == P.evaluation = "none" /\ P.result = "none" /\ P.failure = Nobody
ReplayIsEvaluable == P.claim # Nobody /\ P.evaluation = "none" /\ P.result = "none"

IsEvaluable == CASE gate = "canary" -> CanaryIsEvaluable
                 [] gate = "replay" -> ReplayIsEvaluable
                 [] OTHER           -> LiveIsEvaluable

\* Canary and replay evaluate every file that they need; the others judge by
\* some of them and leave the rest to finalize.
ReadsAll == {"canary", "replay"}

Refuse(o) ==
  /\ P' = P
  /\ Err(o, TRUE)

\* The verdict is written even when it is negative; live action and canary
\* then go on to finalize it.
EvaluateToVerdict(o, verdict) ==
  /\ P' = [P EXCEPT !.evaluation = verdict]
  /\ GotoScript(o, "ok")

\* The acquisition gates write the verdict and raise on a negative one.
EvaluateGrasp(o, verdict) ==
  /\ P' = [P EXCEPT !.evaluation = verdict]
  /\ IF verdict = "positive" THEN GotoScript(o, "tidy") ELSE Err(o, TRUE)

\* The replay raises before it writes.
EvaluateReplay(o, verdict) ==
  IF verdict = "positive"
  THEN P' = [P EXCEPT !.evaluation = verdict] /\ GotoScript(o, "ok")
  ELSE Refuse(o)

\* What an evaluation reads may be missing or not authentic.
Evaluate(o) ==
  /\ script[o] = "evaluate"
  /\ \/ Refuse(o)
     \/ /\ IsEvaluable /\ (gate \in ReadsAll => P.data = "complete")
        /\ \E verdict \in {"positive", "negative"} :
             CASE gate = "replay" -> EvaluateReplay(o, verdict)
               [] gate \in {"action", "canary"} -> EvaluateToVerdict(o, verdict)
               [] OTHER -> EvaluateGrasp(o, verdict)
  /\ UNCHANGED <<gate, op, good, server, fin, R, faults, unsaid>>

\* The last phase of a script, under the trap: an acquisition stops its worker,
\* the reset hands the ownership of the recording back.
Tidy(o) ==
  /\ script[o] = "tidy"
  /\ GotoScript(o, "ok") \/ Err(o, TRUE)
  /\ UNCHANGED <<gate, op, good, server, fin, P, R, faults, unsaid>>

(***************************************************************************)
(* Failure: recorded by the trap of a script or by the operator's command. *)
(***************************************************************************)
\* Mutant: failure does not look for a result.
MayFail_OverResult == P.claim # Nobody /\ P.failure = Nobody /\ (gate = "replay" => P.whole)

\* The replay looks for its claim file, not for the directory that it claims.
MayFail ==
  /\ P.claim # Nobody /\ P.failure = Nobody /\ P.result = "none"
  /\ gate = "replay" => P.whole

\* Best effort: the callers ignore a failure that could not be written, and the
\* reset may not be able to authenticate its own negative evidence.
RecordFailure(o) ==
  IF MayFail
  THEN \/ P' = [P EXCEPT !.failure = o] /\ UNCHANGED unsaid
       \/ P' = P /\ unsaid' = (unsaid \/ P.claim = o)
  ELSE UNCHANGED <<P, unsaid>>

Trap(o) ==
  /\ script[o] = "trap"
  /\ RecordFailure(o)
  /\ GotoScript(o, "failed")
  /\ UNCHANGED <<gate, op, good, server, fin, R, faults>>

(***************************************************************************)
(* Finalize: compare the host with the recovery volume, write the verdict  *)
(* on both.                                                                *)
(***************************************************************************)
Same(e) ==
  CASE e = "claim"      -> R.claim = P.claim /\ P.claim # Nobody /\ R.whole /\ P.whole
    [] e = "evaluation" -> R.evaluation = P.evaluation /\ P.evaluation # "none"
    [] OTHER            -> R.data = P.data /\ P.data = "complete"

\* What each finalize compares; all but the ledger's own files is data.
ResetCompares        == {"claim", "recording"}
CanaryCompares       == {"evaluation"}
ReplayCompares       == {"evaluation"}
ActionCompares       == {"claim", "evaluation", "session", "predecessor"}
GraspCompares        == {"claim", "evaluation", "report", "sessions"}
HandoffCompares      == GraspCompares \cup {"handoff"}
ContinuationCompares == GraspCompares \cup {"handoff"}
HoldCompares         == GraspCompares \cup {"handoff"}
ResolutionCompares   == GraspCompares \cup {"diagnostic"}
RotationCompares     == GraspCompares \cup {"handoff"}
HorizonCompares      == GraspCompares \cup {"handoff", "model"}

Compares == CASE gate = "reset"        -> ResetCompares
              [] gate = "canary"       -> CanaryCompares
              [] gate = "replay"       -> ReplayCompares
              [] gate = "action"       -> ActionCompares
              [] gate = "grasp"        -> GraspCompares
              [] gate = "handoff"      -> HandoffCompares
              [] gate = "continuation" -> ContinuationCompares
              [] gate = "hold"         -> HoldCompares
              [] gate = "resolution"   -> ResolutionCompares
              [] gate = "rotation"     -> RotationCompares
              [] OTHER                 -> HorizonCompares

\* Which earlier end stops a finalize: the reset writes its result again,
\* the replay looks for no failure.
NotTerminal ==
  /\ gate # "reset"  => P.result = "none"
  /\ gate # "replay" => P.failure = Nobody

\* The gates that finalize nothing but a positive verdict.
PassedOnly == {"hold", "resolution", "rotation", "horizon"}

\* Mutant: finalize compares the ledger's own files and no data.
IsRecovered_LedgerOnly ==
  /\ NotTerminal
  /\ \A e \in Compares \cap {"claim", "evaluation"} : Same(e)
  /\ gate \in PassedOnly => P.evaluation = "positive"

IsRecovered ==
  /\ NotTerminal
  /\ \A e \in Compares : Same(e)
  /\ gate \in PassedOnly => P.evaluation = "positive"

FinalResult == IF gate = "reset" \/ P.evaluation = "positive" THEN "passed" ELSE "failed"

FinalizeCheck(o) ==
  /\ fin[o] = "check"
  /\ fin' = [fin EXCEPT ![o] = IF IsRecovered THEN "first" ELSE "failed"]
  /\ UNCHANGED <<gate, op, good, script, server, P, R, faults, unsaid>>

WriteHost == P' = [P EXCEPT !.result = FinalResult] /\ R' = R
WriteRecovery ==
  /\ R' = [R EXCEPT !.result = IF gate = "reset" THEN "verified" ELSE FinalResult]
  /\ P' = P

\* Either write may fail: the two volumes fill up or fail separately.
FinalizeFirst(o) ==
  /\ fin[o] = "first"
  /\ \/ /\ IF gate \in RecoveryFirst \cup {"reset"} THEN WriteRecovery ELSE WriteHost
        /\ fin' = [fin EXCEPT ![o] = "second"]
     \/ fin' = [fin EXCEPT ![o] = "failed"] /\ UNCHANGED <<P, R>>
  /\ UNCHANGED <<gate, op, good, script, server, faults, unsaid>>

FinalizeSecond(o) ==
  /\ fin[o] = "second"
  /\ \/ /\ IF gate \in RecoveryFirst \cup {"reset"} THEN WriteHost ELSE WriteRecovery
        /\ fin' = [fin EXCEPT ![o] = "ok"]
     \/ fin' = [fin EXCEPT ![o] = "failed"] /\ UNCHANGED <<P, R>>
  /\ UNCHANGED <<gate, op, good, script, server, faults, unsaid>>

(***************************************************************************)
(* The operator's command.                                                 *)
(***************************************************************************)
AfterRun == IF gate \in StopsWorker THEN "stop" ELSE "backup"

\* sync_repo, then the script is started on the host.
Start(o) ==
  /\ op[o] = "start"
  /\ \/ GotoOp(o, "run", TRUE) /\ GotoScript(o, "prepare")
     \/ GotoOp(o, AfterRun, FALSE) /\ UNCHANGED script
  /\ UNCHANGED <<gate, server, fin, P, R, faults, unsaid>>

RunReturns(o) ==
  /\ op[o] = "run"
  /\ script[o] \in {"ok", "failed", "killed"}
  /\ GotoOp(o, AfterRun, script[o] = "ok")
  /\ UNCHANGED <<gate, script, server, fin, P, R, faults, unsaid>>

\* Worker stop; its failure after a good run fails the experiment.
StopWorker(o) ==
  /\ op[o] = "stop"
  /\ \/ GotoOp(o, "backup", good[o])
     \/ GotoOp(o, IF good[o] THEN "failStop" ELSE "backup", FALSE)
  /\ UNCHANGED <<gate, script, server, fin, P, R, faults, unsaid>>

\* The recording and session trees, then the tree that holds the claims.
\* A copy never deletes: what the host lacks stays on the recovery volume.
CopyData ==
  R' = [R EXCEPT !.data = IF P.data = "none" THEN @ ELSE P.data,
                 !.result = IF gate = "reset" /\ P.result # "none" THEN P.result ELSE @]

CopyLedger ==
  R' = [R EXCEPT !.claim = IF P.claim = Nobody THEN @ ELSE P.claim,
                 !.whole = IF P.claim = Nobody THEN @ ELSE P.whole,
                 !.evaluation = IF P.evaluation = "none" THEN @ ELSE P.evaluation,
                 !.failure = IF P.failure = Nobody THEN @ ELSE P.failure,
                 !.result = IF gate = "reset" \/ P.result = "none" THEN @ ELSE P.result]

\* backup_state.sh dies when a volume is missing or a checksum differs.
BackupFails(o) ==
  /\ op[o] \in {"backup", "backupLedger"}
  /\ GotoOp(o, IF good[o] THEN "failBackup" ELSE "done", FALSE)
  /\ UNCHANGED <<gate, script, server, fin, P, R, faults, unsaid>>

Backup(o) ==
  /\ op[o] = "backup"
  /\ CopyData
  /\ GotoOp(o, "backupLedger", good[o])
  /\ UNCHANGED <<gate, script, server, fin, P, faults, unsaid>>

BackupLedger(o) ==
  /\ op[o] = "backupLedger"
  /\ CopyLedger
  /\ GotoOp(o, IF good[o] THEN "finalize" ELSE "done", good[o])
  /\ UNCHANGED <<gate, script, server, fin, P, faults, unsaid>>

Finalize(o) ==
  /\ op[o] = "finalize"
  /\ fin' = [fin EXCEPT ![o] = "check"]
  /\ GotoOp(o, "wait", TRUE)
  /\ UNCHANGED <<gate, script, server, P, R, faults, unsaid>>

FinalizeReturns(o) ==
  /\ op[o] = "wait"
  /\ fin[o] \in {"ok", "failed"}
  /\ IF fin[o] = "ok" THEN GotoOp(o, "done", TRUE) ELSE GotoOp(o, "failFinal", FALSE)
  /\ UNCHANGED <<gate, script, server, fin, P, R, faults, unsaid>>

\* The failure command of the operator.  Only the reset backs up again after
\* a failed backup; all do after a failed finalization.
FailStep(o) ==
  /\ op[o] \in {"failStop", "failFinal", "failBackup"}
  /\ RecordFailure(o)
  /\ GotoOp(o, CASE op[o] = "failStop" -> "backup"
                 [] op[o] = "failBackup" /\ gate # "reset" -> "done"
                 [] OTHER -> "again", FALSE)
  /\ UNCHANGED <<gate, script, server, fin, R, faults>>

BackupAgain(o) ==
  /\ op[o] \in {"again", "againLedger"}
  /\ \/ /\ IF op[o] = "again" THEN CopyData ELSE CopyLedger
        /\ GotoOp(o, IF op[o] = "again" THEN "againLedger" ELSE "done", FALSE)
     \/ R' = R /\ GotoOp(o, "done", FALSE)
  /\ UNCHANGED <<gate, script, server, fin, P, faults, unsaid>>

(***************************************************************************)
(* Faults.                                                                 *)
(***************************************************************************)
\* The connection of the operator's remote call is lost; the process stays.
LoseConnection(o) ==
  /\ faults < MaxFaults
  /\ \/ op[o] = "run" /\ GotoOp(o, AfterRun, FALSE)
     \/ op[o] = "wait" /\ GotoOp(o, "failFinal", FALSE)
  /\ faults' = faults + 1
  /\ UNCHANGED <<gate, script, server, fin, P, R, unsaid>>

\* A signal other than an error of a command: no ERR trap runs.
KillScript(o) ==
  /\ faults < MaxFaults
  /\ script[o] \notin {"none", "ok", "failed", "killed"}
  /\ GotoScript(o, "killed")
  /\ faults' = faults + 1
  /\ UNCHANGED <<gate, op, good, server, fin, P, R, unsaid>>

ScriptStep(o) ==
  Prepare(o) \/ CheckClaim(o) \/ WriteClaim(o) \/ FillClaim(o) \/ CallServer(o)
  \/ WorkFails(o) \/ CallReturns(o) \/ Evaluate(o) \/ Tidy(o) \/ Trap(o)
FinStep(o) == FinalizeCheck(o) \/ FinalizeFirst(o) \/ FinalizeSecond(o)
OpStep(o) ==
  Start(o) \/ RunReturns(o) \/ StopWorker(o) \/ Backup(o) \/ BackupLedger(o)
  \/ BackupFails(o) \/ Finalize(o) \/ FinalizeReturns(o) \/ FailStep(o) \/ BackupAgain(o)
Fault(o) == LoseConnection(o) \/ KillScript(o)

Next == \E o \in Operators :
          ScriptStep(o) \/ ServerEnds(o) \/ FinStep(o) \/ OpStep(o) \/ Fault(o)

Spec == Init /\ [][Next]_vars

\* Every process of a run keeps running: the shells and the server are
\* sequential programs whose calls all have timeouts.
FairSpec ==
  /\ Spec
  /\ \A o \in Operators : WF_vars(ScriptStep(o)) /\ WF_vars(ServerEnds(o))
                          /\ WF_vars(FinStep(o)) /\ WF_vars(OpStep(o))

(***************************************************************************)
(* Properties.                                                             *)
(***************************************************************************)
\* The gates whose scripts claim before they set the trap.
ClaimsFirst == GraspGates \cup {"reset", "action"}

\* One experiment: only the run that holds the claim works, evaluates or is
\* finalized, however the claims of several operators interleave.
OnlyClaimantWorks ==
  \A o \in Operators :
    \/ script[o] \in {"fill", "work", "call", "evaluate", "tidy", "ok"}
    \/ server[o] # "idle"
    \/ fin[o] # "none"
    => P.claim = o

\* A run that was refused the claim never records the failure of the run
\* that has it - where the trap is set after the claim.
FailureIsOwn ==
  gate \in ClaimsFirst /\ P.failure # Nobody => P.failure = P.claim

\* A verdict on the host is the verdict of an evaluation whose claim and
\* data lie, complete and unchanged, on the recovery volume, although calls
\* that a server left unfinished pass and may even be judged.
VerdictIsRecovered ==
  P.result # "none" =>
    /\ Same("data") /\ Same("claim")
    /\ gate # "reset" => Same("evaluation")
    /\ gate # "reset" => (P.result = "passed" <=> P.evaluation = "positive")

\* An experiment has one verdict: without a lost connection (and where the
\* trap is set after the claim), a failure excludes a result on the host,
\* and the recovery volume never says more than the host.
OneVerdict ==
  gate \in ClaimsFirst /\ faults = 0 =>
    /\ P.failure # Nobody => P.result = "none"
    /\ R.result \in {"passed", "failed"} => P.result = R.result

\* A claimed experiment comes to a verdict or to a recorded failure, unless
\* its script was killed, a connection was lost, or the very write that would
\* have recorded the claim or its failure went wrong, with nobody left to tell.
ClaimIsSettled ==
  P.claim # Nobody ~>
    P.result # "none" \/ P.failure # Nobody \/ faults > 0 \/ unsaid

=============================================================================
