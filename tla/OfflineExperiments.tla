------------------------- MODULE OfflineExperiments -------------------------
(***************************************************************************)
(* The offline experiments of jepa_wm: commands that train an artifact,    *)
(* evaluate it and judge the evaluation, each a process of its own.  What  *)
(* they know of each other are files, checked when a command begins and    *)
(* written when it ends, hours apart; nothing locks them.  A file's        *)
(* fingerprint is the number of the invocation that wrote it.              *)
(*   conditioning  action_conditioning_experiment.py (R: treatments B - D) *)
(*   routing       action_routing_experiment.py                            *)
(*   observed      observed_context_routing_experiment.py                  *)
(*   causal        causal_context_routing_experiment.py                    *)
(*   physical      physical_state_routing_experiment.py, the probe that the*)
(*                 residual experiment starts from                         *)
(*   residual      physical_state_residual_experiment.py, its adjudication *)
(*                 and its two held-out evaluations                        *)
(*   adapter       adapt_recording, evaluate_recording, insertion readiness*)
(*   proposal      train_proposal, evaluate_proposal, their readiness      *)
(*   task          the same with the readiness of one task                 *)
(* PolicyEvidence adds those that clear a policy for live runs.            *)
(***************************************************************************)
EXTENDS Naturals, FiniteSets, Sequences

CONSTANTS
  Experiments,      \* those that are looked at
  Processes,        \* commands running at the same time, at most
  MaxRuns           \* MaxRuns[e]: bound on invocations in experiment e

Versions == {"v1", "v2"}
Residual == {"physical", "residual"}

Claim   == [v1 |-> "v1 claim",   v2 |-> "v2 claim"]
Output  == [v1 |-> "v1 output",  v2 |-> "v2 output"]
Failure == [v1 |-> "v1 failure", v2 |-> "v2 failure"]

\* What invocation i leaves under a name of its own.
Kept == <<"kept 1", "kept 2", "kept 3", "kept 4", "kept 5", "kept 6">>

\* The files of an experiment: the artifact with its training report, evaluation
\* reports and what judges them.  "A" is the report of the frozen control, "R" of
\* the artifact.
Trained == {"artifact", "training"}
FilesOf ==
  [conditioning |-> Trained \cup {"A", "R", "canonical", "summary"},
   routing      |-> Trained \cup {"preflight", "A", "R", "canonical", "summary"},
   observed     |-> Trained \cup {"preflight", "evaluation"},
   causal       |-> {"preflight", "probe"},
   physical     |-> Trained \cup {"probe", "preflight", "state", "failure", "invocation"},
   residual     |-> Trained \cup {"preflight", "evaluation", "adjudication", "state",
                                 "failure", "invocation"}
                  \cup UNION {{Claim[v], Output[v], Failure[v]} : v \in Versions},
   adapter      |-> Trained \cup {"R", "summary"},
   proposal     |-> Trained \cup {"R", "summary"},
   task         |-> Trained \cup {"R", "summary"},
   planner      |-> Trained \cup {Kept[i] : i \in 1 .. 6} \cup {"summary"},
   grasp        |-> Trained \cup {Kept[i] : i \in 1 .. 6} \cup {"baseline", "summary", "film"},
   insertion    |-> Trained \cup {Kept[i] : i \in 1 .. 6}
                  \cup {"child", "child report", "handoff", "followup"}]

ASSUME ExperimentsAssumption ==
  /\ Experiments \subseteq DOMAIN FilesOf
  /\ MaxRuns \in [Experiments -> 0 .. Len(Kept)]

\* A file: the invocation that wrote it (0: absent), the artifact it is about, what
\* it says, and the files it names as its sources.
Doc(by, of, says, from) == [by |-> by, of |-> of, says |-> says, from |-> from]
NoFile == Doc(0, 0, "nothing", <<>>)

NoRun  == [command |-> "none", at |-> "idle", id |-> 0, artifact |-> 0, source |-> NoFile]
Unset  == [probe |-> 0, artifact |-> 0, training |-> 0, evaluation |-> 0, adjudication |-> 0,
           claim |-> 0, failure |-> 0]

VARIABLES
  experiment,   \* the one of Experiments that runs
  file,         \* file[n]: what stands under that name
  process,      \* process[p]: the invocation it runs and how far it is
  runs,         \* invocations begun so far
  config,       \* the fingerprints committed for adjudication and held-out
  \* history
  opened,       \* who opened the held-out recordings, and with which artifact
  measured,     \* artifacts named by a passing evaluation report
  loaded        \* loaded[i]: the artifact whose weights invocation i has in memory

offlineVars == <<experiment, file, process, runs, config, opened, measured, loaded>>

OfflineInit ==
  /\ experiment \in Experiments
  /\ file = [n \in FilesOf[experiment] |-> NoFile]
  /\ process = [p \in Processes |-> NoRun]
  /\ runs = 0
  /\ config = Unset
  /\ opened = {}
  /\ measured = {}
  /\ loaded = [i \in 1 .. MaxRuns[experiment] |-> 0]

There(n)      == n \in DOMAIN file /\ file[n].by # 0
Absent(names) == \A n \in names : ~There(n)
from_artifact(n) == file[n].by
Me(p)         == process[p]

\* A command that passed its first checks.
Start(p, command, at, source) ==
  /\ Me(p) = NoRun /\ runs < MaxRuns[experiment]
  /\ runs' = runs + 1
  /\ process' = [process EXCEPT ![p] =
       [command |-> command, at |-> at, id |-> runs + 1,
        artifact |-> IF There("artifact") THEN from_artifact("artifact") ELSE 0,
        source |-> source]]
  /\ UNCHANGED <<experiment, file, config, opened, measured, loaded>>

Goto(p, at)  == process' = [process EXCEPT ![p].at = at]
Finish(p)    == process' = [process EXCEPT ![p] = NoRun]
Write(n, of, says, from, p) == file' = [file EXCEPT ![n] = Doc(Me(p).id, of, says, from)]
History == <<opened, measured, loaded>>

(***************************************************************************)
(* Training.                                                               *)
(***************************************************************************)
train_treatment(p) ==
  /\ experiment = "conditioning" /\ Absent({"artifact", "training"})
  /\ Start(p, "train", "training", NoFile)

train_router(p) ==
  /\ experiment = "routing" /\ Absent({"artifact", "training"})
  /\ Start(p, "train", "training", NoFile)

observed_train_router(p) ==
  /\ experiment = "observed" /\ Absent({"artifact", "training"})
  /\ Start(p, "train", "training", NoFile)

\* The probe whose report is committed with the configuration, and passed; the
\* residual experiment starts where that is so.
_authenticate_passed_probe ==
  /\ There("probe") /\ from_artifact("probe") = config.probe
  /\ file["probe"].says = "passed"

\* Needs a preflight of that probe, and enters the run state: from
\* there a failure is the end of the experiment.
train_residual(p) ==
  /\ experiment \in Residual /\ Absent({"failure", "artifact", "training"})
  /\ file["preflight"].says = "passed"
  /\ experiment = "physical" =>
       _authenticate_passed_probe /\ file["preflight"].of = from_artifact("probe")
  /\ Start(p, "train", "entering", IF experiment = "physical" THEN file["probe"] ELSE NoFile)

\* No check for an artifact that is there already.
adapt_recordings(p) ==
  /\ experiment = "adapter"
  /\ Start(p, "train", "training", NoFile)

train_action_proposal(p) ==
  /\ experiment \in {"proposal", "task", "planner", "grasp", "insertion"}
  /\ Start(p, "train", "training", NoFile)

save_action_conditioning(p) ==
  /\ Me(p).command = "train" /\ Me(p).at = "training"
  /\ Write("artifact", Me(p).id, "trained", <<>>, p)
  /\ Goto(p, "reporting")
  /\ UNCHANGED <<experiment, runs, config, History>>

\* The report fingerprints the artifact on disk, not the one just saved.
WriteTrainingReport(p) ==
  /\ Me(p).command = "train" /\ Me(p).at = "reporting"
  /\ Write("training", from_artifact("artifact"), "trained", <<>>, p)
  /\ IF experiment \in Residual THEN Goto(p, "leaving") ELSE Finish(p)
  /\ UNCHANGED <<experiment, runs, config, History>>

\* One file for all invocations: <command>_started, <command>_completed.
write_run_state(p) ==
  /\ experiment \in Residual
  /\ \/ /\ Me(p).at = "entering"
        /\ Write("state", 0, Me(p).command, <<>>, p)
        /\ Goto(p, IF Me(p).command = "train" THEN "training" ELSE "scoring")
     \/ /\ Me(p).at = "leaving"
        /\ Write("state", 0, "completed", <<>>, p)
        /\ Finish(p)
  /\ UNCHANGED <<experiment, runs, config, History>>

(***************************************************************************)
(* Evaluation.                                                             *)
(***************************************************************************)
preflight(p) ==
  /\ experiment = "routing" /\ Absent({"preflight"})
  /\ Start(p, "preflight", "scoring", NoFile)

observed_preflight(p) ==
  /\ experiment = "observed" /\ Absent({"preflight"})
  /\ Start(p, "preflight", "scoring", NoFile)

residual_preflight(p) ==
  /\ experiment \in Residual /\ Absent({"failure", "preflight"})
  /\ experiment = "physical" => _authenticate_passed_probe
  /\ Start(p, "preflight", "scoring", IF experiment = "physical" THEN file["probe"] ELSE NoFile)

physical_probe(p) ==
  /\ experiment = "physical" /\ Absent({"probe"})
  /\ Start(p, "probe", "scoring", NoFile)

\* The corpus is named on the command line; feasibility is judged on it.
Corpora == {1, 2}
causal_preflight(p) ==
  /\ experiment = "causal" /\ Absent({"preflight"})
  /\ \E corpus \in Corpora : Start(p, "preflight", "scoring", Doc(0, corpus, "corpus", <<>>))

\* On the corpus of the preflight that is there.
causal_probe(p) ==
  /\ experiment = "causal" /\ Absent({"probe"})
  /\ There("preflight") /\ file["preflight"].says = "passed"
  /\ Start(p, "probe", "scoring", Doc(0, file["preflight"].of, "corpus", <<>>))

\* The canary, and without further authority the canonical recordings.
evaluate_treatment(p, name) ==
  /\ experiment = "conditioning" /\ name \in {"A", "R", "canonical"} /\ Absent({name})
  /\ Start(p, name, IF name = "A" THEN "scoring" ELSE "loading", NoFile)

\* The artifact is fingerprinted first, then authorized, then loaded.
evaluate(p, name) ==
  /\ experiment = "routing" /\ name \in {"A", "R", "canonical"} /\ Absent({name})
  /\ name = "A" \/ There("artifact")
  /\ Start(p, name, CASE name = "A" -> "scoring" [] name = "R" -> "loading"
                      [] name = "canonical" -> "authorizing", NoFile)

\* A report of the canary is good for the artifact that is there, as long as the
\* training report names that artifact too.
_validate_evaluation_report(report) ==
  /\ report.of = from_artifact("artifact")
  /\ file["training"].of = report.of

\* The canonical recordings are for the artifact that the summary selected ...
ReadsCanarySummary(p) ==
  /\ Me(p).at = "authorizing"
  /\ file["summary"].says = "passed" /\ file["summary"].of = Me(p).artifact
  /\ process' = [process EXCEPT ![p].at = "baseline", ![p].source = file["summary"]]

\* ... on two reports, read one after the other, that are still the ones it was made of ...
ReadsBaselineReport(p) ==
  /\ Me(p).at = "baseline" /\ Me(p).source.from[1] = from_artifact("A")
  /\ Goto(p, "router")

ReadsRouterReport(p) ==
  /\ Me(p).at = "router" /\ Me(p).source.from[2] = from_artifact("R")
  /\ process' = [process EXCEPT ![p].at = "selected", ![p].source = file["R"]]

\* ... and, as they were read, pass and name the artifact.
SelectsRouter(p) ==
  /\ Me(p).at = "selected" /\ _validate_evaluation_report(Me(p).source)
  /\ Me(p).source.says = "passed" /\ Me(p).source.of = Me(p).artifact
  /\ process' = [process EXCEPT ![p].at = "loading", ![p].source = NoFile]

_authorize_evaluation(p) ==
  /\ \/ ReadsCanarySummary(p) \/ ReadsBaselineReport(p)
     \/ ReadsRouterReport(p) \/ SelectsRouter(p)
  /\ UNCHANGED <<experiment, file, runs, config, History>>

\* The paths are fixed; train-evaluation.json is the only output.
evaluate_train(p) ==
  /\ experiment = "residual" /\ Absent({"failure", "evaluation"}) /\ There("artifact")
  /\ Start(p, "evaluate-train", "loading", NoFile)

observed_evaluate_train(p) ==
  /\ experiment = "observed" /\ Absent({"evaluation"}) /\ There("artifact")
  /\ Start(p, "evaluate-train", "loading", NoFile)

\* Mutant: the artifact is loaded without the identity it was authorized with.
Expected_Any(p) == TRUE

\* The bytes that are loaded are the bytes that were fingerprinted before; the first
\* experiment fingerprints nothing before it loads.
Expected(p) == experiment # "conditioning" => from_artifact("artifact") = Me(p).artifact

\* The training report must name the loaded artifact.  A held-out evaluation has
\* compared the report's own fingerprint, and compares only its contract here.
TrainingMatches(p) ==
  Me(p).command \in Versions \/ file["training"].of = from_artifact("artifact")

Load(p) ==
  /\ Me(p).at = "loading"
  /\ There("artifact") /\ Expected(p) /\ TrainingMatches(p)
  /\ loaded' = [loaded EXCEPT ![Me(p).id] = from_artifact("artifact")]
  /\ Goto(p, CASE Me(p).command \in Versions -> "claiming"
               [] experiment = "residual" /\ Me(p).command = "evaluate-train" -> "entering"
               [] OTHER -> "scoring")
  /\ UNCHANGED <<experiment, file, runs, config, opened, measured>>

\* The two evaluations of an artifact that others may replace meanwhile.
evaluate_recording(p) ==
  /\ experiment = "adapter" /\ There("artifact")
  /\ Start(p, "R", "reading", NoFile)

evaluate_action_proposal(p) ==
  /\ experiment \in {"proposal", "task"} /\ There("artifact")
  /\ Start(p, "R", "reading", NoFile)

LoadInPlace(p) ==
  /\ Me(p).at = "reading"
  /\ loaded' = [loaded EXCEPT ![Me(p).id] = from_artifact("artifact")]
  /\ Goto(p, "scoring")
  /\ UNCHANGED <<experiment, file, runs, config, opened, measured>>

\* Mutant: the report fingerprints the file, as the training report does.
Named_OnDisk(p) == from_artifact("artifact")

\* What a report says it is about: the bytes that were loaded - but in the
\* experiments without check the artifact is fingerprinted only now.
Named(p) == IF experiment \in {"adapter", "proposal", "task"} THEN from_artifact("artifact")
            ELSE loaded[Me(p).id]

\* The result is free; only the causal preflight can tell that training is not
\* feasible.
Verdicts(p) ==
  CASE Me(p).command # "preflight" -> {"passed", "failed"}
    [] experiment = "causal" -> {"passed", "blocked"}
    [] OTHER -> {"passed"}

\* What is reported on: an artifact, a corpus, or the probe.
About(p) ==
  CASE Me(p).command \in {"preflight", "probe"} ->
         IF experiment = "causal" THEN Me(p).source.of ELSE Me(p).source.by
    [] Me(p).command = "A" -> 0
    [] OTHER -> Named(p)

\* The training report, or the preflight, is fingerprinted now.
Sources(p) ==
  LET n == IF Me(p).command = "probe" THEN "preflight" ELSE "training"
  IN <<IF There(n) THEN from_artifact(n) ELSE 0>>

\* Scored and written in one file.
WriteEvaluation(p) ==
  /\ Me(p).at = "scoring"
  /\ \E says \in Verdicts(p) :
       LET n == IF Me(p).command = "evaluate-train" THEN "evaluation" ELSE Me(p).command
       IN /\ Write(n, About(p), says, Sources(p), p)
          /\ measured' = measured \cup
               (CASE says # "passed" -> {}
                  [] n \in {"R", "evaluation"} -> {About(p)}
                  [] experiment = "physical" /\ n = "probe" -> {Me(p).id}
                  [] OTHER -> {})
  /\ IF experiment = "residual" /\ Me(p).command = "evaluate-train"
     THEN Goto(p, "leaving") ELSE Finish(p)
  /\ UNCHANGED <<experiment, runs, config, opened, loaded>>

(***************************************************************************)
(* Judging evaluations.                                                    *)
(***************************************************************************)
\* The reports are taken at their word.
conditioning_summarize_canary(p) ==
  /\ experiment = "conditioning" /\ Absent({"summary"}) /\ There("A") /\ There("R")
  /\ Start(p, "summarize", "judging", file["R"])

summarize_canary(p) ==
  /\ experiment = "routing" /\ Absent({"summary"}) /\ There("A") /\ There("R")
  /\ _validate_evaluation_report(file["R"])
  /\ Start(p, "summarize", "judging", file["R"])

\* The reports were read before, their fingerprints are taken now.
WriteSummary(p) ==
  /\ Me(p).command = "summarize" /\ Me(p).at = "judging"
  /\ Write("summary", Me(p).source.of, Me(p).source.says,
           <<from_artifact("A"), from_artifact("R")>>, p)
  /\ Finish(p)
  /\ UNCHANGED <<experiment, runs, config, History>>

\* insertion_wm_readiness: the training report and the adapter must agree.
validate_insertion_adapter(p) ==
  /\ experiment = "adapter" /\ There("artifact")
  /\ file["training"].of = from_artifact("artifact")
  /\ Start(p, "readiness", "judging", NoFile)

validate_insertion_adapter_evaluation(p) == file["R"].of = Me(p).artifact

\* The readiness says what the evaluations say, with the adapter's fingerprint.
_summarize_insertion_world_model_readiness(p) ==
  /\ experiment = "adapter" /\ Me(p).command = "readiness" /\ Me(p).at = "judging"
  /\ There("R") /\ validate_insertion_adapter_evaluation(p)
  /\ Write("summary", Me(p).artifact, file["R"].says, <<from_artifact("R")>>, p)
  /\ Finish(p)
  /\ UNCHANGED <<experiment, runs, config, History>>

\* task_proposal_readiness: proposal and evaluation are authenticated ...
validate_proposal_identity(p) ==
  /\ experiment = "task" /\ There("artifact")
  /\ file["training"].of = from_artifact("artifact")
  /\ Start(p, "readiness", "validating", NoFile)

validate_evaluation(p) ==
  /\ Me(p).at = "validating"
  /\ There("R") /\ file["R"].of = Me(p).artifact
  /\ Goto(p, "judging")
  /\ UNCHANGED <<experiment, file, runs, config, History>>

\* ... and then read again, by path, for the numbers.
build_proposal_readiness(p) ==
  /\ experiment \in {"proposal", "task"}
  /\ There("training") /\ There("R")
  /\ IF experiment = "task"
     THEN /\ Me(p).command = "readiness" /\ Me(p).at = "judging"
          /\ Write("summary", Me(p).artifact, file["R"].says, <<from_artifact("R")>>, p)
          /\ Finish(p)
          /\ UNCHANGED <<experiment, runs, config, History>>
     ELSE Start(p, "readiness", "writing", file["R"])

\* The plain readiness names no fingerprint.
WriteReadiness(p) ==
  /\ Me(p).command = "readiness" /\ Me(p).at = "writing"
  /\ Write("summary", 0, Me(p).source.says, <<>>, p)
  /\ Finish(p)
  /\ UNCHANGED <<experiment, runs, config, History>>

(***************************************************************************)
(* The residual's adjudication and its two held-out evaluations.           *)
(***************************************************************************)
\* External: an operator commits the fingerprints of what the report on disk says
\* of itself; the held-out configuration repeats them, the second one adds the
\* first attempt's claim and failure.
Commit ==
  /\ \/ /\ config = Unset /\ There("probe") /\ experiment = "physical"
        /\ config' = [Unset EXCEPT !.probe = from_artifact("probe")]
     \/ /\ config = Unset /\ There("evaluation") /\ experiment = "residual"
        /\ config' = [Unset EXCEPT !.artifact = file["evaluation"].of,
                                   !.training = file["evaluation"].from[1],
                                   !.evaluation = from_artifact("evaluation")]
     \/ /\ config.evaluation # 0 /\ config.adjudication = 0 /\ There("adjudication")
        /\ config' = [config EXCEPT !.adjudication = from_artifact("adjudication")]
     \/ /\ config.adjudication # 0 /\ config.claim = 0
        /\ There(Claim.v1) /\ There(Failure.v1)
        /\ config' = [config EXCEPT !.claim = from_artifact(Claim.v1),
                                    !.failure = from_artifact(Failure.v1)]
  /\ UNCHANGED <<experiment, file, process, runs, History>>

\* Only a failed evaluation with the committed provenance is judged again.
adjudicate(p) ==
  /\ experiment = "residual" /\ Absent({"adjudication"})
  /\ config.evaluation # 0 /\ from_artifact("evaluation") = config.evaluation
  /\ file["evaluation"].of = config.artifact
  /\ file["evaluation"].from = <<config.training>>
  /\ file["evaluation"].says = "failed"
  /\ Start(p, "adjudicate", "judging", file["evaluation"])

adjudicate_report(p) ==
  /\ Me(p).command = "adjudicate"
  /\ \E says \in {"passed", "failed"} :
       Write("adjudication", Me(p).source.of, says, <<Me(p).source.by>>, p)
  /\ Finish(p)
  /\ UNCHANGED <<experiment, runs, config, History>>

\* Mutant: any report of the committed adjudication will do, also one that failed.
_authenticate_authority_AnyVerdict ==
  /\ config.adjudication # 0
  /\ from_artifact("artifact") = config.artifact
  /\ from_artifact("training") = config.training
  /\ from_artifact("evaluation") = config.evaluation
  /\ from_artifact("adjudication") = config.adjudication

_authenticate_authority ==
  /\ config.adjudication # 0
  /\ from_artifact("artifact") = config.artifact
  /\ from_artifact("training") = config.training
  /\ from_artifact("evaluation") = config.evaluation
  /\ from_artifact("adjudication") = config.adjudication
  /\ file["adjudication"].says = "passed"
  /\ file["adjudication"].from = <<from_artifact("evaluation")>>

Terminal(v) == ~Absent({Failure[v], Claim[v], Output[v]})

held_out_evaluate(p) ==
  /\ experiment = "residual" /\ ~Terminal("v1")
  /\ _authenticate_authority
  /\ Start(p, "v1", "loading", NoFile)

\* The first attempt was claimed and failed, and there is no report of it.
authenticate_prior_evidence ==
  /\ config.claim # 0
  /\ from_artifact(Claim.v1) = config.claim
  /\ from_artifact(Failure.v1) = config.failure
  /\ Absent({Output.v1})

_authenticate_before_claim(p) ==
  /\ experiment = "residual" /\ ~Terminal("v2")
  /\ authenticate_prior_evidence
  /\ _authenticate_authority
  /\ Start(p, "v2", "loading", NoFile)

\* Mutant: the claim is written over one that appeared since the checks.
_claim_canonical_access_Replace(p, v) ==
  /\ Write(Claim[v], 0, "claimed", <<>>, p)
  /\ Goto(p, "opening")

\* Created exclusively: of two that passed the checks one gets it.
_claim_canonical_access(p, v) ==
  /\ Absent({Claim[v]})
  /\ Write(Claim[v], 0, "claimed", <<>>, p)
  /\ Goto(p, "opening")

ClaimAccess(p) ==
  /\ Me(p).at = "claiming"
  /\ _claim_canonical_access(p, Me(p).command)
  /\ UNCHANGED <<experiment, runs, config, History>>

\* Only now are the recordings read.
_authenticate_recordings(p) ==
  /\ Me(p).at = "opening"
  /\ opened' = opened \cup {[version |-> Me(p).command, run |-> Me(p).id,
                             artifact |-> loaded[Me(p).id]]}
  /\ Goto(p, "populations")
  /\ UNCHANGED <<experiment, file, runs, config, measured, loaded>>

evaluate_population_gate(p) ==
  /\ Me(p).at = "populations"
  /\ \E says \in {"passed", "failed"} :
       Write(Output[Me(p).command], loaded[Me(p).id], says, <<>>, p)
  /\ Finish(p)
  /\ UNCHANGED <<experiment, runs, config, History>>

(***************************************************************************)
(* Failure.                                                                *)
(***************************************************************************)
\* Any step may raise - or a check refuses the command at once: an invocation that
\* enters with "refused".
Refuse(p, command) ==
  /\ \/ experiment = "residual" /\ command \in {"train", "evaluate-train"} \cup Versions
     \/ experiment = "physical" /\ command = "train"
  /\ Start(p, command, "refused", NoFile)

Raise(p) ==
  /\ Me(p).at \notin {"idle", "refused"}
  /\ IF experiment \in Residual /\ Me(p).command \notin {"adjudicate", "probe"}
     THEN Goto(p, "refused") ELSE Finish(p)
  /\ UNCHANGED <<experiment, file, runs, config, History>>

\* Terminal is what failed while the run state was that of the command - whichever
\* invocation of it wrote the state.
_command_entered_experiment(p) == file["state"].says = Me(p).command

\* The first failure of its kind is kept.
_write_failure_record(p) ==
  /\ Me(p).at = "refused" /\ Me(p).command \notin Versions
  /\ LET n == IF _command_entered_experiment(p) THEN "failure" ELSE "invocation"
     IN IF There(n) THEN UNCHANGED file ELSE Write(n, 0, Me(p).command, <<>>, p)
  /\ Finish(p)
  /\ UNCHANGED <<experiment, runs, config, History>>

\* Nothing beside a report; terminal once the recordings are claimed, and then only
\* the first failure is kept.
_write_failure(p) ==
  /\ Me(p).at = "refused" /\ Me(p).command \in Versions
  /\ LET v == Me(p).command
         n == IF There(Claim[v]) THEN Failure[v] ELSE "invocation"
     IN IF There(Output[v]) \/ (There(n) /\ There(Claim[v])) THEN UNCHANGED file
        ELSE Write(n, 0, v, <<>>, p)
  /\ Finish(p)
  /\ UNCHANGED <<experiment, runs, config, History>>

\* The process is killed.
Die(p) ==
  /\ Me(p) # NoRun /\ Finish(p)
  /\ UNCHANGED <<experiment, file, runs, config, History>>

Train(p) ==
  \/ train_treatment(p) \/ train_router(p) \/ observed_train_router(p) \/ train_residual(p)
  \/ adapt_recordings(p) \/ train_action_proposal(p)
  \/ save_action_conditioning(p) \/ WriteTrainingReport(p) \/ write_run_state(p)

Evaluate(p) ==
  \/ preflight(p) \/ observed_preflight(p) \/ residual_preflight(p)
  \/ physical_probe(p) \/ causal_preflight(p) \/ causal_probe(p)
  \/ \E name \in {"A", "R", "canonical"} : evaluate_treatment(p, name) \/ evaluate(p, name)
  \/ _authorize_evaluation(p) \/ evaluate_train(p) \/ observed_evaluate_train(p)
  \/ Load(p) \/ evaluate_recording(p) \/ evaluate_action_proposal(p) \/ LoadInPlace(p)
  \/ WriteEvaluation(p)

Judge(p) ==
  \/ conditioning_summarize_canary(p) \/ summarize_canary(p) \/ WriteSummary(p)
  \/ validate_insertion_adapter(p) \/ _summarize_insertion_world_model_readiness(p)
  \/ validate_proposal_identity(p) \/ validate_evaluation(p)
  \/ build_proposal_readiness(p) \/ WriteReadiness(p)
  \/ adjudicate(p) \/ adjudicate_report(p)

HeldOut(p) ==
  \/ held_out_evaluate(p) \/ _authenticate_before_claim(p) \/ ClaimAccess(p)
  \/ _authenticate_recordings(p) \/ evaluate_population_gate(p)

Fail(p) ==
  \/ \E command \in {"train", "evaluate-train"} \cup Versions : Refuse(p, command)
  \/ Raise(p) \/ _write_failure_record(p) \/ _write_failure(p) \/ Die(p)

OfflineNext ==
  \/ \E p \in Processes : Train(p) \/ Evaluate(p) \/ Judge(p) \/ HeldOut(p) \/ Fail(p)
  \/ Commit

OfflineSpec == OfflineInit /\ [][OfflineNext]_offlineVars

-----------------------------------------------------------------------------
OfflineTypeOK ==
  /\ experiment \in Experiments
  /\ \A n \in DOMAIN file : file[n].by \in 0 .. runs
  /\ runs \in 0 .. MaxRuns[experiment]
  /\ \A p \in Processes : Me(p).id \in 0 .. runs
  /\ measured \subseteq 0 .. runs

\* What is cleared is what was measured: the artifact that the canonical recordings
\* are evaluated with, and the one an insertion readiness passes, was named by a
\* passing report of an earlier evaluation - whatever is trained meanwhile - and a
\* residual is trained on a committed route probe that passed.
ClearedWasMeasured ==
  /\ experiment = "routing" => \A p \in Processes :
       Me(p).command = "canonical" /\ Me(p).at = "scoring" =>
         loaded[Me(p).id] \in measured
  /\ experiment = "adapter" =>
       (file["summary"].says = "passed" => file["summary"].of \in measured)
  /\ experiment = "physical" => \A p \in Processes :
       Me(p).command = "train" /\ Me(p).at # "refused" => Me(p).source.by \in measured

\* A report is about the artifact whose weights were scored, also if the file was
\* replaced while it was scored, and that artifact was a trained one.
ReportIsOfWhatRan ==
  experiment \in {"conditioning", "routing", "observed", "residual"} =>
    \A n \in {"R", "canonical", "evaluation", Output.v1, Output.v2} :
      There(n) => file[n].of = loaded[file[n].by] /\ file[n].of # 0

\* The held-out recordings are opened with the artifact that was trained, evaluated
\* and, in the report that was committed, adjudicated as passing - though a late
\* training may have replaced the file since - by one invocation of each version
\* however many pass the checks, and by the second version only after the first has
\* claimed them and failed.
HeldOutIsEarned ==
  \A o \in opened :
    /\ o.artifact = config.artifact
    /\ file["adjudication"].by = config.adjudication =>
         file["adjudication"].says = "passed" /\ file["adjudication"].of = o.artifact
    /\ \A other \in opened : other.version = o.version => other.run = o.run
    /\ o.version = "v2" => There(Claim.v1) /\ There(Failure.v1)
=============================================================================
