--------------------------- MODULE PolicyEvidence ---------------------------
(***************************************************************************)
(* The experiments that clear a policy for live runs, on the files and     *)
(* processes of OfflineExperiments:                                        *)
(*   planner    benchmark_planner.py, insertion_planner_readiness.py       *)
(*   grasp      control_baselines.py, grasp_control_readiness.py and the   *)
(*              film of a ready rollout, isaac_grasp_demo.py               *)
(*   insertion  insertion_transition_finetune.py: a child of the insertion *)
(*              proposal is trained on a failed session, and               *)
(*              insertion_transition.py hands the session on to the parent *)
(*              or to the child                                            *)
(* A live session is a file of its own: the fingerprint that answered it,  *)
(* the path it asked for, and the session before it.                       *)
(***************************************************************************)
EXTENDS OfflineExperiments

Session(i)  == file[Kept[i]]
KeptRuns    == {i \in 1 .. runs : There(Kept[i])}

\* TrainingArtifactIdentity: the report names the bytes of the artifact.
TrainingArtifactIdentity ==
  There("artifact") /\ There("training") /\ file["training"].of = from_artifact("artifact")

(***************************************************************************)
(* Planner.                                                                *)
(***************************************************************************)
\* The artifacts are identified first ...
BenchmarkInitialization(p) ==
  /\ experiment = "planner" /\ TrainingArtifactIdentity
  /\ Start(p, "benchmark", "initialized", NoFile)

\* ... and loaded later by path: only the metadata is compared, which a second
\* training on the same recordings has in common.
LoadProposal(p) ==
  /\ Me(p).command = "benchmark" /\ Me(p).at = "initialized"
  /\ loaded' = [loaded EXCEPT ![Me(p).id] = from_artifact("artifact")]
  /\ Goto(p, "planning")
  /\ UNCHANGED <<experiment, file, runs, config, opened, measured>>

\* What a context gets: what the search found, what it began with, or nothing.
refinement_selection == {"searched", "initial", "blocked"}

\* The report is about the identity that was taken first, and named for it.  It
\* passes if no context is blocked and the selected actions win.
PlannerBenchmarkReport(p, source, wins) ==
  Doc(Me(p).id, Me(p).artifact, IF source # "blocked" /\ wins THEN "passed" ELSE "failed", <<>>)

benchmark_recording(p) ==
  /\ Me(p).command = "benchmark" /\ Me(p).at = "planning"
  /\ \E source \in refinement_selection, wins \in BOOLEAN :
       LET report == PlannerBenchmarkReport(p, source, wins)
       IN /\ file' = [file EXCEPT ![Kept[report.of]] = report]
          /\ measured' = IF report.says = "passed" THEN measured \cup {report.of} ELSE measured
  /\ Finish(p)
  /\ UNCHANGED <<experiment, runs, config, opened, loaded>>

validate_insertion_proposal(p) ==
  /\ experiment = "planner" /\ TrainingArtifactIdentity
  /\ Start(p, "readiness", "selecting", NoFile)

\* A report says what its own results say, computed again when it is read.
InsertionPlannerSeedEvidence(i) == Session(i)

\* Reports of other proposals do not match; of those it is given exactly one must.
_select_current_policy_evidence(p, reports, i) ==
  {r \in reports : InsertionPlannerSeedEvidence(r).of = Me(p).artifact} = {i}

\* Of one recording of the roster: what passes must pass on each of them.  The reports
\* are those on the command line, or all there are.
summarize_insertion_planner_readiness(p) ==
  /\ experiment = "planner" /\ Me(p).command = "readiness"
  /\ \E reports \in SUBSET KeptRuns, i \in KeptRuns :
       /\ _select_current_policy_evidence(p, reports, i)
       /\ LET evidence == InsertionPlannerSeedEvidence(i)
          IN Write("summary", Me(p).artifact, evidence.says, <<evidence.by>>, p)
  /\ Finish(p)
  /\ UNCHANGED <<experiment, runs, config, History>>

(***************************************************************************)
(* Grasp: rollouts, their comparison, the readiness and the film.          *)
(***************************************************************************)
\* External: a rollout of the resident worker, which keeps the proposal that it
\* was started with.
StartRollout(p) ==
  /\ experiment = "grasp" /\ There("artifact")
  /\ Start(p, "rollout", "rolling", NoFile)

EndRollout(p) ==
  /\ Me(p).command = "rollout"
  /\ \E says \in {"passed", "failed"} :
       /\ Write(Kept[Me(p).id], Me(p).artifact, says, <<>>, p)
       /\ measured' = IF says = "passed" THEN measured \cup {Me(p).artifact} ELSE measured
  /\ Finish(p)
  /\ UNCHANGED <<experiment, runs, config, opened, loaded>>

\* A complete rollout, by its identifier; its sessions are read when it is compared.
report_control_baselines(p) ==
  /\ experiment = "grasp"
  /\ \E i \in KeptRuns : Start(p, "baselines", "comparing", Session(i))

WriteBaselines(p) ==
  /\ Me(p).command = "baselines"
  /\ Write("baseline", 0, "compared", <<Me(p).source.by>>, p)
  /\ Finish(p)
  /\ UNCHANGED <<experiment, runs, config, History>>

\* load_persisted: the trials are reconstructed from the sessions that the report
\* on disk names.
load_persisted == Session(file["baseline"].from[1])

\* from_persisted, with the bytes of the proposal.
GraspControlReadinessEvidence ==
  /\ There("baseline") /\ TrainingArtifactIdentity
  /\ load_persisted.of = from_artifact("artifact")

GraspControlReadinessSummary(p) ==
  /\ experiment = "grasp" /\ GraspControlReadinessEvidence
  /\ Start(p, "readiness", "summarizing", load_persisted)

WriteGraspReadiness(p) ==
  /\ experiment = "grasp" /\ Me(p).command = "readiness"
  /\ Write("summary", Me(p).source.of, Me(p).source.says, <<Me(p).source.by>>, p)
  /\ Finish(p)
  /\ UNCHANGED <<experiment, runs, config, History>>

\* What is saved is what the raw evidence says again.
_require_saved_summary ==
  /\ There("summary") /\ There("baseline")
  /\ file["summary"].of = load_persisted.of
  /\ file["summary"].says = load_persisted.says
  /\ file["summary"].from = <<load_persisted.by>>

\* On the host, with the bytes: prints the fingerprint it has verified.
load_verified(p) ==
  /\ experiment = "grasp" /\ GraspControlReadinessEvidence
  /\ _require_saved_summary /\ file["summary"].says = "passed"
  /\ Start(p, "film", "verified", NoFile)

\* In the container, without the bytes: against the fingerprint from the host.
load_container_reconstruction(p) ==
  /\ Me(p).command = "film" /\ Me(p).at = "verified"
  /\ _require_saved_summary /\ file["summary"].says = "passed"
  /\ file["summary"].of = Me(p).artifact
  /\ process' = [process EXCEPT ![p].at = "recording", ![p].source = load_persisted]
  /\ UNCHANGED <<experiment, file, runs, config, History>>

record_grasp_demo(p) ==
  /\ Me(p).command = "film" /\ Me(p).at = "recording"
  /\ Write("film", Me(p).artifact, "recorded", <<Me(p).source.by>>, p)
  /\ Finish(p)
  /\ UNCHANGED <<experiment, runs, config, History>>

(***************************************************************************)
(* Insertion: the lineage of proposals.                                    *)
(***************************************************************************)
Paths    == {"base", "child"}
Artifact == [base |-> "artifact", child |-> "child"]
Report   == [base |-> "training", child |-> "child report"]
Now(path) == from_artifact(Artifact[path])

\* InsertionTransitionTrainingSelection: the parent's path and bytes and the session
\* whose failure is the example.
Selection(parent, session) == [parent |-> parent, bytes |-> Now(parent), session |-> session]

\* Mutant: a parent is known by its path.
ParentBytes_ByPath(selection) == There(Artifact[selection.parent])

\* The parent's file still has the bytes that were selected.
ParentBytes(selection) == Now(selection.parent) = selection.bytes

\* transition_parent_proposal: report, checkpoint and selection of a child agree,
\* and the parent is there.  Children of children are left out.
IsBridge(path) ==
  /\ path # "base" /\ There(Report[path]) /\ There(Artifact[path])
  /\ LET report == file[Report[path]]
     IN /\ report.says = "trained"
        /\ report.of = Now(path)
        /\ file[Artifact[path]].from = report.from
        /\ file[Artifact[path]].says = report.says
        /\ ParentBytes(report.from)
        /\ report.from.parent = "base" /\ TrainingArtifactIdentity

IsParent(path) == IF path = "base" THEN TrainingArtifactIdentity ELSE IsBridge(path)

\* External: a live session asks for a proposal, and the worker answers it with the
\* bytes it has loaded.  Whether any bounded translation could have reached its goal
\* is decided by its poses.
AnswerSession(path, previous, reachable) ==
  /\ experiment = "insertion" /\ runs < MaxRuns[experiment]
  /\ There(Artifact[path]) /\ previous \in KeptRuns \cup {0}
  /\ runs' = runs + 1
  /\ file' = [file EXCEPT ![Kept[runs + 1]] = Doc(runs + 1, Now(path), path, <<previous, reachable>>)]
  /\ UNCHANGED <<experiment, process, config, History>>

\* The example is a session, whatever way it failed in: a blocked action, a contact,
\* a trial that was rolled back with or without progress.
transition_example_from_session(i) == Session(i)
target_progress_admissible(example) == example.from[2]

\* It must have been answered by the parent, path and bytes, and training must be what
\* it calls for.
finetune_insertion_transition(p) ==
  /\ experiment = "insertion"
  /\ \E path \in Paths, i \in KeptRuns :
       /\ IsParent(path)
       /\ LET example == transition_example_from_session(i)
          IN /\ example.says = path /\ example.of = Now(path)
             /\ target_progress_admissible(example)
       /\ Start(p, "finetune", "parent", Doc(i, Now(path), "selection", Selection(path, i)))

\* The parent is loaded by path.
load_action_proposal(p) ==
  /\ Me(p).command = "finetune" /\ Me(p).at = "parent"
  /\ loaded' = [loaded EXCEPT ![Me(p).id] = Now(Me(p).source.from.parent)]
  /\ Goto(p, "optimizing")
  /\ UNCHANGED <<experiment, file, runs, config, opened, measured>>

\* Trained: every hard example passes.  The checkpoint carries the selection.
save_action_proposal(p) ==
  /\ Me(p).command = "finetune" /\ Me(p).at = "optimizing"
  /\ \E says \in {"trained", "failed"} :
       /\ Write("child", 0, says, Me(p).source.from, p)
       /\ process' = [process EXCEPT ![p].at = "reporting", ![p].source.says = says]
  /\ UNCHANGED <<experiment, runs, config, History>>

WriteFinetuneReport(p) ==
  /\ Me(p).command = "finetune" /\ Me(p).at = "reporting"
  /\ Write("child report", Now("child"), Me(p).source.says, Me(p).source.from, p)
  /\ Finish(p)
  /\ UNCHANGED <<experiment, runs, config, History>>

\* From the bridge that answered to its parent.
InsertionProposalHandoff(i, requested) ==
  /\ IsBridge(Session(i).says)
  /\ requested = file[Report[Session(i).says]].from.parent

\* From what answered to a child that was trained on the session that followed.
InsertionTransitionDescendantHandoff(i, requested) ==
  /\ ~InsertionProposalHandoff(i, requested)
  /\ IsBridge(requested) /\ Now(requested) # Session(i).of
  /\ LET selection == file[Report[requested]].from
         source    == Session(selection.session)
     IN source.from[1] = i /\ source.says = selection.parent /\ source.of = selection.bytes

\* Written on the host; what answered is still there.
write_insertion_proposal_handoff(p) ==
  /\ experiment = "insertion"
  /\ \E i \in KeptRuns, requested \in Paths :
       /\ There(Artifact[Session(i).says]) /\ Session(i).of = Now(Session(i).says)
       /\ \/ InsertionProposalHandoff(i, requested)
          \/ InsertionTransitionDescendantHandoff(i, requested)
       /\ Start(p, "handoff", "persisting", Doc(i, Now(requested), requested, <<>>))

\* Kept by the simulator, once.
persist_insertion_proposal_handoff(p) ==
  /\ Me(p).command = "handoff" /\ Absent({"handoff"})
  /\ Write("handoff", Me(p).source.of, Me(p).source.says, <<Me(p).source.by>>, p)
  /\ Finish(p)
  /\ UNCHANGED <<experiment, runs, config, History>>

\* The session that follows asks for the requested proposal ...
AnswerFollowup(p) ==
  /\ experiment = "insertion" /\ There("handoff") /\ Absent({"followup"})
  /\ There(Artifact[file["handoff"].says])
  /\ Start(p, "followup", "validating",
           Doc(0, Now(file["handoff"].says), file["handoff"].says, file["handoff"].from))

\* ... and counts only if it was answered with the requested bytes.
ValidateFollowup(p) ==
  /\ Me(p).command = "followup" /\ Me(p).source.of = file["handoff"].of
  /\ Write("followup", Me(p).source.of, Me(p).source.says, Me(p).source.from, p)
  /\ Finish(p)
  /\ UNCHANGED <<experiment, runs, config, History>>

-----------------------------------------------------------------------------
Plan(p) ==
  \/ BenchmarkInitialization(p) \/ LoadProposal(p) \/ benchmark_recording(p)
  \/ validate_insertion_proposal(p) \/ summarize_insertion_planner_readiness(p)

Grasp(p) ==
  \/ StartRollout(p) \/ EndRollout(p) \/ report_control_baselines(p) \/ WriteBaselines(p)
  \/ GraspControlReadinessSummary(p) \/ WriteGraspReadiness(p)
  \/ load_verified(p) \/ load_container_reconstruction(p) \/ record_grasp_demo(p)

Insert(p) ==
  \/ finetune_insertion_transition(p) \/ load_action_proposal(p)
  \/ save_action_proposal(p) \/ WriteFinetuneReport(p)
  \/ write_insertion_proposal_handoff(p) \/ persist_insertion_proposal_handoff(p)
  \/ AnswerFollowup(p) \/ ValidateFollowup(p)

PolicyNext ==
  \/ OfflineNext
  \/ \E p \in Processes : Plan(p) \/ Grasp(p) \/ Insert(p)
  \/ \E path \in Paths, previous \in 0 .. runs, reachable \in BOOLEAN :
       AnswerSession(path, previous, reachable)

PolicySpec == OfflineInit /\ [][PolicyNext]_offlineVars

-----------------------------------------------------------------------------
\* A planner readiness that passes is about a proposal that a passing benchmark
\* names, although benchmarks and readiness are replaced meanwhile.
ReadyWasMeasured ==
  experiment = "planner" =>
    (file["summary"].says = "passed" => file["summary"].of \in measured)

\* The film of a ready grasp names a rollout of that proposal that passed.
FilmIsOfReady ==
  experiment = "grasp" /\ There("film") =>
    LET rollout == Session(file["film"].from[1])
    IN rollout.of = file["film"].of /\ rollout.says = "passed"

\* A hand-off is true of the weights, not only of the reports: what answered was
\* trained from the requested bytes, or the requested child from the bytes that
\* answered the session after it - although parents are loaded by path - and the
\* follow-up that counts was answered by the requested bytes.
HandoffIsTrue ==
  experiment = "insertion" =>
    /\ There("handoff") =>
         LET h == file["handoff"]
             i == h.from[1]
         IN \/ loaded[Session(i).of] = h.of
            \/ \E t \in KeptRuns : Session(t).from[1] = i /\ loaded[h.of] = Session(t).of
    /\ There("followup") => file["followup"].of = file["handoff"].of

\* What goes to the live runs was measured, and has the ancestry it is given for.
PolicyIsEarned == ReadyWasMeasured /\ FilmIsOfReady /\ HandoffIsTrue
=============================================================================
