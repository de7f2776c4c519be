------------------------ MODULE MCOfflineExperiments ------------------------
(* Model checking of OfflineExperiments with PolicyEvidence: two processes at *)
(* a time.                                                                   *)
EXTENDS PolicyEvidence, TLC

\* Enough for a late training beside everything that leads to the canonical or the
\* held-out recordings, or to the hand-off of a child.
MCMaxRuns == [e \in Experiments |->
  CASE e \in {"routing", "residual", "insertion"} -> 6
    [] e \in {"planner", "grasp"} -> 5
    [] OTHER -> 4]

Symmetry == Permutations(Processes)

\* What any step or property reads: of the records of a residual experiment, whether
\* it failed and which command is in its state, but neither who wrote them nor the
\* invocations that were refused.
Records == {"state", "failure", "invocation"}
Read == <<experiment, process, runs, config, opened, measured, loaded,
          [n \in DOMAIN file \ Records |-> file[n]], There("failure"),
          {file[n].says : n \in DOMAIN file \cap {"state"}}>>
=============================================================================
