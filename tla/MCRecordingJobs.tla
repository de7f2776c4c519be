-------------------------- MODULE MCRecordingJobs --------------------------
(* Model checking of RecordingJobs: two jobs, so that one run's file and    *)
(* claim can meet another's; three runs, so that a job is run again after   *)
(* quarantine while the callback of its first run is still pending.         *)
EXTENDS RecordingJobs, TLC

Symmetry == Permutations(Jobs) \cup Permutations(Runs)
=============================================================================
