CONSTANTS
  Recordings = {r1, r2}
  Sessions = {s1, s2}
  Kinds = {"demo", "action", "domain", "grasp", "insertion", "contact", "reset", "candidate_film", "grasp_film", "insertion_film"}
  Window = 4
  SettleUpdates = 2
  MaxRuns = 2
  MaxOps = 4
  MaxFaults = 1
SPECIFICATION Spec
SYMMETRY Symmetry
INVARIANTS
  RecordingIsWhole IdleIsStill
  RequestIsGrounded JudgedAtReset RecoveryIsTrue
CHECK_DEADLOCK FALSE
