SPECIFICATION PolicySpec
CONSTANTS
  Experiments = {"conditioning", "routing", "observed", "residual", "adapter", "proposal", "task", "causal", "physical", "planner", "grasp", "insertion"}
  Processes = {p1, p2}
  MaxRuns <- MCMaxRuns
SYMMETRY Symmetry
VIEW Read
INVARIANTS ClearedWasMeasured ReportIsOfWhatRan HeldOutIsEarned PolicyIsEarned
CHECK_DEADLOCK FALSE
