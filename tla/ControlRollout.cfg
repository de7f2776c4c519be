SPECIFICATION FairSpec
CONSTANTS
  Steps = 3
  Scripts = {"rollout", "trial"}
  None = None
INVARIANTS ExitZeroMeansComplete LateWorkIsReported
PROPERTIES MovesInOrder RolloutEnds
\* A rollout ends.
CHECK_DEADLOCK FALSE
