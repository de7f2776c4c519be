SPECIFICATION FairSpec
CONSTANTS
  Steps = 2
  Scripts = {"trial"}
  None = None
INVARIANT FailureIsReported
CHECK_DEADLOCK FALSE
