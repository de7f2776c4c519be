SPECIFICATION FairSpec
CONSTANTS
  MaxUpdates = 3
  RequiredSamples = 2
  None = None
INVARIANTS LeftPaused
PROPERTIES ResultIsTruthful CommandOnJudgedState FollowsSessionProtocol Ends
\* An execution happens once.
CHECK_DEADLOCK FALSE
