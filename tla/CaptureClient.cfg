SPECIFICATION FairClientSpec
CONSTANTS
  Jobs = {c1, c2}
  Operations = {o1}
  Runs = {r1, r2}
  None = None
  DiskMayFail = TRUE
  ServerMayRestart = TRUE
  CallsMayFail = TRUE
INVARIANT ReturnedMeansReleased
PROPERTY WaitEnds
