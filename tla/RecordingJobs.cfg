SPECIFICATION FairSpec
CONSTANTS
  Jobs = {j1, j2}
  Operations = {o1}
  Runs = {r1, r2, r3}
  None = None
  DiskMayFail = TRUE
  ServerMayRestart = TRUE
INVARIANTS OneOperation
PROPERTIES TerminalIsFinal ImplementsInterlock CancelReleases
