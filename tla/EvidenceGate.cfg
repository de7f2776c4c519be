SPECIFICATION FairSpec
CONSTANTS
  Operators = {a, b}
  Nobody = Nobody
  Gates = {"reset", "canary", "replay", "action", "grasp", "handoff",
           "continuation", "hold", "resolution", "rotation", "horizon"}
  MaxFaults = 2
INVARIANTS OnlyClaimantWorks VerdictIsRecovered OneVerdict
PROPERTIES ClaimIsSettled
CHECK_DEADLOCK FALSE
