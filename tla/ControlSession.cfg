SPECIFICATION Spec
CONSTANTS
  source = source
  trial = trial
  followup = followup
  direct = direct
  baseline = baseline
  measured = measured
  p1 = p1
  p2 = p2
  Sessions = {source, trial, followup, direct, baseline, measured}
  Proposals = {a, b}
  Responders = {p1, p2}
  Policy <- MCPolicy
  None = None
  ServerMayCrash = TRUE
CONSTRAINT OneGroup
SYMMETRY Symmetry
INVARIANTS SingleUse TrialActsOnSafeSource EvidenceHasGround
