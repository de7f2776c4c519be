SPECIFICATION Spec
CONSTANTS
  None = None
  Probes <- MCProbes
  Drive0 = 2
  Biases <- MCBiases
  Limits <- MCLimits
  ResetTol = 1
  CaptureTol = 1
  MaxBias = 1
  MaxFeedback = 2
  MaxMotion = 5
  Floor = 1
  Divisor = 2
  Required = 2
  MaxUpdates = 3
  Window = 2
  MaxIntervals = 2
  MaxCalls = 2
INVARIANTS EveryEndHasEvidence
PROPERTIES ForwardIsUndone MeasurementEnds
CHECK_DEADLOCK FALSE
