SPECIFICATION Spec
CONSTANTS
  Sessions = {s1, s2, s3, s4}
  Poses = {here, there}
  Astray = Astray
  RuntimeOwners = {s4}
  MaxStages = 3
  None = None
SYMMETRY Symmetry
INVARIANTS MotionIsGrounded FollowupStartsAtEnd OneMotionPerReset
CHECK_DEADLOCK FALSE
