SPECIFICATION WorkerSpec
CONSTANTS
  p = p
  q = q
  Names = {m, n}
  Proposals = {p, q}
  Adapters = {x}
  Workers = {w1, w2}
  Commands = {c1, c2}
  Sessions = {s, t}
  ExpectedProposal <- MCExpected
  ObservationId <- MCObservationId
  None = None
CONSTRAINT Bounded
SYMMETRY Symmetry
INVARIANTS AnswerIsExpected PlanSeesOwnFrames NoOrphan
