--------------------------- MODULE MCEvidenceGate ---------------------------
(* Model checking of EvidenceGate: two operators, every gate.               *)
EXTENDS EvidenceGate
=============================================================================
