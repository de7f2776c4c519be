------------------------- MODULE MCControlExecution -------------------------
(* Model checking of ControlExecution: one execution of every kind.          *)
EXTENDS ControlExecution
=============================================================================
