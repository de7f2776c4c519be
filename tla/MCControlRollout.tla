-------------------------- MODULE MCControlRollout --------------------------
(* Model checking of ControlRollout: three steps of both scripts.             *)
EXTENDS ControlRollout
=============================================================================
