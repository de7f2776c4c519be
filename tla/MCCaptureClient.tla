-------------------------- MODULE MCCaptureClient --------------------------
(* Model checking of CaptureClient: two orchestrators compete for the       *)
(* simulator, each with one job, next to one foreground operation.          *)
EXTENDS CaptureClient
=============================================================================
