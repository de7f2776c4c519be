------------------------ MODULE MCControlResolution ------------------------
(* Model checking of ControlResolution: a HOLD and two translations.        *)
EXTENDS ControlResolution

MCProbes == <<0, 2, 4>>
MCBiases == {0, 1, 2}
MCLimits == -2..8
=============================================================================
