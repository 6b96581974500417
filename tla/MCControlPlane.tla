--------------------------- MODULE MCControlPlane ---------------------------
(* Model checking of ControlPlane.                                          *)
EXTENDS ControlPlane
=============================================================================
