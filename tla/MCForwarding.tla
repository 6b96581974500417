---------------------------- MODULE MCForwarding ----------------------------
(* Model checking of Forwarding.                                            *)
EXTENDS Forwarding
=============================================================================
