---------------------------- MODULE MCTransfer -----------------------------
(* Model checking of Transfer.                                              *)
EXTENDS Transfer
=============================================================================
