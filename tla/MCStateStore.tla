---------------------------- MODULE MCStateStore ----------------------------
(* Model checking of StateStore.                                            *)
EXTENDS StateStore
=============================================================================
