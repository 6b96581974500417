--------------------------- MODULE MCStoreOpening ---------------------------
(* Model checking of StoreOpening.                                          *)
EXTENDS StoreOpening
=============================================================================
