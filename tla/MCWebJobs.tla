----------------------------- MODULE MCWebJobs -----------------------------
(* Model checking of WebJobs.                                               *)
EXTENDS WebJobs
=============================================================================
