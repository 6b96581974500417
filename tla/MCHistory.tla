----------------------------- MODULE MCHistory -----------------------------
(* Model checking of History.  The two backfills are both the web server's, *)
(* which can do all that one for a new room can, but for ending at an       *)
(* exception without a reconciliation.                                      *)
EXTENDS History, TLC

\* A backfill can be exchanged for the other.
Symmetry == Permutations(Tasks)
=============================================================================
