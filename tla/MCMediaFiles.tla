---------------------------- MODULE MCMediaFiles ---------------------------
(* Model checking of MediaFiles.                                            *)
EXTENDS MediaFiles, TLC

\* Sound for the invariants: no definition tells one message from another.
Symmetry == Permutations(Messages)
=============================================================================
