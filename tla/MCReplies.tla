----------------------------- MODULE MCReplies -----------------------------
(* Model checking of Replies.                                               *)
EXTENDS Replies

\* A finds the room under its name.
MCName == [r \in Rooms |-> r]
=============================================================================
