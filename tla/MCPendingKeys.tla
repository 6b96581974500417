--------------------------- MODULE MCPendingKeys ---------------------------
(* Model checking of PendingKeys.  Sessions and events are numbers.         *)
EXTENDS PendingKeys

TwoAndOne == {<<1, 1>>, <<1, 2>>, <<2, 1>>}
=============================================================================
