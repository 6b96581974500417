------------------------------- MODULE Relay -------------------------------
(***************************************************************************)
(* What the bridge promises of each message it relays, with no sync loop,  *)
(* no token, no crash and no lost request in sight: at most one copy on    *)
(* the target, whose text only ever gets newer; no copy of what was        *)
(* withheld; and a seal on every copy when the bridge logs out.  Module    *)
(* Forwarding is shown to implement it.                                    *)
(***************************************************************************)
EXTENDS Naturals

CONSTANTS
    Messages,  \* the messages of the source's rooms
    Texts      \* the texts they may carry, positive numbers: a later text is a greater one

VARIABLES
    text,      \* the text of the copy of each message, 0 if it has none
    redacted,  \* the messages whose copy is redacted
    withheld,  \* the messages that will never have a copy
    sealed     \* the messages whose copy is out of the bridge's reach

vars == <<text, redacted, withheld, sealed>>

Init ==
    /\ text = [m \in Messages |-> 0]
    /\ redacted = {} /\ withheld = {} /\ sealed = {}

Relayed(m) == text[m] # 0

Post(m, t) ==
    /\ ~Relayed(m) /\ m \notin withheld
    /\ text' = [text EXCEPT ![m] = t]
    /\ UNCHANGED <<redacted, withheld, sealed>>

Withhold(m) ==
    /\ ~Relayed(m)
    /\ withheld' = withheld \cup {m}
    /\ UNCHANGED <<text, redacted, sealed>>

Edit(m, t) ==
    /\ Relayed(m) /\ m \notin sealed
    /\ t > text[m]
    /\ text' = [text EXCEPT ![m] = t]
    /\ UNCHANGED <<redacted, withheld, sealed>>

Redact(m) ==
    /\ Relayed(m) /\ m \notin sealed
    /\ redacted' = redacted \cup {m}
    /\ UNCHANGED <<text, withheld, sealed>>

\* The bridge logs out of the source and forgets what it relayed.
Seal ==
    /\ sealed' = {m \in Messages : Relayed(m)}
    /\ UNCHANGED <<text, redacted, withheld>>

Next ==
    \/ \E m \in Messages, t \in Texts : Post(m, t) \/ Edit(m, t)
    \/ \E m \in Messages : Withhold(m) \/ Redact(m)
    \/ Seal

Spec == Init /\ [][Next]_vars
=============================================================================
