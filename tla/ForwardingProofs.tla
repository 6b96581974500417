-------------------------- MODULE ForwardingProofs --------------------------
(***************************************************************************)
(* Proofs about Forwarding, for every set of messages and every bound, in  *)
(* three parts.                                                            *)
(*                                                                         *)
(* 1. The types and the places of the handler (PlaceInv) make one          *)
(*    inductive invariant; on it stand what was processed against what was *)
(*    sent (OnceInv) and the copies that a logout put out of reach         *)
(*    (ForgetInv).                                                         *)
(* 2. Forwarding implements Relay.  The tokens never lead back to an event *)
(*    that was passed over (OrderInv), so that an event in hand is newer   *)
(*    than every text on the target (TextInv), and the map leads to the    *)
(*    message's own copy (MapInv).                                         *)
(* 3. Store and target agree.  A copy in the map follows the row           *)
(*    (FollowInv), a copy that is not in the map is redacted or out of     *)
(*    reach (MappedInv), and what was redacted stays so (ErasedInv).       *)
(***************************************************************************)
EXTENDS Forwarding, TLAPS

-----------------------------------------------------------------------------
(* Part 1: what is sent, and how often.                                    *)

\* A handler at work has an event of its kind in hand, which is marked as processed.
PlaceInv ==
    /\ pc # "ready" => phase \in {"initial", "running"}
    /\ pc \in AtWork => pos < next /\ pos + 1 \in processed
    /\ pc \in {"send", "landed"} => Current.kind = "message"
    /\ pc = "edit" => Current.kind = "edit"
    /\ pc \in {"redact", "redacted"} => Current.kind = "redaction"
    /\ pc \in {"edit", "redact", "redacted"} => map[Message] # 0

\* The event at p posts the message m.
IsPost(p, m) == timeline[p].kind = "message" /\ timeline[p].of = m

\* The message m was processed.
Done(m) == \E p \in processed : IsPost(p, m)

\* No message is posted twice.
PostedOnce ==
    \A p, q \in 1..Len(timeline) :
        timeline[p].kind = "message" /\ IsPost(q, timeline[p].of) => p = q

\* A message that is about to be saved or sent has no copy and was not withheld.
Fresh ==
    pc \in {"taken", "send"} /\ Current.kind = "message" =>
        Message \notin held /\ \A i \in 1..Len(copies) : copies[i].of # Message

\* A message has a copy, or is withheld, only after it was processed.
OnceInv ==
    /\ PostedOnce
    /\ \A i \in 1..Len(copies) : Done(copies[i].of)
    /\ \A m \in held : Done(m)
    /\ Fresh
    /\ HeldBackForGood
    /\ AtMostOnce

\* The map leads to no copy made before the last logout.
ForgetInv ==
    /\ \A m \in Messages : map[m] = 0 \/ map[m] > forgotten
    /\ pc = "landed" => Len(copies) > forgotten

Copies == [of : Messages, text : 1..MaxEvents, redacted : BOOLEAN]

-----------------------------------------------------------------------------

\* What a handler at work may rely on.
LEMMA InHand ==
    ASSUME TypeOK, PlaceInv, pc \in AtWork
    PROVE  /\ Current \in Events /\ Message \in Messages
           /\ pos + 1 \in 1..Len(timeline)
           /\ pos + 1 \in 1..MaxEvents
           /\ pos + 1 \in 0..next
           /\ pos \in Nat /\ next \in Nat
<1> USE ForwardingAssumption DEF TypeOK, PlaceInv
<1>1. /\ pos + 1 \in 1..Len(timeline) /\ pos + 1 \in 0..next
      /\ pos \in Nat /\ next \in Nat
  OBVIOUS
<1>2. pos + 1 \in 1..MaxEvents
  BY <1>1
<1>3. Current \in Events
  BY <1>1 DEF Current
<1>4. QED
  BY <1>1, <1>2, <1>3 DEF Message, Events

\* A copy is updated in place.
LEMMA CopyUpdated ==
    ASSUME TypeOK, NEW k \in 1..Len(copies), NEW c \in Copies, c.of = copies[k].of,
           copies' = [copies EXCEPT ![k] = c]
    PROVE  /\ copies' \in Seq(Copies) /\ Len(copies') = Len(copies)
           /\ copies'[k] = c
           /\ \A i \in 1..Len(copies) : copies'[i].of = copies[i].of
           /\ \A i \in 1..Len(copies) : i # k => copies'[i] = copies[i]
<1>1. copies \in Seq(Copies)
  BY DEF TypeOK, Copies
<1>2. QED
  BY <1>1

\* A copy is added.
LEMMA CopyAdded ==
    ASSUME TypeOK, NEW c \in Copies, copies' = Append(copies, c)
    PROVE  /\ copies' \in Seq(Copies) /\ Len(copies') = Len(copies) + 1
           /\ copies'[Len(copies) + 1] = c
           /\ \A i \in 1..Len(copies) : copies'[i] = copies[i]
<1>1. copies \in Seq(Copies)
  BY DEF TypeOK, Copies
<1>2. QED
  BY <1>1

\* A copy is a record of its type.
LEMMA CopiesTyped ==
    ASSUME TypeOK, NEW i \in 1..Len(copies)
    PROVE  copies[i] \in Copies /\ copies[i].of \in Messages
<1>1. copies \in Seq(Copies)
  BY DEF TypeOK, Copies
<1>2. copies[i] \in Copies
  BY <1>1
<1>3. QED
  BY <1>2 DEF Copies

\* An edit that lands updates one copy.
LEMMA EditLandsCopies ==
    ASSUME TypeOK, PlaceInv, EditLands
    PROVE  /\ map[Message] \in 1..Len(copies)
           /\ \E c \in Copies : c.of = copies[map[Message]].of
                  /\ copies' = [copies EXCEPT ![map[Message]] = c]
<1>1. pc = "edit" /\ Message \in Messages /\ pos + 1 \in 1..MaxEvents
  BY InHand DEF EditLands, AtWork
<1>2. map[Message] \in 1..Len(copies)
  BY <1>1 DEF TypeOK, PlaceInv
<1>3. copies[map[Message]] \in Copies
  BY <1>2, CopiesTyped
<1> DEFINE c == [copies[map[Message]] EXCEPT !.text = pos + 1]
<1>4. c \in Copies /\ c.of = copies[map[Message]].of
  BY <1>1, <1>3 DEF Copies
<1>5. copies' = [copies EXCEPT ![map[Message]] = c]
  BY DEF EditLands
<1>6. QED
  BY <1>2, <1>4, <1>5

\* A redaction that lands updates one copy.
LEMMA RedactLandsCopies ==
    ASSUME TypeOK, PlaceInv, RedactLands
    PROVE  /\ map[Message] \in 1..Len(copies)
           /\ \E c \in Copies : c.of = copies[map[Message]].of
                  /\ copies' = [copies EXCEPT ![map[Message]] = c]
<1>1. pc = "redact" /\ Message \in Messages
  BY InHand DEF RedactLands, AtWork
<1>2. map[Message] \in 1..Len(copies)
  BY <1>1 DEF TypeOK, PlaceInv
<1>3. copies[map[Message]] \in Copies
  BY <1>2, CopiesTyped
<1> DEFINE c == [copies[map[Message]] EXCEPT !.redacted = TRUE]
<1>4. c \in Copies /\ c.of = copies[map[Message]].of
  BY <1>3 DEF Copies
<1>5. copies' = [copies EXCEPT ![map[Message]] = c]
  BY DEF RedactLands
<1>6. QED
  BY <1>2, <1>4, <1>5

\* A message that lands adds a copy.
LEMMA SendLandsCopies ==
    ASSUME TypeOK, PlaceInv, SendLands
    PROVE  \E c \in Copies : c.of = Message /\ copies' = Append(copies, c)
<1>1. Message \in Messages /\ pos + 1 \in 1..MaxEvents
  BY InHand DEF SendLands, AtWork
<1>2. QED
  BY <1>1 DEF SendLands, Copies

\* No step spoils a type.
LEMMA TypeStep == TypeOK /\ PlaceInv /\ [Next]_vars => TypeOK'
<1> SUFFICES ASSUME TypeOK, PlaceInv, [Next]_vars PROVE TypeOK'
  OBVIOUS
<1>a. pc \in AtWork => /\ Current \in Events /\ Message \in Messages
                       /\ pos + 1 \in 1..Len(timeline) /\ pos + 1 \in 1..MaxEvents
                       /\ pos + 1 \in 0..next /\ pos \in Nat /\ next \in Nat
  BY InHand
<1> USE ForwardingAssumption DEF TypeOK, AtWork, Kinds, sync, flags, target, history, Finish, Handling,
           CutShort, EditMissed, Abandon
<1>1. ASSUME NEW e \in Events, Post(e) PROVE TypeOK'
  BY <1>1, <1>a DEF Post
<1>2. CASE Sync
  BY <1>2, <1>a DEF Sync
<1>3. CASE EndBatch
  BY <1>3, <1>a DEF EndBatch
<1>4. CASE Flush
  BY <1>4, <1>a DEF Flush
<1>5. CASE Skip
  BY <1>5, <1>a DEF Skip, Waiting
<1>6. CASE Take
  BY <1>6, <1>a DEF Take, Waiting
<1>7. CASE Boot
  <2>1. CASE enabled
    <3>1. next' \in 0..Len(timeline) /\ pos' = next'
      BY <1>7, <2>1 DEF Boot, Connect, Since
    <3>2. UNCHANGED <<timeline, enabled, paused, dbToken, nioToken, pc, processed, store,
                      target, crashes, history>>
          /\ phase' = "starting"
      BY <1>7, <2>1 DEF Boot, Connect
    <3>3. QED
      BY <3>1, <3>2
  <2>2. CASE ~enabled
    BY <1>7, <2>2 DEF Boot
  <2>3. QED
    BY <2>1, <2>2
<1>8. CASE Login
  BY <1>8, <1>a DEF Login, Connect, Since
<1>9. CASE Started
  BY <1>9, <1>a DEF Started
<1>10. CASE StartFails
  BY <1>10, <1>a DEF StartFails
<1>11. CASE Pause
  BY <1>11, <1>a DEF Pause
<1>12. CASE Resume
  BY <1>12, <1>a DEF Resume
<1>13. CASE LogoutBegin
  BY <1>13, <1>a DEF LogoutBegin, StopSource
<1>14. CASE LogoutDone
  <2>1. Len(copies) \in Nat /\ Len(copies') = Len(copies)
    BY <1>14 DEF LogoutDone
  <2>2. map' \in [Messages -> 0..Len(copies')] /\ forgotten' \in 0..Len(copies')
    BY <1>14, <2>1 DEF LogoutDone
  <2>3. UNCHANGED <<timeline, sync, pc, processed, store, copies, crashes, held, stale,
                    faulted>>
        /\ phase' = "off" /\ enabled' = FALSE /\ paused' = FALSE
    BY <1>14 DEF LogoutDone
  <2>4. QED
    BY <2>1, <2>2, <2>3
<1>15. CASE Shutdown
  BY <1>15, <1>a DEF Shutdown, StopSource
<1>16. CASE Crash
  BY <1>16, <1>a DEF Crash
<1>17. CASE SaveMessage
  BY <1>17, <1>a DEF SaveMessage
<1>18. CASE SendLands
  <2>1. copies' \in Seq(Copies) /\ Len(copies') = Len(copies) + 1
    BY <1>18, SendLandsCopies, CopyAdded
  <2>2. QED
    BY <1>18, <2>1, <1>a DEF SendLands, Copies
<1>19. CASE SendLost
  BY <1>19, <1>a DEF SendLost
<1>20. CASE SendAnswered
  BY <1>20, <1>a DEF SendAnswered
<1>21. CASE SendUnanswered
  BY <1>21, <1>a DEF SendUnanswered
<1>22. CASE SaveEdit
  BY <1>22, <1>a DEF SaveEdit
<1>23. CASE EditLands
  <2>1. copies' \in Seq(Copies) /\ Len(copies') = Len(copies)
    BY <1>23, EditLandsCopies, CopyUpdated
  <2>2. QED
    BY <1>23, <2>1, <1>a DEF EditLands, Copies
<1>24. CASE EditLost
  BY <1>24, <1>a DEF EditLost
<1>25. CASE SaveRedaction
  BY <1>25, <1>a DEF SaveRedaction
<1>26. CASE RedactLands
  <2>1. copies' \in Seq(Copies) /\ Len(copies') = Len(copies)
    BY <1>26, RedactLandsCopies, CopyUpdated
  <2>2. QED
    BY <1>26, <2>1, <1>a DEF RedactLands, Copies
<1>27. CASE RedactAnswered
  BY <1>27, <1>a DEF RedactAnswered
<1>28. CASE RedactRefused
  BY <1>28, <1>a DEF RedactRefused
<1>29. CASE RedactRaises
  BY <1>29, <1>a DEF RedactRaises
<1>30. CASE UNCHANGED vars
  BY <1>30 DEF vars
<1>31. QED
  BY <1>1, <1>2, <1>3, <1>4, <1>5, <1>6, <1>7, <1>8, <1>9, <1>10, <1>11, <1>12, <1>13, <1>14, <1>15,
     <1>16, <1>17, <1>18, <1>19, <1>20, <1>21, <1>22, <1>23, <1>24, <1>25, <1>26, <1>27, <1>28, <1>29, <1>30
     DEF Next, HandlerStep

\* No step loses the place of the handler.
LEMMA PlaceStep == TypeOK /\ PlaceInv /\ [Next]_vars => PlaceInv'
<1> SUFFICES ASSUME TypeOK, PlaceInv, [Next]_vars PROVE PlaceInv'
  OBVIOUS
<1>a. pc \in AtWork => /\ Current \in Events /\ Message \in Messages
                       /\ pos + 1 \in 1..Len(timeline) /\ pos + 1 \in 1..MaxEvents
                       /\ pos + 1 \in 0..next /\ pos \in Nat /\ next \in Nat
  BY InHand
<1> USE ForwardingAssumption DEF TypeOK, PlaceInv, AtWork, Kinds, Events, Message, Current, sync, flags, target, history, Finish, Handling,
           CutShort, EditMissed, Abandon
<1>1. ASSUME NEW e \in Events, Post(e) PROVE PlaceInv'
  BY <1>1, <1>a DEF Post
<1>2. CASE Sync
  BY <1>2, <1>a DEF Sync
<1>3. CASE EndBatch
  BY <1>3, <1>a DEF EndBatch
<1>4. CASE Flush
  BY <1>4, <1>a DEF Flush
<1>5. CASE Skip
  BY <1>5, <1>a DEF Skip, Waiting
<1>6. CASE Take
  BY <1>6, <1>a DEF Take, Waiting
<1>7. CASE Boot
  BY <1>7, <1>a DEF Boot, Connect, Since
<1>8. CASE Login
  BY <1>8, <1>a DEF Login, Connect, Since
<1>9. CASE Started
  BY <1>9, <1>a DEF Started
<1>10. CASE StartFails
  BY <1>10, <1>a DEF StartFails
<1>11. CASE Pause
  BY <1>11, <1>a DEF Pause
<1>12. CASE Resume
  BY <1>12, <1>a DEF Resume
<1>13. CASE LogoutBegin
  BY <1>13, <1>a DEF LogoutBegin, StopSource
<1>14. CASE LogoutDone
  BY <1>14, <1>a DEF LogoutDone
<1>15. CASE Shutdown
  BY <1>15, <1>a DEF Shutdown, StopSource
<1>16. CASE Crash
  BY <1>16, <1>a DEF Crash
<1>17. CASE SaveMessage
  BY <1>17, <1>a DEF SaveMessage
<1>18. CASE SendLands
  BY <1>18, <1>a DEF SendLands
<1>19. CASE SendLost
  BY <1>19, <1>a DEF SendLost
<1>20. CASE SendAnswered
  BY <1>20, <1>a DEF SendAnswered
<1>21. CASE SendUnanswered
  BY <1>21, <1>a DEF SendUnanswered
<1>22. CASE SaveEdit
  BY <1>22, <1>a DEF SaveEdit
<1>23. CASE EditLands
  BY <1>23, <1>a DEF EditLands
<1>24. CASE EditLost
  BY <1>24, <1>a DEF EditLost
<1>25. CASE SaveRedaction
  BY <1>25, <1>a DEF SaveRedaction
<1>26. CASE RedactLands
  BY <1>26, <1>a DEF RedactLands
<1>27. CASE RedactAnswered
  BY <1>27, <1>a DEF RedactAnswered
<1>28. CASE RedactRefused
  BY <1>28, <1>a DEF RedactRefused
<1>29. CASE RedactRaises
  BY <1>29, <1>a DEF RedactRaises
<1>30. CASE UNCHANGED vars
  BY <1>30 DEF vars
<1>31. QED
  BY <1>1, <1>2, <1>3, <1>4, <1>5, <1>6, <1>7, <1>8, <1>9, <1>10, <1>11, <1>12, <1>13, <1>14, <1>15,
     <1>16, <1>17, <1>18, <1>19, <1>20, <1>21, <1>22, <1>23, <1>24, <1>25, <1>26, <1>27, <1>28, <1>29, <1>30
     DEF Next, HandlerStep

\* Every variable keeps its type, and the handler works on a marked event of its kind, in
\* a connected source.
THEOREM TypeCorrect == Spec => [](TypeOK /\ PlaceInv)
<1> USE ForwardingAssumption
<1>1. Init => TypeOK /\ PlaceInv
  <2> SUFFICES ASSUME Init PROVE TypeOK /\ PlaceInv
    OBVIOUS
  <2>1. timeline \in Seq(Events) /\ Len(timeline) = 0
    BY DEF Init
  <2>2. copies \in Seq(Copies) /\ Len(copies) = 0
    BY DEF Init
  <2>3. store \in [Messages -> 0..MaxEvents] /\ map \in [Messages -> 0..Len(copies)]
    BY <2>2 DEF Init
  <2>4. TypeOK
    <3>1. /\ processed \subseteq 1..Len(timeline) /\ held \subseteq Messages
          /\ stale \subseteq Messages /\ faulted \subseteq Messages
      BY DEF Init
    <3>2. /\ Len(timeline) <= MaxEvents /\ crashes \in 0..MaxCrashes
          /\ dbToken \in 0..Len(timeline) /\ nioToken \in 0..Len(timeline)
          /\ next \in 0..Len(timeline) /\ pos \in 0..next /\ forgotten \in 0..Len(copies)
      BY <2>1, <2>2 DEF Init
    <3>3. copies \in Seq([of : Messages, text : 1..MaxEvents, redacted : BOOLEAN])
      BY <2>2 DEF Copies
    <3>4. /\ phase = "down" /\ enabled \in BOOLEAN /\ paused \in BOOLEAN /\ pc = "ready"
      BY DEF Init
    <3>5. QED
      BY <2>1, <2>3, <3>1, <3>2, <3>3, <3>4 DEF TypeOK
  <2>5. PlaceInv
    BY DEF Init, PlaceInv, AtWork
  <2>6. QED
    BY <2>4, <2>5
<1>2. QED
  BY <1>1, TypeStep, PlaceStep, PTL DEF Spec

\* A step that adds no copy and holds back no message, and takes up no event.
LEMMA OnceKept ==
    ASSUME OnceInv, UNCHANGED <<timeline, processed, held>>,
           Len(copies') = Len(copies),
           \A i \in 1..Len(copies) : copies'[i].of = copies[i].of,
           pc' \notin {"taken", "send"} \/ (pc' = pc /\ pos' = pos)
    PROVE  OnceInv'
<1>1. PostedOnce' /\ (\A m \in held' : Done(m)')
  BY DEF OnceInv, PostedOnce, IsPost, Done
<1>2. \A i \in 1..Len(copies') : Done(copies[i].of)'
  BY DEF OnceInv, IsPost, Done
<1>3. Fresh'
  BY DEF OnceInv, Fresh, Current, Message
<1>4. HeldBackForGood' /\ AtMostOnce'
  BY DEF OnceInv, HeldBackForGood, AtMostOnce
<1>5. QED
  BY <1>1, <1>2, <1>3, <1>4 DEF OnceInv

\* No step forwards a message that was processed before.
LEMMA OnceStep == TypeOK /\ PlaceInv /\ OnceInv /\ [Next]_vars => OnceInv'
<1> SUFFICES ASSUME TypeOK, PlaceInv, OnceInv, [Next]_vars PROVE OnceInv'
  OBVIOUS
<1> USE DEF sync, flags, target, history, Finish
<1>1. ASSUME NEW e \in Events, Post(e) PROVE OnceInv'
  <2>1. /\ Len(timeline') = Len(timeline) + 1
        /\ timeline'[Len(timeline) + 1] = e
        /\ \A p \in 1..Len(timeline) : timeline'[p] = timeline[p]
    BY <1>1 DEF Post, TypeOK
  <2>2. UNCHANGED <<pc, pos, copies, held, processed>>
    BY <1>1 DEF Post
  <2>3. Len(timeline) \in Nat /\ processed \subseteq 1..Len(timeline)
    BY DEF TypeOK
  <2>4. \A m : Done(m) => Done(m)'
    BY <2>1, <2>2, <2>3 DEF Done, IsPost
  <2>5. pc \in {"taken", "send"} => Current' = Current
    BY InHand, <2>1, <2>2 DEF AtWork, Current
  <2>6. Fresh'
    BY <2>2, <2>5 DEF OnceInv, Fresh, Message
  <2>7. e.kind = "message" =>
            \A p \in 1..Len(timeline) : ~(timeline[p].kind = "message" /\ timeline[p].of = e.of)
    BY <1>1 DEF Post, Posted
  <2>8. PostedOnce'
    BY <2>1, <2>3, <2>7 DEF OnceInv, PostedOnce, IsPost
  <2>9. HeldBackForGood' /\ AtMostOnce'
    BY <2>2 DEF OnceInv, HeldBackForGood, AtMostOnce
  <2>10. QED
    BY <2>2, <2>4, <2>6, <2>8, <2>9 DEF OnceInv
<1>2. CASE Sync
  BY <1>2, OnceKept DEF Sync
<1>3. CASE EndBatch
  BY <1>3, OnceKept DEF EndBatch
<1>4. CASE Flush
  BY <1>4, OnceKept DEF Flush
<1>5. CASE Skip
  BY <1>5, OnceKept DEF Skip
<1>6. CASE Take
  <2>1. /\ pos + 1 \notin processed
        /\ processed' = processed \cup {pos + 1} /\ pc' = "taken"
        /\ UNCHANGED <<timeline, pos, copies, held>>
    BY <1>6 DEF Take, Waiting, Ignored
  <2>2. pos + 1 \in 1..Len(timeline) /\ processed \subseteq 1..Len(timeline)
    BY <1>6 DEF Take, Waiting, TypeOK
  <2>3. \A m : Done(m) => Done(m)'
    BY <2>1 DEF Done, IsPost
  <2>4. Current.kind = "message" => ~Done(Message)
    BY <2>1, <2>2 DEF OnceInv, PostedOnce, IsPost, Done, Current, Message
  <2>5. Fresh'
    BY <2>1, <2>4 DEF OnceInv, Fresh, Current, Message
  <2>6. PostedOnce' /\ HeldBackForGood' /\ AtMostOnce'
    BY <2>1 DEF OnceInv, PostedOnce, IsPost, HeldBackForGood, AtMostOnce
  <2>7. QED
    BY <2>1, <2>3, <2>5, <2>6 DEF OnceInv
<1>7. CASE Boot
  <2>1. PlaceInv /\ phase = "down" /\ UNCHANGED <<timeline, processed, copies, held, pc>>
    BY <1>7 DEF Boot, Connect
  <2>2. pc' \notin {"taken", "send"}
    BY <2>1 DEF PlaceInv
  <2>3. QED
    BY <2>1, <2>2, OnceKept
<1>8. CASE Login
  <2>1. PlaceInv /\ phase = "off" /\ UNCHANGED <<timeline, processed, copies, held, pc>>
    BY <1>8 DEF Login, Connect
  <2>2. pc' \notin {"taken", "send"}
    BY <2>1 DEF PlaceInv
  <2>3. QED
    BY <2>1, <2>2, OnceKept
<1>9. CASE Started
  BY <1>9, OnceKept DEF Started
<1>10. CASE StartFails
  BY <1>10, OnceKept DEF StartFails
<1>11. CASE Pause
  BY <1>11, OnceKept DEF Pause
<1>12. CASE Resume
  BY <1>12, OnceKept DEF Resume
<1>13. CASE LogoutBegin
  BY <1>13, OnceKept DEF LogoutBegin, StopSource, Abandon
<1>14. CASE LogoutDone
  BY <1>14, OnceKept DEF LogoutDone
<1>15. CASE Shutdown
  BY <1>15, OnceKept DEF Shutdown, StopSource, Abandon
<1>16. CASE Crash
  BY <1>16, OnceKept DEF Crash, Abandon
<1>17. CASE SaveMessage
  <2>1. /\ Message \notin held /\ (\A i \in 1..Len(copies) : copies[i].of # Message)
        /\ UNCHANGED <<timeline, processed, copies>>
    BY <1>17 DEF SaveMessage, Handling, OnceInv, Fresh
  <2>2. Done(Message)
    BY <1>17 DEF SaveMessage, Handling, PlaceInv, AtWork, Done, IsPost, Current, Message
  <2>3. CASE ForwardingOn /\ ~Current.own
    <3>1. pc' = "send" /\ UNCHANGED <<pos, held>>
      BY <1>17, <2>3 DEF SaveMessage
    <3>2. Fresh'
      BY <2>1, <3>1 DEF Fresh, Current, Message
    <3>3. QED
      BY <2>1, <3>1, <3>2
         DEF OnceInv, PostedOnce, IsPost, Done, HeldBackForGood, AtMostOnce
  <2>4. CASE ~(ForwardingOn /\ ~Current.own)
    <3>1. pc' = "between" /\ held' = held \cup {Message}
      BY <1>17, <2>4 DEF SaveMessage
    <3>2. Fresh' /\ HeldBackForGood'
      BY <2>1, <3>1 DEF OnceInv, Fresh, HeldBackForGood
    <3>3. \A m \in held' : Done(m)'
      BY <2>1, <2>2, <3>1 DEF OnceInv, IsPost, Done
    <3>4. QED
      BY <2>1, <3>2, <3>3 DEF OnceInv, PostedOnce, IsPost, Done, AtMostOnce
  <2>5. QED
    BY <2>3, <2>4
<1>18. CASE SendLands
  <2>1. Message \notin held /\ \A i \in 1..Len(copies) : copies[i].of # Message
    BY <1>18 DEF SendLands, PlaceInv, OnceInv, Fresh
  <2>2. Done(Message)
    BY <1>18 DEF SendLands, PlaceInv, AtWork, Done, IsPost, Current, Message
  <2>3. pc' = "landed" /\ UNCHANGED <<timeline, processed, held>>
    BY <1>18 DEF SendLands
  <2>4. /\ Len(copies) \in Nat /\ Len(copies') = Len(copies) + 1
        /\ copies'[Len(copies) + 1].of = Message
        /\ \A i \in 1..Len(copies) : copies'[i] = copies[i]
    <3>1. Len(copies) \in Nat
      BY DEF TypeOK
    <3>2. PICK c \in Copies : c.of = Message /\ copies' = Append(copies, c)
      BY <1>18, SendLandsCopies
    <3>3. /\ Len(copies') = Len(copies) + 1
          /\ copies'[Len(copies) + 1] = c
          /\ \A i \in 1..Len(copies) : copies'[i] = copies[i]
      BY <3>2, CopyAdded
    <3>4. QED
      BY <3>1, <3>2, <3>3
  <2>5. \A i \in 1..Len(copies') : Done(copies[i].of)'
    BY <2>2, <2>3, <2>4 DEF OnceInv, Done, IsPost
  <2>6. HeldBackForGood'
    BY <2>1, <2>3, <2>4 DEF OnceInv, HeldBackForGood
  <2>7. AtMostOnce'
    BY <2>1, <2>4 DEF OnceInv, AtMostOnce
  <2>8. QED
    BY <2>3, <2>5, <2>6, <2>7 DEF OnceInv, PostedOnce, IsPost, Done, Fresh
<1>19. CASE SendLost
  BY <1>19, OnceKept DEF SendLost
<1>20. CASE SendAnswered
  BY <1>20, OnceKept DEF SendAnswered
<1>21. CASE SendUnanswered
  BY <1>21, OnceKept DEF SendUnanswered
<1>22. CASE SaveEdit
  BY <1>22, OnceKept DEF SaveEdit
<1>23. CASE EditLands
  <2>1. /\ Len(copies') = Len(copies)
        /\ \A i \in 1..Len(copies) : copies'[i].of = copies[i].of
    BY <1>23, EditLandsCopies, CopyUpdated
  <2>2. QED
    BY <1>23, <2>1, OnceKept DEF EditLands
<1>24. CASE EditLost
  BY <1>24, OnceKept DEF EditLost
<1>25. CASE SaveRedaction
  BY <1>25, OnceKept DEF SaveRedaction
<1>26. CASE RedactLands
  <2>1. /\ Len(copies') = Len(copies)
        /\ \A i \in 1..Len(copies) : copies'[i].of = copies[i].of
    BY <1>26, RedactLandsCopies, CopyUpdated
  <2>2. QED
    BY <1>26, <2>1, OnceKept DEF RedactLands
<1>27. CASE RedactAnswered
  BY <1>27, OnceKept DEF RedactAnswered
<1>28. CASE RedactRefused
  BY <1>28, OnceKept DEF RedactRefused
<1>29. CASE RedactRaises
  BY <1>29, OnceKept DEF RedactRaises
<1>30. CASE UNCHANGED vars
  BY <1>30, OnceKept DEF vars
<1>31. QED
  BY <1>1, <1>2, <1>3, <1>4, <1>5, <1>6, <1>7, <1>8, <1>9, <1>10, <1>11, <1>12, <1>13, <1>14, <1>15,
     <1>16, <1>17, <1>18, <1>19, <1>20, <1>21, <1>22, <1>23, <1>24, <1>25, <1>26, <1>27, <1>28, <1>29, <1>30
     DEF Next, HandlerStep

\* No step maps a message to a copy made before the last logout.
LEMMA ForgetStep == TypeOK /\ PlaceInv /\ ForgetInv /\ [Next]_vars => ForgetInv'
<1> SUFFICES ASSUME TypeOK, PlaceInv, ForgetInv, [Next]_vars PROVE ForgetInv'
  OBVIOUS
<1>a. pc \in AtWork => /\ Current \in Events /\ Message \in Messages
                       /\ pos + 1 \in 1..Len(timeline) /\ pos + 1 \in 1..MaxEvents
                       /\ pos + 1 \in 0..next /\ pos \in Nat /\ next \in Nat
  BY InHand
<1> USE ForwardingAssumption DEF TypeOK, PlaceInv, ForgetInv, AtWork, Kinds, Events, Message, Current, sync, flags, target, history, Finish, Handling,
           CutShort, EditMissed, Abandon
<1>1. ASSUME NEW e \in Events, Post(e) PROVE ForgetInv'
  BY <1>1, <1>a DEF Post
<1>2. CASE Sync
  BY <1>2, <1>a DEF Sync
<1>3. CASE EndBatch
  BY <1>3, <1>a DEF EndBatch
<1>4. CASE Flush
  BY <1>4, <1>a DEF Flush
<1>5. CASE Skip
  BY <1>5, <1>a DEF Skip, Waiting
<1>6. CASE Take
  BY <1>6, <1>a DEF Take, Waiting
<1>7. CASE Boot
  BY <1>7, <1>a DEF Boot, Connect, Since
<1>8. CASE Login
  BY <1>8, <1>a DEF Login, Connect, Since
<1>9. CASE Started
  BY <1>9, <1>a DEF Started
<1>10. CASE StartFails
  BY <1>10, <1>a DEF StartFails
<1>11. CASE Pause
  BY <1>11, <1>a DEF Pause
<1>12. CASE Resume
  BY <1>12, <1>a DEF Resume
<1>13. CASE LogoutBegin
  BY <1>13, <1>a DEF LogoutBegin, StopSource
<1>14. CASE LogoutDone
  BY <1>14, <1>a DEF LogoutDone
<1>15. CASE Shutdown
  BY <1>15, <1>a DEF Shutdown, StopSource
<1>16. CASE Crash
  BY <1>16, <1>a DEF Crash
<1>17. CASE SaveMessage
  BY <1>17, <1>a DEF SaveMessage
<1>18. CASE SendLands
  BY <1>18, <1>a DEF SendLands
<1>19. CASE SendLost
  BY <1>19, <1>a DEF SendLost
<1>20. CASE SendAnswered
  BY <1>20, <1>a DEF SendAnswered
<1>21. CASE SendUnanswered
  BY <1>21, <1>a DEF SendUnanswered
<1>22. CASE SaveEdit
  BY <1>22, <1>a DEF SaveEdit
<1>23. CASE EditLands
  BY <1>23, <1>a DEF EditLands
<1>24. CASE EditLost
  BY <1>24, <1>a DEF EditLost
<1>25. CASE SaveRedaction
  BY <1>25, <1>a DEF SaveRedaction
<1>26. CASE RedactLands
  BY <1>26, <1>a DEF RedactLands
<1>27. CASE RedactAnswered
  BY <1>27, <1>a DEF RedactAnswered
<1>28. CASE RedactRefused
  BY <1>28, <1>a DEF RedactRefused
<1>29. CASE RedactRaises
  BY <1>29, <1>a DEF RedactRaises
<1>30. CASE UNCHANGED vars
  BY <1>30 DEF vars
<1>31. QED
  BY <1>1, <1>2, <1>3, <1>4, <1>5, <1>6, <1>7, <1>8, <1>9, <1>10, <1>11, <1>12, <1>13, <1>14, <1>15,
     <1>16, <1>17, <1>18, <1>19, <1>20, <1>21, <1>22, <1>23, <1>24, <1>25, <1>26, <1>27, <1>28, <1>29, <1>30
     DEF Next, HandlerStep

\* No message is posted twice on the target, and what was withheld is never posted, over
\* any number of crashes, shutdowns, pauses and logouts.
THEOREM ForwardedOnce == Spec => [](AtMostOnce /\ HeldBackForGood)
<1>1. Init => OnceInv
  BY DEF Init, OnceInv, PostedOnce, Fresh, HeldBackForGood, AtMostOnce
<1>2. OnceInv => AtMostOnce /\ HeldBackForGood
  BY DEF OnceInv
<1>3. QED
  BY <1>1, <1>2, OnceStep, TypeCorrect, PTL DEF Spec

\* What was saved and withheld, in a pause or in the initial sync of a !login, is never
\* forwarded later, over any number of restarts.
THEOREM WithheldForGood == Spec => []HeldBackForGood
BY ForwardedOnce, PTL

\* The copies made before a logout stay as they are after it.
THEOREM LogoutForgetsForGood == Spec => LogoutForgets
<1>1. Init => ForgetInv
  BY DEF Init, ForgetInv
<1>2. TypeOK /\ PlaceInv /\ ForgetInv /\ [Next]_vars =>
          [\A i \in 1..forgotten : copies'[i] = copies[i]]_vars
  <2> SUFFICES ASSUME TypeOK, PlaceInv, ForgetInv, Next
               PROVE  \A i \in 1..forgotten : copies'[i] = copies[i]
    OBVIOUS
  <2>1. \A i \in 1..forgotten : i \in 1..Len(copies)
    BY DEF TypeOK
  <2>2. CASE SendLands
    BY <2>1, <2>2, SendLandsCopies, CopyAdded
  <2>3. CASE EditLands
    <3>1. map[Message] > forgotten /\ map[Message] \in 1..Len(copies)
      BY <2>3, InHand, EditLandsCopies DEF EditLands, AtWork, PlaceInv, ForgetInv
    <3>2. PICK c \in Copies : c.of = copies[map[Message]].of
                              /\ copies' = [copies EXCEPT ![map[Message]] = c]
      BY <2>3, EditLandsCopies
    <3>3. \A i \in 1..Len(copies) : i # map[Message] => copies'[i] = copies[i]
      BY <3>1, <3>2, CopyUpdated
    <3>4. \A i \in 1..forgotten : i # map[Message]
      BY <3>1 DEF TypeOK
    <3>5. QED
      BY <2>1, <3>3, <3>4
  <2>4. CASE RedactLands
    <3>1. map[Message] > forgotten /\ map[Message] \in 1..Len(copies)
      BY <2>4, InHand, RedactLandsCopies DEF RedactLands, AtWork, PlaceInv, ForgetInv
    <3>2. PICK c \in Copies : c.of = copies[map[Message]].of
                              /\ copies' = [copies EXCEPT ![map[Message]] = c]
      BY <2>4, RedactLandsCopies
    <3>3. \A i \in 1..Len(copies) : i # map[Message] => copies'[i] = copies[i]
      BY <3>1, <3>2, CopyUpdated
    <3>4. \A i \in 1..forgotten : i # map[Message]
      BY <3>1 DEF TypeOK
    <3>5. QED
      BY <2>1, <3>3, <3>4
  <2>5. CASE UNCHANGED copies
    BY <2>5
  <2>6. SendLands \/ EditLands \/ RedactLands \/ UNCHANGED copies
    BY DEF Next, HandlerStep, target, Post, Sync, EndBatch, Flush, Skip, Take, Boot, Login,
           Connect, Started, StartFails, Pause, Resume, LogoutBegin, LogoutDone, Shutdown,
           StopSource, Crash, SaveMessage, SendLost, SendAnswered, SendUnanswered, SaveEdit,
           EditLost, SaveRedaction, RedactAnswered, RedactRefused, RedactRaises
  <2>7. QED
    BY <2>2, <2>3, <2>4, <2>5, <2>6
<1>3. QED
  BY <1>1, <1>2, ForgetStep, TypeCorrect, PTL DEF Spec, LogoutForgets

-----------------------------------------------------------------------------
(* Part 2: Forwarding implements Relay.                                    *)

\* The event at q will not be handled any more.
Seen(q) == q \in processed \/ (timeline[q].kind = "redaction" /\ timeline[q].own)

\* Before a processed event nothing is left to handle, neither for the session that goes
\* on nor for one that starts from the tokens.
OrderInv ==
    /\ dbToken <= next /\ next <= nioToken
    /\ \A p \in processed : \A q \in pos + 1 .. p : Seen(q)
    /\ \A p \in processed : \A q \in Since + 1 .. p : Seen(q)
    /\ \A q \in Since + 1 .. pos : Seen(q)
    /\ pc \in AtWork => \A p \in processed : p <= pos + 1

\* Every text on the target comes from a processed event, and not from the one in hand
\* before that is sent.
TextInv ==
    /\ \A i \in 1..Len(copies) : copies[i].text \in processed
    /\ pc \in {"taken", "send", "edit"} => \A i \in 1..Len(copies) : copies[i].text # pos + 1

\* The map, and the answer to a request that landed, lead to the message's own copy.
MapInv ==
    /\ \A m \in Messages : map[m] # 0 => copies[map[m]].of = m
    /\ pc = "landed" => Len(copies) > 0 /\ copies[Len(copies)].of = Message

\* A step that leaves the tokens alone, and goes past no event that is yet to be handled.
LEMMA OrderKept ==
    ASSUME TypeOK, OrderInv, UNCHANGED <<timeline, dbToken, nioToken, next, processed>>,
           pos' = pos \/ (pos' = pos + 1 /\ Seen(pos + 1)),
           pc' \in AtWork => pc \in AtWork /\ pos' = pos
    PROVE  OrderInv'
<1>1. pos \in Nat /\ Since \in Nat /\ Since' = Since /\ processed \subseteq Nat
  BY DEF TypeOK, Since
<1>2. \A q : Seen(q)' <=> Seen(q)
  BY DEF Seen
<1>3. QED
  BY <1>1, <1>2 DEF OrderInv

\* A step that moves the database's token to the end of the sync in progress.
LEMMA OrderSaved ==
    ASSUME TypeOK, OrderInv, UNCHANGED <<timeline, nioToken, next, pos, processed>>,
           dbToken' = next, pc' \in AtWork => pc' = pc
    PROVE  OrderInv'
<1>1. /\ pos \in Nat /\ next \in Nat /\ dbToken \in Nat /\ nioToken \in Nat
      /\ pos <= next /\ processed \subseteq Nat
  BY DEF TypeOK
<1>2. \A q : Seen(q)' <=> Seen(q)
  BY DEF Seen
<1>3. Since' = next \/ Since' = Since
  BY <1>1 DEF OrderInv, Since
<1>4. QED
  BY <1>1, <1>2, <1>3 DEF OrderInv, Since

\* A session that starts from the tokens.
LEMMA OrderConnect ==
    ASSUME TypeOK, PlaceInv, OrderInv, phase \in {"down", "off"}, Connect
    PROVE  OrderInv'
<1>1. /\ Since \in Nat /\ dbToken \in Nat /\ nioToken \in Nat /\ next \in Nat
      /\ processed \subseteq Nat
  BY DEF TypeOK, Since
<1>2. Since' = Since /\ pos' = Since /\ next' = Since /\ pc' \notin AtWork
  BY DEF Connect, Since, PlaceInv, AtWork
<1>3. \A q : Seen(q)' <=> Seen(q)
  BY DEF Seen, Connect
<1>4. dbToken' <= next' /\ next' <= nioToken'
  BY <1>1, <1>2 DEF OrderInv, Since, Connect
<1>5. UNCHANGED processed
  BY DEF Connect
<1>6. QED
  BY <1>1, <1>2, <1>3, <1>4, <1>5 DEF OrderInv

\* No step leaves an event behind that would be handled later.
LEMMA OrderStep == TypeOK /\ PlaceInv /\ OrderInv /\ [Next]_vars => OrderInv'
<1> SUFFICES ASSUME TypeOK, PlaceInv, OrderInv, [Next]_vars PROVE OrderInv'
  OBVIOUS
<1>a. pc \in AtWork => Seen(pos + 1)
  BY DEF PlaceInv, Seen
<1> USE DEF sync, flags, target, history, Finish, Handling
<1>1. ASSUME NEW e \in Events, Post(e) PROVE OrderInv'
  <2>1. /\ Len(timeline) \in Nat /\ Len(timeline') = Len(timeline) + 1
        /\ \A p \in 1..Len(timeline) : timeline'[p] = timeline[p]
    BY <1>1 DEF Post, TypeOK
  <2>2. UNCHANGED <<dbToken, nioToken, next, pos, pc, processed>> /\ Since' = Since
    BY <1>1 DEF Post, Since
  <2>3. /\ processed \subseteq 1..Len(timeline) /\ pos \in Nat /\ pos <= Len(timeline)
        /\ Since \in Nat
    BY DEF TypeOK, Since
  <2>4. \A q \in 1..Len(timeline) : Seen(q) => Seen(q)'
    BY <2>1, <2>2 DEF Seen
  <2>5. QED
    BY <2>2, <2>3, <2>4 DEF OrderInv
<1>2. CASE Sync
  <2>1. /\ next' = Len(timeline) /\ nioToken' = Len(timeline) /\ pc' = "between"
        /\ UNCHANGED <<timeline, dbToken, pos, processed>>
    BY <1>2 DEF Sync
  <2>2. /\ processed \subseteq 1..Len(timeline) /\ pos \in Nat /\ pos <= Len(timeline)
        /\ dbToken \in Nat /\ dbToken <= Len(timeline) /\ nioToken \in Nat
        /\ Len(timeline) \in Nat
    BY DEF TypeOK
  <2>3. \A q : Seen(q)' <=> Seen(q)
    BY <2>1 DEF Seen
  <2>4. Since' = Since \/ Since' = Len(timeline)
    BY <2>1 DEF Since
  <2>5. "between" \notin AtWork
    BY DEF AtWork
  <2>6. Since \in Nat
    BY <2>2 DEF Since
  <2>7. QED
    BY <2>1, <2>2, <2>3, <2>4, <2>5, <2>6 DEF OrderInv
<1>3. CASE EndBatch
  BY <1>3, OrderSaved DEF EndBatch, AtWork
<1>4. CASE Flush
  BY <1>4, OrderSaved DEF Flush
<1>5. CASE Skip
  <2>1. Seen(pos + 1)
    BY <1>5 DEF Skip, Ignored, Seen, Current
  <2>2. QED
    BY <1>5, <2>1, OrderKept DEF Skip, AtWork
<1>6. CASE Take
  <2>1. /\ processed' = processed \cup {pos + 1} /\ pc' = "taken"
        /\ UNCHANGED <<timeline, dbToken, nioToken, next, pos>>
    BY <1>6 DEF Take
  <2>2. pos \in Nat /\ Since \in Nat /\ Since' = Since /\ processed \subseteq Nat
    BY <2>1 DEF TypeOK, Since
  <2>3. ~Seen(pos + 1)
    BY <1>6 DEF Take, Ignored, Seen, Current
  <2>4. \A p \in processed : p <= pos + 1
    BY <2>2, <2>3 DEF OrderInv
  <2>5. \A q : Seen(q) \/ q = pos + 1 => Seen(q)'
    BY <2>1 DEF Seen
  <2>6. QED
    BY <2>1, <2>2, <2>4, <2>5 DEF OrderInv
<1>7. CASE Boot
  <2>1. CASE enabled
    BY <1>7, <2>1, OrderConnect DEF Boot
  <2>2. CASE ~enabled
    BY <1>7, <2>2, OrderKept DEF Boot
  <2>3. QED
    BY <2>1, <2>2
<1>8. CASE Login
  BY <1>8, OrderConnect DEF Login
<1>9. CASE Started
  BY <1>9, OrderKept DEF Started
<1>10. CASE StartFails
  BY <1>10, OrderKept DEF StartFails
<1>11. CASE Pause
  BY <1>11, OrderKept DEF Pause
<1>12. CASE Resume
  BY <1>12, OrderKept DEF Resume
<1>13. CASE LogoutBegin
  BY <1>13, OrderSaved DEF LogoutBegin, StopSource, Abandon, AtWork
<1>14. CASE LogoutDone
  BY <1>14, OrderKept DEF LogoutDone
<1>15. CASE Shutdown
  BY <1>15, OrderSaved DEF Shutdown, StopSource, Abandon, AtWork
<1>16. CASE Crash
  BY <1>16, OrderKept DEF Crash, Abandon, AtWork
<1>17. CASE SaveMessage
  BY <1>17, <1>a, OrderKept DEF SaveMessage, AtWork
<1>18. CASE SendLands
  BY <1>18, <1>a, OrderKept DEF SendLands, AtWork
<1>19. CASE SendLost
  BY <1>19, <1>a, OrderKept DEF SendLost, AtWork
<1>20. CASE SendAnswered
  BY <1>20, <1>a, OrderKept DEF SendAnswered, AtWork
<1>21. CASE SendUnanswered
  BY <1>21, <1>a, OrderKept DEF SendUnanswered, AtWork
<1>22. CASE SaveEdit
  BY <1>22, <1>a, OrderKept DEF SaveEdit, AtWork
<1>23. CASE EditLands
  BY <1>23, <1>a, OrderKept DEF EditLands, AtWork
<1>24. CASE EditLost
  BY <1>24, <1>a, OrderKept DEF EditLost, AtWork
<1>25. CASE SaveRedaction
  BY <1>25, <1>a, OrderKept DEF SaveRedaction, AtWork
<1>26. CASE RedactLands
  BY <1>26, <1>a, OrderKept DEF RedactLands, AtWork
<1>27. CASE RedactAnswered
  BY <1>27, <1>a, OrderKept DEF RedactAnswered, AtWork
<1>28. CASE RedactRefused
  BY <1>28, <1>a, OrderKept DEF RedactRefused, AtWork
<1>29. CASE RedactRaises
  BY <1>29, <1>a, OrderKept DEF RedactRaises, AtWork
<1>30. CASE UNCHANGED vars
  BY <1>30, OrderKept DEF vars
<1>31. QED
  BY <1>1, <1>2, <1>3, <1>4, <1>5, <1>6, <1>7, <1>8, <1>9, <1>10, <1>11, <1>12, <1>13,
     <1>14, <1>15, <1>16, <1>17, <1>18, <1>19, <1>20, <1>21, <1>22, <1>23, <1>24, <1>25,
     <1>26, <1>27, <1>28, <1>29, <1>30
     DEF Next, HandlerStep

\* A step that changes no text, and sends nothing anew.
LEMMA TextKept ==
    ASSUME TextInv, processed \subseteq processed', Len(copies') = Len(copies),
           \A i \in 1..Len(copies) : copies'[i].text = copies[i].text,
           pc' \in {"taken", "send", "edit"} =>
               pc \in {"taken", "send", "edit"} /\ pos' = pos
    PROVE  TextInv'
BY DEF TextInv

\* No step posts a text but that of the event in hand.
LEMMA TextStep == TypeOK /\ PlaceInv /\ TextInv /\ [Next]_vars => TextInv'
<1> SUFFICES ASSUME TypeOK, PlaceInv, TextInv, [Next]_vars PROVE TextInv'
  OBVIOUS
<1> USE DEF sync, flags, target, history, Finish, Handling
<1>1. ASSUME NEW e \in Events, Post(e) PROVE TextInv'
  BY <1>1, TextKept DEF Post
<1>2. CASE Sync
  BY <1>2, TextKept DEF Sync
<1>3. CASE EndBatch
  BY <1>3, TextKept DEF EndBatch
<1>4. CASE Flush
  BY <1>4, TextKept DEF Flush
<1>5. CASE Skip
  BY <1>5, TextKept DEF Skip
<1>6. CASE Take
  <2>1. /\ pos + 1 \notin processed /\ processed \subseteq processed'
        /\ UNCHANGED <<pos, copies>>
    BY <1>6 DEF Take, Ignored
  <2>2. QED
    BY <2>1 DEF TextInv
<1>7. CASE Boot
  BY <1>7, TextKept DEF Boot, Connect, PlaceInv
<1>8. CASE Login
  BY <1>8, TextKept DEF Login, Connect, PlaceInv
<1>9. CASE Started
  BY <1>9, TextKept DEF Started
<1>10. CASE StartFails
  BY <1>10, TextKept DEF StartFails
<1>11. CASE Pause
  BY <1>11, TextKept DEF Pause
<1>12. CASE Resume
  BY <1>12, TextKept DEF Resume
<1>13. CASE LogoutBegin
  BY <1>13, TextKept DEF LogoutBegin, StopSource, Abandon
<1>14. CASE LogoutDone
  BY <1>14, TextKept DEF LogoutDone
<1>15. CASE Shutdown
  BY <1>15, TextKept DEF Shutdown, StopSource, Abandon
<1>16. CASE Crash
  BY <1>16, TextKept DEF Crash, Abandon
<1>17. CASE SaveMessage
  BY <1>17, TextKept DEF SaveMessage
<1>18. CASE SendLands
  <2>1. pos + 1 \in processed /\ UNCHANGED processed /\ pc' = "landed"
    BY <1>18 DEF SendLands, PlaceInv, AtWork
  <2>2. /\ Len(copies) \in Nat /\ Len(copies') = Len(copies) + 1
        /\ copies'[Len(copies) + 1].text = pos + 1
        /\ \A i \in 1..Len(copies) : copies'[i] = copies[i]
    BY <1>18 DEF SendLands, TypeOK
  <2>3. QED
    BY <2>1, <2>2 DEF TextInv
<1>19. CASE SendLost
  BY <1>19, TextKept DEF SendLost
<1>20. CASE SendAnswered
  BY <1>20, TextKept DEF SendAnswered
<1>21. CASE SendUnanswered
  BY <1>21, TextKept DEF SendUnanswered
<1>22. CASE SaveEdit
  BY <1>22, TextKept DEF SaveEdit
<1>23. CASE EditLands
  <2>1. pos + 1 \in processed /\ UNCHANGED processed /\ pc' = "between"
    BY <1>23 DEF EditLands, PlaceInv, AtWork
  <2>2. /\ Len(copies') = Len(copies)
        /\ \A i \in 1..Len(copies) : copies'[i].text \in {copies[i].text, pos + 1}
    BY <1>23 DEF EditLands, TypeOK
  <2>3. QED
    BY <2>1, <2>2 DEF TextInv
<1>24. CASE EditLost
  BY <1>24, TextKept DEF EditLost
<1>25. CASE SaveRedaction
  BY <1>25, TextKept DEF SaveRedaction
<1>26. CASE RedactLands
  <2>1. /\ Len(copies') = Len(copies)
        /\ \A i \in 1..Len(copies) : copies'[i].text = copies[i].text
    <3>1. copies \in Seq(Copies) /\ \A c \in Copies : [c EXCEPT !.redacted = TRUE].text = c.text
      BY DEF TypeOK, Copies
    <3>2. copies' = [copies EXCEPT ![map[Message]] = [copies[map[Message]] EXCEPT !.redacted = TRUE]]
      BY <1>26 DEF RedactLands
    <3>3. QED
      BY <3>1, <3>2
  <2>2. QED
    BY <1>26, <2>1, TextKept DEF RedactLands
<1>27. CASE RedactAnswered
  BY <1>27, TextKept DEF RedactAnswered
<1>28. CASE RedactRefused
  BY <1>28, TextKept DEF RedactRefused
<1>29. CASE RedactRaises
  BY <1>29, TextKept DEF RedactRaises
<1>30. CASE UNCHANGED vars
  BY <1>30, TextKept DEF vars
<1>31. QED
  BY <1>1, <1>2, <1>3, <1>4, <1>5, <1>6, <1>7, <1>8, <1>9, <1>10, <1>11, <1>12, <1>13,
     <1>14, <1>15, <1>16, <1>17, <1>18, <1>19, <1>20, <1>21, <1>22, <1>23, <1>24, <1>25,
     <1>26, <1>27, <1>28, <1>29, <1>30
     DEF Next, HandlerStep

\* A step that keeps what the copies are of, and adds nothing to the map.
LEMMA MapKept ==
    ASSUME TypeOK, MapInv, Len(copies') = Len(copies),
           \A i \in 1..Len(copies) : copies'[i].of = copies[i].of,
           \A m \in Messages : map'[m] \in {0, map[m]},
           pc' = "landed" => pc = "landed" /\ Message' = Message
    PROVE  MapInv'
<1>1. Len(copies) \in Nat /\ \A m \in Messages : map[m] \in 0..Len(copies)
  BY DEF TypeOK
<1>2. QED
  BY <1>1 DEF MapInv

\* No step maps a message to another one's copy.
LEMMA MapStep == TypeOK /\ PlaceInv /\ MapInv /\ [Next]_vars => MapInv'
<1> SUFFICES ASSUME TypeOK, PlaceInv, MapInv, [Next]_vars PROVE MapInv'
  OBVIOUS
<1>a. map \in [Messages -> 0..Len(copies)] /\ Len(copies) \in Nat
  BY DEF TypeOK
<1> USE DEF sync, flags, target, history, Finish, Handling
<1>1. ASSUME NEW e \in Events, Post(e) PROVE MapInv'
  <2>1. UNCHANGED <<pc, pos, copies, map>>
    BY <1>1 DEF Post
  <2>2. pc = "landed" => Current' = Current
    BY <1>1, InHand, <2>1 DEF AtWork, Current, Post, TypeOK
  <2>3. QED
    BY <2>1, <2>2, MapKept DEF Message
<1>2. CASE Sync
  BY <1>2, MapKept DEF Sync, Message, Current
<1>3. CASE EndBatch
  BY <1>3, MapKept DEF EndBatch, Message, Current
<1>4. CASE Flush
  BY <1>4, MapKept DEF Flush, Message, Current
<1>5. CASE Skip
  BY <1>5, MapKept DEF Skip, Message, Current
<1>6. CASE Take
  BY <1>6, MapKept DEF Take, Message, Current
<1>7. CASE Boot
  BY <1>7, MapKept DEF Boot, Connect, PlaceInv
<1>8. CASE Login
  BY <1>8, MapKept DEF Login, Connect, PlaceInv
<1>9. CASE Started
  BY <1>9, MapKept DEF Started, Message, Current
<1>10. CASE StartFails
  BY <1>10, MapKept DEF StartFails, Message, Current
<1>11. CASE Pause
  BY <1>11, MapKept DEF Pause, Message, Current
<1>12. CASE Resume
  BY <1>12, MapKept DEF Resume, Message, Current
<1>13. CASE LogoutBegin
  BY <1>13, MapKept DEF LogoutBegin, StopSource, Abandon, Message, Current
<1>14. CASE LogoutDone
  <2>1. UNCHANGED <<pc, pos, timeline, copies>> /\ \A m \in Messages : map'[m] = 0
    BY <1>14 DEF LogoutDone
  <2>2. QED
    BY <2>1, MapKept DEF Message, Current
<1>15. CASE Shutdown
  BY <1>15, MapKept DEF Shutdown, StopSource, Abandon, Message, Current
<1>16. CASE Crash
  BY <1>16, MapKept DEF Crash, Abandon, Message, Current
<1>17. CASE SaveMessage
  BY <1>17, MapKept DEF SaveMessage, Message, Current
<1>18. CASE SendLands
  <2>1. /\ pc' = "landed" /\ map' = map /\ Message' = Message
    BY <1>18 DEF SendLands, Message, Current
  <2>2. /\ Len(copies') = Len(copies) + 1
        /\ copies'[Len(copies) + 1].of = Message
        /\ \A i \in 1..Len(copies) : copies'[i] = copies[i]
    BY <1>18 DEF SendLands, TypeOK
  <2>3. QED
    BY <1>a, <2>1, <2>2 DEF MapInv
<1>19. CASE SendLost
  BY <1>19, MapKept DEF SendLost, Message, Current
<1>20. CASE SendAnswered
  <2>1. pc' = "between" /\ copies' = copies /\ map' = [map EXCEPT ![Message] = Len(copies)]
    BY <1>20 DEF SendAnswered
  <2>2. copies[Len(copies)].of = Message
    BY <1>20 DEF SendAnswered, MapInv
  <2>3. QED
    BY <1>a, <2>1, <2>2 DEF MapInv
<1>21. CASE SendUnanswered
  BY <1>21, MapKept DEF SendUnanswered, Message, Current
<1>22. CASE SaveEdit
  BY <1>22, MapKept DEF SaveEdit, Message, Current
<1>23. CASE EditLands
  <2>1. /\ Len(copies') = Len(copies)
        /\ \A i \in 1..Len(copies) : copies'[i].of = copies[i].of
    BY <1>23, EditLandsCopies, CopyUpdated
  <2>2. QED
    BY <1>23, <2>1, MapKept DEF EditLands
<1>24. CASE EditLost
  BY <1>24, MapKept DEF EditLost, Message, Current
<1>25. CASE SaveRedaction
  BY <1>25, MapKept DEF SaveRedaction, Message, Current
<1>26. CASE RedactLands
  <2>1. /\ Len(copies') = Len(copies)
        /\ \A i \in 1..Len(copies) : copies'[i].of = copies[i].of
    BY <1>26, RedactLandsCopies, CopyUpdated
  <2>2. QED
    BY <1>26, <2>1, MapKept DEF RedactLands
<1>27. CASE RedactAnswered
  BY <1>27, <1>a, MapKept DEF RedactAnswered
<1>28. CASE RedactRefused
  BY <1>28, <1>a, MapKept DEF RedactRefused
<1>29. CASE RedactRaises
  BY <1>29, MapKept DEF RedactRaises, Message, Current
<1>30. CASE UNCHANGED vars
  BY <1>30, MapKept DEF vars, Message, Current
<1>31. QED
  BY <1>1, <1>2, <1>3, <1>4, <1>5, <1>6, <1>7, <1>8, <1>9, <1>10, <1>11, <1>12, <1>13,
     <1>14, <1>15, <1>16, <1>17, <1>18, <1>19, <1>20, <1>21, <1>22, <1>23, <1>24, <1>25,
     <1>26, <1>27, <1>28, <1>29, <1>30
     DEF Next, HandlerStep

\* A copy is the one that is chosen for its message, if no message has two.
LEMMA OnlyCopy ==
    ASSUME NEW s, NEW m, NEW i \in 1..Len(s), s[i].of = m,
           \A j, k \in 1..Len(s) : s[j].of = s[k].of => j = k
    PROVE  s[CHOOSE j \in 1..Len(s) : s[j].of = m] = s[i]
<1> DEFINE c == CHOOSE j \in 1..Len(s) : s[j].of = m
<1>1. c \in 1..Len(s) /\ s[c].of = m
  OBVIOUS
<1>2. c = i
  BY <1>1
<1>3. QED
  BY <1>2

\* What Relay sees of a message that has a copy.
LEMMA Views ==
    ASSUME AtMostOnce, NEW m, NEW i \in 1..Len(copies), copies[i].of = m
    PROVE  Relayed(m) /\ CopyOf(m) = copies[i]
BY OnlyCopy DEF AtMostOnce, Relayed, CopyOf

\* The same after a step.
LEMMA ViewsAfter ==
    ASSUME AtMostOnce', NEW m, NEW i \in 1..Len(copies'), copies'[i].of = m
    PROVE  Relayed(m)' /\ CopyOf(m)' = copies'[i]
BY OnlyCopy DEF AtMostOnce, Relayed, CopyOf

\* The text of a message is that of its copy, which is never 0.
LEMMA TextOfRelayed ==
    ASSUME TypeOK, NEW m \in Messages
    PROVE  textOf[m] # 0 <=> Relayed(m)
<1>1. textOf[m] = IF Relayed(m) THEN CopyOf(m).text ELSE 0
  BY DEF textOf
<1>2. ASSUME Relayed(m) PROVE CopyOf(m).text # 0
  <2>1. PICK i \in 1..Len(copies) : CopyOf(m) = copies[i]
    BY <1>2 DEF Relayed, CopyOf
  <2>2. QED
    BY <2>1, CopiesTyped DEF Copies
<1>3. QED
  BY <1>1, <1>2

\* A copy that changes in place changes the view of its message alone.
LEMMA OneViewChanges ==
    ASSUME AtMostOnce, AtMostOnce', NEW k \in 1..Len(copies),
           Len(copies') = Len(copies),
           \A i \in 1..Len(copies) : copies'[i].of = copies[i].of,
           \A i \in 1..Len(copies) : i # k => copies'[i] = copies[i]
    PROVE  \A m : /\ Relayed(m)' <=> Relayed(m)
                  /\ Relayed(m) /\ m # copies[k].of => CopyOf(m)' = CopyOf(m)
<1> TAKE m
<1>1. Relayed(m)' <=> Relayed(m)
  BY DEF Relayed
<1>2. ASSUME Relayed(m), m # copies[k].of PROVE CopyOf(m)' = CopyOf(m)
  <2>1. PICK i \in 1..Len(copies) : copies[i].of = m
    BY <1>2 DEF Relayed
  <2>2. CopyOf(m) = copies[i]
    BY <2>1, Views
  <2>3. CopyOf(m)' = copies'[i]
    BY <2>1, ViewsAfter
  <2>4. QED
    BY <1>2, <2>1, <2>2, <2>3
<1>3. QED
  BY <1>1, <1>2

\* What is in the hand of a handler that edits or redacts: a copy of its message that was
\* made since the last logout.
LEMMA CopyInHand ==
    ASSUME TypeOK, PlaceInv, OnceInv, ForgetInv, MapInv, pc \in {"edit", "redact"}
    PROVE  /\ Message \in Messages /\ map[Message] \in 1..Len(copies)
           /\ copies[map[Message]].of = Message
           /\ Relayed(Message) /\ CopyOf(Message) = copies[map[Message]]
           /\ Message \notin sealedCopies
<1>1. Message \in Messages
  BY InHand DEF AtWork
<1>2. map[Message] \in 1..Len(copies) /\ map[Message] > forgotten
  BY <1>1 DEF TypeOK, PlaceInv, ForgetInv
<1>3. copies[map[Message]].of = Message
  BY <1>1, <1>2 DEF MapInv
<1>4. Relayed(Message) /\ CopyOf(Message) = copies[map[Message]]
  BY <1>2, <1>3, Views DEF OnceInv
<1>5. \A i \in 1..forgotten : i \in 1..Len(copies) /\ i # map[Message]
  BY <1>2 DEF TypeOK
<1>6. Message \notin sealedCopies
  BY <1>2, <1>3, <1>5 DEF sealedCopies, OnceInv, AtMostOnce
<1>7. QED
  BY <1>1, <1>2, <1>3, <1>4, <1>6

\* A copy that lands is a Post of the abstract specification.
LEMMA SendPosts ==
    ASSUME TypeOK, PlaceInv, OnceInv, OnceInv', SendLands
    PROVE  Promise!Next
<1>0. PICK M : M = Message
  OBVIOUS
<1>1. Message \in Messages /\ pos + 1 \in 1..MaxEvents
  BY InHand DEF SendLands, AtWork
<1>2. Message \notin held /\ ~Relayed(Message)
  BY DEF SendLands, PlaceInv, OnceInv, Fresh, Relayed
<1>3. PICK c \in Copies : c = [of |-> Message, text |-> pos + 1, redacted |-> FALSE]
                          /\ copies' = Append(copies, c)
  BY <1>1 DEF SendLands, Copies
<1>4. /\ Len(copies) \in Nat /\ Len(copies') = Len(copies) + 1
      /\ copies'[Len(copies) + 1] = c
      /\ \A i \in 1..Len(copies) : copies'[i] = copies[i]
  BY <1>3, CopyAdded DEF TypeOK
<1>5. Relayed(M)' /\ CopyOf(M)' = c
  <2>1. Len(copies) + 1 \in 1..Len(copies') /\ copies'[Len(copies) + 1].of = M
    BY <1>0, <1>3, <1>4
  <2>2. AtMostOnce'
    BY DEF OnceInv
  <2>3. QED
    BY <1>4, <2>1, <2>2, ViewsAfter
<1>6. ASSUME NEW m \in Messages, m # Message
      PROVE  (Relayed(m)' <=> Relayed(m)) /\ (Relayed(m) => CopyOf(m)' = CopyOf(m))
  <2>1. Relayed(m)' <=> Relayed(m)
    BY <1>3, <1>4, <1>6 DEF Relayed
  <2>2. ASSUME Relayed(m) PROVE CopyOf(m)' = CopyOf(m)
    <3>1. PICK i \in 1..Len(copies) : copies[i].of = m
      BY <2>2 DEF Relayed
    <3>2. CopyOf(m) = copies[i]
      BY <3>1, Views DEF OnceInv
    <3>3. i \in 1..Len(copies') /\ copies'[i].of = m /\ copies'[i] = copies[i]
      BY <1>4, <3>1
    <3>4. CopyOf(m)' = copies'[i]
      BY <3>3, ViewsAfter DEF OnceInv
    <3>5. QED
      BY <3>2, <3>3, <3>4
  <2>3. QED
    BY <2>1, <2>2
<1>7. textOf' = [textOf EXCEPT ![Message] = pos + 1]
  <2>1. textOf'[Message] = pos + 1
    BY <1>0, <1>1, <1>3, <1>5 DEF textOf
  <2>2. \A m \in Messages : m # Message => textOf'[m] = textOf[m]
    BY <1>6 DEF textOf
  <2>3. QED
    BY <1>1, <2>1, <2>2 DEF textOf
<1>8. redactedCopies' = redactedCopies
  <2>1. Message \notin redactedCopies /\ Message \notin redactedCopies'
    BY <1>0, <1>1, <1>2, <1>3, <1>5 DEF redactedCopies
  <2>2. \A m \in Messages : m # Message => (m \in redactedCopies' <=> m \in redactedCopies)
    BY <1>6 DEF redactedCopies
  <2>3. QED
    BY <2>1, <2>2 DEF redactedCopies
<1>9. sealedCopies' = sealedCopies /\ held' = held
  <2>1. forgotten' = forgotten /\ held' = held
    BY DEF SendLands, history
  <2>2. \A i \in 1..forgotten : i \in 1..Len(copies)
    BY DEF TypeOK
  <2>3. QED
    BY <1>4, <2>1, <2>2 DEF sealedCopies
<1>10. textOf[Message] = 0
  BY <1>0, <1>1, <1>2 DEF textOf
<1>11. Promise!Post(Message, pos + 1)
  BY <1>2, <1>7, <1>8, <1>9, <1>10 DEF Promise!Post, Promise!Relayed
<1>12. QED
  BY <1>1, <1>11 DEF Promise!Next

\* An edit that lands is an Edit to a newer text.
LEMMA EditEdits ==
    ASSUME TypeOK, PlaceInv, OnceInv, OnceInv', ForgetInv, OrderInv, TextInv, MapInv, EditLands
    PROVE  Promise!Next
<1>0. PICK M : M = Message
  OBVIOUS
<1> DEFINE k == map[Message]
<1>1. /\ Message \in Messages /\ k \in 1..Len(copies) /\ copies[k].of = Message
      /\ Relayed(Message) /\ CopyOf(Message) = copies[k] /\ Message \notin sealedCopies
  BY CopyInHand DEF EditLands
<1>2. pos + 1 \in 1..MaxEvents /\ pos + 1 \in Nat
  BY InHand DEF EditLands, AtWork
<1>3. pos + 1 > copies[k].text
  <2>1. copies[k].text \in processed /\ copies[k].text # pos + 1
    BY <1>1 DEF TextInv, EditLands
  <2>2. processed \subseteq Nat /\ \A p \in processed : p <= pos + 1
    BY DEF OrderInv, EditLands, AtWork, TypeOK
  <2>3. \A p \in processed : p # pos + 1 => pos + 1 > p
    BY <1>2, <2>2
  <2>4. QED
    BY <2>1, <2>3
<1> DEFINE c == [copies[k] EXCEPT !.text = pos + 1]
<1>4. c \in Copies /\ c.of = copies[k].of /\ c.text = pos + 1 /\ c.redacted = copies[k].redacted
  BY <1>1, <1>2, CopiesTyped DEF Copies
<1>5. copies' = [copies EXCEPT ![k] = c]
  BY DEF EditLands
<1> HIDE DEF k, c
<1>6. /\ Len(copies') = Len(copies) /\ copies'[k] = c
      /\ \A i \in 1..Len(copies) : copies'[i].of = copies[i].of
      /\ \A i \in 1..Len(copies) : i # k => copies'[i] = copies[i]
  BY <1>1, <1>4, <1>5, CopyUpdated
<1>7. \A m : /\ Relayed(m)' <=> Relayed(m)
             /\ Relayed(m) /\ m # Message => CopyOf(m)' = CopyOf(m)
  BY <1>1, <1>6, OneViewChanges DEF OnceInv
<1>8. Relayed(M)' /\ CopyOf(M)' = c
  <2>1. k \in 1..Len(copies') /\ copies'[k].of = M
    BY <1>0, <1>1, <1>6
  <2>2. QED
    BY <1>6, <2>1, ViewsAfter DEF OnceInv
<1>9. textOf' = [textOf EXCEPT ![Message] = pos + 1]
  <2>1. textOf'[Message] = pos + 1
    BY <1>0, <1>1, <1>4, <1>8 DEF textOf
  <2>2. \A m \in Messages : m # Message => textOf'[m] = textOf[m]
    BY <1>7 DEF textOf
  <2>3. QED
    BY <1>1, <2>1, <2>2 DEF textOf
<1>10. redactedCopies' = redactedCopies
  <2>1. Message \in redactedCopies' <=> Message \in redactedCopies
    BY <1>0, <1>1, <1>4, <1>8 DEF redactedCopies
  <2>2. \A m \in Messages : m # Message => (m \in redactedCopies' <=> m \in redactedCopies)
    BY <1>7 DEF redactedCopies
  <2>3. QED
    BY <2>1, <2>2 DEF redactedCopies
<1>11. sealedCopies' = sealedCopies /\ held' = held
  <2>1. forgotten' = forgotten /\ held' = held
    BY DEF EditLands, history
  <2>2. \A i \in 1..forgotten : copies'[i].of = copies[i].of
    BY <1>6 DEF TypeOK
  <2>3. QED
    BY <2>1, <2>2 DEF sealedCopies
<1>12. textOf[Message] # 0 /\ pos + 1 > textOf[Message]
  BY <1>1, <1>3, TextOfRelayed DEF textOf
<1>13. Promise!Edit(Message, pos + 1)
  BY <1>1, <1>9, <1>10, <1>11, <1>12 DEF Promise!Edit, Promise!Relayed
<1>14. QED
  BY <1>1, <1>2, <1>13 DEF Promise!Next

\* A redaction that lands is a Redact.
LEMMA RedactRedacts ==
    ASSUME TypeOK, PlaceInv, OnceInv, OnceInv', ForgetInv, MapInv, RedactLands
    PROVE  Promise!Next
<1>0. PICK M : M = Message
  OBVIOUS
<1> DEFINE k == map[Message]
<1>1. /\ Message \in Messages /\ k \in 1..Len(copies) /\ copies[k].of = Message
      /\ Relayed(Message) /\ CopyOf(Message) = copies[k] /\ Message \notin sealedCopies
  BY CopyInHand DEF RedactLands
<1> DEFINE c == [copies[k] EXCEPT !.redacted = TRUE]
<1>2. c \in Copies /\ c.of = copies[k].of /\ c.text = copies[k].text /\ c.redacted = TRUE
  BY <1>1, CopiesTyped DEF Copies
<1>3. copies' = [copies EXCEPT ![k] = c]
  BY DEF RedactLands
<1> HIDE DEF k, c
<1>4. /\ Len(copies') = Len(copies) /\ copies'[k] = c
      /\ \A i \in 1..Len(copies) : copies'[i].of = copies[i].of
      /\ \A i \in 1..Len(copies) : i # k => copies'[i] = copies[i]
  BY <1>1, <1>2, <1>3, CopyUpdated
<1>5. \A m : /\ Relayed(m)' <=> Relayed(m)
             /\ Relayed(m) /\ m # Message => CopyOf(m)' = CopyOf(m)
  BY <1>1, <1>4, OneViewChanges DEF OnceInv
<1>6. Relayed(M)' /\ CopyOf(M)' = c
  <2>1. k \in 1..Len(copies') /\ copies'[k].of = M
    BY <1>0, <1>1, <1>4
  <2>2. QED
    BY <1>4, <2>1, ViewsAfter DEF OnceInv
<1>7. textOf' = textOf
  <2>1. textOf'[Message] = textOf[Message]
    BY <1>0, <1>1, <1>2, <1>6 DEF textOf
  <2>2. \A m \in Messages : m # Message => textOf'[m] = textOf[m]
    BY <1>5 DEF textOf
  <2>3. QED
    BY <2>1, <2>2 DEF textOf
<1>8. redactedCopies' = redactedCopies \cup {Message}
  <2>1. Message \in redactedCopies'
    BY <1>0, <1>1, <1>2, <1>6 DEF redactedCopies
  <2>2. \A m \in Messages : m # Message => (m \in redactedCopies' <=> m \in redactedCopies)
    BY <1>5 DEF redactedCopies
  <2>3. QED
    BY <1>1, <2>1, <2>2 DEF redactedCopies
<1>9. sealedCopies' = sealedCopies /\ held' = held
  <2>1. forgotten' = forgotten /\ held' = held
    BY DEF RedactLands, history
  <2>2. \A i \in 1..forgotten : copies'[i].of = copies[i].of
    BY <1>4 DEF TypeOK
  <2>3. QED
    BY <2>1, <2>2 DEF sealedCopies
<1>10. Promise!Redact(Message)
  BY <1>1, <1>7, <1>8, <1>9, TextOfRelayed DEF Promise!Redact, Promise!Relayed
<1>11. QED
  BY <1>1, <1>10 DEF Promise!Next

\* The end of a logout is a Seal.
LEMMA LogoutSeals ==
    ASSUME TypeOK, LogoutDone
    PROVE  Promise!Next
<1>1. forgotten' = Len(copies) /\ UNCHANGED <<copies, held>>
  BY DEF LogoutDone
<1>2. textOf' = textOf /\ redactedCopies' = redactedCopies
  BY <1>1 DEF textOf, redactedCopies, Relayed, CopyOf
<1>3. sealedCopies' = {m \in Messages : Relayed(m)}
  BY <1>1 DEF sealedCopies, Relayed
<1>4. sealedCopies' = {m \in Messages : textOf[m] # 0}
  BY <1>3, TextOfRelayed
<1>5. Promise!Seal
  BY <1>1, <1>2, <1>4 DEF Promise!Seal, Promise!Relayed
<1>6. QED
  BY <1>5 DEF Promise!Next

\* A message that is saved and not sent is withheld.
LEMMA SaveWithholds ==
    ASSUME TypeOK, PlaceInv, OnceInv, SaveMessage
    PROVE  Promise!Next \/ UNCHANGED <<textOf, redactedCopies, held, sealedCopies>>
<1>1. Message \in Messages /\ ~Relayed(Message)
  BY InHand DEF SaveMessage, Handling, AtWork, OnceInv, Fresh, Relayed
<1>2. UNCHANGED <<copies, forgotten>>
  BY DEF SaveMessage, target
<1>3. UNCHANGED <<textOf, redactedCopies, sealedCopies>>
  BY <1>2 DEF textOf, redactedCopies, sealedCopies, Relayed, CopyOf
<1>4. held' = held \/ held' = held \cup {Message}
  BY DEF SaveMessage, Finish
<1>5. textOf[Message] = 0
  BY <1>1 DEF textOf
<1>6. CASE held' = held \cup {Message}
  BY <1>1, <1>3, <1>5, <1>6 DEF Promise!Withhold, Promise!Relayed, Promise!Next
<1>7. QED
  BY <1>3, <1>4, <1>6

\* The bridge keeps its promise: every behaviour of Forwarding is one of Relay, seen from
\* the target, whatever is lost, stopped or synced again on the way.
THEOREM ForwardingImplementsRelay == Spec => KeepsPromise
<1> DEFINE Inv == TypeOK /\ PlaceInv /\ OnceInv /\ ForgetInv /\ OrderInv /\ TextInv /\ MapInv
           view == <<textOf, redactedCopies, held, sealedCopies>>
<1>1. Init => OnceInv /\ ForgetInv /\ OrderInv /\ TextInv /\ MapInv
  BY DEF Init, OnceInv, PostedOnce, Fresh, HeldBackForGood, AtMostOnce, ForgetInv, OrderInv,
         Since, AtWork, TextInv, MapInv
<1>2. Init => Promise!Init
  BY DEF Init, Promise!Init, textOf, redactedCopies, sealedCopies, Relayed
<1>3. Inv /\ OnceInv' /\ [Next]_vars => [Promise!Next]_view
  <2> SUFFICES ASSUME Inv, OnceInv', [Next]_vars PROVE Promise!Next \/ UNCHANGED view
    OBVIOUS
  <2>1. CASE SendLands
    BY <2>1, SendPosts
  <2>2. CASE EditLands
    BY <2>2, EditEdits
  <2>3. CASE RedactLands
    BY <2>3, RedactRedacts
  <2>4. CASE LogoutDone
    BY <2>4, LogoutSeals
  <2>5. CASE SaveMessage
    BY <2>5, SaveWithholds
  <2>6. CASE UNCHANGED <<copies, held, forgotten>>
    BY <2>6 DEF textOf, redactedCopies, sealedCopies, Relayed, CopyOf
  <2>7. \/ SendLands \/ EditLands \/ RedactLands \/ LogoutDone \/ SaveMessage
        \/ UNCHANGED <<copies, held, forgotten>>
    BY DEF Next, HandlerStep, vars, target, history, CutShort, EditMissed, Abandon, Post, Sync,
           EndBatch, Flush, Skip, Take, Boot, Login, Connect, Started, StartFails, Pause,
           Resume, LogoutBegin, Shutdown, StopSource, Crash, SendLost, SendAnswered,
           SendUnanswered, SaveEdit, EditLost, SaveRedaction, RedactAnswered, RedactRefused,
           RedactRaises
  <2>8. QED
    BY <2>1, <2>2, <2>3, <2>4, <2>5, <2>6, <2>7
<1>4. QED
  BY <1>1, <1>2, <1>3, TypeCorrect, OnceStep, ForgetStep, OrderStep, TextStep, MapStep, PTL
     DEF Spec, KeepsPromise, Promise!Spec, Promise!vars

-----------------------------------------------------------------------------
(* Part 3: store and target agree.                                         *)

\* Every edit and every redaction answers a message posted before it.
AnswersInv ==
    \A p \in 1..Len(timeline) : timeline[p].kind # "message" =>
        \E q \in 1..p - 1 : IsPost(q, timeline[p].of)

\* The copy in the map of a message, against its row.
Follows(m) == copies[map[m]].text = store[m] /\ ~copies[map[m]].redacted

\* A copy in the map follows the row, unless a handler is changing one of the two; a
\* message is sent as it was saved.
FollowInv ==
    /\ \A m \in Messages \ (stale \cup faulted) :
           map[m] # 0 /\ ~(pc \in {"edit", "redact", "redacted"} /\ m = Message) => Follows(m)
    /\ pc \in {"send", "landed"} => store[Message] = pos + 1
    /\ pc = "landed" => copies[Len(copies)].text = pos + 1 /\ ~copies[Len(copies)].redacted
    /\ pc = "edit" /\ Message \notin stale \cup faulted =>
           store[Message] = pos + 1 /\ ~copies[map[Message]].redacted

\* A copy made since the last logout can be reached to redact it, or is redacted.
MappedInv ==
    /\ \A i \in forgotten + 1 .. Len(copies) : copies[i].of \notin faulted =>
           \/ copies[i].redacted
           \/ map[copies[i].of] = i
           \/ pc = "landed" /\ i = Len(copies)
    /\ pc = "redacted" => copies[map[Message]].redacted

\* Without a target there is nothing on it.
BackupInv == Backup => Len(copies) = 0 /\ pc # "send"

\* No trace of the message m is left within the bridge's reach.
Erased(m) ==
    /\ store[m] = 0
    /\ \A i \in forgotten + 1 .. Len(copies) : copies[i].of = m => copies[i].redacted

\* A message whose redaction was handled without a fault is erased.
ErasedInv ==
    /\ \A p \in processed :
        /\ timeline[p].kind = "redaction" /\ timeline[p].of \notin faulted
        /\ pc \in AtWork => p # pos + 1
        => Erased(timeline[p].of)
    /\ pc \in {"redact", "redacted"} => store[Message] = 0

\* The event in hand is let go of: nothing is left undone that no history variable names.
LetGo ==
    /\ pc' \notin AtWork
    /\ pc \in AtWork /\ Current.kind = "redaction" => Message \in faulted'
    /\ pc = "landed" => Message \in faulted'
    /\ pc = "edit" => Message \in stale'

\* What a step does that neither saves nor posts, edits, redacts or maps anything.
Idle ==
    /\ UNCHANGED <<copies, store, forgotten, processed>>
    /\ Len(timeline') >= Len(timeline)
    /\ \A p \in 1..Len(timeline) : timeline'[p] = timeline[p]
    /\ stale \subseteq stale' /\ faulted \subseteq faulted'
    /\ \A m \in Messages : map'[m] = map[m] \/ (map'[m] = 0 /\ m \in faulted')
    /\ \/ UNCHANGED <<pc, pos, map>> /\ (pc \in AtWork => Current' = Current)
       \/ LetGo

\* Ten actions save, post, edit, redact, map or take up an event; every other step is idle.
LEMMA StepKinds ==
    ASSUME TypeOK, PlaceInv, [Next]_vars
    PROVE  \/ Idle \/ Take \/ LogoutDone
           \/ SaveMessage \/ SendLands \/ SendAnswered
           \/ SaveEdit \/ EditLands
           \/ SaveRedaction \/ RedactLands \/ RedactAnswered
<1> USE DEF sync, flags, target, history, Finish, Handling
<1>1. ASSUME NEW e \in Events, Post(e) PROVE Idle
  <2>1. /\ Len(timeline) \in Nat /\ Len(timeline') = Len(timeline) + 1
        /\ \A p \in 1..Len(timeline) : timeline'[p] = timeline[p]
    BY <1>1 DEF Post, TypeOK
  <2>2. UNCHANGED <<copies, store, forgotten, processed, stale, faulted, map, pc, pos>>
    BY <1>1 DEF Post
  <2>3. pc \in AtWork => Current' = Current
    BY <2>1, <2>2, InHand DEF Current
  <2>4. QED
    BY <2>1, <2>2, <2>3 DEF Idle
<1>a. ASSUME UNCHANGED <<timeline, copies, store, forgotten, processed, map>>,
             stale \subseteq stale', faulted \subseteq faulted',
             (pc' = pc /\ pos' = pos) \/ LetGo
      PROVE  Idle
  BY <1>a DEF Idle, Current, TypeOK
<1>b. ASSUME UNCHANGED <<timeline, copies, store, forgotten, processed, map, held>>,
             Abandon
      PROVE  Idle
  <2>1. stale \subseteq stale' /\ faulted \subseteq faulted'
    BY <1>b DEF Abandon, EditMissed, CutShort
  <2>2. LetGo
    BY <1>b DEF Abandon, EditMissed, CutShort, LetGo, AtWork, PlaceInv
  <2>3. QED
    BY <1>a, <1>b, <2>1, <2>2
<1>2. CASE Sync
  BY <1>2, <1>a DEF Sync, LetGo, PlaceInv, AtWork
<1>3. CASE EndBatch
  BY <1>3, <1>a DEF EndBatch, LetGo, AtWork
<1>4. CASE Flush
  BY <1>4, <1>a DEF Flush
<1>5. CASE Skip
  BY <1>5, <1>a DEF Skip, Waiting, LetGo, AtWork
<1>7. CASE Boot
  BY <1>7, <1>a DEF Boot, Connect, PlaceInv, LetGo, AtWork
<1>8. CASE Login
  BY <1>8, <1>a DEF Login, Connect, PlaceInv, LetGo, AtWork
<1>9. CASE Started
  BY <1>9, <1>a DEF Started
<1>10. CASE StartFails
  BY <1>10, <1>a DEF StartFails
<1>11. CASE Pause
  BY <1>11, <1>a DEF Pause
<1>12. CASE Resume
  BY <1>12, <1>a DEF Resume
<1>13. CASE LogoutBegin
  BY <1>13, <1>b DEF LogoutBegin, StopSource
<1>15. CASE Shutdown
  BY <1>15, <1>b DEF Shutdown, StopSource
<1>16. CASE Crash
  BY <1>16, <1>b DEF Crash
<1>19. CASE SendLost
  BY <1>19, <1>a DEF SendLost, LetGo, AtWork, PlaceInv
<1>21. CASE SendUnanswered
  BY <1>21, <1>a DEF SendUnanswered, CutShort, LetGo, AtWork, PlaceInv
<1>24. CASE EditLost
  BY <1>24, <1>a DEF EditLost, EditMissed, LetGo, AtWork, PlaceInv
<1>28. CASE RedactRefused
  <2>1. /\ UNCHANGED <<timeline, copies, store, forgotten, processed, stale>>
        /\ faulted' = faulted \cup {Message}
    BY <1>28 DEF RedactRefused, CutShort
  <2>2. \A m \in Messages : map'[m] = map[m] \/ (map'[m] = 0 /\ m \in faulted')
    BY <1>28, <2>1 DEF RedactRefused, TypeOK
  <2>3. LetGo
    BY <1>28, <2>1 DEF RedactRefused, LetGo, AtWork
  <2>4. QED
    BY <2>1, <2>2, <2>3 DEF Idle, TypeOK
<1>29. CASE RedactRaises
  BY <1>29, <1>a DEF RedactRaises, CutShort, LetGo, AtWork, PlaceInv
<1>30. CASE UNCHANGED vars
  BY <1>30, <1>a DEF vars
<1>31. QED
  BY <1>1, <1>2, <1>3, <1>4, <1>5, <1>7, <1>8, <1>9, <1>10, <1>11, <1>12, <1>13, <1>15,
     <1>16, <1>19, <1>21, <1>24, <1>28, <1>29, <1>30
     DEF Next, HandlerStep

\* No step lets an answer come before its message.
LEMMA AnswersStep == TypeOK /\ AnswersInv /\ [Next]_vars => AnswersInv'
<1> SUFFICES ASSUME TypeOK, AnswersInv, [Next]_vars PROVE AnswersInv'
  OBVIOUS
<1>1. ASSUME NEW e \in Events, Post(e) PROVE AnswersInv'
  <2>1. /\ Len(timeline) \in Nat /\ Len(timeline') = Len(timeline) + 1
        /\ timeline'[Len(timeline) + 1] = e
        /\ \A p \in 1..Len(timeline) : timeline'[p] = timeline[p]
    BY <1>1 DEF Post, TypeOK
  <2>2. e.kind # "message" => \E q \in 1..Len(timeline) : IsPost(q, e.of)
    BY <1>1 DEF Post, Posted, IsPost
  <2>3. \A p \in 1..Len(timeline) : \A m : IsPost(p, m) => IsPost(p, m)'
    BY <2>1 DEF IsPost
  <2>4. ASSUME NEW p \in 1..Len(timeline'), timeline'[p].kind # "message"
        PROVE  \E q \in 1..p - 1 : IsPost(q, timeline[p].of)'
    <3>1. CASE p = Len(timeline) + 1
      BY <2>1, <2>2, <2>3, <2>4, <3>1 DEF IsPost
    <3>2. CASE p \in 1..Len(timeline)
      <4>1. PICK q \in 1..p - 1 : IsPost(q, timeline[p].of)
        BY <2>1, <2>4, <3>2 DEF AnswersInv
      <4>2. q \in 1..Len(timeline)
        BY <2>1, <3>2
      <4>3. QED
        BY <2>1, <3>2, <4>1, <4>2 DEF IsPost
    <3>3. QED
      BY <2>1, <2>4, <3>1, <3>2
  <2>5. QED
    BY <2>4 DEF AnswersInv
<1>2. CASE UNCHANGED timeline
  BY <1>2 DEF AnswersInv, IsPost
<1>3. (\E e \in Events : Post(e)) \/ UNCHANGED timeline
  BY DEF Next, HandlerStep, vars, Sync, EndBatch, Flush, Skip, Take, Boot, Login,
         Connect, Started, StartFails, Pause, Resume, LogoutBegin, LogoutDone, Shutdown,
         StopSource, Crash, SaveMessage, SendLands, SendLost, SendAnswered, SendUnanswered,
         SaveEdit, EditLands, EditLost, SaveRedaction, RedactLands, RedactAnswered,
         RedactRefused, RedactRaises
<1>4. QED
  BY <1>1, <1>2, <1>3

\* No step posts anything without a target.
LEMMA BackupStep == TypeOK /\ PlaceInv /\ BackupInv /\ [Next]_vars => BackupInv'
<1> SUFFICES ASSUME TypeOK, PlaceInv, BackupInv, [Next]_vars PROVE BackupInv'
  OBVIOUS
<1> USE DEF sync, flags, target, history, Finish, Handling, BackupInv
<1>1. CASE Idle
  BY <1>1 DEF Idle, LetGo, AtWork
<1>2. CASE Take \/ LogoutDone
  BY <1>2 DEF Take, LogoutDone
<1>3. CASE SaveMessage \/ SaveEdit \/ SaveRedaction
  BY <1>3 DEF SaveMessage, SaveEdit, SaveRedaction, ForwardingOn
<1>4. CASE SendLands
  BY <1>4 DEF SendLands
<1>5. CASE SendAnswered \/ RedactAnswered
  BY <1>5 DEF SendAnswered, RedactAnswered
<1>6. CASE EditLands
  BY <1>6, EditLandsCopies, CopyUpdated DEF EditLands
<1>7. CASE RedactLands
  BY <1>7, RedactLandsCopies, CopyUpdated DEF RedactLands
<1>8. QED
  BY <1>1, <1>2, <1>3, <1>4, <1>5, <1>6, <1>7, StepKinds

\* A message in hand has no processed redaction: that would lie behind it.
LEMMA NotYetRedacted ==
    ASSUME TypeOK, PlaceInv, OnceInv, OrderInv, AnswersInv,
           pc \in AtWork, Current.kind = "message",
           NEW p \in processed, timeline[p].kind = "redaction"
    PROVE  timeline[p].of # Message
<1>1. /\ pos + 1 \in 1..Len(timeline) /\ p \in 1..Len(timeline) /\ p <= pos + 1
      /\ pos \in Nat /\ IsPost(pos + 1, Message)
  BY InHand DEF TypeOK, OrderInv, IsPost, Current, Message
<1>2. SUFFICES ASSUME timeline[p].of = Message PROVE FALSE
  OBVIOUS
<1>3. PICK q \in 1..p - 1 : IsPost(q, Message)
  BY <1>1, <1>2 DEF AnswersInv
<1>4. q \in 1..Len(timeline) /\ q # pos + 1
  BY <1>1
<1>5. QED
  BY <1>1, <1>3, <1>4 DEF OnceInv, PostedOnce, IsPost

\* A message in hand that is not sent yet is not in the map.
LEMMA NotYetMapped ==
    ASSUME TypeOK, PlaceInv, OnceInv, MapInv,
           pc \in {"taken", "send"}, Current.kind = "message"
    PROVE  Message \in Messages /\ map[Message] = 0
<1>1. Message \in Messages
  BY InHand DEF AtWork
<1>2. map[Message] \in 0..Len(copies)
  BY <1>1 DEF TypeOK
<1>3. QED
  BY <1>1, <1>2 DEF MapInv, OnceInv, Fresh

\* No step lets a copy in the map differ from the row.
LEMMA FollowStep ==
    TypeOK /\ PlaceInv /\ OnceInv /\ MapInv /\ BackupInv /\ FollowInv /\ [Next]_vars
        => FollowInv'
<1> SUFFICES ASSUME TypeOK, PlaceInv, OnceInv, MapInv, BackupInv, FollowInv, [Next]_vars
             PROVE FollowInv'
  OBVIOUS
<1> USE DEF sync, flags, target, history, Finish, Handling
<1>a. /\ map \in [Messages -> 0..Len(copies)] /\ Len(copies) \in Nat
      /\ store \in [Messages -> 0..MaxEvents]
  BY DEF TypeOK
<1>1. CASE Idle
  <2>1. UNCHANGED <<copies, store>> /\ stale \subseteq stale' /\ faulted \subseteq faulted'
        /\ \A m \in Messages : map'[m] = map[m] \/ (map'[m] = 0 /\ m \in faulted')
    BY <1>1 DEF Idle
  <2>2. CASE UNCHANGED <<pc, pos, map>> /\ (pc \in AtWork => Current' = Current)
    <3>1. pc \in AtWork => Message' = Message /\ Message \in Messages
      BY <2>2, InHand DEF Message
    <3>2. pc \in {"send", "landed", "edit", "redact", "redacted"} => pc \in AtWork
      BY DEF AtWork
    <3>3. QED
      BY <2>1, <2>2, <3>1, <3>2 DEF FollowInv, Follows
  <2>3. CASE LetGo
    <3>1. \A m \in Messages \ (stale' \cup faulted') :
              ~(pc \in {"edit", "redact", "redacted"} /\ m = Message)
      BY <2>3 DEF LetGo, PlaceInv, AtWork
    <3>2. \A m \in Messages \ (stale' \cup faulted') : map'[m] # 0 => Follows(m)
      BY <2>1, <3>1 DEF FollowInv
    <3>3. pc' \notin {"send", "landed", "edit", "redact", "redacted"}
      BY <2>3 DEF LetGo, AtWork
    <3>4. QED
      BY <2>1, <3>2, <3>3 DEF FollowInv, Follows
  <2>4. QED
    BY <1>1, <2>2, <2>3 DEF Idle
<1>2. CASE Take
  BY <1>2 DEF Take, Waiting, FollowInv, Follows
<1>3. CASE LogoutDone
  <2>1. UNCHANGED pc /\ pc = "ready" /\ \A m \in Messages : map'[m] = 0
    BY <1>3 DEF LogoutDone, PlaceInv
  <2>2. QED
    BY <2>1 DEF FollowInv
<1>4. CASE SaveMessage
  <2>1. /\ Message \in Messages /\ map[Message] = 0
    BY <1>4, NotYetMapped DEF SaveMessage
  <2>2. /\ UNCHANGED <<timeline, map, copies, stale, faulted>>
        /\ store' = [store EXCEPT ![Message] = pos + 1]
        /\ pc = "taken" /\ (pc' = "between" \/ (pc' = "send" /\ pos' = pos))
    BY <1>4 DEF SaveMessage
  <2>3. \A m \in Messages : m # Message => store'[m] = store[m]
    BY <2>2, <1>a
  <2>4. store'[Message] = pos + 1
    BY <2>1, <2>2, <1>a
  <2>5. QED
    BY <2>1, <2>2, <2>3, <2>4 DEF FollowInv, Follows, Message, Current
<1>5. CASE SendLands
  <2>1. /\ pc = "send" /\ pc' = "landed"
        /\ UNCHANGED <<timeline, pos, store, map, stale, faulted>> /\ Message' = Message
    BY <1>5 DEF SendLands, Message, Current
  <2>2. /\ Len(copies') = Len(copies) + 1
        /\ copies'[Len(copies')].text = pos + 1 /\ ~copies'[Len(copies')].redacted
        /\ \A i \in 1..Len(copies) : copies'[i] = copies[i]
    BY <1>5, <1>a DEF SendLands, TypeOK
  <2>3. QED
    BY <2>1, <2>2, <1>a DEF FollowInv, Follows
<1>6. CASE SendAnswered
  <2>1. /\ pc = "landed" /\ pc' = "between"
        /\ UNCHANGED <<timeline, store, copies, stale, faulted>>
        /\ map' = [map EXCEPT ![Message] = Len(copies)]
    BY <1>6 DEF SendAnswered
  <2>2. Message \in Messages
    BY <2>1, InHand DEF AtWork
  <2>3. QED
    BY <2>1, <2>2, <1>a DEF FollowInv, Follows
<1>7. CASE SaveEdit
  <2>1. /\ pc = "taken" /\ UNCHANGED <<timeline, map, copies, faulted>>
        /\ store' = IF store[Message] = 0 THEN store
                    ELSE [store EXCEPT ![Message] = pos + 1]
        /\ Message \in Messages
    BY <1>7, InHand DEF SaveEdit, AtWork
  <2>2. \A m \in Messages : m # Message => store'[m] = store[m]
    BY <2>1, <1>a
  <2>3. CASE pc' = "edit" /\ UNCHANGED <<pos, stale>>
    <3>1. Message' = Message /\ (Message \notin stale \cup faulted => map[Message] # 0)
      BY <1>7, <2>1, <2>3 DEF SaveEdit, Message, Current
    <3>2. Message \notin stale \cup faulted =>
              store'[Message] = pos + 1 /\ ~copies[map[Message]].redacted
      <4>1. SUFFICES ASSUME Message \notin stale \cup faulted
                     PROVE store'[Message] = pos + 1 /\ ~copies[map[Message]].redacted
        OBVIOUS
      <4>2. Follows(Message) /\ map[Message] \in 1..Len(copies)
        BY <2>1, <3>1, <4>1, <1>a DEF FollowInv
      <4>3. copies[map[Message]].text # 0
        BY <4>2, CopiesTyped DEF Copies
      <4>4. QED
        BY <2>1, <4>2, <4>3, <1>a DEF Follows
    <3>3. QED
      BY <2>1, <2>2, <2>3, <3>1, <3>2 DEF FollowInv, Follows
  <2>4. CASE pc' = "between" /\ stale' = stale \cup {Message}
    BY <2>1, <2>2, <2>4 DEF FollowInv, Follows
  <2>5. QED
    BY <1>7, <2>3, <2>4 DEF SaveEdit, EditMissed
<1>8. CASE EditLands
  <2>1. /\ pc = "edit" /\ pc' = "between"
        /\ UNCHANGED <<timeline, store, map, stale, faulted>>
        /\ Message \in Messages
    BY <1>8, InHand DEF EditLands, AtWork
  <2>2. map[Message] \in 1..Len(copies)
    BY <1>8, EditLandsCopies
  <2>3. /\ copies'[map[Message]].text = pos + 1
        /\ copies'[map[Message]].redacted = copies[map[Message]].redacted
        /\ \A i \in 1..Len(copies) : i # map[Message] => copies'[i] = copies[i]
    BY <1>8, <2>2, CopiesTyped DEF EditLands, TypeOK, Copies
  <2>4. \A m \in Messages : map[m] # 0 /\ m # Message => map[m] # map[Message]
    BY <2>1, <2>2 DEF MapInv
  <2>5. QED
    BY <2>1, <2>2, <2>3, <2>4, <1>a DEF FollowInv, Follows
<1>9. CASE SaveRedaction
  <2>1. /\ pc = "taken" /\ UNCHANGED <<timeline, map, copies, stale, faulted>>
        /\ store' = [store EXCEPT ![Message] = 0]
        /\ Message \in Messages
    BY <1>9, InHand DEF SaveRedaction, AtWork
  <2>2. \A m \in Messages : m # Message => store'[m] = store[m]
    BY <2>1, <1>a
  <2>3. CASE pc' = "redact" /\ pos' = pos
    BY <2>1, <2>2, <2>3 DEF FollowInv, Follows, Message, Current
  <2>4. CASE Backup \/ map[Message] = 0
    <3>1. map[Message] = 0 /\ pc' = "between"
      BY <1>9, <2>1, <2>4, <1>a DEF SaveRedaction, BackupInv
    <3>2. QED
      BY <2>1, <2>2, <3>1 DEF FollowInv, Follows
  <2>5. QED
    BY <1>9, <2>3, <2>4 DEF SaveRedaction
<1>10. CASE RedactLands
  <2>1. /\ pc = "redact" /\ pc' = "redacted" /\ Message' = Message
        /\ UNCHANGED <<timeline, store, map, stale, faulted>> /\ Message \in Messages
    BY <1>10, InHand DEF RedactLands, AtWork, Message, Current
  <2>2. map[Message] \in 1..Len(copies)
    BY <1>10, RedactLandsCopies
  <2>3. \A i \in 1..Len(copies) : i # map[Message] => copies'[i] = copies[i]
    BY <1>10, <2>2, RedactLandsCopies, CopyUpdated
  <2>4. \A m \in Messages : map[m] # 0 /\ m # Message => map[m] # map[Message]
    BY <2>1, <2>2 DEF MapInv
  <2>5. QED
    BY <2>1, <2>2, <2>3, <2>4, <1>a DEF FollowInv, Follows
<1>11. CASE RedactAnswered
  <2>1. /\ pc = "redacted" /\ pc' = "between"
        /\ UNCHANGED <<timeline, store, copies, stale, faulted>>
        /\ map' = [map EXCEPT ![Message] = 0]
    BY <1>11 DEF RedactAnswered
  <2>2. \A m \in Messages : map'[m] = IF m = Message THEN 0 ELSE map[m]
    BY <2>1, <1>a
  <2>3. QED
    BY <2>1, <2>2 DEF FollowInv, Follows
<1>12. QED
  BY <1>1, <1>2, <1>3, <1>4, <1>5, <1>6, <1>7, <1>8, <1>9, <1>10, <1>11, StepKinds

\* An edit that lands leaves the copy's message and mark alone.
LEMMA EditLandsText ==
    ASSUME TypeOK, PlaceInv, EditLands
    PROVE  /\ Len(copies') = Len(copies)
           /\ \A i \in 1..Len(copies) : copies'[i].of = copies[i].of
                                        /\ copies'[i].redacted = copies[i].redacted
<1> DEFINE k == map[Message]
           c == [copies[k] EXCEPT !.text = pos + 1]
<1>1. k \in 1..Len(copies) /\ pos + 1 \in 1..MaxEvents
  BY EditLandsCopies, InHand DEF EditLands, AtWork
<1>2. c \in Copies /\ c.of = copies[k].of /\ c.redacted = copies[k].redacted
  BY <1>1, CopiesTyped DEF Copies
<1>3. copies' = [copies EXCEPT ![k] = c]
  BY DEF EditLands
<1> HIDE DEF k, c
<1>4. QED
  BY <1>1, <1>2, <1>3, CopyUpdated

\* A redaction that lands marks one copy, and leaves what the copies are of.
LEMMA RedactLandsMark ==
    ASSUME TypeOK, PlaceInv, RedactLands
    PROVE  /\ Len(copies') = Len(copies) /\ copies'[map[Message]].redacted
           /\ \A i \in 1..Len(copies) : copies'[i].of = copies[i].of
                                        /\ (copies[i].redacted => copies'[i].redacted)
<1> DEFINE k == map[Message]
           c == [copies[k] EXCEPT !.redacted = TRUE]
<1>1. k \in 1..Len(copies)
  BY RedactLandsCopies
<1>2. c \in Copies /\ c.of = copies[k].of /\ c.redacted
  BY <1>1, CopiesTyped DEF Copies
<1>3. copies' = [copies EXCEPT ![k] = c]
  BY DEF RedactLands
<1> HIDE DEF c
<1>4. QED
  BY <1>1, <1>2, <1>3, CopyUpdated

\* No step loses the way to a copy that is not redacted.
LEMMA MappedStep ==
    TypeOK /\ PlaceInv /\ OnceInv /\ MapInv /\ MappedInv /\ [Next]_vars => MappedInv'
<1> SUFFICES ASSUME TypeOK, PlaceInv, OnceInv, MapInv, MappedInv, [Next]_vars
             PROVE MappedInv'
  OBVIOUS
<1> USE DEF sync, flags, target, history, Finish, Handling
<1>a. /\ map \in [Messages -> 0..Len(copies)] /\ Len(copies) \in Nat
      /\ forgotten \in 0..Len(copies)
  BY DEF TypeOK
<1>b. \A i \in 1..Len(copies) : copies[i].of \in Messages
  BY CopiesTyped
<1>1. CASE Idle
  <2>1. UNCHANGED <<copies, forgotten>> /\ faulted \subseteq faulted'
        /\ \A m \in Messages : map'[m] = map[m] \/ (map'[m] = 0 /\ m \in faulted')
    BY <1>1 DEF Idle
  <2>2. CASE UNCHANGED <<pc, pos, map>> /\ (pc \in AtWork => Current' = Current)
    <3>0. pc = "redacted" => pc \in AtWork
      BY DEF AtWork
    <3>1. pc = "redacted" => Message' = Message /\ Message \in Messages
      BY <2>2, <3>0, InHand DEF Message
    <3>2. QED
      BY <1>a, <1>b, <2>1, <2>2, <3>1 DEF MappedInv
  <2>3. CASE LetGo
    <3>1. pc' \notin {"landed", "redacted"}
          /\ (pc = "landed" => copies[Len(copies)].of \in faulted')
      BY <2>3 DEF LetGo, AtWork, MapInv
    <3>2. QED
      BY <1>a, <1>b, <2>1, <3>1 DEF MappedInv
  <2>4. QED
    BY <1>1, <2>2, <2>3 DEF Idle
<1>2. CASE Take
  BY <1>2 DEF Take, Waiting, MappedInv
<1>3. CASE LogoutDone
  <2>1. UNCHANGED pc /\ pc = "ready" /\ forgotten' = Len(copies) /\ copies' = copies
    BY <1>3 DEF LogoutDone, PlaceInv
  <2>2. QED
    BY <1>a, <1>b, <2>1 DEF MappedInv
<1>4. CASE SaveMessage \/ SaveEdit \/ SaveRedaction
  <2>1. /\ pc = "taken" /\ pc' \notin {"landed", "redacted"}
        /\ UNCHANGED <<copies, map, forgotten, faulted>>
    BY <1>4 DEF SaveMessage, SaveEdit, SaveRedaction
  <2>2. QED
    BY <2>1 DEF MappedInv
<1>5. CASE SendLands
  <2>1. /\ pc = "send" /\ pc' = "landed" /\ UNCHANGED <<map, forgotten, faulted>>
    BY <1>5 DEF SendLands
  <2>2. /\ Len(copies') = Len(copies) + 1
        /\ \A i \in 1..Len(copies) : copies'[i] = copies[i]
    BY <1>5, <1>a DEF SendLands, TypeOK
  <2>3. QED
    BY <1>a, <1>b, <2>1, <2>2 DEF MappedInv
<1>6. CASE SendAnswered
  <2>1. /\ pc = "landed" /\ pc' = "between"
        /\ UNCHANGED <<copies, forgotten, faulted>>
        /\ map' = [map EXCEPT ![Message] = Len(copies)]
    BY <1>6 DEF SendAnswered
  <2>2. Len(copies) > 0 /\ copies[Len(copies)].of = Message
    BY <2>1 DEF MapInv
  <2>3. \A i \in 1..Len(copies) : copies[i].of = Message => i = Len(copies)
    BY <1>a, <1>b, <2>2 DEF OnceInv, AtMostOnce
  <2>4. QED
    BY <1>a, <1>b, <2>1, <2>2, <2>3 DEF MappedInv
<1>7. CASE EditLands
  <2>1. /\ pc = "edit" /\ pc' = "between" /\ UNCHANGED <<map, forgotten, faulted>>
    BY <1>7 DEF EditLands
  <2>2. map[Message] \in 1..Len(copies)
    BY <1>7, EditLandsCopies
  <2>3. /\ Len(copies') = Len(copies)
        /\ \A i \in 1..Len(copies) : copies'[i].of = copies[i].of
                                     /\ copies'[i].redacted = copies[i].redacted
    BY <1>7, EditLandsText
  <2>4. QED
    BY <1>a, <1>b, <2>1, <2>3 DEF MappedInv
<1>8. CASE RedactLands
  <2>1. /\ pc = "redact" /\ pc' = "redacted" /\ Message' = Message
        /\ UNCHANGED <<map, forgotten, faulted>>
    BY <1>8 DEF RedactLands, Message, Current
  <2>2. map[Message] \in 1..Len(copies)
    BY <1>8, RedactLandsCopies
  <2>3. /\ Len(copies') = Len(copies) /\ copies'[map[Message]].redacted
        /\ \A i \in 1..Len(copies) : copies'[i].of = copies[i].of
                                     /\ (copies[i].redacted => copies'[i].redacted)
    BY <1>8, RedactLandsMark
  <2>4. QED
    BY <1>a, <1>b, <2>1, <2>3 DEF MappedInv
<1>9. CASE RedactAnswered
  <2>1. /\ pc = "redacted" /\ pc' = "between"
        /\ UNCHANGED <<copies, forgotten, faulted>>
        /\ map' = [map EXCEPT ![Message] = 0]
    BY <1>9 DEF RedactAnswered
  <2>2. copies[map[Message]].redacted
    BY <2>1 DEF MappedInv
  <2>3. \A m \in Messages : m # Message => map'[m] = map[m]
    BY <2>1, <1>a
  <2>4. QED
    BY <1>a, <1>b, <2>1, <2>2, <2>3 DEF MappedInv
<1>10. QED
  BY <1>1, <1>2, <1>3, <1>4, <1>5, <1>6, <1>7, <1>8, <1>9, StepKinds

\* No step brings back what was redacted.
LEMMA ErasedStep ==
    /\ TypeOK /\ PlaceInv /\ OnceInv /\ OrderInv /\ AnswersInv /\ MapInv /\ BackupInv
    /\ MappedInv /\ ErasedInv /\ [Next]_vars
    => ErasedInv'
<1> SUFFICES ASSUME TypeOK, PlaceInv, OnceInv, OrderInv, AnswersInv, MapInv, BackupInv,
                    MappedInv, ErasedInv, [Next]_vars
             PROVE ErasedInv'
  OBVIOUS
<1> USE DEF sync, flags, target, history, Finish, Handling
<1>a. /\ map \in [Messages -> 0..Len(copies)] /\ Len(copies) \in Nat
      /\ store \in [Messages -> 0..MaxEvents] /\ forgotten \in 0..Len(copies)
      /\ processed \subseteq 1..Len(timeline) /\ pos \in Nat
  BY DEF TypeOK
<1>b. pc \in AtWork => Message \in Messages
  BY InHand
<1>c. \A p \in processed : timeline[p].of \in Messages
  <2>1. timeline \in Seq(Events) /\ \A e \in Events : e.of \in Messages
    BY DEF TypeOK, Events
  <2>2. QED
    BY <1>a, <2>1
<1>1. CASE Idle
  <2>1. /\ UNCHANGED <<copies, store, forgotten, processed>> /\ faulted \subseteq faulted'
        /\ \A p \in processed : timeline'[p] = timeline[p]
    BY <1>1, <1>a DEF Idle
  <2>2. \A m : Erased(m)' <=> Erased(m)
    BY <2>1 DEF Erased
  <2>3. CASE UNCHANGED <<pc, pos, map>> /\ (pc \in AtWork => Current' = Current)
    BY <2>1, <2>2, <2>3 DEF ErasedInv, AtWork, Message
  <2>4. CASE LetGo
    BY <2>1, <2>2, <2>4 DEF ErasedInv, LetGo, Message, Current, AtWork
  <2>5. QED
    BY <1>1, <2>3, <2>4 DEF Idle
<1>2. CASE Take
  <2>1. /\ pc = "between" /\ pc' = "taken" /\ processed' = processed \cup {pos + 1}
        /\ UNCHANGED <<timeline, pos, copies, store, forgotten, faulted>>
    BY <1>2 DEF Take, Waiting
  <2>2. QED
    BY <2>1 DEF ErasedInv, Erased, AtWork
<1>3. CASE LogoutDone
  <2>1. /\ pc = "ready" /\ forgotten' = Len(copies)
        /\ UNCHANGED <<timeline, pos, pc, copies, store, processed, faulted>>
    BY <1>3 DEF LogoutDone, PlaceInv
  <2>2. \A m : Erased(m) => Erased(m)'
    BY <2>1, <1>a DEF Erased
  <2>3. QED
    BY <2>1, <2>2 DEF ErasedInv, AtWork
<1>4. CASE SaveMessage
  <2>1. /\ pc \in AtWork /\ pc' \in {"send", "between"} /\ Current.kind = "message"
        /\ UNCHANGED <<timeline, copies, processed, forgotten, faulted>>
        /\ store' = [store EXCEPT ![Message] = pos + 1]
    BY <1>4 DEF SaveMessage, AtWork
  <2>2. ASSUME NEW p \in processed, timeline[p].kind = "redaction",
               timeline[p].of \notin faulted
        PROVE  Erased(timeline[p].of)'
    <3>1. timeline[p].of # Message
      BY <2>1, <2>2, NotYetRedacted
    <3>2. p # pos + 1
      BY <2>1, <2>2 DEF Current
    <3>3. Erased(timeline[p].of)
      BY <2>2, <3>2 DEF ErasedInv
    <3>4. QED
      BY <1>a, <2>1, <3>1, <3>3 DEF Erased
  <2>3. QED
    BY <2>1, <2>2 DEF ErasedInv
<1>5. CASE SendLands
  <2>1. /\ pc \in AtWork /\ pc' = "landed" /\ Current.kind = "message"
        /\ UNCHANGED <<timeline, store, processed, forgotten, faulted>>
    BY <1>5 DEF SendLands, AtWork, PlaceInv
  <2>2. /\ Len(copies') = Len(copies) + 1 /\ copies'[Len(copies')].of = Message
        /\ \A i \in 1..Len(copies) : copies'[i] = copies[i]
    BY <1>5, <1>a DEF SendLands, TypeOK
  <2>3. ASSUME NEW p \in processed, timeline[p].kind = "redaction",
               timeline[p].of \notin faulted
        PROVE  Erased(timeline[p].of)'
    <3>1. timeline[p].of # Message
      BY <2>1, <2>3, NotYetRedacted
    <3>2. p # pos + 1
      BY <2>1, <2>3 DEF Current
    <3>3. Erased(timeline[p].of)
      BY <2>3, <3>2 DEF ErasedInv
    <3>4. \A i \in forgotten + 1 .. Len(copies') :
              i \in forgotten + 1 .. Len(copies) \/ i = Len(copies')
      BY <1>a, <2>2
    <3>5. QED
      BY <1>a, <2>1, <2>2, <3>1, <3>3, <3>4 DEF Erased
  <2>4. QED
    BY <2>1, <2>3 DEF ErasedInv
<1>6. CASE SendAnswered
  <2>1. /\ pc \in AtWork /\ pc' = "between" /\ Current.kind = "message"
        /\ UNCHANGED <<timeline, copies, store, processed, forgotten, faulted>>
    BY <1>6 DEF SendAnswered, AtWork, PlaceInv
  <2>2. QED
    BY <2>1 DEF ErasedInv, Erased, Current, AtWork
<1>7. CASE SaveEdit
  <2>1. /\ pc' \in {"edit", "between"} /\ Current.kind = "edit"
        /\ UNCHANGED <<timeline, copies, processed, forgotten, faulted>>
        /\ \A m \in Messages : store[m] = 0 => store'[m] = 0
    BY <1>7, <1>a DEF SaveEdit
  <2>2. \A m \in Messages : Erased(m) => Erased(m)'
    BY <2>1 DEF Erased
  <2>3. QED
    BY <1>c, <2>1, <2>2 DEF ErasedInv, Current
<1>8. CASE EditLands
  <2>1. /\ pc' = "between" /\ Current.kind = "edit"
        /\ UNCHANGED <<timeline, store, processed, forgotten, faulted>>
    BY <1>8 DEF EditLands, PlaceInv
  <2>2. map[Message] \in 1..Len(copies)
    BY <1>8, EditLandsCopies
  <2>3. /\ Len(copies') = Len(copies)
        /\ \A i \in 1..Len(copies) : copies'[i].of = copies[i].of
                                     /\ copies'[i].redacted = copies[i].redacted
    BY <1>8, EditLandsText
  <2>4. \A m : Erased(m) => Erased(m)'
    BY <1>a, <2>1, <2>3 DEF Erased
  <2>5. QED
    BY <2>1, <2>4 DEF ErasedInv, Current
<1>9. CASE SaveRedaction
  <2>1. /\ pc = "taken" /\ Message \in Messages
        /\ UNCHANGED <<timeline, copies, map, processed, forgotten, faulted>>
        /\ store' = [store EXCEPT ![Message] = 0]
    BY <1>9, <1>b DEF SaveRedaction, AtWork
  <2>2. \A m \in Messages : Erased(m) => Erased(m)'
    BY <1>a, <2>1 DEF Erased
  <2>3. store'[Message] = 0
    BY <1>a, <2>1
  <2>4. CASE pc' = "redact" /\ pos' = pos
    BY <1>a, <1>c, <2>1, <2>2, <2>3, <2>4 DEF ErasedInv, Message, Current, AtWork
  <2>5. CASE Backup \/ map[Message] = 0
    <3>1. pc' = "between"
      BY <1>9, <2>5 DEF SaveRedaction
    <3>2. PICK M : M = Message
      OBVIOUS
    <3>3. M \notin faulted => Erased(M)'
      <4>1. \A i \in forgotten + 1 .. Len(copies) : map[Message] # i
        BY <1>a, <2>1, <2>5 DEF BackupInv
      <4>2. QED
        BY <2>1, <2>3, <3>2, <4>1 DEF Erased, MappedInv
    <3>4. QED
      BY <1>a, <1>c, <2>1, <2>2, <3>1, <3>2, <3>3 DEF ErasedInv, Message, Current
  <2>6. QED
    BY <1>9, <2>4, <2>5 DEF SaveRedaction
<1>10. CASE RedactLands
  <2>1. /\ pc = "redact" /\ pc' = "redacted" /\ Message' = Message
        /\ UNCHANGED <<timeline, pos, store, processed, forgotten, faulted>>
    BY <1>10 DEF RedactLands, Message, Current
  <2>2. map[Message] \in 1..Len(copies)
    BY <1>10, RedactLandsCopies
  <2>3. /\ Len(copies') = Len(copies)
        /\ \A i \in 1..Len(copies) : copies'[i].of = copies[i].of
                                     /\ (copies[i].redacted => copies'[i].redacted)
    BY <1>10, RedactLandsMark
  <2>4. \A m : Erased(m) => Erased(m)'
    BY <1>a, <2>1, <2>3 DEF Erased
  <2>5. QED
    BY <2>1, <2>4 DEF ErasedInv, AtWork
<1>11. CASE RedactAnswered
  <2>1. /\ pc = "redacted" /\ pc' = "between" /\ Message \in Messages
        /\ UNCHANGED <<timeline, copies, store, processed, forgotten, faulted>>
    BY <1>11, <1>b DEF RedactAnswered, AtWork
  <2>2. \A m : Erased(m) => Erased(m)'
    BY <2>1 DEF Erased
  <2>3. Message \notin faulted => Erased(Message)
    BY <1>a, <2>1 DEF Erased, MappedInv, ErasedInv
  <2>4. QED
    BY <2>1, <2>2, <2>3 DEF ErasedInv, Message, Current, AtWork
<1>12. QED
  BY <1>1, <1>2, <1>3, <1>4, <1>5, <1>6, <1>7, <1>8, <1>9, <1>10, <1>11, StepKinds

\* Between two events, a copy in the map has the text of the row in the store and is not
\* redacted, unless an edit was withheld or a request or a handler was lost.
THEOREM StoreAndTargetAgree == Spec => []CopiesFollowStore
<1>1. Init => OnceInv /\ MapInv /\ BackupInv /\ FollowInv
  BY DEF Init, OnceInv, PostedOnce, Fresh, HeldBackForGood, AtMostOnce, MapInv, BackupInv, FollowInv
<1>2. FollowInv => CopiesFollowStore
  BY DEF FollowInv, CopiesFollowStore, Follows, AtWork
<1>3. QED
  BY <1>1, <1>2, OnceStep, MapStep, BackupStep, FollowStep, TypeCorrect, PTL DEF Spec

\* Between two events, a message whose redaction was handled without a fault has no row, and
\* no copy made since the last logout that is not redacted: no event synced again brings
\* it back.
THEOREM RedactionsReachEverything == Spec => []RedactedEverywhere
<1>1. Init => /\ OnceInv /\ OrderInv /\ AnswersInv /\ MapInv /\ BackupInv
              /\ MappedInv /\ ErasedInv
  BY DEF Init, OnceInv, PostedOnce, Fresh, HeldBackForGood, AtMostOnce, OrderInv, Since,
         AtWork, AnswersInv, MapInv, BackupInv, MappedInv, ErasedInv
<1>2. ErasedInv => RedactedEverywhere
  BY DEF ErasedInv, RedactedEverywhere, Erased
<1>3. QED
  BY <1>1, <1>2, OnceStep, OrderStep, AnswersStep, MapStep, BackupStep, MappedStep,
     ErasedStep, TypeCorrect, PTL DEF Spec

=============================================================================
