---------------------------- MODULE RepliesProofs ----------------------------
(***************************************************************************)
(* Proofs about Replies, for all rooms and names, every size of the        *)
(* server's window and all bounds.  PlaceInv ties the handler to the event *)
(* in hand, and on it stand the marks of what was posted (OnceInv), the    *)
(* order of the posts (OrderInv) and the row that was saved before each    *)
(* (SavedInv).                                                             *)
(***************************************************************************)
EXTENDS Replies, TLAPS

\* An event in hand is in the batch and was marked; outside of a batch none is in hand.
PlaceInv ==
    /\ pc \in AtWork => pos < next /\ pos + 1 \in processed
    /\ phase \in {"down", "rewinding"} => pc = "ready"

\* Nothing was posted for an event whose request has not landed yet.
OnceInv ==
    /\ \A i \in DOMAIN landed : landed[i].of \in processed
    /\ pc \in {"taken", "body", "alias", "routed", "saved", "send"} =>
           \A i \in DOMAIN landed : landed[i].of # pos + 1
    /\ PostedOnce

\* An event that a restart may come back to.
Left(e) == \E c \in {"limit", "raise"} : <<e, c>> \in passed

\* No token will take the loop back before the event.
Behind(e) ==
    /\ e <= dbToken
    /\ phase \in {"initial", "rewinding"} => e <= saved
    /\ phase = "running" => e <= pos

Ordered(i, j) == landed[i].of < landed[j].of \/ early \/ Left(landed[j].of)

\* What was not handled before a reply that was posted is behind the loop for good; so is, in
\* the loop, what it has dealt with; and the event in hand comes after all that was posted.
OrderInv ==
    /\ phase \notin {"down", "running"} /\ source => early
    /\ phase = "down" => ~source
    /\ phase \in {"initial", "rewinding"} => saved <= next /\ saved <= dbToken
    /\ phase = "running" => \A e \in 1..pos : e \in processed \/ Left(e) \/ e <= dbToken
    /\ \A i \in DOMAIN landed : \A e \in 1..(landed[i].of - 1) :
           early \/ e \in processed \/ Left(e) \/ Behind(e)
    /\ phase = "running" /\ pc \in {"taken", "body", "alias", "routed", "saved", "send"} =>
           \A i \in DOMAIN landed : landed[i].of < pos + 1 \/ early \/ Left(pos + 1)
    /\ PostedInOrder

SavedInv ==
    /\ pc \in {"saved", "send"} => pos + 1 \in stored \cup unsaved
    /\ StoredBeforePosted

-----------------------------------------------------------------------------
(* The types.                                                              *)

Tokens ==
    /\ timeline \in Seq(Posts)
    /\ dbToken \in 0..Len(timeline) /\ nioToken \in 0..Len(timeline)
    /\ saved \in 0..Len(timeline) /\ next \in 0..Len(timeline) /\ pos \in 0..next
    /\ processed \subseteq 1..Len(timeline)
    /\ pc \in {"ready", "between"} \cup AtWork
    /\ phase \in {"down", "initial", "rewinding", "running"}
    /\ PlaceInv

\* The other events stay where they are.
LEMMA Appended ==
    ASSUME NEW T, NEW s \in Seq(T), NEW e \in T
    PROVE  /\ Append(s, e) \in Seq(T) /\ Len(Append(s, e)) = Len(s) + 1
           /\ \A i \in 1..Len(s) : Append(s, e)[i] = s[i]
           /\ Append(s, e)[Len(s) + 1] = e
           /\ DOMAIN Append(s, e) = 1..(Len(s) + 1) /\ DOMAIN s = 1..Len(s)
           /\ Len(s) \in Nat
OBVIOUS

LEMMA ElementInSet ==
    ASSUME NEW T, NEW s \in Seq(T), NEW i \in DOMAIN s
    PROVE  s[i] \in T
OBVIOUS

\* The handler goes on with its event, or to the next one.
LEMMA HandlerInPlace ==
    ASSUME Tokens, pc \in AtWork, Finish \/ (pc' \in AtWork /\ UNCHANGED pos),
           UNCHANGED <<timeline, phase, dbToken, nioToken, saved, next, processed>>
    PROVE  Tokens'
<1>1. pos < next /\ phase \notin {"down", "rewinding"} /\ next \in Nat /\ pos \in Nat
  BY DEF Tokens, PlaceInv, AtWork
<1>2. CASE Finish
  BY <1>1, <1>2 DEF Finish, Tokens, PlaceInv, AtWork
<1>3. CASE pc' \in AtWork /\ UNCHANGED pos
  BY <1>1, <1>3 DEF Tokens, PlaceInv
<1>4. QED
  BY <1>2, <1>3

LEMMA TokensHold == Spec => []Tokens
<1>1. Init => Tokens
  BY DEF Init, Tokens, PlaceInv, AtWork
<1>2. Tokens /\ [Next]_vars => Tokens'
  <2> SUFFICES ASSUME Tokens, [Next]_vars PROVE Tokens'
    OBVIOUS
  <2> USE DEF Tokens, PlaceInv, AtWork
  <2>0. Len(timeline) \in Nat
    OBVIOUS
  <2>1. ASSUME NEW p \in Posts, Post(p) PROVE Tokens'
    <3>1. timeline' = Append(timeline, p)
      BY <2>1 DEF Post
    <3>2. timeline' \in Seq(Posts) /\ Len(timeline') = Len(timeline) + 1
      BY <3>1, Appended
    <3>3. QED
      BY <2>0, <2>1, <3>2 DEF Post, loop
  <2>2. CASE Logout \/ Login \/ StartSource \/ \E r \in Rooms : Forward(r)
    BY <2>2 DEF Logout, Login, StartSource, Forward, loop
  <2>3. CASE Start
    <3>1. pos' \in nioToken..Len(timeline) /\ next' = Len(timeline)
      BY <2>3 DEF Start, Reached
    <3>2. QED
      BY <2>0, <2>3, <3>1 DEF Start
  <2>4. CASE EndInitial \/ EndBatch
    BY <2>0, <2>4 DEF EndInitial, EndBatch
  <2>5. CASE Rewind
    BY <2>0, <2>5 DEF Rewind
  <2>6. CASE Sync
    <3>1. pos' \in next..Len(timeline) /\ next' = Len(timeline)
      BY <2>6 DEF Sync, Reached
    <3>2. QED
      BY <2>0, <2>6, <3>1 DEF Sync
  <2>7. CASE Flush
    BY <2>0, <2>7 DEF Flush
  <2>8. ASSUME NEW token \in 0..Len(timeline), Down(token),
               UNCHANGED <<timeline, nioToken, processed>>
        PROVE  Tokens'
    BY <2>0, <2>8 DEF Down
  <2>9. CASE Stop \/ Crash
    BY <2>8, <2>9 DEF Stop, Crash
  <2>10. CASE Skip
    BY <2>0, <2>10 DEF Skip, Waiting, Finish
  <2>11. CASE Take
    <3>1. pos + 1 \in 1..Len(timeline)
      BY <2>0, <2>11 DEF Take, Waiting
    <3>2. QED
      BY <2>11, <3>1 DEF Take, Waiting
  <2>12. CASE ResolveRaises
    BY <2>0, <2>12 DEF ResolveRaises, Finish, Down
  <2>13. CASE \/ RouteThread \/ RouteSend \/ BodyAnswered \/ Resolved \/ Unresolved
              \/ SaveReply \/ ForwardToSource \/ SendLands \/ SendAnswered \/ SendRaises
              \/ Acknowledge
    <3>1. pc \in AtWork /\ UNCHANGED <<timeline, phase, dbToken, nioToken, saved, next, processed>>
      BY <2>13 DEF RouteThread, RouteSend, BodyAnswered, Resolved, Unresolved, SaveReply,
                   ForwardToSource, SendLands, SendAnswered, SendRaises, Acknowledge
    <3>2. Finish \/ (pc' \in AtWork /\ UNCHANGED pos)
      BY <2>13 DEF RouteThread, RouteSend, BodyAnswered, Resolved, Unresolved, SaveReply,
                   ForwardToSource, SendLands, SendAnswered, SendRaises, Acknowledge
    <3>3. QED
      BY <3>1, <3>2, HandlerInPlace
  <2>14. CASE UNCHANGED vars
    BY <2>14 DEF vars, loop
  <2>15. QED
    BY <2>1, <2>2, <2>3, <2>4, <2>5, <2>6, <2>7, <2>8, <2>9, <2>10, <2>11, <2>12, <2>13, <2>14
       DEF Next, Loop, Handle
<1>3. QED
  BY <1>1, <1>2, PTL DEF Spec

\* The event in hand is one of the timeline.
LEMMA InHandInPlace ==
    ASSUME Tokens, Len(timeline) <= MaxPosts, pc \in AtWork
    PROVE  /\ pos + 1 \in 1..MaxPosts /\ Current \in Posts
           /\ (pos + 1)..next \subseteq 1..MaxPosts
<1>1. pos + 1 \in 1..Len(timeline) /\ pos \in Nat /\ next <= Len(timeline) /\ next \in Nat
  BY DEF Tokens, PlaceInv
<1>2. MaxPosts \in Nat /\ Len(timeline) \in Nat
  BY RepliesAssumption DEF Tokens
<1>3. QED
  BY <1>1, <1>2 DEF Current, Tokens

\* What the past and the store keep of the events, and the counters.
Kept ==
    /\ Len(timeline) <= MaxPosts
    /\ stored \subseteq 1..MaxPosts /\ unsaved \subseteq 1..MaxPosts /\ told \subseteq 1..MaxPosts
    /\ passed \subseteq (1..MaxPosts) \X {"start", "batch", "limit", "raise"}

Counters ==
    /\ logouts \in 0..MaxLogouts /\ faults \in 0..MaxFaults /\ ends \in 0..MaxEnds
    /\ source \in BOOLEAN /\ enabled \in BOOLEAN /\ early \in BOOLEAN

Routes ==
    /\ room \in Rooms \cup {0} /\ address \in Rooms \cup {Target}
    /\ map \in [Rooms -> Rooms \cup {0}] /\ landed \in Seq([of : 1..MaxPosts, room : Rooms])
    /\ pc \in {"routed", "saved", "send"} => room \in Rooms

LEMMA CountersHold == Spec => []Counters
<1>1. Init => Counters
  <2>1. 0 \in 0..MaxLogouts /\ 0 \in 0..MaxFaults /\ 0 \in 0..MaxEnds
    BY RepliesAssumption
  <2>2. QED
    BY <2>1 DEF Init, Counters
<1>2. Counters /\ [Next]_vars => Counters'
  <2> SUFFICES ASSUME Counters, [Next]_vars PROVE Counters'
    OBVIOUS
  <2> USE RepliesAssumption DEF Counters, core, past
  <2>1. CASE \E p \in Posts : Post(p)
    BY <2>1 DEF Post, limit
  <2>2. CASE Logout \/ Login \/ StartSource \/ \E r \in Rooms : Forward(r)
    <3>1. source' \in BOOLEAN /\ enabled' \in BOOLEAN /\ UNCHANGED <<faults, ends>>
      BY <2>2 DEF Logout, Login, StartSource, Forward, limit
    <3>2. early' \in BOOLEAN
      BY <2>2 DEF Logout, Login, StartSource, Forward
    <3>3. logouts' = logouts \/ (logouts < MaxLogouts /\ logouts' = logouts + 1)
      BY <2>2 DEF Logout, Login, StartSource, Forward, limit
    <3>4. QED
      BY <3>1, <3>2, <3>3
  <2>3. CASE Start \/ Flush \/ Loop
    BY <2>3 DEF Start, Flush, Loop, EndInitial, Rewind, Sync, EndBatch, limit
  <2>4. CASE Stop \/ Crash
    <3>1. ends < MaxEnds /\ ends' = ends + 1 /\ source' = FALSE
      BY <2>4 DEF Stop, Crash, Down
    <3>2. UNCHANGED <<enabled, early, logouts, faults>>
      BY <2>4 DEF Stop, Crash
    <3>3. ends' \in 0..MaxEnds
      BY <3>1
    <3>4. QED
      BY <3>1, <3>2, <3>3
  <2>5. ASSUME Fault \/ NoFault, source' \in {source, FALSE},
               UNCHANGED <<enabled, early, logouts, ends>>
        PROVE  Counters'
    <3>1. faults' \in 0..MaxFaults
      BY <2>5 DEF Fault, NoFault
    <3>2. source' \in BOOLEAN
      BY <2>5
    <3>3. QED
      BY <2>5, <3>1, <3>2
  <2>6. CASE BodyAnswered \/ ResolveRaises \/ SaveReply \/ SendAnswered \/ SendRaises
    <3>1. Fault \/ NoFault
      BY <2>6 DEF BodyAnswered, ResolveRaises, SaveReply, SendAnswered, SendRaises
    <3>2. source' \in {source, FALSE} /\ UNCHANGED <<enabled, early, logouts, ends>>
      BY <2>6 DEF BodyAnswered, ResolveRaises, SaveReply, SendAnswered, SendRaises, Down
    <3>3. QED
      BY <2>5, <3>1, <3>2
  <2>7. CASE \/ Skip \/ Take \/ RouteThread \/ RouteSend \/ Resolved \/ Unresolved
             \/ ForwardToSource \/ SendLands \/ Acknowledge
    BY <2>7 DEF Skip, Take, RouteThread, RouteSend, Resolved, Unresolved,
                ForwardToSource, SendLands, Acknowledge, limit
  <2>8. CASE UNCHANGED vars
    BY <2>8 DEF vars, limit
  <2>9. QED
    BY <2>1, <2>2, <2>3, <2>4, <2>6, <2>7, <2>8 DEF Next, Handle
<1>3. QED
  BY <1>1, <1>2, PTL DEF Spec

LEMMA KeptHolds == Spec => []Kept
<1>1. Init => Kept
  BY RepliesAssumption DEF Init, Kept
<1>2. Tokens /\ Kept /\ [Next]_vars => Kept'
  <2> SUFFICES ASSUME Tokens, Kept, [Next]_vars PROVE Kept'
    OBVIOUS
  <2> USE DEF Kept, past
  <2>1. ASSUME NEW p \in Posts, Post(p) PROVE Kept'
    <3>1. Len(timeline') = Len(timeline) + 1
      BY <2>1, Appended DEF Post, Tokens
    <3>2. Len(timeline) \in Nat /\ MaxPosts \in Nat
      BY RepliesAssumption DEF Tokens
    <3>3. QED
      BY <2>1, <3>1, <3>2 DEF Post
  <2>2. CASE Logout \/ Login \/ StartSource \/ \E r \in Rooms : Forward(r)
    BY <2>2 DEF Logout, Login, StartSource, Forward
  <2>3. CASE Start \/ Flush \/ Loop
    <3>1. CASE Sync
      <4>1. pos' \in next..Len(timeline) /\ UNCHANGED <<timeline, stored, unsaved, told>>
        BY <3>1 DEF Sync, Reached
      <4>2. (pos + 1)..pos' \subseteq 1..MaxPosts
        BY <4>1, RepliesAssumption DEF Tokens
      <4>3. passed' = passed \cup Unseen((pos + 1)..pos', "limit")
        BY <3>1 DEF Sync
      <4>4. QED
        BY <4>1, <4>2, <4>3 DEF Unseen
    <3>2. CASE Start \/ Flush \/ EndInitial \/ Rewind \/ EndBatch
      BY <3>2 DEF Start, Flush, EndInitial, Rewind, EndBatch
    <3>3. QED
      BY <2>3, <3>1, <3>2 DEF Loop
  <2>4. ASSUME NEW token \in 0..Len(timeline), Down(token),
               UNCHANGED <<timeline, stored, unsaved, told>>
        PROVE  Kept'
    <3>1. 1..token \subseteq 1..MaxPosts
      BY RepliesAssumption DEF Tokens
    <3>2. QED
      BY <2>4, <3>1 DEF Down, Unseen
  <2>5. CASE Stop \/ Crash
    BY <2>4, <2>5 DEF Stop, Crash, Tokens
  <2>6. CASE pc \in AtWork /\ Handle
    <3>1. pos + 1 \in 1..MaxPosts /\ (pos + 1)..next \subseteq 1..MaxPosts
      BY <2>6, InHandInPlace
    <3>2. next \in 0..Len(timeline)
      BY DEF Tokens
    <3>3. /\ told' \subseteq told \cup {pos + 1}
          /\ stored' \subseteq stored \cup {pos + 1}
          /\ unsaved' \subseteq unsaved \cup {pos + 1}
      BY <2>6 DEF Handle, Skip, Take, RouteThread, RouteSend, BodyAnswered, Resolved, Unresolved,
                  ResolveRaises, SaveReply, ForwardToSource, SendLands, SendAnswered, SendRaises,
                  Acknowledge, Tell
    <3>4. timeline' = timeline
      BY <2>6 DEF Handle, Skip, Take, RouteThread, RouteSend, BodyAnswered, Resolved, Unresolved,
                  ResolveRaises, SaveReply, ForwardToSource, SendLands, SendAnswered, SendRaises,
                  Acknowledge
    <3>5. \/ UNCHANGED passed
          \/ passed' = passed \cup Unseen((pos + 1)..next, "raise")
          \/ Down(next)
      BY <2>6 DEF Handle, Skip, Take, RouteThread, RouteSend, BodyAnswered, Resolved, Unresolved,
                  ResolveRaises, SaveReply, ForwardToSource, SendLands, SendAnswered, SendRaises,
                  Acknowledge
    <3>6. 1..next \subseteq 1..MaxPosts
      BY <3>2, RepliesAssumption DEF Tokens
    <3>7. passed' \subseteq (1..MaxPosts) \X {"start", "batch", "limit", "raise"}
      BY <3>1, <3>5, <3>6 DEF Down, Unseen
    <3>8. QED
      BY <3>1, <3>3, <3>4, <3>7
  <2>7. CASE Skip \/ Take
    BY <2>7 DEF Skip, Take
  <2>8. CASE UNCHANGED vars
    BY <2>8 DEF vars
  <2>9. Handle => pc \in AtWork \/ Skip \/ Take
    BY DEF Handle, RouteThread, RouteSend, BodyAnswered, Resolved, Unresolved, ResolveRaises,
           SaveReply, ForwardToSource, SendLands, SendAnswered, SendRaises, Acknowledge, AtWork
  <2>10. QED
    BY <2>1, <2>2, <2>3, <2>5, <2>6, <2>7, <2>8, <2>9 DEF Next
<1>3. QED
  BY <1>1, <1>2, TokensHold, PTL DEF Spec

LEMMA RoutesHold == Spec => []Routes
<1>1. Init => Routes
  BY DEF Init, Routes
<1>2. Tokens /\ Kept /\ Routes /\ [Next]_vars => Routes'
  <2> SUFFICES ASSUME Tokens, Kept, Routes, [Next]_vars PROVE Routes'
    OBVIOUS
  <2> USE DEF Routes, core
  <2>1. CASE \E p \in Posts : Post(p)
    BY <2>1 DEF Post, loop, work
  <2>2. CASE Logout \/ Login \/ StartSource \/ \E r \in Rooms : Forward(r)
    BY <2>2 DEF Logout, Login, StartSource, Forward, loop, work
  <2>3. CASE Start \/ Flush \/ Loop
    BY <2>3 DEF Start, Flush, Loop, EndInitial, Rewind, Sync, EndBatch, work
  <2>4. CASE Stop \/ Crash
    BY <2>4 DEF Stop, Crash, Down
  <2>5. CASE Skip \/ Take
    BY <2>5 DEF Skip, Take, Finish, work
  <2>6. CASE RouteThread
    <3>1. Current.room \in Rooms
      BY <2>6, InHandInPlace DEF RouteThread, AtWork, Kept, Posts
    <3>2. QED
      BY <2>6, <3>1 DEF RouteThread, Finish
  <2>7. CASE Resolved
    <3>1. Current \in Posts
      BY <2>7, InHandInPlace DEF Resolved, AtWork, Kept
    <3>2. Found \in Rooms
      BY <2>7, <3>1, RepliesAssumption DEF Resolved, Found, Posts
    <3>3. room' = Found /\ UNCHANGED <<address, landed>>
      BY <2>7 DEF Resolved
    <3>4. map' = map \/ map' = [map EXCEPT ![Current.room] = Found]
      BY <2>7 DEF Resolved
    <3>5. QED
      BY <3>2, <3>3, <3>4
  <2>8. CASE RouteSend \/ BodyAnswered \/ Unresolved \/ ResolveRaises
    BY <2>8 DEF RouteSend, BodyAnswered, Unresolved, ResolveRaises, Finish, Down
  <2>9. CASE SaveReply \/ ForwardToSource
    BY <2>9 DEF SaveReply, ForwardToSource, Finish
  <2>10. CASE SendLands
    <3>1. [of |-> pos + 1, room |-> room] \in [of : 1..MaxPosts, room : Rooms]
      BY <2>10, InHandInPlace DEF SendLands, AtWork, Kept
    <3>2. landed' \in Seq([of : 1..MaxPosts, room : Rooms])
      BY <2>10, <3>1 DEF SendLands
    <3>3. QED
      BY <2>10, <3>2 DEF SendLands, work
  <2>11. CASE SendAnswered \/ SendRaises \/ Acknowledge
    BY <2>11 DEF SendAnswered, SendRaises, Acknowledge, Finish, work
  <2>12. CASE UNCHANGED vars
    BY <2>12 DEF vars, loop, work
  <2>13. QED
    BY <2>1, <2>2, <2>3, <2>4, <2>5, <2>6, <2>7, <2>8, <2>9, <2>10, <2>11, <2>12
       DEF Next, Handle
<1>3. QED
  BY <1>1, <1>2, TokensHold, KeptHolds, PTL DEF Spec

\* Every variable keeps its type, and a handler at work has an event that is marked.
THEOREM TypeCorrect == Spec => []TypeOK
<1>1. Tokens /\ Kept /\ Routes /\ Counters => TypeOK
  BY DEF Tokens, PlaceInv, Kept, Routes, Counters, TypeOK
<1>2. QED
  BY <1>1, TokensHold, KeptHolds, RoutesHold, CountersHold, PTL

-----------------------------------------------------------------------------
(* The marks.                                                              *)

LEMMA OnceInvHolds == Spec => []OnceInv
<1>1. Init => OnceInv
  BY DEF Init, OnceInv, PostedOnce
<1>2. Tokens /\ TypeOK /\ OnceInv /\ [Next]_vars => OnceInv'
  <2> SUFFICES ASSUME Tokens, TypeOK, OnceInv, [Next]_vars PROVE OnceInv'
    OBVIOUS
  <2> USE DEF OnceInv, PostedOnce
  <2>1. CASE \/ \E p \in Posts : Post(p)
             \/ Logout \/ Login \/ StartSource \/ \E r \in Rooms : Forward(r)
    BY <2>1 DEF Post, Logout, Login, StartSource, Forward, loop
  <2>2. CASE Start \/ Flush \/ Loop
    <3>1. phase = "rewinding" => pc = "ready"
      BY DEF Tokens, PlaceInv
    <3>2. QED
      BY <2>2, <3>1 DEF Start, Flush, Loop, EndInitial, Rewind, Sync, EndBatch
  <2>3. CASE Stop \/ Crash
    BY <2>3 DEF Stop, Crash, Down
  <2>4. CASE Skip
    BY <2>4 DEF Skip, Finish
  <2>5. CASE Take
    BY <2>5 DEF Take
  <2>6. CASE \/ RouteThread \/ RouteSend \/ BodyAnswered \/ Resolved \/ Unresolved
             \/ ResolveRaises \/ SaveReply \/ ForwardToSource
    BY <2>6 DEF RouteThread, RouteSend, BodyAnswered, Resolved, Unresolved, ResolveRaises,
                SaveReply, ForwardToSource, Finish, Down
  <2>7. CASE SendLands
    <3>1. landed' = Append(landed, [of |-> pos + 1, room |-> room]) /\ pc' = "landed"
      BY <2>7 DEF SendLands
    <3>2. pos + 1 \in processed /\ processed' = processed
      BY <2>7 DEF SendLands, Tokens, PlaceInv, AtWork
    <3>3. \A i \in DOMAIN landed : landed[i].of # pos + 1
      BY <2>7 DEF SendLands
    <3>4. landed \in Seq([of : 1..MaxPosts, room : Rooms])
      BY DEF TypeOK
    <3>5. /\ DOMAIN landed' = 1..(Len(landed) + 1) /\ DOMAIN landed = 1..Len(landed)
          /\ Len(landed) \in Nat
          /\ \A i \in 1..Len(landed) : landed'[i] = landed[i]
          /\ landed'[Len(landed) + 1].of = pos + 1
      BY <3>1, <3>4
    <3>6. QED
      BY <3>1, <3>2, <3>3, <3>5
  <2>8. CASE SendAnswered \/ SendRaises \/ Acknowledge
    BY <2>8 DEF SendAnswered, SendRaises, Acknowledge, Finish
  <2>9. CASE UNCHANGED vars
    BY <2>9 DEF vars, loop
  <2>10. QED
    BY <2>1, <2>2, <2>3, <2>4, <2>5, <2>6, <2>7, <2>8, <2>9 DEF Next, Handle
<1>3. QED
  BY <1>1, <1>2, TokensHold, TypeCorrect, PTL DEF Spec

\* No reply is posted twice on A, whatever the restarts and from whichever token, and though
\* requests raise after they took effect.
THEOREM RepliesPostedOnce == Spec => []PostedOnce
BY OnceInvHolds, PTL DEF OnceInv

-----------------------------------------------------------------------------
(* The order.                                                              *)

LEMMA OrderInvHolds == Spec => []OrderInv
<1>1. Init => OrderInv
  BY DEF Init, OrderInv, PostedInOrder
<1>2. Tokens /\ TypeOK /\ OnceInv /\ OrderInv /\ [Next]_vars => OrderInv'
  <2> SUFFICES ASSUME Tokens, TypeOK, OnceInv, OrderInv, [Next]_vars PROVE OrderInv'
    OBVIOUS
  <2> USE DEF OrderInv, PostedInOrder
  <2>0. /\ Len(timeline) \in Nat /\ dbToken \in Nat /\ saved \in Nat /\ next \in Nat
        /\ pos \in Nat /\ pos <= next /\ saved <= Len(timeline) /\ dbToken <= Len(timeline)
        /\ phase \in {"down", "initial", "rewinding", "running"}
    BY DEF Tokens
  <2>1. \A i \in DOMAIN landed : landed[i].of \in Nat
    <3>1. landed \in Seq([of : 1..MaxPosts, room : Rooms])
      BY DEF TypeOK
    <3>2. ASSUME NEW i \in DOMAIN landed PROVE landed[i].of \in Nat
      <4>1. landed[i] \in [of : 1..MaxPosts, room : Rooms]
        BY <3>1, <3>2, ElementInSet
      <4>2. QED
        BY <4>1
    <3>3. QED
      BY <3>2
  <2> DEFINE Quiet == UNCHANGED <<phase, dbToken, saved, next, pos, pc, processed, landed>>
  <2>2. CASE Quiet /\ UNCHANGED <<source, early, passed>>
    BY <2>2 DEF Left, Behind
  <2>3. CASE Logout \/ Login \/ StartSource
    <3>1. Quiet /\ UNCHANGED passed /\ (early => early')
      BY <2>3 DEF Logout, Login, StartSource, loop, past
    <3>2. phase' \notin {"down", "running"} /\ source' => early'
      BY <2>3 DEF Logout, Login, StartSource, loop, past
    <3>3. phase' = "down" => ~source'
      BY <2>3 DEF Logout, Login, StartSource, loop
    <3>4. QED
      BY <3>1, <3>2, <3>3 DEF Left, Behind
  <2>4. CASE \/ \E p \in Posts : Post(p)
             \/ \E r \in Rooms : Forward(r)
             \/ UNCHANGED vars
    BY <2>2, <2>4 DEF Post, Forward, loop, core, past, vars
  <2>5. CASE Start
    <3>1. /\ phase = "down" /\ phase' = "initial" /\ saved' = dbToken /\ next' = Len(timeline)
          /\ pc' = "between" /\ UNCHANGED <<source, dbToken, processed, landed, passed, early>>
      BY <2>5 DEF Start, core, past
    <3>2. QED
      BY <2>0, <3>1 DEF Left, Behind
  <2>6. CASE EndInitial \/ Flush \/ EndBatch
    <3>1. /\ dbToken' = next /\ phase # "down" /\ pc' \in {pc, "ready"}
          /\ phase' = phase \/ (phase = "initial" /\ phase' = "rewinding")
          /\ UNCHANGED <<source, saved, next, pos, processed, landed, passed, early>>
      <4>1. CASE EndInitial
        BY <4>1 DEF EndInitial, core, past
      <4>2. CASE Flush
        BY <4>2 DEF Flush, core, past
      <4>3. CASE EndBatch
        BY <4>3 DEF EndBatch, core, past
      <4>4. QED
        BY <2>6, <4>1, <4>2, <4>3
    <3>2. \A e : Left(e)' = Left(e)
      BY <3>1 DEF Left
    <3>3. \A e \in Nat : Behind(e) => Behind(e)'
      BY <2>0, <3>1 DEF Behind
    <3>4. \A i \in DOMAIN landed' : \A e \in 1..(landed'[i].of - 1) :
              early' \/ e \in processed' \/ Left(e)' \/ Behind(e)'
      BY <2>1, <3>1, <3>2, <3>3
    <3>5. phase' = "running" => \A e \in 1..pos' : e \in processed' \/ Left(e)' \/ e <= dbToken'
      BY <2>0, <3>1
    <3>6. phase' \in {"initial", "rewinding"} => saved' <= next' /\ saved' <= dbToken'
      BY <3>1
    <3>7. PostedInOrder'
      BY <3>1
    <3>8. QED
      BY <3>1, <3>2, <3>4, <3>5, <3>6, <3>7
  <2>7. CASE Rewind
    <3>1. /\ phase = "rewinding" /\ phase' = "running" /\ pos' = saved
          /\ UNCHANGED <<dbToken, saved, pc, processed, landed, passed, early>>
      BY <2>7 DEF Rewind, core, past
    <3>2. pc = "ready"
      BY <3>1 DEF Tokens, PlaceInv
    <3>3. QED
      BY <2>0, <2>1, <3>1, <3>2 DEF Left, Behind
  <2>8. CASE Sync
    <3>1. /\ phase = "running" /\ pos' \in next..Len(timeline) /\ pc' = "between"
          /\ UNCHANGED <<phase, dbToken, processed, landed, early>>
          /\ passed' = passed \cup Unseen((pos + 1)..pos', "limit")
      BY <2>8 DEF Sync, Reached
    <3>2. ASSUME NEW e \in 1..pos' PROVE e \in processed' \/ Left(e)' \/ e <= dbToken'
      <4>1. CASE e <= pos
        BY <2>0, <3>1, <4>1 DEF Left
      <4>2. CASE e \in (pos + 1)..pos' /\ e \notin processed
        BY <3>1, <4>2 DEF Left, Unseen
      <4>3. QED
        BY <2>0, <3>1, <4>1, <4>2
    <3>3. \A e : Left(e) => Left(e)'
      BY <3>1 DEF Left
    <3>4. \A e \in Nat : Behind(e) => Behind(e)'
      BY <2>0, <3>1 DEF Behind
    <3>5. \A i \in DOMAIN landed' : \A e \in 1..(landed'[i].of - 1) :
              early' \/ e \in processed' \/ Left(e)' \/ Behind(e)'
      BY <2>1, <3>1, <3>3, <3>4
    <3>6. PostedInOrder'
      BY <3>1
    <3>7. QED
      BY <3>1, <3>2, <3>5, <3>6
  <2>9. ASSUME NEW token \in {dbToken, next}, Down(token), UNCHANGED <<processed, landed, early>>
        PROVE  OrderInv'
    <3>1. /\ phase # "down" /\ phase' = "down" /\ dbToken' = token /\ pc' = "ready"
          /\ source' = FALSE /\ passed \subseteq passed'
      BY <2>9 DEF Down
    <3>2. \A e : Left(e) => Left(e)'
      BY <3>1 DEF Left
    <3>3. \A e \in Nat : Behind(e) => Behind(e)'
      BY <2>0, <2>9, <3>1 DEF Behind
    <3>4. \A i \in DOMAIN landed' : \A e \in 1..(landed'[i].of - 1) :
              early' \/ e \in processed' \/ Left(e)' \/ Behind(e)'
      BY <2>1, <2>9, <3>2, <3>3
    <3>5. PostedInOrder'
      BY <2>9, <3>1
    <3>6. QED
      BY <2>9, <3>1, <3>4, <3>5
  <2>10. CASE Stop \/ Crash
    BY <2>9, <2>10 DEF Stop, Crash
  <2>11. CASE Skip
    <3>1. /\ pos + 1 \in processed /\ pos' = pos + 1 /\ pc' = "between"
          /\ UNCHANGED <<phase, dbToken, saved, next, processed, source, landed, early, passed>>
      BY <2>11 DEF Skip, Finish, core, past
    <3>2. QED
      BY <2>0, <2>1, <3>1 DEF Left, Behind
  <2>12. CASE Take
    <3>1. /\ pos + 1 \notin processed /\ processed' = processed \cup {pos + 1} /\ pc' = "taken"
          /\ UNCHANGED <<phase, dbToken, saved, next, pos, source, landed, early, passed>>
      BY <2>12 DEF Take, core, past
    <3>2. \A e : Left(e)' = Left(e) /\ Behind(e)' = Behind(e)
      BY <3>1 DEF Left, Behind
    <3>3. ASSUME phase = "running", NEW i \in DOMAIN landed
          PROVE  landed[i].of < pos + 1 \/ early \/ Left(pos + 1)
      <4>1. landed[i].of # pos + 1
        BY <3>1 DEF OnceInv
      <4>2. CASE landed[i].of > pos + 1
        <5>1. pos + 1 \in 1..(landed[i].of - 1)
          BY <2>0, <2>1, <4>2
        <5>2. ~Behind(pos + 1)
          BY <2>0, <3>3 DEF Behind
        <5>3. QED
          BY <3>1, <5>1, <5>2
      <4>3. QED
        BY <2>0, <2>1, <4>1, <4>2
    <3>4. QED
      BY <3>1, <3>2, <3>3
  <2>13. CASE ResolveRaises
    <3>1. pos + 1 \in processed /\ UNCHANGED <<processed, landed, early>>
      BY <2>13 DEF ResolveRaises, Tokens, PlaceInv, AtWork
    <3>2. CASE Finish /\ UNCHANGED <<phase, dbToken, next, saved, source, passed>>
      BY <2>0, <2>1, <3>1, <3>2 DEF Finish, Left, Behind
    <3>3. CASE phase = "initial" /\ Down(next)
      BY <2>9, <3>1, <3>3
    <3>4. CASE /\ pos' = next /\ pc' = "ready" /\ UNCHANGED <<phase, dbToken, next, saved, source>>
               /\ passed' = passed \cup Unseen((pos + 1)..next, "raise")
      <4>1. ASSUME NEW e \in 1..pos', phase = "running"
            PROVE  e \in processed' \/ Left(e)' \/ e <= dbToken'
        <5>1. CASE e <= pos
          BY <2>0, <3>1, <3>4, <4>1, <5>1 DEF Left
        <5>2. CASE e \in (pos + 1)..next /\ e \notin processed
          BY <3>4, <5>2 DEF Left, Unseen
        <5>3. QED
          BY <2>0, <3>1, <3>4, <4>1, <5>1, <5>2
      <4>2. \A e : Left(e) => Left(e)'
        BY <3>4 DEF Left
      <4>3. \A e \in Nat : Behind(e) => Behind(e)'
        BY <2>0, <3>4 DEF Behind
      <4>4. \A i \in DOMAIN landed' : \A e \in 1..(landed'[i].of - 1) :
               early' \/ e \in processed' \/ Left(e)' \/ Behind(e)'
        BY <2>1, <3>1, <4>2, <4>3
      <4>5. PostedInOrder'
        BY <3>1, <3>4
      <4>6. QED
        BY <3>1, <3>4, <4>1, <4>4, <4>5
    <3>5. QED
      BY <2>13, <3>2, <3>3, <3>4 DEF ResolveRaises
  <2>14. CASE \/ RouteThread \/ RouteSend \/ BodyAnswered \/ Resolved \/ Unresolved
              \/ SaveReply \/ ForwardToSource \/ SendAnswered \/ SendRaises \/ Acknowledge
    <3>1. /\ pc \in AtWork /\ UNCHANGED <<phase, dbToken, saved, next, processed, source, landed>>
          /\ UNCHANGED <<early, passed>>
      BY <2>14 DEF RouteThread, RouteSend, BodyAnswered, Resolved, Unresolved, SaveReply,
                   ForwardToSource, SendAnswered, SendRaises, Acknowledge, core, past, AtWork
    <3>2. \/ pos' = pos + 1 /\ pc' = "between"
          \/ pos' = pos /\ pc' \in {"alias", "body", "routed", "saved", "send"}
             /\ pc \in {"taken", "body", "alias", "routed", "saved"}
          \/ pos' = pos /\ pc' = "ack"
      BY <2>14 DEF RouteThread, RouteSend, BodyAnswered, Resolved, Unresolved, SaveReply,
                   ForwardToSource, SendAnswered, SendRaises, Acknowledge, Finish
    <3>3. pos + 1 \in processed
      BY <3>1 DEF Tokens, PlaceInv
    <3>4. QED
      BY <2>0, <2>1, <3>1, <3>2, <3>3 DEF Left, Behind
  <2>15. CASE SendLands
    <3>1. /\ landed' = Append(landed, [of |-> pos + 1, room |-> room]) /\ pc' = "landed"
          /\ UNCHANGED <<phase, dbToken, saved, next, pos, processed, source, early, passed>>
          /\ pc = "send" /\ source
      BY <2>15 DEF SendLands, core, past
    <3>2. landed \in Seq([of : 1..MaxPosts, room : Rooms])
      BY DEF TypeOK
    <3>3. /\ DOMAIN landed' = 1..(Len(landed) + 1) /\ DOMAIN landed = 1..Len(landed)
          /\ Len(landed) \in Nat
          /\ \A i \in 1..Len(landed) : landed'[i] = landed[i]
          /\ landed'[Len(landed) + 1].of = pos + 1
      BY <3>1, <3>2
    <3>4. phase = "running" \/ early
      BY <3>1
    <3>5. \A i \in 1..Len(landed) : landed[i].of < pos + 1 \/ early \/ Left(pos + 1)
      BY <3>1, <3>3, <3>4
    <3>6. \A e \in 1..pos : early \/ e \in processed \/ Left(e) \/ Behind(e)
      BY <2>0, <3>4 DEF Behind
    <3>7. Left(pos + 1)' = Left(pos + 1)
      BY <3>1 DEF Left
    <3>8. \A e : Left(e)' = Left(e) /\ Behind(e)' = Behind(e)
      BY <3>1 DEF Left, Behind
    <3>9. PostedInOrder'
      <4>1. ASSUME NEW i \in DOMAIN landed', NEW j \in DOMAIN landed', i < j
            PROVE  Ordered(i, j)'
        <5>1. i \in 1..Len(landed) /\ landed'[i] = landed[i]
          BY <3>3, <4>1
        <5>2. CASE j = Len(landed) + 1
          <6>1. landed'[j].of = pos + 1
            BY <3>3, <5>2
          <6>2. landed[i].of < pos + 1 \/ early \/ Left(pos + 1)
            BY <3>5, <5>1
          <6>3. Left(landed[j].of)' = Left(pos + 1)
            BY <3>1, <6>1 DEF Left
          <6>4. QED
            BY <3>1, <5>1, <6>1, <6>2, <6>3 DEF Ordered
        <5>3. CASE j \in 1..Len(landed)
          <6>1. Ordered(i, j) /\ landed'[j] = landed[j]
            BY <3>3, <4>1, <5>1, <5>3 DEF Ordered, Left
          <6>2. QED
            BY <3>1, <5>1, <6>1 DEF Ordered, Left
        <5>4. QED
          BY <3>3, <4>1, <5>2, <5>3
      <4>2. QED
        BY <4>1 DEF Ordered, Left
    <3>10. \A i \in DOMAIN landed' : \A e \in 1..(landed'[i].of - 1) :
              early' \/ e \in processed' \/ Left(e)' \/ Behind(e)'
      BY <2>0, <3>1, <3>3, <3>6, <3>8
    <3>11. QED
      BY <2>0, <3>1, <3>8, <3>9, <3>10
  <2>16. QED
    BY <2>3, <2>4, <2>5, <2>6, <2>7, <2>8, <2>10, <2>11, <2>12, <2>13, <2>14, <2>15
       DEF Next, Loop, Handle
<1>3. QED
  BY <1>1, <1>2, TokensHold, TypeCorrect, OnceInvHolds, PTL DEF Spec

\* Replies are posted in the order in which they were written, whatever tokens a start goes
\* back to, but for a login in the initial sync and what an exception or a limited answer left.
THEOREM RepliesInOrder == Spec => []PostedInOrder
BY OrderInvHolds, PTL DEF OrderInv

-----------------------------------------------------------------------------
(* The row.                                                                *)

LEMMA SavedInvHolds == Spec => []SavedInv
<1>1. Init => SavedInv
  BY DEF Init, SavedInv, StoredBeforePosted
<1>2. Tokens /\ TypeOK /\ SavedInv /\ [Next]_vars => SavedInv'
  <2> SUFFICES ASSUME Tokens, TypeOK, SavedInv, [Next]_vars PROVE SavedInv'
    OBVIOUS
  <2> USE DEF SavedInv, StoredBeforePosted, past
  <2>1. CASE \/ \E p \in Posts : Post(p)
             \/ Logout \/ Login \/ StartSource \/ \E r \in Rooms : Forward(r)
    BY <2>1 DEF Post, Logout, Login, StartSource, Forward, loop
  <2>2. CASE Start \/ Flush \/ Loop
    <3>1. phase = "rewinding" => pc = "ready"
      BY DEF Tokens, PlaceInv
    <3>2. QED
      BY <2>2, <3>1 DEF Start, Flush, Loop, EndInitial, Rewind, Sync, EndBatch
  <2>3. CASE Stop \/ Crash
    BY <2>3 DEF Stop, Crash, Down
  <2>4. CASE Skip \/ Take \/ RouteThread \/ RouteSend \/ BodyAnswered \/ Resolved \/ Unresolved
             \/ ResolveRaises
    BY <2>4 DEF Skip, Take, RouteThread, RouteSend, BodyAnswered, Resolved, Unresolved,
                ResolveRaises, Finish, Down
  <2>5. CASE SaveReply \/ ForwardToSource
    BY <2>5 DEF SaveReply, ForwardToSource, Finish
  <2>6. CASE SendLands
    <3>1. landed' = Append(landed, [of |-> pos + 1, room |-> room]) /\ pc' = "landed"
      BY <2>6 DEF SendLands
    <3>2. pos + 1 \in stored \cup unsaved /\ UNCHANGED <<stored, unsaved>>
      BY <2>6 DEF SendLands
    <3>3. landed \in Seq([of : 1..MaxPosts, room : Rooms])
      BY DEF TypeOK
    <3>4. /\ DOMAIN landed' = 1..(Len(landed) + 1) /\ DOMAIN landed = 1..Len(landed)
          /\ Len(landed) \in Nat
          /\ \A i \in 1..Len(landed) : landed'[i] = landed[i]
          /\ landed'[Len(landed) + 1].of = pos + 1
      BY <3>1, <3>3
    <3>5. QED
      BY <3>1, <3>2, <3>4
  <2>7. CASE SendAnswered \/ SendRaises \/ Acknowledge
    BY <2>7 DEF SendAnswered, SendRaises, Acknowledge, Finish
  <2>8. CASE UNCHANGED vars
    BY <2>8 DEF vars, loop
  <2>9. QED
    BY <2>1, <2>2, <2>3, <2>4, <2>5, <2>6, <2>7, <2>8 DEF Next, Handle
<1>3. QED
  BY <1>1, <1>2, TokensHold, TypeCorrect, PTL DEF Spec

\* What the bridge posted on A is in its store, whenever the process ends, unless its save
\* raised.
THEOREM SavedFirst == Spec => []StoredBeforePosted
BY SavedInvHolds, PTL DEF SavedInv
=============================================================================
