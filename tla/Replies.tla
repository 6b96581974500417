------------------------------ MODULE Replies ------------------------------
(***************************************************************************)
(* The way from server B to server A: the target backend's start and sync  *)
(* loop with its tokens, and BridgeCore's handler of a reply to a copy     *)
(* ("thread") or of a command that names a room ("send").  An action is    *)
(* the code between two awaits; a request to A is two, its effect there    *)
(* and the answer.  A sync token is a position in the target's timeline.   *)
(* Control commands of the same timeline are in ControlPlane; here a       *)
(* logout or a login may happen at any time, as from the key recheck.      *)
(***************************************************************************)
EXTENDS Naturals, Sequences, FiniteSets

CONSTANTS
    Rooms,      \* the rooms of the source; a copy is known by the room it came from
    Name,       \* the room that A finds under the displayed name of a room: an alias, of this
                \* room or another, or an id, which is taken as it stands; 0 for none
    Window,     \* how many events of a gap the server returns at least
    MaxPosts,   \* bound: the length of the timeline
    MaxLogouts, \* bound: logouts
    MaxFaults,  \* bound: requests to A or B that raise or are refused
    MaxEnds     \* bound: ends of the process

ASSUME RepliesAssumption ==
    /\ Rooms \subseteq Nat \ {0} /\ Name \in [Rooms -> Rooms \cup {0}]
    /\ {Window, MaxPosts, MaxLogouts, MaxFaults, MaxEnds} \subseteq Nat

VARIABLES
    timeline,  \* what users wrote in the target room
    phase,     \* of the target: "down", "initial" sync, "rewinding", "running"
    dbToken,   \* the sync_token:target row
    nioToken,  \* the token of the client library's own store
    saved,     \* the local of start(): the row as it was before
    next, pos, \* client.next_batch; the last event of the batch that was dealt with
    pc,        \* "ready", "between" two events, or the place of the handler
    room,      \* the handler's local: the room found
    address,   \* msg.source_room_id: where a notice or the sign is sent, 0 for the target room
    processed, \* the processed events
    source,    \* _source_started
    enabled,   \* the row forwarding_enabled
    map,       \* the event-to-room map, by the room of the copy; 0 for no entry
    stored,    \* replies in the message store
    landed,    \* what the bridge posted on A: [of, room]
    logouts, faults, ends,
    \* The next four record the past and guard no action.
    unsaved,   \* replies whose save raised
    early,     \* a login came before the target's start was over
    told,      \* replies whose author got the sign or a notice in the target room
    passed     \* events that no handler will see, with what passed over them

loop  == <<phase, dbToken, nioToken, saved, next, pos, pc>>
work  == <<room, address>>
limit == <<logouts, faults, ends>>
past  == <<unsaved, early, told, passed>>
core  == <<source, enabled, map>>
vars  == <<timeline, loop, work, processed, core, stored, landed, limit, past>>

Target == 0

\* A reply to the copy of a message of a room, or a command with the address of a room, 0 for
\* an address of none.
Posts == [kind : {"thread"}, room : Rooms] \cup [kind : {"send"}, room : Rooms \cup {0}]

AtWork == {"taken", "body", "alias", "routed", "saved", "send", "landed", "ack"}

TypeOK ==
    /\ timeline \in Seq(Posts) /\ Len(timeline) <= MaxPosts
    /\ phase \in {"down", "initial", "rewinding", "running"}
    /\ {dbToken, nioToken, saved, next} \subseteq 0..Len(timeline) /\ pos \in 0..next
    /\ pc \in {"ready", "between"} \cup AtWork
    /\ room \in Rooms \cup {0} /\ address \in Rooms \cup {Target}
    /\ processed \subseteq 1..Len(timeline) /\ stored \cup told \subseteq 1..MaxPosts
    /\ (pc \in AtWork => pos + 1 \in processed)
    /\ unsaved \subseteq 1..MaxPosts /\ early \in BOOLEAN
    /\ source \in BOOLEAN /\ enabled \in BOOLEAN /\ map \in [Rooms -> Rooms \cup {0}]
    /\ landed \in Seq([of : 1..MaxPosts, room : Rooms])
    /\ passed \subseteq (1..MaxPosts) \X {"start", "batch", "limit", "raise"}
    /\ logouts \in 0..MaxLogouts /\ faults \in 0..MaxFaults /\ ends \in 0..MaxEnds

\* The bridge was started before: its tokens are those of the beginning of the timeline.
Init ==
    /\ timeline = <<>> /\ phase = "down"
    /\ dbToken = 0 /\ nioToken = 0 /\ saved = 0 /\ next = 0 /\ pos = 0 /\ pc = "ready"
    /\ room = 0 /\ address = Target
    /\ processed = {} /\ source = FALSE /\ enabled = TRUE /\ map = [r \in Rooms |-> r]
    /\ stored = {} /\ landed = <<>>
    /\ logouts = 0 /\ faults = 0 /\ ends = 0
    /\ unsaved = {} /\ early = FALSE /\ told = {} /\ passed = {}

Unseen(S, cause) == (S \ processed) \X {cause}

Fault == faults < MaxFaults /\ faults' = faults + 1

NoFault == UNCHANGED faults

-----------------------------------------------------------------------------
(* Users, other commands, and the way from A to B.                         *)

Post(p) ==
    /\ Len(timeline) < MaxPosts /\ timeline' = Append(timeline, p)
    /\ UNCHANGED <<loop, work, processed, core, stored, landed, limit, past>>

Logout ==
    /\ source /\ logouts < MaxLogouts /\ logouts' = logouts + 1
    /\ source' = FALSE /\ enabled' = FALSE /\ map' = [r \in Rooms |-> 0]
    /\ UNCHANGED <<timeline, loop, work, processed, stored, landed, faults, ends, past>>

Login ==
    /\ ~source /\ phase # "down" /\ source' = TRUE /\ enabled' = TRUE
    /\ early' = (early \/ phase # "running")
    /\ UNCHANGED <<timeline, loop, work, processed, map, stored, landed, limit, unsaved, told,
                   passed>>

\* When the target's start is over the source is started, if the forwarding was enabled.
StartSource ==
    /\ phase = "running" /\ ~source /\ enabled /\ source' = TRUE
    /\ UNCHANGED <<timeline, loop, work, processed, enabled, map, stored, landed, limit, past>>

\* A message is forwarded and its copy mapped, or the map drops an old entry.
Forward(r) ==
    /\ source /\ map' = [map EXCEPT ![r] = IF @ = 0 THEN r ELSE 0]
    /\ UNCHANGED <<timeline, loop, work, processed, source, enabled, stored, landed, limit, past>>

-----------------------------------------------------------------------------
(* start(), _sync_loop(), _periodic_flush(), stop().                       *)

\* Of a long gap the server returns the end; events of other kinds count too.
Reached(since) == {p \in since..Len(timeline) : p = since \/ p + Window = Len(timeline)}

\* A faulty variant of Start: the source counts as started from the beginning.
StartConnected ==
    /\ phase = "down" /\ phase' = "initial" /\ source' = enabled
    /\ saved' = dbToken /\ next' = Len(timeline) /\ nioToken' = Len(timeline)
    /\ pos' \in Reached(nioToken) /\ pc' = "between"
    /\ UNCHANGED <<timeline, dbToken, work, processed, enabled, map, stored, landed, limit, past>>

\* The callbacks are registered and the initial sync goes from the client library's token.
Start ==
    /\ phase = "down" /\ phase' = "initial"
    /\ saved' = dbToken /\ next' = Len(timeline) /\ nioToken' = Len(timeline)
    /\ pos' \in Reached(nioToken) /\ pc' = "between"
    /\ UNCHANGED <<timeline, dbToken, work, processed, core, stored, landed, limit, past>>

\* The token of the initial sync is saved ...
EndInitial ==
    /\ phase = "initial" /\ pc = "between" /\ pos = next
    /\ phase' = "rewinding" /\ dbToken' = next /\ pc' = "ready"
    /\ UNCHANGED <<timeline, nioToken, saved, next, pos, work, processed, core, stored, landed,
                   limit, past>>

\* A faulty variant of Rewind: the sync loop goes on from the initial sync.
RewindNot ==
    /\ phase = "rewinding" /\ phase' = "running"
    /\ UNCHANGED <<timeline, dbToken, nioToken, saved, next, pos, pc, work, processed, core,
                   stored, landed, limit, past>>

\* ... and then the loop begins at the one that was saved before.
Rewind ==
    /\ phase = "rewinding" /\ phase' = "running"
    /\ next' = saved /\ pos' = saved
    /\ UNCHANGED <<timeline, dbToken, nioToken, saved, pc, work, processed, core, stored, landed,
                   limit, past>>

Sync ==
    /\ phase = "running" /\ pc = "ready" /\ next < Len(timeline)
    /\ next' = Len(timeline) /\ nioToken' = Len(timeline) /\ pc' = "between"
    /\ pos' \in Reached(next)
    /\ passed' = passed \cup Unseen((pos + 1)..pos', "limit")
    /\ UNCHANGED <<timeline, phase, dbToken, saved, work, processed, core, stored, landed, limit,
                   unsaved, early, told>>

EndBatch ==
    /\ phase = "running" /\ pc = "between" /\ pos = next
    /\ dbToken' = next /\ pc' = "ready"
    /\ UNCHANGED <<timeline, phase, nioToken, saved, next, pos, work, processed, core, stored,
                   landed, limit, past>>

Flush ==
    /\ phase # "down" /\ dbToken' = next
    /\ UNCHANGED <<timeline, phase, nioToken, saved, next, pos, pc, work, processed, core, stored,
                   landed, limit, past>>

Down(token) ==
    /\ phase # "down" /\ phase' = "down" /\ dbToken' = token
    /\ next' = token /\ pos' = token /\ saved' = 0
    /\ pc' = "ready" /\ room' = 0 /\ address' = Target /\ source' = FALSE
    /\ passed' = passed \cup
          Unseen(1..token, IF phase \in {"initial", "rewinding"} THEN "start" ELSE "batch")

\* stop() cancels the handler and saves the token at the end of the batch.
Stop ==
    /\ ends < MaxEnds /\ ends' = ends + 1
    /\ Down(next)
    /\ UNCHANGED <<timeline, nioToken, processed, enabled, map, stored, landed, logouts, faults,
                   unsaved, early, told>>

\* A faulty variant of Crash: the marks of processed events are in memory alone.
CrashForgets ==
    /\ ends < MaxEnds /\ ends' = ends + 1
    /\ Down(dbToken) /\ processed' = {}
    /\ UNCHANGED <<timeline, nioToken, enabled, map, stored, landed, logouts, faults, unsaved,
                   early, told>>

Crash ==
    /\ ends < MaxEnds /\ ends' = ends + 1
    /\ Down(dbToken)
    /\ UNCHANGED <<timeline, nioToken, processed, enabled, map, stored, landed, logouts, faults,
                   unsaved, early, told>>

-----------------------------------------------------------------------------
(* The handler of the event after pos.                                     *)

\* The event as _handle_text() tells it apart: a reply to a copy, or a command that names a
\* room.  All other events take no step.
Current == timeline[pos + 1]

Waiting == pc = "between" /\ pos < next

Finish == pos' = pos + 1 /\ pc' = "between" /\ room' = 0 /\ address' = Target

\* Where a notice or the sign arrives: only the target room is one of B's.
Tell == told' = IF address = Target THEN told \cup {pos + 1} ELSE told

Skip ==
    /\ Waiting /\ pos + 1 \in processed /\ Finish
    /\ UNCHANGED <<timeline, phase, dbToken, nioToken, saved, next, processed, core, stored,
                   landed, limit, past>>

\* The event is marked, then the name of its sender is asked for.
Take ==
    /\ Waiting /\ pos + 1 \notin processed
    /\ processed' = processed \cup {pos + 1} /\ pc' = "taken"
    /\ UNCHANGED <<timeline, phase, dbToken, nioToken, saved, next, pos, work, core, stored,
                   landed, limit, past>>

\* A reply goes by the map, or else by the header of the copy; without a source it is ignored.
RouteThread ==
    /\ pc = "taken" /\ Current.kind = "thread"
    /\ IF map[Current.room] # 0
       THEN room' = map[Current.room] /\ pc' = "routed" /\ UNCHANGED <<pos, address>>
       ELSE IF source THEN pc' = "body" /\ UNCHANGED <<pos, room, address>> ELSE Finish
    /\ UNCHANGED <<timeline, phase, dbToken, nioToken, saved, next, processed, core, stored,
                   landed, limit, past>>

RouteSend ==
    /\ pc = "taken" /\ Current.kind = "send"
    /\ IF source THEN pc' = "alias" /\ UNCHANGED <<pos, room, address, told>> ELSE Finish /\ Tell
    /\ UNCHANGED <<timeline, phase, dbToken, nioToken, saved, next, processed, core, stored,
                   landed, limit, unsaved, early, passed>>

\* get_event_body() asks B for the copy; it turns every failure into None.
BodyAnswered ==
    /\ pc = "body"
    /\ \/ pc' = "alias" /\ NoFault /\ UNCHANGED <<pos, room, address>>
       \/ Fault /\ Finish
    /\ UNCHANGED <<timeline, phase, dbToken, nioToken, saved, next, processed, core, stored,
                   landed, logouts, ends, past>>

\* The room of the address in a command, or of the name in a copy's header.
Found == IF Current.kind = "send" THEN Current.room ELSE Name[Current.room]

\* A resolves it, or it is an id; what a copy's name led to is mapped again.
Resolved ==
    /\ pc = "alias" /\ source /\ Found # 0
    /\ room' = Found /\ pc' = "routed"
    /\ map' = IF Current.kind = "thread" THEN [map EXCEPT ![Current.room] = Found] ELSE map
    /\ UNCHANGED <<timeline, phase, dbToken, nioToken, saved, next, pos, address, processed,
                   source, enabled, stored, landed, limit, past>>

\* A does not know it: a command is answered with a notice, a reply is ignored.
Unresolved ==
    /\ pc = "alias" /\ source /\ Found = 0 /\ Finish
    /\ IF Current.kind = "send" THEN Tell ELSE UNCHANGED told
    /\ UNCHANGED <<timeline, phase, dbToken, nioToken, saved, next, processed, core, stored,
                   landed, limit, unsaved, early, passed>>

\* The request raises, or the client was closed by a logout.  A command's handler answers
\* with a notice.  A reply's lookup is outside of the try: the exception ends the handling of
\* the batch, and in the initial sync the start.
ResolveRaises ==
    /\ pc = "alias"
    /\ IF source THEN Fault ELSE NoFault
    /\ IF Current.kind = "send"
       THEN Finish /\ Tell /\ UNCHANGED <<phase, dbToken, next, saved, source, passed>>
       ELSE /\ UNCHANGED told
            /\ IF phase = "initial"
               THEN Down(next)
               ELSE /\ pos' = next /\ pc' = "ready" /\ room' = 0 /\ address' = Target
                    /\ passed' = passed \cup Unseen((pos + 1)..next, "raise")
                    /\ UNCHANGED <<phase, dbToken, next, saved, source>>
    /\ UNCHANGED <<timeline, nioToken, processed, enabled, map, stored, landed, logouts, ends,
                   unsaved, early>>

\* The message gets the room on A as its own, and names are asked for; then it is saved.  A
\* save that raises is passed over.
SaveReply ==
    /\ pc = "routed" /\ address' = room /\ pc' = "saved"
    /\ \/ stored' = stored \cup {pos + 1} /\ NoFault /\ UNCHANGED unsaved
       \/ Fault /\ unsaved' = unsaved \cup {pos + 1} /\ UNCHANGED stored
    /\ UNCHANGED <<timeline, phase, dbToken, nioToken, saved, next, pos, room, processed, source,
                   enabled, map, landed, logouts, ends, early, told, passed>>

\* _forward_to_source(): without a source there is a notice.
ForwardToSource ==
    /\ pc = "saved"
    /\ IF source THEN pc' = "send" /\ UNCHANGED <<pos, room, address, told>> ELSE Finish /\ Tell
    /\ UNCHANGED <<timeline, phase, dbToken, nioToken, saved, next, processed, core, stored,
                   landed, limit, unsaved, early, passed>>

SendLands ==
    /\ pc = "send" /\ source
    /\ landed' = Append(landed, [of |-> pos + 1, room |-> room]) /\ pc' = "landed"
    /\ UNCHANGED <<timeline, phase, dbToken, nioToken, saved, next, pos, work, processed, core,
                   stored, limit, past>>

\* A refusal is an answer without an event id, which nobody looks at.
SendAnswered ==
    /\ \/ pc = "landed" /\ NoFault
       \/ pc = "send" /\ source /\ Fault
    /\ pc' = "ack"
    /\ UNCHANGED <<timeline, phase, dbToken, nioToken, saved, next, pos, work, processed, core,
                   stored, landed, logouts, ends, past>>

\* The request raises, before or after it took effect, or the client was closed.
SendRaises ==
    /\ pc \in {"send", "landed"}
    /\ IF source THEN Fault ELSE NoFault
    /\ Finish /\ Tell
    /\ UNCHANGED <<timeline, phase, dbToken, nioToken, saved, next, processed, core, stored,
                   landed, logouts, ends, unsaved, early, passed>>

\* The sign is sent to the room in the message.
Acknowledge ==
    /\ pc = "ack" /\ Finish /\ Tell
    /\ UNCHANGED <<timeline, phase, dbToken, nioToken, saved, next, processed, core, stored,
                   landed, limit, unsaved, early, passed>>

-----------------------------------------------------------------------------
(* The specification                                                       *)

Handle ==
    \/ Skip \/ Take \/ RouteThread \/ RouteSend \/ BodyAnswered
    \/ Resolved \/ Unresolved \/ ResolveRaises
    \/ SaveReply \/ ForwardToSource \/ SendLands \/ SendAnswered \/ SendRaises \/ Acknowledge

Loop == EndInitial \/ Rewind \/ Sync \/ EndBatch

Next ==
    \/ \E p \in Posts : Post(p)
    \/ Logout \/ Login \/ StartSource \/ \E r \in Rooms : Forward(r)
    \/ Start \/ Flush \/ Stop \/ Crash
    \/ Loop \/ Handle

Spec == Init /\ [][Next]_vars

\* The sync loop goes on: its requests end, if need be by their timeouts.
FairSpec == Spec /\ WF_vars(Loop) /\ WF_vars(Handle)

-----------------------------------------------------------------------------
(* Properties                                                              *)

\* A reply is posted once at most, over restarts from older tokens and lost answers.
PostedOnce == \A i, j \in DOMAIN landed : landed[i].of = landed[j].of => i = j

\* Replies are posted in the order in which they were written, over starts that hand on the end
\* of a gap before they go back to an older token: in the initial sync no source is started
\* (core.py:95-104, matrix_target.py:62-83).  But a login may come in it, and a restart may come
\* back to what an exception or a limited answer left behind.
PostedInOrder ==
    \A i, j \in DOMAIN landed :
        i < j => \/ landed[i].of < landed[j].of
                 \/ early
                 \/ \E c \in {"limit", "raise"} : <<landed[j].of, c>> \in passed

\* What the bridge posted on A is in the message store, whenever the process ends, unless the
\* save raised (core.py:178-183, 537-549).
StoredBeforePosted == \A i \in DOMAIN landed : landed[i].of \in stored \cup unsaved

\* While the bridge stays up, every event comes to be handled but those that an end of the
\* process, an exception or a limited answer passed over.
EveryReplyHandled ==
    <>[](phase = "running") =>
        <>[](\A i \in 1..Len(timeline) : i \in processed \/ \E c \in passed : c[1] = i)

-----------------------------------------------------------------------------
(* What the documentation says and the code does not do: the README tells  *)
(* how each is violated.  No run checks these.                             *)

InHand(i) == pc \in AtWork /\ pos + 1 = i

\* What the user guide says of commands: one that A posted gets its sign.
Acknowledged ==
    \A i \in DOMAIN landed : InHand(landed[i].of) \/ landed[i].of \in told

\* What the user guide says of replies, and of commands: each is posted in its room.
RightRoom == \A i \in DOMAIN landed : landed[i].room = timeline[landed[i].of].room

\* What the user guide says of replies: one that was handled while the source was connected
\* is posted.
RepliesRouted ==
    \A i \in processed :
        InHand(i) \/ timeline[i].kind # "thread" \/ \E j \in DOMAIN landed : landed[j].of = i

\* What the start says of its token: it takes the loop back to where it was, so that a process
\* that ends during the start skips nothing.
StartSkipsNothing == \A c \in passed : c[2] # "start"

\* An exception in the handling of one event does not take the others with it.
NothingRaisedAway == \A c \in passed : c[2] # "raise"
=============================================================================
