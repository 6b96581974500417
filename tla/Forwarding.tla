----------------------------- MODULE Forwarding -----------------------------
(***************************************************************************)
(* The way from server A to server B: the source's sync loop with its      *)
(* token, the deduplication of events, and the handlers of BridgeCore that *)
(* save, forward, edit and redact (bridge/core.py, backends/               *)
(* matrix_source.py, backends/matrix_base.py), across pauses, logouts,     *)
(* shutdowns and crashes.                                                  *)
(*                                                                         *)
(* The timeline of the source is a sequence; a sync token is a position in *)
(* it.  A text is the position of the event that carries it, so position 0 *)
(* stands for no row and no text.  A copy is a message the bridge posted   *)
(* on the target.  An action is the code between two awaits that matter:   *)
(* a job handed to the executor is one step with the code that awaits it,  *)
(* a request to the target is two, its effect there and the answer.        *)
(* Encrypted events, calls, media captions and a failing disk are left     *)
(* out, and so are the bounds on the maps; two sessions at once are in     *)
(* module ControlPlane.                                                    *)
(***************************************************************************)
EXTENDS Naturals, Sequences

CONSTANTS
    Messages,   \* the messages of the source's rooms
    Own,        \* those that the bridge's own account wrote on the source
    Backup,     \* TRUE if no target is configured
    MaxEvents,  \* bound: the length of the timeline
    MaxCrashes  \* bound: the crashes

ASSUME ForwardingAssumption ==
    /\ Own \subseteq Messages
    /\ Backup \in BOOLEAN
    /\ MaxEvents \in Nat /\ MaxCrashes \in Nat

VARIABLES
    timeline,   \* what was posted on the source, oldest first
    phase,      \* the process: "down", "off" (source disconnected), "starting" (before
                \* the initial sync), "initial" (handling it), "running", "stopping"
    enabled,    \* BridgeCore._forwarding_enabled and its row in bridge_config
    paused,     \* BridgeCore._forwarding_paused and its row
    dbToken,    \* the sync_token:source row of bridge_config
    nioToken,   \* the token the Matrix client library keeps in its own store
    next,       \* client.next_batch: where the sync in progress ends
    pos,        \* the last event of it that was dealt with
    pc,         \* the sync loop: "ready" to sync, "between" two events, or the place
                \* of the handler of the event after pos
    processed,  \* the processed events (memory and table), by position
    store,      \* the text of each message's row in the message store
    copies,     \* the copies on the target: [of, text, redacted]
    map,        \* the source-to-target map (core, StateManager and table): the copy of
                \* each message, 0 for none
    crashes,    \* the crashes so far
    \* The next four record the past and guard no action.
    forgotten,  \* the copies made before the last logout
    held,       \* the messages that were saved and withheld from the target
    stale,      \* the messages with an edit that was withheld, lost or cut short
    faulted     \* the messages whose sending or redaction lost a request or an answer,
                \* or was cut short by a crash or a logout

sync    == <<dbToken, nioToken, next, pos>>
flags   == <<phase, enabled, paused>>
target  == <<copies, map>>
history == <<forgotten, held, stale, faulted>>
vars    == <<timeline, flags, sync, pc, processed, store, target, crashes, history>>

Kinds == {"message", "edit", "redaction"}

Events == [kind : Kinds, of : Messages, own : BOOLEAN]

AtWork == {"taken", "send", "landed", "edit", "redact", "redacted"}

TypeOK ==
    /\ timeline \in Seq(Events) /\ Len(timeline) <= MaxEvents
    /\ phase \in {"down", "off", "starting", "initial", "running", "stopping"}
    /\ enabled \in BOOLEAN /\ paused \in BOOLEAN
    /\ dbToken \in 0..Len(timeline) /\ nioToken \in 0..Len(timeline)
    /\ next \in 0..Len(timeline) /\ pos \in 0..next
    /\ pc \in {"ready", "between"} \cup AtWork
    /\ processed \subseteq 1..Len(timeline)
    /\ store \in [Messages -> 0..MaxEvents]
    /\ copies \in Seq([of : Messages, text : 1..MaxEvents, redacted : BOOLEAN])
    /\ map \in [Messages -> 0..Len(copies)]
    /\ crashes \in 0..MaxCrashes
    /\ forgotten \in 0..Len(copies)
    /\ held \subseteq Messages /\ stale \subseteq Messages /\ faulted \subseteq Messages

Init ==
    /\ timeline = <<>>
    /\ phase = "down" /\ enabled = TRUE /\ paused = FALSE
    /\ dbToken = 0 /\ nioToken = 0 /\ next = 0 /\ pos = 0
    /\ pc = "ready"
    /\ processed = {}
    /\ store = [m \in Messages |-> 0]
    /\ copies = <<>> /\ map = [m \in Messages |-> 0]
    /\ crashes = 0
    /\ forgotten = 0 /\ held = {} /\ stale = {} /\ faulted = {}

-----------------------------------------------------------------------------
(* The rooms of the source.                                                *)

Posted(m) == \E p \in 1..Len(timeline) : timeline[p].kind = "message" /\ timeline[p].of = m

\* A user posts a message, edits one of his, or redacts one (anybody may, with power).
Post(e) ==
    /\ Len(timeline) < MaxEvents
    /\ (e.kind = "message") <=> ~Posted(e.of)
    /\ e.kind # "redaction" => (e.own <=> e.of \in Own)
    /\ timeline' = Append(timeline, e)
    /\ UNCHANGED <<flags, sync, pc, processed, store, target, crashes, history>>

-----------------------------------------------------------------------------
(* The sync loop of the source.                                            *)

Connected == phase \in {"initial", "running"}

\* client.sync() returns: the client library moves both its tokens to the end of the
\* batch before it calls back for the first event.
Sync ==
    /\ phase \in {"starting", "running"}
    /\ pc = "ready"
    /\ next < Len(timeline)
    /\ phase' = IF phase = "starting" THEN "initial" ELSE phase
    /\ next' = Len(timeline)
    /\ nioToken' = Len(timeline)
    /\ pc' = "between"
    /\ UNCHANGED <<timeline, enabled, paused, dbToken, pos, processed, store, target,
                   crashes, history>>

\* Every event of the batch was dealt with: its token is saved.
EndBatch ==
    /\ pc = "between" /\ pos = next
    /\ dbToken' = next
    /\ pc' = "ready"
    /\ UNCHANGED <<timeline, flags, nioToken, next, pos, processed, store, target,
                   crashes, history>>

\* The periodic flush, which runs beside the sync loop.
Flush ==
    /\ phase = "running"
    /\ dbToken' = next
    /\ UNCHANGED <<timeline, flags, nioToken, next, pos, pc, processed, store, target,
                   crashes, history>>

Current == timeline[pos + 1]

Finish == pos' = pos + 1 /\ pc' = "between"

Waiting == pc = "between" /\ pos < next

\* A faulty variant: an edit is not looked up among the processed events.
IgnoredEditsAnew ==
    \/ pos + 1 \in processed /\ Current.kind # "edit"
    \/ Current.kind = "redaction" /\ Current.own

\* Own redactions are dropped before they are marked; other events once they are.
Ignored == pos + 1 \in processed \/ (Current.kind = "redaction" /\ Current.own)

\* A faulty variant: an event seen before is met again and again.
SkipStuck ==
    /\ Waiting
    /\ Ignored
    /\ UNCHANGED vars

Skip ==
    /\ Waiting
    /\ Ignored
    /\ Finish
    /\ UNCHANGED <<timeline, flags, dbToken, nioToken, next, processed, store, target,
                   crashes, history>>

\* A faulty variant: the event is not marked as processed before it is handled.
TakeUnmarked ==
    /\ Waiting
    /\ ~Ignored
    /\ pc' = "taken"
    /\ UNCHANGED <<timeline, flags, sync, processed, store, target, crashes, history>>

\* The event is marked as processed, and then handled.
Take ==
    /\ Waiting
    /\ ~Ignored
    /\ processed' = processed \cup {pos + 1}
    /\ pc' = "taken"
    /\ UNCHANGED <<timeline, flags, sync, store, target, crashes, history>>

-----------------------------------------------------------------------------
(* The handlers of BridgeCore, for the event in hand.                      *)

Message == Current.of

Handling(kind) == pc = "taken" /\ Current.kind = kind

ForwardingOn == ~Backup /\ enabled /\ ~paused

CutShort == faulted' = faulted \cup {Message}

EditMissed == stale' = stale \cup {Message}

\* A faulty variant: a message that is withheld does not count as processed.
SaveMessageUnmarked ==
    /\ Handling("message")
    /\ store' = [store EXCEPT ![Message] = pos + 1]
    /\ IF ForwardingOn /\ ~Current.own
       THEN pc' = "send" /\ UNCHANGED <<pos, held, processed>>
       ELSE Finish /\ held' = held \cup {Message} /\ processed' = processed \ {pos + 1}
    /\ UNCHANGED <<timeline, flags, dbToken, nioToken, next, target, crashes,
                   forgotten, stale, faulted>>

\* The row is saved; then the flags decide whether the message is sent.
SaveMessage ==
    /\ Handling("message")
    /\ store' = [store EXCEPT ![Message] = pos + 1]
    /\ IF ForwardingOn /\ ~Current.own
       THEN pc' = "send" /\ UNCHANGED <<pos, held>>
       ELSE Finish /\ held' = held \cup {Message}
    /\ UNCHANGED <<timeline, flags, dbToken, nioToken, next, processed, target, crashes,
                   forgotten, stale, faulted>>

\* The target posts the copy.
SendLands ==
    /\ pc = "send"
    /\ copies' = Append(copies, [of |-> Message, text |-> pos + 1, redacted |-> FALSE])
    /\ pc' = "landed"
    /\ UNCHANGED <<timeline, flags, sync, processed, store, map, crashes, history>>

\* The target refuses, or the request fails before it gets there.
SendLost ==
    /\ pc = "send"
    /\ Finish
    /\ UNCHANGED <<timeline, flags, dbToken, nioToken, next, processed, store, target,
                   crashes, history>>

\* The answer names the copy, and the mapping is saved.
SendAnswered ==
    /\ pc = "landed"
    /\ map' = [map EXCEPT ![Message] = Len(copies)]
    /\ Finish
    /\ UNCHANGED <<timeline, flags, dbToken, nioToken, next, processed, store, copies,
                   crashes, history>>

\* The copy is there and the answer never comes: nobody knows of it.
SendUnanswered ==
    /\ pc = "landed"
    /\ Finish
    /\ CutShort
    /\ UNCHANGED <<timeline, flags, dbToken, nioToken, next, processed, store, target,
                   crashes, forgotten, held, stale>>

\* A faulty variant: an edit goes to the target and not to the store.
SaveEditUnsaved ==
    /\ Handling("edit")
    /\ IF ForwardingOn /\ ~Current.own /\ map[Message] # 0
       THEN pc' = "edit" /\ UNCHANGED <<pos, stale>>
       ELSE Finish /\ EditMissed
    /\ UNCHANGED <<timeline, flags, dbToken, nioToken, next, processed, store, target,
                   crashes, forgotten, held, faulted>>

\* The row takes the new text, if there is one; then the flags and the map decide.
SaveEdit ==
    /\ Handling("edit")
    /\ store' = IF store[Message] = 0 THEN store ELSE [store EXCEPT ![Message] = pos + 1]
    /\ IF ForwardingOn /\ ~Current.own /\ map[Message] # 0
       THEN pc' = "edit" /\ UNCHANGED <<pos, stale>>
       ELSE Finish /\ EditMissed
    /\ UNCHANGED <<timeline, flags, dbToken, nioToken, next, processed, target, crashes,
                   forgotten, held, faulted>>

EditLands ==
    /\ pc = "edit"
    /\ copies' = [copies EXCEPT ![map[Message]].text = pos + 1]
    /\ Finish
    /\ UNCHANGED <<timeline, flags, dbToken, nioToken, next, processed, store, map,
                   crashes, history>>

EditLost ==
    /\ pc = "edit"
    /\ Finish
    /\ EditMissed
    /\ UNCHANGED <<timeline, flags, dbToken, nioToken, next, processed, store, target,
                   crashes, forgotten, held, faulted>>

\* A faulty variant: a redaction is withheld during a pause, as an edit is.
SaveRedactionWithheld ==
    /\ Handling("redaction")
    /\ store' = [store EXCEPT ![Message] = 0]
    /\ IF ForwardingOn /\ map[Message] # 0
       THEN pc' = "redact" /\ pos' = pos
       ELSE Finish
    /\ UNCHANGED <<timeline, flags, dbToken, nioToken, next, processed, target, crashes,
                   history>>

\* The row is deleted; a copy in the map is redacted, whatever the flags say.
SaveRedaction ==
    /\ Handling("redaction")
    /\ store' = [store EXCEPT ![Message] = 0]
    /\ IF ~Backup /\ map[Message] # 0
       THEN pc' = "redact" /\ pos' = pos
       ELSE Finish
    /\ UNCHANGED <<timeline, flags, dbToken, nioToken, next, processed, target, crashes,
                   history>>

RedactLands ==
    /\ pc = "redact"
    /\ copies' = [copies EXCEPT ![map[Message]].redacted = TRUE]
    /\ pc' = "redacted"
    /\ UNCHANGED <<timeline, flags, sync, processed, store, map, crashes, history>>

RedactAnswered ==
    /\ pc = "redacted"
    /\ map' = [map EXCEPT ![Message] = 0]
    /\ Finish
    /\ UNCHANGED <<timeline, flags, dbToken, nioToken, next, processed, store, copies,
                   crashes, history>>

\* The target refuses: redact_event() returns "", nothing is raised, the mapping goes.
RedactRefused ==
    /\ pc = "redact"
    /\ map' = [map EXCEPT ![Message] = 0]
    /\ Finish
    /\ CutShort
    /\ UNCHANGED <<timeline, flags, dbToken, nioToken, next, processed, store, copies,
                   crashes, forgotten, held, stale>>

\* The request raises, before or after it took effect: the mapping stays.
RedactRaises ==
    /\ pc \in {"redact", "redacted"}
    /\ Finish
    /\ CutShort
    /\ UNCHANGED <<timeline, flags, dbToken, nioToken, next, processed, store, target,
                   crashes, forgotten, held, stale>>

HandlerStep ==
    \/ SaveMessage
    \/ SendLands
    \/ SendLost
    \/ SendAnswered
    \/ SendUnanswered
    \/ SaveEdit
    \/ EditLands
    \/ EditLost
    \/ SaveRedaction
    \/ RedactLands
    \/ RedactAnswered
    \/ RedactRefused
    \/ RedactRaises

-----------------------------------------------------------------------------
(* The life of the process and of the source connection.                   *)

\* The token a new client starts from.
Since == IF dbToken # 0 THEN dbToken ELSE nioToken

\* The handler at work, if any, is cut off.
Abandon ==
    /\ pc' = "ready"
    /\ IF pc \notin AtWork THEN UNCHANGED <<stale, faulted>>
       ELSE IF Current.kind = "edit" THEN EditMissed /\ faulted' = faulted
       ELSE CutShort /\ stale' = stale

Connect ==
    /\ phase' = "starting"
    /\ next' = Since /\ pos' = Since
    /\ UNCHANGED <<timeline, enabled, paused, dbToken, nioToken, pc, processed, store,
                   target, crashes, history>>

\* The process starts.  The flags are the saved ones; in backup mode they do not matter.
Boot ==
    /\ phase = "down"
    /\ IF enabled THEN Connect
       ELSE phase' = "off" /\ UNCHANGED <<timeline, enabled, paused, sync, pc, processed,
                                          store, target, crashes, history>>

\* !login: until source.start() returns, forwarding stays disabled.
Login == phase = "off" /\ Connect

\* source.start() returns, whether its initial sync brought a batch or an error.
Started ==
    /\ phase \in {"starting", "initial"}
    /\ pc = "ready"
    /\ phase' = "running"
    /\ enabled' = TRUE
    /\ paused' = IF enabled THEN paused ELSE FALSE
    /\ UNCHANGED <<timeline, sync, pc, processed, store, target, crashes, history>>

\* source.start() raises: a !login reports it, a start of the process ends in its exit.
StartFails ==
    /\ phase \in {"starting", "initial"}
    /\ pc = "ready"
    /\ phase' = IF enabled THEN "down" ELSE "off"
    /\ UNCHANGED <<timeline, enabled, paused, sync, pc, processed, store, target,
                   crashes, history>>

Pause ==
    /\ ~Backup /\ phase = "running" /\ ~paused
    /\ paused' = TRUE
    /\ UNCHANGED <<timeline, phase, enabled, sync, pc, processed, store, target,
                   crashes, history>>

Resume ==
    /\ ~Backup /\ paused
    /\ phase \notin {"down", "stopping"}
    /\ paused' = FALSE
    /\ UNCHANGED <<timeline, phase, enabled, sync, pc, processed, store, target,
                   crashes, history>>

\* source.stop(): the tasks are cancelled, and the token of the client is saved.
StopSource ==
    /\ phase = "running"
    /\ dbToken' = next
    /\ Abandon
    /\ UNCHANGED <<timeline, enabled, paused, nioToken, next, pos, processed, store,
                   target, crashes, forgotten, held>>

LogoutBegin == ~Backup /\ phase' = "stopping" /\ StopSource

\* A faulty variant: the logout keeps the map.
LogoutDoneKeepingMap ==
    /\ phase = "stopping"
    /\ phase' = "off"
    /\ enabled' = FALSE /\ paused' = FALSE
    /\ forgotten' = Len(copies)
    /\ UNCHANGED <<timeline, sync, pc, processed, store, target, crashes, held, stale,
                   faulted>>

LogoutDone ==
    /\ phase = "stopping"
    /\ phase' = "off"
    /\ enabled' = FALSE /\ paused' = FALSE
    /\ map' = [m \in Messages |-> 0]
    /\ forgotten' = Len(copies)
    /\ UNCHANGED <<timeline, sync, pc, processed, store, copies, crashes, held, stale,
                   faulted>>

\* SIGTERM or SIGINT: core.stop() stops the source if it is started.
Shutdown == phase' = "down" /\ StopSource

\* The process dies, or is told to end while the source is not started.
Crash ==
    /\ phase # "down"
    /\ crashes < MaxCrashes
    /\ phase' = "down"
    /\ crashes' = crashes + 1
    /\ Abandon
    /\ UNCHANGED <<timeline, enabled, paused, sync, processed, store, target, forgotten,
                   held>>

-----------------------------------------------------------------------------

Next ==
    \/ \E e \in Events : Post(e)
    \/ Sync
    \/ EndBatch
    \/ Flush
    \/ Skip
    \/ Take
    \/ HandlerStep
    \/ Boot
    \/ Login
    \/ Started
    \/ StartFails
    \/ Pause
    \/ Resume
    \/ LogoutBegin
    \/ LogoutDone
    \/ Shutdown
    \/ Crash

Spec == Init /\ [][Next]_vars

\* The long poll returns when there is something new; every request is answered or
\* raises; source.start() and source.stop() end.
Fairness ==
    /\ WF_vars(Sync) /\ WF_vars(EndBatch) /\ WF_vars(Skip) /\ WF_vars(Take)
    /\ WF_vars(HandlerStep)
    /\ WF_vars(Started) /\ WF_vars(LogoutDone)

FairSpec == Spec /\ Fairness

-----------------------------------------------------------------------------
(* Properties.                                                             *)

\* No message is posted twice on the target, though crashes, shutdowns and logouts make
\* the bridge sync again what it had synced before (USERGUIDE.md:31, matrix_source.py:
\* 423-427, 530-535).
AtMostOnce ==
    \A i, j \in 1..Len(copies) : copies[i].of = copies[j].of => i = j

\* A message that was saved and withheld, because of a pause or in the initial sync of a
\* !login, is never forwarded later, not even after a restart (USERGUIDE.md:518).
HeldBackForGood == \A i \in 1..Len(copies) : copies[i].of \notin held

\* What was forwarded before a !logout is never edited or redacted on the target after it
\* (USERGUIDE.md:519, core.py:400-408).
LogoutForgets ==
    [][\A i \in 1..forgotten : copies'[i] = copies[i]]_vars

\* Between two events, a copy in the map has the text of the row in the store, if no edit
\* of it was withheld, lost or cut short, and it is not redacted.
CopiesFollowStore ==
    pc \notin AtWork =>
        \A m \in Messages \ (stale \cup faulted) : map[m] # 0 =>
            copies[map[m]].text = store[m] /\ ~copies[map[m]].redacted

\* Between two events, a message whose redaction was handled without a fault is neither in
\* the store nor on the target, paused or not, unless it was forwarded before a !logout.
RedactedEverywhere ==
    pc \notin AtWork =>
        \A p \in processed : timeline[p].kind = "redaction" /\ timeline[p].of \notin faulted =>
            /\ store[timeline[p].of] = 0
            /\ \A i \in forgotten + 1 .. Len(copies) :
                   copies[i].of = timeline[p].of => copies[i].redacted

\* What the bridge promises (module Relay), read off the copies on the target.
Relayed(m) == \E i \in 1..Len(copies) : copies[i].of = m

CopyOf(m) == copies[CHOOSE i \in 1..Len(copies) : copies[i].of = m]

textOf == [m \in Messages |-> IF Relayed(m) THEN CopyOf(m).text ELSE 0]

redactedCopies == {m \in Messages : Relayed(m) /\ CopyOf(m).redacted}

sealedCopies == {m \in Messages : \E i \in 1..forgotten : copies[i].of = m}

Promise == INSTANCE Relay WITH
    Texts    <- 1..MaxEvents,
    text     <- textOf,
    redacted <- redactedCopies,
    withheld <- held,
    sealed   <- sealedCopies

\* Whatever the sync loop, its tokens, the crashes and the lost requests do, seen from the
\* target the bridge takes the steps of Relay only: one copy of a message, whose text never
\* goes back to an older one when events are synced again (matrix_source.py:423-460,
\* 530-549; core.py:450-503).
KeepsPromise == Promise!Spec

\* While the source stays connected, every event it posts is dealt with: no event, handler
\* or lost request blocks the sync loop.
CatchesUp ==
    <>[](phase = "running") =>
        \A p \in 1..MaxEvents : Len(timeline) >= p ~> pos >= p

\* What ARCHITECTURE.md:466 says of the backup mode, "All messages saved to store", for a
\* bridge that never crashed: once the sync loop has caught up, every message that nobody
\* redacted has a row.
EveryMessageSaved ==
    phase = "running" /\ pc = "ready" /\ crashes = 0 =>
        \A p \in 1..next : timeline[p].kind = "message" =>
            \/ store[timeline[p].of] # 0
            \/ \E q \in 1..next : timeline[q].kind = "redaction" /\ timeline[q].of = timeline[p].of
=============================================================================
