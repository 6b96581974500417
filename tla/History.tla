------------------------------ MODULE History ------------------------------
(***************************************************************************)
(* The messages of one room of the source in the message store             *)
(* (bridge/message_store.py), written by the live handlers of BridgeCore   *)
(* and by backfills (scripts/backfill.py), which page backwards through    *)
(* the room with an old look at the ids there are, and end by folding the  *)
(* edits they saved into the messages they edit.                           *)
(*                                                                         *)
(* An event is its place in the room's timeline.  The text of a message is *)
(* the place of the event that carries it, so that an edit, being later,   *)
(* has the larger text, as it has the later timestamp in the code.  0 is   *)
(* the text of a placeholder for an event whose key is missing.            *)
(***************************************************************************)
EXTENDS Naturals, Sequences, FiniteSets

CONSTANTS
    Tasks,      \* backfills that may run beside each other
    WebTasks,   \* those of the web server; the others are started for a new room
    Keyless,    \* the places of the events whose keys may be missing when they arrive
    PageSize,   \* BATCH_SIZE of the backfill
    MaxEvents   \* bound: the events of the room

ASSUME HistoryAssumption ==
    /\ WebTasks \subseteq Tasks /\ Keyless \subseteq Nat
    /\ PageSize \in Nat \ {0} /\ MaxEvents \in Nat

VARIABLES
    timeline,  \* the room on the source, oldest event first
    live,      \* how far the live handlers are
    rows,      \* the table: a function from event ids to [direction, editOf, text]
    waiting,   \* events that the live handlers could not decrypt and are kept for retries
    pc,        \* where each backfill is
    existing,  \* existing_ids of each
    page,      \* the events of the last response that are still to be looked at
    cursor,    \* end_token: the place before which the next page ends, 0 for none
    redacted,  \* redacted_ids of each
    plan,      \* what reconcile_edits has read and is about to write
    \* The next three record the past and guard no action.
    erased,    \* redacted messages that no backfill had in hand and that did not wait for
               \* a key when the redaction came
    reached,   \* for each backfill, the length of the timeline of which it left nothing
               \* out so far, 0 if something was left out
    calm       \* the backfill was alone from its first look on and left nothing out

vars == <<timeline, live, rows, waiting, pc, existing, page, cursor, redacted, plan,
          erased, reached, calm>>

tasks == <<pc, existing, page, cursor, redacted, plan>>

Places == 1..MaxEvents

Row == [direction : {"forward", "edit"}, editOf : 0..MaxEvents, text : 0..MaxEvents]

NoPlan == [text |-> <<>>, delete |-> {}, promote |-> {}]

TypeOK ==
    /\ timeline \in Seq([kind : {"message", "edit", "redact"}, of : Places])
    /\ live \in 0..Len(timeline) /\ Len(timeline) <= MaxEvents
    /\ DOMAIN rows \subseteq 1..Len(timeline)
    /\ \A p \in DOMAIN rows : rows[p] \in Row
    /\ \A p \in DOMAIN rows : rows[p].direction = "edit" <=> rows[p].editOf # 0
    /\ waiting \subseteq 1..live
    /\ pc \in [Tasks -> {"idle", "look", "fetch", "page", "apply", "read", "write", "done"}]
    /\ existing \in [Tasks -> SUBSET Places] /\ page \in [Tasks -> SUBSET Places]
    /\ cursor \in [Tasks -> 0..MaxEvents + 1] /\ redacted \in [Tasks -> SUBSET Places]
    /\ \A b \in Tasks : DOMAIN plan[b].text \subseteq Places
    /\ erased \subseteq Places
    /\ reached \in [Tasks -> 0..MaxEvents] /\ calm \in [Tasks -> BOOLEAN]

Kind(p) == timeline[p].kind

\* The server takes the content of a redacted event away.
Gone(p) == \E q \in DOMAIN timeline : Kind(q) = "redact" /\ timeline[q].of = p

Newest(S) == CHOOSE p \in S : \A q \in S : q <= p

Init ==
    /\ timeline = <<>> /\ live = 0 /\ rows = <<>> /\ waiting = {}
    /\ pc = [b \in Tasks |-> "idle"]
    /\ existing = [b \in Tasks |-> {}] /\ page = [b \in Tasks |-> {}]
    /\ cursor = [b \in Tasks |-> 0] /\ redacted = [b \in Tasks |-> {}]
    /\ plan = [b \in Tasks |-> NoPlan]
    /\ erased = {} /\ reached = [b \in Tasks |-> 0] /\ calm = [b \in Tasks |-> FALSE]

-----------------------------------------------------------------------------
(* The store.  Each of these is one transaction.                           *)

\* save_message(): a row is inserted, or the row of that id is overwritten.
SaveMessage(p) ==
    LET row == [direction |-> IF Kind(p) = "edit" THEN "edit" ELSE "forward",
                editOf |-> IF Kind(p) = "edit" THEN timeline[p].of ELSE 0,
                text |-> p]
    IN  [q \in DOMAIN rows \cup {p} |-> IF q = p THEN row ELSE rows[q]]

\* save_message() of a placeholder: a message under the event's own id, also for an edit,
\* since nobody can tell yet what it is.
SavePlaceholder(p) ==
    LET row == [direction |-> "forward", editOf |-> 0, text |-> 0]
    IN  [q \in DOMAIN rows \cup {p} |-> IF q = p THEN row ELSE rows[q]]

\* A faulty variant of UpdateMessageText: the statement has no WHERE.
UpdateMessageTextAll(p, text) == [q \in DOMAIN rows |-> [rows[q] EXCEPT !.text = text]]

UpdateMessageText(p, text) ==
    [q \in DOMAIN rows |-> IF q = p THEN [rows[q] EXCEPT !.text = text] ELSE rows[q]]

DeleteMessages(S) == [q \in DOMAIN rows \ S |-> rows[q]]

\* The first half of reconcile_edits(): for each message with edits, the newest edit, and
\* the text at the end of the chain of edits of edits.
Edits == {e \in DOMAIN rows : rows[e].direction = "edit"}

Originals == {rows[e].editOf : e \in Edits}

\* A faulty variant of LatestEdit: the edits are sorted the other way.
LatestEditDescending(o) ==
    CHOOSE e \in Edits : /\ rows[e].editOf = o
                         /\ \A f \in Edits : rows[f].editOf = o => e <= f

LatestEdit(o) == Newest({e \in Edits : rows[e].editOf = o})

Resolved ==
    LET end[o \in Places] ==
            IF o \notin Originals THEN o
            ELSE IF LatestEdit(o) \in Originals THEN end[LatestEdit(o)] ELSE LatestEdit(o)
    IN  [o \in Originals |-> rows[end[o]].text]

EditPlan ==
    LET found == Originals \cap DOMAIN rows
    IN  [text |-> [o \in found |-> Resolved[o]],
         delete |-> {LatestEdit(o) : o \in found},
         promote |-> {LatestEdit(o) : o \in Originals \ found}]

\* The second half, one transaction.
Reconciled(do) ==
    [q \in DOMAIN rows \ do.delete |->
        LET r == IF q \in DOMAIN do.text THEN [rows[q] EXCEPT !.text = do.text[q]] ELSE rows[q]
        IN  IF q \in do.promote THEN [r EXCEPT !.direction = "forward", !.editOf = 0] ELSE r]

-----------------------------------------------------------------------------
(* The room and the live handlers.                                         *)

\* Every backfill but b is no longer alone.
Disturb(b) == calm' = [c \in Tasks |-> calm[c] /\ c = b]

DisturbAll == calm' = [c \in Tasks |-> FALSE]

\* Only messages are redacted, and what is edited is not redacted yet.
Post ==
    /\ Len(timeline) < MaxEvents
    /\ \E kind \in {"message", "edit", "redact"}, of \in 1..(Len(timeline) + 1) :
        /\ IF kind = "message" THEN of = Len(timeline) + 1
           ELSE /\ of <= Len(timeline) /\ ~Gone(of)
                /\ Kind(of) \in (IF kind = "edit" THEN {"message", "edit"} ELSE {"message"})
        /\ timeline' = Append(timeline, [kind |-> kind, of |-> of])
    /\ DisturbAll
    /\ UNCHANGED <<live, rows, waiting, tasks, erased, reached>>

Live(kind) == live < Len(timeline) /\ Kind(live + 1) = kind /\ live' = live + 1

LiveMessage ==
    /\ Live("message")
    /\ rows' = SaveMessage(live + 1)
    /\ DisturbAll
    /\ UNCHANGED <<timeline, waiting, tasks, erased, reached>>

\* _on_source_edit(): an edit changes the row of the message, if there is one.
LiveEdit ==
    /\ Live("edit")
    /\ rows' = UpdateMessageText(timeline[live + 1].of, live + 1)
    /\ DisturbAll
    /\ UNCHANGED <<timeline, waiting, tasks, erased, reached>>

\* A backfill that has p in hand was given it before the redaction and may save it yet.
InHand(p) == \E b \in Tasks : p \in page[b] \ existing[b]

LiveRedact ==
    LET p == timeline[live + 1].of
    IN  /\ Live("redact")
        /\ rows' = DeleteMessages({p})
        /\ erased' = IF InHand(p) \/ p \in waiting THEN erased ELSE erased \cup {p}
        /\ DisturbAll
        /\ UNCHANGED <<timeline, waiting, tasks, reached>>

\* The handlers never see an event: the bridge was away too long or was not in the room.
LiveMisses ==
    /\ live < Len(timeline)
    /\ live' = live + 1
    /\ DisturbAll
    /\ UNCHANGED <<timeline, rows, waiting, tasks, erased, reached>>

\* _on_encrypted_event(): the key of a message or an edit is missing.  A placeholder is saved,
\* and the event is kept in the queue or in the table of failed decryptions.
LivePlaceholder ==
    /\ Live("message") \/ Live("edit")
    /\ live + 1 \in Keyless
    /\ rows' = SavePlaceholder(live + 1)
    /\ waiting' = waiting \cup {live + 1}
    /\ DisturbAll
    /\ UNCHANGED <<timeline, tasks, erased, reached>>

\* The key has come: _dispatch_decrypted() hands the event to the handler that it would have
\* had.  It may do so again after an end of the process, and though the message was redacted
\* meanwhile.
LateMessage(p) ==
    /\ Kind(p) = "message"
    /\ rows' = SaveMessage(p)
    /\ waiting' \in {waiting, waiting \ {p}}
    /\ DisturbAll
    /\ UNCHANGED <<timeline, live, tasks, erased, reached>>

LateEdit(p) ==
    /\ Kind(p) = "edit"
    /\ rows' = UpdateMessageText(timeline[p].of, p)
    /\ waiting' \in {waiting, waiting \ {p}}
    /\ DisturbAll
    /\ UNCHANGED <<timeline, live, tasks, erased, reached>>

-----------------------------------------------------------------------------
(* A backfill b of the room.                                               *)

Goto(b, place) == pc' = [pc EXCEPT ![b] = place]

\* The locals of backfill_room() end with it.
Forget(b) ==
    /\ existing' = [existing EXCEPT ![b] = {}]
    /\ page' = [page EXCEPT ![b] = {}]
    /\ cursor' = [cursor EXCEPT ![b] = 0]
    /\ redacted' = [redacted EXCEPT ![b] = {}]

\* clear_all(), if the user asked for it: the looks of others are no longer true.
Clear(b) ==
    /\ pc[b] = "idle" /\ b \in WebTasks
    /\ rows' = <<>>
    /\ reached' = [c \in Tasks |-> 0]
    /\ Goto(b, "look")
    /\ Disturb(b)
    /\ UNCHANGED <<timeline, live, waiting, existing, page, cursor, redacted, plan, erased>>

\* The start of backfill_room(): get_existing_event_ids().
Look(b) ==
    /\ pc[b] \in {"idle", "look"}
    /\ existing' = [existing EXCEPT ![b] = DOMAIN rows]
    /\ reached' = [reached EXCEPT ![b] = Len(timeline)]
    /\ calm' = [calm EXCEPT ![b] = TRUE]
    /\ Goto(b, "fetch")
    /\ UNCHANGED <<timeline, live, rows, waiting, page, cursor, redacted, plan, erased>>

\* A faulty variant of Fetch: the page ends one event too early.
FetchOffByOne(b) ==
    LET last == IF cursor[b] = 0 THEN Len(timeline) ELSE cursor[b] - 1
        first == IF last > PageSize THEN last - PageSize + 1 ELSE 1
    IN  /\ pc[b] = "fetch"
        /\ page' = [page EXCEPT ![b] = {p \in first..(last - 1) : ~Gone(p)}]
        /\ cursor' = [cursor EXCEPT ![b] = first]
        /\ Goto(b, "page")
        /\ UNCHANGED <<timeline, live, rows, waiting, existing, redacted, plan, erased,
                       reached, calm>>

\* room_messages() answers with the newest events before the cursor.
Fetch(b) ==
    LET last == IF cursor[b] = 0 THEN Len(timeline) ELSE cursor[b] - 1
        first == IF last > PageSize THEN last - PageSize + 1 ELSE 1
    IN  /\ pc[b] = "fetch"
        /\ page' = [page EXCEPT ![b] = {p \in first..last : ~Gone(p)}]
        /\ cursor' = [cursor EXCEPT ![b] = first]
        /\ Goto(b, "page")
        /\ UNCHANGED <<timeline, live, rows, waiting, existing, redacted, plan, erased,
                       reached, calm>>

LeaveOut(b) ==
    /\ reached' = [reached EXCEPT ![b] = 0]
    /\ calm' = [calm EXCEPT ![b] = FALSE]

\* The answer is an error: the backfill of this room ends as if it were at the start.
FetchRefused(b) ==
    /\ pc[b] = "fetch"
    /\ LeaveOut(b)
    /\ Goto(b, "apply")
    /\ UNCHANGED <<timeline, live, rows, waiting, existing, page, cursor, redacted, plan, erased>>

\* An exception leaves backfill_room().  The web server goes on with the next room and then
\* reconciles; a backfill for a new room ends.
FetchRaises(b) ==
    /\ pc[b] = "fetch"
    /\ LeaveOut(b)
    /\ Goto(b, IF b \in WebTasks THEN "read" ELSE "idle")
    /\ Forget(b)
    /\ UNCHANGED <<timeline, live, rows, waiting, plan, erased>>

\* A page is looked at from its newest event on.
Foremost(b, p) == pc[b] = "page" /\ \A q \in page[b] : q <= p

Taken(b, p) == page' = [page EXCEPT ![b] = @ \ {p}]

\* A faulty variant of Take: the look at the ids is not used.
TakeAnew(b) ==
    \E p \in page[b] :
        /\ Foremost(b, p) /\ Taken(b, p)
        /\ IF Kind(p) = "redact"
           THEN /\ redacted' = [redacted EXCEPT ![b] = @ \cup {timeline[p].of}]
                /\ UNCHANGED <<rows, existing, calm>>
           ELSE /\ rows' = SaveMessage(p)
                /\ existing' = [existing EXCEPT ![b] = @ \cup {p}]
                /\ Disturb(b)
                /\ UNCHANGED redacted
        /\ UNCHANGED <<timeline, live, waiting, pc, cursor, plan, erased, reached>>

\* The next event of the page.  A message may have media, whose download is awaited, so
\* anything may come between two events.
Take(b) ==
    \E p \in page[b] :
        /\ Foremost(b, p) /\ Taken(b, p)
        /\ IF Kind(p) = "redact"
           THEN /\ redacted' = [redacted EXCEPT ![b] = @ \cup {timeline[p].of}]
                /\ UNCHANGED <<rows, existing, calm>>
           ELSE IF p \in existing[b] THEN UNCHANGED <<rows, existing, redacted, calm>>
           ELSE /\ rows' = SaveMessage(p)
                /\ existing' = [existing EXCEPT ![b] = @ \cup {p}]
                /\ Disturb(b)
                /\ UNCHANGED redacted
        /\ UNCHANGED <<timeline, live, waiting, pc, cursor, plan, erased, reached>>

\* The event cannot be decrypted.
TakeUndecryptable(b) ==
    \E p \in page[b] :
        /\ Foremost(b, p) /\ Taken(b, p)
        /\ Kind(p) # "redact"
        /\ LeaveOut(b)
        /\ UNCHANGED <<timeline, live, rows, waiting, pc, existing, cursor, redacted, plan,
                       erased>>

\* The event is older than the days that were asked for.
CutOff(b) ==
    /\ pc[b] = "page" /\ page[b] # {}
    /\ page' = [page EXCEPT ![b] = {}]
    /\ LeaveOut(b)
    /\ Goto(b, "apply")
    /\ UNCHANGED <<timeline, live, rows, waiting, existing, cursor, redacted, plan, erased>>

EndPage(b) ==
    /\ pc[b] = "page" /\ page[b] = {}
    /\ Goto(b, IF cursor[b] > 1 THEN "fetch" ELSE "apply")
    /\ UNCHANGED <<timeline, live, rows, waiting, existing, page, cursor, redacted, plan, erased,
                   reached, calm>>

ApplyRedactions(b) ==
    /\ pc[b] = "apply"
    /\ rows' = DeleteMessages(redacted[b])
    /\ erased' = erased \cup {p \in redacted[b] : p <= live /\ ~InHand(p) /\ p \notin waiting}
    /\ Disturb(b)
    /\ Forget(b)
    /\ Goto(b, "read")
    /\ UNCHANGED <<timeline, live, waiting, plan, reached>>

ReconcileReads(b) ==
    /\ pc[b] = "read"
    /\ plan' = [plan EXCEPT ![b] = EditPlan]
    /\ Goto(b, "write")
    /\ UNCHANGED <<timeline, live, rows, waiting, existing, page, cursor, redacted, erased,
                   reached, calm>>

ReconcileWrites(b) ==
    /\ pc[b] = "write"
    /\ rows' = Reconciled(plan[b])
    /\ plan' = [plan EXCEPT ![b] = NoPlan]
    /\ Disturb(b)
    /\ Goto(b, "done")
    /\ UNCHANGED <<timeline, live, waiting, existing, page, cursor, redacted, erased, reached>>

Finish(b) ==
    /\ pc[b] = "done"
    /\ LeaveOut(b)
    /\ Goto(b, "idle")
    /\ UNCHANGED <<timeline, live, rows, waiting, existing, page, cursor, redacted, plan, erased>>

\* The process ends and starts again; the table and the place of the handlers stay.
Restart ==
    /\ \E b \in Tasks : pc[b] # "idle"
    /\ pc' = [b \in Tasks |-> "idle"] /\ plan' = [b \in Tasks |-> NoPlan]
    /\ existing' = [b \in Tasks |-> {}] /\ page' = [b \in Tasks |-> {}]
    /\ cursor' = [b \in Tasks |-> 0] /\ redacted' = [b \in Tasks |-> {}]
    /\ reached' = [b \in Tasks |-> 0] /\ DisturbAll
    /\ UNCHANGED <<timeline, live, rows, waiting, erased>>

-----------------------------------------------------------------------------

Backfill(b) ==
    \/ Look(b) \/ Fetch(b) \/ FetchRefused(b) \/ FetchRaises(b)
    \/ Take(b) \/ TakeUndecryptable(b) \/ CutOff(b) \/ EndPage(b)
    \/ ApplyRedactions(b) \/ ReconcileReads(b) \/ ReconcileWrites(b) \/ Finish(b)

Environment ==
    \/ Post \/ LiveMessage \/ LiveEdit \/ LiveRedact \/ LiveMisses \/ LivePlaceholder \/ Restart
    \/ \E p \in waiting : LateMessage(p) \/ LateEdit(p)

Next ==
    \/ Environment
    \/ \E b \in Tasks : Clear(b) \/ Backfill(b)

Spec == Init /\ [][Next]_vars

-----------------------------------------------------------------------------
(* Properties.                                                             *)

\* The message that an event belongs to.
Root(p) == LET root[q \in 1..p] == IF Kind(q) = "message" THEN q ELSE root[timeline[q].of]
           IN  root[p]

\* The text of a message after all of its edits, by the rule that the newest edit counts.
FinalText(p) ==
    LET editsOf(q) == {e \in DOMAIN timeline : Kind(e) = "edit" /\ timeline[e].of = q}
        last[q \in Places] == IF editsOf(q) = {} THEN q ELSE last[Newest(editsOf(q))]
    IN  last[p]

\* No text ends up in the row of another message, whatever a reconciliation folds into
\* which row (message_store.py:702-712, 736-745).
OwnText == \A p \in DOMAIN rows : rows[p].text # 0 => Root(rows[p].text) = Root(p)

\* A message whose redaction was carried out while no backfill had it in hand, and that did
\* not wait for its key, never comes back: neither does a backfill save it again, nor a
\* handler, nor the key of another event (core.py:478-484, backfill.py:480-489).
DeletedStaysDeleted == erased \cap DOMAIN rows = {}

\* After a backfill that left nothing out every message that was in the room when it looked
\* has a row, its own or the placeholder of a handler that could not decrypt it, though the
\* backfill skips what its look had found and others delete rows meanwhile
\* (backfill.py:426-527).
NothingLeftOut ==
    \A b \in Tasks : pc[b] \in {"read", "write", "done"} =>
        \A p \in 1..reached[b] : Kind(p) = "message" /\ ~Gone(p) => p \in DOMAIN rows

\* An edit that has a row like a message: its message was missing when a backfill folded it,
\* or its key was missing when a handler saw it.
Promoted(p) == \E e \in DOMAIN rows :
    Kind(e) = "edit" /\ rows[e].direction = "forward" /\ Root(e) = p

\* After a backfill that left nothing out and was alone, every message has the text of its
\* newest edit, unless its row is still a placeholder, which a backfill takes for the message,
\* or an edit of it has a row like a message (message_store.py:675-750, backfill.py:485).
LatestAfterBackfill ==
    \A b \in Tasks : pc[b] = "done" /\ calm[b] =>
        \A p \in 1..reached[b] :
            Kind(p) = "message" /\ ~Gone(p) /\ ~Promoted(p) =>
                rows[p].text \in {0, FinalText(p)}

-----------------------------------------------------------------------------
(* What the documentation says and the code does not do: the README tells  *)
(* how each is violated.  No run checks these.                             *)

\* docs/ARCHITECTURE.md:690, of reconcile_edits(): "applies latest text".  A reconciliation
\* that nothing comes between never puts an older text in the place of a newer one.
ReconcileKeepsLatest ==
    [][\A b \in Tasks : pc[b] = "write" /\ pc'[b] = "done" /\ calm[b] =>
          \A p \in DOMAIN rows \cap DOMAIN rows' : rows'[p].text >= rows[p].text]_vars

\* docs/ARCHITECTURE.md:816, of the backfill: "Redaction handling (deletes redacted
\* messages)".
RedactedTextGone ==
    \A b \in Tasks : pc[b] = "done" /\ calm[b] /\ reached[b] # 0 =>
        \A p \in DOMAIN rows : rows[p].text # 0 => ~Gone(Root(rows[p].text))
=============================================================================
