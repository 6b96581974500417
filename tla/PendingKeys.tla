---------------------------- MODULE PendingKeys ----------------------------
(***************************************************************************)
(* The events of the source that cannot be decrypted yet: the queue by     *)
(* session in memory (_pending_encrypted), the ids in it, the table of     *)
(* failures, and the three tasks that work on them: the sync loop, which   *)
(* queues events and receives room keys, the restore of the key backup,    *)
(* which retries everything, and the periodic recheck.  An action is the   *)
(* code between two awaits of one task.  A logout ends a session of the    *)
(* source wherever its tasks are, and the next login starts another with   *)
(* the same queue.  The target's backend has the same queue and the same   *)
(* handler of room keys, and no key backup task.                           *)
(***************************************************************************)
EXTENDS Naturals, Sequences, FiniteSets, Functions

CONSTANTS
    Sessions,    \* Megolm sessions
    Events,      \* encrypted events, pairs of a session and a number
    MaxSessions, \* MAX_PENDING_SESSIONS
    MaxPerSession, \* MAX_PENDING_EVENTS_PER_SESSION
    MaxFailed,   \* MAX_FAILED_DECRYPTIONS
    Recovery,    \* a recovery key is configured
    MaxFaults,   \* bound: dispatches that raise and requests that are refused
    MaxEnds      \* bound: ends of the source's session or of the process

ASSUME PendingAssumption ==
    /\ Events \subseteq Sessions \X Nat
    /\ MaxSessions \in Nat \ {0} /\ MaxPerSession \in Nat \ {0} /\ MaxFailed \in Nat \ {0}
    /\ Recovery \in BOOLEAN /\ MaxFaults \in Nat /\ MaxEnds \in Nat

VARIABLES
    phase,    \* of the source: "down", in the first sync of its start ("syncing"), "starting", "up"
    arrived,  \* events marked as processed
    keys,     \* sessions in the crypto store
    backup,   \* sessions in the key backup on the server
    seen,     \* what the backup had when it was last restored (_backup_last_etag)
    queue,    \* _pending_encrypted, a dict in the order of insertion
    ids,      \* _pending_event_ids
    table,    \* failed_decryptions, oldest first
    work,     \* locals of the sync loop's handler and of a retry pass
    recheck,  \* locals of _recheck_pending_keys
    faults, ends,
    \* The next three record the past and guard no action.
    sent,     \* how often an event was handed on decrypted, up to two
    lost,     \* events that a limit, a refused request or the end of a session, when a task had
              \* them in hand, dropped
    excused,  \* events that may be handed on twice: their dispatch raised, the session, the
              \* process or the pass ended before their row was removed and they had left the
              \* queue, two tasks had them in hand, or they were queued twice
    stranded  \* events that, since the last start, were queued after their key came, left by a
              \* pass that ended early, or are of a session the restore missed and another
              \* event of it was given

vars == <<phase, arrived, keys, backup, seen, queue, ids, table, work, recheck, faults,
          ends, sent, lost, excused, stranded>>

Workers == {"sync", "retry"}

Session(e) == e[1]

\* An item of the queue: an event, and whether room_get_event() had decrypted it already.
Item == [ev : Events, plain : BOOLEAN]

Idle == [at |-> "idle", event |-> <<>>, queued |-> <<>>, session |-> <<>>, todo |-> <<>>,
         failed |-> <<>>, rows |-> <<>>, items |-> <<>>, handled |-> {}, next |-> "idle"]

Rested == [snap |-> <<>>, at |-> 0, still |-> <<>>]

Evs(items) == {items[i].ev : i \in DOMAIN items}

Queued == UNION {Evs(queue[i].events) : i \in DOMAIN queue}

InHand(t) == Evs(work[t].todo) \cup Evs(work[t].failed) \cup Range(work[t].items)
             \cup (IF work[t].at \in {"failed", "refused", "given"} THEN {work[t].event} ELSE {})

TypeOK ==
    /\ phase \in {"down", "syncing", "starting", "up"}
    /\ arrived \subseteq Events /\ keys \subseteq Sessions
    /\ backup \subseteq Sessions /\ seen \subseteq backup
    /\ \A i \in DOMAIN queue : /\ queue[i].session \in Sessions
                               /\ queue[i].events \in Seq(Item) \ {<<>>}
                               /\ \A e \in Evs(queue[i].events) : Session(e) = queue[i].session
    /\ IsInjective([i \in DOMAIN queue |-> queue[i].session])
    /\ ids \subseteq arrived
    /\ Range(table) \subseteq arrived /\ IsInjective(table) /\ Len(table) <= MaxFailed
    /\ \A t \in Workers : InHand(t) \subseteq arrived
    /\ faults \in 0..MaxFaults /\ ends \in 0..MaxEnds
    /\ sent \in [Events -> 0..2] /\ lost \subseteq arrived
    /\ excused \subseteq arrived /\ stranded \subseteq arrived

Init ==
    /\ phase = "down" /\ arrived = {} /\ keys = {} /\ backup = {} /\ seen = {}
    /\ queue = <<>> /\ ids = {} /\ table = <<>>
    /\ work = [t \in Workers |-> Idle] /\ recheck = Rested
    /\ faults = 0 /\ ends = 0
    /\ sent = [e \in Events |-> 0] /\ lost = {} /\ excused = {} /\ stranded = {}

-----------------------------------------------------------------------------
(* The queue and the table.  The sequences are built up by recursive       *)
(* functions, so that they can be reasoned about.                          *)

\* The members of a sequence that are in S, in their order.
Only(seq, S) ==
    LET first[n \in 0..Len(seq)] ==
            IF n = 0 THEN <<>>
            ELSE IF seq[n] \in S THEN Append(first[n - 1], seq[n]) ELSE first[n - 1]
    IN  first[Len(seq)]

Place(s) == {i \in DOMAIN queue : queue[i].session = s}

EventsOf(s) == LET at == Place(s) IN IF at = {} THEN <<>> ELSE queue[CHOOSE i \in at : TRUE].events

Without(S) == Only(queue, {entry \in Range(queue) : entry.session \notin S})

\* setdefault() and append(): the entry keeps its place in the dict, a new one is the last.
With(q, s, items) ==
    IF \E i \in DOMAIN q : q[i].session = s
    THEN [i \in DOMAIN q |->
             IF q[i].session = s THEN [q[i] EXCEPT !.events = @ \o items] ELSE q[i]]
    ELSE IF items = <<>> THEN q ELSE Append(q, [session |-> s, events |-> items])

\* A faulty variant of Saved: the table is cut one row too late.
SavedOffByOne(rows, e) ==
    LET all == IF e \in Range(rows) THEN rows ELSE Append(rows, e)
        excess == IF Len(all) > MaxFailed + 1 THEN Len(all) - MaxFailed ELSE 0
    IN  SubSeq(all, excess + 1, Len(all))

\* save_failed_decryption(): insert, then cut the table to its limit.
Saved(rows, e) ==
    LET all == IF e \in Range(rows) THEN rows ELSE Append(rows, e)
        excess == IF Len(all) > MaxFailed THEN Len(all) - MaxFailed ELSE 0
    IN  SubSeq(all, excess + 1, Len(all))

\* The items are saved one after the other.
SavedAll(rows, items) ==
    LET after[n \in 0..Len(items)] == IF n = 0 THEN rows ELSE Saved(after[n - 1], items[n].ev)
    IN  after[Len(items)]

EventsIn(s) == {e \in Events : Session(e) = s}

RemoveFailed(e) == Only(table, Events \ {e})

PopFailed(s) == Only(table, Events \ EventsIn(s))

RowsOf(s) == Only(table, EventsIn(s))

\* The sessions of the table, in the order of their first row.
FailedSessions ==
    LET first == Only(table, {table[i] : i \in {k \in DOMAIN table :
                                 \A j \in 1..(k - 1) : Session(table[j]) # Session(table[k])}})
    IN  [i \in DOMAIN first |-> Session(first[i])]

\* The recheck holds references to the entries it has seen: one that is popped lives on
\* there, out of the queue.
Detached(S) ==
    LET detach(entry) ==
            IF entry.session \in S /\ ~entry.dead
            THEN [entry EXCEPT !.dead = TRUE, !.events = EventsOf(entry.session)] ELSE entry
    IN  [recheck EXCEPT !.snap = [i \in DOMAIN recheck.snap |-> detach(recheck.snap[i])]]

Current == LET entry == Head(recheck.snap)
           IN  IF entry.dead THEN entry.events ELSE EventsOf(entry.session)

\* What tasks other than t work on, or have handed on before they remove its row.  The
\* recheck writes back what it has seen, even if the limit has dropped it meanwhile.
Claimed(t) == (UNION {InHand(u) \cup work[u].handled : u \in Workers \ {t}})
              \cup (IF t = "recheck" \/ recheck.snap = <<>> THEN {}
                    ELSE Evs(Current) \cup Evs(recheck.still))

\* Task t takes events up: those that another one has in hand may be handed on twice.
TakeUp(t, taken) == excused' = excused \cup (taken \cap Claimed(t))

Set(t, record) == work' = [work EXCEPT ![t] = record]

Dispatched(e) == sent' = [sent EXCEPT ![e] = IF @ = 2 THEN 2 ELSE @ + 1]

\* A dispatch that raises may be repeated, and is.
Fault == faults < MaxFaults /\ faults' = faults + 1

-----------------------------------------------------------------------------
(* The sync loop: _on_encrypted_event(), _enqueue_pending_encrypted().      *)

\* Handlers run in the sync loop, and in the first sync of a start.
Syncs == phase \in {"syncing", "up"}

\* The event is marked as processed.  One that can be decrypted is handed on at once; for
\* the others a placeholder is sent, which takes requests.
Arrive(e) ==
    /\ Syncs /\ work["sync"].at = "idle" /\ e \notin arrived
    /\ arrived' = arrived \cup {e}
    /\ IF Session(e) \in keys THEN Dispatched(e) /\ UNCHANGED work
       ELSE Set("sync", [Idle EXCEPT !.at = "failed", !.event = e]) /\ UNCHANGED sent
    /\ UNCHANGED <<phase, keys, backup, seen, queue, ids, table, recheck, faults, ends,
                   lost, excused, stranded>>

\* restore_session_from_backup(): the server looks the session up ...
AskBackup ==
    /\ work["sync"].at = "failed" /\ Recovery
    /\ \/ /\ work' = [work EXCEPT !["sync"].at =
                          IF Session(work["sync"].event) \in backup THEN "given" ELSE "refused"]
          /\ UNCHANGED faults
       \/ Fault /\ work' = [work EXCEPT !["sync"].at = "refused"]
    /\ UNCHANGED <<phase, arrived, keys, backup, seen, queue, ids, table, recheck, ends,
                   sent, lost, excused, stranded>>

\* ... and the answer comes in.
KeyGiven ==
    LET e == work["sync"].event
    IN  /\ work["sync"].at = "given"
        /\ keys' = keys \cup {Session(e)}
        /\ \/ Dispatched(e) /\ Set("sync", Idle) /\ UNCHANGED <<faults, excused>>
           \/ /\ Fault /\ work' = [work EXCEPT !["sync"].at = "refused"]
              /\ excused' = excused \cup {e} /\ UNCHANGED sent
        /\ stranded' = stranded \cup {x \in Queued \cup Range(table) :
                                         Session(x) = Session(e) /\ Session(e) \in seen}
        /\ UNCHANGED <<phase, arrived, backup, seen, queue, ids, table, recheck, ends, lost>>

\* A faulty variant of Enqueue: the ids of an evicted session stay.
EnqueueKeepsIds ==
    LET e == work["sync"].event
        s == Session(e)
        evicted == IF Place(s) = {} /\ Len(queue) >= MaxSessions THEN {Head(queue).session} ELSE {}
        room == Without(evicted)
        full == With(room, s, <<[ev |-> e, plain |-> FALSE]>>)
        over == {i \in DOMAIN full : Len(full[i].events) > MaxPerSession /\ full[i].session = s}
    IN  /\ work["sync"].at = IF Recovery THEN "refused" ELSE "failed"
        /\ queue' = [i \in DOMAIN full |->
                        IF i \in over THEN [full[i] EXCEPT !.events = Tail(@)] ELSE full[i]]
        /\ ids' = (ids \cup {e}) \ {Head(full[i].events).ev : i \in over}
        /\ recheck' = Detached(evicted)
        /\ table' = Saved(table, e)
        /\ lost' = lost \cup (Range(table) \ Range(table'))
        /\ Set("sync", Idle)
        /\ UNCHANGED <<phase, arrived, keys, backup, seen, faults, ends, sent, excused>>
        /\ stranded' = stranded \cup {x \in {e} : s \in keys}

\* A faulty variant of Enqueue: the failure is not persisted.
EnqueueUnsaved ==
    LET e == work["sync"].event
        s == Session(e)
        evicted == IF Place(s) = {} /\ Len(queue) >= MaxSessions THEN {Head(queue).session} ELSE {}
        room == Without(evicted)
        full == With(room, s, <<[ev |-> e, plain |-> FALSE]>>)
    IN  /\ work["sync"].at = IF Recovery THEN "refused" ELSE "failed"
        /\ queue' = full
        /\ ids' = (ids \cup {e}) \ UNION {Evs(EventsOf(x)) : x \in evicted}
        /\ recheck' = Detached(evicted)
        /\ Set("sync", Idle)
        /\ UNCHANGED <<phase, arrived, keys, backup, seen, table, faults, ends, sent, lost,
                       excused>>
        /\ stranded' = stranded \cup {x \in {e} : s \in keys}

\* The oldest session makes room for a new one, the oldest event for the newest of its
\* session.  An event that is evicted stays in the table.
Enqueue ==
    LET e == work["sync"].event
        s == Session(e)
        evicted == IF Place(s) = {} /\ Len(queue) >= MaxSessions THEN {Head(queue).session} ELSE {}
        room == Without(evicted)
        full == With(room, s, <<[ev |-> e, plain |-> FALSE]>>)
        over == {i \in DOMAIN full : Len(full[i].events) > MaxPerSession /\ full[i].session = s}
    IN  /\ work["sync"].at = IF Recovery THEN "refused" ELSE "failed"
        /\ queue' = [i \in DOMAIN full |->
                        IF i \in over THEN [full[i] EXCEPT !.events = Tail(@)] ELSE full[i]]
        /\ ids' = (ids \cup {e}) \ ((UNION {Evs(EventsOf(x)) : x \in evicted})
                                    \cup {Head(full[i].events).ev : i \in over})
        /\ recheck' = Detached(evicted)
        /\ table' = Saved(table, e)
        /\ lost' = lost \cup (Range(table) \ Range(table'))
        /\ Set("sync", Idle)
        /\ UNCHANGED <<phase, arrived, keys, backup, seen, faults, ends, sent, excused>>
        /\ stranded' = stranded \cup {x \in {e} : s \in keys}

\* A faulty variant of KeyArrives: only the queue is retried.
KeyArrivesQueueOnly(s) ==
    /\ Syncs /\ work["sync"].at = "idle"
    /\ keys' = keys \cup {s}
    /\ Set("sync", [Idle EXCEPT !.at = "try", !.session = s, !.todo = EventsOf(s)])
    /\ queue' = Without({s})
    /\ ids' = ids \ Evs(EventsOf(s))
    /\ recheck' = Detached({s})
    /\ TakeUp("sync", Evs(EventsOf(s)))
    /\ UNCHANGED <<phase, arrived, backup, seen, table, faults, ends, sent, lost, stranded>>

\* _on_room_key_received(): the entry of the session is taken out of the queue.
KeyArrives(s) ==
    /\ Syncs /\ work["sync"].at = "idle"
    /\ keys' = keys \cup {s}
    /\ Set("sync", [Idle EXCEPT !.at = "try", !.session = s, !.todo = EventsOf(s),
                                !.rows = <<s>>])
    /\ queue' = Without({s})
    /\ ids' = ids \ Evs(EventsOf(s))
    /\ recheck' = Detached({s})
    /\ TakeUp("sync", Evs(EventsOf(s)))
    /\ UNCHANGED <<phase, arrived, backup, seen, table, faults, ends, sent, lost, stranded>>

-----------------------------------------------------------------------------
(* A retry pass: the loops that the handler of a room key and              *)
(* _retry_all_pending() share, for a worker t.                             *)

\* The next session of a pass.  A session that another task has popped meanwhile raises a
\* KeyError, which ends the pass.
PopNext ==
    LET w == work["retry"] s == Head(w.queued)
    IN  /\ w.at = "pop"
        /\ IF w.queued = <<>>
           THEN /\ Set("retry", [w EXCEPT !.at = "rows", !.rows = FailedSessions])
                /\ UNCHANGED <<queue, ids, recheck, excused, stranded>>
           ELSE IF Place(s) = {}
           THEN /\ Set("retry", Idle)
                /\ stranded' = stranded \cup Queued \cup Range(table)
                /\ excused' = excused \cup w.handled
                /\ UNCHANGED <<queue, ids, recheck>>
           ELSE /\ Set("retry", [w EXCEPT !.at = "try", !.session = s, !.queued = Tail(@),
                                          !.todo = EventsOf(s)])
                /\ queue' = Without({s})
                /\ ids' = ids \ Evs(EventsOf(s))
                /\ recheck' = Detached({s})
                /\ TakeUp("retry", Evs(EventsOf(s)))
                /\ UNCHANGED stranded
        /\ UNCHANGED <<phase, arrived, keys, backup, seen, table, faults, ends, sent, lost>>

\* The next event of the session: decrypt and hand on.
Try(t) ==
    LET w == work[t] item == Head(w.todo) rest == [w EXCEPT !.todo = Tail(@)]
    IN  /\ w.at = "try" /\ w.todo # <<>>
        /\ \/ /\ item.plain \/ Session(item.ev) \in keys
              /\ Dispatched(item.ev)
              /\ Set(t, [rest EXCEPT !.handled = @ \cup {item.ev}])
              /\ UNCHANGED <<faults, excused>>
           \/ /\ IF item.plain \/ Session(item.ev) \in keys
                 THEN Fault /\ excused' = excused \cup {item.ev}
                 ELSE UNCHANGED <<faults, excused>>
              /\ Set(t, [rest EXCEPT !.failed = Append(@, item)])
              /\ UNCHANGED sent
        /\ UNCHANGED <<phase, arrived, keys, backup, seen, queue, ids, table, recheck,
                       ends, lost, stranded>>

\* What failed goes back to the queue, and the handler of a room key saves it again.
Requeue(t) ==
    LET w == work[t]
        new == Only(w.failed, {item \in Item : item.ev \notin ids})
    IN  /\ w.at = "try" /\ w.todo = <<>>
        /\ queue' = With(queue, w.session, new)
        /\ ids' = ids \cup Evs(new)
        /\ table' = IF t = "sync"
                    THEN SavedAll(table, w.failed) ELSE table
        /\ lost' = lost \cup (Range(table) \ Range(table'))
        /\ Set(t, [w EXCEPT !.failed = <<>>, !.at = IF t = "sync" THEN "rows" ELSE "pop"])
        /\ UNCHANGED <<phase, arrived, keys, backup, seen, recheck, faults, ends, sent,
                       excused, stranded>>

\* What the worker is to do next.
After(next) == IF next = "ensure" THEN [Idle EXCEPT !.at = "ensure", !.rows = FailedSessions]
               ELSE Idle

Over(t) ==
    /\ Set(t, After(work[t].next))
    /\ phase' = IF work[t].next = "up" THEN "up" ELSE phase

\* A faulty variant of PopRows: what was handed on from the queue is not left out.
PopRowsHandledToo(t) ==
    LET w == work[t] s == Head(w.rows)
    IN  /\ w.at = "rows"
        /\ IF w.rows = <<>> THEN Over(t) /\ UNCHANGED <<table, excused>>
           ELSE IF t = "retry" /\ (RowsOf(s) = <<>> \/ s \notin keys)
           THEN Set(t, [w EXCEPT !.rows = Tail(@)]) /\ UNCHANGED <<phase, table, excused>>
           ELSE /\ Set(t, [w EXCEPT !.at = "items", !.rows = Tail(@), !.items = RowsOf(s)])
                /\ table' = PopFailed(s)
                /\ excused' = excused \cup (Range(RowsOf(s)) \cap (Claimed(t) \cup Queued))
                /\ UNCHANGED phase
        /\ UNCHANGED <<arrived, keys, backup, seen, queue, ids, recheck, faults, ends,
                       sent, lost, stranded>>

\* The rows of the next session are removed from the table before they are retried; a pass
\* over all sessions leaves those alone whose key is not there.
PopRows(t) ==
    LET w == work[t] s == Head(w.rows)
    IN  /\ w.at = "rows"
        /\ IF w.rows = <<>> THEN Over(t) /\ UNCHANGED <<table, excused>>
           ELSE IF t = "retry" /\ (RowsOf(s) = <<>> \/ s \notin keys)
           THEN Set(t, [w EXCEPT !.rows = Tail(@)]) /\ UNCHANGED <<phase, table, excused>>
           ELSE /\ Set(t, [w EXCEPT !.at = "items", !.rows = Tail(@),
                                    !.items = Only(RowsOf(s), Events \ w.handled)])
                /\ table' = PopFailed(s)
                /\ excused' = excused \cup (Range(RowsOf(s)) \cap (Claimed(t) \cup Queued))
                /\ UNCHANGED phase
        /\ UNCHANGED <<arrived, keys, backup, seen, queue, ids, recheck, faults, ends,
                       sent, lost, stranded>>

\* The next row: the event is fetched, decrypted and handed on.  One that the server does
\* not give, or whose room is gone, is dropped; one that fails is saved again.
TryRow(t) ==
    LET w == work[t] e == Head(w.items) rest == [w EXCEPT !.items = Tail(@)]
    IN  /\ w.at = "items" /\ w.items # <<>>
        /\ Set(t, rest)
        /\ \/ /\ Session(e) \in keys /\ Dispatched(e)
              /\ UNCHANGED <<table, faults, lost, excused>>
           \/ /\ Fault /\ lost' = lost \cup {e}
              /\ UNCHANGED <<table, sent, excused>>
           \/ /\ IF Session(e) \in keys THEN Fault /\ excused' = excused \cup {e}
                 ELSE UNCHANGED <<faults, excused>>
              /\ table' = Saved(table, e)
              /\ lost' = lost \cup (Range(table) \ Range(table'))
              /\ UNCHANGED sent
        /\ UNCHANGED <<phase, arrived, keys, backup, seen, queue, ids, recheck, ends,
                       stranded>>

RowsDone(t) ==
    /\ work[t].at = "items" /\ work[t].items = <<>>
    /\ work' = [work EXCEPT ![t].at = "rows"]
    /\ UNCHANGED <<phase, arrived, keys, backup, seen, queue, ids, table, recheck, faults,
                   ends, sent, lost, excused, stranded>>

-----------------------------------------------------------------------------
(* The start of the source, and the task that restores the key backup.     *)

Pass(next) == [Idle EXCEPT !.at = "pop", !.next = next,
                           !.queued = [i \in DOMAIN queue |-> queue[i].session]]

\* A session is added to the backup by another client of the account.
BackUp(s) ==
    /\ Recovery /\ s \notin backup
    /\ backup' = backup \cup {s}
    /\ UNCHANGED <<phase, arrived, keys, seen, queue, ids, table, work, recheck, faults,
                   ends, sent, lost, excused, stranded>>

\* restore_key_backup(): the sessions of the backup are imported if it has changed, all that
\* can be decrypted.
Restored(next) ==
    \/ /\ backup # seen
       /\ \E got \in (SUBSET backup) \ {{}} :
            /\ IF got = backup THEN UNCHANGED faults ELSE Fault
            /\ keys' = keys \cup got
       /\ seen' = backup
       /\ Set("retry", Pass(next))
    \/ /\ IF backup = seen THEN UNCHANGED faults ELSE Fault
       /\ Set("retry", After(next))
       /\ UNCHANGED <<keys, seen>>

\* start() of the first session, or of the next one after a logout: queue, ids and etag are
\* made with the backend and are what the last session left.
Start ==
    /\ phase = "down" /\ phase' = "syncing"
    /\ UNCHANGED <<arrived, keys, backup, seen, queue, ids, table, work, recheck, faults, ends,
                   sent, lost, excused, stranded>>

\* The first sync and its handlers are done: the backup is restored, then everything retried.
Synced ==
    /\ phase = "syncing" /\ work["sync"].at = "idle"
    /\ phase' = "starting" /\ stranded' = {}
    /\ IF Recovery THEN Restored("ensure")
       ELSE Set("retry", After("ensure")) /\ UNCHANGED <<keys, seen, faults>>
    /\ UNCHANGED <<arrived, backup, queue, ids, table, recheck, ends, sent, lost, excused>>

\* _ensure_olm_sessions(): the first event of each persisted session goes to the queue, with
\* no regard to its limit; the server's answer is already decrypted if the key is there.  An
\* event the recheck wrote back after the limit dropped its id is queued a second time.
Ensure ==
    LET w == work["retry"] s == Head(w.rows) e == Head(RowsOf(s))
    IN  /\ w.at = "ensure" /\ w.rows # <<>>
        /\ work' = [work EXCEPT !["retry"].rows = Tail(@)]
        /\ \/ /\ e \notin ids
              /\ queue' = With(queue, s, <<[ev |-> e, plain |-> s \in keys]>>)
              /\ ids' = ids \cup {e}
              /\ excused' = excused \cup ({e} \cap Queued)
              /\ UNCHANGED faults
           \/ e \in ids /\ UNCHANGED <<queue, ids, faults, excused>>
           \/ Fault /\ UNCHANGED <<queue, ids, excused>>
        /\ UNCHANGED <<phase, arrived, keys, backup, seen, table, recheck, ends, sent, lost,
                       stranded>>

EnsureDone ==
    /\ work["retry"].at = "ensure" /\ work["retry"].rows = <<>>
    /\ Set("retry", Pass("up"))
    /\ UNCHANGED <<phase, arrived, keys, backup, seen, queue, ids, table, recheck, faults,
                   ends, sent, lost, excused, stranded>>

\* _periodic_key_backup_restore(): a pass follows if something was restored and something
\* is pending.
PeriodicRestore ==
    /\ phase = "up" /\ Recovery /\ work["retry"].at = "idle" /\ backup # seen
    /\ IF queue # <<>> \/ table # <<>> THEN Restored("idle")
       ELSE keys' = keys \cup backup /\ seen' = backup /\ UNCHANGED <<work, faults>>
    /\ UNCHANGED <<phase, arrived, backup, queue, ids, table, recheck, ends, sent, lost,
                   excused, stranded>>

-----------------------------------------------------------------------------
(* _recheck_pending_keys().  Without events that are decrypted already it  *)
(* asks for keys again, and changes nothing here.                          *)

Recheck ==
    /\ phase = "up" /\ recheck.snap = <<>>
    /\ \E i \in DOMAIN queue : \E j \in DOMAIN queue[i].events : queue[i].events[j].plain
    /\ recheck' = [Rested EXCEPT !.snap =
                       [i \in DOMAIN queue |->
                           [session |-> queue[i].session, dead |-> FALSE, events |-> <<>>]]]
    /\ UNCHANGED <<phase, arrived, keys, backup, seen, queue, ids, table, work, faults,
                   ends, sent, lost, excused, stranded>>

\* The next event of the entry in hand.
RecheckEvent ==
    LET item == Current[recheck.at + 1] next == [recheck EXCEPT !.at = @ + 1]
    IN  /\ recheck.snap # <<>> /\ recheck.at < Len(Current)
        /\ \/ /\ item.plain
              /\ Dispatched(item.ev)
              /\ ids' = ids \ {item.ev}
              /\ table' = RemoveFailed(item.ev)
              /\ recheck' = next
              /\ TakeUp("recheck", {item.ev})
              /\ UNCHANGED faults
           \/ /\ IF item.plain THEN Fault /\ excused' = excused \cup {item.ev}
                 ELSE UNCHANGED <<faults, excused>>
              /\ recheck' = [next EXCEPT !.still = Append(@, item)]
              /\ UNCHANGED <<sent, ids, table>>
        /\ UNCHANGED <<phase, arrived, keys, backup, seen, queue, work, ends, lost,
                       stranded>>

\* The rest is written back to the entry; if there is none, the queue's entry of that
\* session goes, even when it is another one by now.
RecheckWrites ==
    LET entry == Head(recheck.snap) next == [Rested EXCEPT !.snap = Tail(recheck.snap)]
    IN  /\ recheck.snap # <<>> /\ recheck.at >= Len(Current)
        /\ queue' = IF recheck.still = <<>> THEN Without({entry.session})
                    ELSE IF entry.dead THEN queue
                    ELSE [i \in DOMAIN queue |-> IF queue[i].session = entry.session
                                                 THEN [queue[i] EXCEPT !.events = recheck.still]
                                                 ELSE queue[i]]
        /\ recheck' = next
        /\ UNCHANGED <<phase, arrived, keys, backup, seen, ids, table, work, faults, ends,
                       sent, lost, excused, stranded>>

-----------------------------------------------------------------------------

\* What the tasks had in hand is lost unless it is in the table; what they have handed on and
\* not removed everywhere yet will be handed on again.
Cut(left) ==
    /\ ends < MaxEnds /\ ends' = ends + 1
    /\ phase' = "down" /\ work' = [t \in Workers |-> Idle] /\ recheck' = Rested
    /\ lost' = lost \cup ((InHand("sync") \cup InHand("retry")) \ Range(table))
    /\ excused' = excused \cup {e \in left : sent[e] > 0}
    /\ UNCHANGED <<arrived, keys, backup, table, faults, sent, stranded>>

\* stop(), by a logout, or a start that raises: the tasks of the session are cancelled where
\* they are.  The process goes on, with its queue.
Stop ==
    /\ phase # "down"
    /\ Cut(Range(table) \cup Queued)
    /\ UNCHANGED <<seen, queue, ids>>

\* The process ends.  The store of keys, the table and the marks stay.
Crash ==
    /\ Cut(Range(table))
    /\ seen' = {} /\ queue' = <<>> /\ ids' = {}

SyncLoop == \/ AskBackup \/ KeyGiven \/ Enqueue
            \/ Try("sync") \/ Requeue("sync") \/ PopRows("sync") \/ TryRow("sync")
            \/ RowsDone("sync")

RetryTask == \/ PopNext \/ Try("retry") \/ Requeue("retry") \/ PopRows("retry")
             \/ TryRow("retry") \/ RowsDone("retry") \/ Ensure \/ EnsureDone

RecheckTask == Recheck \/ RecheckEvent \/ RecheckWrites

Next ==
    \/ \E e \in Events : Arrive(e)
    \/ \E s \in Sessions : KeyArrives(s) \/ BackUp(s)
    \/ SyncLoop \/ RetryTask \/ RecheckTask
    \/ Start \/ Synced \/ PeriodicRestore \/ Stop \/ Crash

Spec == Init /\ [][Next]_vars

-----------------------------------------------------------------------------
(* Properties.                                                             *)

Holders == Range(table) \cup Queued \cup InHand("sync") \cup InHand("retry")

\* An event that could not be decrypted and was not handed on is in the queue, in the table
\* or in the hands of a task, unless a limit, a refused request or the end of a session or of
\* the process dropped it, while three tasks move events between the two
\* (matrix_source.py:262-330, 597-652, matrix_base.py:711-727, 758-835, 925-950).
Kept == \A e \in arrived : sent[e] = 0 => e \in Holders \cup lost

\* While nothing raises, the ids are those of the events in the queue, none of which is
\* there twice: an id too many would keep an event out for good (matrix_base.py:931-950).
IdsAgree ==
    faults = 0 /\ recheck = Rested =>
        /\ ids = Queued
        /\ \A i \in DOMAIN queue : Cardinality(Evs(queue[i].events)) = Len(queue[i].events)

\* docs/ARCHITECTURE.md:1030, of what keeps a message from being handled twice: "Event dedup
\* | `state.is_processed(event_id)` -> skip".  An event is handed on decrypted once, unless
\* its dispatch raised, its session or the process ended before its row was removed, or two
\* tasks had it.
DispatchedOnce == \A e \in Events : sent[e] <= 1 \/ e \in excused

\* docs/USERGUIDE.md:476, of events that could not be decrypted: "The bridge automatically
\* queues these events and retries when keys arrive".  When the tasks have nothing left to
\* do, no event waits whose key is there, over logouts and restarts too, unless its dispatch
\* raised, it was dropped, or a race has left it behind (matrix_source.py:262-330, 508,
\* 597-652).
KeyBringsDispatch ==
    (/\ phase = "up" /\ \A t \in Workers : work[t].at = "idle"
     /\ recheck = Rested /\ backup = seen
     /\ \A i \in DOMAIN queue : \A j \in DOMAIN queue[i].events : ~queue[i].events[j].plain)
    => \A e \in arrived :
          Session(e) \in keys => sent[e] > 0 \/ e \in lost \cup excused \cup stranded
=============================================================================
