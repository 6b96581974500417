------------------------------ MODULE WebJobs ------------------------------
(***************************************************************************)
(* The work the web server starts beside the live bridge: backfills and    *)
(* imports (bridge/web.py).  A backfill may first clear the store, which   *)
(* holds the bridge's own settings too, and logs in with a second client   *)
(* of the same device, which shares the live client's store of keys and    *)
(* its token.  What a backfill and an import write are the subject of      *)
(* History, MediaFiles and Transfer.                                       *)
(***************************************************************************)
EXTENDS Naturals, FiniteSets

CONSTANTS
    Requests,    \* POST /api/backfill, each of them made once
    Uploads,     \* POST /api/import, made again at will
    Window,      \* how many events of a gap the server returns to a sync
    MaxEvents,   \* bound: the events on the source
    MaxCommands, \* bound: the logouts
    MaxEnds      \* bound: the ends of the process

ASSUME WebJobsAssumption ==
    /\ IsFiniteSet(Requests) /\ IsFiniteSet(Uploads)
    /\ Window \in Nat /\ MaxEvents \in Nat /\ MaxCommands \in Nat /\ MaxEnds \in Nat

None == "none"

VARIABLES
    up,          \* the process runs
    newest,      \* the events on the source
    source,      \* the live client of the source is started
    fetched,     \* the events it has got from the server, in this or an earlier run
    batch,       \* its next_batch
    token,       \* the sync token in the client library's store
    enabled,     \* _forwarding_enabled, as the last command set it
    saved,       \* the row forwarding_enabled of bridge_config
    unsaved,     \* a login or logout took effect and its row was not written, or not yet
    running,     \* _backfill_state["running"]
    task,        \* where each request is
    last,        \* _backfill_task: that of the last request
    importing,   \* _import_running
    import,      \* where each upload is
    commands, ends,
    \* The next two record the past and guard no action.
    passedOver,  \* events that the stored token of a backfill passed over
    leftOut      \* events of a gap that the server left out of its answer

vars == <<up, newest, source, fetched, batch, token, enabled, saved, unsaved, running, task, last,
          importing, import, commands, ends, passedOver, leftOut>>

client  == <<source, fetched, batch, token, leftOut>>
flag    == <<enabled, saved, unsaved>>
jobs    == <<running, task, last>>
uploads == <<importing, import>>
limits  == <<commands, ends>>

AtWork == {"clear", "connect", "rooms", "reconcile"}

Positions ==
    /\ newest \in 0..MaxEvents /\ token \in 0..newest /\ batch \in 0..newest
    /\ fetched \subseteq 1..newest /\ passedOver \subseteq 1..newest /\ leftOut \subseteq 1..newest
    /\ commands \in 0..MaxCommands /\ ends \in 0..MaxEnds

\* A connected source is one that was enabled, and no job outlives the process.
TypeOK ==
    /\ Positions
    /\ up \in BOOLEAN /\ source \in BOOLEAN /\ enabled \in BOOLEAN
    /\ saved \in {"yes", "no", None} /\ unsaved \in BOOLEAN
    /\ running \in BOOLEAN /\ last \in Requests \cup {None}
    /\ task \in [Requests -> AtWork \cup {"new", "body", "ended"}]
    /\ importing \in BOOLEAN /\ import \in [Uploads -> {"idle", "upload", "write"}]
    /\ (source => up /\ enabled)
    /\ (~up => ~running /\ ~importing)
    /\ \A r \in Requests : task[r] \in {"new", "ended"} \/ up
    /\ \A u \in Uploads : import[u] = "idle" \/ up

\* The bridge has been running for a while.
Init ==
    /\ up = TRUE /\ newest = 0 /\ source = TRUE /\ fetched = {} /\ batch = 0 /\ token = 0
    /\ enabled = TRUE /\ saved = "yes" /\ unsaved = FALSE
    /\ running = FALSE /\ task = [r \in Requests |-> "new"] /\ last = None
    /\ importing = FALSE /\ import = [u \in Uploads |-> "idle"]
    /\ commands = 0 /\ ends = 0 /\ passedOver = {} /\ leftOut = {}

-----------------------------------------------------------------------------
(* The source and the live client.                                         *)

Send ==
    /\ newest < MaxEvents /\ newest' = newest + 1
    /\ UNCHANGED <<up, client, flag, jobs, uploads, limits, passedOver>>

\* A sync from a token gets the newest events of the gap; the token of its answer is kept by
\* the client and stored at once.
SyncFrom(since) ==
    LET gap  == (since + 1)..newest
        gets == {e \in gap : e + Window > newest}
    IN  /\ fetched' = fetched \cup gets /\ leftOut' = leftOut \cup (gap \ gets)
        /\ batch' = newest /\ token' = newest

Sync ==
    /\ source /\ SyncFrom(batch)
    /\ UNCHANGED <<up, newest, source, flag, jobs, uploads, limits, passedOver>>

\* A faulty variant of Login: the new client does not load the token that is stored.
LoginAnew ==
    /\ up /\ ~source /\ ~unsaved /\ SyncFrom(newest)
    /\ source' = TRUE /\ enabled' = TRUE /\ unsaved' = TRUE
    /\ UNCHANGED <<up, newest, saved, jobs, uploads, limits, passedOver>>

\* The new client loads the token that is stored.  The commands come one by one, each under
\* the control lock until its row is written.
Login ==
    /\ up /\ ~source /\ ~unsaved /\ SyncFrom(token)
    /\ source' = TRUE /\ enabled' = TRUE /\ unsaved' = TRUE
    /\ UNCHANGED <<up, newest, saved, jobs, uploads, limits, passedOver>>

\* The login raises when its first sync is through.
LoginFails ==
    /\ up /\ ~source /\ ~unsaved /\ SyncFrom(token)
    /\ UNCHANGED <<up, newest, source, flag, jobs, uploads, limits, passedOver>>

Logout ==
    /\ source /\ ~unsaved /\ commands < MaxCommands /\ commands' = commands + 1
    /\ source' = FALSE /\ enabled' = FALSE /\ unsaved' = TRUE
    /\ UNCHANGED <<up, newest, fetched, batch, token, leftOut, saved, jobs, uploads, ends, passedOver>>

\* A faulty variant of SaveFlag: the flag is set and not saved.
SaveNothing ==
    /\ up /\ unsaved' = FALSE
    /\ UNCHANGED <<up, newest, client, enabled, saved, jobs, uploads, limits, passedOver>>

\* Every command ends so when its notice is sent, a pause and one that failed too.
SaveFlag ==
    /\ up /\ saved' = (IF enabled THEN "yes" ELSE "no") /\ unsaved' = FALSE
    /\ UNCHANGED <<up, newest, client, enabled, jobs, uploads, limits, passedOver>>

-----------------------------------------------------------------------------
(* The backfill.                                                           *)

Goes(r, at) == task' = [task EXCEPT ![r] = at]

\* The flag is asked before the body of the request is awaited ...
Ask(r) ==
    /\ up /\ task[r] = "new" /\ Goes(r, IF running THEN "ended" ELSE "body")
    /\ UNCHANGED <<up, newest, client, flag, running, last, uploads, limits, passedOver>>

\* ... and set when it is there.
Begin(r) ==
    /\ task[r] = "body" /\ \E clear \in BOOLEAN : Goes(r, IF clear THEN "clear" ELSE "connect")
    /\ running' = TRUE /\ last' = r
    /\ UNCHANGED <<up, newest, client, flag, uploads, limits, passedOver>>

\* clear_all() keeps one row of bridge_config, web_secret; an error in it is swallowed.
Clear(r) ==
    /\ task[r] = "clear" /\ Goes(r, "connect") /\ saved' \in {None, saved}
    /\ UNCHANGED <<up, newest, client, enabled, unsaved, running, last, uploads, limits, passedOver>>

\* The second client syncs, and its token is stored where the first one's is.
Connect(r) ==
    /\ task[r] = "connect" /\ Goes(r, "rooms") /\ token' = newest
    /\ passedOver' = passedOver \cup (1..newest \ fetched)
    /\ UNCHANGED <<up, newest, source, fetched, batch, leftOut, flag, running, last, uploads, limits>>

\* A room that fails is passed over.
Rooms(r) ==
    /\ task[r] = "rooms" /\ Goes(r, "reconcile")
    /\ UNCHANGED <<up, newest, client, flag, running, last, uploads, limits, passedOver>>

Finish(r) ==
    /\ task[r] = "reconcile" /\ Goes(r, "ended") /\ running' = FALSE
    /\ UNCHANGED <<up, newest, client, flag, last, uploads, limits, passedOver>>

\* A faulty variant of Raise: the error is noted, the flag is not reset.
RaiseOn(r) ==
    /\ task[r] \in AtWork /\ Goes(r, "ended")
    /\ UNCHANGED <<up, newest, client, flag, running, last, uploads, limits, passedOver>>

Raise(r) ==
    /\ task[r] \in AtWork /\ Goes(r, "ended") /\ running' = FALSE
    /\ UNCHANGED <<up, newest, client, flag, last, uploads, limits, passedOver>>

-----------------------------------------------------------------------------
(* The import.                                                             *)

\* The flag is asked and set at once; with one at work the request is refused.
Upload(u) ==
    /\ up /\ import[u] = "idle" /\ ~importing /\ importing' = TRUE
    /\ import' = [import EXCEPT ![u] = "upload"]
    /\ UNCHANGED <<up, newest, client, flag, jobs, limits, passedOver>>

Uploaded(u) ==
    /\ import[u] = "upload" /\ import' = [import EXCEPT ![u] = "write"]
    /\ importing' = TRUE
    /\ UNCHANGED <<up, newest, client, flag, jobs, limits, passedOver>>

\* A faulty variant of Imported: an error leaves the flag.
ImportedWell(u) ==
    /\ import[u] # "idle" /\ import' = [import EXCEPT ![u] = "idle"]
    /\ importing' = (import[u] = "upload")
    /\ UNCHANGED <<up, newest, client, flag, jobs, limits, passedOver>>

\* The end of it, by whatever error or none: a file too large, one of another format, a
\* client that has gone.
Imported(u) ==
    /\ import[u] # "idle" /\ import' = [import EXCEPT ![u] = "idle"]
    /\ importing' = FALSE
    /\ UNCHANGED <<up, newest, client, flag, jobs, limits, passedOver>>

-----------------------------------------------------------------------------
(* The end of the process, by stop() or otherwise, and its next start.     *)

End ==
    /\ up /\ ends < MaxEnds /\ ends' = ends + 1
    /\ up' = FALSE /\ source' = FALSE /\ running' = FALSE /\ last' = None
    /\ task' = [r \in Requests |-> IF task[r] = "new" THEN "new" ELSE "ended"]
    /\ importing' = FALSE /\ import' = [u \in Uploads |-> "idle"]
    /\ UNCHANGED <<newest, fetched, batch, token, leftOut, flag, commands, passedOver>>

\* Without a row the forwarding is enabled.
Start ==
    /\ ~up /\ up' = TRUE
    /\ enabled' = (saved # "no") /\ source' = enabled' /\ unsaved' = FALSE
    /\ IF enabled' THEN SyncFrom(token) ELSE UNCHANGED <<fetched, batch, token, leftOut>>
    /\ UNCHANGED <<newest, saved, jobs, uploads, limits, passedOver>>

Next ==
    \/ Send \/ Sync \/ Login \/ LoginFails \/ Logout \/ SaveFlag \/ End \/ Start
    \/ \E r \in Requests :
        Ask(r) \/ Begin(r) \/ Clear(r) \/ Connect(r) \/ Rooms(r) \/ Finish(r) \/ Raise(r)
    \/ \E u \in Uploads : Upload(u) \/ Uploaded(u) \/ Imported(u)

Spec == Init /\ [][Next]_vars

\* The tasks of asyncio go on while the process runs.
FairSpec ==
    /\ Spec
    /\ \A r \in Requests : WF_vars(Begin(r) \/ Clear(r) \/ Connect(r) \/ Rooms(r) \/ Finish(r))
    /\ \A u \in Uploads : WF_vars(Uploaded(u)) /\ WF_vars(Imported(u))

-----------------------------------------------------------------------------
\* At most one import writes or waits for its file.
OneImport == \A u, v \in Uploads : import[u] # "idle" /\ import[v] # "idle" => u = v

\* Whoever is refused a backfill or an import is refused for one that is at work: no error
\* leaves the server busy for ever.
BusyIsAtWork ==
    /\ running => \E r \in Requests : task[r] \in AtWork
    /\ importing => \E u \in Uploads : import[u] # "idle"

\* The server takes a backfill again, whatever became of the one before.
BackfillAgain == []<>~running

\* A start finds what the last command set, however the process ended, unless it ended before
\* the command's row was written or a backfill has cleared the settings since
\* (core.py:386-412, 445-448, 94-99, message_store.py:527-538).
CommandKept == [][Start => enabled' = enabled \/ unsaved \/ saved = None]_vars

\* The live client gets every event of the source up to where it is, over logouts, logins that
\* fail and restarts, but those that the server left out of a limited answer and those that a
\* backfill's connection to the shared store passed over (matrix_base.py:999-1009,
\* matrix_source.py:89, backfill.py:138-146).
NothingSkipped == source => 1..batch \subseteq fetched \cup leftOut \cup passedOver

-----------------------------------------------------------------------------
(* What the documentation says and the code does not do: the README tells  *)
(* how it is violated.  No run checks it.                                  *)

\* docs/USERGUIDE.md:365: "Only one backfill can run at a time".
OneBackfill == Cardinality({r \in Requests : task[r] \in AtWork}) <= 1
=============================================================================
