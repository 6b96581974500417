# mxBridge in TLA+

mxBridge relays Matrix messages from the rooms of a source homeserver (A) to one room of a
target homeserver (B), and answers from B back to A.  It is one asyncio process in Python
(`src/main.py`, `src/bridge/`, `src/backends/`) with an SQLite file.  This directory models
its core in TLA+, checks the models with TLC on small instances, and proves the main results
with TLAPS for every value of the constants.  Paths below are relative to `src/`.

Contents

1. Inventory of the system
2. Modules, and how they correspond to the code
3. Runs: what is checked, bounds, fairness
4. Theorems
5. Abstractions, and what is not modelled
6. Where code and documentation disagree
7. Plan

## 1. Inventory of the system

### Components

| Component | State it keeps | Operations | What makes it correct |
|---|---|---|---|
| Control plane (`bridge/core.py:76-130, 366-448`, `main.py`) | `_forwarding_enabled`, `_forwarding_paused`, `_source_started`, the control lock; two rows of `bridge_config` | start, stop, `!login` `!logout` `!pause` `!resume` `!status` | one source session; a true status; flags that survive a crash; every command answered |
| Forwarding A to B (`bridge/core.py:185-217, 245-327, 450-503`, `backends/matrix_source.py:423-549`) | source-to-target map, event-to-room map, processed events | message, edit, redaction, each saved and then relayed | a message is posted once; what is withheld stays so; edits and redactions reach the right copy; none reaches a copy from before a logout |
| Sync loop (`backends/matrix_base.py:695-753, 999-1059`) | `next_batch` in memory, the sync token in the database, the client library's own token, `_running`, the tasks | sync, save the token, back off, flush, stop | every event is dealt with; none is lost or handled twice over restarts |
| State store (`bridge/state.py`) | four tables and their copies in memory, with limits of 10000, 5000, 5000 and 2000 rows | load, migrate from JSON, save, pop, clear, trim | memory and table agree when nothing is pending; no table outgrows its limit |
| Replies B to A (`bridge/core.py:329-364, 505-572`, `backends/matrix_target.py`) | event-to-room map | reply to a copy, `!send`, acknowledgement, failure notice | a reply goes to the room of what it answers, once, and its author learns of its fate |
| Read receipts (`bridge/core.py:219-243`) | one receipt for each room, a flush task | buffer, flush | the last receipt is forwarded |
| Pending decryptions (`backends/matrix_base.py:758-980`, `backends/matrix_source.py:159-333, 590-660`, `backends/matrix_target.py:203-261`, `bridge/state.py:260-326`) | queue of events by session, set of queued ids, table of failures | enqueue, evict, re-request, retry when a key or a backup comes | each event is dispatched once when its key comes; queue and table agree |
| Message store (`bridge/message_store.py`) | messages with a full-text index, aliases, media files | save, edit, delete, reconcile, search, export, import | latest text, redacted rows gone, files and rows agree |
| Database encryption (`bridge/message_store.py:261-471`) | the file, its plaintext backup, the salt | migrate | no row is lost, whenever the process dies |
| Backfill (`scripts/backfill.py`, `bridge/web.py:233-349`) | `_backfill_state`, a look at the ids there are | page backwards, save, apply redactions | nothing newer is overwritten; one at a time |
| Token refresh (`backends/matrix_base.py:642-709`, `backends/sso_login.py`) | access and refresh token, in memory and configuration | refresh silently, by browser, by timer or by an error of the sync | one refresh at a time; the newest token is kept |
| Key backup, verification, calls, names, web pages, set-up, scripts | see `PROJECT.json` | | |

### How they interact

* Each backend has its own client and one sync loop.  The client library calls the backend's
  handler for every event of a response, one after the other, and moves its tokens to the end
  of the response *before* the first call.  The handler calls `BridgeCore` and is awaited.
* `BridgeCore` calls the other backend to post, edit and redact, the message store and the
  state store.  Both stores run their SQL on the threads of the executor.
* A command comes from the target's sync loop or from its periodic key recheck, and starts or
  stops the *source* backend, so it cancels the source's handlers wherever they are.
* The web server shares the message store and runs backfills with a client of its own.

### What is hard

* *Interleaving.*  Two tasks deliver commands, `core.start()` runs beside them, and each source
  session has a loop, a flush and a key task.  Every `await` is a place for the others.
* *Crashes and cancellation.*  An event is marked, saved, sent, mapped, and its token is saved,
  in five steps, each of which may be the last.
* *Lost answers.*  A request may take effect and fail all the same.
* *Stale state.*  Tokens that run ahead of the handler, maps read before an await, copies of
  tables trimmed from another thread.
* *Limits.*  Queues and tables that drop their oldest entries while these are in use.

* *Files and transactions.*  A save, a deletion and a migration each change files and a
  database, which no transaction covers together.
* *Shared stores.*  A backfill's client has the live client's token and keys; clearing the
  messages clears the bridge's settings.

`PROJECT.json` lists the forty most important of these as hazards, each at its line, with the
properties that cover it or the reason why none does.

## 2. Modules, and how they correspond to the code

| Module | Models | Kind |
|---|---|---|
| `ControlPlane` | start-up, commands, flags, sessions | component |
| `Forwarding` | sync loop, tokens, deduplication, forwarding, edits, redactions | component |
| `Relay` | what the bridge promises of one message | abstract specification, implemented by `Forwarding` |
| `StateStore` | one bounded table with its memory and its jobs | component |
| `Replies` | the target's start and sync loop, replies and `!send` to A | component |
| `PendingKeys` | undecryptable events: queue, ids, table of failures, three tasks, sessions of the source | component |
| `History` | the rows of one room: live handlers, backfills, reconciliation of edits | component |
| `MediaFiles` | rows and media files: save, delete, clear, backfill, repair | component |
| `StoreOpening` | salt, migration to an encrypted file, schema, full-text index | component |
| `WebJobs` | backfills and imports as jobs beside the live client | component |
| `Transfer` | exports and imports in batches beside live changes | component |
| `MC*` | one instance of each component for TLC | model checking |
| `ControlPlaneProofs`, `ForwardingProofs`, `RepliesProofs`, `PendingKeysProofs`, `HistoryProofs`, `WebJobsProofs` | theorems about the module of their name; the second part of `ForwardingProofs` is the refinement of `Relay` | proofs |
| `DatabaseProofs` | theorems about `StateStore` and, in its last part, about `StoreOpening`, the two that say what a start finds again | proofs |
| `MessageStoreProofs` | theorems about `MediaFiles` and, in its second part, about `Transfer`, the two that share the store's rows | proofs |

Every definition that stands for code has an entry in `map` of `PROJECT.json` with its lines.
Definitions that follow the words "a faulty variant" change one definition the way a plausible
bug would; no specification uses them, and they serve to show that each property can fail.

### ControlPlane

An action is the code between two awaits.  The main task (`main`) goes through
`core.start()`: the target first, then the flags, then the source.  Two handler tasks
(`pc`, `cmd`, `lock`) run `_handle_control` under the lock; a source session is an identity in
`live`, of which `syncTask` is the one that `stop()` knows.  A session that was not cancelled
ends when it sees `running` cleared.  `LoadFlags` waits for the target's first sync but not for
the recheck task, which `target.start()` has already created: this is how a `!login` comes
between.  `ProcessEnds` keeps the database alone.  `settled`, `early` and `stopFailed` are
history variables.

### Forwarding

The source's rooms are one sequence (`timeline`), and a token is a position in it.
`dbToken` is the row of `bridge_config`, `nioToken` the token of the client library's store,
which the first start falls back to, `next` is `client.next_batch`, and `pos` how far the
handlers are.  `Sync` moves `next` and `nioToken`; `EndBatch`, `Flush` and `StopSource` save
`next`.  A handler is `pc`: `taken` after the mark, then `send` and `landed` for a message,
`edit` for an edit, `redact` and `redacted` for a redaction, so that the effect of a request
and its answer are two steps and anything may come between.  The text of a message is the
position of the event that carries it, which makes "newer" a comparison of numbers.  The
process has `phase`; `Crash` loses everything but the database, the client library's token and
what is on the servers; `Shutdown` goes through `stop()`.  `forgotten`, `held`, `stale` and
`faulted` are history variables: properties exempt by name the messages that lost a request.

### Relay

Four variables by message: its text on the target, redacted, withheld, sealed.  Six actions
say that a message has at most one copy, that a copy's text only gets newer, that nothing is
posted that was withheld, and that a logout seals what there is.  No tokens, batches, restarts
or errors exist at this level.  `Forwarding!Promise` instantiates it, with the variables read
off the copies on the target, and `KeepsPromise` says that every behaviour of `Forwarding` is
one of `Relay`.

### StateStore

One table: of kind `map` (a save replaces the row of its key, which gets a new rowid) or
`set` (a save of a key that is there does nothing).  The call of the event loop changes the
memory and submits a job; jobs run in any order, which is more than Python's executor promises
for jobs that start one after the other but no more than it does for jobs that compete for the
database.  `RunSave` is one transaction, inserts and trims, and drops the trimmed keys from
memory.  `Restart` loses the jobs and loads the table.

### Replies

The target's timeline is a sequence and its tokens are positions in it, as in `Forwarding`.
`Start`, `EndInitial` and `Rewind` are the steps of `matrix_target.py` `start()`: the initial
sync goes from the client library's token, its token is saved, and the loop then goes back to
the one saved before (`saved`).  Every sync gets the end of a long gap only (`Reached`), at
least `Window` events.  `source` is `_source_started`: an end of the process clears it, and it is
set when the target's start is over (`StartSource`), if `enabled`, the row of the settings, says
so.  A `Login` may come before that.  The handler is `pc`: `taken` after the mark, `body` and
`alias` while B is asked for the copy and A for the room, `routed`, `saved`, then `send`,
`landed` and `ack`.  `Name` is what A makes of a room's displayed name: the code takes a name
that begins with `!` for an id and asks A about any other as an alias, so it may lead to the
room, to another or nowhere.  `SaveReply` may raise, and the handler goes on.  `address` is
`msg.source_room_id`, where the sign and the notices go.  A logout clears `map` and may come at
any place.  `passed` records the events that no handler will see, with the cause.

### PendingKeys

`queue` is `_pending_encrypted` in the order of the dict, `ids` is `_pending_event_ids`, `table`
is `failed_decryptions`.  `phase` is that of the source's session: `syncing` is the first sync of
`start()`, in which handlers run already, `starting` the rest of it, up to the pass over
everything that is pending, and `up` the time in which the sync loop, the backup task and the
recheck run.  The sync loop (`work["sync"]`) marks an event, asks the backup and queues it, or
works off the session whose key came; a retry pass (`work["retry"]`) follows a restore, at the
start and periodically; `recheck` holds the locals of `_recheck_pending_keys()`, with the entries
that were popped meanwhile marked `dead`, since the code goes on with the object it has.  What is
in these sequences is read with recursive functions (`Only`, `SavedAll`), which can be reasoned
about.  `Ensure` is `_ensure_olm_sessions()`.  The backup is a set of sessions, and its etag what
it was when it was last restored (`seen`).

A session ends in two ways, and both cut the tasks off wherever they are (`Cut`).  `Stop` is
`stop()`, by a logout, or a start that raises: queue, ids and etag belong to the backend object
and are what the next `Start` finds.  `Crash` is the end of the process: they are gone, and the
table, the marks and the store of keys stay.  `lost`, `excused` and `stranded` record why an event
may be missing, handed on twice or left waiting, each with its causes at its declaration;
`stranded` is emptied when a start has synced, because the pass that follows sees to everything.

### History

An event is its place in the room's timeline, and a text the place of the event that carries
it.  Each backfill has the locals of `backfill_room()`: `existing`, `page`, `cursor`,
`redacted`; it takes one event of a page at a step, because a message's media are downloaded
in between, and ends with the two halves of `reconcile_edits()`, which reads, computes `plan`
and writes in another session.  An event whose key is missing is saved by the live handlers as a
message with the text of a placeholder, 0, under its own id, an edit too, for nobody can tell what
it is (`LivePlaceholder`).  It is then in `waiting`, the queue and table of `PendingKeys`, and its
key brings it to the handler it would have had, at any time later (`LateMessage`, `LateEdit`):
after its redaction, which has removed the placeholder, or after a newer edit.  It may stay in
`waiting` and come again, as after an end of the process in `PendingKeys`.  `Resolved` follows the
chain of edits as the code does; `FinalText` defines the text of a message from the timeline
alone, and `LatestAfterBackfill` compares the two.

### MediaFiles

For each message, what its row says (`none`, `bare`, `file`) and what is on the disk.  `Write`
is the temporary file with its rename, `Insert`, `Duplicate`, `Update` and `Unlink` the paths
of `save_message()`, `Remove` and `Drop` the two halves of `delete_message()`.  Live handlers,
a backfill and `repair_media.py` are the threads.  Refused statements, full disks, and ends of
the process may come at each step; `lost` and `stray` name what they leave, each marked by the
action that takes a file from a row or leaves one without it.  A mark stays: the invariants say
nothing more of that message.  A message whose key is missing is saved without its picture, as a
placeholder, and once more when the key comes (`waiting`), perhaps after its redaction.

### StoreOpening

`db`, `wal`, `bak` and `blog` are the database, its log, the backup of a migration and the log
beside that, with the rows each has and the salt the file was made with.  The opening is a
program of steps (`pc`), each a file operation or a transaction; each may be the last, and all
that touch the disk may raise, the renames and the revert of a failed migration included.
`Salt` makes a new one where the file is missing or too short, and may put a part of one in
place, since the count of `os.write()` is ignored; `key` is what this start derived the key from
all the same.  `ReadBackup` counts the rows to copy: any `OperationalError` counts as no rows, so
that `wanted` may be less than there is, and the verification compares with that.  The first start
finds no file, a plaintext one, part of it perhaps still in its log, or an encrypted one of an
older version.  `SQLite` itself is modelled where the code relies on it: a log beside an empty
database is removed, a batch is a transaction.  `OpeningInit`, `OpeningNext` and
`OpeningSpec` have names of their own, because `DatabaseProofs` reasons about this module and
`StateStore` together.

### WebJobs

Requests for backfills and uploads beside the live client.  `Ask` and `Begin` are separated by
the await of the body, `Upload` has no await.  `token` is the one that both clients store,
`saved` the row of the settings that a clearing removes.  A login or logout takes effect first and
its row is written later, after the notice (`SaveFlag`); `unsaved` says that the one is done and
the other not.  A sync gets the newest `Window` events of a gap and leaves the others out
(`SyncFrom`, `leftOut`).  `End` and `Start` are an end of the process and the next start.

### Transfer

A row is a message's version, 0 for none; names have one version number.  An export reads by
ascending id in batches; `Seen` says which table a batch sees: in the JSON export the
snapshot of its transaction.  An import looks at all ids, then writes in batches, each a
transaction.  `TransferInit`, `TransferNext` and `TransferSpec` have names of their own, because
`MessageStoreProofs` reasons about this module and `MediaFiles` together.

## 3. Runs: what is checked, bounds, fairness

One run for each component, and two that show a disagreement (section 6).

| Run | Checks | Shows |
|---|---|---|
| `control_plane` | `SingleSession`, `StatusIsTrue`, `CrashUndoesOneCommand`, `EveryCommandReturns` | without a login during start-up there is one session, the status is true, a crash undoes one command at most, and every command returns |
| `logout_disconnects` | `LogoutDisconnects`, violated | see section 6 |
| `forwarding` | `AtMostOnce`, `HeldBackForGood`, `CopiesFollowStore`, `RedactedEverywhere`, `LogoutForgets`, `KeepsPromise`, `CatchesUp` | the forwarding path is right over every mix of faults within the bounds, implements `Relay`, and no event and no fault blocks its loop |
| `backup_saves_all` | `EveryMessageSaved`, violated | see section 6 |
| `state_store` | `TypeOK`, `QuietAgreement`, `MemoryIsBacked`, `NeverGrowsPastMax` | the tables keep their limits, and memory and table agree |
| `replies` | `PostedOnce`, `PostedInOrder`, `EveryReplyHandled` | a reply is posted once at most and in the order of the timeline, though starts go back to older tokens; every event is handled but those the model says were passed over |
| `pending_keys` | `TypeOK`, `Kept`, `IdsAgree`, `DispatchedOnce`, `KeyBringsDispatch` | over logouts and restarts no event is forgotten between queue, table and tasks; it is handed on once, and does not wait when its key is there, but for named races |
| `history` | `DeletedStaysDeleted`, `NothingLeftOut`, `OwnText`, `LatestAfterBackfill` | deleted messages that nobody had in hand stay deleted, a complete backfill has stored everything, texts never cross messages and are the newest or a placeholder |
| `media_files` | `TypeOK`, `RowsHaveFiles`, `FilesHaveRows` | rows and files agree, but for the causes the model names |
| `store_opening` | `WholeUnlessTorn`, `NothingDestroyed`, `Readable`, `IndexComplete` | over faults and crashes at every step no row is destroyed, a migration that raised has left the database whole, its key can be derived again, and the index is complete, but for what the model names |
| `web_jobs` | `BusyIsAtWork`, `NothingSkipped`, `BackfillAgain`, `CommandKept` | no flag outlives its work, the live client skips only what the server left out or a backfill passed over, a start finds the last command unless its row was not written yet or cleared |
| `transfer` | `OneMoment`, `NothingMissing` | an export is the table of one moment, an import brings every row that was missing |

Bounds.

* `control_plane`: two handlers, as in the code, and a pool of two sessions, the least number
  in which one can escape `stop()`.  Nothing else is bounded: commands and restarts may come
  without end.
* `forwarding`: a timeline of three events over two messages of others and one of the bridge's
  account, one crash, any number of shutdowns, logouts, pauses and starts.  Three events are
  a message with two edits, or a message, an edit and a redaction, in any division into
  batches, with another message or without; a copy made before a logout needs one message and
  one event after it.  More crashes are covered by the theorems.  No symmetry is used, because
  it is not sound for liveness.
* `state_store`: three keys and a limit of two, so that a trim happens and drops keys in use, a
  migrated table of up to three rows, five calls, two jobs at a time.  One value is enough for
  what is stated: memory and table differ by a key that one has and the other lacks.
* `replies`: one room, whose name A resolves, two posts, the least number that has an order, a
  window of one, so that a gap loses an event; one logout, one fault, two ends of the process,
  which is one end in a start that follows another.  A second room matters for `RightRoom` only
  (section 6).
* `pending_keys`: two sessions, one with two events, limits of one session and one event in the
  queue and two rows in the table, so that every limit is met; one fault, and one end of a
  session or of the process (`MaxEnds`), so that a second session meets what the first has left.
  The theorems are about any number of each.
* `history`: three events, pages of two, so that a backfill needs two pages, and two backfills
  beside the live handlers: an edit of an edit, two edits of one message, a redaction behind an
  edit, each before, in or after a page.  The key of the second event may be missing (`Keyless`):
  it can be a message with an edit or a redaction behind it, or an edit.  Both backfills are the
  web server's, which may clear first and of which two can meet (`WebJobs.OneBackfill`); one for a
  new room differs in what an exception leaves undone, as a restart does too, and is covered
  by the theorems.  The backfills are symmetric, which is sound because the run checks
  invariants only.
* `media_files`: two messages, two backfills, one repair, one fault beside ends of the process.
  The second backfill matters: a save that began before a clearing may still be at work when the
  next one begins.  The messages are symmetric (`Symmetry`), which is sound because the run
  checks invariants only.
* `store_opening`: three old rows in batches of two, one of them in the log, one new row, two
  columns to add, two crashes and two faults: a crash, a second one in the start after it.
* `web_jobs`: two requests and two uploads, the least number that can meet; three events and a
  window of one, so that an answer leaves one out beside what a backfill passes over; two
  logouts and one end of the process.
* `transfer`: three ids in batches of two, one id free at first, one later name, three changes
  beside the export and the import.

Some properties are proved for all values of the constants and are in no run: the type
invariants of `ControlPlane`, `Forwarding`, `Replies`, `History`, `StoreOpening`, `WebJobs` and
`Transfer`, and `StoredBeforePosted`, `OneImport` and `ExistingKept`.  Section 4 names their
theorems.

Deadlock is checked where the system goes on for ever.  `media_files`, `web_jobs` and `transfer`
end when the messages, requests and changes of their bounds are used up, and say so in their
configuration.

Fairness.  In `ControlPlane` a handler that has the lock goes on (`WF`): this assumes that each of
its requests is answered or raises in the end.  A request that times out is tried again by the
client library, so a server that never answers at all would hold the lock for good; the property
is about the bridge and takes a server that comes back.  One that waits for the lock gets it (`SF` on
`Acquire`), because `asyncio.Lock` serves its waiters in order.  A session that is told to stop
does so (`WF`): its long poll ends after 30 seconds.  In `Forwarding` the steps of the sync loop
and of the handler are weakly fair for the same reasons, and so are the ends of
`source.start()` and `source.stop()`; in `Replies` those of the loop and of the handler.  In
`WebJobs` the tasks of asyncio go on while the process runs.  Nothing is assumed of users, of
commands, of crashes or of the moment at which the flush runs.  `CatchesUp` is conditional on a
source that stays connected, `EveryReplyHandled` on a target that stays up.  `PendingKeys` has
no fairness: `KeyBringsDispatch` speaks of the states in which no task has anything left to do.

## 4. Theorems

All constants are arbitrary, within the named assumptions (one in each
module, `ControlAssumption` to `TransferAssumption`), which TLC evaluates in the runs.

`ControlPlaneProofs`: `TypeCorrect`; `LockExcludes` (two handlers are never inside the lock
together), the basis of the rest; `FlagsSurviveRestarts` (the saved flags are those of the last
saved command or those of the one in progress; with `LockExcludes`, "the one" is well defined);
`OneSession` (for any pool of sessions); `StatusReportIsTrue`.  The argument for the sessions: while no login begins
early, `started`, the place of the lock's holder and `syncTask` determine `live`, so a start
happens only where `live` is empty.

`ForwardingProofs`: `TypeCorrect` establishes `TypeOK` with `PlaceInv`: whenever a handler is at
work, its event is within the batch, marked as processed, and of the kind that its place says.
`ForwardedOnce` proves `AtMostOnce` and `HeldBackForGood` from `OnceInv`: a message with a copy,
or withheld, has its event among the processed ones, and one that is about to be sent has
neither.  Neither property is inductive alone: both speak of what was sent, and what may be sent
next depends on the marks.  `LogoutForgetsForGood` follows from `ForgetInv`: the map leads only
to copies made after the last logout, and a copy that landed and is not yet mapped is one too.

The refinement, `ForwardingImplementsRelay`, is the second part of the module.  Beside the former invariants it
takes `OrderInv`: before any processed event, everything that lies after the current position,
or after the position a restart would begin from, is processed or ignored.  This is what makes
replays harmless: an event that is taken is later than every event taken before, though the
tokens may lie before or after the handler's place.  `TextInv` carries it to the texts on the
target and `MapInv` says that the map leads to a message's own copy.  Five steps of
`Forwarding` become steps of `Relay` (a lemma each); all others stutter.

Its last part relates the store to the target.  `StepKinds` sorts the steps once into those that
save, post, edit, redact or map something and those that do none of it, in which a handler goes
on or is let go of; each invariant is then proved by kind.  `StoreAndTargetAgree` proves
`CopiesFollowStore` from `FollowInv`: what the handler at work is about to send is what it saved,
and a copy follows its row unless the handler stands between the two.  That a handler let go of
marks what it leaves undone (`stale`, `faulted`) is where a cancellation at any await is
accounted for.  `RedactionsReachEverything` proves `RedactedEverywhere` from `ErasedInv`, the same
for every redaction but the one in hand, and from `MappedInv`: a copy that was made since the last
logout, and whose request was not lost, is redacted or has its message's entry in the map, so
that the redaction found it.  It also needs `OnceInv`, for no second copy is made after the
redaction, and `OrderInv`, for no older event that is replayed saves the message again.

`DatabaseProofs` (from `StateStoreAssumption`, in its first parts).  The trim keeps the `Max` rows with the largest
rowids, which the model says with cardinalities; `TrimmedIsSmall` proves that it does, by taking
the least id that has few enough rows above it (`LeastNat`, from the well-foundedness of the
order).  `TableIsBounded` proves `NeverGrowsPastMax`, `NewIdIsNew` that an insert cannot take the
rowid of a row there is.  `MemoryAndTableAgree` and `MemoryHasRows` follow from `AgreeInv`: while
no calls raced, no two pending jobs are for one key, a key without a job says the same in memory
and table, and each job is outstanding (memory has what a save will write and the table has not;
memory has nothing of what a delete or a clear will remove).  `QuietAgreement` alone is not
inductive, for it says nothing of a state with a job.

`MessageStoreProofs` (from `MediaFilesAssumption`).  `PathsLeadToFiles` and `FilesAreNamed` prove
`RowsHaveFiles` and `FilesHaveRows` from `MediaInv`, which says for each message what the row, the
disk and the jobs of both threads know of each other: a file without a row has a thread that is
going to write the row or to remove the file, a deletion that nobody overtook knows what the row
names, and an unlink that finds its row naming a file was overtaken.  `Beside` confines a step of
a thread to its own message, and `OtherMessages` carries `MediaInv` over for the rest.

Its second part is about `Transfer` (from `TransferAssumption`).  `ExportInv`: the ids before the next one are
written as the table was at the first fetch.  `ImportInv`: a row of the file is in the store, or
still to be imported, or was deleted since the plan was made.  `ExportOfOneMoment`,
`ImportIsComplete` and `ImportTouchesNone` (the action property `ExistingKept`) follow.

`RepliesProofs` (from `RepliesAssumption`).  `Tokens` puts every token within the timeline and,
with `PlaceInv`, says that a handler at work has an event of the batch that was marked.
`RepliesPostedOnce` follows from `OnceInv`: what was posted was posted for a marked event, and
for the event in hand nothing was, until its request lands.  Restarts begin from older tokens,
and only the marks, which are in the database, stand between a replayed event and a second post.
`RepliesInOrder` proves `PostedInOrder` from `OrderInv`: in the initial sync, which may get the
end of a gap only, no source is started, so what was handled there was not posted; and whatever
lies before a reply that was posted is marked, or behind the loop and its tokens for good, or was
left by a limited answer or an exception.  A login in the initial sync breaks the first half,
which is why the property exempts it.  `SavedFirst` proves `StoredBeforePosted`.

`HistoryProofs` (from `HistoryAssumption`).  `DeletedForGood` proves `DeletedStaysDeleted`.
`RoomInv` says that what an event names came before it, `LookInv` what a backfill may have in
hand, and `ErasedInv` closes the four ways back into the table: a deleted message lies before the
live handlers and does not wait for its key, so none will save it; it is redacted, so no later
page has it; no backfill has it on a page without having it among its known ids; and it is in no
row now.  `RowsAdded`,
`NoneTakenInHand` and `NewlyErased` are one lemma for each variable involved.

`TypeCorrect` proves `TypeOK`, and `TextsStayInTheirMessage` proves `OwnText`, both from
`TableInv`: every row and every planned text carries an event that leads, edit by edit, to the
row's own message.  Two recursive functions are in the way, the message an edit leads to
(`Root`) and the last edit that a reconciliation follows a chain to (in `Resolved`).  Neither their existence
nor what they return can be had by induction here.  `RootsExist` and `EndsExist` consider, among
the events for which the function could not be built, the least or the greatest one, and build
it there from its neighbour's; `RootRule` and `EndIsLast` are the equations that all else cites.

`BackfillIsComplete` proves `NothingLeftOut`.  `LeftInv` says of every message that a backfill
answers for where it is meanwhile: in the table, on the page in hand, or on a page to come.
`WantedBefore` and `StoredForGood` are the steps of all others: a message that is not redacted
is deleted by nobody once it is stored, but by a clear, after which no backfill answers for
anything until its next look.  So a look at the ids may be old, and is yet right about the
messages that are skipped for it.

`TextsAreTheLatest` proves `LatestAfterBackfill` from `CalmInv`: if nothing came between, the
plan that a reconciliation is about to write has, for each edited message, the text at the end of
its chain of edits, unless the row to be folded into is a placeholder or an edit of the chain has
a placeholder's row.  `FoldedToEnd` is the heart of it: the code follows the edits that are in the
table, the property those of the timeline, and with every edit in the table they are the same.

The last part of `DatabaseProofs` is about `StoreOpening` (from `OpeningAssumption`);
`OpeningTypeCorrect` is its type invariant.  `KeyInv` follows the salt: as long as none was
written in part, whatever is encrypted was encrypted with the salt in the file, and neither a
look at the file nor a migration begins without one; `AlwaysReadable` (`Readable`) is its first
part.  `WhereInv` says, for each place of the opening, which of the four files hold the committed
rows; `WholeAfterFailure` and `EveryRowSomewhere` are parts of it.  It is needed in full because
an end or an exception turns the place of a step into a state the next start must recognise from
the files alone: a revert that raises at its last step leaves the log beside the backup, and the
next migration must take it from there (`wal = {} \/ blog = {}`).  The verification compares
numbers of rows, and `CountedIsWhole` makes of equal numbers, by cardinality, equal sets: those of
`wanted`, which is all there is unless a read was refused.  `SearchFindsAll` follows from
`IndexInv`.

`WebJobsProofs` (from `WebJobsAssumption`).  `JobInv` ties the two flags to the jobs behind them
(`OneImportAtATime`, `RefusedForAJob`).  `SavedInv` says that a row, if there is one and none is
still to be written, has the last command (`TheCommandIsKept`), and `TokenInv` that everything
before either token was fetched, left out of a limited answer or passed over by a backfill's
client (`NothingElseSkipped`).

`PendingKeysProofs` (from `PendingAssumption`).  Every invariant of the run is proved, for any
sessions, events, limits, faults, logouts and restarts: `TypeCorrect` (`TypeOK`), `NothingForgotten`
(`Kept`), `IdsAgreeWithQueue` (`IdsAgree`), `HandedOnOnce` (`DispatchedOnce`) and `KeyIsEnough`
(`KeyBringsDispatch`).  None of them is inductive, and none can be strengthened alone: whether an
event may be dropped here depends on who else has it.  `IInv` says where an event may be, between
any two awaits of the three tasks.

* `Base` says of every list its form: one entry for a session in the queue and events of that
  session in it, one row for an event in the table, the locals that a task has where it stands,
  and which task may be at work in which phase: the handlers in the first sync and when the
  source is up, the pass alone in the rest of a start, the recheck when it is up (`PhaseInv`).
* `BackInv` gives `Kept`: an event that was not handed on is in the table, or taken from it by a
  task that will hand it on or save it again, or the sync loop is about to save it.  The queue
  is not in it: it is a cache over the table, and whatever is dropped from it is still found.
* `OnceInv` gives `DispatchedOnce`: an event that is not excused is in one of the places from
  which it is handed on (the queue, the list of one task, what the recheck will write back), and
  once it was handed on only the task that did it may still have to remove its row (`Leaves`).
  It needs `AskedInv`, for an event that arrives is in none of these, and `PlainInv`: what
  waits in the queue decrypted has raised before, so the recheck hands on nothing that another
  task may have handed on for the first time.  What a former session has left in the queue is
  not of that kind: it is exempt until the last pass of the start has come to its session
  (`Before`), and in the lists of a handler of the first sync (`Early`).
* `IdsInv` gives `IdsAgree`.  It says the same of the lists a worker took from the queue, since
  what fails goes back to it.  A `Stop` may leave an event out of both, never in one alone.
* `CoverInv` gives `KeyBringsDispatch`: a row that waits although its key is there has a pass
  before it, which is on its way, or in the list of sessions of one, or brought by a backup
  that is not restored yet; while the source is down or syncs first, the pass of its start is to
  come.  `SyncRows` says it of the handler of a room key, which first works off the queue.

Each action has a lemma that says what it does to the fields (`...Is`), one that it keeps `Base`
(`...Base`) and one that it keeps the rest (`...Keeps`); those of the two ends of a session are
about `Cut`.  `OnlyIs`, `SavedAllIs`,
`FailedSessionsIs` and their like say what the functions on sequences return.

No invariant and no action property of a passing run is without its theorem.  Only model-checked
is liveness (`EveryCommandReturns`, `CatchesUp`, `EveryReplyHandled`, `BackfillAgain`): what
fairness brings about rests on `ENABLED`, which the proof system cannot reason about.  The
induction theorems of the library take an operator as a parameter, which the provers cannot
instantiate; where a model's function is recursive, a least or greatest counterexample (`LeastNat`,
`GreatestNat`, from the well-foundedness of the order) takes their place.

## 5. Abstractions, and what is not modelled

* Commands from another room or from a sender who may not give them change nothing and take no
  step.  A write to the database of the state that raises is not modelled, except for the clear of
  the maps, whose exception the code swallows.  A save to the message store that raises, which it
  swallows too, is in `Replies` and `MediaFiles`, and not in `Forwarding`.
* In `Forwarding` a write takes effect when it is awaited; `StateStore` looks into that
  assumption.  The limits of the maps are in `StateStore` only: an edit of a message whose
  mapping was evicted is not forwarded, like one after a logout.
* `BridgeCore`'s own dictionaries are caches over those of the state store and are cleared and
  filled with them; the model has one map.
* Encrypted events that can be decrypted at once are like others.  Those that cannot are the
  subject of `PendingKeys`, which hands them on without looking at their kind.  What a late
  message or edit does to the store is in `History`; what it does on the target is in no module.
* Media are messages.  The caption of a medium, a second message on the target which no redaction
  reaches, is left out.  Call notices are left out too: one is saved and posted like a message,
  but no mapping leads to it (`core.py:309-327`).
* `Forwarding` has no sync that the server cut short (a "limited" timeline); what such a sync
  loses is in `Replies` and in `WebJobs`, and for the messages of A in `History.LiveMisses`.
* The source's server may itself have removed the content of redacted events before the bridge
  syncs; the model delivers every event as it was posted, the harder case.
* `Replies`: the first start ever, without a token, is left out.  A copy is known by the room it
  came from.  Media replies are like text: their upload is part of the request.  The room of a
  `!send` is the one its address stands for; the name in a copy's header is not (`Name`).
* `PendingKeys`: the saves of a requeue are one step, a dispatch and the removal of its row in
  the recheck too.  A recheck that finds nothing decrypted only asks for keys and takes no step.
  Failures of the dispatch of events that can be decrypted at once are in `Forwarding`.  `stop()`
  cancels its six tasks one after the other and waits for each; here they end in one step.  A
  delete or insert that a cancelled task had given to the executor is taken to have been carried
  out, as the executor does once it has begun.
* `History`: one room; the order of timestamps is that of the timeline; redactions are of
  messages only.  A deletion is one step there, and two in `MediaFiles`.  `waiting` does not follow
  `PendingKeys` in detail: an event may leave it or stay at each retry, more than the code does.
* `MediaFiles`: a path for each message (the names the code makes are taken to be distinct), the
  same for the live handler and the backfill; one room of one page; the live handlers save an
  event once, or twice if its key was missing; temporary files are not counted.  There is one
  backfill at a time: two can run beside each other (section 6, `WebJobs.OneBackfill`), and what
  two do to the rows is in `History`, what they do to the files is in no module.
* `StoreOpening`: the path with a password only.  Tables are one set of rows; that the read of one
  of them was refused is any part of the rows left out of `wanted`.  The migrations of
  aliases and timestamps inside an open database are left out.
* `WebJobs`: the flag of a pause is like that of a logout.  A logout that raises is in
  `ControlPlane`.  Of the two rows that a command writes there is one here.
* `Transfer`: the exporting and the importing store are one, there is one name, the index is
  kept by triggers.

### Not modelled

* Read receipts (`core.py:219-243`): the newest receipt of a room and the task that sends it.  A
  receipt that comes while the task sends the last ones waits for the next receipt.
* The refresh of the access token and the SSO login (`matrix_base.py:642-709`,
  `sso_login.py`): two tasks may use one refresh token, and what comes of it is decided by a
  server the repository does not describe.  The browser's pages are not in the repository.
* Key backup formats, the encryption of configuration values, device verification: cryptography
  and protocols of libraries.  What a restore triggers is in `PendingKeys`.
* Search, context, statistics, names, the web page, the login to it: they read, or keep caches
  whose stale entries show an old name.  The command-line scripts, but for the repair of media,
  work alone at a prompt.
* Call notices (`core.py:309-327`), and the table of running calls, which gives a notice its
  duration.

## 6. Where code and documentation disagree

* `logout_disconnects`.  `docs/USERGUIDE.md:318` says of `!logout`: "Disconnect from Server A and
  pause forwarding".  The target is started before `core.start()` looks at the flags, so a
  `!login` may be executed meanwhile, and the source is started twice.  `_sync_task` keeps the
  last loop, and `!logout` cancels that one only.
* `backup_saves_all`.  `docs/ARCHITECTURE.md:466` says of the backup mode: "All messages saved to
  store, none forwarded".  A shutdown while a response is being handled saves the token at the
  end of that response, and the events behind the cancelled one are not saved by any later
  start.

The others have no run of their own; the properties that carry the words of the documentation
stand at the end of their modules, where there is one, and are violated by the traces told here.
Where a passing property is touched, it exempts the case by name.

* `Replies.Acknowledged` (`core.py:521`).  `docs/USERGUIDE.md:305`: "a ✓ reaction will be added to
  the command message".  `msg.source_room_id` is set to the room on A before the reaction is
  sent to `msg.source_room_id` on B; the notices of failure at lines 507, 548 and 572 go the
  same way.
* `Replies.RepliesRouted` (`core.py:353`).  `docs/USERGUIDE.md:309`: "The reply will be routed to
  the correct source room automatically".  Without an entry in the map, which a logout clears,
  the display name in the copy's header is resolved as if it were an alias.  And a reply that
  comes in the target's initial sync is answered with "source is disconnected", because
  `_source_started` is set when the target's start is over (`core.py:95-104`).
* `Replies.RightRoom` (`core.py:349`).  `docs/USERGUIDE.md:309`, the same sentence.  The name in the
  header is not an address: one that begins with `!` is taken for an id as it stands, and any other
  for an alias (`matrix_base.py:1201-1209`).  A room with the name of another room's id or alias
  has its replies posted in that one, when its entry is not in the map.  TLC shows it with two
  rooms and a `Name` that leads from one to the other.
* `Replies.StartSkipsNothing` (`matrix_target.py:64`).  `start()` saves the token of the initial
  sync in place of the one it is about to resume from: a process that ends in between skips
  events that no handler saw (`matrix_base.py:196` says that the caller can restore it).
* `Replies.NothingRaisedAway` (`core.py:353`).  `resolve_room_id()` is called outside of any `try`:
  a timeout of A raises through the callback, and the rest of B's batch is not handled.
* `PendingKeys`, `stranded` (`matrix_source.py:508`).  `docs/USERGUIDE.md:476`: "The bridge
  automatically queues these events and retries when keys arrive".  A restore that imports the
  session between the backup's answer and the queueing finds nothing to retry.  The same holds
  when a pass ends early, because another task has popped a session it listed (line 271), and
  when another event of the session is given the key on its own (line 508).  The pass of the next
  start sees to what was left so.
* `PendingKeys`, `excused` (`matrix_source.py:307`).  `docs/ARCHITECTURE.md:1030`: "Event dedup |
  `state.is_processed(event_id)` → skip".  The pass after a restore takes from the table the
  events which the handler of a room key took from the queue, and both hand them on.  A logout
  cancels a task between a dispatch and the removal of the row (`matrix_base.py:711`), and the next
  session hands the event on again.  And the
  recheck keeps an event whose dispatch raised in its list, while the limit of a session may
  drop it from the queue and another task hand on its row; the list is then written back over
  the queue (`matrix_base.py:790`), and the event is handed on again.  This second way is out of
  reach of the run's bounds: it was met as a step of the proof of `HandedOnOnce` that failed.
* `PendingKeys`, `lost` (`matrix_source.py:489`).  `docs/USERGUIDE.md:477`: "Failed decryptions
  persist across restarts".  An event is marked, its placeholder sent, and only then is it
  saved; the rows of a session are popped before they are retried (line 307).  A restart, and a
  logout that cancels the task in between, lose what it had in hand.
* The queue's limit (`matrix_source.py:218`).  `docs/ARCHITECTURE.md:261`: "Maximum queue size:
  1,000 sessions".  `_ensure_olm_sessions()` and the requeue of what failed do not look at it.
* `History.ReconcileKeepsLatest` (`message_store.py:731`).  `docs/ARCHITECTURE.md:690`: "applies
  latest text, removes edit stubs".  Only the newest edit's row is deleted; the next
  reconciliation puts the text of an older one back.
* `History.RedactedTextGone` (`message_store.py:721`).  `docs/ARCHITECTURE.md:816`: "Redaction
  handling (deletes redacted messages)".  The edit of a redacted message keeps its content on
  the server, and `reconcile_edits()` makes it a message of its own.
* `History`, what waits for its key, the exemption of `DeletedStaysDeleted` (`matrix_source.py:782`).
  `docs/ARCHITECTURE.md:816`: "Redaction handling (deletes redacted messages)".  A redaction
  deletes the placeholder's row, and the key that comes later saves the message again.
* `History`, the placeholder in `LatestAfterBackfill` (`backfill.py:485`).
  `docs/ARCHITECTURE.md:690`: "applies latest text".  A backfill that can decrypt the event finds
  its id in the store and skips it; the row says that the message cannot be read.
* `StoreOpening.MigratedWhole` (`message_store.py:310`).  `docs/USERGUIDE.md:486`: the plaintext
  database "will be automatically migrated to SQLCipher on first run".  It is renamed before
  the encrypted one is complete, and a start after a crash takes what is at the path.  A read of
  an old table that is refused for whatever reason counts as an empty table
  (`message_store.py:338`), and the start that copied nothing opens the new database as complete;
  the old rows are in the backup only.
* `StoreOpening.SaltIsKept` (`message_store.py:238`).  `docs/ARCHITECTURE.md:627`: "16-byte random
  salt file, auto-generated on first run".  The count that `os.write()` returns is ignored, and a
  salt that was written in part is put in place: this start derives its key from the whole one,
  and the next start makes another (lines 229-231), with which the database cannot be opened.
* `StoreOpening.MigrationSucceeds` (`message_store.py:357`).  `docs/ARCHITECTURE.md:687`: "Automatically
  adds `from_self`, `media_local_path`, ... columns if missing".  They are added after the
  migration, whose inserts the new tables refuse without them.
* `StoreOpening.IndexInSync` (`message_store.py:491`).  The index is created and filled in two
  transactions, and a later start looks at the first only.
* `MediaFiles.ExistingSkipped` (`message_store.py:634`).  `docs/USERGUIDE.md:365`: "Already-existing
  messages are automatically skipped (no duplicates)".  A second save, by a backfill that looked
  before, writes its own path, perhaps none, over the row's and unlinks the file.
* `MediaFiles.Redownloaded` (`web.py:286`).  `docs/USERGUIDE.md:363`: "optionally wipe all existing
  data and re-download everything".  A message saved between the clearing of the table and the
  wiping of the directory keeps its row and loses its file.
* `MediaFiles.RedactionDeletes` (`message_store.py:801`).  `docs/ARCHITECTURE.md:497`: "Delete the
  message from MessageStore".  Another thread's commit between the read and the write of the
  deletion makes SQLite refuse it; the file is gone and the row stays.
* `MediaFiles.SavedWhole` (`message_store.py:827`).  `docs/ARCHITECTURE.md:689`: "Saves files to
  `YYYY-MM/` subdirectories with atomic writes".  The count that `os.write()` returns is
  ignored.
* `WebJobs.OneBackfill` (`web.py:237`).  `docs/USERGUIDE.md:365`: "Only one backfill can run at a
  time".  The flag is asked before `request.json()` is awaited and set after.
* `WebJobs.CommandKept`, its exemption (`message_store.py:533`).  `docs/ARCHITECTURE.md:538`:
  "Persist state after each command".  `clear_all()` deletes the flags' rows, and the next start
  forwards after a `!logout`.  The row is written after the command and its notice
  (`core.py:448`), so that an end of the process in between undoes the command.
* `WebJobs.NothingSkipped`, its exemption (`backfill.py:146`).  `docs/ARCHITECTURE.md:588`: "Restore
  sync position".  The backfill's client stores its newest token where the live client loads it.
* `Transfer.NamesArrive` (`message_store.py:1343`).  The loop over the tables of names unpacks
  tuples of three into two: an import of an SQLite file never brings a name.
* `Transfer.NamesLatest` (`message_store.py:1212`).  `docs/ARCHITECTURE.md:693`: "Search results replace
  IDs with latest known display names".  An older export's names are written over later ones.

## 7. Plan

Done: the core (`ControlPlane`, `Forwarding`, `Relay`, `StateStore`) and the seven components
around it, and the proofs of all their invariants.  What is left, in this order:

1. Composition: `Forwarding` with `PendingKeys`, for edits that are decrypted late, and with
   `ControlPlane` (two sessions over one timeline), to see what the second session of section 6
   does to `AtMostOnce`.
2. The buffer of read receipts, and the refresh of the access token by two tasks, with a server
   that revokes a token used twice as an assumption of its own.
