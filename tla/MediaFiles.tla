---------------------------- MODULE MediaFiles -----------------------------
(***************************************************************************)
(* The pictures of the message store: the column media_local_path of a row *)
(* and the file it names, written and removed by threads that share the    *)
(* table but no transaction with the disk: the live handlers, a backfill   *)
(* (with or without media, with or without clearing first) and             *)
(* scripts/repair_media.py, which is a process of its own.                 *)
(*                                                                         *)
(* The path is made of the message's month, id and name, so that each      *)
(* message has one, whoever saves it.  The messages have one room and one  *)
(* page of history.                                                        *)
(***************************************************************************)
EXTENDS Naturals

CONSTANTS
    Messages,   \* messages with a picture on the source
    MaxFills,   \* bound: the backfills
    MaxRepairs, \* bound: the runs of repair_media.py
    MaxFaults   \* bound: refused statements and disks that are full, ends of the process

ASSUME MediaFilesAssumption == MaxFills \in Nat /\ MaxRepairs \in Nat /\ MaxFaults \in Nat

VARIABLES
    row,      \* media_local_path: "none" without a row, "bare" if it is empty, "file"
    disk,     \* the file at the message's path
    job,      \* what the thread of the live handlers and the one of the backfill do
    handled,  \* the messages the live handlers have seen (the processed events)
    redacted, \* the messages whose redaction they have seen
    waiting,  \* the messages of which they saved a placeholder and that wait for a key
    fill,     \* the backfill: "off", "clear", "wipe", "look" or "page"
    media,    \* its media_dir is set
    todo,     \* what it still has to wipe, or messages of its page still to be looked at
    apply,    \* its redacted_ids
    known,    \* its existing_ids
    fix,      \* the repair: what it does, for which message, what is left of its list
    fills, repairs, faults,
    \* The next three record the past and guard no action.
    lost,     \* messages whose file an action took while the row still names it
    stray,    \* messages whose file an action left without a row that names it
    cleared   \* the last backfill began with clearing

vars == <<row, disk, job, handled, redacted, waiting, fill, media, todo, apply, known, fix,
          fills, repairs, faults, lost, stray, cleared>>

backfill == <<fill, media, todo, apply, known, fills, cleared>>
repair   == <<fix, repairs>>
seen     == <<handled, redacted, waiting>>

Threads == {"live", "fill"}

\* What a thread does, and for which message.  path: the file was written; old: the row
\* named one before; stale: another thread has written to the table since.
Jobs ==
    [at : {"idle", "write", "insert", "look", "update", "unlink", "found", "drop"},
     of : SUBSET Messages, path : BOOLEAN, old : BOOLEAN, stale : BOOLEAN]

Idle == [at |-> "idle", of |-> {}, path |-> FALSE, old |-> FALSE, stale |-> FALSE]

TypeOK ==
    /\ row \in [Messages -> {"none", "bare", "file"}]
    /\ disk \in [Messages -> {"none", "good", "cipher", "cut"}]
    /\ job \in [Threads -> Jobs]
    /\ \A t \in Threads :
        /\ \A m, n \in job[t].of : m = n
        /\ job[t].at = "idle" <=> job[t].of = {}
    /\ handled \cup redacted \cup lost \cup stray \cup todo \cup apply \cup known \subseteq Messages
    /\ waiting \subseteq handled
    /\ fill \in {"off", "clear", "wipe", "look", "page"} /\ media \in BOOLEAN
    /\ (fill = "off" => todo = {} /\ apply = {} /\ known = {})
    /\ fix \in [at : {"off", "next", "fetched"}, of : SUBSET Messages, list : SUBSET Messages]
    /\ fills \in 0..MaxFills /\ repairs \in 0..MaxRepairs /\ faults \in 0..MaxFaults
    /\ cleared \in BOOLEAN

\* Earlier versions have saved some files without decrypting them.
Init ==
    /\ \E old \in SUBSET Messages :
        /\ row = [m \in Messages |-> IF m \in old THEN "file" ELSE "none"]
        /\ disk = [m \in Messages |-> IF m \in old THEN "cipher" ELSE "none"]
        /\ handled = old
    /\ job = [t \in Threads |-> Idle]
    /\ redacted = {} /\ waiting = {}
    /\ fill = "off" /\ media = FALSE /\ todo = {} /\ apply = {} /\ known = {}
    /\ fix = [at |-> "off", of |-> {}, list |-> {}]
    /\ fills = 0 /\ repairs = 0 /\ faults = 0
    /\ lost = {} /\ stray = {} /\ cleared = FALSE

Fault == faults < MaxFaults /\ faults' = faults + 1

Sets(m, v) == row' = [row EXCEPT ![m] = v]

Puts(m, v) == disk' = [disk EXCEPT ![m] = v]

\* t goes on; a write of its own makes the transaction of the other one stale.
Goes(t, j) == job' = [job EXCEPT ![t] = j]

GoesOnWriting(t, j) ==
    job' = [u \in Threads |-> IF u = t THEN j ELSE [job[u] EXCEPT !.stale = @ \/ job[u].at # "idle"]]

\* The thread's media_dir is set.
HasDir(t) == t = "live" \/ media

-----------------------------------------------------------------------------
(* MessageStore.save_message().                                            *)

\* The message m is handed to the store, with the picture if it could be had.
Save(t, m, data) ==
    Goes(t, [Idle EXCEPT !.at = IF data /\ HasDir(t) THEN "write" ELSE "insert", !.of = {m}])

Write(t, m) ==
    /\ job[t].at = "write" /\ Puts(m, "good")
    /\ Goes(t, [job[t] EXCEPT !.at = "insert", !.path = TRUE])
    /\ UNCHANGED <<row, seen, backfill, repair, faults, lost, stray>>

\* The disk is full: os.write() raises, or writes what fits and says so to nobody.
WriteFails(t, m) ==
    /\ job[t].at = "write" /\ Fault
    /\ Goes(t, [job[t] EXCEPT !.at = "insert"])
    /\ UNCHANGED <<row, disk, seen, backfill, repair, lost, stray>>

WriteCut(t, m) ==
    /\ job[t].at = "write" /\ Fault /\ Puts(m, "cut")
    /\ Goes(t, [job[t] EXCEPT !.at = "insert", !.path = TRUE])
    /\ UNCHANGED <<row, seen, backfill, repair, lost, stray>>

Column(t) == IF job[t].path THEN "file" ELSE "bare"

Insert(t, m) ==
    /\ job[t].at = "insert" /\ row[m] = "none"
    /\ Sets(m, Column(t)) /\ GoesOnWriting(t, Idle)
    /\ lost' = IF job[t].path /\ disk[m] = "none" THEN lost \cup {m} ELSE lost
    /\ UNCHANGED <<disk, seen, backfill, repair, faults, stray>>

\* Another thread has the message in hand too.
Shared(t, m) == \E u \in Threads \ {t} : m \in job[u].of

\* Any other error: the message is not saved, its file is.
InsertRefused(t, m) ==
    /\ job[t].at = "insert" /\ Fault /\ Goes(t, Idle)
    /\ stray' = IF job[t].path /\ (row[m] # "file" \/ Shared(t, m)) THEN stray \cup {m} ELSE stray
    /\ UNCHANGED <<row, disk, seen, backfill, repair, lost>>

\* The id is there: the row is updated.
Duplicate(t, m) ==
    /\ job[t].at = "insert" /\ row[m] # "none"
    /\ Goes(t, [job[t] EXCEPT !.at = "look"])
    /\ UNCHANGED <<row, disk, seen, backfill, repair, faults, lost, stray>>

Look(t, m) ==
    /\ job[t].at = "look"
    /\ Goes(t, [job[t] EXCEPT !.at = "update", !.old = row[m] = "file"])
    /\ UNCHANGED <<row, disk, seen, backfill, repair, faults, lost, stray>>

\* The row is updated, and the old file goes if goes says so.
Updated(t, m, goes) ==
    /\ job[t].at = "update"
    /\ IF row[m] = "none" THEN UNCHANGED row ELSE Sets(m, Column(t))
    /\ GoesOnWriting(t, IF goes THEN [job[t] EXCEPT !.at = "unlink"] ELSE Idle)
    /\ lost' = IF job[t].path /\ row[m] # "none" /\ disk[m] = "none" THEN lost \cup {m} ELSE lost
    /\ stray' = IF \/ ~job[t].path /\ ~goes /\ row[m] = "file"
                   \/ job[t].path /\ row[m] = "none"
                THEN stray \cup {m} ELSE stray
    /\ UNCHANGED <<disk, seen, backfill, repair, faults>>

\* A faulty variant: it is not asked whether the old path is the new one.
UpdateUnasked(t, m) == Updated(t, m, job[t].old /\ HasDir(t))

\* The old file goes if the row no longer names it, and the run has a media_dir.
Update(t, m) == Updated(t, m, job[t].old /\ ~job[t].path /\ HasDir(t))

\* The new file goes, which is the old one when the row named one.
UpdateRefused(t, m) ==
    /\ job[t].at = "update" /\ Fault
    /\ Goes(t, IF job[t].path /\ HasDir(t) THEN [job[t] EXCEPT !.at = "unlink"] ELSE Idle)
    /\ lost' = IF job[t].path /\ row[m] = "file" THEN lost \cup {m} ELSE lost
    /\ UNCHANGED <<row, disk, seen, backfill, repair, stray>>

\* Meanwhile another thread may have made a row that names the file.
Unlink(t, m) ==
    /\ job[t].at = "unlink" /\ Puts(m, "none") /\ Goes(t, Idle)
    /\ lost' = IF row[m] = "file" /\ job[t].stale THEN lost \cup {m} ELSE lost
    /\ UNCHANGED <<row, seen, backfill, repair, faults, stray>>

-----------------------------------------------------------------------------
(* MessageStore.delete_message(): a transaction that reads, unlinks and    *)
(* then writes.                                                            *)

\* A faulty variant of Remove: the file is left to itself.
RemoveRowOnly(t, m) ==
    /\ job[t].at = "found" /\ Goes(t, [job[t] EXCEPT !.at = "drop"])
    /\ UNCHANGED <<row, disk, seen, backfill, repair, faults, lost, stray>>

Remove(t, m) ==
    /\ job[t].at = "found" /\ Goes(t, [job[t] EXCEPT !.at = "drop"])
    /\ IF job[t].old THEN Puts(m, "none") ELSE UNCHANGED disk
    /\ UNCHANGED <<row, seen, backfill, repair, faults, lost, stray>>

Drop(t, m) ==
    /\ job[t].at = "drop" /\ ~job[t].stale
    /\ Sets(m, "none") /\ GoesOnWriting(t, Idle)
    /\ UNCHANGED <<disk, seen, backfill, repair, faults, lost, stray>>

\* A transaction that has read cannot write over what another has written since: SQLite
\* refuses it at once.  It may be refused for other reasons.
DropRefused(t, m) ==
    /\ job[t].at = "drop" /\ Goes(t, Idle)
    /\ \/ job[t].stale /\ UNCHANGED faults
       \/ ~job[t].stale /\ Fault
    /\ lost' = IF row[m] = "file" THEN lost \cup {m} ELSE lost
    /\ UNCHANGED <<row, disk, seen, backfill, repair, stray>>

Delete(t, m) ==
    IF row[m] = "none" THEN UNCHANGED job
    ELSE Goes(t, [Idle EXCEPT !.at = "found", !.of = {m}, !.old = row[m] = "file"])

-----------------------------------------------------------------------------
(* The live handlers: an event is marked as processed, then handled.       *)

\* With its picture if that can be had; without, as a placeholder, if its key is missing.  When
\* the key comes the message is handled again, though it was redacted meanwhile.
Message(m) ==
    /\ job["live"] = Idle
    /\ \/ /\ m \notin handled \cup redacted /\ handled' = handled \cup {m}
          /\ waiting' \in {waiting, waiting \cup {m}}
       \/ m \in waiting /\ waiting' = waiting \ {m} /\ UNCHANGED handled
    /\ \E data \in BOOLEAN : (data => m \notin waiting') /\ Save("live", m, data)
    /\ UNCHANGED <<row, disk, redacted, backfill, repair, faults, lost, stray>>

Redaction(m) ==
    /\ job["live"] = Idle /\ m \notin redacted
    /\ redacted' = redacted \cup {m}
    /\ Delete("live", m)
    /\ UNCHANGED <<row, disk, handled, waiting, backfill, repair, faults, lost, stray>>

-----------------------------------------------------------------------------
(* The backfill: WebServer._run_backfill() and backfill_room().            *)

Start(clear, dir) ==
    /\ fill = "off" /\ fills < MaxFills /\ fills' = fills + 1
    /\ fill' = IF clear THEN "clear" ELSE "look"
    /\ media' = dir /\ cleared' = clear
    /\ UNCHANGED <<row, disk, job, seen, todo, apply, known, repair, faults, lost, stray>>

\* The table is emptied, or that is refused, and then the directory.
ClearAll ==
    /\ fill = "clear" /\ fill' = "wipe"
    /\ \/ /\ row' = [m \in Messages |-> "none"] /\ UNCHANGED faults
          /\ GoesOnWriting("fill", Idle)
       \/ Fault /\ UNCHANGED <<row, job>>
    /\ todo' = {m \in Messages : disk[m] # "none"}
    /\ UNCHANGED <<disk, seen, media, apply, known, fills, cleared, repair, lost, stray>>

\* Files that come meanwhile may be met or not.
Wipe(m) ==
    /\ fill = "wipe" /\ disk[m] # "none" /\ Puts(m, "none") /\ todo' = todo \ {m}
    /\ lost' = IF row[m] = "file" THEN lost \cup {m} ELSE lost
    /\ UNCHANGED <<row, job, seen, fill, media, apply, known, fills, cleared, repair, faults, stray>>

\* A file that a deletion or an update took meanwhile is none to wipe.
Wiped ==
    /\ fill = "wipe" /\ \A m \in todo : disk[m] = "none"
    /\ fill' = "look" /\ todo' = {}
    /\ UNCHANGED <<row, disk, job, seen, media, apply, known, fills, cleared, repair, faults, lost, stray>>

\* The ids there are, and then the page, which shows a redacted message as such.
Page ==
    /\ fill = "look" /\ fill' = "page"
    /\ known' = {m \in Messages : row[m] # "none"}
    /\ todo' = Messages \ redacted /\ apply' = redacted
    /\ UNCHANGED <<row, disk, job, seen, media, fills, cleared, repair, faults, lost, stray>>

\* A message of the page is skipped, or downloaded, which may fail, and saved.
Take(m) ==
    /\ fill = "page" /\ job["fill"] = Idle /\ m \in todo /\ todo' = todo \ {m}
    /\ IF m \in known THEN UNCHANGED job ELSE \E data \in BOOLEAN : Save("fill", m, data)
    /\ UNCHANGED <<row, disk, seen, fill, media, apply, known, fills, cleared, repair, faults, lost, stray>>

ApplyRedaction(m) ==
    /\ fill = "page" /\ job["fill"] = Idle /\ todo = {} /\ m \in apply /\ apply' = apply \ {m}
    /\ Delete("fill", m)
    /\ UNCHANGED <<row, disk, seen, fill, media, todo, known, fills, cleared, repair, faults, lost, stray>>

\* A faulty variant: the redactions of the page are forgotten.
FinishAtOnce ==
    /\ fill = "page" /\ job["fill"] = Idle /\ todo = {} /\ fill' = "off" /\ known' = {}
    /\ UNCHANGED <<row, disk, job, seen, media, todo, apply, fills, cleared, repair, faults, lost, stray>>

Finish ==
    /\ fill = "page" /\ job["fill"] = Idle /\ todo \cup apply = {} /\ fill' = "off" /\ known' = {}
    /\ UNCHANGED <<row, disk, job, seen, media, todo, apply, fills, cleared, repair, faults, lost, stray>>

-----------------------------------------------------------------------------
(* scripts/repair_media.py.                                                *)

\* The list: files whose first bytes are of no format.  Those of a cut file are.
Scan ==
    /\ fix.at = "off" /\ repairs < MaxRepairs /\ repairs' = repairs + 1
    /\ fix' = [at |-> "next", of |-> {}, list |-> {m \in Messages : row[m] = "file" /\ disk[m] = "cipher"}]
    /\ UNCHANGED <<row, disk, job, seen, backfill, faults, lost, stray>>

\* A file that is gone or in order is passed over, and so is one whose event cannot be had.
Fetch(m) ==
    /\ fix.at = "next" /\ m \in fix.list
    /\ \/ /\ disk[m] = "cipher" /\ m \notin redacted
          /\ fix' = [at |-> "fetched", of |-> {m}, list |-> fix.list \ {m}]
       \/ fix' = [fix EXCEPT !.list = @ \ {m}]
    /\ UNCHANGED <<row, disk, job, seen, backfill, repairs, faults, lost, stray>>

\* The file is replaced, or made again if it went meanwhile.
Replace(m) ==
    /\ fix.at = "fetched" /\ m \in fix.of /\ Puts(m, "good")
    /\ fix' = [fix EXCEPT !.at = "next", !.of = {}]
    /\ stray' = IF row[m] # "file" \/ Shared("repair", m) THEN stray \cup {m} ELSE stray
    /\ UNCHANGED <<row, job, seen, backfill, repairs, faults, lost>>

EndRepair ==
    /\ fix.at = "next" /\ fix.list = {} /\ fix' = [fix EXCEPT !.at = "off"]
    /\ UNCHANGED <<row, disk, job, seen, backfill, repairs, faults, lost, stray>>

-----------------------------------------------------------------------------
\* The end of the bridge between any two steps, and its next start.
Crash ==
    /\ Fault /\ job' = [t \in Threads |-> Idle]
    /\ fill' = "off" /\ todo' = {} /\ apply' = {} /\ known' = {}
    /\ stray' = stray \cup {m \in Messages : row[m] # "file" /\ disk[m] # "none"}
    /\ lost' = lost \cup {m \in Messages : row[m] = "file" /\ disk[m] = "none"}
    /\ UNCHANGED <<row, disk, seen, media, fills, cleared, repair>>

Step(t, m) ==
    \/ Write(t, m) \/ WriteFails(t, m) \/ WriteCut(t, m)
    \/ Insert(t, m) \/ InsertRefused(t, m) \/ Duplicate(t, m)
    \/ Look(t, m) \/ Update(t, m) \/ UpdateRefused(t, m) \/ Unlink(t, m)
    \/ Remove(t, m) \/ Drop(t, m) \/ DropRefused(t, m)

Next ==
    \/ \E t \in Threads : \E m \in job[t].of : Step(t, m)
    \/ \E m \in Messages :
        \/ Message(m) \/ Redaction(m)
        \/ Wipe(m) \/ Take(m) \/ ApplyRedaction(m)
        \/ Fetch(m) \/ Replace(m)
    \/ \E clear, dir \in BOOLEAN : Start(clear, dir)
    \/ ClearAll \/ Wiped \/ Page \/ Finish
    \/ Scan \/ EndRepair \/ Crash

Spec == Init /\ [][Next]_vars

-----------------------------------------------------------------------------
InHand(m) == \E t \in Threads : m \in job[t].of

\* A row that names a file has it, unless a named action took it: a wipe of the directory
\* while messages come, a refused update or deletion, a deletion beside a save of the same
\* message, an end of the process in a deletion.
RowsHaveFiles ==
    \A m \in Messages : row[m] = "file" => disk[m] # "none" \/ InHand(m) \/ m \in lost

\* A file has a row that names it, unless a named action left it: a refused insert, a row
\* made bare by a backfill without media, a repair of what was deleted meanwhile, a save
\* beside a deletion, an end of the process.  The picture of a redacted message goes with its row,
\* but the key of one that waited for it brings both back.
FilesHaveRows ==
    \A m \in Messages :
        disk[m] # "none" =>
            row[m] = "file" \/ InHand(m) \/ (fill = "wipe" /\ m \in todo) \/ m \in stray

-----------------------------------------------------------------------------
(* What the documentation says and the code does not do: the README tells  *)
(* how each is violated.  No run checks these.                             *)

\* What the user guide says of a backfill: messages that are there are skipped.
ExistingSkipped ==
    [][\A m \in job["fill"].of : row[m] = "file" => row'[m] # "bare"]_vars

\* What it says of clearing first: everything is downloaded again.
Redownloaded ==
    faults = 0 /\ fill = "off" /\ cleared /\ media /\ redacted = {}
        => \A m \in Messages : row[m] = "file" => disk[m] # "none" \/ InHand(m)

\* What the architecture document says of a redaction: it deletes the message from the
\* store.  A deletion that found the message and met no fault has deleted it.
RedactionDeletes ==
    [][\A m \in Messages :
        m \in job["live"].of /\ job["live"].at = "drop" /\ job'["live"] = Idle /\ faults' = faults
            => row'[m] = "none"]_vars

\* What it says of the files: they are written atomically, the whole picture or nothing.
SavedWhole == \A m \in Messages : disk[m] # "cut"
=============================================================================
