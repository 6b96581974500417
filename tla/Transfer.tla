------------------------------ MODULE Transfer -----------------------------
(***************************************************************************)
(* Exports and imports of the message store (bridge/message_store.py) as   *)
(* JSON or as an SQLite file, which read and write in batches while the    *)
(* live handlers go on.  The stores that write and read a file are one     *)
(* here: what an import meets is the store of that time, whatever the live *)
(* handlers have made of it since the export, up to an empty one.          *)
(*                                                                         *)
(* A row is its text: 1 as sent, 2 once edited, 0 for none.  There is one  *)
(* user whose display name is kept; a later name has the larger number.    *)
(* The full-text index is kept by triggers (StoreOpening).  The names of   *)
(* the specification differ from those of MediaFiles, so that a module may *)
(* extend both.                                                            *)
(***************************************************************************)
EXTENDS Naturals, FiniteSets, FiniteSetsExt

CONSTANTS
    Last,        \* the messages are 1..Last, in the order of their row ids
    ExportBatch, \* rows of one fetch of an export
    ImportBatch, \* rows of one transaction of an import
    MaxNames,    \* bound: the display names of the user
    MaxSteps     \* bound: the steps of the live handlers

ASSUME TransferAssumption ==
    /\ {Last, MaxNames, MaxSteps} \subseteq Nat
    /\ {ExportBatch, ImportBatch} \subseteq Nat \ {0}

Ids == 1..Last

Nothing == [i \in Ids |-> 0]

VARIABLES
    rows, name,  \* the tables messages and user_aliases
    export,      \* the export: "idle", "rows" or "names"
    snapshot,    \* the table as its statement sees it
    next,        \* the first row it has not fetched yet
    out,         \* what it has written
    file,        \* the file, once complete
    import,      \* the import: "idle", "names", "ids" or "rows"
    format,      \* of the file it reads
    reads,       \* that file
    batch,       \* the rows it still has to create
    steps,
    \* The next three record the past and guard no action.
    taken,       \* the table when the export began
    dropped,     \* rows deleted since the import has looked
    result       \* how the last import ended

transferVars == <<rows, name, export, snapshot, next, out, file, import, format, reads, batch, steps,
          taken, dropped, result>>

store   == <<rows, name, steps>>
outward == <<export, snapshot, next, out, file, taken>>
inward  == <<import, format, reads, batch, dropped, result>>

Row == 0..2

File == [rows : [Ids -> Row], name : 0..MaxNames]

TransferTypeOK ==
    /\ rows \in [Ids -> Row] /\ name \in 0..MaxNames
    /\ export \in {"idle", "rows", "names"} /\ import \in {"idle", "names", "ids", "rows"}
    /\ snapshot \in [Ids -> Row] /\ next \in 1..(Last + 1)
    /\ out \in File /\ file \in File /\ reads \in File
    /\ format \in {"json", "sqlite"} /\ batch \subseteq Ids /\ dropped \subseteq Ids
    /\ (import = "idle" => batch = {})
    /\ steps \in 0..MaxSteps /\ taken \in [Ids -> Row]
    /\ result \in {"none", "ok", "failed"}

Empty == [rows |-> Nothing, name |-> 0]

TransferInit ==
    /\ rows \in [Ids -> {0, 1}] /\ name = 0
    /\ export = "idle" /\ snapshot = Nothing /\ next = 1 /\ out = Empty /\ file = Empty
    /\ import = "idle" /\ format = "json" /\ reads = Empty /\ batch = {}
    /\ steps = 0 /\ taken = Nothing /\ dropped = {} /\ result = "none"

-----------------------------------------------------------------------------
(* The live handlers, and a clearing of the store.                         *)

Live == steps < MaxSteps /\ steps' = steps + 1 /\ UNCHANGED outward

SaveRow(i) ==
    /\ Live /\ rows[i] = 0 /\ rows' = [rows EXCEPT ![i] = 1]
    /\ UNCHANGED <<name, inward>>

Edit(i) ==
    /\ Live /\ rows[i] = 1 /\ rows' = [rows EXCEPT ![i] = 2]
    /\ UNCHANGED <<name, inward>>

DeleteRow(i) ==
    /\ Live /\ rows[i] # 0 /\ rows' = [rows EXCEPT ![i] = 0] /\ dropped' = dropped \cup {i}
    /\ UNCHANGED <<name, import, format, reads, batch, result>>

Rename ==
    /\ Live /\ name < MaxNames /\ name' = name + 1
    /\ UNCHANGED <<rows, inward>>

Clear ==
    /\ Live /\ rows' = Nothing /\ name' = 0 /\ dropped' = Ids
    /\ UNCHANGED <<import, format, reads, batch, result>>

-----------------------------------------------------------------------------
(* export_all_json() and export_to_sqlite_file().                          *)

\* One statement reads all the rows: it sees the table as it is at its first fetch.
BeginExport ==
    /\ export = "idle" /\ export' = "rows"
    /\ snapshot' = rows /\ taken' = rows /\ next' = 1 /\ out' = Empty
    /\ UNCHANGED <<store, inward, file>>

\* A faulty variant of Seen: each batch is a statement of its own.
SeenNow == rows

Seen == snapshot

ExportRows ==
    /\ export = "rows" /\ next <= Last
    /\ next' = Min({next + ExportBatch, Last + 1})
    /\ out' = [out EXCEPT !.rows = [i \in Ids |-> IF i \in next..(next' - 1) THEN Seen[i] ELSE @[i]]]
    /\ UNCHANGED <<store, inward, export, snapshot, file, taken>>

ExportNames ==
    /\ export = "rows" /\ next > Last /\ export' = "names"
    /\ out' = [out EXCEPT !.name = name]
    /\ UNCHANGED <<store, inward, snapshot, next, file, taken>>

EndExport ==
    /\ export = "names" /\ export' = "idle" /\ file' = out
    /\ UNCHANGED <<store, inward, snapshot, next, out, taken>>

-----------------------------------------------------------------------------
(* import_from_json() and import_from_sqlite_file().                       *)

\* A JSON file's names come first.
BeginImport(f) ==
    /\ import = "idle" /\ import' = (IF f = "json" THEN "names" ELSE "ids")
    /\ format' = f /\ reads' = file /\ dropped' = {} /\ result' = "none"
    /\ UNCHANGED <<store, outward, batch>>

\* They replace those there are.
ImportNames ==
    /\ import = "names" /\ import' = "ids"
    /\ name' = IF reads.name # 0 THEN reads.name ELSE name
    /\ UNCHANGED <<rows, steps, outward, format, reads, batch, dropped, result>>

\* The ids there are are read once.
LookAtIds ==
    /\ import = "ids" /\ import' = "rows"
    /\ batch' = {i \in Ids : reads.rows[i] # 0 /\ rows[i] = 0} /\ dropped' = {}
    /\ UNCHANGED <<store, outward, format, reads, result>>

\* The next rows of the plan.
Chunk ==
    {i \in batch : Cardinality({j \in batch : j < i}) < ImportBatch}

\* A batch is created in a transaction ...
ImportRows ==
    /\ import = "rows" /\ batch # {} /\ \A i \in Chunk : rows[i] = 0
    /\ rows' = [i \in Ids |-> IF i \in Chunk THEN reads.rows[i] ELSE rows[i]]
    /\ batch' = batch \ Chunk
    /\ UNCHANGED <<name, steps, outward, import, format, reads, dropped, result>>

\* ... that one row undoes which has come meanwhile; the import ends there.
ImportFails ==
    /\ import = "rows" /\ \E i \in Chunk : rows[i] # 0
    /\ import' = "idle" /\ batch' = {} /\ result' = "failed"
    /\ UNCHANGED <<store, outward, format, reads, dropped>>

\* A faulty variant of EndImport: it is over with the first batch.
EndImportEarly ==
    /\ import = "rows" /\ batch # {}
    /\ import' = "idle" /\ batch' = {} /\ result' = "ok"
    /\ UNCHANGED <<store, outward, format, reads, dropped>>

\* The names of an SQLite file come last: unpacking the pairs of the loop over the two
\* tables raises, the exception is logged, and the import is a success.
EndImport ==
    /\ import = "rows" /\ batch = {}
    /\ import' = "idle" /\ result' = "ok"
    /\ UNCHANGED <<store, outward, format, reads, batch, dropped>>

ImportStep == ImportNames \/ LookAtIds \/ ImportRows \/ ImportFails \/ EndImport

TransferNext ==
    \/ \E i \in Ids : SaveRow(i) \/ Edit(i) \/ DeleteRow(i)
    \/ Rename \/ Clear
    \/ BeginExport \/ ExportRows \/ ExportNames \/ EndExport
    \/ \E f \in {"json", "sqlite"} : BeginImport(f)
    \/ ImportStep

TransferSpec == TransferInit /\ [][TransferNext]_transferVars

-----------------------------------------------------------------------------
\* A file holds the messages as they were at one time, whatever was edited or deleted
\* while it was written.
OneMoment == export = "names" => out.rows = taken

\* An import leaves the messages alone that are there.
ExistingKept ==
    [][ImportStep => \A i \in Ids : rows[i] # 0 => rows'[i] = rows[i]]_transferVars

\* An import that reports success has brought every message of the file that was missing,
\* but for those deleted meanwhile.
NothingMissing ==
    result = "ok" /\ import = "idle"
        => \A i \in Ids : reads.rows[i] # 0 => rows[i] # 0 \/ i \in dropped

-----------------------------------------------------------------------------
(* What the documentation says and the code does not do: the README tells  *)
(* how each is violated.  No run checks these.                             *)

\* What the architecture document says of the names: the latest known ones are shown.
\* An import brings the name of its file where none is known ...
NamesArrive ==
    [][result' = "ok" /\ result # "ok" /\ reads.name # 0 => name' # 0]_transferVars

\* ... and takes no later one away.
NamesLatest == [][ImportStep => name' >= name]_transferVars
=============================================================================
