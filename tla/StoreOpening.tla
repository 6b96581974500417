---------------------------- MODULE StoreOpening ----------------------------
(***************************************************************************)
(* MessageStore.__init__(): the salt of the key, the move of a plaintext   *)
(* database to an encrypted file, the columns that older versions lack and *)
(* the full-text index.  An action is a step whose effect on the disk is   *)
(* atomic; the process may die after each, and most may raise.  What is on *)
(* the disk then is what the next start finds.                             *)
(***************************************************************************)
EXTENDS Naturals, FiniteSets

CONSTANTS
    OldRows,    \* rows that were there before the first start are 1..OldRows
    NewRows,    \* bound: rows saved while the store is open
    BatchSize,  \* rows of one transaction of the copy, 1000 in the code
    Columns,    \* the columns that _migrate() adds
    MaxCrashes, \* bound: ends of the process at any point
    MaxFaults   \* bound: operations that raise

ASSUME OpeningAssumption ==
    /\ OldRows \in Nat /\ NewRows \in Nat /\ BatchSize \in Nat \ {0}
    /\ MaxCrashes \in Nat /\ MaxFaults \in Nat

VARIABLES
    pc,        \* where __init__() is; "down", "open" and "raised" are outside of it
    salt,      \* the salt file: a number, 0 where there is none or one that is too short
    key,       \* db_key: the salt that this start derived it from
    db,        \* the file at the path
    wal,       \* rows that only the write-ahead log of a plaintext file has
    bak,       \* the file .plaintext.bak
    blog,      \* rows that only the log beside it has
    wanted,    \* rows of the tables that the migration could read and count
    available, \* _fts_available
    crashes, faults,
    \* The next four record the past and guard no action.
    committed, \* rows of which the store said that they are saved
    torn,      \* steps of a migration at which the process ended, or raised with no revert;
               \* "refused" if a table whose read was refused was taken for a missing one
    short,     \* a salt was put in place of which only a part had been written
    gap        \* the index was created and not built, or rows were saved without triggers

\* The variables of the salt, and the two pairs of files.
salting == <<salt, key, short>>

backup == <<bak, blog, wanted>>

openingVars ==
    <<pc, salting, db, wal, backup, available, crashes, faults, committed, torn, gap>>

Rows == 1..(OldRows + NewRows)

Absent == [kind |-> "none", rows |-> {}, cols |-> {}, key |-> 0, fts |-> FALSE,
           index |-> {}, triggers |-> FALSE]

File ==
    [kind : {"none", "plain", "enc"}, rows : SUBSET Rows, cols : SUBSET Columns, key : Nat,
     fts : BOOLEAN, index : SUBSET Rows, triggers : BOOLEAN]

Migrating == {"renamed", "read", "create", "copy", "verify", "revert", "removed"}

Elsewhere ==
    {"down", "salt", "look", "moved", "schema", "index", "build", "triggers", "open", "raised"}

OpeningTypeOK ==
    /\ pc \in Elsewhere \cup Migrating
    /\ salt \in Nat /\ key \in Nat /\ db \in File /\ bak \in File
    /\ wal \subseteq 1..OldRows /\ blog \subseteq 1..OldRows
    /\ wanted \subseteq Rows /\ committed \subseteq Rows
    /\ available \in BOOLEAN /\ short \in BOOLEAN /\ gap \in BOOLEAN
    /\ crashes \in 0..MaxCrashes /\ faults \in 0..MaxFaults
    /\ torn \subseteq Migrating \cup {"refused"}

\* No database yet, or one of an older version that has the columns of its time and no index:
\* encrypted, or in plaintext with some rows still in its log since that version was killed.
OpeningInit ==
    /\ pc = "down" /\ key = 0 /\ bak = Absent /\ blog = {} /\ wanted = {} /\ available = FALSE
    /\ crashes = 0 /\ faults = 0 /\ torn = {} /\ short = FALSE /\ gap = FALSE
    /\ \/ db = Absent /\ wal = {} /\ committed = {} /\ salt = 0
       \/ \E cols \in SUBSET Columns :
             /\ db = [Absent EXCEPT !.kind = "enc", !.rows = 1..OldRows, !.cols = cols, !.key = 1]
             /\ wal = {} /\ committed = 1..OldRows /\ salt = 1
       \/ \E cols \in SUBSET Columns, logged \in SUBSET (1..OldRows) :
             /\ db = [Absent EXCEPT !.kind = "plain", !.rows = 1..OldRows \ logged, !.cols = cols]
             /\ wal = logged /\ committed = 1..OldRows /\ salt = 0

Goto(label) == pc' = label

Fault == faults < MaxFaults /\ faults' = faults + 1

-----------------------------------------------------------------------------
(* The salt and the kind of the file.                                      *)

Start ==
    /\ pc = "down" /\ Goto("salt") /\ available' = FALSE
    /\ UNCHANGED <<salting, db, wal, backup, crashes, faults, committed, torn, gap>>

\* A salt is random: one that the file was not made with.
NewSalt == db.key + 1

\* A faulty variant of Salt: a salt that is there is not read.
SaltAnew ==
    /\ pc = "salt"
    /\ Goto("look") /\ key' = NewSalt /\ salt' = key'
    /\ UNCHANGED <<db, wal, backup, available, crashes, faults, committed, torn, short, gap>>

\* _load_or_create_salt(): where there is none, or a file that is too short, a new salt is
\* written beside it and put in its place at once.  The count that os.write() returns is
\* ignored: the key is made of the whole salt even if the file has only a part of it.
Salt ==
    /\ pc = "salt"
    /\ \/ salt # 0 /\ key' = salt /\ Goto("look") /\ UNCHANGED <<salt, short, faults>>
       \/ salt = 0 /\ key' = NewSalt /\ salt' = key' /\ Goto("look") /\ UNCHANGED <<short, faults>>
       \/ salt = 0 /\ Fault /\ key' = NewSalt /\ short' = TRUE /\ Goto("look") /\ UNCHANGED salt
       \/ salt = 0 /\ Fault /\ Goto("raised") /\ UNCHANGED salting
    /\ UNCHANGED <<db, wal, backup, available, crashes, committed, torn, gap>>

\* A new file, with its tables; SQLite removes a log that it finds beside an empty file.
Created == [Absent EXCEPT !.kind = "enc", !.cols = Columns, !.key = key]

\* A file that is absent is created with its tables.  One that is encrypted is opened, and
\* refuses its first statement if the key is not the one it was made with.
OpenEncrypted ==
    /\ pc = "look" /\ db.kind # "plain"
    /\ IF db.kind = "none" THEN db' = Created /\ wal' = {} ELSE UNCHANGED <<db, wal>>
    /\ \/ db'.key = key /\ Goto("schema") /\ UNCHANGED faults
       \/ db'.key # key /\ Goto("raised") /\ UNCHANGED faults
       \/ Fault /\ Goto("raised")
    /\ UNCHANGED <<salting, backup, available, crashes, committed, torn, gap>>

-----------------------------------------------------------------------------
(* _migrate_to_encrypted()                                                 *)

RenameDb ==
    /\ pc = "look" /\ db.kind = "plain"
    /\ \/ bak' = db /\ db' = Absent /\ Goto("renamed") /\ UNCHANGED faults
       \/ Fault /\ Goto("raised") /\ UNCHANGED <<bak, db>>
    /\ UNCHANGED <<salting, wal, blog, wanted, available, crashes, committed, torn, gap>>

\* What raises before the try ends the start with the files where they are.
RaisedIn(step) == Fault /\ Goto("raised") /\ torn' = torn \cup {step}

\* A faulty variant of RenameLog: the log is left where it is.
RenameLogNot ==
    /\ pc = "renamed" /\ Goto("read")
    /\ UNCHANGED <<salting, db, wal, backup, available, crashes, faults, committed, torn, gap>>

\* A log that is not beside the database may still be beside its backup, from a migration
\* whose revert did not end, and stays there.
RenameLog ==
    /\ pc = "renamed"
    /\ \/ /\ blog' = (IF wal = {} THEN blog ELSE wal) /\ wal' = {}
          /\ Goto("read") /\ UNCHANGED <<faults, torn>>
       \/ RaisedIn("renamed") /\ UNCHANGED <<blog, wal>>
    /\ UNCHANGED <<salting, db, bak, wanted, available, crashes, committed, gap>>

\* Columns and counts of the backup's tables.  An OperationalError, be the table missing, the
\* database locked or the disk at fault, counts as no rows: the copy skips the table, and
\* nothing verifies it.  Other errors raise.
ReadBackup ==
    /\ pc = "read"
    /\ \/ wanted' = bak.rows \cup blog /\ Goto("create") /\ UNCHANGED <<faults, torn>>
       \/ wanted' \in SUBSET (bak.rows \cup blog) /\ Fault /\ Goto("create") /\ UNCHANGED torn
       \/ RaisedIn("read") /\ UNCHANGED wanted
    /\ UNCHANGED <<salting, db, wal, bak, blog, available, crashes, committed, gap>>

CreateTarget ==
    /\ pc = "create"
    /\ db' = Created /\ wal' = {}
    /\ \/ Goto("copy") /\ UNCHANGED faults
       \/ Fault /\ Goto("revert")
    /\ UNCHANGED <<salting, backup, available, crashes, committed, torn, gap>>

\* The rows that the next transaction copies.
Batch ==
    LET left == wanted \ db.rows
    IN  {r \in left : Cardinality({s \in left : s <= r}) <= BatchSize}

\* The new tables declare every column NOT NULL without a default, and the statement names
\* the columns of the old table only: where one is missing, the first row is refused.
CopyBatch ==
    /\ pc = "copy" /\ Batch # {}
    /\ \/ /\ bak.cols = Columns
          /\ db' = [db EXCEPT !.rows = @ \cup Batch] /\ UNCHANGED <<pc, faults>>
       \/ /\ bak.cols # Columns \/ faults < MaxFaults
          /\ faults' = IF bak.cols # Columns THEN faults ELSE faults + 1
          /\ Goto("revert") /\ UNCHANGED db
    /\ UNCHANGED <<salting, wal, backup, available, crashes, committed, torn, gap>>

\* A faulty variant of CopyDone: the last, shorter batch is taken for the end.
CopyDoneEarly ==
    /\ pc = "copy" /\ Cardinality(Batch) < BatchSize
    /\ Goto("schema")
    /\ UNCHANGED <<salting, db, wal, backup, available, crashes, faults, committed, torn, gap>>

\* SQLite folds the log into the backup when its last connection is closed.
Folded == bak' = [bak EXCEPT !.rows = @ \cup blog] /\ blog' = {}

CopyDone ==
    /\ pc = "copy" /\ Batch = {}
    /\ Folded /\ Goto("verify")
    /\ UNCHANGED <<salting, db, wal, wanted, available, crashes, faults, committed, torn, gap>>

Verify ==
    /\ pc = "verify"
    /\ \/ /\ Cardinality(db.rows) = Cardinality(wanted) /\ Goto("schema") /\ UNCHANGED faults
          /\ torn' = torn \cup (IF wanted = bak.rows \cup blog THEN {} ELSE {"refused"})
       \/ /\ Cardinality(db.rows) # Cardinality(wanted) /\ Goto("revert")
          /\ UNCHANGED <<faults, torn>>
       \/ Fault /\ Goto("revert") /\ UNCHANGED torn
    /\ UNCHANGED <<salting, db, wal, backup, available, crashes, committed, gap>>

\* The except branch: the backup is closed, which leaves its log as it is while a cursor is
\* open, and the partial file goes.  A log of it that stays is removed by the next creation.
RemoveTarget ==
    /\ pc = "revert"
    /\ Folded \/ UNCHANGED <<bak, blog>>
    /\ \/ db' = Absent /\ Goto("removed") /\ UNCHANGED <<faults, torn>>
       \/ RaisedIn("revert") /\ UNCHANGED db
    /\ UNCHANGED <<salting, wal, wanted, available, crashes, committed, gap>>

\* Then the plaintext comes back ...
MoveBack ==
    /\ pc = "removed"
    /\ \/ db' = bak /\ bak' = Absent /\ Goto("moved") /\ UNCHANGED <<faults, torn>>
       \/ RaisedIn("removed") /\ UNCHANGED <<db, bak>>
    /\ UNCHANGED <<salting, wal, blog, wanted, available, crashes, committed, gap>>

\* ... and last its log.  If this raises, the log waits under the name of the backup's.
MoveLogBack ==
    /\ pc = "moved" /\ Goto("raised")
    /\ \/ wal' = blog /\ blog' = {} /\ UNCHANGED faults
       \/ Fault /\ UNCHANGED <<wal, blog>>
    /\ UNCHANGED <<salting, db, bak, wanted, available, crashes, committed, torn, gap>>

-----------------------------------------------------------------------------
(* _migrate(), _init_fts() and _init_fts_triggers()                        *)

AddColumn ==
    /\ pc = "schema" /\ db.cols # Columns
    /\ \/ /\ \E c \in Columns \ db.cols : db' = [db EXCEPT !.cols = @ \cup {c}]
          /\ UNCHANGED <<pc, faults>>
       \/ Fault /\ Goto("index") /\ UNCHANGED db
    /\ UNCHANGED <<salting, wal, backup, available, crashes, committed, torn, gap>>

SchemaDone ==
    /\ pc = "schema" /\ db.cols = Columns /\ Goto("index")
    /\ UNCHANGED <<salting, db, wal, backup, available, crashes, faults, committed, torn, gap>>

\* The table of the index is created where it is missing; an index that is there is taken
\* for complete.  Whatever raises leaves the store open without its index.
CreateIndex ==
    /\ pc = "index"
    /\ \/ /\ ~db.fts /\ db' = [db EXCEPT !.fts = TRUE] /\ Goto("build")
          /\ UNCHANGED <<available, faults>>
       \/ db.fts /\ available' = TRUE /\ Goto("triggers") /\ UNCHANGED <<db, faults>>
       \/ Fault /\ Goto("open") /\ UNCHANGED <<db, available>>
    /\ UNCHANGED <<salting, wal, backup, crashes, committed, torn, gap>>

\* A faulty variant of BuildIndex: the new index is left empty.
BuildIndexEmpty ==
    /\ pc = "build"
    /\ available' = TRUE /\ Goto("triggers")
    /\ UNCHANGED <<salting, db, wal, backup, crashes, faults, committed, torn, gap>>

BuildIndex ==
    /\ pc = "build"
    /\ \/ /\ db' = [db EXCEPT !.index = db.rows]
          /\ available' = TRUE /\ Goto("triggers") /\ UNCHANGED <<faults, gap>>
       \/ Fault /\ Goto("open") /\ gap' = TRUE /\ UNCHANGED <<db, available>>
    /\ UNCHANGED <<salting, wal, backup, crashes, committed, torn>>

CreateTriggers ==
    /\ pc = "triggers" /\ Goto("open")
    /\ \/ db' = [db EXCEPT !.triggers = TRUE] /\ UNCHANGED faults
       \/ Fault /\ UNCHANGED db
    /\ UNCHANGED <<salting, wal, backup, available, crashes, committed, torn, gap>>

-----------------------------------------------------------------------------
(* The open store and the end of the process.                              *)

\* A save needs every column; the triggers put its text in the index.
SaveRow ==
    /\ pc = "open" /\ db.cols = Columns
    /\ \E r \in Rows \ (committed \cup 1..OldRows) :
          /\ db' = [db EXCEPT !.rows = @ \cup {r},
                              !.index = IF db.triggers THEN @ \cup {r} ELSE @]
          /\ committed' = committed \cup {r}
    /\ gap' = (gap \/ ~db.triggers)
    /\ UNCHANGED <<pc, salting, wal, backup, available, crashes, faults, torn>>

Close ==
    /\ pc \in {"open", "raised"} /\ Goto("down")
    /\ UNCHANGED <<salting, db, wal, backup, available, crashes, faults, committed, torn, gap>>

Crash ==
    /\ pc # "down" /\ crashes < MaxCrashes
    /\ Goto("down") /\ crashes' = crashes + 1
    /\ torn' = torn \cup ({pc} \cap Migrating)
    /\ gap' = (gap \/ pc = "build")
    /\ UNCHANGED <<salting, db, wal, backup, available, faults, committed>>

OpeningNext ==
    \/ Start \/ Salt \/ OpenEncrypted
    \/ RenameDb \/ RenameLog \/ ReadBackup \/ CreateTarget \/ CopyBatch \/ CopyDone \/ Verify
    \/ RemoveTarget \/ MoveBack \/ MoveLogBack
    \/ AddColumn \/ SchemaDone \/ CreateIndex \/ BuildIndex \/ CreateTriggers
    \/ SaveRow \/ Close \/ Crash

OpeningSpec == OpeningInit /\ [][OpeningNext]_openingVars

-----------------------------------------------------------------------------
(* Invariants                                                              *)

\* The database at the path has every row ever committed, whatever the outcome of a migration:
\* one that raises puts the plaintext back, with its log or with the log where the next
\* migration finds it.  Exempt are a migration that ended, or raised outside of its try, with
\* the files on their way, and one that took an unreadable table for a missing one.
WholeUnlessTorn ==
    torn = {} /\ pc \notin Migrating
        => committed \subseteq db.rows \cup wal \cup (IF db.kind = "plain" THEN blog ELSE {})

\* Whenever the process dies, and whatever was refused, every committed row is in some file, so
\* that it can be restored by hand; only a start that ends between the renames of a database and
\* of its log is exempt.
NothingDestroyed ==
    "renamed" \notin torn => committed \subseteq db.rows \cup wal \cup bak.rows \cup blog

\* The key of an encrypted file can be derived again, from the salt that is there whole: over
\* starts that end at any step only a salt of which a part was written loses it.
Readable == db.kind = "enc" /\ ~short => db.key = salt

\* A search by the index finds every row, unless a start ended before the new index was built
\* or the store ran without its triggers.
IndexComplete == pc = "open" /\ available /\ ~gap => db.index = db.rows

-----------------------------------------------------------------------------
(* What the documentation says and the code does not do: the README tells  *)
(* how each is violated.  No run checks these.                             *)

\* What the user guide says of a plaintext database: an open store has all of it.
MigratedWhole == pc = "open" => committed \subseteq db.rows

\* What the architecture document says of the salt, a file of 16 bytes made on the first run: it
\* outlives the file it was made for.
SaltIsKept == db.kind = "enc" => db.key = salt

\* What the user guide says of the first run with a plaintext database: without a fault and
\* without a crash it succeeds.
MigrationSucceeds == crashes = 0 /\ faults = 0 => pc # "raised"

\* What the architecture document says of the index: it is in step with the messages.
IndexInSync == pc = "open" /\ available => db.index = db.rows
=============================================================================
