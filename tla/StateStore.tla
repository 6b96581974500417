----------------------------- MODULE StateStore -----------------------------
(***************************************************************************)
(* A table of StateManager (bridge/state.py): the map from a target event  *)
(* to its room, the map from a source event to its copy, or the set of     *)
(* processed events.  Each lives twice, in the memory of the process, which*)
(* the event loop reads and writes, and in SQLite, which is written by     *)
(* jobs on the threads of the executor.  A job is one transaction, and the *)
(* transactions of pending jobs may come in any order.  A cancelled caller *)
(* does not cancel its job.                                                *)
(***************************************************************************)
EXTENDS Naturals, FiniteSets

CONSTANTS
    Keys,      \* event ids
    Values,    \* what they map to
    None,      \* no value
    Max,       \* MAX_EVENT_MAP or MAX_PROCESSED_CACHE
    Migrated,  \* bound: the rows that the first start finds, migrated from JSON
    MaxOps,    \* bound: the calls of the event loop
    MaxJobs    \* bound: the jobs that are pending at a time

ASSUME StateStoreAssumption ==
    /\ None \notin Values
    /\ Max \in Nat \ {0}
    /\ Migrated \in Nat /\ MaxOps \in Nat /\ MaxJobs \in Nat

VARIABLES
    kind,    \* "map" if a save replaces the row of its key, "set" if it leaves it
    memory,  \* the dict (for a set, every value stands for membership)
    rows,    \* the table: rows [id, key, value], id being the rowid
    jobs,    \* the pending jobs
    ops,     \* the calls so far, which number the jobs
    \* The next records the past and guards no action.
    raced    \* a call began before the job of an earlier one on the same key was done, or
             \* wrote a key that had a row, or a clear failed

vars == <<kind, memory, rows, jobs, ops, raced>>

Row == [id : Nat, key : Keys, value : Values]

Jobs == [nr : 1..MaxOps, do : {"save", "delete", "clear"}, key : Keys, value : Values]

TypeOK ==
    /\ kind \in {"map", "set"}
    /\ memory \in [Keys -> Values \cup {None}]
    /\ rows \subseteq Row
    /\ \A r, s \in rows : r.id = s.id \/ r.key = s.key => r = s
    /\ jobs \subseteq Jobs
    /\ ops \in 0..MaxOps
    /\ raced \in BOOLEAN

HasRow(k) == \E r \in rows : r.key = k

InTable(k) == IF HasRow(k) THEN (CHOOSE r \in rows : r.key = k).value ELSE None

\* What load() puts in memory.
Loaded == [k \in Keys |-> InTable(k)]

\* The tables as a migration from JSON left them, which trims the processed events only.
Init ==
    /\ kind \in {"map", "set"}
    /\ \E n \in 0..Migrated : \E key \in [1..n -> Keys], value \in [1..n -> Values] :
           /\ \A i, j \in 1..n : key[i] = key[j] => i = j
           /\ kind = "set" => n <= Max
           /\ rows = {[id |-> i, key |-> key[i], value |-> value[i]] : i \in 1..n}
    /\ memory = Loaded
    /\ jobs = {} /\ ops = 0 /\ raced = FALSE

-----------------------------------------------------------------------------
(* The calls of the event loop.                                            *)

Submit(do, k, v) ==
    /\ ops < MaxOps
    /\ Cardinality(jobs) < MaxJobs
    /\ ops' = ops + 1
    /\ jobs' = jobs \cup {[nr |-> ops + 1, do |-> do, key |-> k, value |-> v]}

Pending(k) == \E j \in jobs : j.key = k \/ j.do = "clear"

Save(k, v) ==
    /\ kind = "set" => memory[k] = None
    /\ memory' = [memory EXCEPT ![k] = v]
    /\ Submit("save", k, v)
    /\ raced' = (raced \/ Pending(k) \/ HasRow(k))
    /\ UNCHANGED <<kind, rows>>

\* A faulty variant: the entry goes from the table and stays in memory.
PopMemoryKept(k) ==
    /\ kind = "map" /\ memory[k] # None
    /\ Submit("delete", k, memory[k])
    /\ raced' = (raced \/ Pending(k))
    /\ UNCHANGED <<kind, memory, rows>>

Pop(k) ==
    /\ kind = "map" /\ memory[k] # None
    /\ memory' = [memory EXCEPT ![k] = None]
    /\ Submit("delete", k, memory[k])
    /\ raced' = (raced \/ Pending(k))
    /\ UNCHANGED <<kind, rows>>

Clear ==
    /\ kind = "map"
    /\ memory' = [k \in Keys |-> None]
    /\ \E k \in Keys, v \in Values : Submit("clear", k, v)
    /\ raced' = (raced \/ jobs # {})
    /\ UNCHANGED <<kind, rows>>

-----------------------------------------------------------------------------
(* The jobs.                                                               *)

NewId == IF rows = {} THEN 1
         ELSE 1 + CHOOSE i \in {r.id : r \in rows} : \A r \in rows : r.id <= i

\* A faulty variant: the trim keeps one row too many.
TrimmedOffByOne(R) == {r \in R : Cardinality({s \in R : s.id > r.id}) <= Max}

\* The rows that are left when the oldest in excess are gone.
Trimmed(R) == {r \in R : Cardinality({s \in R : s.id > r.id}) < Max}

\* A faulty variant: the new row is put beside the old one of its key.
InsertedBeside(j) == rows \cup {[id |-> NewId, key |-> j.key, value |-> j.value]}

\* The table with the row of the job, before the trim.
Inserted(j) ==
    IF kind = "set" /\ HasRow(j.key) THEN rows
    ELSE {r \in rows : r.key # j.key} \cup
         {[id |-> NewId, key |-> j.key, value |-> j.value]}

Done(j) == jobs' = jobs \ {j}

\* A faulty variant: the trim does not reach the memory.
RunSaveMemoryKept(j) ==
    /\ j.do = "save"
    /\ rows' = Trimmed(Inserted(j))
    /\ Done(j)
    /\ UNCHANGED <<kind, memory, ops, raced>>

\* One transaction inserts and trims, and drops from memory what was trimmed.
RunSave(j) ==
    /\ j.do = "save"
    /\ rows' = Trimmed(Inserted(j))
    /\ memory' = [k \in Keys |->
           IF \E r \in Inserted(j) \ rows' : r.key = k THEN None ELSE memory[k]]
    /\ Done(j)
    /\ UNCHANGED <<kind, ops, raced>>

RunDelete(j) ==
    /\ j.do = "delete"
    /\ rows' = {r \in rows : r.key # j.key}
    /\ Done(j)
    /\ UNCHANGED <<kind, memory, ops, raced>>

\* An exception in the clear is swallowed: the rows may stay.
RunClear(j) ==
    /\ j.do = "clear"
    /\ \/ rows' = {} /\ raced' = raced
       \/ rows' = rows /\ raced' = TRUE
    /\ Done(j)
    /\ UNCHANGED <<kind, memory, ops>>

\* The process dies and another one loads the table.
Restart ==
    /\ jobs' = {}
    /\ memory' = Loaded
    /\ UNCHANGED <<kind, rows, ops, raced>>

Next ==
    \/ \E k \in Keys, v \in Values : Save(k, v)
    \/ \E k \in Keys : Pop(k)
    \/ Clear
    \/ \E j \in jobs : RunSave(j) \/ RunDelete(j) \/ RunClear(j)
    \/ Restart

Spec == Init /\ [][Next]_vars

-----------------------------------------------------------------------------
(* Properties.                                                             *)

\* The table never grows beyond its limit, and the first save after a migration brings it
\* back there (state.py:157-166, 177-186, 224-232).
NeverGrowsPastMax ==
    [][Cardinality(rows') > Cardinality(rows) => Cardinality(rows') <= Max]_vars

\* When no job is pending, memory and table say the same: a restart changes nothing.  It
\* takes that no call overlaps with another on its key and that no key is written twice,
\* which is what the forwarding path does (state.py:153-232).
QuietAgreement == jobs = {} /\ ~raced => memory = Loaded

\* Nothing lingers in memory alone: what is there is in the table or in a pending save, so
\* the limit of the table limits the memory too.
MemoryIsBacked ==
    ~raced => \A k \in Keys : memory[k] # None =>
        memory[k] = InTable(k) \/ \E j \in jobs : j.do = "save" /\ j.key = k
=============================================================================
