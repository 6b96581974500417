------------------------- MODULE MessageStoreProofs -------------------------
(***************************************************************************)
(* Proofs about two parts of the message store, MediaFiles (part 1) and    *)
(* Transfer (part 2), for any messages, sizes of batches and bounds.       *)
(*                                                                         *)
(* Part 1: the types, that a row that names a file has it and that a file  *)
(* has a row, but for what a named action took or left.  Part 2: what an   *)
(* export has written of the table as it was at its beginning (ExportInv)  *)
(* and what an import has still to do (ImportInv).                         *)
(***************************************************************************)
EXTENDS MediaFiles, Transfer, TLAPS

-----------------------------------------------------------------------------
(* PART 1.  MediaFiles.                                                    *)

(***************************************************************************)
(* The types.  Those of the threads' jobs apart, since most steps touch    *)
(* one job and little else.                                                *)
(***************************************************************************)
JobOK(j) ==
    /\ j \in Jobs
    /\ \A m, n \in j.of : m = n
    /\ j.at = "idle" <=> j.of = {}

JobsOK == job \in [Threads -> Jobs] /\ \A t \in Threads : JobOK(job[t])

FilesOK ==
    /\ row \in [Messages -> {"none", "bare", "file"}]
    /\ disk \in [Messages -> {"none", "good", "cipher", "cut"}]

RestOK ==
    /\ handled \cup redacted \cup lost \cup stray \cup todo \cup apply \cup known \subseteq Messages
    /\ waiting \subseteq handled
    /\ fill \in {"off", "clear", "wipe", "look", "page"} /\ media \in BOOLEAN
    /\ (fill = "off" => todo = {} /\ apply = {} /\ known = {})
    /\ fix \in [at : {"off", "next", "fetched"}, of : SUBSET Messages, list : SUBSET Messages]
    /\ fills \in 0..MaxFills /\ repairs \in 0..MaxRepairs /\ faults \in 0..MaxFaults
    /\ cleared \in BOOLEAN

\* The type invariant is the three together.
LEMMA Parts == TypeOK <=> JobsOK /\ FilesOK /\ RestOK
BY DEF TypeOK, JobsOK, FilesOK, RestOK, JobOK

\* A job that moves on to something else is still of one message.
LEMMA MovedJob ==
    ASSUME NEW j, JobOK(j), j.of # {}, NEW p \in BOOLEAN, NEW o \in BOOLEAN, NEW s \in BOOLEAN,
           NEW a \in {"write", "insert", "look", "update", "unlink", "found", "drop"}
    PROVE  /\ JobOK([j EXCEPT !.at = a]) /\ JobOK([j EXCEPT !.at = a, !.path = p])
           /\ JobOK([j EXCEPT !.at = a, !.old = o])
BY DEF JobOK, Jobs

\* Nothing, and a new job for one message, are jobs.
LEMMA NewJob ==
    ASSUME NEW m \in Messages, NEW o \in BOOLEAN,
           NEW a \in {"write", "insert", "look", "update", "unlink", "found", "drop"}
    PROVE  /\ JobOK(Idle) /\ JobOK([Idle EXCEPT !.at = a, !.of = {m}])
           /\ JobOK([Idle EXCEPT !.at = a, !.of = {m}, !.old = o])
BY DEF JobOK, Jobs, Idle

LEMMA IdleJob == JobOK(Idle)
BY DEF JobOK, Jobs, Idle

\* Goes() gives a thread its next job and leaves the other one's alone.
LEMMA GoesJob ==
    ASSUME JobsOK, NEW t \in Threads, NEW j, JobOK(j), Goes(t, j)
    PROVE  JobsOK' /\ job'[t] = j /\ \A u \in Threads \ {t} : job'[u] = job[u]
<1>1. job' = [job EXCEPT ![t] = j] /\ job \in [Threads -> Jobs] /\ j \in Jobs
  BY DEF Goes, JobsOK, JobOK
<1>2. job'[t] = j /\ \A u \in Threads \ {t} : job'[u] = job[u]
  BY <1>1
<1>3. job' \in [Threads -> Jobs]
  BY <1>1
<1>4. \A u \in Threads : JobOK(job'[u])
  BY <1>2 DEF JobsOK
<1>5. QED
  BY <1>2, <1>3, <1>4 DEF JobsOK, JobOK

\* GoesOnWriting() makes the other one's stale, if it has any, and changes nothing else of it.
LEMMA GoesOnWritingJob ==
    ASSUME JobsOK, NEW t \in Threads, NEW j, JobOK(j), GoesOnWriting(t, j)
    PROVE  /\ JobsOK' /\ job'[t] = j
           /\ \A u \in Threads \ {t} :
                /\ job'[u].at = job[u].at /\ job'[u].of = job[u].of
                /\ job'[u].path = job[u].path /\ job'[u].old = job[u].old
                /\ job'[u].stale = (job[u].stale \/ job[u].at # "idle")
<1>1. job' = [u \in Threads |-> IF u = t THEN j
                  ELSE [job[u] EXCEPT !.stale = job[u].stale \/ job[u].at # "idle"]]
  BY DEF GoesOnWriting
<1>2. \A u \in Threads : JobOK(job[u])
  BY DEF JobsOK
<1>3. \A i : JobOK(i) => LET k == [i EXCEPT !.stale = i.stale \/ i.at # "idle"]
                      IN  /\ JobOK(k) /\ k \in Jobs /\ k.at = i.at /\ k.of = i.of
                          /\ k.path = i.path /\ k.old = i.old
                          /\ k.stale = (i.stale \/ i.at # "idle")
  BY DEF JobOK, Jobs
<1>4. \A u \in Threads \ {t} : LET k == [job[u] EXCEPT !.stale = job[u].stale \/ job[u].at # "idle"]
                      IN  /\ JobOK(k) /\ k \in Jobs /\ k.at = job[u].at /\ k.of = job[u].of
                          /\ k.path = job[u].path /\ k.old = job[u].old
                          /\ k.stale = (job[u].stale \/ job[u].at # "idle")
  BY <1>2, <1>3
<1>5. job'[t] = j
  BY <1>1
<1>6. \A u \in Threads \ {t} : job'[u] = [job[u] EXCEPT !.stale = job[u].stale \/ job[u].at # "idle"]
  BY <1>1
<1>7. j \in Jobs
  BY DEF JobOK
<1>8. job' \in [Threads -> Jobs]
  BY <1>1, <1>4, <1>7
<1>9. \A u \in Threads : JobOK(job'[u])
  BY <1>4, <1>5, <1>6
<1>10. JobsOK'
  BY <1>8, <1>9 DEF JobsOK, JobOK
<1>11. ASSUME NEW u \in Threads \ {t}
       PROVE  /\ job'[u].at = job[u].at /\ job'[u].of = job[u].of
              /\ job'[u].path = job[u].path /\ job'[u].old = job[u].old
              /\ job'[u].stale = (job[u].stale \/ job[u].at # "idle")
  <2>1. job'[u] = [job[u] EXCEPT !.stale = job[u].stale \/ job[u].at # "idle"]
    BY <1>6
  <2>2. JobOK(job[u])
    BY <1>2
  <2>3. QED
    BY <2>1, <2>2, <1>3
<1>12. QED
  BY <1>5, <1>10, <1>11

\* Whoever has a job for a message has a message.
LEMMA JobsMessage ==
    ASSUME JobsOK, NEW t \in Threads, NEW m \in job[t].of
    PROVE  /\ m \in Messages /\ JobOK(job[t]) /\ job[t].of = {m} /\ job[t].at # "idle"
           /\ job[t].path \in BOOLEAN /\ job[t].old \in BOOLEAN /\ job[t].stale \in BOOLEAN
BY DEF JobsOK, JobOK, Jobs

LEMMA TypeStep == TypeOK /\ [Next]_vars => TypeOK'
<1> SUFFICES ASSUME JobsOK, FilesOK, RestOK, [Next]_vars PROVE JobsOK' /\ FilesOK' /\ RestOK'
  <2>1. TypeOK' <=> JobsOK' /\ FilesOK' /\ RestOK'
    BY Parts, PTL
  <2>2. QED
    BY <2>1, Parts
<1>1. ASSUME NEW t \in Threads, NEW m \in job[t].of, Write(t, m) PROVE JobsOK' /\ FilesOK' /\ RestOK'
  <2>1. m \in Messages /\ JobOK(job[t]) /\ job[t].of # {} /\ job[t].path \in BOOLEAN /\ job[t].old \in BOOLEAN
    BY JobsMessage
  <2>2. JobOK([job[t] EXCEPT !.at = "insert", !.path = TRUE])
    BY <2>1, MovedJob, IdleJob
  <2>3. Goes(t, [job[t] EXCEPT !.at = "insert", !.path = TRUE])
    BY <1>1 DEF Write
  <2>4. JobsOK'
    BY <2>2, <2>3, GoesJob
  <2>5. FilesOK'
    BY <1>1, <2>1 DEF Write, FilesOK, Sets, Puts, Column
  <2>6. RestOK'
    BY <1>1, <2>1, MediaFilesAssumption DEF Write, RestOK, Fault, seen, backfill, repair
  <2>7. QED
    BY <2>4, <2>5, <2>6
<1>2. ASSUME NEW t \in Threads, NEW m \in job[t].of, WriteFails(t, m) PROVE JobsOK' /\ FilesOK' /\ RestOK'
  <2>1. m \in Messages /\ JobOK(job[t]) /\ job[t].of # {} /\ job[t].path \in BOOLEAN /\ job[t].old \in BOOLEAN
    BY JobsMessage
  <2>2. JobOK([job[t] EXCEPT !.at = "insert"])
    BY <2>1, MovedJob, IdleJob
  <2>3. Goes(t, [job[t] EXCEPT !.at = "insert"])
    BY <1>2 DEF WriteFails
  <2>4. JobsOK'
    BY <2>2, <2>3, GoesJob
  <2>5. FilesOK'
    BY <1>2, <2>1 DEF WriteFails, FilesOK, Sets, Puts, Column
  <2>6. RestOK'
    BY <1>2, <2>1, MediaFilesAssumption DEF WriteFails, RestOK, Fault, seen, backfill, repair
  <2>7. QED
    BY <2>4, <2>5, <2>6
<1>3. ASSUME NEW t \in Threads, NEW m \in job[t].of, WriteCut(t, m) PROVE JobsOK' /\ FilesOK' /\ RestOK'
  <2>1. m \in Messages /\ JobOK(job[t]) /\ job[t].of # {} /\ job[t].path \in BOOLEAN /\ job[t].old \in BOOLEAN
    BY JobsMessage
  <2>2. JobOK([job[t] EXCEPT !.at = "insert", !.path = TRUE])
    BY <2>1, MovedJob, IdleJob
  <2>3. Goes(t, [job[t] EXCEPT !.at = "insert", !.path = TRUE])
    BY <1>3 DEF WriteCut
  <2>4. JobsOK'
    BY <2>2, <2>3, GoesJob
  <2>5. FilesOK'
    BY <1>3, <2>1 DEF WriteCut, FilesOK, Sets, Puts, Column
  <2>6. RestOK'
    BY <1>3, <2>1, MediaFilesAssumption DEF WriteCut, RestOK, Fault, seen, backfill, repair
  <2>7. QED
    BY <2>4, <2>5, <2>6
<1>4. ASSUME NEW t \in Threads, NEW m \in job[t].of, Insert(t, m) PROVE JobsOK' /\ FilesOK' /\ RestOK'
  <2>1. m \in Messages /\ JobOK(job[t]) /\ job[t].of # {} /\ job[t].path \in BOOLEAN /\ job[t].old \in BOOLEAN
    BY JobsMessage
  <2>2. JobOK(Idle)
    BY <2>1, MovedJob, IdleJob
  <2>3. GoesOnWriting(t, Idle)
    BY <1>4 DEF Insert
  <2>4. JobsOK'
    BY <2>2, <2>3, GoesOnWritingJob
  <2>5. FilesOK'
    BY <1>4, <2>1 DEF Insert, FilesOK, Sets, Puts, Column
  <2>6. RestOK'
    BY <1>4, <2>1, MediaFilesAssumption DEF Insert, RestOK, Fault, seen, backfill, repair
  <2>7. QED
    BY <2>4, <2>5, <2>6
<1>5. ASSUME NEW t \in Threads, NEW m \in job[t].of, InsertRefused(t, m) PROVE JobsOK' /\ FilesOK' /\ RestOK'
  <2>1. m \in Messages /\ JobOK(job[t]) /\ job[t].of # {} /\ job[t].path \in BOOLEAN /\ job[t].old \in BOOLEAN
    BY JobsMessage
  <2>2. JobOK(Idle)
    BY <2>1, MovedJob, IdleJob
  <2>3. Goes(t, Idle)
    BY <1>5 DEF InsertRefused
  <2>4. JobsOK'
    BY <2>2, <2>3, GoesJob
  <2>5. FilesOK'
    BY <1>5, <2>1 DEF InsertRefused, FilesOK, Sets, Puts, Column
  <2>6. RestOK'
    BY <1>5, <2>1, MediaFilesAssumption DEF InsertRefused, RestOK, Fault, seen, backfill, repair
  <2>7. QED
    BY <2>4, <2>5, <2>6
<1>6. ASSUME NEW t \in Threads, NEW m \in job[t].of, Duplicate(t, m) PROVE JobsOK' /\ FilesOK' /\ RestOK'
  <2>1. m \in Messages /\ JobOK(job[t]) /\ job[t].of # {} /\ job[t].path \in BOOLEAN /\ job[t].old \in BOOLEAN
    BY JobsMessage
  <2>2. JobOK([job[t] EXCEPT !.at = "look"])
    BY <2>1, MovedJob, IdleJob
  <2>3. Goes(t, [job[t] EXCEPT !.at = "look"])
    BY <1>6 DEF Duplicate
  <2>4. JobsOK'
    BY <2>2, <2>3, GoesJob
  <2>5. FilesOK'
    BY <1>6, <2>1 DEF Duplicate, FilesOK, Sets, Puts, Column
  <2>6. RestOK'
    BY <1>6, <2>1, MediaFilesAssumption DEF Duplicate, RestOK, Fault, seen, backfill, repair
  <2>7. QED
    BY <2>4, <2>5, <2>6
<1>7. ASSUME NEW t \in Threads, NEW m \in job[t].of, Look(t, m) PROVE JobsOK' /\ FilesOK' /\ RestOK'
  <2>1. m \in Messages /\ JobOK(job[t]) /\ job[t].of # {} /\ job[t].path \in BOOLEAN /\ job[t].old \in BOOLEAN
    BY JobsMessage
  <2>2. JobOK([job[t] EXCEPT !.at = "update", !.old = row[m] = "file"])
    BY <2>1, MovedJob, IdleJob
  <2>3. Goes(t, [job[t] EXCEPT !.at = "update", !.old = row[m] = "file"])
    BY <1>7 DEF Look
  <2>4. JobsOK'
    BY <2>2, <2>3, GoesJob
  <2>5. FilesOK'
    BY <1>7, <2>1 DEF Look, FilesOK, Sets, Puts, Column
  <2>6. RestOK'
    BY <1>7, <2>1, MediaFilesAssumption DEF Look, RestOK, Fault, seen, backfill, repair
  <2>7. QED
    BY <2>4, <2>5, <2>6
<1>8. ASSUME NEW t \in Threads, NEW m \in job[t].of, Update(t, m) PROVE JobsOK' /\ FilesOK' /\ RestOK'
  <2>1. m \in Messages /\ JobOK(job[t]) /\ job[t].of # {} /\ job[t].path \in BOOLEAN /\ job[t].old \in BOOLEAN
    BY JobsMessage
  <2>2. JobOK(IF job[t].old /\ ~job[t].path /\ HasDir(t) THEN [job[t] EXCEPT !.at = "unlink"] ELSE Idle)
    BY <2>1, MovedJob, IdleJob
  <2>3. GoesOnWriting(t, IF job[t].old /\ ~job[t].path /\ HasDir(t) THEN [job[t] EXCEPT !.at = "unlink"] ELSE Idle)
    BY <1>8 DEF Update, Updated
  <2>4. JobsOK'
    BY <2>2, <2>3, GoesOnWritingJob
  <2>5. FilesOK'
    BY <1>8, <2>1 DEF Update, Updated, FilesOK, Sets, Puts, Column
  <2>6. RestOK'
    BY <1>8, <2>1, MediaFilesAssumption DEF Update, Updated, RestOK, Fault, seen, backfill, repair
  <2>7. QED
    BY <2>4, <2>5, <2>6
<1>9. ASSUME NEW t \in Threads, NEW m \in job[t].of, UpdateRefused(t, m) PROVE JobsOK' /\ FilesOK' /\ RestOK'
  <2>1. m \in Messages /\ JobOK(job[t]) /\ job[t].of # {} /\ job[t].path \in BOOLEAN /\ job[t].old \in BOOLEAN
    BY JobsMessage
  <2>2. JobOK(IF job[t].path /\ HasDir(t) THEN [job[t] EXCEPT !.at = "unlink"] ELSE Idle)
    BY <2>1, MovedJob, IdleJob
  <2>3. Goes(t, IF job[t].path /\ HasDir(t) THEN [job[t] EXCEPT !.at = "unlink"] ELSE Idle)
    BY <1>9 DEF UpdateRefused
  <2>4. JobsOK'
    BY <2>2, <2>3, GoesJob
  <2>5. FilesOK'
    BY <1>9, <2>1 DEF UpdateRefused, FilesOK, Sets, Puts, Column
  <2>6. RestOK'
    BY <1>9, <2>1, MediaFilesAssumption DEF UpdateRefused, RestOK, Fault, seen, backfill, repair
  <2>7. QED
    BY <2>4, <2>5, <2>6
<1>10. ASSUME NEW t \in Threads, NEW m \in job[t].of, Unlink(t, m) PROVE JobsOK' /\ FilesOK' /\ RestOK'
  <2>1. m \in Messages /\ JobOK(job[t]) /\ job[t].of # {} /\ job[t].path \in BOOLEAN /\ job[t].old \in BOOLEAN
    BY JobsMessage
  <2>2. JobOK(Idle)
    BY <2>1, MovedJob, IdleJob
  <2>3. Goes(t, Idle)
    BY <1>10 DEF Unlink
  <2>4. JobsOK'
    BY <2>2, <2>3, GoesJob
  <2>5. FilesOK'
    BY <1>10, <2>1 DEF Unlink, FilesOK, Sets, Puts, Column
  <2>6. RestOK'
    BY <1>10, <2>1, MediaFilesAssumption DEF Unlink, RestOK, Fault, seen, backfill, repair
  <2>7. QED
    BY <2>4, <2>5, <2>6
<1>11. ASSUME NEW t \in Threads, NEW m \in job[t].of, Remove(t, m) PROVE JobsOK' /\ FilesOK' /\ RestOK'
  <2>1. m \in Messages /\ JobOK(job[t]) /\ job[t].of # {} /\ job[t].path \in BOOLEAN /\ job[t].old \in BOOLEAN
    BY JobsMessage
  <2>2. JobOK([job[t] EXCEPT !.at = "drop"])
    BY <2>1, MovedJob, IdleJob
  <2>3. Goes(t, [job[t] EXCEPT !.at = "drop"])
    BY <1>11 DEF Remove
  <2>4. JobsOK'
    BY <2>2, <2>3, GoesJob
  <2>5. FilesOK'
    BY <1>11, <2>1 DEF Remove, FilesOK, Sets, Puts, Column
  <2>6. RestOK'
    BY <1>11, <2>1, MediaFilesAssumption DEF Remove, RestOK, Fault, seen, backfill, repair
  <2>7. QED
    BY <2>4, <2>5, <2>6
<1>12. ASSUME NEW t \in Threads, NEW m \in job[t].of, Drop(t, m) PROVE JobsOK' /\ FilesOK' /\ RestOK'
  <2>1. m \in Messages /\ JobOK(job[t]) /\ job[t].of # {} /\ job[t].path \in BOOLEAN /\ job[t].old \in BOOLEAN
    BY JobsMessage
  <2>2. JobOK(Idle)
    BY <2>1, MovedJob, IdleJob
  <2>3. GoesOnWriting(t, Idle)
    BY <1>12 DEF Drop
  <2>4. JobsOK'
    BY <2>2, <2>3, GoesOnWritingJob
  <2>5. FilesOK'
    BY <1>12, <2>1 DEF Drop, FilesOK, Sets, Puts, Column
  <2>6. RestOK'
    BY <1>12, <2>1, MediaFilesAssumption DEF Drop, RestOK, Fault, seen, backfill, repair
  <2>7. QED
    BY <2>4, <2>5, <2>6
<1>13. ASSUME NEW t \in Threads, NEW m \in job[t].of, DropRefused(t, m) PROVE JobsOK' /\ FilesOK' /\ RestOK'
  <2>1. m \in Messages /\ JobOK(job[t]) /\ job[t].of # {} /\ job[t].path \in BOOLEAN /\ job[t].old \in BOOLEAN
    BY JobsMessage
  <2>2. JobOK(Idle)
    BY <2>1, MovedJob, IdleJob
  <2>3. Goes(t, Idle)
    BY <1>13 DEF DropRefused
  <2>4. JobsOK'
    BY <2>2, <2>3, GoesJob
  <2>5. FilesOK'
    BY <1>13, <2>1 DEF DropRefused, FilesOK, Sets, Puts, Column
  <2>6. RestOK'
    BY <1>13, <2>1, MediaFilesAssumption DEF DropRefused, RestOK, Fault, seen, backfill, repair
  <2>7. QED
    BY <2>4, <2>5, <2>6
<1>14. ASSUME NEW m \in Messages, Message(m) PROVE JobsOK' /\ FilesOK' /\ RestOK'
  <2>1. JobsOK'
    <3>1. "live" \in Threads
      BY DEF Threads
    <3>2. ASSUME NEW d \in BOOLEAN, Save("live", m, d) PROVE JobsOK'
      BY <3>1, <3>2, NewJob, GoesJob DEF Save
    <3>3. \E d \in BOOLEAN : Save("live", m, d)
      BY <1>14 DEF Message
    <3>4. QED
      BY <3>2, <3>3 DEF JobsOK
  <2>2. FilesOK'
    BY <1>14 DEF Message, FilesOK, Puts
  <2>3. RestOK'
    BY <1>14, MediaFilesAssumption DEF Message, RestOK, seen, backfill, repair
  <2>4. QED
    BY <2>1, <2>2, <2>3
<1>15. ASSUME NEW m \in Messages, Redaction(m) PROVE JobsOK' /\ FilesOK' /\ RestOK'
  <2>1. JobsOK'
    <3>1. "live" \in Threads
      BY DEF Threads
    <3>2. Delete("live", m)
      BY <1>15 DEF Redaction
    <3>3. CASE row[m] = "none"
      BY <3>2, <3>3 DEF Delete, JobsOK
    <3>4. CASE row[m] # "none"
      BY <3>1, <3>2, <3>4, NewJob, GoesJob DEF Delete
    <3>5. QED
      BY <3>3, <3>4
  <2>2. FilesOK'
    BY <1>15 DEF Redaction, FilesOK, Puts
  <2>3. RestOK'
    BY <1>15, MediaFilesAssumption DEF Redaction, RestOK, seen, backfill, repair
  <2>4. QED
    BY <2>1, <2>2, <2>3
<1>16. ASSUME NEW m \in Messages, Wipe(m) PROVE JobsOK' /\ FilesOK' /\ RestOK'
  <2>1. JobsOK'
    BY <1>16 DEF Wipe, JobsOK
  <2>2. FilesOK'
    BY <1>16 DEF Wipe, FilesOK, Puts
  <2>3. RestOK'
    BY <1>16, MediaFilesAssumption DEF Wipe, RestOK, seen, backfill, repair
  <2>4. QED
    BY <2>1, <2>2, <2>3
<1>17. ASSUME NEW m \in Messages, Take(m) PROVE JobsOK' /\ FilesOK' /\ RestOK'
  <2>1. JobsOK'
    <3>1. "fill" \in Threads
      BY DEF Threads
    <3>2. ASSUME NEW d \in BOOLEAN, Save("fill", m, d) PROVE JobsOK'
      BY <3>1, <3>2, NewJob, GoesJob DEF Save
    <3>3. UNCHANGED job \/ \E d \in BOOLEAN : Save("fill", m, d)
      BY <1>17 DEF Take
    <3>4. QED
      BY <3>2, <3>3 DEF JobsOK
  <2>2. FilesOK'
    BY <1>17 DEF Take, FilesOK, Puts
  <2>3. RestOK'
    BY <1>17, MediaFilesAssumption DEF Take, RestOK, seen, backfill, repair
  <2>4. QED
    BY <2>1, <2>2, <2>3
<1>18. ASSUME NEW m \in Messages, ApplyRedaction(m) PROVE JobsOK' /\ FilesOK' /\ RestOK'
  <2>1. JobsOK'
    <3>1. "fill" \in Threads
      BY DEF Threads
    <3>2. Delete("fill", m)
      BY <1>18 DEF ApplyRedaction
    <3>3. CASE row[m] = "none"
      BY <3>2, <3>3 DEF Delete, JobsOK
    <3>4. CASE row[m] # "none"
      BY <3>1, <3>2, <3>4, NewJob, GoesJob DEF Delete
    <3>5. QED
      BY <3>3, <3>4
  <2>2. FilesOK'
    BY <1>18 DEF ApplyRedaction, FilesOK, Puts
  <2>3. RestOK'
    BY <1>18, MediaFilesAssumption DEF ApplyRedaction, RestOK, seen, backfill, repair
  <2>4. QED
    BY <2>1, <2>2, <2>3
<1>19. ASSUME NEW m \in Messages, Fetch(m) PROVE JobsOK' /\ FilesOK' /\ RestOK'
  <2>1. JobsOK'
    BY <1>19 DEF Fetch, JobsOK
  <2>2. FilesOK'
    BY <1>19 DEF Fetch, FilesOK, Puts
  <2>3. RestOK'
    BY <1>19, MediaFilesAssumption DEF Fetch, RestOK, seen, backfill, repair
  <2>4. QED
    BY <2>1, <2>2, <2>3
<1>20. ASSUME NEW m \in Messages, Replace(m) PROVE JobsOK' /\ FilesOK' /\ RestOK'
  <2>1. JobsOK'
    BY <1>20 DEF Replace, JobsOK
  <2>2. FilesOK'
    BY <1>20 DEF Replace, FilesOK, Puts
  <2>3. RestOK'
    BY <1>20, MediaFilesAssumption DEF Replace, RestOK, seen, backfill, repair
  <2>4. QED
    BY <2>1, <2>2, <2>3
<1>21. ASSUME NEW clear \in BOOLEAN, NEW dir \in BOOLEAN, Start(clear, dir) PROVE JobsOK' /\ FilesOK' /\ RestOK'
  BY <1>21, MediaFilesAssumption DEF Start, JobsOK, FilesOK, RestOK, seen, repair
<1>22. CASE ClearAll
  <2>1. JobsOK'
    <3>1. "fill" \in Threads
      BY DEF Threads
    <3>2. QED
      BY <1>22, <3>1, IdleJob, GoesOnWritingJob DEF ClearAll, JobsOK
  <2>2. FilesOK'
    BY <1>22 DEF ClearAll, FilesOK
  <2>3. RestOK'
    BY <1>22, MediaFilesAssumption DEF ClearAll, RestOK, Fault, seen, repair
  <2>4. QED
    BY <2>1, <2>2, <2>3
<1>23. CASE Wiped
  BY <1>23, MediaFilesAssumption DEF Wiped, JobsOK, FilesOK, RestOK, seen, backfill, repair
<1>24. CASE Page
  BY <1>24, MediaFilesAssumption DEF Page, JobsOK, FilesOK, RestOK, seen, backfill, repair
<1>25. CASE Finish
  BY <1>25, MediaFilesAssumption DEF Finish, JobsOK, FilesOK, RestOK, seen, backfill, repair
<1>26. CASE Scan
  BY <1>26, MediaFilesAssumption DEF Scan, JobsOK, FilesOK, RestOK, seen, backfill, repair
<1>27. CASE EndRepair
  BY <1>27, MediaFilesAssumption DEF EndRepair, JobsOK, FilesOK, RestOK, seen, backfill, repair
<1>28. CASE Crash
  <2>1. JobsOK'
    BY <1>28, IdleJob DEF Crash, JobsOK, JobOK
  <2>2. FilesOK'
    BY <1>28 DEF Crash, FilesOK
  <2>3. RestOK'
    BY <1>28, MediaFilesAssumption DEF Crash, RestOK, Fault, seen, repair
  <2>4. QED
    BY <2>1, <2>2, <2>3
<1>29. CASE UNCHANGED vars
  BY <1>29 DEF JobsOK, FilesOK, RestOK, vars
<1>30. QED
  BY <1>1, <1>2, <1>3, <1>4, <1>5, <1>6, <1>7, <1>8, <1>9, <1>10, <1>11, <1>12, <1>13, <1>14, <1>15, <1>16, <1>17, <1>18, <1>19, <1>20, <1>21, <1>22, <1>23, <1>24, <1>25, <1>26, <1>27, <1>28, <1>29
     DEF Next, Step

\* The values are of their types: at most one message in a thread's hand, no work left
\* behind by a backfill that is over.
THEOREM TypeCorrect == Spec => []TypeOK
<1>1. Init => TypeOK
  <2> SUFFICES ASSUME Init PROVE JobsOK /\ FilesOK /\ RestOK
    BY Parts
  <2>1. JobsOK
    BY IdleJob DEF Init, JobsOK, JobOK
  <2>2. FilesOK
    BY DEF Init, FilesOK
  <2>3. RestOK
    <3>1. handled \subseteq Messages
      BY DEF Init
    <3>2. fix \in [at : {"off", "next", "fetched"}, of : SUBSET Messages, list : SUBSET Messages]
      BY DEF Init
    <3>3. fills \in 0..MaxFills /\ repairs \in 0..MaxRepairs /\ faults \in 0..MaxFaults
      BY MediaFilesAssumption DEF Init
    <3>4. QED
      BY <3>1, <3>2, <3>3 DEF Init, RestOK
  <2>4. QED
    BY <2>1, <2>2, <2>3
<1>2. QED
  BY <1>1, TypeStep, PTL DEF Spec

(***************************************************************************)
(* The rows and the files.  The invariants say it of each message: who is  *)
(* about to make a row without a file, or a file without a row, whole.     *)
(***************************************************************************)
At(t, m, places) == m \in job[t].of /\ job[t].at \in places

\* A row without its file waits for the deletion that took it; an unlink that finds a row
\* naming its file was overtaken by another thread.
RowOf(m) ==
    /\ row[m] = "file" /\ disk[m] = "none" => m \in lost \/ \E t \in Threads : At(t, m, {"drop"})
    /\ \A t \in Threads :
        At(t, m, {"unlink"}) /\ row[m] = "file" => job[t].stale \/ m \in lost

\* t has written the message's file and goes on to make its row name it, or is to remove it.
Writer(t, m) ==
    \/ At(t, m, {"insert", "look", "update"}) /\ job[t].path
    \/ At(t, m, {"unlink"})

\* A file without a row has somebody who will see to it; a deletion that nobody overtook
\* knows what the row says, and has taken the file that it named.
FileOf(m) ==
    /\ disk[m] # "none" =>
        row[m] = "file" \/ m \in stray \/ (fill = "wipe" /\ m \in todo) \/ \E t \in Threads : Writer(t, m)
    /\ \A t \in Threads :
        /\ At(t, m, {"found", "drop"}) /\ ~job[t].stale =>
               row[m] # "none" /\ (job[t].old <=> row[m] = "file")
        /\ At(t, m, {"drop"}) /\ job[t].old /\ disk[m] # "none" /\ ~job[t].stale =>
               m \in stray \/ \E u \in Threads : Writer(u, m)

MessageOK(m) == RowOf(m) /\ FileOf(m)

\* Who writes or has written a file.
Writes(t) == job[t].of # {} /\ (job[t].path \/ job[t].at = "write")

\* Only a thread with a media_dir writes a file, and the backfill's thread has a job only
\* while the backfill is at a page.
PathInv ==
    /\ \A t \in Threads : Writes(t) => HasDir(t)
    /\ fill # "page" => job["fill"].of = {}

MediaInv == PathInv /\ \A m \in Messages : MessageOK(m)

\* A step of a thread is about its message: the other messages and the other thread keep
\* what is theirs, but for the mark that the other one's job is stale.
Beside(t, m) ==
    /\ \A n \in Messages \ {m} :
        /\ row'[n] = row[n] /\ disk'[n] = disk[n]
        /\ (n \in lost' <=> n \in lost) /\ (n \in stray' <=> n \in stray)
    /\ \A u \in Threads \ {t} :
        /\ job'[u].at = job[u].at /\ job'[u].of = job[u].of
        /\ job'[u].path = job[u].path /\ job'[u].old = job[u].old
        /\ (job[u].stale => job'[u].stale)
    /\ (Writes(t)' => Writes(t))
    /\ job'[t].of \subseteq {m} /\ fill' = fill /\ todo' = todo /\ media' = media

LEMMA StepBeside ==
    ASSUME JobsOK, FilesOK, NEW t \in Threads, NEW m \in job[t].of, Step(t, m)
    PROVE  Beside(t, m)
<1>1. m \in Messages /\ JobOK(job[t]) /\ job[t].of = {m} /\ job[t].path \in BOOLEAN /\ job[t].old \in BOOLEAN
  BY JobsMessage
<1>2. CASE Write(t, m)
  <2>1. JobOK([job[t] EXCEPT !.at = "insert", !.path = TRUE])
    BY <1>1, MovedJob, IdleJob
  <2>2. Goes(t, [job[t] EXCEPT !.at = "insert", !.path = TRUE])
    BY <1>2 DEF Write
  <2>3. job'[t] = [job[t] EXCEPT !.at = "insert", !.path = TRUE]
    BY <2>1, <2>2, GoesJob
  <2>4. job'[t].of \subseteq {m}
    BY <1>1, <2>3 DEF Idle, JobOK, Jobs
  <2>5. ASSUME NEW u \in Threads \ {t}
        PROVE  /\ job'[u].at = job[u].at /\ job'[u].of = job[u].of
               /\ job'[u].path = job[u].path /\ job'[u].old = job[u].old
               /\ (job[u].stale => job'[u].stale)
    BY <2>1, <2>2, GoesJob
  <2>6. ASSUME NEW n \in Messages \ {m}
        PROVE  /\ row'[n] = row[n] /\ disk'[n] = disk[n]
               /\ (n \in lost' <=> n \in lost) /\ (n \in stray' <=> n \in stray)
    BY <1>1, <1>2 DEF Write, FilesOK, Sets, Puts
  <2>7. fill' = fill /\ todo' = todo /\ media' = media
    BY <1>2 DEF Write, backfill
  <2>8. Writes(t)' => Writes(t)
    BY <1>1, <2>3, <1>2 DEF Write, Writes, Idle, JobOK, Jobs
  <2>9. QED
    BY <2>4, <2>5, <2>6, <2>7, <2>8 DEF Beside
<1>3. CASE WriteFails(t, m)
  <2>1. JobOK([job[t] EXCEPT !.at = "insert"])
    BY <1>1, MovedJob, IdleJob
  <2>2. Goes(t, [job[t] EXCEPT !.at = "insert"])
    BY <1>3 DEF WriteFails
  <2>3. job'[t] = [job[t] EXCEPT !.at = "insert"]
    BY <2>1, <2>2, GoesJob
  <2>4. job'[t].of \subseteq {m}
    BY <1>1, <2>3 DEF Idle, JobOK, Jobs
  <2>5. ASSUME NEW u \in Threads \ {t}
        PROVE  /\ job'[u].at = job[u].at /\ job'[u].of = job[u].of
               /\ job'[u].path = job[u].path /\ job'[u].old = job[u].old
               /\ (job[u].stale => job'[u].stale)
    BY <2>1, <2>2, GoesJob
  <2>6. ASSUME NEW n \in Messages \ {m}
        PROVE  /\ row'[n] = row[n] /\ disk'[n] = disk[n]
               /\ (n \in lost' <=> n \in lost) /\ (n \in stray' <=> n \in stray)
    BY <1>1, <1>3 DEF WriteFails, FilesOK, Sets, Puts
  <2>7. fill' = fill /\ todo' = todo /\ media' = media
    BY <1>3 DEF WriteFails, backfill
  <2>8. Writes(t)' => Writes(t)
    BY <1>1, <2>3, <1>3 DEF WriteFails, Writes, Idle, JobOK, Jobs
  <2>9. QED
    BY <2>4, <2>5, <2>6, <2>7, <2>8 DEF Beside
<1>4. CASE WriteCut(t, m)
  <2>1. JobOK([job[t] EXCEPT !.at = "insert", !.path = TRUE])
    BY <1>1, MovedJob, IdleJob
  <2>2. Goes(t, [job[t] EXCEPT !.at = "insert", !.path = TRUE])
    BY <1>4 DEF WriteCut
  <2>3. job'[t] = [job[t] EXCEPT !.at = "insert", !.path = TRUE]
    BY <2>1, <2>2, GoesJob
  <2>4. job'[t].of \subseteq {m}
    BY <1>1, <2>3 DEF Idle, JobOK, Jobs
  <2>5. ASSUME NEW u \in Threads \ {t}
        PROVE  /\ job'[u].at = job[u].at /\ job'[u].of = job[u].of
               /\ job'[u].path = job[u].path /\ job'[u].old = job[u].old
               /\ (job[u].stale => job'[u].stale)
    BY <2>1, <2>2, GoesJob
  <2>6. ASSUME NEW n \in Messages \ {m}
        PROVE  /\ row'[n] = row[n] /\ disk'[n] = disk[n]
               /\ (n \in lost' <=> n \in lost) /\ (n \in stray' <=> n \in stray)
    BY <1>1, <1>4 DEF WriteCut, FilesOK, Sets, Puts
  <2>7. fill' = fill /\ todo' = todo /\ media' = media
    BY <1>4 DEF WriteCut, backfill
  <2>8. Writes(t)' => Writes(t)
    BY <1>1, <2>3, <1>4 DEF WriteCut, Writes, Idle, JobOK, Jobs
  <2>9. QED
    BY <2>4, <2>5, <2>6, <2>7, <2>8 DEF Beside
<1>5. CASE Insert(t, m)
  <2>1. JobOK(Idle)
    BY <1>1, MovedJob, IdleJob
  <2>2. GoesOnWriting(t, Idle)
    BY <1>5 DEF Insert
  <2>3. job'[t] = Idle
    BY <2>1, <2>2, GoesOnWritingJob
  <2>4. job'[t].of \subseteq {m}
    BY <1>1, <2>3 DEF Idle, JobOK, Jobs
  <2>5. ASSUME NEW u \in Threads \ {t}
        PROVE  /\ job'[u].at = job[u].at /\ job'[u].of = job[u].of
               /\ job'[u].path = job[u].path /\ job'[u].old = job[u].old
               /\ (job[u].stale => job'[u].stale)
    BY <2>1, <2>2, GoesOnWritingJob
  <2>6. ASSUME NEW n \in Messages \ {m}
        PROVE  /\ row'[n] = row[n] /\ disk'[n] = disk[n]
               /\ (n \in lost' <=> n \in lost) /\ (n \in stray' <=> n \in stray)
    BY <1>1, <1>5 DEF Insert, FilesOK, Sets, Puts
  <2>7. fill' = fill /\ todo' = todo /\ media' = media
    BY <1>5 DEF Insert, backfill
  <2>8. Writes(t)' => Writes(t)
    BY <1>1, <2>3, <1>5 DEF Insert, Writes, Idle, JobOK, Jobs
  <2>9. QED
    BY <2>4, <2>5, <2>6, <2>7, <2>8 DEF Beside
<1>6. CASE InsertRefused(t, m)
  <2>1. JobOK(Idle)
    BY <1>1, MovedJob, IdleJob
  <2>2. Goes(t, Idle)
    BY <1>6 DEF InsertRefused
  <2>3. job'[t] = Idle
    BY <2>1, <2>2, GoesJob
  <2>4. job'[t].of \subseteq {m}
    BY <1>1, <2>3 DEF Idle, JobOK, Jobs
  <2>5. ASSUME NEW u \in Threads \ {t}
        PROVE  /\ job'[u].at = job[u].at /\ job'[u].of = job[u].of
               /\ job'[u].path = job[u].path /\ job'[u].old = job[u].old
               /\ (job[u].stale => job'[u].stale)
    BY <2>1, <2>2, GoesJob
  <2>6. ASSUME NEW n \in Messages \ {m}
        PROVE  /\ row'[n] = row[n] /\ disk'[n] = disk[n]
               /\ (n \in lost' <=> n \in lost) /\ (n \in stray' <=> n \in stray)
    BY <1>1, <1>6 DEF InsertRefused, FilesOK, Sets, Puts
  <2>7. fill' = fill /\ todo' = todo /\ media' = media
    BY <1>6 DEF InsertRefused, backfill
  <2>8. Writes(t)' => Writes(t)
    BY <1>1, <2>3, <1>6 DEF InsertRefused, Writes, Idle, JobOK, Jobs
  <2>9. QED
    BY <2>4, <2>5, <2>6, <2>7, <2>8 DEF Beside
<1>7. CASE Duplicate(t, m)
  <2>1. JobOK([job[t] EXCEPT !.at = "look"])
    BY <1>1, MovedJob, IdleJob
  <2>2. Goes(t, [job[t] EXCEPT !.at = "look"])
    BY <1>7 DEF Duplicate
  <2>3. job'[t] = [job[t] EXCEPT !.at = "look"]
    BY <2>1, <2>2, GoesJob
  <2>4. job'[t].of \subseteq {m}
    BY <1>1, <2>3 DEF Idle, JobOK, Jobs
  <2>5. ASSUME NEW u \in Threads \ {t}
        PROVE  /\ job'[u].at = job[u].at /\ job'[u].of = job[u].of
               /\ job'[u].path = job[u].path /\ job'[u].old = job[u].old
               /\ (job[u].stale => job'[u].stale)
    BY <2>1, <2>2, GoesJob
  <2>6. ASSUME NEW n \in Messages \ {m}
        PROVE  /\ row'[n] = row[n] /\ disk'[n] = disk[n]
               /\ (n \in lost' <=> n \in lost) /\ (n \in stray' <=> n \in stray)
    BY <1>1, <1>7 DEF Duplicate, FilesOK, Sets, Puts
  <2>7. fill' = fill /\ todo' = todo /\ media' = media
    BY <1>7 DEF Duplicate, backfill
  <2>8. Writes(t)' => Writes(t)
    BY <1>1, <2>3, <1>7 DEF Duplicate, Writes, Idle, JobOK, Jobs
  <2>9. QED
    BY <2>4, <2>5, <2>6, <2>7, <2>8 DEF Beside
<1>8. CASE Look(t, m)
  <2>1. JobOK([job[t] EXCEPT !.at = "update", !.old = row[m] = "file"])
    BY <1>1, MovedJob, IdleJob
  <2>2. Goes(t, [job[t] EXCEPT !.at = "update", !.old = row[m] = "file"])
    BY <1>8 DEF Look
  <2>3. job'[t] = [job[t] EXCEPT !.at = "update", !.old = row[m] = "file"]
    BY <2>1, <2>2, GoesJob
  <2>4. job'[t].of \subseteq {m}
    BY <1>1, <2>3 DEF Idle, JobOK, Jobs
  <2>5. ASSUME NEW u \in Threads \ {t}
        PROVE  /\ job'[u].at = job[u].at /\ job'[u].of = job[u].of
               /\ job'[u].path = job[u].path /\ job'[u].old = job[u].old
               /\ (job[u].stale => job'[u].stale)
    BY <2>1, <2>2, GoesJob
  <2>6. ASSUME NEW n \in Messages \ {m}
        PROVE  /\ row'[n] = row[n] /\ disk'[n] = disk[n]
               /\ (n \in lost' <=> n \in lost) /\ (n \in stray' <=> n \in stray)
    BY <1>1, <1>8 DEF Look, FilesOK, Sets, Puts
  <2>7. fill' = fill /\ todo' = todo /\ media' = media
    BY <1>8 DEF Look, backfill
  <2>8. Writes(t)' => Writes(t)
    BY <1>1, <2>3, <1>8 DEF Look, Writes, Idle, JobOK, Jobs
  <2>9. QED
    BY <2>4, <2>5, <2>6, <2>7, <2>8 DEF Beside
<1>9. CASE Update(t, m)
  <2>1. JobOK(IF job[t].old /\ ~job[t].path /\ HasDir(t) THEN [job[t] EXCEPT !.at = "unlink"] ELSE Idle)
    BY <1>1, MovedJob, IdleJob
  <2>2. GoesOnWriting(t, IF job[t].old /\ ~job[t].path /\ HasDir(t) THEN [job[t] EXCEPT !.at = "unlink"] ELSE Idle)
    BY <1>9 DEF Update, Updated
  <2>3. job'[t] = IF job[t].old /\ ~job[t].path /\ HasDir(t) THEN [job[t] EXCEPT !.at = "unlink"] ELSE Idle
    BY <2>1, <2>2, GoesOnWritingJob
  <2>4. job'[t].of \subseteq {m}
    BY <1>1, <2>3 DEF Idle, JobOK, Jobs
  <2>5. ASSUME NEW u \in Threads \ {t}
        PROVE  /\ job'[u].at = job[u].at /\ job'[u].of = job[u].of
               /\ job'[u].path = job[u].path /\ job'[u].old = job[u].old
               /\ (job[u].stale => job'[u].stale)
    BY <2>1, <2>2, GoesOnWritingJob
  <2>6. ASSUME NEW n \in Messages \ {m}
        PROVE  /\ row'[n] = row[n] /\ disk'[n] = disk[n]
               /\ (n \in lost' <=> n \in lost) /\ (n \in stray' <=> n \in stray)
    BY <1>1, <1>9 DEF Update, Updated, FilesOK, Sets, Puts
  <2>7. fill' = fill /\ todo' = todo /\ media' = media
    BY <1>9 DEF Update, Updated, backfill
  <2>8. Writes(t)' => Writes(t)
    BY <1>1, <2>3, <1>9 DEF Update, Updated, Writes, Idle, JobOK, Jobs
  <2>9. QED
    BY <2>4, <2>5, <2>6, <2>7, <2>8 DEF Beside
<1>10. CASE UpdateRefused(t, m)
  <2>1. JobOK(IF job[t].path /\ HasDir(t) THEN [job[t] EXCEPT !.at = "unlink"] ELSE Idle)
    BY <1>1, MovedJob, IdleJob
  <2>2. Goes(t, IF job[t].path /\ HasDir(t) THEN [job[t] EXCEPT !.at = "unlink"] ELSE Idle)
    BY <1>10 DEF UpdateRefused
  <2>3. job'[t] = IF job[t].path /\ HasDir(t) THEN [job[t] EXCEPT !.at = "unlink"] ELSE Idle
    BY <2>1, <2>2, GoesJob
  <2>4. job'[t].of \subseteq {m}
    BY <1>1, <2>3 DEF Idle, JobOK, Jobs
  <2>5. ASSUME NEW u \in Threads \ {t}
        PROVE  /\ job'[u].at = job[u].at /\ job'[u].of = job[u].of
               /\ job'[u].path = job[u].path /\ job'[u].old = job[u].old
               /\ (job[u].stale => job'[u].stale)
    BY <2>1, <2>2, GoesJob
  <2>6. ASSUME NEW n \in Messages \ {m}
        PROVE  /\ row'[n] = row[n] /\ disk'[n] = disk[n]
               /\ (n \in lost' <=> n \in lost) /\ (n \in stray' <=> n \in stray)
    BY <1>1, <1>10 DEF UpdateRefused, FilesOK, Sets, Puts
  <2>7. fill' = fill /\ todo' = todo /\ media' = media
    BY <1>10 DEF UpdateRefused, backfill
  <2>8. Writes(t)' => Writes(t)
    BY <1>1, <2>3, <1>10 DEF UpdateRefused, Writes, Idle, JobOK, Jobs
  <2>9. QED
    BY <2>4, <2>5, <2>6, <2>7, <2>8 DEF Beside
<1>11. CASE Unlink(t, m)
  <2>1. JobOK(Idle)
    BY <1>1, MovedJob, IdleJob
  <2>2. Goes(t, Idle)
    BY <1>11 DEF Unlink
  <2>3. job'[t] = Idle
    BY <2>1, <2>2, GoesJob
  <2>4. job'[t].of \subseteq {m}
    BY <1>1, <2>3 DEF Idle, JobOK, Jobs
  <2>5. ASSUME NEW u \in Threads \ {t}
        PROVE  /\ job'[u].at = job[u].at /\ job'[u].of = job[u].of
               /\ job'[u].path = job[u].path /\ job'[u].old = job[u].old
               /\ (job[u].stale => job'[u].stale)
    BY <2>1, <2>2, GoesJob
  <2>6. ASSUME NEW n \in Messages \ {m}
        PROVE  /\ row'[n] = row[n] /\ disk'[n] = disk[n]
               /\ (n \in lost' <=> n \in lost) /\ (n \in stray' <=> n \in stray)
    BY <1>1, <1>11 DEF Unlink, FilesOK, Sets, Puts
  <2>7. fill' = fill /\ todo' = todo /\ media' = media
    BY <1>11 DEF Unlink, backfill
  <2>8. Writes(t)' => Writes(t)
    BY <1>1, <2>3, <1>11 DEF Unlink, Writes, Idle, JobOK, Jobs
  <2>9. QED
    BY <2>4, <2>5, <2>6, <2>7, <2>8 DEF Beside
<1>12. CASE Remove(t, m)
  <2>1. JobOK([job[t] EXCEPT !.at = "drop"])
    BY <1>1, MovedJob, IdleJob
  <2>2. Goes(t, [job[t] EXCEPT !.at = "drop"])
    BY <1>12 DEF Remove
  <2>3. job'[t] = [job[t] EXCEPT !.at = "drop"]
    BY <2>1, <2>2, GoesJob
  <2>4. job'[t].of \subseteq {m}
    BY <1>1, <2>3 DEF Idle, JobOK, Jobs
  <2>5. ASSUME NEW u \in Threads \ {t}
        PROVE  /\ job'[u].at = job[u].at /\ job'[u].of = job[u].of
               /\ job'[u].path = job[u].path /\ job'[u].old = job[u].old
               /\ (job[u].stale => job'[u].stale)
    BY <2>1, <2>2, GoesJob
  <2>6. ASSUME NEW n \in Messages \ {m}
        PROVE  /\ row'[n] = row[n] /\ disk'[n] = disk[n]
               /\ (n \in lost' <=> n \in lost) /\ (n \in stray' <=> n \in stray)
    BY <1>1, <1>12 DEF Remove, FilesOK, Sets, Puts
  <2>7. fill' = fill /\ todo' = todo /\ media' = media
    BY <1>12 DEF Remove, backfill
  <2>8. Writes(t)' => Writes(t)
    BY <1>1, <2>3, <1>12 DEF Remove, Writes, Idle, JobOK, Jobs
  <2>9. QED
    BY <2>4, <2>5, <2>6, <2>7, <2>8 DEF Beside
<1>13. CASE Drop(t, m)
  <2>1. JobOK(Idle)
    BY <1>1, MovedJob, IdleJob
  <2>2. GoesOnWriting(t, Idle)
    BY <1>13 DEF Drop
  <2>3. job'[t] = Idle
    BY <2>1, <2>2, GoesOnWritingJob
  <2>4. job'[t].of \subseteq {m}
    BY <1>1, <2>3 DEF Idle, JobOK, Jobs
  <2>5. ASSUME NEW u \in Threads \ {t}
        PROVE  /\ job'[u].at = job[u].at /\ job'[u].of = job[u].of
               /\ job'[u].path = job[u].path /\ job'[u].old = job[u].old
               /\ (job[u].stale => job'[u].stale)
    BY <2>1, <2>2, GoesOnWritingJob
  <2>6. ASSUME NEW n \in Messages \ {m}
        PROVE  /\ row'[n] = row[n] /\ disk'[n] = disk[n]
               /\ (n \in lost' <=> n \in lost) /\ (n \in stray' <=> n \in stray)
    BY <1>1, <1>13 DEF Drop, FilesOK, Sets, Puts
  <2>7. fill' = fill /\ todo' = todo /\ media' = media
    BY <1>13 DEF Drop, backfill
  <2>8. Writes(t)' => Writes(t)
    BY <1>1, <2>3, <1>13 DEF Drop, Writes, Idle, JobOK, Jobs
  <2>9. QED
    BY <2>4, <2>5, <2>6, <2>7, <2>8 DEF Beside
<1>14. CASE DropRefused(t, m)
  <2>1. JobOK(Idle)
    BY <1>1, MovedJob, IdleJob
  <2>2. Goes(t, Idle)
    BY <1>14 DEF DropRefused
  <2>3. job'[t] = Idle
    BY <2>1, <2>2, GoesJob
  <2>4. job'[t].of \subseteq {m}
    BY <1>1, <2>3 DEF Idle, JobOK, Jobs
  <2>5. ASSUME NEW u \in Threads \ {t}
        PROVE  /\ job'[u].at = job[u].at /\ job'[u].of = job[u].of
               /\ job'[u].path = job[u].path /\ job'[u].old = job[u].old
               /\ (job[u].stale => job'[u].stale)
    BY <2>1, <2>2, GoesJob
  <2>6. ASSUME NEW n \in Messages \ {m}
        PROVE  /\ row'[n] = row[n] /\ disk'[n] = disk[n]
               /\ (n \in lost' <=> n \in lost) /\ (n \in stray' <=> n \in stray)
    BY <1>1, <1>14 DEF DropRefused, FilesOK, Sets, Puts
  <2>7. fill' = fill /\ todo' = todo /\ media' = media
    BY <1>14 DEF DropRefused, backfill
  <2>8. Writes(t)' => Writes(t)
    BY <1>1, <2>3, <1>14 DEF DropRefused, Writes, Idle, JobOK, Jobs
  <2>9. QED
    BY <2>4, <2>5, <2>6, <2>7, <2>8 DEF Beside
<1>15. QED
  BY <1>2, <1>3, <1>4, <1>5, <1>6, <1>7, <1>8, <1>9, <1>10, <1>11, <1>12, <1>13, <1>14 DEF Step

LEMMA OtherMessages ==
    ASSUME JobsOK, JobsOK', NEW t \in Threads, NEW m \in job[t].of, Beside(t, m),
           NEW n \in Messages, n # m, MessageOK(n)
    PROVE  MessageOK(n)'
<1>1. job[t].of = {m} /\ n \notin job[t].of /\ n \notin job'[t].of
  BY JobsMessage DEF Beside
<1>2. /\ row'[n] = row[n] /\ disk'[n] = disk[n] /\ fill' = fill /\ todo' = todo
      /\ (n \in lost' <=> n \in lost) /\ (n \in stray' <=> n \in stray)
  BY DEF Beside
<1>3. \A u \in Threads \ {t} :
        /\ job'[u].at = job[u].at /\ job'[u].of = job[u].of
        /\ job'[u].path = job[u].path /\ job'[u].old = job[u].old
        /\ (job[u].stale => job'[u].stale)
  BY DEF Beside
<1>4. \A u \in Threads : Writer(u, n) <=> Writer(u, n)'
  BY <1>1, <1>3 DEF Writer, At
<1>5. RowOf(n)'
  BY <1>1, <1>2, <1>3 DEF MessageOK, RowOf, At
<1>6. FileOf(n)'
  BY <1>1, <1>2, <1>3, <1>4 DEF MessageOK, FileOf, At
<1>7. QED
  BY <1>5, <1>6 DEF MessageOK

LEMMA ThisMessage ==
    ASSUME TypeOK, NEW t \in Threads, NEW m \in job[t].of, Step(t, m), PathInv, MessageOK(m)
    PROVE  MessageOK(m)'
<1>1. m \in Messages /\ JobOK(job[t]) /\ job[t].of = {m} /\ job[t].path \in BOOLEAN /\ job[t].old \in BOOLEAN
  BY JobsMessage, Parts
<1>2. JobsOK /\ FilesOK
  BY Parts
<1>3. CASE Write(t, m)
  <2>1. JobOK([job[t] EXCEPT !.at = "insert", !.path = TRUE])
    BY <1>1, MovedJob, IdleJob
  <2>2. Goes(t, [job[t] EXCEPT !.at = "insert", !.path = TRUE])
    BY <1>3 DEF Write
  <2>3. job'[t] = [job[t] EXCEPT !.at = "insert", !.path = TRUE]
    BY <1>2, <2>1, <2>2, GoesJob
  <2>8. job'[t].at = "insert" /\ job'[t].of = {m} /\ job'[t].stale = job[t].stale
         /\ job'[t].path = TRUE /\ job'[t].old = job[t].old
    BY <1>1, <2>3 DEF JobOK, Jobs, Idle
  <2>4. ASSUME NEW u \in Threads \ {t}
        PROVE  /\ job'[u].at = job[u].at /\ job'[u].of = job[u].of
               /\ job'[u].path = job[u].path /\ job'[u].old = job[u].old
               /\ job'[u].stale = job[u].stale
    BY <1>2, <2>1, <2>2, GoesJob
  <2>5. RowOf(m)'
    BY <1>1, <1>2, <1>3, <2>8, <2>4 DEF Write, FilesOK, MessageOK, RowOf, At, Sets, Puts, Column
  <2>6. FileOf(m)'
    BY <1>1, <1>2, <1>3, <2>8, <2>4 DEF Write, FilesOK, MessageOK, FileOf, Writer, At, Sets, Puts, Column, backfill
  <2>7. QED
    BY <2>5, <2>6 DEF MessageOK
<1>4. CASE WriteFails(t, m)
  <2>1. JobOK([job[t] EXCEPT !.at = "insert"])
    BY <1>1, MovedJob, IdleJob
  <2>2. Goes(t, [job[t] EXCEPT !.at = "insert"])
    BY <1>4 DEF WriteFails
  <2>3. job'[t] = [job[t] EXCEPT !.at = "insert"]
    BY <1>2, <2>1, <2>2, GoesJob
  <2>8. job'[t].at = "insert" /\ job'[t].of = {m} /\ job'[t].stale = job[t].stale
         /\ job'[t].path = job[t].path /\ job'[t].old = job[t].old
    BY <1>1, <2>3 DEF JobOK, Jobs, Idle
  <2>4. ASSUME NEW u \in Threads \ {t}
        PROVE  /\ job'[u].at = job[u].at /\ job'[u].of = job[u].of
               /\ job'[u].path = job[u].path /\ job'[u].old = job[u].old
               /\ job'[u].stale = job[u].stale
    BY <1>2, <2>1, <2>2, GoesJob
  <2>5. RowOf(m)'
    BY <1>1, <1>2, <1>4, <2>8, <2>4 DEF WriteFails, FilesOK, MessageOK, RowOf, At, Sets, Puts, Column
  <2>6. FileOf(m)'
    BY <1>1, <1>2, <1>4, <2>8, <2>4 DEF WriteFails, FilesOK, MessageOK, FileOf, Writer, At, Sets, Puts, Column, backfill
  <2>7. QED
    BY <2>5, <2>6 DEF MessageOK
<1>5. CASE WriteCut(t, m)
  <2>1. JobOK([job[t] EXCEPT !.at = "insert", !.path = TRUE])
    BY <1>1, MovedJob, IdleJob
  <2>2. Goes(t, [job[t] EXCEPT !.at = "insert", !.path = TRUE])
    BY <1>5 DEF WriteCut
  <2>3. job'[t] = [job[t] EXCEPT !.at = "insert", !.path = TRUE]
    BY <1>2, <2>1, <2>2, GoesJob
  <2>8. job'[t].at = "insert" /\ job'[t].of = {m} /\ job'[t].stale = job[t].stale
         /\ job'[t].path = TRUE /\ job'[t].old = job[t].old
    BY <1>1, <2>3 DEF JobOK, Jobs, Idle
  <2>4. ASSUME NEW u \in Threads \ {t}
        PROVE  /\ job'[u].at = job[u].at /\ job'[u].of = job[u].of
               /\ job'[u].path = job[u].path /\ job'[u].old = job[u].old
               /\ job'[u].stale = job[u].stale
    BY <1>2, <2>1, <2>2, GoesJob
  <2>5. RowOf(m)'
    BY <1>1, <1>2, <1>5, <2>8, <2>4 DEF WriteCut, FilesOK, MessageOK, RowOf, At, Sets, Puts, Column
  <2>6. FileOf(m)'
    BY <1>1, <1>2, <1>5, <2>8, <2>4 DEF WriteCut, FilesOK, MessageOK, FileOf, Writer, At, Sets, Puts, Column, backfill
  <2>7. QED
    BY <2>5, <2>6 DEF MessageOK
<1>6. CASE Insert(t, m)
  <2>1. JobOK(Idle)
    BY <1>1, MovedJob, IdleJob
  <2>2. GoesOnWriting(t, Idle)
    BY <1>6 DEF Insert
  <2>3. job'[t] = Idle
    BY <1>2, <2>1, <2>2, GoesOnWritingJob
  <2>8. job'[t].of = {}
    BY <1>1, <2>3 DEF JobOK, Jobs, Idle
  <2>4. ASSUME NEW u \in Threads \ {t}
        PROVE  /\ job'[u].at = job[u].at /\ job'[u].of = job[u].of
               /\ job'[u].path = job[u].path /\ job'[u].old = job[u].old
               /\ job'[u].stale = (job[u].stale \/ job[u].at # "idle")
    BY <1>2, <2>1, <2>2, GoesOnWritingJob
  <2>5. RowOf(m)'
    BY <1>1, <1>2, <1>6, <2>8, <2>4 DEF Insert, FilesOK, MessageOK, RowOf, At, Sets, Puts, Column
  <2>6. FileOf(m)'
    BY <1>1, <1>2, <1>6, <2>8, <2>4 DEF Insert, FilesOK, MessageOK, FileOf, Writer, At, Sets, Puts, Column, backfill
  <2>7. QED
    BY <2>5, <2>6 DEF MessageOK
<1>7. CASE InsertRefused(t, m)
  <2>1. JobOK(Idle)
    BY <1>1, MovedJob, IdleJob
  <2>2. Goes(t, Idle)
    BY <1>7 DEF InsertRefused
  <2>3. job'[t] = Idle
    BY <1>2, <2>1, <2>2, GoesJob
  <2>8. job'[t].of = {}
    BY <1>1, <2>3 DEF JobOK, Jobs, Idle
  <2>4. ASSUME NEW u \in Threads \ {t}
        PROVE  /\ job'[u].at = job[u].at /\ job'[u].of = job[u].of
               /\ job'[u].path = job[u].path /\ job'[u].old = job[u].old
               /\ job'[u].stale = job[u].stale
    BY <1>2, <2>1, <2>2, GoesJob
  <2>5. /\ row'[m] = row[m] /\ disk'[m] = disk[m] /\ (m \in lost' <=> m \in lost)
        /\ (m \in stray => m \in stray') /\ fill' = fill /\ todo' = todo
        /\ (job[t].path /\ row[m] # "file" => m \in stray')
        /\ \A u \in Threads \ {t} : job[t].path /\ m \in job[u].of => m \in stray'
    BY <1>7 DEF InsertRefused, Shared, backfill
  <2>6. RowOf(m)'
    BY <1>7, <2>4, <2>5, <2>8 DEF InsertRefused, MessageOK, RowOf, At
  <2>9. \A u \in Threads \ {t} : Writer(u, m) => Writer(u, m)'
    BY <2>4 DEF Writer, At
  <2>10. Writer(t, m) => job[t].path
    BY <1>7 DEF InsertRefused, Writer, At
  <2>11. disk'[m] # "none" =>
          \/ row'[m] = "file" \/ m \in stray' \/ (fill' = "wipe" /\ m \in todo')
          \/ \E u \in Threads : Writer(u, m)'
    BY <2>5, <2>9, <2>10 DEF MessageOK, FileOf
  <2>12. ASSUME NEW u \in Threads
         PROVE  /\ At(u, m, {"found", "drop"})' /\ ~job'[u].stale =>
                     row'[m] # "none" /\ (job'[u].old <=> row'[m] = "file")
                /\ At(u, m, {"drop"})' /\ job'[u].old /\ disk'[m] # "none" /\ ~job'[u].stale =>
                     m \in stray' \/ \E w \in Threads : Writer(w, m)'
    <3>1. CASE u = t
      BY <3>1, <2>8 DEF At
    <3>2. CASE u # t
      BY <3>2, <2>4, <2>5, <2>9, <2>10 DEF MessageOK, FileOf, At
    <3>3. QED
      BY <3>1, <3>2
  <2>13. FileOf(m)'
    BY <2>11, <2>12 DEF FileOf
  <2>7. QED
    BY <2>6, <2>13 DEF MessageOK
<1>8. CASE Duplicate(t, m)
  <2>1. JobOK([job[t] EXCEPT !.at = "look"])
    BY <1>1, MovedJob, IdleJob
  <2>2. Goes(t, [job[t] EXCEPT !.at = "look"])
    BY <1>8 DEF Duplicate
  <2>3. job'[t] = [job[t] EXCEPT !.at = "look"]
    BY <1>2, <2>1, <2>2, GoesJob
  <2>8. job'[t].at = "look" /\ job'[t].of = {m} /\ job'[t].stale = job[t].stale
         /\ job'[t].path = job[t].path /\ job'[t].old = job[t].old
    BY <1>1, <2>3 DEF JobOK, Jobs, Idle
  <2>4. ASSUME NEW u \in Threads \ {t}
        PROVE  /\ job'[u].at = job[u].at /\ job'[u].of = job[u].of
               /\ job'[u].path = job[u].path /\ job'[u].old = job[u].old
               /\ job'[u].stale = job[u].stale
    BY <1>2, <2>1, <2>2, GoesJob
  <2>5. RowOf(m)'
    BY <1>1, <1>2, <1>8, <2>8, <2>4 DEF Duplicate, FilesOK, MessageOK, RowOf, At, Sets, Puts, Column
  <2>6. FileOf(m)'
    BY <1>1, <1>2, <1>8, <2>8, <2>4 DEF Duplicate, FilesOK, MessageOK, FileOf, Writer, At, Sets, Puts, Column, backfill
  <2>7. QED
    BY <2>5, <2>6 DEF MessageOK
<1>9. CASE Look(t, m)
  <2>1. JobOK([job[t] EXCEPT !.at = "update", !.old = row[m] = "file"])
    BY <1>1, MovedJob, IdleJob
  <2>2. Goes(t, [job[t] EXCEPT !.at = "update", !.old = row[m] = "file"])
    BY <1>9 DEF Look
  <2>3. job'[t] = [job[t] EXCEPT !.at = "update", !.old = row[m] = "file"]
    BY <1>2, <2>1, <2>2, GoesJob
  <2>8. job'[t].at = "update" /\ job'[t].of = {m} /\ job'[t].stale = job[t].stale
         /\ job'[t].path = job[t].path /\ job'[t].old = (row[m] = "file")
    BY <1>1, <2>3 DEF JobOK, Jobs, Idle
  <2>4. ASSUME NEW u \in Threads \ {t}
        PROVE  /\ job'[u].at = job[u].at /\ job'[u].of = job[u].of
               /\ job'[u].path = job[u].path /\ job'[u].old = job[u].old
               /\ job'[u].stale = job[u].stale
    BY <1>2, <2>1, <2>2, GoesJob
  <2>5. RowOf(m)'
    BY <1>1, <1>2, <1>9, <2>8, <2>4 DEF Look, FilesOK, MessageOK, RowOf, At, Sets, Puts, Column
  <2>6. FileOf(m)'
    BY <1>1, <1>2, <1>9, <2>8, <2>4 DEF Look, FilesOK, MessageOK, FileOf, Writer, At, Sets, Puts, Column, backfill
  <2>7. QED
    BY <2>5, <2>6 DEF MessageOK
<1>10. CASE Update(t, m)
  <2>1. JobOK(IF job[t].old /\ ~job[t].path /\ HasDir(t) THEN [job[t] EXCEPT !.at = "unlink"] ELSE Idle)
    BY <1>1, MovedJob, IdleJob
  <2>2. GoesOnWriting(t, IF job[t].old /\ ~job[t].path /\ HasDir(t) THEN [job[t] EXCEPT !.at = "unlink"] ELSE Idle)
    BY <1>10 DEF Update, Updated
  <2>3. job'[t] = IF job[t].old /\ ~job[t].path /\ HasDir(t) THEN [job[t] EXCEPT !.at = "unlink"] ELSE Idle
    BY <1>2, <2>1, <2>2, GoesOnWritingJob
  <2>4. ASSUME NEW u \in Threads \ {t}
        PROVE  /\ job'[u].at = job[u].at /\ job'[u].of = job[u].of
               /\ job'[u].path = job[u].path /\ job'[u].old = job[u].old
               /\ job'[u].stale = (job[u].stale \/ job[u].at # "idle")
    BY <1>2, <2>1, <2>2, GoesOnWritingJob
  <2>9. /\ fill' = fill /\ todo' = todo /\ disk'[m] = disk[m] /\ job[t].at = "update"
        /\ (row[m] = "none" => row'[m] = "none")
        /\ (row[m] # "none" => row'[m] = IF job[t].path THEN "file" ELSE "bare")
        /\ (m \in lost => m \in lost') /\ (m \in stray => m \in stray')
        /\ (job[t].path /\ row[m] # "none" /\ disk[m] = "none" => m \in lost')
        /\ (job[t].path /\ row[m] = "none" => m \in stray')
        /\ (~job[t].path /\ ~(job[t].old /\ ~job[t].path /\ HasDir(t)) /\ row[m] = "file" => m \in stray')
    BY <1>1, <1>2, <1>10 DEF Update, Updated, FilesOK, Sets, Column, backfill
  <2>10. CASE job[t].old /\ ~job[t].path /\ HasDir(t)
    <3>1. job'[t].at = "unlink" /\ job'[t].of = {m}
      <4>1. job'[t] = [job[t] EXCEPT !.at = "unlink"]
        BY <2>3, <2>10
      <4>2. QED
        BY <1>1, <4>1 DEF JobOK, Jobs
    <3>2. RowOf(m)'
      BY <1>1, <2>4, <2>9, <2>10, <3>1 DEF MessageOK, RowOf, At
    <3>3. FileOf(m)'
      BY <1>1, <2>4, <2>9, <2>10, <3>1 DEF MessageOK, FileOf, Writer, At
    <3>4. QED
      BY <3>2, <3>3 DEF MessageOK
  <2>11. CASE ~(job[t].old /\ ~job[t].path /\ HasDir(t))
    <3>1. job'[t].of = {}
      BY <2>3, <2>11 DEF Idle
    <3>2. RowOf(m)'
      BY <1>1, <2>4, <2>9, <2>11, <3>1 DEF MessageOK, RowOf, At
    <3>3. FileOf(m)'
      BY <1>1, <2>4, <2>9, <2>11, <3>1 DEF MessageOK, FileOf, Writer, At
    <3>4. QED
      BY <3>2, <3>3 DEF MessageOK
  <2>12. QED
    BY <2>10, <2>11
<1>11. CASE UpdateRefused(t, m)
  <2>1. JobOK(IF job[t].path /\ HasDir(t) THEN [job[t] EXCEPT !.at = "unlink"] ELSE Idle)
    BY <1>1, MovedJob, IdleJob
  <2>2. Goes(t, IF job[t].path /\ HasDir(t) THEN [job[t] EXCEPT !.at = "unlink"] ELSE Idle)
    BY <1>11 DEF UpdateRefused
  <2>3. job'[t] = IF job[t].path /\ HasDir(t) THEN [job[t] EXCEPT !.at = "unlink"] ELSE Idle
    BY <1>2, <2>1, <2>2, GoesJob
  <2>4. ASSUME NEW u \in Threads \ {t}
        PROVE  /\ job'[u].at = job[u].at /\ job'[u].of = job[u].of
               /\ job'[u].path = job[u].path /\ job'[u].old = job[u].old
               /\ job'[u].stale = job[u].stale
    BY <1>2, <2>1, <2>2, GoesJob
  <2>9. /\ fill' = fill /\ todo' = todo /\ disk'[m] = disk[m] /\ job[t].at = "update"
        /\ row'[m] = row[m] /\ (m \in stray' <=> m \in stray)
        /\ (m \in lost => m \in lost') /\ (job[t].path /\ row[m] = "file" => m \in lost')
        /\ (job[t].path => HasDir(t))
    BY <1>1, <1>2, <1>11 DEF UpdateRefused, backfill, PathInv, Writes
  <2>10. CASE job[t].path /\ HasDir(t)
    <3>1. job'[t].at = "unlink" /\ job'[t].of = {m}
      <4>1. job'[t] = [job[t] EXCEPT !.at = "unlink"]
        BY <2>3, <2>10
      <4>2. QED
        BY <1>1, <4>1 DEF JobOK, Jobs
    <3>2. RowOf(m)'
      BY <1>1, <2>4, <2>9, <2>10, <3>1 DEF MessageOK, RowOf, At
    <3>3. FileOf(m)'
      BY <1>1, <2>4, <2>9, <2>10, <3>1 DEF MessageOK, FileOf, Writer, At
    <3>4. QED
      BY <3>2, <3>3 DEF MessageOK
  <2>11. CASE ~(job[t].path /\ HasDir(t))
    <3>1. job'[t].of = {}
      BY <2>3, <2>11 DEF Idle
    <3>2. RowOf(m)'
      BY <1>1, <2>4, <2>9, <2>11, <3>1 DEF MessageOK, RowOf, At
    <3>3. FileOf(m)'
      BY <1>1, <2>4, <2>9, <2>11, <3>1 DEF MessageOK, FileOf, Writer, At
    <3>4. QED
      BY <3>2, <3>3 DEF MessageOK
  <2>12. QED
    BY <2>10, <2>11
<1>12. CASE Unlink(t, m)
  <2>1. JobOK(Idle)
    BY <1>1, MovedJob, IdleJob
  <2>2. Goes(t, Idle)
    BY <1>12 DEF Unlink
  <2>3. job'[t] = Idle
    BY <1>2, <2>1, <2>2, GoesJob
  <2>8. job'[t].of = {}
    BY <1>1, <2>3 DEF JobOK, Jobs, Idle
  <2>4. ASSUME NEW u \in Threads \ {t}
        PROVE  /\ job'[u].at = job[u].at /\ job'[u].of = job[u].of
               /\ job'[u].path = job[u].path /\ job'[u].old = job[u].old
               /\ job'[u].stale = job[u].stale
    BY <1>2, <2>1, <2>2, GoesJob
  <2>5. RowOf(m)'
    BY <1>1, <1>2, <1>12, <2>8, <2>4 DEF Unlink, FilesOK, MessageOK, RowOf, At, Sets, Puts, Column
  <2>6. FileOf(m)'
    BY <1>1, <1>2, <1>12, <2>8, <2>4 DEF Unlink, FilesOK, MessageOK, FileOf, Writer, At, Sets, Puts, Column, backfill
  <2>7. QED
    BY <2>5, <2>6 DEF MessageOK
<1>13. CASE Remove(t, m)
  <2>1. JobOK([job[t] EXCEPT !.at = "drop"])
    BY <1>1, MovedJob, IdleJob
  <2>2. Goes(t, [job[t] EXCEPT !.at = "drop"])
    BY <1>13 DEF Remove
  <2>3. job'[t] = [job[t] EXCEPT !.at = "drop"]
    BY <1>2, <2>1, <2>2, GoesJob
  <2>8. job'[t].at = "drop" /\ job'[t].of = {m} /\ job'[t].stale = job[t].stale
         /\ job'[t].path = job[t].path /\ job'[t].old = job[t].old
    BY <1>1, <2>3 DEF JobOK, Jobs, Idle
  <2>4. ASSUME NEW u \in Threads \ {t}
        PROVE  /\ job'[u].at = job[u].at /\ job'[u].of = job[u].of
               /\ job'[u].path = job[u].path /\ job'[u].old = job[u].old
               /\ job'[u].stale = job[u].stale
    BY <1>2, <2>1, <2>2, GoesJob
  <2>5. RowOf(m)'
    BY <1>1, <1>2, <1>13, <2>8, <2>4 DEF Remove, FilesOK, MessageOK, RowOf, At, Sets, Puts, Column
  <2>6. FileOf(m)'
    BY <1>1, <1>2, <1>13, <2>8, <2>4 DEF Remove, FilesOK, MessageOK, FileOf, Writer, At, Sets, Puts, Column, backfill
  <2>7. QED
    BY <2>5, <2>6 DEF MessageOK
<1>14. CASE Drop(t, m)
  <2>1. JobOK(Idle)
    BY <1>1, MovedJob, IdleJob
  <2>2. GoesOnWriting(t, Idle)
    BY <1>14 DEF Drop
  <2>3. job'[t] = Idle
    BY <1>2, <2>1, <2>2, GoesOnWritingJob
  <2>8. job'[t].of = {}
    BY <1>1, <2>3 DEF JobOK, Jobs, Idle
  <2>4. ASSUME NEW u \in Threads \ {t}
        PROVE  /\ job'[u].at = job[u].at /\ job'[u].of = job[u].of
               /\ job'[u].path = job[u].path /\ job'[u].old = job[u].old
               /\ job'[u].stale = (job[u].stale \/ job[u].at # "idle")
    BY <1>2, <2>1, <2>2, GoesOnWritingJob
  <2>5. RowOf(m)'
    BY <1>1, <1>2, <1>14, <2>8, <2>4 DEF Drop, FilesOK, MessageOK, RowOf, At, Sets, Puts, Column
  <2>6. FileOf(m)'
    BY <1>1, <1>2, <1>14, <2>8, <2>4 DEF Drop, FilesOK, MessageOK, FileOf, Writer, At, Sets, Puts, Column, backfill
  <2>7. QED
    BY <2>5, <2>6 DEF MessageOK
<1>15. CASE DropRefused(t, m)
  <2>1. JobOK(Idle)
    BY <1>1, MovedJob, IdleJob
  <2>2. Goes(t, Idle)
    BY <1>15 DEF DropRefused
  <2>3. job'[t] = Idle
    BY <1>2, <2>1, <2>2, GoesJob
  <2>8. job'[t].of = {}
    BY <1>1, <2>3 DEF JobOK, Jobs, Idle
  <2>4. ASSUME NEW u \in Threads \ {t}
        PROVE  /\ job'[u].at = job[u].at /\ job'[u].of = job[u].of
               /\ job'[u].path = job[u].path /\ job'[u].old = job[u].old
               /\ job'[u].stale = job[u].stale
    BY <1>2, <2>1, <2>2, GoesJob
  <2>5. RowOf(m)'
    BY <1>1, <1>2, <1>15, <2>8, <2>4 DEF DropRefused, FilesOK, MessageOK, RowOf, At, Sets, Puts, Column
  <2>6. FileOf(m)'
    BY <1>1, <1>2, <1>15, <2>8, <2>4 DEF DropRefused, FilesOK, MessageOK, FileOf, Writer, At, Sets, Puts, Column, backfill
  <2>7. QED
    BY <2>5, <2>6 DEF MessageOK
<1>16. QED
  BY <1>3, <1>4, <1>5, <1>6, <1>7, <1>8, <1>9, <1>10, <1>11, <1>12, <1>13, <1>14, <1>15 DEF Step

\* What a thread has in hand when it is handed a message to save.
LEMMA SaveJob ==
    ASSUME JobsOK, NEW t \in Threads, NEW m \in Messages, NEW d \in BOOLEAN, Save(t, m, d)
    PROVE  /\ job'[t].of = {m} /\ job'[t].at \in {"write", "insert"} /\ ~job'[t].path
           /\ (job'[t].at = "write" => HasDir(t))
           /\ \A u \in Threads \ {t} : job'[u] = job[u]
<1> DEFINE j == [Idle EXCEPT !.at = IF d /\ HasDir(t) THEN "write" ELSE "insert", !.of = {m}]
<1>1. JobOK(j)
  BY NewJob
<1>2. Goes(t, j)
  BY DEF Save
<1>3. job'[t] = j /\ \A u \in Threads \ {t} : job'[u] = job[u]
  BY <1>1, <1>2, GoesJob
<1>4. QED
  BY <1>3 DEF Idle

\* And to delete: the transaction has read what the row says.
LEMMA DeleteJob ==
    ASSUME JobsOK, NEW t \in Threads, NEW m \in Messages, row[m] # "none", Delete(t, m)
    PROVE  /\ job'[t].of = {m} /\ job'[t].at = "found" /\ ~job'[t].path
           /\ (job'[t].old <=> row[m] = "file")
           /\ \A u \in Threads \ {t} : job'[u] = job[u]
<1> DEFINE j == [Idle EXCEPT !.at = "found", !.of = {m}, !.old = row[m] = "file"]
<1>1. JobOK(j)
  BY NewJob
<1>2. Goes(t, j)
  BY DEF Delete
<1>3. job'[t] = j /\ \A u \in Threads \ {t} : job'[u] = job[u]
  BY <1>1, <1>2, GoesJob
<1>4. QED
  BY <1>3 DEF Idle

\* Steps that touch neither a job nor a row nor a file.
LEMMA QuietStep ==
    ASSUME UNCHANGED <<row, disk, job, lost, stray>>, NEW n \in Messages, MessageOK(n),
           disk[n] # "none" /\ fill = "wipe" /\ n \in todo => fill' = "wipe" /\ n \in todo'
    PROVE  MessageOK(n)'
<1>1. \A u \in Threads : Writer(u, n) <=> Writer(u, n)'
  BY DEF Writer, At
<1>2. RowOf(n)'
  BY DEF MessageOK, RowOf, At
<1>3. FileOf(n)'
  BY <1>1 DEF MessageOK, FileOf, At
<1>4. QED
  BY <1>2, <1>3 DEF MessageOK

\* A thread without a job takes one: to save a message, or to delete one whose row it has read.
LEMMA NewJobStep ==
    ASSUME UNCHANGED <<row, disk, lost, stray>>, NEW n \in Messages, MessageOK(n),
           disk[n] # "none" /\ fill = "wipe" /\ n \in todo => fill' = "wipe" /\ n \in todo',
           NEW t \in Threads, job[t].of = {}, NEW m \in Messages, job'[t].of = {m}, ~job'[t].path,
           \/ job'[t].at \in {"write", "insert"}
           \/ job'[t].at = "found" /\ row[m] # "none" /\ (job'[t].old <=> row[m] = "file"),
           \A u \in Threads \ {t} : job'[u] = job[u]
    PROVE  MessageOK(n)'
<1>1. \A u \in Threads : Writer(u, n) <=> Writer(u, n)'
  BY DEF Writer, At
<1>2. \A u \in Threads : At(u, n, {"drop"}) <=> At(u, n, {"drop"})'
  BY DEF At
<1>3. RowOf(n)'
  BY <1>2 DEF MessageOK, RowOf, At
<1>4. ASSUME NEW u \in Threads
      PROVE  /\ At(u, n, {"found", "drop"})' /\ ~job'[u].stale =>
                  row'[n] # "none" /\ (job'[u].old <=> row'[n] = "file")
             /\ At(u, n, {"drop"})' /\ job'[u].old /\ disk'[n] # "none" /\ ~job'[u].stale =>
                  n \in stray' \/ \E w \in Threads : Writer(w, n)'
  <2>1. CASE u = t
    BY <2>1 DEF At
  <2>2. CASE u # t
    BY <2>2, <1>1 DEF MessageOK, FileOf, At
  <2>3. QED
    BY <2>1, <2>2
<1>5. FileOf(n)'
  BY <1>1, <1>4 DEF MessageOK, FileOf
<1>6. QED
  BY <1>3, <1>5 DEF MessageOK

LEMMA MediaStep == TypeOK /\ TypeOK' /\ MediaInv /\ [Next]_vars => MediaInv'
<1> SUFFICES ASSUME TypeOK, TypeOK', MediaInv, [Next]_vars PROVE MediaInv'
  OBVIOUS
<1>0. /\ JobsOK /\ JobsOK' /\ FilesOK /\ PathInv /\ "live" \in Threads /\ "fill" \in Threads
      /\ \A n \in Messages : MessageOK(n)
  <2>1. JobsOK'
    BY Parts, PTL
  <2>2. QED
    BY <2>1, Parts DEF MediaInv, Threads
<1>1. ASSUME NEW t \in Threads, NEW m \in job[t].of, Step(t, m) PROVE MediaInv'
  <2>1. Beside(t, m)
    BY <1>0, <1>1, StepBeside
  <2>2. m \in Messages /\ job[t].of = {m}
    BY <1>0, JobsMessage
  <2>3. ASSUME NEW n \in Messages PROVE MessageOK(n)'
    <3>1. CASE n = m
      BY <1>0, <1>1, <3>1, ThisMessage
    <3>2. CASE n # m
      BY <1>0, <2>1, <3>2, OtherMessages
    <3>3. QED
      BY <3>1, <3>2
  <2>4. PathInv'
    <3>1. \A u \in Threads : Writes(u)' => Writes(u)
      BY <2>1 DEF Beside, Writes
    <3>2. fill' = fill /\ media' = media /\ (t = "fill" => fill = "page")
      BY <1>0, <2>1, <2>2 DEF Beside, PathInv
    <3>3. t # "fill" => job'["fill"].of = job["fill"].of
      BY <1>0, <2>1 DEF Beside
    <3>4. QED
      BY <1>0, <3>1, <3>2, <3>3 DEF PathInv, HasDir
  <2>5. QED
    BY <2>3, <2>4 DEF MediaInv
<1>2. ASSUME NEW m \in Messages, Message(m) PROVE MediaInv'
  <2>1. PICK d \in BOOLEAN : Save("live", m, d)
    BY <1>2 DEF Message
  <2>2. /\ job'["live"].of = {m} /\ job'["live"].at \in {"write", "insert"} /\ ~job'["live"].path
        /\ \A u \in Threads \ {"live"} : job'[u] = job[u]
    BY <1>0, <2>1, SaveJob
  <2>3. /\ job["live"].of = {} /\ fill' = fill /\ todo' = todo /\ media' = media
        /\ UNCHANGED <<row, disk, lost, stray>>
    BY <1>2 DEF Message, Idle, backfill
  <2>4. ASSUME NEW n \in Messages PROVE MessageOK(n)'
    BY <1>0, <2>2, <2>3, NewJobStep
  <2>5. PathInv'
    BY <1>0, <2>2, <2>3 DEF PathInv, HasDir, Writes
  <2>6. QED
    BY <2>4, <2>5 DEF MediaInv
<1>3. ASSUME NEW m \in Messages, Redaction(m) PROVE MediaInv'
  <2>1. /\ job["live"].of = {} /\ fill' = fill /\ todo' = todo /\ media' = media
        /\ UNCHANGED <<row, disk, lost, stray>> /\ Delete("live", m)
    BY <1>3 DEF Redaction, Idle, backfill
  <2>2. CASE row[m] = "none"
    <3>1. job' = job
      BY <2>1, <2>2 DEF Delete
    <3>2. ASSUME NEW n \in Messages PROVE MessageOK(n)'
      BY <1>0, <2>1, <3>1, QuietStep
    <3>3. QED
      BY <1>0, <2>1, <3>1, <3>2 DEF MediaInv, PathInv, HasDir, Writes
  <2>3. CASE row[m] # "none"
    <3>1. /\ job'["live"].of = {m} /\ job'["live"].at = "found" /\ ~job'["live"].path
          /\ (job'["live"].old <=> row[m] = "file")
          /\ \A u \in Threads \ {"live"} : job'[u] = job[u]
      BY <1>0, <2>1, <2>3, DeleteJob
    <3>2. ASSUME NEW n \in Messages PROVE MessageOK(n)'
      BY <1>0, <2>1, <2>3, <3>1, NewJobStep
    <3>3. PathInv'
      BY <1>0, <2>1, <3>1 DEF PathInv, HasDir, Writes
    <3>4. QED
      BY <3>2, <3>3 DEF MediaInv
  <2>4. QED
    BY <2>2, <2>3
<1>4. ASSUME NEW m \in Messages, Wipe(m) PROVE MediaInv'
  <2>1. /\ job' = job /\ row' = row /\ fill' = fill /\ media' = media /\ stray' = stray
        /\ disk' = [disk EXCEPT ![m] = "none"] /\ todo' = todo \ {m}
        /\ lost' = IF row[m] = "file" THEN lost \cup {m} ELSE lost
    BY <1>4 DEF Wipe, Puts
  <2>2. disk'[m] = "none" /\ \A n \in Messages \ {m} : disk'[n] = disk[n]
    BY <1>0, <2>1 DEF FilesOK
  <2>3. ASSUME NEW n \in Messages PROVE MessageOK(n)'
    <3>1. \A u \in Threads : Writer(u, n) <=> Writer(u, n)'
      BY <2>1 DEF Writer, At
    <3>2. RowOf(n)'
      BY <1>0, <2>1, <2>2 DEF MessageOK, RowOf, At
    <3>3. FileOf(n)'
      BY <1>0, <2>1, <2>2, <3>1 DEF MessageOK, FileOf, At
    <3>4. QED
      BY <3>2, <3>3 DEF MessageOK
  <2>4. QED
    BY <1>0, <2>1, <2>3 DEF MediaInv, PathInv, HasDir, Writes
<1>5. ASSUME NEW m \in Messages, Take(m) PROVE MediaInv'
  <2>1. /\ job["fill"].of = {} /\ fill = "page" /\ fill' = fill /\ media' = media
        /\ UNCHANGED <<row, disk, lost, stray>>
    BY <1>5 DEF Take, Idle
  <2>2. CASE job' = job
    <3>1. ASSUME NEW n \in Messages PROVE MessageOK(n)'
      BY <1>0, <2>1, <2>2, QuietStep
    <3>2. QED
      BY <1>0, <2>1, <2>2, <3>1 DEF MediaInv, PathInv, HasDir, Writes
  <2>3. CASE \E d \in BOOLEAN : Save("fill", m, d)
    <3>1. /\ job'["fill"].of = {m} /\ job'["fill"].at \in {"write", "insert"} /\ ~job'["fill"].path
          /\ (job'["fill"].at = "write" => HasDir("fill"))
          /\ \A u \in Threads \ {"fill"} : job'[u] = job[u]
      BY <1>0, <2>3, SaveJob
    <3>2. ASSUME NEW n \in Messages PROVE MessageOK(n)'
      BY <1>0, <2>1, <3>1, NewJobStep
    <3>3. PathInv'
      BY <1>0, <2>1, <3>1 DEF PathInv, HasDir, Writes
    <3>4. QED
      BY <3>2, <3>3 DEF MediaInv
  <2>4. QED
    BY <1>5, <2>2, <2>3 DEF Take
<1>6. ASSUME NEW m \in Messages, ApplyRedaction(m) PROVE MediaInv'
  <2>1. /\ job["fill"].of = {} /\ fill = "page" /\ fill' = fill /\ todo' = todo /\ media' = media
        /\ UNCHANGED <<row, disk, lost, stray>> /\ Delete("fill", m)
    BY <1>6 DEF ApplyRedaction, Idle
  <2>2. CASE row[m] = "none"
    <3>1. job' = job
      BY <2>1, <2>2 DEF Delete
    <3>2. ASSUME NEW n \in Messages PROVE MessageOK(n)'
      BY <1>0, <2>1, <3>1, QuietStep
    <3>3. QED
      BY <1>0, <2>1, <3>1, <3>2 DEF MediaInv, PathInv, HasDir, Writes
  <2>3. CASE row[m] # "none"
    <3>1. /\ job'["fill"].of = {m} /\ job'["fill"].at = "found" /\ ~job'["fill"].path
          /\ (job'["fill"].old <=> row[m] = "file")
          /\ \A u \in Threads \ {"fill"} : job'[u] = job[u]
      BY <1>0, <2>1, <2>3, DeleteJob
    <3>2. ASSUME NEW n \in Messages PROVE MessageOK(n)'
      BY <1>0, <2>1, <2>3, <3>1, NewJobStep
    <3>3. PathInv'
      BY <1>0, <2>1, <3>1 DEF PathInv, HasDir, Writes
    <3>4. QED
      BY <3>2, <3>3 DEF MediaInv
  <2>4. QED
    BY <2>2, <2>3
<1>7. ASSUME NEW m \in Messages, Replace(m) PROVE MediaInv'
  <2>1. /\ job' = job /\ row' = row /\ fill' = fill /\ media' = media /\ todo' = todo /\ lost' = lost
        /\ disk' = [disk EXCEPT ![m] = "good"]
        /\ stray' = IF row[m] # "file" \/ Shared("repair", m) THEN stray \cup {m} ELSE stray
    BY <1>7 DEF Replace, Puts, backfill
  <2>2. disk'[m] # "none" /\ \A n \in Messages \ {m} : disk'[n] = disk[n]
    BY <1>0, <2>1 DEF FilesOK
  <2>3. Shared("repair", m) <=> \E u \in Threads : m \in job[u].of
    BY DEF Shared, Threads
  <2>4. ASSUME NEW n \in Messages PROVE MessageOK(n)'
    <3>1. \A u \in Threads : Writer(u, n) <=> Writer(u, n)'
      BY <2>1 DEF Writer, At
    <3>2. RowOf(n)'
      BY <1>0, <2>1, <2>2 DEF MessageOK, RowOf, At
    <3>3. FileOf(n)'
      BY <1>0, <2>1, <2>2, <2>3, <3>1 DEF MessageOK, FileOf, At
    <3>4. QED
      BY <3>2, <3>3 DEF MessageOK
  <2>5. QED
    BY <1>0, <2>1, <2>4 DEF MediaInv, PathInv, HasDir, Writes
<1>8. ASSUME NEW clear \in BOOLEAN, NEW dir \in BOOLEAN, Start(clear, dir) PROVE MediaInv'
  <2>1. fill = "off" /\ UNCHANGED <<row, disk, job, lost, stray, todo>> /\ job["fill"].of = {}
    BY <1>0, <1>8 DEF Start, PathInv
  <2>2. ASSUME NEW n \in Messages PROVE MessageOK(n)'
    BY <1>0, <2>1, QuietStep
  <2>3. PathInv'
    BY <1>0, <2>1 DEF PathInv, HasDir, Writes, Threads
  <2>4. QED
    BY <2>2, <2>3 DEF MediaInv
<1>9. CASE ClearAll
  <2>1. /\ fill = "clear" /\ fill' = "wipe" /\ todo' = {m \in Messages : disk[m] # "none"}
        /\ UNCHANGED <<disk, lost, stray, media>> /\ job["fill"].of = {}
    BY <1>0, <1>9 DEF ClearAll, PathInv
  <2>2. CASE row' = [m \in Messages |-> "none"] /\ GoesOnWriting("fill", Idle)
    <3>1. /\ job'["fill"] = Idle
          /\ \A u \in Threads \ {"fill"} :
                /\ job'[u].at = job[u].at /\ job'[u].of = job[u].of
                /\ job'[u].path = job[u].path /\ job'[u].old = job[u].old
                /\ job'[u].stale = (job[u].stale \/ job[u].at # "idle")
      BY <1>0, <2>2, IdleJob, GoesOnWritingJob
    <3>2. job'["fill"].of = {}
      BY <3>1 DEF Idle
    <3>3. ASSUME NEW n \in Messages PROVE MessageOK(n)'
      <4>1. RowOf(n)'
        BY <2>2, <3>3 DEF RowOf
      <4>2. FileOf(n)'
        BY <2>1, <2>2, <3>1, <3>2, <3>3 DEF FileOf, At
      <4>3. QED
        BY <4>1, <4>2 DEF MessageOK
    <3>4. PathInv'
      BY <1>0, <2>1, <3>1, <3>2 DEF PathInv, HasDir, Writes
    <3>5. QED
      BY <3>3, <3>4 DEF MediaInv
  <2>3. CASE UNCHANGED <<row, job>>
    <3>1. ASSUME NEW n \in Messages PROVE MessageOK(n)'
      BY <1>0, <2>1, <2>3, QuietStep
    <3>2. QED
      BY <1>0, <2>1, <2>3, <3>1 DEF MediaInv, PathInv, HasDir, Writes
  <2>4. QED
    BY <1>9, <2>2, <2>3 DEF ClearAll
<1>10. CASE Wiped \/ Page \/ Finish
  <2>1. /\ UNCHANGED <<row, disk, job, lost, stray, media>>
        /\ (fill = "wipe" => \A m \in todo : disk[m] = "none")
        /\ job["fill"].of = {}
    BY <1>0, <1>10 DEF Wiped, Page, Finish, PathInv, Idle
  <2>2. ASSUME NEW n \in Messages PROVE MessageOK(n)'
    BY <1>0, <2>1, QuietStep
  <2>3. QED
    BY <1>0, <2>1, <2>2 DEF MediaInv, PathInv, HasDir, Writes
<1>11. CASE Scan \/ EndRepair \/ (\E m \in Messages : Fetch(m)) \/ UNCHANGED vars
  <2>1. UNCHANGED <<row, disk, job, lost, stray, fill, todo, media>>
    BY <1>11 DEF Scan, EndRepair, Fetch, backfill, vars
  <2>2. ASSUME NEW n \in Messages PROVE MessageOK(n)'
    BY <1>0, <2>1, QuietStep
  <2>3. QED
    BY <1>0, <2>1, <2>2 DEF MediaInv, PathInv, HasDir, Writes
<1>12. CASE Crash
  <2>1. /\ row' = row /\ disk' = disk /\ fill' = "off"
        /\ stray' = stray \cup {m \in Messages : row[m] # "file" /\ disk[m] # "none"}
        /\ lost' = lost \cup {m \in Messages : row[m] = "file" /\ disk[m] = "none"}
        /\ \A t \in Threads : job'[t].of = {}
    BY <1>12 DEF Crash, Idle
  <2>2. ASSUME NEW n \in Messages PROVE MessageOK(n)'
    BY <2>1, <2>2 DEF MessageOK, RowOf, FileOf, At
  <2>3. PathInv'
    BY <1>0, <2>1 DEF PathInv, Writes
  <2>4. QED
    BY <2>2, <2>3 DEF MediaInv
<1>13. QED
  BY <1>1, <1>2, <1>3, <1>4, <1>5, <1>6, <1>7, <1>8, <1>9, <1>10, <1>11, <1>12 DEF Next

LEMMA MediaInvariant == Spec => []MediaInv
<1>1. Init => MediaInv
  <2> SUFFICES ASSUME Init PROVE MediaInv
    OBVIOUS
  <2>1. \A t \in Threads : job[t].of = {}
    BY DEF Init, Idle
  <2>2. \A m \in Messages : row[m] = "file" <=> disk[m] # "none"
    BY DEF Init
  <2>3. ASSUME NEW m \in Messages PROVE MessageOK(m)
    BY <2>1, <2>2, <2>3 DEF MessageOK, RowOf, FileOf, At
  <2>4. PathInv
    BY <2>1 DEF PathInv, Writes, Threads
  <2>5. QED
    BY <2>3, <2>4 DEF MediaInv
<1>2. QED
  BY <1>1, MediaStep, TypeCorrect, PTL DEF Spec

\* A row that names a picture's file has it, whatever threads, faults and ends of the process
\* come between, unless a named action took the file.
THEOREM PathsLeadToFiles == Spec => []RowsHaveFiles
<1>1. TypeOK /\ MediaInv => RowsHaveFiles
  BY DEF MediaInv, MessageOK, RowOf, At, RowsHaveFiles, InHand
<1>2. QED
  BY <1>1, MediaInvariant, TypeCorrect, PTL

\* A picture's file has a row that names it, so that no redacted picture stays on the disk,
\* unless a named action left the file.
THEOREM FilesAreNamed == Spec => []FilesHaveRows
<1>1. TypeOK /\ MediaInv => FilesHaveRows
  BY DEF MediaInv, MessageOK, FileOf, Writer, At, FilesHaveRows, InHand
<1>2. QED
  BY <1>1, MediaInvariant, TypeCorrect, PTL

-----------------------------------------------------------------------------
(* PART 2.  Transfer.                                                      *)

Exporting == export \in {"rows", "names"}

\* The rows before the next one are written as they were at the first fetch.
ExportInv ==
    /\ Exporting => snapshot = taken
    /\ Exporting => \A i \in Ids : i < next => out.rows[i] = taken[i]
    /\ export = "names" => next > Last

\* A row of the file is in the store, in the plan, or was deleted since the plan was made.
ImportInv ==
    /\ result = "ok" => import = "idle"
    /\ import = "rows" \/ result = "ok" =>
           \A i \in Ids : reads.rows[i] # 0 => rows[i] # 0 \/ i \in batch \/ i \in dropped
    /\ import = "idle" => batch = {}

-----------------------------------------------------------------------------
(* The types.                                                              *)

LEMMA MinOfTwo ==
    ASSUME NEW m \in Nat, NEW n \in Nat
    PROVE  Min({m, n}) = IF m <= n THEN m ELSE n
<1>1. CASE m <= n
  BY <1>1 DEF Min
<1>2. CASE ~(m <= n)
  BY <1>2 DEF Min
<1>3. QED
  BY <1>1, <1>2

\* An id before the end of a batch is in the batch or before it.
LEMMA WrittenNow ==
    ASSUME NEW i \in Nat, NEW m \in Nat, NEW n \in Nat, i < n
    PROVE  i \in m..(n - 1) \/ i < m
OBVIOUS

\* A step of the export.
LEMMA ExportStep ==
    ASSUME TransferTypeOK, ExportRows
    PROVE  /\ next < next' /\ next' \in 1..(Last + 1)
           /\ out'.rows = [i \in Ids |-> IF i \in next..(next' - 1) THEN snapshot[i] ELSE out.rows[i]]
           /\ out' \in File
<1>1. next \in Nat /\ next >= 1 /\ next <= Last /\ Last \in Nat /\ ExportBatch \in Nat \ {0}
  BY TransferAssumption DEF TransferTypeOK, ExportRows
<1>2. next' = IF next + ExportBatch <= Last + 1 THEN next + ExportBatch ELSE Last + 1
  <2>1. next + ExportBatch \in Nat /\ Last + 1 \in Nat
    BY <1>1
  <2>2. Min({next + ExportBatch, Last + 1})
            = IF next + ExportBatch <= Last + 1 THEN next + ExportBatch ELSE Last + 1
    BY <2>1, MinOfTwo
  <2>3. next' = Min({next + ExportBatch, Last + 1})
    BY DEF ExportRows
  <2>4. QED
    BY <2>2, <2>3
<1>3. next < next' /\ next' \in 1..(Last + 1)
  BY <1>1, <1>2
<1> DEFINE Written == [i \in Ids |-> IF i \in next..(next' - 1) THEN snapshot[i] ELSE out.rows[i]]
<1>4. out' = [out EXCEPT !.rows = Written]
  BY DEF ExportRows, Seen
<1>5. out \in File /\ snapshot \in [Ids -> Row]
  BY DEF TransferTypeOK
<1>6. Written \in [Ids -> Row]
  BY <1>5 DEF File
<1>7. out'.rows = Written /\ out' \in File
  <2> HIDE DEF Written
  <2> QED
    BY <1>4, <1>5, <1>6 DEF File
<1>8. QED
  BY <1>3, <1>7

\* Every variable keeps its type.
THEOREM TransferTypeCorrect == TransferSpec => []TransferTypeOK
<1>1. TransferInit => TransferTypeOK
  BY TransferAssumption DEF TransferInit, TransferTypeOK, Empty, File, Nothing, Ids, Row
<1>2. TransferTypeOK /\ [TransferNext]_transferVars => TransferTypeOK'
  <2> SUFFICES ASSUME TransferTypeOK, [TransferNext]_transferVars PROVE TransferTypeOK'
    OBVIOUS
  <2> USE TransferAssumption DEF TransferTypeOK, Row
  <2>1. ASSUME NEW i \in Ids, SaveRow(i) \/ Edit(i) PROVE TransferTypeOK'
    BY <2>1 DEF SaveRow, Edit, Live, outward, inward
  <2>2. ASSUME NEW i \in Ids, DeleteRow(i) PROVE TransferTypeOK'
    BY <2>2 DEF DeleteRow, Live, outward
  <2>3. CASE Rename
    BY <2>3 DEF Rename, Live, outward, inward
  <2>4. CASE Clear
    BY <2>4 DEF Clear, Live, outward, Nothing
  <2>5. CASE BeginExport
    BY <2>5 DEF BeginExport, store, inward, Empty, File, Nothing
  <2>6. CASE ExportRows
    BY <2>6, ExportStep DEF ExportRows, store, inward
  <2>7. CASE ExportNames
    <3>1. out' \in File
      BY <2>7 DEF ExportNames, File
    <3>2. QED
      BY <2>7, <3>1 DEF ExportNames, store, inward
  <2>8. CASE EndExport
    BY <2>8 DEF EndExport, store, inward
  <2>9. ASSUME NEW f \in {"json", "sqlite"}, BeginImport(f) PROVE TransferTypeOK'
    BY <2>9 DEF BeginImport, store, outward
  <2>10. CASE ImportNames \/ LookAtIds
    BY <2>10 DEF ImportNames, LookAtIds, File, store, outward
  <2>11. CASE ImportRows
    BY <2>11 DEF ImportRows, File, outward
  <2>12. CASE ImportFails \/ EndImport
    BY <2>12 DEF ImportFails, EndImport, store, outward
  <2>13. CASE UNCHANGED transferVars
    BY <2>13 DEF transferVars
  <2>14. QED
    BY <2>1, <2>2, <2>3, <2>4, <2>5, <2>6, <2>7, <2>8, <2>9, <2>10, <2>11, <2>12, <2>13
       DEF TransferNext, ImportStep
<1>3. QED
  BY <1>1, <1>2, PTL DEF TransferSpec

-----------------------------------------------------------------------------
(* The export.                                                             *)

LEMMA ExportInvHolds == TransferSpec => []ExportInv
<1>1. TransferInit => ExportInv
  BY DEF TransferInit, ExportInv, Exporting
<1>2. TransferTypeOK /\ ExportInv /\ [TransferNext]_transferVars => ExportInv'
  <2> SUFFICES ASSUME TransferTypeOK, ExportInv, [TransferNext]_transferVars PROVE ExportInv'
    OBVIOUS
  <2> USE DEF ExportInv, Exporting
  <2>1. CASE UNCHANGED outward
    BY <2>1 DEF outward
  <2>2. CASE BeginExport
    BY <2>2 DEF BeginExport, Ids
  <2>3. CASE ExportRows
    <3>1. UNCHANGED <<export, snapshot, taken>> /\ export = "rows"
      BY <2>3 DEF ExportRows
    <3>2. ASSUME NEW i \in Ids, i < next' PROVE out'.rows[i] = taken[i]
      <4>1. i \in Nat /\ next \in Nat /\ next' \in Nat
        BY <2>3, ExportStep, TransferAssumption DEF TransferTypeOK, Ids
      <4>2. out'.rows[i] = IF i \in next..(next' - 1) THEN snapshot[i] ELSE out.rows[i]
        BY <2>3, ExportStep
      <4>3. i \in next..(next' - 1) \/ i < next
        BY <3>2, <4>1, WrittenNow
      <4>4. QED
        BY <3>1, <4>2, <4>3
    <3>3. QED
      BY <3>1, <3>2
  <2>4. CASE ExportNames
    BY <2>4 DEF ExportNames, TransferTypeOK
  <2>5. CASE EndExport
    BY <2>5 DEF EndExport
  <2>6. QED
    BY <2>1, <2>2, <2>3, <2>4, <2>5
       DEF TransferNext, SaveRow, Edit, DeleteRow, Rename, Clear, Live, BeginImport, ImportStep, ImportNames,
           LookAtIds, ImportRows, ImportFails, EndImport, transferVars, outward
<1>3. QED
  BY <1>1, <1>2, TransferTypeCorrect, PTL DEF TransferSpec

\* The file of an export has the messages of one moment, that of its first fetch.
THEOREM ExportOfOneMoment == TransferSpec => []OneMoment
<1>1. TransferTypeOK /\ ExportInv => OneMoment
  <2> SUFFICES ASSUME TransferTypeOK, ExportInv, export = "names" PROVE out.rows = taken
    BY DEF OneMoment
  <2>1. \A i \in Ids : i < next
    BY TransferAssumption DEF ExportInv, TransferTypeOK, Ids
  <2>2. \A i \in Ids : out.rows[i] = taken[i]
    BY <2>1 DEF ExportInv, Exporting
  <2>3. out.rows \in [Ids -> Row] /\ taken \in [Ids -> Row]
    BY DEF TransferTypeOK, File
  <2>4. QED
    BY <2>2, <2>3
<1>2. QED
  BY <1>1, TransferTypeCorrect, ExportInvHolds, PTL

-----------------------------------------------------------------------------
(* The import.                                                             *)

LEMMA ImportInvHolds == TransferSpec => []ImportInv
<1>1. TransferInit => ImportInv
  BY DEF TransferInit, ImportInv
<1>2. TransferTypeOK /\ ImportInv /\ [TransferNext]_transferVars => ImportInv'
  <2> SUFFICES ASSUME TransferTypeOK, ImportInv, [TransferNext]_transferVars PROVE ImportInv'
    OBVIOUS
  <2> USE DEF ImportInv
  <2>1. ASSUME NEW i \in Ids, SaveRow(i) \/ Edit(i) PROVE ImportInv'
    BY <2>1 DEF SaveRow, Edit, inward, TransferTypeOK
  <2>2. ASSUME NEW i \in Ids, DeleteRow(i) PROVE ImportInv'
    BY <2>2 DEF DeleteRow, TransferTypeOK
  <2>3. CASE Rename
    BY <2>3 DEF Rename, inward
  <2>4. CASE Clear
    BY <2>4 DEF Clear
  <2>5. CASE BeginExport \/ ExportRows \/ ExportNames \/ EndExport
    BY <2>5 DEF BeginExport, ExportRows, ExportNames, EndExport, store, inward
  <2>6. ASSUME NEW f \in {"json", "sqlite"}, BeginImport(f) PROVE ImportInv'
    BY <2>6 DEF BeginImport, store
  <2>7. CASE ImportNames
    BY <2>7 DEF ImportNames
  <2>8. CASE LookAtIds
    BY <2>8 DEF LookAtIds, store
  <2>9. CASE ImportRows
    BY <2>9 DEF ImportRows, Chunk, TransferTypeOK
  <2>10. CASE ImportFails \/ EndImport
    BY <2>10 DEF ImportFails, EndImport, store
  <2>11. CASE UNCHANGED transferVars
    BY <2>11 DEF transferVars
  <2>12. QED
    BY <2>1, <2>2, <2>3, <2>4, <2>5, <2>6, <2>7, <2>8, <2>9, <2>10, <2>11 DEF TransferNext, ImportStep
<1>3. QED
  BY <1>1, <1>2, TransferTypeCorrect, PTL DEF TransferSpec

\* An import that ends well has left out no message of its file, however its batches fall.
THEOREM ImportIsComplete == TransferSpec => []NothingMissing
<1>1. ImportInv => NothingMissing
  BY DEF ImportInv, NothingMissing
<1>2. QED
  BY <1>1, ImportInvHolds, PTL

\* A message that is there is not touched by an import, for the look at the ids may be old but
\* the transaction of a batch refuses the id that has come since.
THEOREM ImportTouchesNone == TransferSpec => ExistingKept
<1>1. TransferTypeOK /\ [TransferNext]_transferVars
          => [ImportStep => \A i \in Ids : rows[i] # 0 => rows'[i] = rows[i]]_transferVars
  BY DEF TransferTypeOK, ImportStep, ImportNames, LookAtIds, ImportRows, ImportFails, EndImport, store
<1>2. QED
  BY <1>1, TransferTypeCorrect, PTL DEF TransferSpec, ExistingKept
=============================================================================
