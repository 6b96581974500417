--------------------------- MODULE WebJobsProofs ---------------------------
(***************************************************************************)
(* Proofs about WebJobs, for every set of requests and of uploads and all  *)
(* bounds.  JobInv says what the two flags of the server stand for,        *)
(* SavedInv what a start will find of the last command, and TokenInv what  *)
(* lies behind the token that both clients store.                          *)
(***************************************************************************)
EXTENDS WebJobs, TLAPS

\* The flag of the imports is set exactly while one is at work, and then it is one.
JobInv ==
    /\ OneImport
    /\ \A u \in Uploads : import[u] # "idle" => importing
    /\ BusyIsAtWork

SavedInv == saved # None /\ ~unsaved => enabled = (saved # "no")

TokenInv ==
    /\ 1..token \subseteq fetched \cup leftOut \cup passedOver
    /\ source => 1..batch \subseteq fetched \cup leftOut \cup passedOver

-----------------------------------------------------------------------------

\* A sync moves both tokens to the newest event.
LEMMA SyncInPlace ==
    ASSUME Positions, NEW since \in 0..newest, SyncFrom(since),
           UNCHANGED <<newest, passedOver, commands, ends>>
    PROVE  Positions'
<1>1. newest \in Nat
  BY WebJobsAssumption DEF Positions
<1>2. ASSUME NEW i \in fetched' \cup leftOut' PROVE i \in 1..newest
  <2>1. i \in fetched \cup leftOut \/ i \in (since + 1)..newest
    BY DEF SyncFrom
  <2>2. fetched \cup leftOut \subseteq 1..newest /\ since \in Nat
    BY <1>1 DEF Positions
  <2>3. CASE i \in fetched \cup leftOut
    BY <2>2, <2>3
  <2>4. CASE i \in (since + 1)..newest
    BY <1>1, <2>2, <2>4
  <2>5. QED
    BY <2>1, <2>3, <2>4
<1>3. token' = newest /\ batch' = newest /\ newest \in 0..newest
  BY <1>1 DEF SyncFrom
<1>4. QED
  BY <1>2, <1>3 DEF Positions

LEMMA PositionsHold == Spec => []Positions
<1>1. Init => Positions
  BY WebJobsAssumption DEF Init, Positions
<1>2. Positions /\ [Next]_vars => Positions'
  <2> SUFFICES ASSUME Positions, [Next]_vars PROVE Positions'
    OBVIOUS
  <2> USE WebJobsAssumption DEF Positions
  <2>1. CASE Send
    BY <2>1 DEF Send, client, flag, limits
  <2>2. CASE Sync \/ Login \/ LoginFails
    BY <2>2, SyncInPlace DEF Sync, Login, LoginFails, limits
  <2>3. CASE Logout \/ SaveFlag \/ End
    <3>1. UNCHANGED <<newest, token, batch, fetched, leftOut, passedOver>>
      BY <2>3 DEF Logout, SaveFlag, End, client
    <3>2. /\ commands' = commands \/ (commands < MaxCommands /\ commands' = commands + 1)
          /\ ends' = ends \/ (ends < MaxEnds /\ ends' = ends + 1)
      BY <2>3 DEF Logout, SaveFlag, End, limits
    <3>3. QED
      BY <3>1, <3>2
  <2>4. CASE Start
    <3>1. SyncFrom(token) \/ UNCHANGED <<fetched, batch, token, leftOut>>
      BY <2>4 DEF Start
    <3>2. UNCHANGED <<newest, passedOver, commands, ends>>
      BY <2>4 DEF Start, limits
    <3>3. CASE SyncFrom(token)
      BY <3>2, <3>3, SyncInPlace
    <3>4. QED
      BY <3>1, <3>2, <3>3
  <2>5. ASSUME NEW r \in Requests,
               Ask(r) \/ Begin(r) \/ Clear(r) \/ Rooms(r) \/ Finish(r) \/ Raise(r)
        PROVE  UNCHANGED <<newest, token, batch, fetched, leftOut, passedOver, commands, ends>>
    BY <2>5 DEF Ask, Begin, Clear, Rooms, Finish, Raise, client, flag, limits
  <2>6. ASSUME NEW r \in Requests, Connect(r) PROVE Positions'
    <3>1. UNCHANGED <<newest, batch, fetched, leftOut, commands, ends>> /\ token' = newest
      BY <2>6 DEF Connect, client, flag, limits
    <3>2. passedOver' \subseteq 1..newest
      BY <2>6 DEF Connect
    <3>3. newest \in 0..newest
      OBVIOUS
    <3>4. QED
      BY <3>1, <3>2, <3>3
  <2>7. ASSUME NEW u \in Uploads, Upload(u) \/ Uploaded(u) \/ Imported(u)
        PROVE  UNCHANGED <<newest, token, batch, fetched, leftOut, passedOver, commands, ends>>
    BY <2>7 DEF Upload, Uploaded, Imported, client, flag, limits
  <2>8. CASE UNCHANGED vars
    BY <2>8 DEF vars
  <2>9. CASE UNCHANGED <<newest, token, batch, fetched, leftOut, passedOver, commands, ends>>
    BY <2>9
  <2>10. QED
    BY <2>1, <2>2, <2>3, <2>4, <2>5, <2>6, <2>7, <2>8, <2>9 DEF Next
<1>3. QED
  BY <1>1, <1>2, PTL DEF Spec

\* Every variable keeps its type, a connected source is one that the last command enabled,
\* and no job outlives the process.
THEOREM TypeCorrect == Spec => []TypeOK
<1>1. Init => TypeOK
  <2>1. Init => Positions
    BY WebJobsAssumption DEF Init, Positions
  <2>2. QED
    BY <2>1 DEF Init, TypeOK, None
<1>2. TypeOK /\ Positions' /\ [Next]_vars => TypeOK'
  <2> SUFFICES ASSUME TypeOK, Positions', [Next]_vars PROVE TypeOK'
    OBVIOUS
  <2> USE DEF TypeOK, AtWork, None
  <2>1. CASE Send
    BY <2>1 DEF Send, client, flag, jobs, uploads
  <2>2. CASE Sync \/ LoginFails
    <3>1. UNCHANGED <<up, source, flag, jobs, uploads>>
      BY <2>2 DEF Sync, LoginFails
    <3>2. QED
      BY <3>1 DEF flag, jobs, uploads
  <2>7. CASE Login \/ Logout \/ SaveFlag
    <3>1. UNCHANGED <<up, jobs, uploads>> /\ up
      BY <2>7 DEF Login, Logout, SaveFlag
    <3>2. saved' \in {"yes", "no", None} /\ unsaved' \in BOOLEAN
      BY <2>7 DEF Login, Logout, SaveFlag
    <3>3. source' \in BOOLEAN /\ enabled' \in BOOLEAN /\ (source' => enabled')
      <4>1. CASE Login \/ Logout
        BY <4>1 DEF Login, Logout
      <4>2. CASE SaveFlag
        BY <4>2 DEF SaveFlag, client
      <4>3. QED
        BY <2>7, <4>1, <4>2
    <3>4. QED
      BY <3>1, <3>2, <3>3 DEF jobs, uploads
  <2>3. CASE End
    BY <2>3 DEF End, flag
  <2>4. CASE Start
    BY <2>4 DEF Start, jobs, uploads
  <2>5. ASSUME NEW r \in Requests,
               Ask(r) \/ Begin(r) \/ Clear(r) \/ Connect(r) \/ Rooms(r) \/ Finish(r) \/ Raise(r)
        PROVE  TypeOK'
    <3>1. up /\ UNCHANGED <<up, source, enabled, uploads>>
      BY <2>5 DEF Ask, Begin, Clear, Connect, Rooms, Finish, Raise, client, flag
    <3>2. task' \in [Requests -> AtWork \cup {"new", "body", "ended"}]
      BY <2>5 DEF Ask, Begin, Clear, Connect, Rooms, Finish, Raise, Goes
    <3>3. /\ running' \in BOOLEAN /\ last' \in Requests \cup {None}
          /\ saved' \in {"yes", "no", None} /\ unsaved' \in BOOLEAN
      BY <2>5 DEF Ask, Begin, Clear, Connect, Rooms, Finish, Raise, flag
    <3>4. QED
      BY <3>1, <3>2, <3>3 DEF uploads
  <2>6. ASSUME NEW u \in Uploads, Upload(u) \/ Uploaded(u) \/ Imported(u) PROVE TypeOK'
    <3>1. up /\ UNCHANGED <<up, source, flag, jobs>>
      BY <2>6 DEF Upload, Uploaded, Imported, client
    <3>2. import' \in [Uploads -> {"idle", "upload", "write"}] /\ importing' \in BOOLEAN
      BY <2>6 DEF Upload, Uploaded, Imported
    <3>3. QED
      BY <3>1, <3>2 DEF client, flag, jobs
  <2>9. CASE UNCHANGED vars
    BY <2>9 DEF vars
  <2>10. QED
    BY <2>1, <2>2, <2>3, <2>4, <2>5, <2>6, <2>7, <2>9 DEF Next
<1>3. QED
  BY <1>1, <1>2, PositionsHold, PTL DEF Spec

-----------------------------------------------------------------------------
(* The flags.                                                              *)

LEMMA JobInvHolds == Spec => []JobInv
<1>1. Init => JobInv
  BY DEF Init, JobInv, OneImport, BusyIsAtWork
<1>2. TypeOK /\ JobInv /\ [Next]_vars => JobInv'
  <2> SUFFICES ASSUME TypeOK, JobInv, [Next]_vars PROVE JobInv'
    OBVIOUS
  <2> USE DEF JobInv, OneImport, BusyIsAtWork, TypeOK, AtWork, None
  <2>1. CASE Send \/ Sync \/ Login \/ LoginFails \/ Logout \/ SaveFlag \/ Start
    BY <2>1 DEF Send, Sync, Login, LoginFails, Logout, SaveFlag, Start, jobs, uploads
  <2>2. CASE End
    BY <2>2 DEF End
  <2>3. ASSUME NEW r \in Requests, Ask(r) \/ Begin(r) PROVE JobInv'
    BY <2>3 DEF Ask, Begin, Goes, uploads
  <2>4. ASSUME NEW r \in Requests, Clear(r) \/ Connect(r) \/ Rooms(r) PROVE JobInv'
    BY <2>4 DEF Clear, Connect, Rooms, Goes, uploads
  <2>5. ASSUME NEW r \in Requests, Finish(r) \/ Raise(r) PROVE JobInv'
    BY <2>5 DEF Finish, Raise, Goes, uploads
  <2>6. ASSUME NEW u \in Uploads, Upload(u) PROVE JobInv'
    BY <2>6 DEF Upload, jobs
  <2>7. ASSUME NEW u \in Uploads, Uploaded(u) PROVE JobInv'
    BY <2>7 DEF Uploaded, jobs
  <2>8. ASSUME NEW u \in Uploads, Imported(u) PROVE JobInv'
    BY <2>8 DEF Imported, jobs
  <2>9. CASE UNCHANGED vars
    BY <2>9 DEF vars
  <2>10. QED
    BY <2>1, <2>2, <2>3, <2>4, <2>5, <2>6, <2>7, <2>8, <2>9 DEF Next
<1>3. QED
  BY <1>1, <1>2, TypeCorrect, PTL DEF Spec

\* At most one import waits for its file or writes, for it is refused under the flag, and the
\* flag stays up until the end of the one that raised it.
THEOREM OneImportAtATime == Spec => []OneImport
BY JobInvHolds, PTL DEF JobInv

\* A flag that refuses a request has a job behind it, whatever error ended the ones before.
THEOREM RefusedForAJob == Spec => []BusyIsAtWork
BY JobInvHolds, PTL DEF JobInv

-----------------------------------------------------------------------------
(* The command.                                                            *)

LEMMA SavedInvHolds == Spec => []SavedInv
<1>1. Init => SavedInv
  BY DEF Init, SavedInv, None
<1>2. TypeOK /\ SavedInv /\ [Next]_vars => SavedInv'
  <2> SUFFICES ASSUME TypeOK, SavedInv, [Next]_vars PROVE SavedInv'
    OBVIOUS
  <2> USE DEF SavedInv, None
  <2>1. CASE Send \/ Sync \/ LoginFails \/ End
    BY <2>1 DEF Send, Sync, LoginFails, End, flag
  <2>2. CASE Login \/ Logout \/ SaveFlag
    BY <2>2 DEF Login, Logout, SaveFlag, TypeOK
  <2>3. CASE Start
    BY <2>3 DEF Start
  <2>4. ASSUME NEW r \in Requests, Clear(r) PROVE SavedInv'
    BY <2>4 DEF Clear, client, flag
  <2>5. ASSUME NEW r \in Requests,
               Ask(r) \/ Begin(r) \/ Connect(r) \/ Rooms(r) \/ Finish(r) \/ Raise(r)
        PROVE  SavedInv'
    BY <2>5 DEF Ask, Begin, Connect, Rooms, Finish, Raise, client, flag
  <2>6. ASSUME NEW u \in Uploads, Upload(u) \/ Uploaded(u) \/ Imported(u) PROVE SavedInv'
    BY <2>6 DEF Upload, Uploaded, Imported, client, flag
  <2>7. CASE UNCHANGED vars
    BY <2>7 DEF vars
  <2>8. QED
    BY <2>1, <2>2, <2>3, <2>4, <2>5, <2>6, <2>7 DEF Next
<1>3. QED
  BY <1>1, <1>2, TypeCorrect, PTL DEF Spec

\* The last command holds over every end and start of the process, but for an end that comes
\* before its row is written and a backfill that clears the row.
THEOREM TheCommandIsKept == Spec => CommandKept
<1>1. SavedInv /\ [Next]_vars => [Start => enabled' = enabled \/ unsaved \/ saved = None]_vars
  BY DEF SavedInv, Start
<1>2. QED
  BY <1>1, SavedInvHolds, PTL DEF Spec, CommandKept

-----------------------------------------------------------------------------
(* The token.                                                              *)

\* A sync from a token that leaves nothing behind it leaves nothing behind its own.
LEMMA SyncLeavesNothing ==
    ASSUME TypeOK, TypeOK', NEW since \in 0..newest, newest' = newest,
           1..since \subseteq fetched \cup leftOut \cup passedOver,
           SyncFrom(since), passedOver' = passedOver
    PROVE  TokenInv'
<1>1. ASSUME NEW i \in 1..newest PROVE i \in fetched' \cup leftOut' \cup passedOver'
  <2>1. i \in 1..since \/ i \in (since + 1)..newest
    BY <1>1, WebJobsAssumption DEF TypeOK, Positions
  <2>2. QED
    BY <2>1 DEF SyncFrom
<1>2. token' = newest /\ batch' = newest
  BY DEF SyncFrom
<1>3. QED
  BY <1>1, <1>2 DEF TokenInv

LEMMA TokenInvHolds == Spec => []TokenInv
<1>1. Init => TokenInv
  BY DEF Init, TokenInv
<1>2. TypeOK /\ TypeOK' /\ TokenInv /\ [Next]_vars => TokenInv'
  <2> SUFFICES ASSUME TypeOK, TypeOK', TokenInv, [Next]_vars PROVE TokenInv'
    OBVIOUS
  <2>0. token \in 0..newest /\ batch \in 0..newest
    BY DEF TypeOK, Positions
  <2>1. CASE Send
    BY <2>1 DEF Send, client, flag, TokenInv
  <2>2. CASE Sync
    <3>1. 1..batch \subseteq fetched \cup leftOut \cup passedOver
      BY <2>2 DEF Sync, TokenInv
    <3>2. QED
      BY <2>0, <2>2, <3>1, SyncLeavesNothing DEF Sync
  <2>3. CASE Login \/ LoginFails
    <3>1. 1..token \subseteq fetched \cup leftOut \cup passedOver
      BY DEF TokenInv
    <3>2. QED
      BY <2>0, <2>3, <3>1, SyncLeavesNothing DEF Login, LoginFails
  <2>4. CASE Logout \/ SaveFlag \/ End
    BY <2>4 DEF Logout, SaveFlag, End, client, TokenInv
  <2>5. CASE Start
    <3>1. CASE enabled'
      BY <2>0, <2>5, <3>1, SyncLeavesNothing DEF Start, TokenInv
    <3>2. CASE ~enabled'
      BY <2>5, <3>2 DEF Start, TokenInv
    <3>3. QED
      BY <3>1, <3>2
  <2>6. ASSUME NEW r \in Requests, Connect(r) PROVE TokenInv'
    <3>1. 1..newest \subseteq fetched \cup leftOut \cup passedOver'
      BY <2>6 DEF Connect
    <3>2. token' = newest /\ UNCHANGED <<source, fetched, leftOut, batch>> /\ passedOver \subseteq passedOver'
      BY <2>6 DEF Connect, client, flag
    <3>3. QED
      BY <3>1, <3>2 DEF TokenInv
  <2>7. ASSUME NEW r \in Requests,
               Ask(r) \/ Begin(r) \/ Clear(r) \/ Rooms(r) \/ Finish(r) \/ Raise(r)
        PROVE  TokenInv'
    BY <2>7 DEF Ask, Begin, Clear, Rooms, Finish, Raise, client, flag, TokenInv
  <2>8. ASSUME NEW u \in Uploads, Upload(u) \/ Uploaded(u) \/ Imported(u) PROVE TokenInv'
    BY <2>8 DEF Upload, Uploaded, Imported, client, flag, TokenInv
  <2>9. CASE UNCHANGED vars
    BY <2>9 DEF vars, TokenInv
  <2>10. QED
    BY <2>1, <2>2, <2>3, <2>4, <2>5, <2>6, <2>7, <2>8, <2>9 DEF Next
<1>3. QED
  BY <1>1, <1>2, TypeCorrect, PTL DEF Spec

\* No event of the source is behind the live client that it has not got, but those that a
\* limited answer left out and those that the second client of a backfill passed over.
THEOREM NothingElseSkipped == Spec => []NothingSkipped
<1>1. TokenInv => NothingSkipped
  BY DEF TokenInv, NothingSkipped
<1>2. QED
  BY <1>1, TokenInvHolds, PTL
=============================================================================
