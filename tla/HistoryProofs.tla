---------------------------- MODULE HistoryProofs ----------------------------
(***************************************************************************)
(* Proofs about History, for every set of backfills, all sizes of a page   *)
(* and all lengths of the room.  RoomInv is what a timeline and the looks  *)
(* of the backfills at it are, ErasedInv where the event of a deleted row  *)
(* may still be (what was deleted stays so), TableInv whose texts the rows *)
(* and the plans have (no text ends up in another message), LeftInv where  *)
(* a message is that a backfill is to store (nothing is left out), and     *)
(* CalmInv what a reconciliation that nothing came between writes (the     *)
(* texts are the latest).                                                  *)
(***************************************************************************)
EXTENDS History, WellFoundedInduction, TLAPS

Happening == [kind : {"message", "edit", "redact"}, of : Places]

\* What an event names came before it; only messages are redacted.
RoomInv ==
    /\ timeline \in Seq(Happening) /\ live \in 0..Len(timeline) /\ waiting \subseteq 1..live
    /\ \A p \in 1..Len(timeline) : Kind(p) # "message" => timeline[p].of < p
    /\ \A p \in 1..Len(timeline) : Kind(p) = "redact" => timeline[timeline[p].of].kind = "message"

\* What a backfill has in hand was in the room.
LookInv ==
    /\ pc \in [Tasks -> {"idle", "look", "fetch", "page", "apply", "read", "write", "done"}]
    /\ existing \in [Tasks -> SUBSET Nat] /\ redacted \in [Tasks -> SUBSET Nat]
    /\ page \in [Tasks -> SUBSET (1..Len(timeline))] /\ cursor \in [Tasks -> 0..(Len(timeline) + 1)]
    /\ DOMAIN rows \subseteq Nat
    /\ \A b \in Tasks : pc[b] # "page" => page[b] = {}
    /\ \A b \in Tasks : \A p \in redacted[b] : Gone(p)

\* A deleted row has no event before the live handlers, on a page to come, in hand or waiting.
ErasedInv ==
    /\ \A p \in erased : p \in Nat /\ p <= live /\ Gone(p) /\ ~InHand(p) /\ p \notin waiting
    /\ DeletedStaysDeleted

-----------------------------------------------------------------------------
(* The room.                                                               *)

LEMMA RoomInvHolds == Spec => []RoomInv
<1>1. Init => RoomInv
  BY HistoryAssumption DEF Init, RoomInv, Happening
<1>2. RoomInv /\ [Next]_vars => RoomInv'
  <2> SUFFICES ASSUME RoomInv, [Next]_vars PROVE RoomInv'
    OBVIOUS
  <2> USE DEF RoomInv
  <2>1. CASE Post
    <3>1. PICK kind \in {"message", "edit", "redact"}, of \in 1..(Len(timeline) + 1) :
            /\ kind # "message" => of <= Len(timeline)
            /\ kind = "redact" => timeline[of].kind = "message"
            /\ timeline' = Append(timeline, [kind |-> kind, of |-> of])
      BY <2>1 DEF Post, Kind
    <3>2. Len(timeline) < MaxEvents /\ live' = live /\ waiting' = waiting
      BY <2>1 DEF Post
    <3>3. Len(timeline) \in Nat /\ MaxEvents \in Nat /\ of \in Places
      BY <3>2, HistoryAssumption DEF Places
    <3>4. [kind |-> kind, of |-> of] \in Happening
      BY <3>3 DEF Happening
    <3>5. /\ timeline' \in Seq(Happening) /\ Len(timeline') = Len(timeline) + 1
          /\ \A p \in 1..Len(timeline) : timeline'[p] = timeline[p]
          /\ timeline'[Len(timeline) + 1] = [kind |-> kind, of |-> of]
      BY <3>1, <3>4
    <3>6. ASSUME NEW p \in 1..Len(timeline'), Kind(p)' # "message" PROVE timeline'[p].of < p
      <4>1. CASE p \in 1..Len(timeline)
        BY <3>5, <3>6, <4>1 DEF Kind
      <4>2. CASE p = Len(timeline) + 1
        BY <3>1, <3>3, <3>5, <3>6, <4>2 DEF Kind
      <4>3. QED
        BY <3>3, <3>5, <4>1, <4>2
    <3>7. ASSUME NEW p \in 1..Len(timeline'), Kind(p)' = "redact"
          PROVE  timeline'[timeline'[p].of].kind = "message"
      <4>1. CASE p \in 1..Len(timeline)
        <5>1. timeline[p].kind = "redact" /\ timeline'[p] = timeline[p] /\ timeline[p] \in Happening
          BY <3>5, <3>7, <4>1 DEF Kind
        <5>2. timeline[timeline[p].of].kind = "message" /\ timeline[p].of \in 1..Len(timeline)
          BY <3>3, <4>1, <5>1 DEF Kind, Happening, Places
        <5>3. QED
          BY <3>5, <5>1, <5>2
      <4>2. CASE p = Len(timeline) + 1
        <5>1. timeline'[p].kind = "redact" /\ timeline'[p].of = of /\ kind = "redact"
          BY <3>5, <3>7, <4>2 DEF Kind
        <5>2. of \in 1..Len(timeline) /\ timeline[of].kind = "message"
          BY <3>1, <3>3, <5>1 DEF Places
        <5>3. QED
          BY <3>5, <5>1, <5>2
      <4>3. QED
        BY <3>3, <3>5, <4>1, <4>2
    <3>8. QED
      BY <3>2, <3>3, <3>5, <3>6, <3>7
  <2>2. CASE LiveMessage \/ LiveEdit \/ LiveRedact \/ LiveMisses \/ LivePlaceholder
    <3>1. /\ timeline' = timeline /\ live < Len(timeline) /\ live' = live + 1
          /\ waiting' \in {waiting, waiting \cup {live + 1}}
      BY <2>2 DEF LiveMessage, LiveEdit, LiveRedact, LiveMisses, LivePlaceholder, Live
    <3>2. Len(timeline) \in Nat
      OBVIOUS
    <3>3. waiting' \subseteq 1..live'
      BY <3>1, <3>2
    <3>4. QED
      BY <3>1, <3>2, <3>3 DEF Kind
  <2>3. CASE UNCHANGED <<timeline, live>> /\ waiting' \subseteq waiting
    BY <2>3 DEF Kind
  <2>4. QED
    BY <2>1, <2>2, <2>3
       DEF Next, Environment, LateMessage, LateEdit, Restart, Clear, Backfill, Look, Fetch,
           FetchRefused, FetchRaises,
           Take, TakeUndecryptable, CutOff, EndPage, ApplyRedactions, ReconcileReads,
           ReconcileWrites, Finish, vars
<1>3. QED
  BY <1>1, <1>2, PTL DEF Spec

\* A redacted event stays redacted.
LEMMA GoneForGood ==
    ASSUME RoomInv, RoomInv', [Next]_vars, NEW p, Gone(p)
    PROVE  Gone(p)'
<1>1. CASE Post
  <2>1. PICK q \in DOMAIN timeline : Kind(q) = "redact" /\ timeline[q].of = p
    BY DEF Gone
  <2>2. PICK e : timeline' = Append(timeline, e)
    BY <1>1 DEF Post
  <2>3. q \in DOMAIN timeline' /\ timeline'[q] = timeline[q]
    BY <2>1, <2>2 DEF RoomInv
  <2>4. QED
    BY <2>1, <2>3 DEF Gone, Kind
<1>2. CASE timeline' = timeline
  BY <1>2 DEF Gone, Kind
<1>3. Post \/ timeline' = timeline
  BY DEF Next, Environment, LiveMessage, LiveEdit, LiveRedact, LiveMisses, LivePlaceholder,
         LateMessage, LateEdit, Restart, Clear, Backfill, Look, Fetch, FetchRefused,
         FetchRaises, Take, TakeUndecryptable, CutOff,
         EndPage, ApplyRedactions, ReconcileReads, ReconcileWrites, Finish, vars
<1>4. QED
  BY <1>1, <1>2, <1>3

-----------------------------------------------------------------------------
(* The looks of the backfills.                                             *)

\* What the transactions do to the ids of the table.
LEMMA IdsOfRows ==
    /\ \A p : DOMAIN SaveMessage(p) = DOMAIN rows \cup {p}
    /\ \A p : DOMAIN SavePlaceholder(p) = DOMAIN rows \cup {p}
    /\ \A p, text : DOMAIN UpdateMessageText(p, text) = DOMAIN rows
    /\ \A S : DOMAIN DeleteMessages(S) = DOMAIN rows \ S
    /\ \A do : DOMAIN Reconciled(do) = DOMAIN rows \ do.delete
BY DEF SaveMessage, SavePlaceholder, UpdateMessageText, DeleteMessages, Reconciled

LEMMA PageInRoom ==
    ASSUME RoomInv, LookInv, NEW b \in Tasks, Fetch(b)
    PROVE  /\ page' \in [Tasks -> SUBSET (1..Len(timeline))]
           /\ cursor' \in [Tasks -> 0..(Len(timeline) + 1)]
           /\ \A p \in page'[b] : ~Gone(p)
           /\ \A c \in Tasks : c # b => page'[c] = page[c]
<1> DEFINE last == IF cursor[b] = 0 THEN Len(timeline) ELSE cursor[b] - 1
<1> DEFINE first == IF last > PageSize THEN last - PageSize + 1 ELSE 1
<1>1. Len(timeline) \in Nat /\ cursor[b] \in 0..(Len(timeline) + 1)
  BY DEF RoomInv, LookInv
<1>2. last \in 0..Len(timeline)
  BY <1>1
<1>3. first \in 1..(Len(timeline) + 1)
  BY <1>1, <1>2, HistoryAssumption
<1> HIDE DEF first, last
<1>4. /\ page' = [page EXCEPT ![b] = {p \in first..last : ~Gone(p)}]
      /\ cursor' = [cursor EXCEPT ![b] = first]
  BY DEF Fetch, first, last
<1>5. {p \in first..last : ~Gone(p)} \subseteq 1..Len(timeline)
  BY <1>1, <1>2, <1>3
<1>6. page \in [Tasks -> SUBSET (1..Len(timeline))] /\ cursor \in [Tasks -> 0..(Len(timeline) + 1)]
  BY DEF LookInv
<1>7. page' \in [Tasks -> SUBSET (1..Len(timeline))]
  BY <1>4, <1>5, <1>6
<1>8. cursor' \in [Tasks -> 0..(Len(timeline) + 1)]
  BY <1>3, <1>4, <1>6
<1>9. page'[b] = {p \in first..last : ~Gone(p)} /\ \A c \in Tasks : c # b => page'[c] = page[c]
  BY <1>4, <1>6
<1>10. QED
  BY <1>7, <1>8, <1>9

LEMMA LookInvHolds == Spec => []LookInv
<1>1. Init => LookInv
  BY DEF Init, LookInv
<1>2. RoomInv /\ RoomInv' /\ LookInv /\ [Next]_vars => LookInv'
  <2> SUFFICES ASSUME RoomInv, RoomInv', LookInv, [Next]_vars PROVE LookInv'
    OBVIOUS
  <2> DEFINE Labels == {"idle", "look", "fetch", "page", "apply", "read", "write", "done"}
  <2>0. /\ pc \in [Tasks -> Labels]
        /\ existing \in [Tasks -> SUBSET Nat] /\ redacted \in [Tasks -> SUBSET Nat]
        /\ page \in [Tasks -> SUBSET (1..Len(timeline))]
        /\ cursor \in [Tasks -> 0..(Len(timeline) + 1)]
        /\ Len(timeline) \in Nat /\ DOMAIN rows \subseteq Nat
        /\ \A b \in Tasks : pc[b] # "page" => page[b] = {}
        /\ \A b \in Tasks : \A p \in redacted[b] : Gone(p)
    BY DEF LookInv, RoomInv
  <2>1. CASE Post
    <3>1. PICK e \in Happening : timeline' = Append(timeline, e)
      <4>1. PICK kind \in {"message", "edit", "redact"}, of \in 1..(Len(timeline) + 1) :
              timeline' = Append(timeline, [kind |-> kind, of |-> of])
        BY <2>1 DEF Post
      <4>2. Len(timeline) < MaxEvents /\ MaxEvents \in Nat
        BY <2>1, HistoryAssumption DEF Post
      <4>3. [kind |-> kind, of |-> of] \in Happening
        BY <2>0, <4>2 DEF Happening, Places
      <4>4. QED
        BY <4>1, <4>3
    <3>2. Len(timeline') = Len(timeline) + 1
      BY <3>1 DEF RoomInv
    <3>3. /\ page \in [Tasks -> SUBSET (1..Len(timeline'))]
          /\ cursor \in [Tasks -> 0..(Len(timeline') + 1)]
      BY <2>0, <3>2
    <3>4. UNCHANGED <<pc, existing, page, cursor, redacted, rows>>
      BY <2>1 DEF Post, tasks
    <3>5. \A b \in Tasks : \A p \in redacted[b] : Gone(p)'
      BY <2>0, GoneForGood
    <3>6. QED
      BY <2>0, <3>3, <3>4, <3>5 DEF LookInv
  \* The actions that leave the room alone.
  <2> DEFINE Same == UNCHANGED <<timeline, pc, existing, page, cursor, redacted>>
  <2>2. ASSUME timeline' = timeline, NEW p, Gone(p) PROVE Gone(p)'
    BY <2>2 DEF Gone, Kind
  <2>3. CASE Same /\ DOMAIN rows' \subseteq Nat
    BY <2>0, <2>2, <2>3 DEF LookInv
  <2>4. CASE LiveMessage \/ LiveEdit \/ LiveRedact \/ LiveMisses \/ LivePlaceholder
    <3>1. Same
      BY <2>4 DEF LiveMessage, LiveEdit, LiveRedact, LiveMisses, LivePlaceholder, tasks
    <3>2. live + 1 \in Nat
      BY <2>0 DEF RoomInv
    <3>3. DOMAIN rows' \subseteq Nat
      <4>1. CASE LiveMessage
        <5>1. rows' = SaveMessage(live + 1)
          BY <4>1 DEF LiveMessage
        <5>2. DOMAIN SaveMessage(live + 1) = DOMAIN rows \cup {live + 1}
          BY IdsOfRows
        <5>3. QED
          BY <2>0, <3>2, <5>1, <5>2
      <4>2. CASE LiveEdit
        BY <2>0, <4>2, IdsOfRows DEF LiveEdit
      <4>3. CASE LiveRedact
        <5>1. PICK p : rows' = DeleteMessages({p})
          BY <4>3 DEF LiveRedact
        <5>2. QED
          BY <2>0, <5>1, IdsOfRows
      <4>4. CASE LiveMisses
        BY <2>0, <4>4 DEF LiveMisses
      <4>5. CASE LivePlaceholder
        <5>1. rows' = SavePlaceholder(live + 1)
          BY <4>5 DEF LivePlaceholder
        <5>2. DOMAIN SavePlaceholder(live + 1) = DOMAIN rows \cup {live + 1}
          BY IdsOfRows
        <5>3. QED
          BY <2>0, <3>2, <5>1, <5>2
      <4>6. QED
        BY <2>4, <4>1, <4>2, <4>3, <4>4, <4>5
    <3>4. QED
      BY <2>3, <3>1, <3>3
  <2>15. ASSUME NEW p \in waiting, LateMessage(p) \/ LateEdit(p) PROVE LookInv'
    <3>1. Same /\ (rows' = SaveMessage(p) \/ rows' = UpdateMessageText(timeline[p].of, p))
      BY <2>15 DEF LateMessage, LateEdit, tasks
    <3>2. p \in Nat
      <4>1. waiting \subseteq 1..live /\ live \in Nat
        BY <2>0 DEF RoomInv
      <4>2. QED
        BY <2>15, <4>1
    <3>3. DOMAIN rows' \subseteq Nat
      <4>1. DOMAIN rows' \in {DOMAIN rows, DOMAIN rows \cup {p}}
        BY <3>1, IdsOfRows
      <4>2. QED
        BY <2>0, <3>2, <4>1
    <3>4. QED
      BY <2>3, <3>1, <3>3
  <2>5. CASE Restart
    BY <2>0, <2>5 DEF Restart, LookInv
  <2>6. ASSUME NEW b \in Tasks, Clear(b) \/ ReconcileReads(b) \/ ReconcileWrites(b) \/ Finish(b)
        PROVE  LookInv'
    <3>1. pc[b] # "page" /\ pc' \in [Tasks -> Labels] /\ \A c \in Tasks : c # b => pc'[c] = pc[c]
      BY <2>0, <2>6 DEF Clear, ReconcileReads, ReconcileWrites, Finish, Goto
    <3>2. UNCHANGED <<timeline, existing, page, cursor, redacted>>
      BY <2>6 DEF Clear, ReconcileReads, ReconcileWrites, Finish
    <3>3. DOMAIN rows' \subseteq Nat
      <4>1. rows' = rows \/ DOMAIN rows' = {} \/ rows' = Reconciled(plan[b])
        BY <2>6 DEF Clear, ReconcileReads, ReconcileWrites, Finish
      <4>2. DOMAIN Reconciled(plan[b]) = DOMAIN rows \ plan[b].delete
        BY IdsOfRows
      <4>3. QED
        BY <2>0, <4>1, <4>2
    <3>4. QED
      BY <2>0, <2>2, <3>1, <3>2, <3>3 DEF LookInv
  <2>7. ASSUME NEW b \in Tasks, Look(b) PROVE LookInv'
    <3>1. UNCHANGED <<timeline, rows, page, cursor, redacted>> /\ pc[b] # "page"
      BY <2>7 DEF Look
    <3>2. pc' = [pc EXCEPT ![b] = "fetch"] /\ existing' = [existing EXCEPT ![b] = DOMAIN rows]
      BY <2>7 DEF Look, Goto
    <3>3. QED
      BY <2>0, <2>2, <3>1, <3>2 DEF LookInv
  <2>8. ASSUME NEW b \in Tasks, Fetch(b) PROVE LookInv'
    <3>1. UNCHANGED <<timeline, rows, existing, redacted>> /\ pc' = [pc EXCEPT ![b] = "page"]
      BY <2>8 DEF Fetch, Goto
    <3>2. QED
      BY <2>0, <2>2, <2>8, <3>1, PageInRoom DEF LookInv
  <2>9. ASSUME NEW b \in Tasks, FetchRefused(b) PROVE LookInv'
    <3>1. UNCHANGED <<timeline, rows, existing, page, cursor, redacted>> /\ pc[b] # "page"
      BY <2>9 DEF FetchRefused
    <3>2. pc' = [pc EXCEPT ![b] = "apply"]
      BY <2>9 DEF FetchRefused, Goto
    <3>3. QED
      BY <2>0, <2>2, <3>1, <3>2 DEF LookInv
  <2>10. ASSUME NEW b \in Tasks, FetchRaises(b) \/ ApplyRedactions(b) PROVE LookInv'
    <3>1. Forget(b) /\ timeline' = timeline /\ pc' \in [Tasks -> Labels] /\ pc'[b] # "page"
      BY <2>0, <2>10 DEF FetchRaises, ApplyRedactions, Goto
    <3>2. \A c \in Tasks : c # b => pc'[c] = pc[c]
      BY <2>0, <2>10 DEF FetchRaises, ApplyRedactions, Goto
    <3>3. DOMAIN rows' \subseteq Nat
      <4>1. CASE FetchRaises(b)
        BY <2>0, <4>1 DEF FetchRaises
      <4>2. CASE ApplyRedactions(b)
        BY <2>0, <4>2, IdsOfRows DEF ApplyRedactions
      <4>3. QED
        BY <2>10, <4>1, <4>2
    <3>4. QED
      BY <2>0, <2>2, <3>1, <3>2, <3>3 DEF LookInv, Forget
  <2>11. ASSUME NEW b \in Tasks, CutOff(b) \/ EndPage(b) PROVE LookInv'
    <3>1. /\ page' \in [Tasks -> SUBSET (1..Len(timeline))] /\ page'[b] = {}
          /\ \A c \in Tasks : c # b => page'[c] = page[c] /\ pc'[c] = pc[c]
      BY <2>0, <2>11 DEF CutOff, EndPage, Goto
    <3>2. UNCHANGED <<timeline, rows, existing, cursor, redacted>> /\ pc' \in [Tasks -> Labels]
      BY <2>0, <2>11 DEF CutOff, EndPage, Goto
    <3>3. QED
      BY <2>0, <2>2, <3>1, <3>2 DEF LookInv
  <2>12. ASSUME NEW b \in Tasks, Take(b) \/ TakeUndecryptable(b) PROVE LookInv'
    <3>1. PICK p \in page[b] : Foremost(b, p) /\ Taken(b, p) /\
            \/ Kind(p) = "redact" /\ redacted' = [redacted EXCEPT ![b] = @ \cup {timeline[p].of}]
                 /\ UNCHANGED <<rows, existing>>
            \/ UNCHANGED <<rows, existing, redacted>>
            \/ rows' = SaveMessage(p) /\ existing' = [existing EXCEPT ![b] = @ \cup {p}]
                 /\ UNCHANGED redacted
      BY <2>12 DEF Take, TakeUndecryptable
    <3>2. UNCHANGED <<timeline, pc, cursor>>
      BY <2>12 DEF Take, TakeUndecryptable
    <3>3. p \in 1..Len(timeline) /\ p \in Nat
      BY <2>0
    <3>4. page' \in [Tasks -> SUBSET (1..Len(timeline))]
      BY <2>0, <3>1 DEF Taken
    <3>5. \A c \in Tasks : pc[c] # "page" => page'[c] = {}
      BY <2>0, <3>1 DEF Taken
    <3>6. timeline[p].of \in Nat
      <4>1. timeline[p] \in Happening
        BY <3>3 DEF RoomInv
      <4>2. QED
        BY <4>1 DEF Happening, Places
    <3>7. Kind(p) = "redact" => Gone(timeline[p].of)
      BY <3>3 DEF Gone, RoomInv
    <3>8. /\ redacted' \in [Tasks -> SUBSET Nat] /\ existing' \in [Tasks -> SUBSET Nat]
          /\ DOMAIN rows' \subseteq Nat
      <4>1. redacted' \in [Tasks -> SUBSET Nat]
        BY <2>0, <3>1, <3>6
      <4>2. existing' \in [Tasks -> SUBSET Nat]
        BY <2>0, <3>1, <3>3
      <4>3. DOMAIN rows' \subseteq Nat
        <5>1. rows' = rows \/ rows' = SaveMessage(p)
          BY <3>1
        <5>2. DOMAIN SaveMessage(p) = DOMAIN rows \cup {p}
          BY IdsOfRows
        <5>3. QED
          BY <2>0, <3>3, <5>1, <5>2
      <4>4. QED
        BY <4>1, <4>2, <4>3
    <3>9. \A c \in Tasks : \A q \in redacted'[c] : Gone(q)
      BY <2>0, <3>1, <3>7
    <3>10. QED
      BY <2>0, <2>2, <3>2, <3>4, <3>5, <3>8, <3>9 DEF LookInv
  <2>13. CASE UNCHANGED vars
    BY <2>3, <2>13, <2>0 DEF vars, tasks
  <2>14. QED
    BY <2>1, <2>4, <2>5, <2>6, <2>7, <2>8, <2>9, <2>10, <2>11, <2>12, <2>13, <2>15
       DEF Next, Environment, Backfill
<1>3. QED
  BY <1>1, <1>2, RoomInvHolds, PTL DEF Spec

-----------------------------------------------------------------------------
(* What was deleted.                                                       *)

\* A backfill never gets a redacted event in hand that it had not before.
LEMMA NoneTakenInHand ==
    ASSUME RoomInv, LookInv, [Next]_vars, NEW p, Gone(p), ~InHand(p)
    PROVE  ~InHand(p)'
<1>0. /\ page \in [Tasks -> SUBSET (1..Len(timeline))] /\ existing \in [Tasks -> SUBSET Nat]
      /\ \A b \in Tasks : pc[b] # "page" => page[b] = {}
      /\ \A b \in Tasks : p \notin page[b] \/ p \in existing[b]
  BY DEF LookInv, InHand
<1>1. CASE UNCHANGED <<page, existing>>
  BY <1>0, <1>1 DEF InHand
<1>2. CASE Restart
  BY <1>0, <1>2 DEF Restart, InHand
<1>3. ASSUME NEW b \in Tasks, Look(b) PROVE ~InHand(p)'
  <2>1. page' = page /\ page[b] = {}
    BY <1>0, <1>3 DEF Look
  <2>2. \A c \in Tasks : c # b => existing'[c] = existing[c]
    BY <1>0, <1>3 DEF Look
  <2>3. QED
    BY <1>0, <2>1, <2>2 DEF InHand
<1>4. ASSUME NEW b \in Tasks, Fetch(b) PROVE ~InHand(p)'
  <2>1. existing' = existing
    BY <1>4 DEF Fetch
  <2>2. QED
    BY <1>0, <1>4, <2>1, PageInRoom DEF InHand
<1>5. ASSUME NEW b \in Tasks, FetchRaises(b) \/ ApplyRedactions(b) PROVE ~InHand(p)'
  <2>1. Forget(b)
    BY <1>5 DEF FetchRaises, ApplyRedactions
  <2>2. page'[b] = {} /\ \A c \in Tasks : c # b => page'[c] = page[c] /\ existing'[c] = existing[c]
    BY <1>0, <2>1 DEF Forget
  <2>3. QED
    BY <1>0, <2>2 DEF InHand
<1>6. ASSUME NEW b \in Tasks, CutOff(b) PROVE ~InHand(p)'
  BY <1>0, <1>6 DEF CutOff, InHand
<1>7. ASSUME NEW b \in Tasks, Take(b) \/ TakeUndecryptable(b) PROVE ~InHand(p)'
  <2>1. PICK q \in page[b] : /\ page' = [page EXCEPT ![b] = @ \ {q}]
                            /\ \/ existing' = existing
                               \/ existing' = [existing EXCEPT ![b] = @ \cup {q}]
    BY <1>7 DEF Take, TakeUndecryptable, Taken
  <2>2. \A c \in Tasks : page'[c] \subseteq page[c] /\ existing[c] \subseteq existing'[c]
    BY <1>0, <2>1
  <2>3. QED
    BY <1>0, <2>2 DEF InHand
<1>8. QED
  BY <1>1, <1>2, <1>3, <1>4, <1>5, <1>6, <1>7
     DEF Next, Environment, Backfill, Post, LiveMessage, LiveEdit, LiveRedact, LiveMisses,
         LivePlaceholder, LateMessage, LateEdit, Clear, FetchRefused, EndPage, ReconcileReads,
         ReconcileWrites, Finish, vars, tasks

\* The rows that a step adds: one of the live handlers, one that waited, or one that a backfill
\* had in hand.
LEMMA RowsAdded ==
    ASSUME LookInv, [Next]_vars, NEW p, p \in DOMAIN rows', p \notin DOMAIN rows
    PROVE  InHand(p) \/ p \in waiting \/ (p = live + 1 /\ live' = live + 1)
<1>1. CASE LiveMessage
  <2>1. rows' = SaveMessage(live + 1) /\ live' = live + 1
    BY <1>1 DEF LiveMessage, Live
  <2>2. DOMAIN SaveMessage(live + 1) = DOMAIN rows \cup {live + 1}
    BY IdsOfRows
  <2>3. QED
    BY <2>1, <2>2
<1>2. CASE LiveEdit
  BY <1>2, IdsOfRows DEF LiveEdit
<1>3. CASE LiveRedact
  <2>1. PICK q : rows' = DeleteMessages({q})
    BY <1>3 DEF LiveRedact
  <2>2. QED
    BY <2>1, IdsOfRows
<1>4. ASSUME NEW b \in Tasks, Clear(b) PROVE FALSE
  BY <1>4 DEF Clear
<1>5. ASSUME NEW b \in Tasks, Take(b) PROVE InHand(p)
  <2>1. PICK q \in page[b] : rows' = rows \/ (q \notin existing[b] /\ rows' = SaveMessage(q))
    BY <1>5 DEF Take
  <2>2. DOMAIN SaveMessage(q) = DOMAIN rows \cup {q}
    BY IdsOfRows
  <2>3. QED
    BY <2>1, <2>2 DEF InHand
<1>6. ASSUME NEW b \in Tasks, ApplyRedactions(b) PROVE FALSE
  BY <1>6, IdsOfRows DEF ApplyRedactions
<1>7. ASSUME NEW b \in Tasks, ReconcileWrites(b) PROVE FALSE
  BY <1>7, IdsOfRows DEF ReconcileWrites
<1>8. CASE rows' = rows
  BY <1>8
<1>9. CASE LivePlaceholder
  <2>1. rows' = SavePlaceholder(live + 1) /\ live' = live + 1
    BY <1>9 DEF LivePlaceholder, Live
  <2>2. DOMAIN SavePlaceholder(live + 1) = DOMAIN rows \cup {live + 1}
    BY IdsOfRows
  <2>3. QED
    BY <2>1, <2>2
<1>10. ASSUME NEW q \in waiting, LateMessage(q) PROVE p \in waiting
  <2>1. rows' = SaveMessage(q) /\ DOMAIN SaveMessage(q) = DOMAIN rows \cup {q}
    BY <1>10, IdsOfRows DEF LateMessage
  <2>2. QED
    BY <1>10, <2>1
<1>11. ASSUME NEW q \in waiting, LateEdit(q) PROVE FALSE
  BY <1>11, IdsOfRows DEF LateEdit
<1>12. QED
  BY <1>1, <1>2, <1>3, <1>4, <1>5, <1>6, <1>7, <1>8, <1>9, <1>10, <1>11
     DEF Next, Environment, Backfill, Post, LiveMisses, Restart, Look, Fetch, FetchRefused,
         FetchRaises, TakeUndecryptable, CutOff, EndPage, ReconcileReads, Finish, vars

\* What a step adds to the deleted messages is redacted, in nobody's hand, in no row and does
\* not wait.
LEMMA NewlyErased ==
    ASSUME RoomInv, LookInv, [Next]_vars, NEW p, p \in erased', p \notin erased
    PROVE  /\ p \in Nat /\ p <= live /\ Gone(p) /\ ~InHand(p)
           /\ p \notin waiting /\ p \notin DOMAIN rows'
<1>1. CASE LiveRedact
  <2>1. /\ live < Len(timeline) /\ Kind(live + 1) = "redact"
        /\ p = timeline[live + 1].of /\ ~InHand(p) /\ p \notin waiting
        /\ rows' = DeleteMessages({p})
    BY <1>1 DEF LiveRedact, Live
  <2>2. live \in Nat /\ live + 1 \in 1..Len(timeline)
    BY <2>1 DEF RoomInv
  <2>3. timeline[live + 1] \in Happening
    BY <2>2 DEF RoomInv
  <2>4. p \in Nat /\ p < live + 1
    BY <2>1, <2>2, <2>3 DEF RoomInv, Happening, Places
  <2>5. Gone(p)
    BY <2>1, <2>2 DEF Gone, RoomInv
  <2>6. p <= live
    BY <2>2, <2>4
  <2>7. p \notin DOMAIN rows'
    BY <2>1, IdsOfRows
  <2>8. QED
    BY <2>1, <2>4, <2>5, <2>6, <2>7
<1>2. ASSUME NEW b \in Tasks, ApplyRedactions(b)
      PROVE  /\ p \in Nat /\ p <= live /\ Gone(p) /\ ~InHand(p)
             /\ p \notin waiting /\ p \notin DOMAIN rows'
  <2>1. /\ p \in redacted[b] /\ p <= live /\ ~InHand(p) /\ p \notin waiting
        /\ rows' = DeleteMessages(redacted[b])
    BY <1>2 DEF ApplyRedactions
  <2>2. QED
    BY <2>1, IdsOfRows DEF LookInv
<1>3. CASE erased' = erased
  BY <1>3
<1>4. QED
  BY <1>1, <1>2, <1>3
     DEF Next, Environment, Backfill, Post, LiveMessage, LiveEdit, LiveMisses, LivePlaceholder,
         LateMessage, LateEdit, Restart, Clear, Look, Fetch, FetchRefused, FetchRaises, Take,
         TakeUndecryptable, CutOff, EndPage,
         ReconcileReads, ReconcileWrites, Finish, vars

\* A message whose redaction was carried out while no backfill had it in hand, and that did
\* not wait for its key, never comes back to the table, however many backfills run, however
\* large their pages are and whatever other events wait.
THEOREM DeletedForGood == Spec => []DeletedStaysDeleted
<1>1. Init => ErasedInv
  BY DEF Init, ErasedInv, DeletedStaysDeleted
<1>2. RoomInv /\ RoomInv' /\ LookInv /\ ErasedInv /\ [Next]_vars => ErasedInv'
  <2> SUFFICES ASSUME RoomInv, RoomInv', LookInv, ErasedInv, [Next]_vars PROVE ErasedInv'
    OBVIOUS
  <2>1. live \in Nat /\ live' \in Nat /\ live' \in {live, live + 1}
    <3>1. live' = live \/ live' = live + 1
      BY DEF Next, Environment, Backfill, Post, LiveMessage, LiveEdit, LiveRedact, LiveMisses,
             LivePlaceholder, LateMessage, LateEdit, Live, Restart, Clear, Look, Fetch,
             FetchRefused, FetchRaises, Take,
             TakeUndecryptable, CutOff, EndPage, ApplyRedactions, ReconcileReads,
             ReconcileWrites, Finish, vars
    <3>2. QED
      BY <3>1 DEF RoomInv
  <2>2. ASSUME NEW p \in erased'
        PROVE  /\ p \in Nat /\ p <= live' /\ Gone(p)' /\ ~InHand(p)'
               /\ p \notin waiting' /\ p \notin DOMAIN rows'
    <3>1. p \in Nat /\ p <= live /\ Gone(p) /\ ~InHand(p) /\ p \notin waiting
      BY NewlyErased DEF ErasedInv
    <3>2. p <= live'
      BY <2>1, <3>1
    <3>3. Gone(p)' /\ ~InHand(p)'
      BY <3>1, GoneForGood, NoneTakenInHand
    <3>4. p \notin DOMAIN rows'
      <4>1. CASE p \in erased
        <5>1. p \notin DOMAIN rows /\ p # live + 1
          BY <2>1, <3>1, <4>1 DEF ErasedInv, DeletedStaysDeleted
        <5>2. QED
          BY <3>1, <5>1, RowsAdded
      <4>2. CASE p \notin erased
        BY <4>2, NewlyErased
      <4>3. QED
        BY <4>1, <4>2
    <3>5. p \notin waiting'
      <4>1. waiting' \subseteq waiting \cup {live + 1}
        BY DEF Next, Environment, Backfill, Post, LiveMessage, LiveEdit, LiveRedact, LiveMisses,
               LivePlaceholder, LateMessage, LateEdit, Restart, Clear, Look, Fetch,
               FetchRefused, FetchRaises, Take, TakeUndecryptable, CutOff, EndPage,
               ApplyRedactions, ReconcileReads, ReconcileWrites, Finish, vars
      <4>2. p # live + 1
        BY <2>1, <3>1
      <4>3. QED
        BY <3>1, <4>1, <4>2
    <3>6. QED
      BY <3>1, <3>2, <3>3, <3>4, <3>5
  <2>3. QED
    BY <2>2 DEF ErasedInv, DeletedStaysDeleted
<1>3. QED
  BY <1>1, <1>2, RoomInvHolds, LookInvHolds, PTL DEF Spec, ErasedInv

-----------------------------------------------------------------------------
(* Numbers.                                                                *)

\* A nonempty set of naturals has a least element.
LEMMA LeastNat ==
    ASSUME NEW T \in SUBSET Nat, T # {}
    PROVE  \E n \in T : \A m \in T : n <= m
<1> DEFINE R == OpToRel(<, Nat)
<1>1. IsWellFoundedOn(R, Nat)
  BY NatLessThanWellFounded
<1>2. \A x, y \in Nat : x < y => <<x, y>> \in R
  BY Zenon DEF OpToRel
<1> HIDE DEF R
<1>3. PICK x \in T : \A y \in T : ~ (<<y, x>> \in R)
  BY <1>1, WFMin
<1>4. \A y \in T : ~(y < x)
  BY <1>2, <1>3
<1>5. QED
  BY <1>4

\* A nonempty set of naturals with a bound has a greatest element.
LEMMA GreatestNat ==
    ASSUME NEW T \in SUBSET Nat, T # {}, NEW b \in Nat, \A m \in T : m <= b
    PROVE  \E n \in T : \A m \in T : m <= n
<1> DEFINE B == {n \in Nat : \A m \in T : m <= n}
<1>1. PICK n \in B : \A m \in B : n <= m
  <2>1. B \in SUBSET Nat /\ b \in B
    OBVIOUS
  <2> HIDE DEF B
  <2>2. QED
    BY <2>1, LeastNat
<1>2. CASE n \in T
  BY <1>1, <1>2
<1>3. CASE n \notin T
  <2>1. \A m \in T : m < n /\ m \in Nat
    BY <1>1, <1>3
  <2>2. n - 1 \in Nat
    <3>1. PICK m \in T : TRUE
      OBVIOUS
    <3>2. n \in Nat /\ m \in Nat /\ m < n
      BY <1>1, <2>1
    <3>3. QED
      BY <3>2
  <2>3. n - 1 \in B
    BY <1>1, <2>1, <2>2
  <2>4. QED
    BY <1>1, <2>3
<1>4. QED
  BY <1>2, <1>3

LEMMA NewestIsIn ==
    ASSUME NEW S \in SUBSET Nat, S # {}, NEW b \in Nat, \A q \in S : q <= b
    PROVE  Newest(S) \in S /\ \A q \in S : q <= Newest(S)
BY GreatestNat DEF Newest

-----------------------------------------------------------------------------
(* The message that an event belongs to.  Root is a recursive function on  *)
(* the timeline; it exists because an event names an earlier one.          *)

IsRoom(tl) ==
    /\ tl \in Seq(Happening)
    /\ \A p \in 1..Len(tl) : tl[p].kind # "message" => tl[p].of < p

RootFrom(tl, f, q) == IF tl[q].kind = "message" THEN q ELSE f[tl[q].of]

Roots(tl, f, p) == f = [q \in 1..p |-> RootFrom(tl, f, q)]

RootIn(tl, p) == LET f == CHOOSE f : Roots(tl, f, p) IN f[p]

LEMMA RootOfTimeline ==
    /\ \A p : Root(p) = RootIn(timeline, p)
    /\ \A p : Root(p)' = RootIn(timeline', p)
BY DEF Root, RootIn, Roots, RootFrom, Kind

LEMMA Earlier ==
    ASSUME NEW tl, IsRoom(tl), NEW p \in 1..Len(tl), tl[p].kind # "message"
    PROVE  tl[p].of \in 1..p - 1
<1>1. tl[p] \in Happening /\ tl[p].of < p
  BY DEF IsRoom
<1>2. QED
  BY <1>1, HistoryAssumption DEF Happening, Places

LEMMA RootsExist ==
    ASSUME NEW tl, IsRoom(tl), NEW n \in 0..Len(tl)
    PROVE  \E f : Roots(tl, f, n)
<1> DEFINE Bad == {k \in 0..Len(tl) : ~\E f : Roots(tl, f, k)}
<1>0. Len(tl) \in Nat
  BY DEF IsRoom
<1>1. SUFFICES ASSUME Bad # {} PROVE FALSE
  BY <1>0
<1>2. PICK k \in Bad : \A j \in Bad : k <= j
  <2>1. Bad \in SUBSET Nat
    BY <1>0
  <2> HIDE DEF Bad
  <2>2. QED
    BY <1>1, <2>1, LeastNat
<1>3. CASE k = 0
  <2> DEFINE f == [q \in 1..0 |-> 0]
  <2>1. Roots(tl, f, 0)
    BY DEF Roots
  <2>2. QED
    BY <1>2, <1>3, <2>1
<1>4. CASE k # 0
  <2>1. k - 1 \in 0..Len(tl) /\ k \in 1..Len(tl) /\ ~(k - 1 \in Bad)
    BY <1>0, <1>2, <1>4
  <2>2. PICK f : Roots(tl, f, k - 1)
    BY <2>1
  <2> DEFINE g == [q \in 1..k |-> IF q = k THEN RootFrom(tl, f, k) ELSE f[q]]
  <2>3. ASSUME NEW q \in 1..k PROVE RootFrom(tl, g, q) = RootFrom(tl, f, q)
    <3>1. q \in 1..Len(tl)
      BY <1>0, <2>1
    <3>2. CASE tl[q].kind = "message"
      BY <3>2 DEF RootFrom
    <3>3. CASE tl[q].kind # "message"
      <4>1. tl[q].of \in 1..q - 1
        BY <3>1, <3>3, Earlier
      <4>2. tl[q].of \in 1..k /\ tl[q].of # k
        BY <4>1, <2>1
      <4>3. QED
        BY <3>3, <4>2 DEF RootFrom
    <3>4. QED
      BY <3>2, <3>3
  <2>4. ASSUME NEW q \in 1..k PROVE g[q] = RootFrom(tl, f, q)
    <3>1. CASE q = k
      BY <3>1
    <3>2. CASE q # k
      <4>1. q \in 1..k - 1
        BY <2>1, <3>2
      <4>2. f[q] = RootFrom(tl, f, q)
        BY <2>2, <4>1 DEF Roots
      <4>3. QED
        BY <3>2, <4>2
    <3>3. QED
      BY <3>1, <3>2
  <2>5. g = [q \in 1..k |-> g[q]]
    OBVIOUS
  <2> HIDE DEF g
  <2>6. Roots(tl, g, k)
    BY <2>3, <2>4, <2>5 DEF Roots
  <2>7. QED
    BY <1>2, <2>6
<1>5. QED
  BY <1>3, <1>4

LEMMA RootsAgree ==
    ASSUME NEW tl, IsRoom(tl), NEW n \in 0..Len(tl), NEW k \in 0..Len(tl),
           NEW f, NEW g, Roots(tl, f, n), Roots(tl, g, k)
    PROVE  \A m \in 1..n : m <= k => f[m] = g[m]
<1> DEFINE Bad == {q \in 1..n : q <= k /\ f[q] # g[q]}
<1>0. Len(tl) \in Nat /\ n \in Nat /\ k \in Nat
  BY DEF IsRoom
<1>1. SUFFICES ASSUME Bad # {} PROVE FALSE
  BY <1>0
<1>2. PICK q \in Bad : \A j \in Bad : q <= j
  <2>1. Bad \in SUBSET Nat
    BY <1>0
  <2> HIDE DEF Bad
  <2>2. QED
    BY <1>1, <2>1, LeastNat
<1>3. q \in 1..Len(tl) /\ q \in 1..n /\ q \in 1..k /\ f[q] # g[q]
  BY <1>0, <1>2
<1>4. f[q] = RootFrom(tl, f, q) /\ g[q] = RootFrom(tl, g, q)
  BY <1>3 DEF Roots
<1>5. tl[q].kind # "message"
  BY <1>3, <1>4 DEF RootFrom
<1>6. tl[q].of \in 1..q - 1
  BY <1>3, <1>5, Earlier
<1>7. f[tl[q].of] = g[tl[q].of]
  <2>1. ~(tl[q].of \in Bad) /\ tl[q].of \in 1..n /\ tl[q].of <= k
    BY <1>0, <1>2, <1>3, <1>6
  <2>2. QED
    BY <2>1
<1>8. QED
  BY <1>3, <1>4, <1>5, <1>7 DEF RootFrom

\* Any solution on a longer part of the timeline gives the same roots.
LEMMA RootIs ==
    ASSUME NEW tl, IsRoom(tl), NEW n \in 0..Len(tl), NEW f, Roots(tl, f, n), NEW p \in 1..n
    PROVE  RootIn(tl, p) = f[p]
<1>1. p \in 0..Len(tl) /\ p \in 1..p
  BY DEF IsRoom
<1> DEFINE g == CHOOSE h : Roots(tl, h, p)
<1>2. Roots(tl, g, p) /\ RootIn(tl, p) = g[p]
  BY <1>1, RootsExist DEF RootIn
<1> HIDE DEF g
<1>3. \A m \in 1..n : m <= p => f[m] = g[m]
  BY <1>1, <1>2, RootsAgree
<1>4. QED
  BY <1>1, <1>2, <1>3

LEMMA RootRule ==
    ASSUME NEW tl, IsRoom(tl), NEW p \in 1..Len(tl)
    PROVE  RootIn(tl, p) = IF tl[p].kind = "message" THEN p ELSE RootIn(tl, tl[p].of)
<1>1. p \in 0..Len(tl) /\ p \in 1..p
  BY DEF IsRoom
<1>2. PICK f : Roots(tl, f, p)
  BY <1>1, RootsExist
<1>3. RootIn(tl, p) = f[p] /\ f[p] = RootFrom(tl, f, p)
  BY <1>1, <1>2, RootIs DEF Roots
<1>4. CASE tl[p].kind = "message"
  BY <1>3, <1>4 DEF RootFrom
<1>5. CASE tl[p].kind # "message"
  <2>1. tl[p].of \in 1..p
    BY <1>5, Earlier
  <2>2. RootIn(tl, tl[p].of) = f[tl[p].of]
    BY <1>1, <1>2, <2>1, RootIs
  <2>3. QED
    BY <1>3, <1>5, <2>2 DEF RootFrom
<1>6. QED
  BY <1>4, <1>5

\* A new event changes no root.
LEMMA RootKept ==
    ASSUME NEW tl, NEW new, IsRoom(tl), IsRoom(new), Len(tl) <= Len(new),
           \A q \in 1..Len(tl) : new[q] = tl[q], NEW p \in 1..Len(tl)
    PROVE  RootIn(new, p) = RootIn(tl, p)
<1>0. Len(tl) \in Nat /\ Len(new) \in Nat
  BY DEF IsRoom
<1>1. PICK f : Roots(tl, f, p)
  BY <1>0, RootsExist
<1>2. \A q \in 1..p : RootFrom(new, f, q) = RootFrom(tl, f, q)
  BY <1>0 DEF RootFrom
<1>3. Roots(new, f, p)
  BY <1>1, <1>2 DEF Roots
<1>4. RootIn(tl, p) = f[p] /\ RootIn(new, p) = f[p]
  <2>1. p \in 1..p /\ p \in 0..Len(tl) /\ p \in 0..Len(new)
    BY <1>0
  <2>2. RootIn(tl, p) = f[p]
    BY <1>1, <2>1, RootIs
  <2>3. RootIn(new, p) = f[p]
    BY <1>3, <2>1, RootIs
  <2>4. QED
    BY <2>2, <2>3
<1>5. QED
  BY <1>4

-----------------------------------------------------------------------------
(* Chains of edits of edits.  E are the events with edits and next their   *)
(* newest ones; Resolved follows next to its end, which exists because an  *)
(* edit is later than what it edits.                                       *)

EndFrom(E, next, f, o) ==
    IF o \notin E THEN o ELSE IF next[o] \in E THEN f[next[o]] ELSE next[o]

Ends(E, next, f) == f = [o \in Places |-> EndFrom(E, next, f, o)]

LaterEdits(E, next) ==
    E \subseteq Places /\ \A o \in E : next[o] \in Places /\ o < next[o]

\* The ends of the last k places.
LastEnds(E, next, f, k) ==
    /\ f = [o \in Places |-> f[o]]
    /\ \A o \in Places : MaxEvents - k < o => f[o] = EndFrom(E, next, f, o)

LEMMA LastEndsExist ==
    ASSUME NEW E, NEW next, LaterEdits(E, next), NEW n \in 0..MaxEvents
    PROVE  \E f : LastEnds(E, next, f, n)
<1> DEFINE Bad == {k \in 0..MaxEvents : ~\E f : LastEnds(E, next, f, k)}
<1>0. MaxEvents \in Nat
  BY HistoryAssumption
<1>1. SUFFICES ASSUME Bad # {} PROVE FALSE
  BY <1>0
<1>2. PICK k \in Bad : \A j \in Bad : k <= j
  <2>1. Bad \in SUBSET Nat
    BY <1>0
  <2> HIDE DEF Bad
  <2>2. QED
    BY <1>1, <2>1, LeastNat
<1>3. CASE k = 0
  <2> DEFINE f == [o \in Places |-> 0]
  <2>1. LastEnds(E, next, f, 0)
    BY <1>0 DEF LastEnds, Places
  <2>2. QED
    BY <1>2, <1>3, <2>1
<1>4. CASE k # 0
  <2>1. k - 1 \in 0..MaxEvents /\ ~(k - 1 \in Bad) /\ k \in 1..MaxEvents
    BY <1>0, <1>2, <1>4
  <2>2. PICK f : LastEnds(E, next, f, k - 1)
    BY <2>1
  <2> DEFINE first == MaxEvents - k + 1
  <2> DEFINE g == [o \in Places |-> IF o = first THEN EndFrom(E, next, f, first) ELSE f[o]]
  <2>3. ASSUME NEW o \in Places, first <= o PROVE EndFrom(E, next, g, o) = EndFrom(E, next, f, o)
    <3>1. CASE o \in E
      <4>1. next[o] \in Places /\ o < next[o]
        BY <3>1 DEF LaterEdits
      <4>2. next[o] # first
        BY <1>0, <2>1, <2>3, <4>1 DEF Places
      <4>3. g[next[o]] = f[next[o]]
        BY <4>1, <4>2
      <4>4. QED
        BY <4>3 DEF EndFrom
    <3>2. CASE o \notin E
      BY <3>2 DEF EndFrom
    <3>3. QED
      BY <3>1, <3>2
  <2>4. ASSUME NEW o \in Places, MaxEvents - k < o PROVE g[o] = EndFrom(E, next, f, o)
    <3>1. CASE o = first
      BY <3>1
    <3>2. CASE o # first
      <4>1. MaxEvents - (k - 1) < o
        BY <1>0, <2>1, <2>4, <3>2 DEF Places
      <4>2. QED
        BY <2>2, <3>2, <4>1 DEF LastEnds
    <3>3. QED
      BY <3>1, <3>2
  <2>5. g = [o \in Places |-> g[o]]
    OBVIOUS
  <2>6. \A o \in Places : MaxEvents - k < o => first <= o
    BY <1>0, <2>1 DEF Places
  <2> HIDE DEF g, first
  <2>7. LastEnds(E, next, g, k)
    BY <2>3, <2>4, <2>5, <2>6 DEF LastEnds
  <2>8. QED
    BY <1>2, <2>7
<1>5. QED
  BY <1>3, <1>4

LEMMA EndsExist ==
    ASSUME NEW E, NEW next, LaterEdits(E, next)
    PROVE  \E f : Ends(E, next, f)
<1>1. MaxEvents \in 0..MaxEvents /\ \A o \in Places : MaxEvents - MaxEvents < o
  BY HistoryAssumption DEF Places
<1>2. PICK f : LastEnds(E, next, f, MaxEvents)
  BY <1>1, LastEndsExist
<1>3. Ends(E, next, f)
  BY <1>1, <1>2 DEF LastEnds, Ends
<1>4. QED
  BY <1>3

\* Every chain ends in a newest edit, and within one message if each link does.
LEMMA EndIsEdit ==
    ASSUME NEW E, NEW next, NEW f, NEW root, LaterEdits(E, next), Ends(E, next, f),
           \A o \in E : root[next[o]] = root[o]
    PROVE  \A o \in E : \E x \in E : f[o] = next[x] /\ root[f[o]] = root[o]
<1> DEFINE Good(o) == \E x \in E : f[o] = next[x] /\ root[f[o]] = root[o]
<1> DEFINE Bad == {o \in E : ~Good(o)}
<1>0. MaxEvents \in Nat /\ E \subseteq Places
  BY HistoryAssumption DEF LaterEdits
<1>1. SUFFICES ASSUME Bad # {} PROVE FALSE
  OBVIOUS
<1>2. PICK o \in Bad : \A x \in Bad : x <= o
  <2>a. \A x \in E : x \in Nat /\ x <= MaxEvents
    BY <1>0 DEF Places
  <2>b. \A x \in Bad : x \in E
    BY Zenon
  <2> HIDE DEF Bad
  <2>1. Bad \in SUBSET Nat /\ \A x \in Bad : x <= MaxEvents
    BY <2>a, <2>b
  <2>2. QED
    BY <1>0, <1>1, <2>1, GreatestNat
<1>3. o \in E /\ o \in Places /\ next[o] \in Places /\ o < next[o] /\ root[next[o]] = root[o]
  BY <1>0, <1>2 DEF LaterEdits
<1>4. f[o] = IF next[o] \in E THEN f[next[o]] ELSE next[o]
  <2>1. f[o] = EndFrom(E, next, f, o)
    BY <1>3 DEF Ends
  <2>2. QED
    BY <1>3, <2>1 DEF EndFrom
<1>5. CASE next[o] \in E
  <2>1. ~(next[o] \in Bad)
    BY <1>2, <1>3 DEF Places
  <2>2. Good(next[o])
    BY <1>5, <2>1
  <2>3. f[o] = f[next[o]]
    BY <1>4, <1>5
  <2>4. Good(o)
    BY <1>3, <2>2, <2>3
  <2>5. QED
    BY <1>2, <2>4
<1>6. CASE next[o] \notin E
  <2>1. f[o] = next[o]
    BY <1>4, <1>6
  <2>2. Good(o)
    BY <1>3, <2>1
  <2>3. QED
    BY <1>2, <2>2
<1>7. QED
  BY <1>5, <1>6

\* The end of a chain has no newer edit.
LEMMA EndIsLast ==
    ASSUME NEW E, NEW next, NEW f, LaterEdits(E, next), Ends(E, next, f)
    PROVE  \A o \in Places : f[o] \notin E
<1> DEFINE Bad == {o \in Places : f[o] \in E}
<1>0. MaxEvents \in Nat /\ E \subseteq Places
  BY HistoryAssumption DEF LaterEdits
<1>1. SUFFICES ASSUME Bad # {} PROVE FALSE
  OBVIOUS
<1>2. PICK o \in Bad : \A x \in Bad : x <= o
  <2>1. Bad \in SUBSET Nat /\ \A x \in Bad : x <= MaxEvents
    BY <1>0 DEF Places
  <2> HIDE DEF Bad
  <2>2. QED
    BY <1>0, <1>1, <2>1, GreatestNat
<1>3. o \in Places /\ f[o] \in E /\ f[o] = EndFrom(E, next, f, o)
  BY <1>2 DEF Ends
<1>4. o \in E /\ next[o] \in E /\ f[o] = f[next[o]]
  BY <1>3 DEF EndFrom
<1>5. next[o] \in Places /\ o < next[o]
  BY <1>4 DEF LaterEdits
<1>6. next[o] \in Bad
  BY <1>3, <1>4, <1>5
<1>7. QED
  BY <1>2, <1>5, <1>6 DEF Places

\* Two ways to follow edits that agree on a set which they do not leave.
LEMMA EndsAgree ==
    ASSUME NEW E, NEW next, NEW f, LaterEdits(E, next), Ends(E, next, f),
           NEW D, NEW step, NEW g, LaterEdits(D, step), Ends(D, step, g),
           NEW Q \in SUBSET Places,
           \A o \in Q : (o \in E <=> o \in D) /\ (o \in E => next[o] = step[o] /\ next[o] \in Q)
    PROVE  \A o \in Q : f[o] = g[o]
<1> DEFINE Bad == {o \in Q : f[o] # g[o]}
<1>0. MaxEvents \in Nat
  BY HistoryAssumption
<1>1. SUFFICES ASSUME Bad # {} PROVE FALSE
  OBVIOUS
<1>2. PICK o \in Bad : \A x \in Bad : x <= o
  <2>a. \A x \in Places : x \in Nat /\ x <= MaxEvents
    BY <1>0 DEF Places
  <2>b. \A x \in Bad : x \in Places
    OBVIOUS
  <2>1. Bad \in SUBSET Nat /\ \A x \in Bad : x <= MaxEvents
    <3> HIDE DEF Bad
    <3>1. QED
      BY <2>a, <2>b
  <2> HIDE DEF Bad
  <2>2. QED
    BY <1>0, <1>1, <2>1, GreatestNat
<1>3. /\ o \in Q /\ o \in Places /\ f[o] # g[o]
      /\ f[o] = EndFrom(E, next, f, o) /\ g[o] = EndFrom(D, step, g, o)
  BY <1>2 DEF Ends
<1>4. /\ o \in E /\ o \in D /\ next[o] = step[o] /\ next[o] \in Q
      /\ f[next[o]] # g[next[o]]
  BY <1>3 DEF EndFrom
<1>5. next[o] \in Places /\ o < next[o]
  BY <1>4 DEF LaterEdits
<1>6. next[o] \in Bad
  BY <1>4
<1>7. QED
  BY <1>2, <1>3, <1>5, <1>6 DEF Places

-----------------------------------------------------------------------------
(* The table and what a reconciliation is about to write to it.            *)

\* The text t belongs to the message that the event p belongs to.
OfMessage(t, p) == t \in 1..Len(timeline) /\ RootIn(timeline, t) = RootIn(timeline, p)

\* An edit of p is in the room.
Edited(p) == \E e \in DOMAIN timeline : timeline[e].kind = "edit" /\ timeline[e].of = p

RowOK(p) ==
    /\ p \in 1..Len(timeline) /\ Kind(p) # "redact"
    /\ rows[p] \in Row /\ (rows[p].text = 0 \/ OfMessage(rows[p].text, p))
    /\ rows[p].text \in {0, p} \/ Edited(p)
    /\ rows[p].direction = "edit" => rows[p].text # 0
    /\ rows[p].direction = "forward" => rows[p].editOf = 0
    /\ rows[p].direction = "edit" => Kind(p) = "edit" /\ rows[p].editOf = timeline[p].of

\* A plan changes a text to one of the same message, and deletes edits only.
PlanOK(do) ==
    /\ \A o \in DOMAIN do.text : o \in 1..Len(timeline) /\ OfMessage(do.text[o], o) /\ Edited(o)
    /\ \A e \in do.delete : e \in 1..Len(timeline) /\ Kind(e) = "edit"

TableInv ==
    /\ Len(timeline) <= MaxEvents
    /\ \A p \in DOMAIN rows : RowOK(p)
    /\ plan = [b \in Tasks |-> plan[b]] /\ \A b \in Tasks : PlanOK(plan[b])

LEMMA LatestEditIsLater ==
    ASSUME RoomInv, TableInv, NEW o \in Originals
    PROVE  /\ o \in Places /\ LatestEdit(o) \in Edits /\ LatestEdit(o) \in Places
           /\ o < LatestEdit(o) /\ RootIn(timeline, LatestEdit(o)) = RootIn(timeline, o)
           /\ Edited(o)
<1> DEFINE S == {e \in Edits : rows[e].editOf = o}
<1>0. Len(timeline) \in Nat /\ Len(timeline) <= MaxEvents /\ MaxEvents \in Nat /\ IsRoom(timeline)
  BY HistoryAssumption DEF RoomInv, TableInv, IsRoom, Kind
<1>1. \A e \in Edits : e \in 1..Len(timeline) /\ Kind(e) = "edit" /\ rows[e].editOf = timeline[e].of
  BY DEF Edits, TableInv, RowOK
<1>2. S \in SUBSET Nat /\ S # {} /\ \A e \in S : e <= Len(timeline)
  BY <1>0, <1>1 DEF Originals
<1>3. Newest(S) \in S
  <2> HIDE DEF S
  <2>1. QED
    BY <1>0, <1>2, NewestIsIn
<1>4. LatestEdit(o) \in Edits /\ rows[LatestEdit(o)].editOf = o
  BY <1>3 DEF LatestEdit
<1> DEFINE e == LatestEdit(o)
<1>5. e \in 1..Len(timeline) /\ timeline[e].kind = "edit" /\ timeline[e].of = o
  BY <1>1, <1>4 DEF Kind
<1>6. o \in 1..e - 1
  BY <1>0, <1>5, Earlier
<1>7. RootIn(timeline, e) = RootIn(timeline, o)
  BY <1>0, <1>5, RootRule
<1>8. Edited(o)
  BY <1>0, <1>5 DEF Edited, IsRoom
<1>9. QED
  BY <1>0, <1>4, <1>5, <1>6, <1>7, <1>8 DEF Places

NewestEdits == [o \in Originals |-> LatestEdit(o)]

LEMMA ResolvedIs ==
    ASSUME RoomInv, TableInv
    PROVE  /\ LaterEdits(Originals, NewestEdits)
           /\ \E end : Ends(Originals, NewestEdits, end) /\ Resolved = [o \in Originals |-> rows[end[o]].text]
<1> DEFINE Follows(f) == f = [o \in Places |-> IF o \notin Originals THEN o
                                               ELSE IF LatestEdit(o) \in Originals
                                                    THEN f[LatestEdit(o)] ELSE LatestEdit(o)]
<1> DEFINE end == CHOOSE f : Follows(f)
<1>1. LaterEdits(Originals, NewestEdits)
  BY LatestEditIsLater DEF LaterEdits, NewestEdits
<1>2. Ends(Originals, NewestEdits, end)
  <2>1. \A f : Ends(Originals, NewestEdits, f) <=> Follows(f)
    BY DEF Ends, EndFrom, NewestEdits
  <2>2. \E f : Ends(Originals, NewestEdits, f)
    BY <1>1, EndsExist
  <2> HIDE DEF Follows
  <2>3. QED
    BY <2>1, <2>2
<1>3. Resolved = [o \in Originals |-> rows[end[o]].text]
  BY DEF Resolved
<1> HIDE DEF end
<1>4. QED
  BY <1>1, <1>2, <1>3

\* What reconcile_edits() reads is a plan within each message.
LEMMA PlanOfEdits ==
    ASSUME RoomInv, TableInv
    PROVE  PlanOK(EditPlan)
<1> DEFINE root == [p \in Places |-> RootIn(timeline, p)]
<1>1. LaterEdits(Originals, NewestEdits)
  BY ResolvedIs
<1>2. \A o \in Originals : root[NewestEdits[o]] = root[o]
  BY LatestEditIsLater DEF NewestEdits
<1>3. PICK end : Ends(Originals, NewestEdits, end) /\ Resolved = [o \in Originals |-> rows[end[o]].text]
  BY ResolvedIs
<1>4. Resolved = [o \in Originals |-> rows[end[o]].text]
  BY <1>3
<1>5. \A o \in Originals : \E x \in Originals : end[o] = NewestEdits[x] /\ root[end[o]] = root[o]
  <2> HIDE DEF root
  <2>1. QED
    BY <1>1, <1>2, <1>3, EndIsEdit
<1>6. ASSUME NEW o \in Originals PROVE OfMessage(Resolved[o], o)
  <2>1. PICK x \in Originals : end[o] = LatestEdit(x) /\ root[end[o]] = root[o]
    BY <1>5 DEF NewestEdits
  <2>2. end[o] \in DOMAIN rows /\ end[o] \in Places /\ o \in Places
    BY <2>1, LatestEditIsLater DEF Edits
  <2>3. OfMessage(rows[end[o]].text, end[o]) /\ RootIn(timeline, end[o]) = RootIn(timeline, o)
    <3>1. end[o] \in Edits /\ RowOK(end[o])
      BY <2>1, <2>2, LatestEditIsLater DEF TableInv
    <3>2. OfMessage(rows[end[o]].text, end[o])
      BY <3>1 DEF Edits, RowOK
    <3>3. QED
      BY <2>1, <2>2, <3>2
  <2>4. QED
    BY <1>4, <2>3 DEF OfMessage
<1>7. \A o \in DOMAIN EditPlan.text : o \in Originals /\ o \in DOMAIN rows /\ EditPlan.text[o] = Resolved[o]
  BY DEF EditPlan
<1>8. \A e \in EditPlan.delete : \E o \in Originals : e = LatestEdit(o)
  BY DEF EditPlan
<1>9. \A e \in Edits : e \in 1..Len(timeline) /\ Kind(e) = "edit"
  BY DEF Edits, TableInv, RowOK
<1>10. \A p \in DOMAIN rows : p \in 1..Len(timeline)
  BY DEF TableInv, RowOK
<1>11. QED
  BY <1>6, <1>7, <1>8, <1>9, <1>10, LatestEditIsLater DEF PlanOK

\* What each transaction leaves in a row.
LEMMA PlaceholderRow ==
    ASSUME RoomInv, TableInv, timeline' = timeline, NEW p \in 1..Len(timeline),
           Kind(p) # "redact", rows' = SavePlaceholder(p)
    PROVE  \A q \in DOMAIN rows' : RowOK(q)'
<1>1. DOMAIN rows' = DOMAIN rows \cup {p}
  BY IdsOfRows
<1>2. \A q \in DOMAIN rows : q # p => rows'[q] = rows[q]
  BY DEF SavePlaceholder
<1>3. rows'[p] = [direction |-> "forward", editOf |-> 0, text |-> 0]
  BY DEF SavePlaceholder
<1>4. rows'[p] \in Row
  BY <1>3, HistoryAssumption DEF Row
<1>5. RowOK(p)'
  BY <1>3, <1>4 DEF RowOK, OfMessage, Kind, Edited
<1>6. \A q \in DOMAIN rows : q # p => RowOK(q)'
  BY <1>2 DEF TableInv, RowOK, OfMessage, Kind, Edited
<1>7. QED
  BY <1>1, <1>5, <1>6

LEMMA SavedRow ==
    ASSUME RoomInv, TableInv, timeline' = timeline, NEW p \in 1..Len(timeline),
           Kind(p) # "redact", rows' = SaveMessage(p)
    PROVE  \A q \in DOMAIN rows' : RowOK(q)'
<1>0. /\ Len(timeline) \in Nat /\ Len(timeline) <= MaxEvents /\ MaxEvents \in Nat
      /\ timeline[p] \in Happening
  BY HistoryAssumption DEF RoomInv, TableInv
<1>1. DOMAIN rows' = DOMAIN rows \cup {p}
  BY IdsOfRows
<1>2. \A q \in DOMAIN rows : q # p => rows'[q] = rows[q]
  BY DEF SaveMessage
<1>3. rows'[p] = [direction |-> IF Kind(p) = "edit" THEN "edit" ELSE "forward",
                  editOf |-> IF Kind(p) = "edit" THEN timeline[p].of ELSE 0, text |-> p]
  BY DEF SaveMessage
<1>4. rows'[p] \in Row
  BY <1>0, <1>3 DEF Row, Happening, Places
<1>5. RowOK(p)'
  BY <1>3, <1>4 DEF RowOK, OfMessage, Kind, Edited
<1>6. \A q \in DOMAIN rows : q # p => RowOK(q)'
  BY <1>2 DEF TableInv, RowOK, OfMessage, Kind, Edited
<1>7. QED
  BY <1>1, <1>5, <1>6

LEMMA RowWithText ==
    ASSUME TableInv, timeline' = timeline, NEW p \in DOMAIN rows, NEW t, OfMessage(t, p), Edited(p),
           rows'[p] = [rows[p] EXCEPT !.text = t]
    PROVE  RowOK(p)'
<1>0. Len(timeline) <= MaxEvents /\ t \in 1..Len(timeline) /\ RowOK(p)
  BY DEF TableInv, OfMessage
<1>1. rows[p] \in Row
  BY <1>0 DEF RowOK
<1>2. t \in Places
  BY <1>0, HistoryAssumption DEF Places
<1>3. /\ rows'[p] \in Row /\ rows'[p].text = t
      /\ rows'[p].direction = rows[p].direction /\ rows'[p].editOf = rows[p].editOf
  BY <1>1, <1>2 DEF Row, Places
<1>4. t # 0
  BY <1>2 DEF Places
<1>5. QED
  BY <1>0, <1>3, <1>4 DEF RowOK, OfMessage, Kind, Edited

LEMMA EditedRow ==
    ASSUME RoomInv, TableInv, timeline' = timeline, NEW t \in 1..Len(timeline), Kind(t) = "edit",
           rows' = UpdateMessageText(timeline[t].of, t)
    PROVE  \A q \in DOMAIN rows' : RowOK(q)'
<1>0. IsRoom(timeline)
  BY DEF RoomInv, IsRoom, Kind
<1>1. OfMessage(t, timeline[t].of) /\ Edited(timeline[t].of)
  BY <1>0, RootRule DEF OfMessage, Kind, Edited, IsRoom
<1>2. ASSUME NEW q \in DOMAIN rows' PROVE RowOK(q)'
  <2>1. q \in DOMAIN rows
    BY <1>2, IdsOfRows
  <2>2. CASE q = timeline[t].of
    <3>1. rows'[q] = [rows[q] EXCEPT !.text = t]
      BY <2>1, <2>2 DEF UpdateMessageText
    <3>2. QED
      BY <1>1, <2>1, <2>2, <3>1, RowWithText
  <2>3. CASE q # timeline[t].of
    <3>1. rows'[q] = rows[q]
      BY <2>1, <2>3 DEF UpdateMessageText
    <3>2. QED
      BY <2>1, <3>1 DEF TableInv, RowOK, OfMessage, Kind, Edited
  <2>4. QED
    BY <2>2, <2>3
<1>3. QED
  BY <1>2

LEMMA ReconciledRow ==
    ASSUME TableInv, timeline' = timeline, NEW do, PlanOK(do), rows' = Reconciled(do)
    PROVE  \A q \in DOMAIN rows' : RowOK(q)'
<1>1. ASSUME NEW q \in DOMAIN rows' PROVE RowOK(q)'
  <2> DEFINE r == IF q \in DOMAIN do.text THEN [rows[q] EXCEPT !.text = do.text[q]] ELSE rows[q]
  <2>1. q \in DOMAIN rows /\ RowOK(q) /\ rows[q] \in Row
    BY <1>1, IdsOfRows DEF TableInv, RowOK
  <2>2. rows'[q] = IF q \in do.promote THEN [r EXCEPT !.direction = "forward", !.editOf = 0] ELSE r
    BY <1>1, IdsOfRows DEF Reconciled
  <2>3. /\ r \in Row /\ (r.text = 0 \/ OfMessage(r.text, q)) /\ (r.text \in {0, q} \/ Edited(q))
        /\ r.direction = "edit" => r.text # 0
        /\ r.direction = rows[q].direction /\ r.editOf = rows[q].editOf
    <3>1. CASE q \in DOMAIN do.text
      <4>1. OfMessage(do.text[q], q) /\ Edited(q)
        BY <3>1 DEF PlanOK
      <4>2. do.text[q] \in 1..MaxEvents
        BY <4>1, HistoryAssumption DEF OfMessage, TableInv
      <4>3. QED
        BY <2>1, <3>1, <4>1, <4>2 DEF Row
    <3>2. CASE q \notin DOMAIN do.text
      BY <2>1, <3>2 DEF RowOK
    <3>3. QED
      BY <3>1, <3>2
  <2> HIDE DEF r
  <2>4. CASE q \in do.promote
    <3>1. /\ rows'[q] \in Row /\ rows'[q].text = r.text
          /\ rows'[q].direction = "forward" /\ rows'[q].editOf = 0
      <4>1. r = [direction |-> r.direction, editOf |-> r.editOf, text |-> r.text] /\ r.text \in 0..MaxEvents
        BY <2>3 DEF Row
      <4>2. rows'[q] = [r EXCEPT !.direction = "forward", !.editOf = 0]
        BY <2>2, <2>4
      <4>3. rows'[q] = [direction |-> "forward", editOf |-> 0, text |-> r.text]
        BY <4>1, <4>2
      <4>4. 0 \in 0..MaxEvents
        BY HistoryAssumption
      <4>5. QED
        BY <4>1, <4>3, <4>4 DEF Row
    <3>2. QED
      BY <2>1, <2>3, <3>1 DEF RowOK, OfMessage, Kind, Edited
  <2>5. CASE q \notin do.promote
    <3>1. rows'[q] = r
      BY <2>2, <2>5
    <3>2. QED
      BY <2>1, <2>3, <3>1 DEF RowOK, OfMessage, Kind, Edited
  <2>6. QED
    BY <2>4, <2>5
<1>2. QED
  BY <1>1

\* The rows that are left are as they were.
LEMMA FewerRows ==
    ASSUME TableInv, timeline' = timeline, DOMAIN rows' \subseteq DOMAIN rows,
           \A q \in DOMAIN rows' : rows'[q] = rows[q]
    PROVE  \A q \in DOMAIN rows' : RowOK(q)'
BY DEF TableInv, RowOK, OfMessage, Kind, Edited

LEMMA TableStep ==
    ASSUME RoomInv, RoomInv', LookInv, TableInv, [Next]_vars
    PROVE  TableInv'
<1>0. /\ Len(timeline) \in Nat /\ Len(timeline) <= MaxEvents /\ MaxEvents \in Nat
      /\ live \in 0..Len(timeline)
      /\ \A p \in DOMAIN rows : RowOK(p)
      /\ plan = [b \in Tasks |-> plan[b]] /\ \A b \in Tasks : PlanOK(plan[b])
  BY HistoryAssumption DEF RoomInv, TableInv
<1>1. \A do : timeline' = timeline => (PlanOK(do)' <=> PlanOK(do))
  BY DEF PlanOK, OfMessage, Kind, Edited
<1>2. PlanOK(NoPlan) /\ (timeline' = timeline => PlanOK(NoPlan)')
  BY DEF PlanOK, NoPlan
<1>3. ASSUME timeline' = timeline, \A p \in DOMAIN rows' : RowOK(p)',
             \/ plan' = plan
             \/ \E b \in Tasks : \E do : PlanOK(do) /\ plan' = [plan EXCEPT ![b] = do]
             \/ plan' = [b \in Tasks |-> NoPlan]
      PROVE  TableInv'
  <2>1. plan' = [b \in Tasks |-> plan'[b]] /\ \A b \in Tasks : PlanOK(plan'[b])
    BY <1>0, <1>2, <1>3
  <2>2. \A b \in Tasks : PlanOK(plan[b])'
    BY <2>1, <1>3 DEF PlanOK, OfMessage, Kind, Edited
  <2>3. QED
    BY <1>0, <1>3, <2>1, <2>2 DEF TableInv
<1>4. CASE Post
  <2>1. PICK e : timeline' = Append(timeline, e)
    BY <1>4 DEF Post
  <2>2. /\ Len(timeline) < MaxEvents /\ UNCHANGED <<rows, plan>>
    BY <1>4 DEF Post, tasks
  <2>3. Len(timeline') = Len(timeline) + 1 /\ \A p \in 1..Len(timeline) : timeline'[p] = timeline[p]
    BY <2>1 DEF RoomInv
  <2>4. IsRoom(timeline) /\ IsRoom(timeline')
    BY DEF RoomInv, IsRoom, Kind
  <2>5. \A p \in 1..Len(timeline) : RootIn(timeline', p) = RootIn(timeline, p) /\ p \in 1..Len(timeline')
    BY <1>0, <2>3, <2>4, RootKept
  <2>6. /\ \A t, p : p \in 1..Len(timeline) /\ OfMessage(t, p) => OfMessage(t, p)'
        /\ \A p : Edited(p) => Edited(p)'
    <3>1. DOMAIN timeline = 1..Len(timeline) /\ DOMAIN timeline' = 1..Len(timeline')
      BY DEF RoomInv
    <3>2. QED
      BY <2>3, <2>5, <3>1 DEF OfMessage, Edited
  <2>7. \A p \in DOMAIN rows' : RowOK(p)'
    BY <1>0, <2>2, <2>3, <2>5, <2>6 DEF RowOK, Kind
  <2>8. \A b \in Tasks : PlanOK(plan[b])'
    <3> SUFFICES ASSUME NEW b \in Tasks PROVE PlanOK(plan[b])'
      OBVIOUS
    <3>1. PlanOK(plan[b]) /\ plan' = plan
      BY <1>0, <2>2
    <3>2. QED
      BY <3>1, <2>3, <2>5, <2>6 DEF PlanOK, Kind
  <2>9. Len(timeline') <= MaxEvents
    BY <1>0, <2>2, <2>3
  <2>10. QED
    BY <1>0, <2>2, <2>7, <2>8, <2>9 DEF TableInv
<1>5. CASE LiveMessage
  <2>1. /\ live < Len(timeline) /\ Kind(live + 1) = "message" /\ rows' = SaveMessage(live + 1)
        /\ UNCHANGED <<timeline, plan>>
    BY <1>5 DEF LiveMessage, Live, tasks
  <2>2. \A p \in DOMAIN rows' : RowOK(p)'
    <3>1. live + 1 \in 1..Len(timeline) /\ Kind(live + 1) # "redact"
      BY <1>0, <2>1
    <3>2. QED
      BY <2>1, <3>1, SavedRow
  <2>3. QED
    BY <1>3, <2>1, <2>2
<1>6. CASE LiveEdit
  <2>1. /\ live < Len(timeline) /\ Kind(live + 1) = "edit"
        /\ rows' = UpdateMessageText(timeline[live + 1].of, live + 1) /\ UNCHANGED <<timeline, plan>>
    BY <1>6 DEF LiveEdit, Live, tasks
  <2>2. live + 1 \in 1..Len(timeline)
    BY <1>0, <2>1
  <2>3. QED
    BY <1>3, <2>1, <2>2, EditedRow
<1>7. CASE LiveRedact
  <2>1. PICK p : rows' = DeleteMessages({p}) /\ UNCHANGED <<timeline, plan>>
    BY <1>7 DEF LiveRedact, tasks
  <2>2. DOMAIN rows' \subseteq DOMAIN rows /\ \A q \in DOMAIN rows' : rows'[q] = rows[q]
    BY <2>1, IdsOfRows DEF DeleteMessages
  <2>3. QED
    BY <1>3, <2>1, <2>2, FewerRows
<1>8. CASE UNCHANGED <<timeline, rows>> /\ (UNCHANGED plan \/ Restart \/ \E b \in Tasks : ReconcileReads(b))
  <2>1. \A p \in DOMAIN rows' : RowOK(p)'
    BY <1>8, FewerRows
  <2>2. plan' = plan \/ plan' = [b \in Tasks |-> NoPlan]
            \/ \E b \in Tasks : plan' = [plan EXCEPT ![b] = EditPlan]
    BY <1>8 DEF Restart, ReconcileReads
  <2>3. PlanOK(EditPlan)
    BY PlanOfEdits
  <2>4. QED
    BY <1>3, <1>8, <2>1, <2>2, <2>3
<1>9. ASSUME NEW b \in Tasks, Clear(b) PROVE TableInv'
  <2>1. rows' = <<>> /\ DOMAIN rows' = {} /\ UNCHANGED <<timeline, plan>>
    BY <1>9 DEF Clear
  <2>2. QED
    BY <1>3, <2>1
<1>10. ASSUME NEW b \in Tasks, Take(b) PROVE TableInv'
  <2>1. PICK p \in page[b] : \/ rows' = rows
                             \/ Kind(p) # "redact" /\ rows' = SaveMessage(p)
    BY <1>10 DEF Take
  <2>2. UNCHANGED <<timeline, plan>>
    BY <1>10 DEF Take
  <2>3. p \in 1..Len(timeline)
    BY DEF LookInv
  <2>4. CASE rows' = rows
    <3>1. \A q \in DOMAIN rows' : RowOK(q)'
      BY <2>2, <2>4, FewerRows
    <3>2. QED
      BY <1>3, <2>2, <3>1
  <2>5. CASE Kind(p) # "redact" /\ rows' = SaveMessage(p)
    <3>1. \A q \in DOMAIN rows' : RowOK(q)'
      BY <2>2, <2>3, <2>5, SavedRow
    <3>2. QED
      BY <1>3, <2>2, <3>1
  <2>6. QED
    BY <2>1, <2>4, <2>5
<1>11. ASSUME NEW b \in Tasks, ApplyRedactions(b) PROVE TableInv'
  <2>1. rows' = DeleteMessages(redacted[b]) /\ UNCHANGED <<timeline, plan>>
    BY <1>11 DEF ApplyRedactions
  <2>2. DOMAIN rows' \subseteq DOMAIN rows /\ \A q \in DOMAIN rows' : rows'[q] = rows[q]
    BY <2>1, IdsOfRows DEF DeleteMessages
  <2>3. QED
    BY <1>3, <2>1, <2>2, FewerRows
<1>12. ASSUME NEW b \in Tasks, ReconcileWrites(b) PROVE TableInv'
  <2>1. rows' = Reconciled(plan[b]) /\ timeline' = timeline /\ plan' = [plan EXCEPT ![b] = NoPlan]
    BY <1>12 DEF ReconcileWrites
  <2>2. PlanOK(plan[b])
    BY <1>0
  <2>3. \A q \in DOMAIN rows' : RowOK(q)'
    BY <2>1, <2>2, ReconciledRow
  <2>4. QED
    BY <1>2, <1>3, <2>1, <2>3
<1>13. CASE LivePlaceholder
  <2>1. /\ live < Len(timeline) /\ Kind(live + 1) # "redact" /\ rows' = SavePlaceholder(live + 1)
        /\ UNCHANGED <<timeline, plan>>
    BY <1>13 DEF LivePlaceholder, Live, tasks
  <2>2. live + 1 \in 1..Len(timeline)
    BY <1>0, <2>1
  <2>3. QED
    BY <1>3, <2>1, <2>2, PlaceholderRow
<1>14. ASSUME NEW p \in waiting, LateMessage(p) \/ LateEdit(p) PROVE TableInv'
  <2>1. p \in 1..Len(timeline) /\ UNCHANGED <<timeline, plan>>
    BY <1>0, <1>14 DEF LateMessage, LateEdit, tasks, RoomInv
  <2>2. CASE LateMessage(p)
    BY <1>3, <2>1, <2>2, SavedRow DEF LateMessage
  <2>3. CASE LateEdit(p)
    BY <1>3, <2>1, <2>3, EditedRow DEF LateEdit
  <2>4. QED
    BY <1>14, <2>2, <2>3
<1>15. QED
  BY <1>4, <1>5, <1>6, <1>7, <1>8, <1>9, <1>10, <1>11, <1>12, <1>13, <1>14
     DEF Next, Environment, Backfill, LiveMisses, Restart, Look, Fetch, FetchRefused, FetchRaises,
         TakeUndecryptable, CutOff, EndPage, ReconcileReads, Finish, vars, tasks

LEMMA TableInvHolds == Spec => []TableInv
<1>1. Init => TableInv
  BY HistoryAssumption DEF Init, TableInv, PlanOK, NoPlan
<1>2. QED
  BY <1>1, TableStep, RoomInvHolds, LookInvHolds, PTL DEF Spec

\* No text ends up in the row of another message, however long the chains of edits of edits
\* are that a reconciliation folds, and whatever lies between its reading and its writing.
THEOREM TextsStayInTheirMessage == Spec => []OwnText
<1>1. TableInv => OwnText
  BY RootOfTimeline DEF TableInv, RowOK, OfMessage, OwnText
<1>2. QED
  BY <1>1, TableInvHolds, PTL

-----------------------------------------------------------------------------
(* Types.                                                                  *)

RestInv ==
    /\ existing \in [Tasks -> SUBSET Places] /\ redacted \in [Tasks -> SUBSET Places]
    /\ erased \subseteq Places
    /\ reached \in [Tasks -> 0..Len(timeline)] /\ calm \in [Tasks -> BOOLEAN]

LEMMA RestStep ==
    ASSUME RoomInv, RoomInv', LookInv, TableInv, RestInv, [Next]_vars
    PROVE  RestInv'
<1>0. /\ existing \in [Tasks -> SUBSET Places] /\ redacted \in [Tasks -> SUBSET Places]
      /\ erased \subseteq Places
      /\ reached \in [Tasks -> 0..Len(timeline)] /\ calm \in [Tasks -> BOOLEAN]
      /\ Len(timeline) \in Nat /\ Len(timeline) <= MaxEvents /\ MaxEvents \in Nat
      /\ live \in 0..Len(timeline)
  BY HistoryAssumption DEF RestInv, RoomInv, TableInv
<1>1. ASSUME NEW p \in 1..Len(timeline) PROVE p \in Places /\ timeline[p].of \in Places
  <2>1. timeline[p] \in Happening
    BY DEF RoomInv
  <2>2. QED
    BY <1>0, <2>1 DEF Places, Happening
<1>2. DOMAIN rows \subseteq Places
  BY <1>1 DEF TableInv, RowOK
<1>3. \A b \in Tasks : [c \in Tasks |-> calm[c] /\ c = b] \in [Tasks -> BOOLEAN]
  OBVIOUS
<1>4. CASE Post
  <2>1. PICK e : timeline' = Append(timeline, e)
    BY <1>4 DEF Post
  <2>2. Len(timeline') = Len(timeline) + 1
    BY <2>1 DEF RoomInv
  <2>3. reached \in [Tasks -> 0..Len(timeline')]
    BY <1>0, <2>2
  <2>4. calm' \in [Tasks -> BOOLEAN] /\ UNCHANGED <<existing, redacted, erased, reached>>
    BY <1>4 DEF Post, tasks, DisturbAll
  <2>5. QED
    BY <1>0, <2>3, <2>4 DEF RestInv
<1>5. CASE \/ LiveMessage \/ LiveEdit \/ LiveMisses \/ LivePlaceholder
           \/ \E p \in waiting : LateMessage(p) \/ LateEdit(p)
  <2>1. calm' \in [Tasks -> BOOLEAN] /\ UNCHANGED <<timeline, existing, redacted, erased, reached>>
    BY <1>5 DEF LiveMessage, LiveEdit, LiveMisses, LivePlaceholder, LateMessage, LateEdit,
                DisturbAll, tasks
  <2>2. QED
    BY <1>0, <2>1 DEF RestInv
<1>6. CASE LiveRedact
  <2>1. /\ calm' \in [Tasks -> BOOLEAN] /\ UNCHANGED <<timeline, existing, redacted, reached>>
        /\ erased' \in {erased, erased \cup {timeline[live + 1].of}} /\ live < Len(timeline)
    BY <1>6 DEF LiveRedact, DisturbAll, tasks, Live
  <2>2. live + 1 \in 1..Len(timeline)
    BY <1>0, <2>1
  <2>3. QED
    BY <1>0, <1>1, <2>1, <2>2 DEF RestInv
<1>7. CASE Restart
  <2>1. /\ existing' = [b \in Tasks |-> {}] /\ redacted' = [b \in Tasks |-> {}]
        /\ reached' = [b \in Tasks |-> 0] /\ calm' \in [Tasks -> BOOLEAN]
        /\ UNCHANGED <<timeline, erased>>
    BY <1>7 DEF Restart, DisturbAll
  <2>2. QED
    BY <1>0, <2>1 DEF RestInv
<1>8. ASSUME NEW b \in Tasks, Clear(b) PROVE RestInv'
  <2>1. /\ reached' = [c \in Tasks |-> 0] /\ UNCHANGED <<timeline, existing, redacted, erased>>
    BY <1>8 DEF Clear
  <2>2. calm' \in [Tasks -> BOOLEAN]
    BY <1>8 DEF Clear, Disturb
  <2>3. QED
    BY <1>0, <2>1, <2>2 DEF RestInv
<1>9. ASSUME NEW b \in Tasks, Look(b) PROVE RestInv'
  <2>1. /\ existing' = [existing EXCEPT ![b] = DOMAIN rows]
        /\ reached' = [reached EXCEPT ![b] = Len(timeline)] /\ calm' = [calm EXCEPT ![b] = TRUE]
        /\ UNCHANGED <<timeline, redacted, erased>>
    BY <1>9 DEF Look
  <2>2. existing' \in [Tasks -> SUBSET Places] /\ reached' \in [Tasks -> 0..Len(timeline)]
    BY <1>0, <1>2, <2>1
  <2>3. QED
    BY <1>0, <2>1, <2>2 DEF RestInv
<1>10. ASSUME NEW b \in Tasks,
              Fetch(b) \/ FetchRefused(b) \/ TakeUndecryptable(b) \/ CutOff(b) \/ EndPage(b)
              \/ ReconcileReads(b)
       PROVE  RestInv'
  <2>1. /\ UNCHANGED <<timeline, existing, redacted, erased>>
        /\ calm' = calm \/ calm' = [calm EXCEPT ![b] = FALSE]
    BY <1>10 DEF Fetch, FetchRefused, TakeUndecryptable, CutOff, EndPage, ReconcileReads, LeaveOut
  <2>2. reached' = reached \/ reached' = [reached EXCEPT ![b] = 0]
    BY <1>10 DEF Fetch, FetchRefused, TakeUndecryptable, CutOff, EndPage, ReconcileReads, LeaveOut
  <2>3. reached' \in [Tasks -> 0..Len(timeline)]
    BY <1>0, <2>2
  <2>4. QED
    BY <1>0, <2>1, <2>3 DEF RestInv
<1>11. ASSUME NEW b \in Tasks, FetchRaises(b) PROVE RestInv'
  <2>1. /\ existing' = [existing EXCEPT ![b] = {}] /\ redacted' = [redacted EXCEPT ![b] = {}]
        /\ reached' = [reached EXCEPT ![b] = 0] /\ calm' = [calm EXCEPT ![b] = FALSE]
        /\ UNCHANGED <<timeline, erased>>
    BY <1>11 DEF FetchRaises, LeaveOut, Forget
  <2>2. QED
    BY <1>0, <2>1 DEF RestInv
<1>12. ASSUME NEW b \in Tasks, Take(b) PROVE RestInv'
  <2>1. PICK p \in page[b] :
          /\ redacted' \in {redacted, [redacted EXCEPT ![b] = @ \cup {timeline[p].of}]}
          /\ existing' \in {existing, [existing EXCEPT ![b] = @ \cup {p}]}
          /\ calm' = calm \/ Disturb(b)
          /\ UNCHANGED <<timeline, erased, reached>>
    BY <1>12 DEF Take
  <2>2. p \in Places /\ timeline[p].of \in Places
    BY <1>1 DEF LookInv
  <2>3. calm' \in [Tasks -> BOOLEAN]
    BY <1>0, <2>1 DEF Disturb
  <2>4. existing' \in [Tasks -> SUBSET Places]
    BY <1>0, <2>1, <2>2
  <2>5. redacted' \in [Tasks -> SUBSET Places]
    <3>1. redacted[b] \cup {timeline[p].of} \in SUBSET Places
      BY <1>0, <2>2
    <3>2. QED
      BY <1>0, <2>1, <3>1
  <2>6. QED
    BY <1>0, <2>1, <2>3, <2>4, <2>5 DEF RestInv
<1>13. ASSUME NEW b \in Tasks, ApplyRedactions(b) PROVE RestInv'
  <2>1. /\ existing' = [existing EXCEPT ![b] = {}] /\ redacted' = [redacted EXCEPT ![b] = {}]
        /\ erased' = erased \cup {p \in redacted[b] : p <= live /\ ~InHand(p) /\ p \notin waiting}
        /\ UNCHANGED <<timeline, reached>>
    BY <1>13 DEF ApplyRedactions, Forget
  <2>2. calm' \in [Tasks -> BOOLEAN]
    BY <1>13 DEF ApplyRedactions, Disturb
  <2>3. erased' \subseteq Places
    BY <1>0, <2>1
  <2>4. QED
    BY <1>0, <2>1, <2>2, <2>3 DEF RestInv
<1>14. ASSUME NEW b \in Tasks, ReconcileWrites(b) PROVE RestInv'
  <2>1. UNCHANGED <<timeline, existing, redacted, erased, reached>>
    BY <1>14 DEF ReconcileWrites
  <2>2. calm' \in [Tasks -> BOOLEAN]
    BY <1>14 DEF ReconcileWrites, Disturb
  <2>3. QED
    BY <1>0, <2>1, <2>2 DEF RestInv
<1>15. ASSUME NEW b \in Tasks, Finish(b) PROVE RestInv'
  <2>1. /\ reached' = [reached EXCEPT ![b] = 0] /\ calm' = [calm EXCEPT ![b] = FALSE]
        /\ UNCHANGED <<timeline, existing, redacted, erased>>
    BY <1>15 DEF Finish, LeaveOut
  <2>2. QED
    BY <1>0, <2>1 DEF RestInv
<1>16. CASE UNCHANGED vars
  BY <1>16, <1>0 DEF RestInv, vars, tasks
<1>17. QED
  BY <1>4, <1>5, <1>6, <1>7, <1>8, <1>9, <1>10, <1>11, <1>12, <1>13, <1>14, <1>15, <1>16
     DEF Next, Environment, Backfill

LEMMA RestInvHolds == Spec => []RestInv
<1>1. Init => RestInv
  BY DEF Init, RestInv
<1>2. QED
  BY <1>1, RestStep, RoomInvHolds, LookInvHolds, TableInvHolds, PTL DEF Spec

\* Every variable of the room, the table and the backfills keeps its type.
THEOREM TypeCorrect == Spec => []TypeOK
<1>1. RoomInv /\ LookInv /\ TableInv /\ RestInv => TypeOK
  <2> SUFFICES ASSUME RoomInv, LookInv, TableInv, RestInv PROVE TypeOK
    OBVIOUS
  <2>0. Len(timeline) \in Nat /\ Len(timeline) <= MaxEvents /\ MaxEvents \in Nat
    BY HistoryAssumption DEF RoomInv, TableInv
  <2>1. timeline \in Seq([kind : {"message", "edit", "redact"}, of : Places]) /\ live \in 0..Len(timeline)
    BY DEF RoomInv, Happening
  <2>2. \A p \in DOMAIN rows : p \in 1..Len(timeline) /\ rows[p] \in Row
    BY DEF TableInv, RowOK
  <2>3. ASSUME NEW p \in DOMAIN rows PROVE rows[p].direction = "edit" <=> rows[p].editOf # 0
    <3>1. RowOK(p) /\ timeline[p] \in Happening /\ rows[p].direction \in {"forward", "edit"}
      BY <2>2 DEF TableInv, RoomInv, Row
    <3>2. timeline[p].of # 0
      BY <2>0, <3>1 DEF Happening, Places
    <3>3. QED
      BY <3>1, <3>2 DEF RowOK
  <2>4. page \in [Tasks -> SUBSET Places] /\ cursor \in [Tasks -> 0..MaxEvents + 1]
    <3>1. 1..Len(timeline) \subseteq Places /\ 0..(Len(timeline) + 1) \subseteq 0..MaxEvents + 1
      BY <2>0 DEF Places
    <3>2. QED
      BY <3>1 DEF LookInv
  <2>5. \A b \in Tasks : DOMAIN plan[b].text \subseteq Places
    BY <2>0 DEF TableInv, PlanOK, Places
  <2>6. reached \in [Tasks -> 0..MaxEvents]
    BY <2>0 DEF RestInv
  <2>7. waiting \subseteq 1..live
    BY DEF RoomInv
  <2>8. QED
    BY <2>0, <2>1, <2>2, <2>3, <2>4, <2>5, <2>6, <2>7 DEF TypeOK, LookInv, RestInv
<1>2. QED
  BY <1>1, RoomInvHolds, LookInvHolds, TableInvHolds, RestInvHolds, PTL

-----------------------------------------------------------------------------
(* What a backfill has stored, has in hand or is still to fetch.           *)

CursorInv == \A b \in Tasks :
    /\ pc[b] \in {"idle", "look", "read", "write", "done"} => cursor[b] = 0
    /\ pc[b] = "page" => 1 <= cursor[b]

Stored(p) == p \in DOMAIN rows

\* The backfill b has p, or will come to it.
Dealt(b, p) ==
    /\ pc[b] \in {"fetch", "page", "apply"} /\ p \in existing[b] => Stored(p)
    /\ pc[b] = "fetch" => Stored(p) \/ cursor[b] = 0 \/ p < cursor[b]
    /\ pc[b] = "page" => Stored(p) \/ p < cursor[b] \/ p \in page[b]
    /\ pc[b] \in {"apply", "read", "write"} => Stored(p)

\* The messages that the backfill b is to store.
Wanted(b) == {p \in 1..reached[b] : Kind(p) = "message" /\ ~Gone(p)}

LeftInv == \A b \in Tasks : \A p \in Wanted(b) :
    Dealt(b, p) /\ (pc[b] = "done" => Stored(p))

\* A step of the backfill b is none of another one's.
Beside(b) ==
    /\ pc'[b] = pc[b] /\ existing'[b] = existing[b] /\ cursor'[b] = cursor[b]
    /\ page'[b] = page[b] /\ reached'[b] = reached[b] /\ plan'[b] = plan[b]

LEMMA StepOfOne ==
    ASSUME LookInv, RestInv, TableInv, [Next]_vars
    PROVE  \/ Restart \/ \A b \in Tasks : Beside(b)
           \/ \E b \in Tasks : (Clear(b) \/ Backfill(b)) /\ \A c \in Tasks \ {b} :
                                   Beside(c) \/ (Clear(b) /\ pc'[c] = pc[c] /\ cursor'[c] = cursor[c])
<1>0. /\ pc \in [Tasks -> {"idle", "look", "fetch", "page", "apply", "read", "write", "done"}]
      /\ existing \in [Tasks -> SUBSET Places] /\ page \in [Tasks -> SUBSET (1..Len(timeline))]
      /\ cursor \in [Tasks -> 0..(Len(timeline) + 1)]
      /\ reached \in [Tasks -> 0..Len(timeline)] /\ plan = [b \in Tasks |-> plan[b]]
  BY DEF LookInv, RestInv, TableInv
<1>1. CASE UNCHANGED <<tasks, reached>>
  BY <1>1 DEF tasks, Beside
<1>2. ASSUME NEW b \in Tasks, Clear(b), NEW c \in Tasks \ {b}
      PROVE  pc'[c] = pc[c] /\ cursor'[c] = cursor[c]
  BY <1>0, <1>2 DEF Clear, Goto
<1>3. ASSUME NEW b \in Tasks, Backfill(b), NEW c \in Tasks \ {b} PROVE Beside(c)
  <2>1. CASE Look(b)
    BY <1>0, <2>1 DEF Look, Goto, Beside
  <2>2. CASE Fetch(b)
    BY <1>0, <2>2 DEF Fetch, Goto, Beside
  <2>3. CASE FetchRefused(b) \/ FetchRaises(b)
    BY <1>0, <2>3 DEF FetchRefused, FetchRaises, Goto, LeaveOut, Forget, Beside
  <2>4. CASE Take(b)
    <3>1. PICK p : page' = [page EXCEPT ![b] = @ \ {p}] /\
                   existing' \in {existing, [existing EXCEPT ![b] = @ \cup {p}]}
      BY <2>4 DEF Take, Taken
    <3>2. UNCHANGED <<pc, cursor, plan, reached>>
      BY <2>4 DEF Take
    <3>3. QED
      BY <1>0, <3>1, <3>2 DEF Beside
  <2>5. CASE TakeUndecryptable(b) \/ CutOff(b) \/ EndPage(b)
    BY <1>0, <2>5 DEF TakeUndecryptable, CutOff, EndPage, Taken, Goto, LeaveOut, Beside
  <2>6. CASE ApplyRedactions(b) \/ ReconcileReads(b) \/ ReconcileWrites(b) \/ Finish(b)
    BY <1>0, <2>6 DEF ApplyRedactions, ReconcileReads, ReconcileWrites, Finish, Goto, Forget,
                      LeaveOut, Beside
  <2>7. QED
    BY <1>3, <2>1, <2>2, <2>3, <2>4, <2>5, <2>6 DEF Backfill
<1>4. QED
  BY <1>1, <1>2, <1>3
     DEF Next, Environment, Post, LiveMessage, LiveEdit, LiveRedact, LiveMisses, LivePlaceholder,
         LateMessage, LateEdit, vars, tasks

LEMMA CursorStep ==
    ASSUME LookInv, RestInv, TableInv, CursorInv, [Next]_vars
    PROVE  CursorInv'
<1>0. /\ pc \in [Tasks -> {"idle", "look", "fetch", "page", "apply", "read", "write", "done"}]
      /\ cursor \in [Tasks -> 0..(Len(timeline) + 1)]
  BY DEF LookInv
<1> DEFINE CursorOK(b) ==
        /\ pc[b] \in {"idle", "look", "read", "write", "done"} => cursor[b] = 0
        /\ pc[b] = "page" => 1 <= cursor[b]
<1>1. CASE Restart
  BY <1>1 DEF Restart, CursorInv
<1>2. CASE \A b \in Tasks : Beside(b)
  BY <1>2 DEF Beside, CursorInv
<1>3. ASSUME NEW b \in Tasks, Clear(b) \/ Backfill(b), \A c \in Tasks \ {b} : pc'[c] = pc[c] /\ cursor'[c] = cursor[c]
      PROVE  CursorInv'
  <2>1. CASE Clear(b) \/ Look(b)
    BY <1>0, <2>1 DEF Clear, Look, Goto, CursorInv
  <2>2. CASE Fetch(b)
    <3> DEFINE last == IF cursor[b] = 0 THEN Len(timeline) ELSE cursor[b] - 1
    <3> DEFINE first == IF last > PageSize THEN last - PageSize + 1 ELSE 1
    <3>1. pc' = [pc EXCEPT ![b] = "page"] /\ cursor' = [cursor EXCEPT ![b] = first]
      BY <2>2 DEF Fetch, Goto
    <3>2. 1 <= first
      BY <1>0, HistoryAssumption DEF LookInv
    <3> HIDE DEF first
    <3>3. pc'[b] = "page" /\ cursor'[b] = first
      BY <1>0, <3>1
    <3>4. QED
      BY <1>3, <3>2, <3>3 DEF CursorInv
  <2>3. CASE FetchRefused(b) \/ Take(b) \/ TakeUndecryptable(b) \/ CutOff(b) \/ EndPage(b)
    <3>1. cursor' = cursor
      BY <2>3 DEF FetchRefused, Take, TakeUndecryptable, CutOff, EndPage
    <3>2. pc'[b] \in {"fetch", "apply"} \/ pc' = pc
      BY <1>0, <2>3 DEF FetchRefused, Take, TakeUndecryptable, CutOff, EndPage, Goto
    <3>3. QED
      BY <1>3, <3>1, <3>2 DEF CursorInv
  <2>4. CASE FetchRaises(b) \/ ApplyRedactions(b)
    <3>1. cursor'[b] = 0 /\ pc'[b] \in {"read", "idle"}
      BY <1>0, <2>4 DEF FetchRaises, ApplyRedactions, Forget, Goto
    <3>2. QED
      BY <1>3, <3>1 DEF CursorInv
  <2>5. CASE ReconcileReads(b) \/ ReconcileWrites(b) \/ Finish(b)
    <3>1. pc[b] \in {"read", "write", "done"} /\ cursor' = cursor /\ pc'[b] \in {"write", "done", "idle"}
      BY <1>0, <2>5 DEF ReconcileReads, ReconcileWrites, Finish, Goto
    <3>2. QED
      BY <1>3, <3>1 DEF CursorInv
  <2>6. QED
    BY <1>3, <2>1, <2>2, <2>3, <2>4, <2>5 DEF Backfill
<1>4. QED
  BY <1>1, <1>2, <1>3, StepOfOne DEF Beside

LEMMA CursorInvHolds == Spec => []CursorInv
<1>1. Init => CursorInv
  BY DEF Init, CursorInv
<1>2. QED
  BY <1>1, CursorStep, LookInvHolds, RestInvHolds, TableInvHolds, PTL DEF Spec

\* Only messages are redacted.
LEMMA GoneIsMessage ==
    ASSUME RoomInv, NEW p, Gone(p)
    PROVE  Kind(p) = "message"
BY DEF RoomInv, Gone, Kind

\* The row of a message that is not redacted stays, but for a clearing.
LEMMA StoredForGood ==
    ASSUME RoomInv, LookInv, TableInv, [Next]_vars, \A b \in Tasks : ~Clear(b),
           NEW p, Stored(p), Kind(p) = "message", ~Gone(p)
    PROVE  Stored(p)'
<1>1. CASE LiveMessage
  BY <1>1, IdsOfRows DEF LiveMessage, Stored
<1>2. CASE LiveEdit
  BY <1>2, IdsOfRows DEF LiveEdit, Stored
<1>3. CASE LiveRedact
  <2>1. /\ rows' = DeleteMessages({timeline[live + 1].of})
        /\ live < Len(timeline) /\ Kind(live + 1) = "redact"
    BY <1>3 DEF LiveRedact, Live
  <2>2. live + 1 \in DOMAIN timeline
    BY <2>1 DEF RoomInv
  <2>3. Gone(timeline[live + 1].of)
    BY <2>1, <2>2 DEF Gone
  <2>4. QED
    BY <2>1, <2>3, IdsOfRows DEF Stored
<1>4. ASSUME NEW b \in Tasks, Take(b) PROVE Stored(p)'
  <2>1. PICK q : rows' = rows \/ rows' = SaveMessage(q)
    BY <1>4 DEF Take
  <2>2. QED
    BY <2>1, IdsOfRows DEF Stored
<1>5. ASSUME NEW b \in Tasks, ApplyRedactions(b) PROVE Stored(p)'
  <2>1. rows' = DeleteMessages(redacted[b]) /\ p \notin redacted[b]
    BY <1>5 DEF ApplyRedactions, LookInv
  <2>2. QED
    BY <2>1, IdsOfRows DEF Stored
<1>6. ASSUME NEW b \in Tasks, ReconcileWrites(b) PROVE Stored(p)'
  <2>1. rows' = Reconciled(plan[b]) /\ p \notin plan[b].delete
    BY <1>6 DEF ReconcileWrites, TableInv, PlanOK
  <2>2. QED
    BY <2>1, IdsOfRows DEF Stored
<1>7. CASE rows' = rows
  BY <1>7 DEF Stored
<1>8. CASE LivePlaceholder
  BY <1>8, IdsOfRows DEF LivePlaceholder, Stored
<1>9. ASSUME NEW q \in waiting, LateMessage(q) \/ LateEdit(q) PROVE Stored(p)'
  <2>1. rows' = SaveMessage(q) \/ rows' = UpdateMessageText(timeline[q].of, q)
    BY <1>9 DEF LateMessage, LateEdit
  <2>2. /\ DOMAIN SaveMessage(q) = DOMAIN rows \cup {q}
        /\ DOMAIN UpdateMessageText(timeline[q].of, q) = DOMAIN rows
    BY IdsOfRows
  <2>3. QED
    BY <2>1, <2>2 DEF Stored
<1>10. QED
  BY <1>1, <1>2, <1>3, <1>4, <1>5, <1>6, <1>7, <1>8, <1>9
     DEF Next, Environment, Backfill, Post, LiveMisses, Restart, Look, Fetch, FetchRefused,
         FetchRaises, TakeUndecryptable, CutOff, EndPage, ReconcileReads, Finish, vars

\* What a backfill is to store was to be stored before.
LEMMA WantedBefore ==
    ASSUME RoomInv, RoomInv', RestInv, [Next]_vars, NEW b \in Tasks,
           reached'[b] = reached[b], NEW p, p \in Wanted(b)'
    PROVE  p \in Wanted(b) /\ p \in 1..Len(timeline) /\ Kind(p) = "message" /\ ~Gone(p)
<1>1. reached[b] \in 0..Len(timeline) /\ Len(timeline) \in Nat
  BY DEF RestInv, RoomInv
<1>2. p \in 1..reached[b] /\ p \in 1..Len(timeline) /\ Kind(p)' = "message" /\ ~Gone(p)'
  BY <1>1 DEF Wanted
<1>3. ~Gone(p)
  BY <1>2, GoneForGood
<1>4. timeline'[p] = timeline[p]
  <2>1. CASE Post
    <3>1. PICK e : timeline' = Append(timeline, e)
      BY <2>1 DEF Post
    <3>2. QED
      BY <1>2, <3>1 DEF RoomInv
  <2>2. CASE timeline' = timeline
    BY <2>2
  <2>3. Post \/ timeline' = timeline
    BY DEF Next, Environment, LiveMessage, LiveEdit, LiveRedact, LiveMisses, LivePlaceholder,
           LateMessage, LateEdit, Restart, Clear, Backfill, Look, Fetch, FetchRefused,
           FetchRaises, Take, TakeUndecryptable, CutOff,
           EndPage, ApplyRedactions, ReconcileReads, ReconcileWrites, Finish, vars
  <2>4. QED
    BY <2>1, <2>2, <2>3
<1>5. QED
  BY <1>2, <1>3, <1>4 DEF Wanted, Kind

\* A look at the ids finds everything before it.
LEMMA LookDeals ==
    ASSUME LookInv, RestInv, CursorInv, NEW b \in Tasks, Look(b)
    PROVE  pc'[b] = "fetch" /\ reached'[b] = Len(timeline) /\ \A p : Dealt(b, p)'
<1>1. /\ pc[b] \in {"idle", "look"} /\ pc' = [pc EXCEPT ![b] = "fetch"]
      /\ existing' = [existing EXCEPT ![b] = DOMAIN rows]
      /\ reached' = [reached EXCEPT ![b] = Len(timeline)] /\ UNCHANGED <<rows, page, cursor>>
  BY DEF Look, Goto
<1>2. pc'[b] = "fetch" /\ existing'[b] = DOMAIN rows /\ reached'[b] = Len(timeline)
  BY <1>1 DEF LookInv, RestInv
<1>3. cursor'[b] = 0
  BY <1>1 DEF CursorInv
<1>4. QED
  BY <1>1, <1>2, <1>3 DEF Dealt, Stored

\* No step of the backfill b passes p over, if it leaves nothing out.
LEMMA DealtStep ==
    ASSUME RoomInv, LookInv, RestInv, TableInv, CursorInv, [Next]_vars, NEW b \in Tasks,
           ~Look(b), reached'[b] # 0, reached'[b] = reached[b],
           NEW p \in 1..Len(timeline), ~Gone(p), Kind(p) # "redact", Dealt(b, p),
           Stored(p) => Stored(p)'
    PROVE  Dealt(b, p)'
<1>0. /\ pc \in [Tasks -> {"idle", "look", "fetch", "page", "apply", "read", "write", "done"}]
      /\ existing \in [Tasks -> SUBSET Places] /\ page \in [Tasks -> SUBSET (1..Len(timeline))]
      /\ cursor \in [Tasks -> 0..(Len(timeline) + 1)]
      /\ reached \in [Tasks -> 0..Len(timeline)] /\ Len(timeline) \in Nat
  BY DEF LookInv, RestInv, RoomInv
<1>1. CASE Beside(b)
  BY <1>1 DEF Beside, Dealt
<1>2. CASE Fetch(b)
  <2> DEFINE last == IF cursor[b] = 0 THEN Len(timeline) ELSE cursor[b] - 1
  <2> DEFINE first == IF last > PageSize THEN last - PageSize + 1 ELSE 1
  <2>1. /\ pc[b] = "fetch" /\ pc' = [pc EXCEPT ![b] = "page"]
        /\ page' = [page EXCEPT ![b] = {q \in first..last : ~Gone(q)}]
        /\ cursor' = [cursor EXCEPT ![b] = first] /\ UNCHANGED existing
    BY <1>2 DEF Fetch, Goto
  <2>2. last \in 0..Len(timeline)
    BY <1>0
  <2>3. first \in Nat
    BY <1>0, <2>2, HistoryAssumption
  <2>4. Stored(p) \/ p <= last
    BY <1>0, <2>1 DEF Dealt
  <2> HIDE DEF first, last
  <2>5. pc'[b] = "page" /\ page'[b] = {q \in first..last : ~Gone(q)} /\ cursor'[b] = first
    BY <1>0, <2>1
  <2>6. p <= last => p < first \/ p \in first..last
    BY <2>2, <2>3
  <2>7. QED
    BY <2>1, <2>4, <2>5, <2>6 DEF Dealt
<1>3. CASE Take(b)
  <2>1. PICK q \in page[b] :
          /\ pc[b] = "page" /\ page' = [page EXCEPT ![b] = @ \ {q}] /\ UNCHANGED <<pc, cursor>>
          /\ \/ Kind(q) = "redact" /\ UNCHANGED <<rows, existing>>
             \/ q \in existing[b] /\ UNCHANGED <<rows, existing>>
             \/ rows' = SaveMessage(q) /\ existing' = [existing EXCEPT ![b] = @ \cup {q}]
    BY <1>3 DEF Take, Foremost, Taken
  <2>2. page'[b] = page[b] \ {q} /\ existing'[b] \subseteq existing[b] \cup {q}
    BY <1>0, <2>1
  <2>3. rows' = SaveMessage(q) => Stored(q)'
    BY IdsOfRows DEF Stored
  <2>4. /\ p \in existing[b] => Stored(p)
        /\ Stored(p) \/ p < cursor[b] \/ p \in page[b]
    BY <2>1 DEF Dealt
  <2>5. CASE p # q
    BY <2>1, <2>2, <2>4, <2>5 DEF Dealt
  <2>6. CASE p = q
    <3>1. Stored(p)'
      BY <2>1, <2>3, <2>4, <2>6
    <3>2. QED
      BY <2>1, <3>1 DEF Dealt
  <2>7. QED
    BY <2>5, <2>6
<1>4. CASE EndPage(b)
  <2>1. /\ pc[b] = "page" /\ page[b] = {} /\ UNCHANGED <<existing, page, cursor>>
        /\ pc' = [pc EXCEPT ![b] = IF cursor[b] > 1 THEN "fetch" ELSE "apply"]
    BY <1>4 DEF EndPage, Goto
  <2>2. pc'[b] = IF cursor[b] > 1 THEN "fetch" ELSE "apply"
    BY <1>0, <2>1
  <2>3. (p \in existing[b] => Stored(p)) /\ (Stored(p) \/ p < cursor[b])
    BY <2>1 DEF Dealt
  <2>4. Stored(p) \/ (p < cursor[b] /\ cursor[b] > 1)
    BY <1>0, <2>3
  <2>5. QED
    BY <2>1, <2>2, <2>3, <2>4 DEF Dealt
<1>5. CASE ApplyRedactions(b) \/ ReconcileReads(b) \/ ReconcileWrites(b)
  <2>1. pc[b] \in {"apply", "read", "write"} /\ pc'[b] \in {"read", "write", "done"}
    BY <1>0, <1>5 DEF ApplyRedactions, ReconcileReads, ReconcileWrites, Goto
  <2>2. QED
    BY <2>1 DEF Dealt
<1>6. ASSUME Restart \/ (\E c \in Tasks : Clear(c))
             \/ FetchRefused(b) \/ FetchRaises(b) \/ TakeUndecryptable(b) \/ CutOff(b) \/ Finish(b)
      PROVE  reached'[b] = 0
  BY <1>0, <1>6 DEF Restart, Clear, FetchRefused, FetchRaises, TakeUndecryptable, CutOff,
                    Finish, LeaveOut
<1>7. QED
  BY <1>1, <1>2, <1>3, <1>4, <1>5, <1>6, StepOfOne DEF Backfill

\* Apart from a look, a step keeps what is reached or leaves something out.
LEMMA ReachedStep ==
    ASSUME LookInv, RestInv, TableInv, [Next]_vars, NEW b \in Tasks, ~Look(b)
    PROVE  reached'[b] \in {0, reached[b]}
<1>0. reached \in [Tasks -> 0..Len(timeline)]
  BY DEF RestInv
<1>1. CASE Beside(b)
  BY <1>1 DEF Beside
<1>2. CASE Backfill(b)
  BY <1>0, <1>2 DEF Backfill, Fetch, FetchRefused, FetchRaises, Take, TakeUndecryptable, CutOff,
                    EndPage, ApplyRedactions, ReconcileReads, ReconcileWrites, Finish, LeaveOut
<1>3. CASE Restart \/ \E c \in Tasks : Clear(c)
  BY <1>3 DEF Restart, Clear
<1>4. QED
  BY <1>1, <1>2, <1>3, StepOfOne

\* A clearing leaves something out of every backfill.
LEMMA LeftStep ==
    ASSUME RoomInv, RoomInv', LookInv, RestInv, TableInv, CursorInv, LeftInv, [Next]_vars
    PROVE  LeftInv'
<1> SUFFICES ASSUME NEW b \in Tasks, NEW p \in Wanted(b)'
             PROVE  Dealt(b, p)' /\ (pc'[b] = "done" => Stored(p)')
  BY DEF LeftInv
<1>1. CASE Look(b)
  BY <1>1, LookDeals
<1>2. CASE ~Look(b)
  <2>1. reached'[b] # 0 /\ reached'[b] = reached[b]
    <3>1. reached'[b] # 0
      BY DEF Wanted
    <3>2. QED
      BY <1>2, <3>1, ReachedStep
  <2>2. /\ p \in Wanted(b) /\ p \in 1..Len(timeline)
        /\ Kind(p) = "message" /\ ~Gone(p)
    BY <2>1, WantedBefore
  <2>3. \A c \in Tasks : ~Clear(c)
    BY <2>1 DEF Clear
  <2>4. Stored(p) => Stored(p)'
    BY <2>2, <2>3, StoredForGood
  <2>5. Dealt(b, p) /\ (pc[b] = "done" => Stored(p))
    BY <2>2 DEF LeftInv
  <2>6. Dealt(b, p)'
    BY <1>2, <2>1, <2>2, <2>4, <2>5, DealtStep
  <2>7. pc'[b] = "done" => pc[b] \in {"write", "done"}
    <3>1. CASE Beside(b)
      BY <3>1 DEF Beside
    <3>2. CASE Backfill(b)
      BY <1>2, <3>2 DEF LookInv, Backfill, Fetch, FetchRefused, FetchRaises, Take,
                        TakeUndecryptable,
             CutOff, EndPage, ApplyRedactions, ReconcileReads, ReconcileWrites, Finish, Goto
    <3>3. CASE Restart
      BY <3>3 DEF Restart
    <3>4. QED
      BY <2>3, <3>1, <3>2, <3>3, StepOfOne
  <2>8. QED
    BY <2>4, <2>5, <2>6, <2>7 DEF Dealt
<1>3. QED
  BY <1>1, <1>2

LEMMA LeftInvHolds == Spec => []LeftInv
<1>1. Init => LeftInv
  BY DEF Init, LeftInv, Wanted
<1>2. QED
  BY <1>1, LeftStep, RoomInvHolds, LookInvHolds, TableInvHolds, RestInvHolds, CursorInvHolds,
     PTL DEF Spec

\* A backfill that ended well has stored every message of the room it looked at, in any
\* division into pages, beside any live changes, backfills and reconciliations.
THEOREM BackfillIsComplete == Spec => []NothingLeftOut
<1>1. LeftInv => NothingLeftOut
  BY DEF LeftInv, Dealt, Wanted, Stored, NothingLeftOut
<1>2. QED
  BY <1>1, LeftInvHolds, PTL

-----------------------------------------------------------------------------
(* The text of a message by the timeline alone: the end of the chain of    *)
(* its newest edits.                                                       *)

EditsIn(tl, o) == {e \in DOMAIN tl : tl[e].kind = "edit" /\ tl[e].of = o}

Lasts(tl, f) ==
    f = [o \in Places |-> IF EditsIn(tl, o) = {} THEN o ELSE f[Newest(EditsIn(tl, o))]]

LastsOf(tl) == CHOOSE f : Lasts(tl, f)

FinalIn(tl, p) == LastsOf(tl)[p]

LEMMA FinalOfTimeline ==
    /\ \A p : FinalText(p) = FinalIn(timeline, p)
    /\ \A p : FinalText(p)' = FinalIn(timeline', p)
BY DEF FinalText, FinalIn, LastsOf, Lasts, EditsIn, Kind

EditedIn(tl) == {o \in Places : EditsIn(tl, o) # {}}

NewestIn(tl) == [o \in EditedIn(tl) |-> Newest(EditsIn(tl, o))]

LEMMA NewestEditIn ==
    ASSUME NEW tl, IsRoom(tl), Len(tl) <= MaxEvents, NEW o \in Places, EditsIn(tl, o) # {}
    PROVE  /\ Newest(EditsIn(tl, o)) \in EditsIn(tl, o)
           /\ Newest(EditsIn(tl, o)) \in Places /\ o < Newest(EditsIn(tl, o))
<1>0. Len(tl) \in Nat /\ MaxEvents \in Nat /\ DOMAIN tl = 1..Len(tl)
  BY HistoryAssumption DEF IsRoom
<1>1. \A e \in EditsIn(tl, o) : e \in 1..Len(tl) /\ tl[e].kind = "edit" /\ tl[e].of = o
  BY <1>0 DEF EditsIn
<1>2. EditsIn(tl, o) \in SUBSET Nat /\ \A e \in EditsIn(tl, o) : e <= Len(tl)
  BY <1>0, <1>1
<1>3. Newest(EditsIn(tl, o)) \in EditsIn(tl, o)
  BY <1>0, <1>2, NewestIsIn
<1>4. \A e \in EditsIn(tl, o) : e \in Places /\ o < e
  <2>1. \A e \in EditsIn(tl, o) : tl[e].of \in 1..e - 1
    BY <1>1, Earlier
  <2>2. QED
    BY <1>0, <1>1, <2>1 DEF Places
<1>5. QED
  BY <1>3, <1>4

LEMMA LastsAreEnds ==
    ASSUME NEW tl, IsRoom(tl), Len(tl) <= MaxEvents
    PROVE  /\ LaterEdits(EditedIn(tl), NewestIn(tl))
           /\ Ends(EditedIn(tl), NewestIn(tl), LastsOf(tl))
<1>1. LaterEdits(EditedIn(tl), NewestIn(tl))
  BY NewestEditIn DEF LaterEdits, EditedIn, NewestIn
<1>2. \A o \in EditedIn(tl) : NewestIn(tl)[o] = Newest(EditsIn(tl, o)) /\ NewestIn(tl)[o] \in Places
  BY NewestEditIn DEF EditedIn, NewestIn
<1>3. \A o \in Places : o \in EditedIn(tl) <=> EditsIn(tl, o) # {}
  BY DEF EditedIn
<1>4. ASSUME NEW f, Ends(EditedIn(tl), NewestIn(tl), f) PROVE Lasts(tl, f)
  <2>1. f = [o \in Places |-> EndFrom(EditedIn(tl), NewestIn(tl), f, o)]
    BY <1>4 DEF Ends
  <2>2. \A o \in Places : o \notin EditedIn(tl) => f[o] = o
    BY <2>1 DEF EndFrom
  <2>3. ASSUME NEW o \in Places
        PROVE  EndFrom(EditedIn(tl), NewestIn(tl), f, o)
                 = IF EditsIn(tl, o) = {} THEN o ELSE f[Newest(EditsIn(tl, o))]
    <3>1. CASE o \notin EditedIn(tl)
      BY <1>3, <3>1 DEF EndFrom
    <3>2. CASE o \in EditedIn(tl)
      BY <1>2, <1>3, <2>2, <3>2 DEF EndFrom
    <3>3. QED
      BY <3>1, <3>2
  <2>4. QED
    BY <2>1, <2>3 DEF Lasts
<1>5. ASSUME NEW f, Lasts(tl, f) PROVE Ends(EditedIn(tl), NewestIn(tl), f)
  <2>1. f = [o \in Places |-> IF EditsIn(tl, o) = {} THEN o ELSE f[Newest(EditsIn(tl, o))]]
    BY <1>5 DEF Lasts
  <2>2. \A o \in Places : o \notin EditedIn(tl) => f[o] = o
    BY <1>3, <2>1
  <2>3. ASSUME NEW o \in Places
        PROVE  EndFrom(EditedIn(tl), NewestIn(tl), f, o)
                 = IF EditsIn(tl, o) = {} THEN o ELSE f[Newest(EditsIn(tl, o))]
    <3>1. CASE o \notin EditedIn(tl)
      BY <1>3, <3>1 DEF EndFrom
    <3>2. CASE o \in EditedIn(tl)
      BY <1>2, <1>3, <2>2, <3>2 DEF EndFrom
    <3>3. QED
      BY <3>1, <3>2
  <2>4. QED
    BY <2>1, <2>3 DEF Ends
<1>6. \E f : Lasts(tl, f)
  BY <1>1, <1>4, EndsExist
<1>7. Lasts(tl, LastsOf(tl))
  BY <1>6 DEF LastsOf
<1>8. QED
  BY <1>1, <1>5, <1>7

LEMMA FinalOfUnedited ==
    ASSUME RoomInv, TableInv, NEW p \in 1..Len(timeline), ~Edited(p)
    PROVE  FinalIn(timeline, p) = p
<1>1. IsRoom(timeline) /\ Len(timeline) <= MaxEvents /\ p \in Places
  BY HistoryAssumption DEF RoomInv, IsRoom, Kind, TableInv, Places
<1>2. EditsIn(timeline, p) = {}
  BY DEF Edited, EditsIn
<1>3. Ends(EditedIn(timeline), NewestIn(timeline), LastsOf(timeline))
  BY <1>1, LastsAreEnds
<1>4. QED
  BY <1>1, <1>2, <1>3 DEF Ends, EndFrom, EditedIn, FinalIn

-----------------------------------------------------------------------------
(* A backfill that nothing came between.                                   *)

\* p is a message whose row a reconciliation can make right.
Foldable(p) == Kind(p) = "message" /\ ~Gone(p) /\ ~Promoted(p)

\* What is about to be written gives the messages up to n their newest text, and deletes no
\* edit that was made a message.
GoodPlan(do, n) ==
    /\ \A p \in 1..n : Foldable(p) /\ Edited(p) =>
           p \in DOMAIN do.text /\ do.text[p] = FinalIn(timeline, p)
    /\ \A e \in do.delete : e \in DOMAIN rows /\ rows[e].direction = "edit"

CalmInv == \A b \in Tasks : calm[b] =>
    /\ reached[b] \in {0, Len(timeline)}
    /\ \A p \in 1..reached[b] : Kind(p) = "edit" => Dealt(b, p)
    /\ pc[b] = "write" => GoodPlan(plan[b], reached[b])
    /\ pc[b] = "done" => \A p \in 1..reached[b] :
            Foldable(p) => rows[p].text \in {0, FinalIn(timeline, p)}

\* With every event of the room in the table, the chain that a reconciliation follows is
\* that of the timeline.
LEMMA FoldedToEnd ==
    ASSUME RoomInv, TableInv,
           \A q \in 1..Len(timeline) : Kind(q) = "edit" => Stored(q),
           NEW p \in 1..Len(timeline), Foldable(p), Edited(p)
    PROVE  p \in Originals /\ Resolved[p] = FinalIn(timeline, p)
<1> DEFINE Q == {o \in 1..Len(timeline) : RootIn(timeline, o) = p}
<1>0. /\ IsRoom(timeline) /\ Len(timeline) \in Nat /\ Len(timeline) <= MaxEvents /\ MaxEvents \in Nat
      /\ DOMAIN timeline = 1..Len(timeline)
  BY HistoryAssumption DEF RoomInv, IsRoom, Kind, TableInv
<1>1. Q \in SUBSET Places /\ p \in Q
  <2>1. RootIn(timeline, p) = p
    BY <1>0, RootRule DEF Foldable, Kind
  <2>2. QED
    BY <1>0, <2>1 DEF Places
<1>2. ASSUME NEW e \in 1..Len(timeline), timeline[e].kind = "edit", timeline[e].of \in Q
      PROVE  e \in Q /\ e \in Edits /\ rows[e].editOf = timeline[e].of
  <2>1. RootIn(timeline, e) = p
    BY <1>0, <1>2, RootRule
  <2>2. e \in DOMAIN rows /\ RowOK(e)
    BY <1>2 DEF Kind, Stored, TableInv
  <2>3. rows[e].direction # "forward"
    BY <1>2, <2>1, <2>2, RootOfTimeline DEF Foldable, Promoted, Kind
  <2>4. rows[e].direction = "edit"
    BY <2>2, <2>3 DEF RowOK, Row
  <2>5. QED
    BY <2>1, <2>2, <2>4 DEF RowOK, Edits
<1>3. \A e \in Edits : e \in 1..Len(timeline) /\ timeline[e].kind = "edit" /\ rows[e].editOf = timeline[e].of
  BY DEF Edits, TableInv, RowOK, Kind
<1>4. \A o \in Q : {e \in Edits : rows[e].editOf = o} = EditsIn(timeline, o)
  BY <1>0, <1>2, <1>3 DEF EditsIn
<1>5. \A o \in Q : /\ o \in Originals <=> o \in EditedIn(timeline)
                   /\ o \in Originals => /\ NewestEdits[o] = NewestIn(timeline)[o]
                                         /\ NewestEdits[o] \in Q
  <2> SUFFICES ASSUME NEW o \in Q
               PROVE  /\ o \in Originals <=> o \in EditedIn(timeline)
                      /\ o \in Originals => /\ NewestEdits[o] = NewestIn(timeline)[o]
                                            /\ NewestEdits[o] \in Q
    OBVIOUS
  <2>1. o \in Places /\ {e \in Edits : rows[e].editOf = o} = EditsIn(timeline, o)
    BY <1>1, <1>4
  <2>2. o \in Originals <=> o \in EditedIn(timeline)
    BY <2>1 DEF Originals, EditedIn
  <2>3. ASSUME o \in Originals
        PROVE  NewestEdits[o] = NewestIn(timeline)[o] /\ NewestEdits[o] \in EditsIn(timeline, o)
    <3>1. LatestEdit(o) = Newest(EditsIn(timeline, o))
      BY <2>1 DEF LatestEdit
    <3>2. EditsIn(timeline, o) # {}
      BY <2>1, <2>2, <2>3 DEF EditedIn
    <3>3. Newest(EditsIn(timeline, o)) \in EditsIn(timeline, o)
      BY <1>0, <2>1, <3>2, NewestEditIn
    <3>4. NewestEdits[o] = LatestEdit(o) /\ NewestIn(timeline)[o] = Newest(EditsIn(timeline, o))
      BY <2>2, <2>3 DEF NewestEdits, NewestIn
    <3>5. QED
      BY <3>1, <3>3, <3>4
  <2>4. \A e \in EditsIn(timeline, o) : e \in Q
    BY <1>0, <1>2 DEF EditsIn
  <2>5. QED
    BY <2>2, <2>3, <2>4
<1>6. PICK end : Ends(Originals, NewestEdits, end) /\ Resolved = [o \in Originals |-> rows[end[o]].text]
  BY ResolvedIs
<1>7. LaterEdits(Originals, NewestEdits)
  BY ResolvedIs
<1>8. /\ LaterEdits(EditedIn(timeline), NewestIn(timeline))
      /\ Ends(EditedIn(timeline), NewestIn(timeline), LastsOf(timeline))
  BY <1>0, LastsAreEnds
<1>9. end[p] = LastsOf(timeline)[p]
  <2> HIDE DEF Q
  <2>1. \A o \in Q : end[o] = LastsOf(timeline)[o]
    BY <1>1, <1>5, <1>6, <1>7, <1>8, EndsAgree
  <2>2. QED
    BY <1>1, <2>1
<1>10. p \in Originals
  <2>1. EditsIn(timeline, p) # {}
    BY DEF Edited, EditsIn
  <2>2. QED
    BY <1>1, <1>5, <2>1 DEF EditedIn
<1>11. PICK x \in Originals : /\ end[p] = NewestEdits[x]
                              /\ RootIn(timeline, end[p]) = RootIn(timeline, p)
  <2> DEFINE root == [o \in Places |-> RootIn(timeline, o)]
  <2>1. \A o \in Originals : root[NewestEdits[o]] = root[o]
    BY LatestEditIsLater DEF NewestEdits
  <2>2. \A o \in Originals : \E x \in Originals : end[o] = NewestEdits[x] /\ root[end[o]] = root[o]
    <3> HIDE DEF root
    <3>1. QED
      BY <1>6, <1>7, <2>1, EndIsEdit
  <2>3. PICK x \in Originals : end[p] = NewestEdits[x] /\ root[end[p]] = root[p]
    BY <1>10, <2>2
  <2>4. end[p] \in Places /\ p \in Places
    BY <1>1, <1>7, <2>3 DEF LaterEdits
  <2>5. QED
    BY <2>3, <2>4
<1>12. end[p] \in Edits /\ end[p] \in Q
  <2>1. end[p] \in Edits
    BY <1>11, LatestEditIsLater DEF NewestEdits
  <2>2. QED
    BY <1>1, <1>3, <1>11, <2>1
<1>13. ~Edited(end[p])
  <2>1. end[p] \notin Originals /\ end[p] \in Places
    BY <1>1, <1>6, <1>7, <1>12, EndIsLast
  <2>2. end[p] \notin EditedIn(timeline)
    BY <1>5, <1>12, <2>1
  <2>3. QED
    BY <2>1, <2>2 DEF EditedIn, EditsIn, Edited
<1>14. rows[end[p]].text = end[p]
  BY <1>12, <1>13 DEF Edits, TableInv, RowOK
<1>15. QED
  BY <1>6, <1>9, <1>10, <1>14 DEF FinalIn

\* What an alone backfill shows is changed by itself only.
LEMMA CalmAlone ==
    ASSUME LookInv, RestInv, TableInv, [Next]_vars, NEW b \in Tasks, calm'[b], ~Look(b)
    PROVE  /\ calm[b] /\ timeline' = timeline
           /\ \/ Beside(b) /\ rows' = rows
              \/ Clear(b) \/ Backfill(b)
<1>0. calm \in [Tasks -> BOOLEAN]
  BY DEF RestInv
<1>1. ~DisturbAll /\ \A c \in Tasks : Disturb(c) => c = b /\ calm[b]
  BY DEF Disturb, DisturbAll
<1>2. /\ ~(Post \/ LiveMessage \/ LiveEdit \/ LiveRedact \/ LiveMisses \/ LivePlaceholder \/ Restart)
      /\ \A p \in waiting : ~LateMessage(p) /\ ~LateEdit(p)
  BY <1>1 DEF Post, LiveMessage, LiveEdit, LiveRedact, LiveMisses, LivePlaceholder, LateMessage,
              LateEdit, Restart
<1>3. ASSUME NEW c \in Tasks, Clear(c) PROVE c = b /\ calm[b] /\ timeline' = timeline
  BY <1>1, <1>3 DEF Clear
<1>4. ASSUME NEW c \in Tasks, Backfill(c)
      PROVE  timeline' = timeline /\ calm[b] /\ (c # b => rows' = rows)
  <2>1. CASE Look(c)
    <3>1. timeline' = timeline /\ rows' = rows /\ calm' = [calm EXCEPT ![c] = TRUE] /\ c # b
      BY <2>1 DEF Look
    <3>2. QED
      BY <1>0, <3>1
  <2>2. CASE Fetch(c) \/ EndPage(c) \/ ReconcileReads(c)
    BY <2>2 DEF Fetch, EndPage, ReconcileReads
  <2>3. CASE Take(c)
    <3>1. timeline' = timeline /\ (Disturb(c) \/ (rows' = rows /\ calm' = calm))
      BY <2>3 DEF Take
    <3>2. QED
      BY <1>1, <3>1
  <2>4. CASE ApplyRedactions(c) \/ ReconcileWrites(c)
    BY <1>1, <2>4 DEF ApplyRedactions, ReconcileWrites
  <2>5. CASE FetchRefused(c) \/ FetchRaises(c) \/ TakeUndecryptable(c) \/ CutOff(c) \/ Finish(c)
    <3>1. timeline' = timeline /\ rows' = rows /\ calm' = [calm EXCEPT ![c] = FALSE]
      BY <2>5 DEF FetchRefused, FetchRaises, TakeUndecryptable, CutOff, Finish, LeaveOut
    <3>2. QED
      BY <1>0, <3>1
  <2>6. QED
    BY <1>4, <2>1, <2>2, <2>3, <2>4, <2>5 DEF Backfill
<1>5. CASE UNCHANGED vars
  BY <1>5 DEF vars, tasks, Beside
<1>6. CASE \E c \in Tasks : (Clear(c) \/ Backfill(c)) /\ \A d \in Tasks \ {c} :
                Beside(d) \/ (Clear(c) /\ pc'[d] = pc[d] /\ cursor'[d] = cursor[d])
  <2>1. PICK c \in Tasks : (Clear(c) \/ Backfill(c)) /\ \A d \in Tasks \ {c} :
                Beside(d) \/ (Clear(c) /\ pc'[d] = pc[d] /\ cursor'[d] = cursor[d])
    BY <1>6
  <2>2. CASE c = b
    BY <1>3, <1>4, <2>1, <2>2
  <2>3. CASE c # b
    BY <1>3, <1>4, <2>1, <2>3
  <2>4. QED
    BY <2>2, <2>3
<1>7. \/ UNCHANGED vars \/ \E c \in Tasks : Clear(c) \/ Backfill(c)
  BY <1>2 DEF Next, Environment
<1>8. CASE \A c \in Tasks : Beside(c)
  <2>1. CASE \E c \in Tasks : Clear(c)
    BY <1>3, <2>1
  <2>2. CASE \E c \in Tasks : Backfill(c)
    BY <1>4, <1>8, <2>2
  <2>3. QED
    BY <1>5, <1>7, <2>1, <2>2
<1>9. QED
  BY <1>2, <1>6, <1>8, StepOfOne

\* What stays as it was when table and room do.
LEMMA FoldableKept ==
    ASSUME timeline' = timeline, rows' = rows
    PROVE  /\ \A p : Foldable(p)' <=> Foldable(p)
           /\ \A do, n : GoodPlan(do, n) => GoodPlan(do, n)'
<1>1. \A p : Promoted(p)' <=> Promoted(p)
  BY RootOfTimeline DEF Promoted, Kind
<1>2. \A p : Foldable(p)' <=> Foldable(p)
  BY <1>1 DEF Foldable, Kind, Gone
<1>3. \A do, n : GoodPlan(do, n) => GoodPlan(do, n)'
  BY <1>2 DEF GoodPlan, Edited
<1>4. QED
  BY <1>2, <1>3

LEMMA ReconciledFields ==
    ASSUME TableInv, NEW do, NEW q \in DOMAIN rows, q \notin do.delete
    PROVE  /\ q \in DOMAIN Reconciled(do)
           /\ Reconciled(do)[q].text = IF q \in DOMAIN do.text THEN do.text[q] ELSE rows[q].text
           /\ rows[q].direction = "forward" => Reconciled(do)[q].direction = "forward"
<1> DEFINE r == IF q \in DOMAIN do.text THEN [rows[q] EXCEPT !.text = do.text[q]] ELSE rows[q]
<1>1. rows[q] \in Row
  BY DEF TableInv, RowOK
<1>2. rows[q] = [direction |-> rows[q].direction, editOf |-> rows[q].editOf, text |-> rows[q].text]
  BY <1>1 DEF Row
<1>3. r = [direction |-> rows[q].direction, editOf |-> rows[q].editOf,
           text |-> IF q \in DOMAIN do.text THEN do.text[q] ELSE rows[q].text]
  BY <1>2
<1> HIDE DEF r
<1>4. /\ q \in DOMAIN Reconciled(do)
      /\ Reconciled(do)[q] = IF q \in do.promote
                             THEN [r EXCEPT !.direction = "forward", !.editOf = 0] ELSE r
  BY DEF Reconciled, r
<1>5. QED
  BY <1>3, <1>4

\* A backfill alone plans what makes the texts right.
LEMMA PlanIsGood ==
    ASSUME RoomInv, TableInv, LeftInv, CalmInv, NEW b \in Tasks, calm[b], pc[b] = "read"
    PROVE  GoodPlan(EditPlan, reached[b])
<1>1. \A e \in EditPlan.delete : e \in DOMAIN rows /\ rows[e].direction = "edit"
  <2>1. \A e \in EditPlan.delete : \E o \in Originals : e = LatestEdit(o)
    BY DEF EditPlan
  <2>2. QED
    BY <2>1, LatestEditIsLater DEF Edits
<1>2. ASSUME NEW p \in 1..reached[b], Foldable(p), Edited(p)
      PROVE  p \in DOMAIN EditPlan.text /\ EditPlan.text[p] = FinalIn(timeline, p)
  <2>1. reached[b] = Len(timeline) /\ p \in 1..Len(timeline)
    BY DEF CalmInv
  <2>2. \A q \in 1..Len(timeline) : Kind(q) = "edit" => Stored(q)
    BY <2>1 DEF CalmInv, Dealt
  <2>3. Stored(p)
    BY <1>2 DEF LeftInv, Wanted, Dealt, Foldable
  <2>4. p \in Originals /\ Resolved[p] = FinalIn(timeline, p)
    BY <1>2, <2>1, <2>2, FoldedToEnd
  <2>5. QED
    BY <2>3, <2>4 DEF EditPlan, Stored
<1>3. QED
  BY <1>1, <1>2 DEF GoodPlan

\* And writes them.
LEMMA WritesAreRight ==
    ASSUME RoomInv, TableInv, LeftInv, CalmInv, NEW b \in Tasks, calm[b], ReconcileWrites(b),
           NEW p \in 1..reached[b], Foldable(p)'
    PROVE  rows'[p].text \in {0, FinalIn(timeline, p)}
<1>0. pc[b] = "write" /\ rows' = Reconciled(plan[b]) /\ timeline' = timeline
  BY DEF ReconcileWrites
<1>1. GoodPlan(plan[b], reached[b]) /\ reached[b] = Len(timeline) /\ p \in 1..Len(timeline)
  BY <1>0 DEF CalmInv
<1>2. PlanOK(plan[b])
  BY DEF TableInv
<1>3. Kind(p) = "message" /\ ~Gone(p)
  BY <1>0 DEF Foldable, Kind, Gone
<1>4. ~Promoted(p)
  <2>1. SUFFICES ASSUME Promoted(p) PROVE Promoted(p)'
    BY DEF Foldable
  <2>2. PICK e \in DOMAIN rows : Kind(e) = "edit" /\ rows[e].direction = "forward" /\ RootIn(timeline, e) = p
    BY <2>1, RootOfTimeline DEF Promoted
  <2>3. e \notin plan[b].delete
    BY <1>1, <2>2 DEF GoodPlan
  <2>4. e \in DOMAIN rows' /\ rows'[e].direction = "forward"
    BY <1>0, <2>2, <2>3, ReconciledFields
  <2>5. QED
    BY <1>0, <2>2, <2>4, RootOfTimeline DEF Promoted, Kind
<1>5. Stored(p)
  BY <1>0, <1>3 DEF LeftInv, Wanted, Dealt
<1>6. p \in DOMAIN rows /\ p \notin plan[b].delete
  BY <1>2, <1>3, <1>5 DEF PlanOK, Stored
<1>7. rows'[p].text = IF p \in DOMAIN plan[b].text THEN plan[b].text[p] ELSE rows[p].text
  BY <1>0, <1>6, ReconciledFields
<1>8. CASE Edited(p)
  BY <1>1, <1>3, <1>4, <1>7, <1>8 DEF GoodPlan, Foldable
<1>9. CASE ~Edited(p)
  <2>1. p \notin DOMAIN plan[b].text
    BY <1>2, <1>9 DEF PlanOK
  <2>2. rows[p].text \in {0, p}
    BY <1>6, <1>9 DEF TableInv, RowOK
  <2>3. QED
    BY <1>1, <1>7, <1>9, <2>1, <2>2, FinalOfUnedited
<1>10. QED
  BY <1>8, <1>9

LEMMA CalmStep ==
    ASSUME RoomInv, RoomInv', LookInv, RestInv, TableInv, CursorInv, LeftInv, CalmInv, [Next]_vars
    PROVE  CalmInv'
<1> DEFINE OK(b) ==
        /\ reached[b] \in {0, Len(timeline)}
        /\ \A p \in 1..reached[b] : Kind(p) = "edit" => Dealt(b, p)
        /\ pc[b] = "write" => GoodPlan(plan[b], reached[b])
        /\ pc[b] = "done" => \A p \in 1..reached[b] :
            Foldable(p) => rows[p].text \in {0, FinalIn(timeline, p)}
<1>1. SUFFICES ASSUME NEW b \in Tasks, calm'[b] PROVE OK(b)'
  BY DEF CalmInv
<1>2. CASE Look(b)
  <2>1. timeline' = timeline
    BY <1>2 DEF Look
  <2>2. QED
    BY <1>2, <2>1, LookDeals
<1>3. CASE ~Look(b)
  <2>1. /\ calm[b] /\ timeline' = timeline
        /\ \/ Beside(b) /\ rows' = rows
           \/ Clear(b) \/ Backfill(b)
    BY <1>1, <1>3, CalmAlone
  <2>2. OK(b) /\ reached'[b] \in {0, reached[b]}
    BY <1>3, <2>1, ReachedStep DEF CalmInv
  <2>3. ASSUME NEW p \in 1..reached'[b], Kind(p)' = "edit" PROVE Dealt(b, p)'
    <3>1. reached'[b] # 0 /\ reached'[b] = reached[b] /\ reached[b] = Len(timeline)
      BY <2>2
    <3>2. p \in 1..Len(timeline) /\ Kind(p) = "edit" /\ Dealt(b, p)
      BY <2>1, <2>2, <2>3, <3>1 DEF Kind
    <3>3. ~Gone(p) /\ Kind(p) # "redact"
      BY <3>2, GoneIsMessage
    <3>4. CASE ReconcileWrites(b)
      <4>1. pc'[b] = "done"
        BY <3>4 DEF ReconcileWrites, Goto, LookInv
      <4>2. QED
        BY <4>1 DEF Dealt
    <3>5. CASE ~ReconcileWrites(b)
      <4>1. Stored(p) => Stored(p)'
        <5>1. CASE rows' = rows
          BY <5>1 DEF Stored
        <5>2. CASE Take(b)
          <6>1. PICK q : rows' = rows \/ rows' = SaveMessage(q)
            BY <5>2 DEF Take
          <6>2. QED
            BY <6>1, IdsOfRows DEF Stored
        <5>3. CASE ApplyRedactions(b)
          <6>1. rows' = DeleteMessages(redacted[b]) /\ p \notin redacted[b]
            BY <3>3, <5>3 DEF ApplyRedactions, LookInv
          <6>2. QED
            BY <6>1, IdsOfRows DEF Stored
        <5>4. CASE Clear(b)
          BY <3>1, <5>4 DEF Clear
        <5>5. QED
          BY <2>1, <3>5, <5>1, <5>2, <5>3, <5>4
             DEF Backfill, Look, Fetch, FetchRefused, FetchRaises, TakeUndecryptable, CutOff,
                 EndPage, ReconcileReads, Finish
      <4>2. QED
        BY <1>3, <3>1, <3>2, <3>3, <4>1, DealtStep
    <3>6. QED
      BY <3>4, <3>5
  <2>4. ASSUME pc'[b] \in {"write", "done"}
        PROVE  \/ Beside(b) /\ rows' = rows
               \/ ReconcileReads(b) /\ pc'[b] = "write"
               \/ ReconcileWrites(b) /\ pc'[b] = "done"
    <3>1. pc \in [Tasks -> {"idle", "look", "fetch", "page", "apply", "read", "write", "done"}]
      BY DEF LookInv
    <3>2. CASE Backfill(b)
      BY <2>4, <3>1, <3>2
         DEF Backfill, Look, Fetch, FetchRefused, FetchRaises, Take, TakeUndecryptable, CutOff,
             Foremost, EndPage, ApplyRedactions, ReconcileReads, ReconcileWrites, Finish, Goto
    <3>3. CASE Clear(b)
      BY <2>4, <3>1, <3>3 DEF Clear, Goto
    <3>4. QED
      BY <2>1, <3>2, <3>3
  <2>5. ASSUME pc'[b] = "write" PROVE GoodPlan(plan[b], reached[b])'
    <3>1. CASE Beside(b) /\ rows' = rows
      <4>1. PICK do, n : do = plan[b] /\ n = reached[b]
        OBVIOUS
      <4>2. GoodPlan(do, n)
        BY <2>2, <2>5, <3>1, <4>1 DEF Beside
      <4>3. GoodPlan(do, n)'
        BY <2>1, <3>1, <4>2, FoldableKept
      <4>4. plan'[b] = do /\ reached'[b] = n
        BY <3>1, <4>1 DEF Beside
      <4>5. QED
        BY <4>3, <4>4 DEF GoodPlan
    <3>2. CASE ReconcileReads(b)
      <4>1. pc[b] = "read" /\ plan' = [plan EXCEPT ![b] = EditPlan] /\ UNCHANGED <<rows, reached>>
        BY <3>2 DEF ReconcileReads
      <4>2. PICK do, n : do = EditPlan /\ n = reached[b]
        OBVIOUS
      <4>3. GoodPlan(do, n)
        BY <2>1, <4>1, <4>2, PlanIsGood
      <4>4. GoodPlan(do, n)'
        BY <2>1, <4>1, <4>3, FoldableKept
      <4>5. plan'[b] = do /\ reached'[b] = n
        BY <4>1, <4>2 DEF TableInv
      <4>6. QED
        BY <4>4, <4>5 DEF GoodPlan
    <3>3. QED
      BY <2>4, <2>5, <3>1, <3>2
  <2>6. ASSUME pc'[b] = "done", NEW p \in 1..reached'[b], Foldable(p)'
        PROVE  rows'[p].text \in {0, FinalIn(timeline', p)}
    <3>1. reached'[b] = reached[b] /\ p \in 1..reached[b]
      BY <2>2
    <3>2. CASE Beside(b) /\ rows' = rows
      <4>1. pc[b] = "done" /\ Foldable(p)
        BY <2>1, <2>6, <3>2, FoldableKept DEF Beside
      <4>2. QED
        BY <2>1, <2>2, <3>1, <3>2, <4>1
    <3>3. CASE ReconcileWrites(b)
      BY <2>1, <2>6, <3>1, <3>3, WritesAreRight
    <3>4. QED
      BY <2>4, <2>6, <3>2, <3>3
  <2>7. reached'[b] \in {0, Len(timeline')}
    BY <2>1, <2>2
  <2>8. QED
    BY <2>3, <2>5, <2>6, <2>7
<1>4. QED
  BY <1>2, <1>3

\* After a backfill that left nothing out and that nothing came between, every message has the
\* text of its newest edit, however the edits of edits are chained.
THEOREM TextsAreTheLatest == Spec => []LatestAfterBackfill
<1>1. Init => CalmInv
  BY DEF Init, CalmInv
<1>2. CalmInv => LatestAfterBackfill
  BY FinalOfTimeline DEF CalmInv, Foldable, LatestAfterBackfill
<1>3. QED
  BY <1>1, <1>2, CalmStep, RoomInvHolds, LookInvHolds, TableInvHolds, RestInvHolds, CursorInvHolds,
     LeftInvHolds, PTL DEF Spec
=============================================================================
