------------------------- MODULE ReminderOutboxProofs -------------------------
(***************************************************************************)
(* Why the provider got a notification once for the delivery that is       *)
(* committed and once for each request that died after the call, for any   *)
(* number of people, requests, notifications, retries and crashes.         *)
(***************************************************************************)
EXTENDS ReminderOutbox, FiniteSetTheorems, TLAPS

-----------------------------------------------------------------------------
(* The inductive invariant *)

Note ==
  [ status : { "pending", "failed", "sent" }, tries : Nat, waits : BOOLEAN, got : Nat, lost : Nat ]

Sending(w) == workers[w].at = "sending"

NotesTyped == \A n \in DOMAIN outbox : outbox[n] \in Note

\* What a request has in memory: rules while it creates, deliveries while it sends.
MemoryTyped ==
  /\ DOMAIN workers = Workers
  /\ \A w \in Workers :
       /\ workers[w] = [ at |-> workers[w].at, batch |-> workers[w].batch ]
       /\ workers[w].at = "creating" => \A x \in workers[w].batch : DOMAIN x = { "id", "fires" }
       /\ workers[w].at \notin { "creating", "sending" } => workers[w].batch = {}
       /\ Sending(w) => \A x \in workers[w].batch :
            /\ x = [ id |-> x.id, result |-> x.result ]
            /\ x.id \in DOMAIN outbox
            /\ x.result \in { "todo", "sent", "failed" }

\* A row is locked by one request, which has one delivery of it, and was not sent before.
RowsAreLocked ==
  /\ \A w \in Workers : Sending(w) =>
       \A x \in workers[w].batch :
         /\ outbox[x.id].status # "sent"
         /\ \A y \in workers[w].batch : x.id = y.id => x = y
  /\ \A v, w \in Workers : Sending(v) /\ Sending(w) /\ v # w =>
       \A x \in workers[v].batch, y \in workers[w].batch : x.id # y.id

\* The request holds the row and the provider accepted it.
Holds(w, n) == \E x \in workers[w].batch : Sending(w) /\ x.id = n /\ x.result = "sent"

DeliveriesAdd ==
  \A n \in DOMAIN outbox :
    outbox[n].got =
      outbox[n].lost + (IF \E w \in Workers : Holds(w, n) THEN 1 ELSE 0)
                     + (IF outbox[n].status = "sent" THEN 1 ELSE 0)

IInv == NotesTyped /\ MemoryTyped /\ RowsAreLocked /\ DeliveriesAdd

-----------------------------------------------------------------------------
(* From the invariant to what it is for *)

LEMMA HeldIsHeld ==
  ASSUME MemoryTyped, NEW w \in Workers, NEW n
  PROVE  [ id |-> n, result |-> "sent" ] \in workers[w].batch <=> Holds(w, n)
<1> DEFINE d == [ id |-> n, result |-> "sent" ]
<1>1. DOMAIN d = { "id", "result" } /\ d.id = n /\ d.result = "sent"
  OBVIOUS
<1>2. "fires" \notin DOMAIN d
  BY <1>1
<1> HIDE DEF d
<1>3. ASSUME d \in workers[w].batch PROVE Sending(w)
  <2>1. workers[w].at # "creating"
    <3> SUFFICES ASSUME workers[w].at = "creating" PROVE FALSE
      OBVIOUS
    <3>1. DOMAIN d = { "id", "fires" }
      BY <1>3 DEF MemoryTyped
    <3> QED
      BY <1>2, <3>1
  <2> QED
    BY <1>3, <2>1 DEF MemoryTyped, Sending
<1>4. d \in workers[w].batch => Holds(w, n)
  BY <1>1, <1>3 DEF Holds
<1>5. ASSUME Holds(w, n) PROVE d \in workers[w].batch
  <2>1. PICK x \in workers[w].batch : Sending(w) /\ x.id = n /\ x.result = "sent"
    BY <1>5 DEF Holds
  <2>2. x = [ id |-> x.id, result |-> x.result ]
    BY <2>1 DEF MemoryTyped
  <2>3. x = d
    BY <2>1, <2>2 DEF d
  <2> QED
    BY <2>3
<1> QED
  BY <1>4, <1>5 DEF d

LEMMA AddedIsCounted == IInv => DeliveredOnce
<1> SUFFICES ASSUME IInv, NEW n \in DOMAIN outbox
             PROVE  LET held == { w \in Workers : [ id |-> n, result |-> "sent" ] \in workers[w].batch }
                    IN  outbox[n].got =
                          outbox[n].lost + Cardinality(held)
                                         + (IF outbox[n].status = "sent" THEN 1 ELSE 0)
  BY DEF DeliveredOnce
<1> DEFINE held == { w \in Workers : [ id |-> n, result |-> "sent" ] \in workers[w].batch }
<1>1. held = { w \in Workers : Holds(w, n) }
  BY HeldIsHeld DEF IInv
<1> HIDE DEF held
<1>2. \A v, w \in held : v = w
  BY <1>1 DEF IInv, RowsAreLocked, Holds
<1>3. Cardinality(held) = IF \E w \in Workers : Holds(w, n) THEN 1 ELSE 0
  <2>1. CASE \E w \in Workers : Holds(w, n)
    <3> PICK w \in Workers : Holds(w, n)
      BY <2>1
    <3>1. held = {w}
      BY <1>1, <1>2
    <3> QED
      BY <2>1, <3>1, FS_Singleton
  <2>2. CASE ~\E w \in Workers : Holds(w, n)
    <3>1. held = {}
      BY <1>1, <2>2
    <3> QED
      BY <2>2, <3>1, FS_EmptySet
  <2> QED
    BY <2>1, <2>2
<1> QED
  BY <1>3 DEF IInv, DeliveriesAdd, held

-----------------------------------------------------------------------------
(* Steps *)

LEMMA NewNoteIsANote ==
  NewNote \in Note /\ NewNote.status = "pending" /\ NewNote.got = 0 /\ NewNote.lost = 0
BY DEF NewNote, Note

\* The rows grow by notes that nobody delivered yet, and stay as they are.
Grows(new) ==
  /\ DOMAIN outbox' = DOMAIN outbox \cup new
  /\ \A n \in DOMAIN outbox : outbox'[n] = outbox[n]
  /\ \A n \in new \ DOMAIN outbox : outbox'[n] = NewNote

LEMMA InsertGrows ==
  ASSUME NEW new, outbox' = Inserted(new)
  PROVE  Grows(new)
BY DEF Grows, Inserted

LEMMA UnheldIsUncounted ==
  ASSUME IInv, NEW n, n \notin DOMAIN outbox
  PROVE  \A w \in Workers : ~Holds(w, n)
BY DEF IInv, MemoryTyped, Holds

\* Nobody's deliveries change.
LEMMA GrowthKeeps ==
  ASSUME IInv, NEW new, Grows(new), UNCHANGED workers
  PROVE  IInv'
<1>1. NotesTyped'
  BY NewNoteIsANote DEF IInv, NotesTyped, Grows
<1>2. MemoryTyped'
  BY DEF IInv, MemoryTyped, Grows, Sending
<1>3. RowsAreLocked'
  BY DEF IInv, MemoryTyped, RowsAreLocked, Grows, Sending
<1>4. \A w \in Workers : \A n : Holds(w, n)' <=> Holds(w, n)
  BY DEF Holds, Sending
<1>5. DeliveriesAdd'
  <2> SUFFICES ASSUME NEW n \in DOMAIN outbox'
               PROVE  outbox'[n].got =
                        outbox'[n].lost + (IF \E w \in Workers : Holds(w, n)' THEN 1 ELSE 0)
                                        + (IF outbox'[n].status = "sent" THEN 1 ELSE 0)
    BY DEF DeliveriesAdd
  <2>1. CASE n \in DOMAIN outbox
    BY <1>4, <2>1 DEF IInv, DeliveriesAdd, Grows
  <2>2. CASE n \notin DOMAIN outbox
    BY <1>4, <2>2, UnheldIsUncounted, NewNoteIsANote DEF Grows
  <2> QED
    BY <2>1, <2>2
<1> QED
  BY <1>1, <1>2, <1>3, <1>5 DEF IInv

\* A request that sends nothing, before and after.
LEMMA QuietKeeps ==
  ASSUME IInv, NEW w \in Workers, NEW at, NEW batch, NEW new, Grows(new),
         ~Sending(w), at # "sending",
         workers' = [ workers EXCEPT ![w] = [ at |-> at, batch |-> batch ] ],
         at = "creating" => \A x \in batch : DOMAIN x = { "id", "fires" },
         at # "creating" => batch = {}
  PROVE  IInv'
<1>1. /\ DOMAIN workers' = Workers
      /\ \A v \in Workers :
           workers'[v] = IF v = w THEN [ at |-> at, batch |-> batch ] ELSE workers[v]
  BY DEF IInv, MemoryTyped
<1>2. \A v \in Workers : Sending(v)' <=> Sending(v)
  BY <1>1 DEF Sending
<1>3. \A v \in Workers : Sending(v) => workers'[v] = workers[v]
  BY <1>1
<1>4. NotesTyped'
  BY NewNoteIsANote DEF IInv, NotesTyped, Grows
<1>5. MemoryTyped'
  BY <1>1, <1>2, <1>3 DEF IInv, MemoryTyped, Grows
<1>6. RowsAreLocked'
  BY <1>2, <1>3 DEF IInv, MemoryTyped, RowsAreLocked, Grows
<1>7. \A v \in Workers : \A n : Holds(v, n)' <=> Holds(v, n)
  BY <1>2, <1>3 DEF Holds
<1>8. DeliveriesAdd'
  <2> SUFFICES ASSUME NEW n \in DOMAIN outbox'
               PROVE  outbox'[n].got =
                        outbox'[n].lost + (IF \E v \in Workers : Holds(v, n)' THEN 1 ELSE 0)
                                        + (IF outbox'[n].status = "sent" THEN 1 ELSE 0)
    BY DEF DeliveriesAdd
  <2>1. CASE n \in DOMAIN outbox
    BY <1>7, <2>1 DEF IInv, DeliveriesAdd, Grows
  <2>2. CASE n \notin DOMAIN outbox
    BY <1>7, <2>2, UnheldIsUncounted, NewNoteIsANote DEF Grows
  <2> QED
    BY <2>1, <2>2
<1> QED
  BY <1>4, <1>5, <1>6, <1>8 DEF IInv

\* Rows that keep what the provider did and what was committed of it.
LEMMA RowsKeep ==
  ASSUME IInv, UNCHANGED workers,
         DOMAIN outbox' = DOMAIN outbox,
         \A n \in DOMAIN outbox :
           /\ outbox'[n] \in Note
           /\ outbox'[n].status = outbox[n].status
           /\ outbox'[n].got = outbox[n].got
           /\ outbox'[n].lost = outbox[n].lost
  PROVE  IInv'
<1>1. NotesTyped'
  BY DEF NotesTyped
<1>2. MemoryTyped'
  BY DEF IInv, MemoryTyped, Sending
<1>3. RowsAreLocked'
  BY DEF IInv, MemoryTyped, RowsAreLocked, Sending
<1>4. \A w \in Workers : \A n : Holds(w, n)' <=> Holds(w, n)
  BY DEF Holds, Sending
<1>5. DeliveriesAdd'
  BY <1>4 DEF IInv, DeliveriesAdd
<1> QED
  BY <1>1, <1>2, <1>3, <1>5 DEF IInv

LEMMA ClaimKeeps ==
  ASSUME IInv, NEW w \in Workers, ClaimPending(w)
  PROVE  IInv'
<1>1. PICK batch \in SUBSET Claimable :
        workers' = [ workers EXCEPT ![w] =
          [ at |-> "sending", batch |-> { [ id |-> n, result |-> "todo" ] : n \in batch } ] ]
  BY DEF ClaimPending
<1>2. UNCHANGED outbox /\ workers[w].at = "created"
  BY DEF ClaimPending
<1> DEFINE claims == { [ id |-> n, result |-> "todo" ] : n \in batch }
<1>3. \A x \in claims : x = [ id |-> x.id, result |-> x.result ] /\ x.id \in batch /\ x.result = "todo"
  OBVIOUS
<1>4. \A n \in batch : n \in DOMAIN outbox /\ outbox[n].status # "sent" /\ n \notin Claimed
  BY DEF Claimable, Retriable
<1>5. /\ DOMAIN workers' = Workers
      /\ \A v \in Workers :
           workers'[v] = IF v = w THEN [ at |-> "sending", batch |-> claims ] ELSE workers[v]
  BY <1>1 DEF IInv, MemoryTyped
<1> HIDE DEF claims
<1>6. \A v \in Workers : Sending(v)' <=> (Sending(v) \/ v = w)
  BY <1>5 DEF Sending
<1>7. \A v \in Workers : Sending(v) => \A x \in workers[v].batch : x.id \in Claimed
  BY DEF Sending, Claimed
<1>8. NotesTyped'
  BY <1>2 DEF IInv, NotesTyped
<1>9. MemoryTyped'
  BY <1>2, <1>3, <1>4, <1>5, <1>6 DEF IInv, MemoryTyped
<1>10. RowsAreLocked'
  <2>1. \A x, y \in claims : x.id = y.id => x = y
    BY <1>3
  <2>2. \A v \in Workers : Sending(v)' => \A x \in workers'[v].batch :
          /\ outbox'[x.id].status # "sent"
          /\ \A y \in workers'[v].batch : x.id = y.id => x = y
    BY <1>2, <1>3, <1>4, <1>5, <1>6, <2>1 DEF IInv, RowsAreLocked
  <2>3. \A u, v \in Workers : Sending(u)' /\ Sending(v)' /\ u # v =>
          \A x \in workers'[u].batch, y \in workers'[v].batch : x.id # y.id
    BY <1>3, <1>4, <1>5, <1>6, <1>7 DEF IInv, RowsAreLocked
  <2> QED
    BY <2>2, <2>3 DEF RowsAreLocked
<1>11. \A v \in Workers : \A n : Holds(v, n)' <=> Holds(v, n)
  BY <1>2, <1>3, <1>5, <1>6 DEF Holds, Sending
<1>12. DeliveriesAdd'
  BY <1>2, <1>11 DEF IInv, DeliveriesAdd
<1> QED
  BY <1>8, <1>9, <1>10, <1>12 DEF IInv

LEMMA CallKeeps ==
  ASSUME IInv, NEW w \in Workers, NEW x \in workers[w].batch, NEW result \in { "sent", "failed" },
         CallProvider(w, x, result)
  PROVE  IInv'
<1> DEFINE d == [ id |-> x.id, result |-> result ]
           batch == (workers[w].batch \ {x}) \cup {d}
<1>1. Sending(w) /\ x.result = "todo" /\ x.id \in DOMAIN outbox
  BY DEF CallProvider, Sending, IInv, MemoryTyped
<1>2. d = [ id |-> d.id, result |-> d.result ] /\ d.id = x.id /\ d.result = result
  OBVIOUS
<1>3. /\ DOMAIN workers' = Workers
      /\ \A v \in Workers : workers'[v] = IF v = w THEN [ at |-> "sending", batch |-> batch ]
                                          ELSE workers[v]
  <2>1. workers[w] = [ at |-> "sending", batch |-> workers[w].batch ]
    BY <1>1 DEF IInv, MemoryTyped, Sending
  <2>2. [ workers[w] EXCEPT !.batch = batch ] = [ at |-> "sending", batch |-> batch ]
    BY <2>1
  <2> QED
    BY <2>2 DEF CallProvider, IInv, MemoryTyped
<1>4. /\ DOMAIN outbox' = DOMAIN outbox
      /\ \A n \in DOMAIN outbox : n # x.id => outbox'[n] = outbox[n]
      /\ outbox'[x.id] = [ outbox[x.id] EXCEPT !.got = IF result = "sent" THEN @ + 1 ELSE @ ]
  BY <1>1 DEF CallProvider
<1>5. /\ outbox[x.id] \in Note /\ outbox'[x.id] \in Note
      /\ outbox'[x.id].status = outbox[x.id].status
      /\ outbox'[x.id].lost = outbox[x.id].lost
      /\ outbox'[x.id].got = outbox[x.id].got + (IF result = "sent" THEN 1 ELSE 0)
  BY <1>1, <1>4 DEF IInv, NotesTyped, Note
<1> HIDE DEF d
<1>6. \A v \in Workers : Sending(v)' <=> Sending(v)
  BY <1>1, <1>3 DEF Sending
<1>7. NotesTyped'
  BY <1>4, <1>5 DEF IInv, NotesTyped
<1>8. MemoryTyped'
  <2>1. \A y \in batch : /\ y = [ id |-> y.id, result |-> y.result ]
                        /\ y.id \in DOMAIN outbox
                        /\ y.result \in { "todo", "sent", "failed" }
    BY <1>1, <1>2 DEF IInv, MemoryTyped
  <2> HIDE DEF batch
  <2> QED
    BY <1>1, <1>3, <1>4, <1>6, <2>1 DEF IInv, MemoryTyped, Sending
<1>9. \A y \in workers[w].batch : y.id = x.id => y = x
  BY <1>1 DEF IInv, RowsAreLocked
<1>10. \A y \in batch : y = d \/ (y \in workers[w].batch /\ y.id # x.id)
  BY <1>9
<1>11. \A y \in batch : \E z \in workers[w].batch : z.id = y.id
  BY <1>2
<1>12. RowsAreLocked'
  <2>1. \A v \in Workers : Sending(v) => \A y \in workers'[v].batch :
          \E z \in workers[v].batch : z.id = y.id
    BY <1>3, <1>11
  <2>2. \A v \in Workers : Sending(v) => \A y \in workers'[v].batch : y.id \in DOMAIN outbox
    BY <2>1 DEF IInv, MemoryTyped
  <2>3. \A n \in DOMAIN outbox : outbox'[n].status = outbox[n].status
    BY <1>4, <1>5
  <2>4. \A v \in Workers : Sending(v) =>
          \A y, z \in workers'[v].batch : y.id = z.id => y = z
    BY <1>2, <1>3, <1>10 DEF IInv, RowsAreLocked
  <2>5. \A v \in Workers : Sending(v) => \A y \in workers'[v].batch : outbox'[y.id].status # "sent"
    BY <2>1, <2>2, <2>3 DEF IInv, RowsAreLocked
  <2>6. \A u, v \in Workers : Sending(u) /\ Sending(v) /\ u # v =>
          \A y \in workers'[u].batch, z \in workers'[v].batch : y.id # z.id
    <3> SUFFICES ASSUME NEW u \in Workers, NEW v \in Workers, Sending(u), Sending(v), u # v,
                        NEW y \in workers'[u].batch, NEW z \in workers'[v].batch
                 PROVE  y.id # z.id
      OBVIOUS
    <3>1. PICK s \in workers[u].batch : s.id = y.id
      BY <2>1
    <3>2. PICK t \in workers[v].batch : t.id = z.id
      BY <2>1
    <3> QED
      BY <3>1, <3>2 DEF IInv, RowsAreLocked
  <2> QED
    BY <1>6, <2>4, <2>5, <2>6 DEF RowsAreLocked
<1>13. \A v \in Workers : ~Holds(v, x.id)
  <2>1. ~Holds(w, x.id)
    BY <1>1, <1>9 DEF Holds
  <2>2. \A v \in Workers \ {w} : ~Holds(v, x.id)
    BY <1>1 DEF Holds, IInv, RowsAreLocked
  <2> QED
    BY <2>1, <2>2
<1>14. \A n : n # x.id => \A v \in Workers : Holds(v, n)' <=> Holds(v, n)
  BY <1>2, <1>3, <1>6, <1>10 DEF Holds
<1>15. (\E v \in Workers : Holds(v, x.id)') <=> result = "sent"
  <2>1. ASSUME NEW v \in Workers, v # w PROVE ~Holds(v, x.id)'
    BY <1>3, <1>6, <1>13, <2>1 DEF Holds
  <2>2. Holds(w, x.id)' <=> result = "sent"
    BY <1>1, <1>2, <1>3, <1>6, <1>10 DEF Holds
  <2> QED
    BY <2>1, <2>2
<1>16. DeliveriesAdd'
  <2> SUFFICES ASSUME NEW n \in DOMAIN outbox
               PROVE  outbox'[n].got =
                        outbox'[n].lost + (IF \E v \in Workers : Holds(v, n)' THEN 1 ELSE 0)
                                        + (IF outbox'[n].status = "sent" THEN 1 ELSE 0)
    BY <1>4 DEF DeliveriesAdd
  <2>1. CASE n = x.id
    <3>1. outbox[n].got = outbox[n].lost + (IF outbox[n].status = "sent" THEN 1 ELSE 0)
      BY <1>5, <1>13, <2>1 DEF IInv, DeliveriesAdd, Note
    <3>2. outbox[n].status # "sent"
      BY <1>1, <2>1 DEF IInv, RowsAreLocked
    <3> QED
      BY <1>5, <1>15, <2>1, <3>1, <3>2 DEF Note
  <2>2. CASE n # x.id
    BY <1>4, <1>14, <2>2 DEF IInv, DeliveriesAdd
  <2> QED
    BY <2>1, <2>2
<1> QED
  BY <1>7, <1>8, <1>12, <1>16 DEF IInv

Ids(w) == { x.id : x \in workers[w].batch }

\* The request lets go of its rows: what the provider accepted is committed, or was for a
\* request that died.
LEMMA EndsKeep ==
  ASSUME IInv, NEW w \in Workers, Sending(w),
         workers' = [ workers EXCEPT ![w] = [ at |-> "idle", batch |-> {} ] ],
         DOMAIN outbox' = DOMAIN outbox,
         \A n \in DOMAIN outbox :
           /\ outbox'[n] \in Note
           /\ n \notin Ids(w) => outbox'[n] = outbox[n]
           /\ n \in Ids(w) =>
                /\ outbox'[n].got = outbox[n].got
                /\ outbox'[n].lost + (IF outbox'[n].status = "sent" THEN 1 ELSE 0)
                     = outbox[n].lost + (IF Holds(w, n) THEN 1 ELSE 0)
  PROVE  IInv'
<1>1. /\ DOMAIN workers' = Workers
      /\ \A v \in Workers :
           workers'[v] = IF v = w THEN [ at |-> "idle", batch |-> {} ] ELSE workers[v]
  BY DEF IInv, MemoryTyped
<1>2. \A v \in Workers : Sending(v)' <=> (Sending(v) /\ v # w)
  BY <1>1 DEF Sending
<1>3. NotesTyped'
  BY DEF NotesTyped
<1>4. MemoryTyped'
  BY <1>1, <1>2 DEF IInv, MemoryTyped
<1>5. \A v \in Workers : Sending(v) /\ v # w => \A x \in workers[v].batch : x.id \notin Ids(w)
  BY DEF IInv, RowsAreLocked, Ids
<1>6. RowsAreLocked'
  <2>1. \A v \in Workers : Sending(v) /\ v # w =>
          \A x \in workers[v].batch : outbox'[x.id] = outbox[x.id]
    BY <1>5 DEF IInv, MemoryTyped
  <2> QED
    BY <1>1, <1>2, <2>1 DEF IInv, RowsAreLocked
<1>7. \A v \in Workers : \A n : Holds(v, n)' <=> (Holds(v, n) /\ v # w)
  BY <1>1, <1>2 DEF Holds
<1>8. \A n : Holds(w, n) => n \in Ids(w)
  BY DEF Holds, Ids
<1>9. \A n \in Ids(w) : \A v \in Workers : Holds(v, n) => v = w
  BY <1>5 DEF Holds
<1>10. DeliveriesAdd'
  <2> SUFFICES ASSUME NEW n \in DOMAIN outbox
               PROVE  outbox'[n].got =
                        outbox'[n].lost + (IF \E v \in Workers : Holds(v, n)' THEN 1 ELSE 0)
                                        + (IF outbox'[n].status = "sent" THEN 1 ELSE 0)
    BY DEF DeliveriesAdd
  <2>1. CASE n \in Ids(w)
    <3>1. outbox[n].status # "sent"
      BY <2>1 DEF IInv, RowsAreLocked, Ids
    <3>2. outbox[n].got = outbox[n].lost + (IF Holds(w, n) THEN 1 ELSE 0)
      <4>1. (\E v \in Workers : Holds(v, n)) <=> Holds(w, n)
        BY <1>9, <2>1
      <4>2. outbox[n] \in Note
        BY DEF IInv, NotesTyped
      <4> QED
        BY <3>1, <4>1, <4>2 DEF IInv, DeliveriesAdd, Note
    <3>3. ~\E v \in Workers : Holds(v, n)'
      BY <1>7, <1>9, <2>1
    <3>4. outbox'[n] \in Note
      OBVIOUS
    <3> QED
      BY <2>1, <3>2, <3>3, <3>4 DEF Note
  <2>2. CASE n \notin Ids(w)
    <3>1. \A v \in Workers : Holds(v, n)' <=> Holds(v, n)
      BY <1>7, <1>8, <2>2
    <3> QED
      BY <2>2, <3>1 DEF IInv, DeliveriesAdd
  <2> QED
    BY <2>1, <2>2
<1> QED
  BY <1>3, <1>4, <1>6, <1>10 DEF IInv

\* At the end each delivery was accepted or failed.
LEMMA FailedIsFailed ==
  ASSUME IInv, NEW w \in Workers, CommitSending(w), NEW n
  PROVE  [ id |-> n, result |-> "failed" ] \in workers[w].batch <=> (n \in Ids(w) /\ ~Holds(w, n))
<1>1. Sending(w) /\ \A x \in workers[w].batch : x = [ id |-> x.id, result |-> x.result ]
  BY DEF CommitSending, Sending, IInv, MemoryTyped
<1>2. \A x \in workers[w].batch : x.result \in { "sent", "failed" }
  BY <1>1 DEF CommitSending, IInv, MemoryTyped
<1>3. \A x, y \in workers[w].batch : x.id = y.id => x = y
  BY <1>1 DEF IInv, RowsAreLocked
<1> DEFINE d == [ id |-> n, result |-> "failed" ]
<1>4. d.id = n /\ d.result = "failed" /\ d.result # "sent"
  OBVIOUS
<1>5. \A x \in workers[w].batch : x.id = n /\ x.result = "failed" => x = d
  BY <1>1
<1> HIDE DEF d
<1>6. d \in workers[w].batch <=> (n \in Ids(w) /\ ~Holds(w, n))
  BY <1>1, <1>2, <1>3, <1>4, <1>5 DEF Ids, Holds
<1> QED
  BY <1>6 DEF d

LEMMA CommitKeeps ==
  ASSUME IInv, NEW w \in Workers, CommitSending(w)
  PROVE  IInv'
<1>1. Sending(w) /\ Ids(w) \subseteq DOMAIN outbox
  <2>1. Sending(w)
    BY DEF CommitSending, Sending
  <2> QED
    BY <2>1 DEF IInv, MemoryTyped, Ids
<1>2. /\ DOMAIN outbox' = DOMAIN outbox
      /\ \A n \in DOMAIN outbox : outbox'[n] =
           IF n \notin Ids(w) THEN outbox[n]
           ELSE IF Holds(w, n) THEN [ outbox[n] EXCEPT !.status = "sent", !.waits = FALSE ]
           ELSE Failed(outbox[n])
  <2>1. \A n : [ id |-> n, result |-> "sent" ] \in workers[w].batch <=> Holds(w, n)
    BY HeldIsHeld DEF IInv
  <2>2. \A n : [ id |-> n, result |-> "failed" ] \in workers[w].batch
                <=> (n \in Ids(w) /\ ~Holds(w, n))
    BY FailedIsFailed
  <2>3. \A n : Holds(w, n) => n \in Ids(w)
    BY DEF Holds, Ids
  <2> QED
    BY <2>1, <2>2, <2>3 DEF CommitSending
<1>3. \A n \in Ids(w) : outbox[n] \in Note /\ outbox[n].status # "sent"
  BY <1>1 DEF IInv, NotesTyped, RowsAreLocked, Ids
<1>4. \A note \in Note :
        /\ [ note EXCEPT !.status = "sent", !.waits = FALSE ] \in Note
        /\ [ note EXCEPT !.status = "sent", !.waits = FALSE ].status = "sent"
        /\ [ note EXCEPT !.status = "sent", !.waits = FALSE ].got = note.got
        /\ [ note EXCEPT !.status = "sent", !.waits = FALSE ].lost = note.lost
  BY DEF Note
<1>5. \A note \in Note :
        /\ Failed(note) \in Note
        /\ Failed(note).status = "failed"
        /\ Failed(note).got = note.got
        /\ Failed(note).lost = note.lost
  <2> SUFFICES ASSUME NEW note \in Note
               PROVE  /\ Failed(note) \in Note
                      /\ Failed(note).status = "failed"
                      /\ Failed(note).got = note.got
                      /\ Failed(note).lost = note.lost
    OBVIOUS
  <2>1. note.tries + 1 \in Nat
    BY DEF Note
  <2>2. \A again \in BOOLEAN, tries \in Nat :
          LET row == [ note EXCEPT !.status = "failed", !.tries = tries, !.waits = again ]
          IN  /\ row \in Note
              /\ row.status = "failed" /\ row.got = note.got /\ row.lost = note.lost
    BY DEF Note
  <2>3. (note.tries + 1 < MaxTries) \in BOOLEAN
    OBVIOUS
  <2> QED
    BY <2>1, <2>2, <2>3 DEF Failed
<1>6. \A n \in DOMAIN outbox :
        /\ outbox'[n] \in Note
        /\ n \notin Ids(w) => outbox'[n] = outbox[n]
        /\ n \in Ids(w) =>
             /\ outbox'[n].got = outbox[n].got
             /\ outbox'[n].lost = outbox[n].lost
             /\ outbox'[n].status = "sent" <=> Holds(w, n)
  <2> SUFFICES ASSUME NEW n \in DOMAIN outbox
               PROVE  /\ outbox'[n] \in Note
                      /\ n \notin Ids(w) => outbox'[n] = outbox[n]
                      /\ n \in Ids(w) =>
                           /\ outbox'[n].got = outbox[n].got
                           /\ outbox'[n].lost = outbox[n].lost
                           /\ outbox'[n].status = "sent" <=> Holds(w, n)
    OBVIOUS
  <2>1. outbox[n] \in Note
    BY DEF IInv, NotesTyped
  <2>2. CASE n \notin Ids(w)
    BY <1>2, <2>1, <2>2
  <2>3. CASE n \in Ids(w) /\ Holds(w, n)
    BY <1>2, <1>4, <2>1, <2>3
  <2>4. CASE n \in Ids(w) /\ ~Holds(w, n)
    BY <1>2, <1>5, <2>1, <2>4
  <2> QED
    BY <2>2, <2>3, <2>4
<1>7. workers' = [ workers EXCEPT ![w] = [ at |-> "idle", batch |-> {} ] ]
  BY DEF CommitSending
<1> QED
  BY <1>1, <1>2, <1>6, <1>7, EndsKeep

LEMMA CrashKeeps ==
  ASSUME IInv, NEW w \in Workers, Crash(w)
  PROVE  IInv'
<1>1. Sending(w) /\ Ids(w) \subseteq DOMAIN outbox
  BY DEF Crash, Sending, IInv, MemoryTyped, Ids
<1>3. \A n : Holds(w, n) => n \in Ids(w)
  BY DEF Holds, Ids
<1>4. /\ DOMAIN outbox' = DOMAIN outbox
      /\ \A n \in DOMAIN outbox : outbox'[n] =
           IF Holds(w, n) THEN [ outbox[n] EXCEPT !.lost = @ + 1 ] ELSE outbox[n]
  BY HeldIsHeld DEF Crash, IInv
<1>5. \A n \in Ids(w) : outbox[n].status # "sent"
  BY <1>1 DEF IInv, RowsAreLocked, Ids
<1>6. \A note \in Note :
        /\ [ note EXCEPT !.lost = @ + 1 ] \in Note
        /\ [ note EXCEPT !.lost = @ + 1 ].status = note.status
        /\ [ note EXCEPT !.lost = @ + 1 ].got = note.got
        /\ [ note EXCEPT !.lost = @ + 1 ].lost = note.lost + 1
  BY DEF Note
<1>7. \A n \in DOMAIN outbox :
        /\ outbox'[n] \in Note
        /\ n \notin Ids(w) => outbox'[n] = outbox[n]
        /\ n \in Ids(w) =>
             /\ outbox'[n].got = outbox[n].got
             /\ outbox'[n].status # "sent"
             /\ outbox'[n].lost = outbox[n].lost + (IF Holds(w, n) THEN 1 ELSE 0)
  <2> SUFFICES ASSUME NEW n \in DOMAIN outbox
               PROVE  /\ outbox'[n] \in Note
                      /\ n \notin Ids(w) => outbox'[n] = outbox[n]
                      /\ n \in Ids(w) =>
                           /\ outbox'[n].got = outbox[n].got
                           /\ outbox'[n].status # "sent"
                           /\ outbox'[n].lost = outbox[n].lost + (IF Holds(w, n) THEN 1 ELSE 0)
    OBVIOUS
  <2>1. outbox[n] \in Note /\ outbox[n].lost \in Nat
    BY DEF IInv, NotesTyped, Note
  <2>2. CASE Holds(w, n)
    BY <1>3, <1>4, <1>5, <1>6, <2>1, <2>2
  <2>3. CASE ~Holds(w, n)
    BY <1>4, <1>5, <2>1, <2>3
  <2> QED
    BY <2>2, <2>3
<1>8. workers' = [ workers EXCEPT ![w] = [ at |-> "idle", batch |-> {} ] ]
  BY DEF Crash
<1>9. \A n \in Ids(w) : outbox'[n].lost \in Nat
  BY <1>1, <1>7 DEF Note
<1> QED
  <2>1. \A n \in Ids(w) : outbox'[n].lost + (IF outbox'[n].status = "sent" THEN 1 ELSE 0)
                             = outbox[n].lost + (IF Holds(w, n) THEN 1 ELSE 0)
    BY <1>1, <1>7, <1>9
  <2> QED
    BY <1>1, <1>4, <1>7, <1>8, <2>1, EndsKeep

LEMMA CreatesKeep ==
  ASSUME IInv, NEW w \in Workers,
         LoadDueRules(w) \/ CreationConflict(w) \/ CreateDueNotifications(w)
  PROVE  IInv'
<1>1. outbox' = outbox => Grows({})
  BY DEF Grows
<1>2. CASE LoadDueRules(w)
  <2> DEFINE batch == { [ id |-> [ key |-> k, at |-> rules[k].at, to |-> rules[k].to ],
                          fires |-> Actionable(k) ] :
                        k \in { j \in DOMAIN rules : rules[j].armed /\ rules[j].at <= now } }
  <2>1. \A x \in batch : DOMAIN x = { "id", "fires" }
    OBVIOUS
  <2>2. /\ workers' = [ workers EXCEPT ![w] = [ at |-> "creating", batch |-> batch ] ]
        /\ outbox' = outbox /\ ~Sending(w)
    BY <1>2 DEF LoadDueRules, Sending
  <2> HIDE DEF batch
  <2> QED
    BY <1>1, <2>1, <2>2, QuietKeeps
<1>3. CASE CreationConflict(w)
  <2>1. /\ workers' = [ workers EXCEPT ![w] = [ at |-> "idle", batch |-> {} ] ]
        /\ outbox' = outbox /\ ~Sending(w)
    BY <1>3 DEF CreationConflict, Sending
  <2> QED
    <3>1. Grows({}) /\ "idle" \notin { "sending", "creating" }
      BY <1>1, <2>1
    <3> QED
      BY <2>1, <3>1, QuietKeeps
<1>4. CASE CreateDueNotifications(w)
  <2>1. PICK at \in { "created", "idle" } :
          workers' = [ workers EXCEPT ![w] = [ at |-> at, batch |-> {} ] ]
    BY <1>4 DEF CreateDueNotifications
  <2>2. Grows(Fires(w)) /\ ~Sending(w)
    BY <1>4, InsertGrows DEF CreateDueNotifications, Sending
  <2> QED
    BY <2>1, <2>2, QuietKeeps
<1> QED
  BY <1>2, <1>3, <1>4

LEMMA RequestKeeps ==
  ASSUME IInv, NEW w \in Workers, Request(w)
  PROVE  IInv'
<1>1. CASE \E x \in workers[w].batch, result \in { "sent", "failed" } : CallProvider(w, x, result)
  BY <1>1, CallKeeps
<1>2. CASE LoadDueRules(w) \/ CreationConflict(w) \/ CreateDueNotifications(w)
  BY <1>2, CreatesKeep
<1>3. CASE ClaimPending(w)
  BY <1>3, ClaimKeeps
<1>4. CASE CommitSending(w)
  BY <1>4, CommitKeeps
<1> QED
  BY <1>1, <1>2, <1>3, <1>4 DEF Request

LEMMA RetryKeeps ==
  ASSUME IInv, Retry
  PROVE  IInv'
<1> PICK n \in DOMAIN outbox : RetryFallsDue(n)
  BY DEF Retry
<1>1. \A note \in Note :
        /\ [ note EXCEPT !.waits = FALSE ] \in Note
        /\ [ note EXCEPT !.waits = FALSE ].status = note.status
        /\ [ note EXCEPT !.waits = FALSE ].got = note.got
        /\ [ note EXCEPT !.waits = FALSE ].lost = note.lost
  BY DEF Note
<1>2. /\ DOMAIN outbox' = DOMAIN outbox /\ UNCHANGED workers
      /\ \A m \in DOMAIN outbox :
           outbox'[m] = IF m = n THEN [ outbox[n] EXCEPT !.waits = FALSE ] ELSE outbox[m]
  BY DEF RetryFallsDue
<1> QED
  <2>1. \A m \in DOMAIN outbox : outbox[m] \in Note
    BY DEF IInv, NotesTyped
  <2>2. \A m \in DOMAIN outbox :
          /\ outbox'[m] \in Note
          /\ outbox'[m].status = outbox[m].status
          /\ outbox'[m].got = outbox[m].got
          /\ outbox'[m].lost = outbox[m].lost
    BY <1>1, <1>2, <2>1
  <2> QED
    BY <1>2, <2>2, RowsKeep

LEMMA HandlersKeep ==
  ASSUME IInv, Handlers
  PROVE  IInv'
<1>1. UNCHANGED workers /\ \E new : Grows(new)
  <2>1. \/ UNCHANGED outbox
        \/ \E n : outbox' = Inserted({n})
    BY DEF Handlers, AcceptNodeAssignment, RejectNodeAssignment, Handover, Announce, Settle, Move
  <2>2. UNCHANGED workers
    BY DEF Handlers, AcceptNodeAssignment, RejectNodeAssignment, Handover, Announce, Settle, Move
  <2>3. CASE UNCHANGED outbox
    <3>1. Grows({})
      BY <2>3 DEF Grows
    <3> QED
      BY <2>2, <3>1
  <2>4. ASSUME NEW n, outbox' = Inserted({n}) PROVE Grows({n})
    BY <2>4, InsertGrows
  <2> QED
    BY <2>1, <2>2, <2>3, <2>4
<1> QED
  BY <1>1, GrowthKeeps

LEMMA InitIInv == Init => IInv
<1> SUFFICES ASSUME Init PROVE IInv
  OBVIOUS
<1>1. \A n \in DOMAIN outbox : outbox[n] = NewNote
  BY DEF Init
<1>2. DOMAIN workers = Workers /\ \A w \in Workers : workers[w] = [ at |-> "idle", batch |-> {} ]
  BY DEF Init
<1>3. \A w \in Workers : ~Sending(w) /\ \A n : ~Holds(w, n)
  BY <1>2 DEF Sending, Holds
<1>4. NotesTyped
  BY <1>1, NewNoteIsANote DEF NotesTyped
<1>5. MemoryTyped
  BY <1>2, <1>3 DEF MemoryTyped
<1>6. RowsAreLocked
  BY <1>3 DEF RowsAreLocked
<1>7. DeliveriesAdd
  BY <1>1, <1>3, NewNoteIsANote DEF DeliveriesAdd
<1> QED
  BY <1>4, <1>5, <1>6, <1>7 DEF IInv

LEMMA StepIInv == IInv /\ [Next]_vars => IInv'
<1> SUFFICES ASSUME IInv, [Next]_vars PROVE IInv'
  OBVIOUS
<1>1. CASE Handlers
  BY <1>1, HandlersKeep
<1>2. CASE \E w \in Workers : Request(w) \/ Crash(w)
  BY <1>2, RequestKeeps, CrashKeeps
<1>3. CASE Retry
  BY <1>3, RetryKeeps
<1>4. CASE ScanReminders \/ Tick \/ UNCHANGED vars
  <2>1. Grows({}) /\ UNCHANGED workers
    BY <1>4 DEF ScanReminders, Tick, vars, Grows
  <2> QED
    BY <2>1, GrowthKeeps
<1> QED
  BY <1>1, <1>2, <1>3, <1>4 DEF Next

-----------------------------------------------------------------------------
(* What follows *)

\* send_pending with FOR UPDATE SKIP LOCKED: whatever requests overlap, fail, retry and die,
\* the provider got a notification once for the committed delivery, once for the request that
\* still holds the row, and once for each request that died after the call.
THEOREM DeliveriesAreCounted == Spec => []DeliveredOnce
<1>1. Spec => []IInv
  BY InitIInv, StepIInv, PTL DEF Spec
<1> QED
  BY <1>1, AddedIsCounted, PTL

=============================================================================
