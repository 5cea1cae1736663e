-------------------------- MODULE StoreForwardProofs --------------------------
(* Machine-checked theorems about StoreForward and, of its ingest            *)
(* transaction, SyncTxn, for every set of clients, events and workers, every *)
(* bound and every class, ceiling and address.                               *)
EXTENDS StoreForward, SyncTxn, FiniteSetTheorems, TLAPS

\* A clamped lifetime is a natural number and never above what was asked for
\* or above the ceiling of the class (validate_ttl).
LEMMA ValidTtlBounds ==
  ASSUME NEW e \in EventIds, NEW t \in Ttls
  PROVE  /\ ValidTtl(e, t) \in Nat
         /\ ValidTtl(e, t) <= t
         /\ ValidTtl(e, t) <= TtlMax[Priority[e]]
  BY AddressAssumption, TtlAssumption DEF ValidTtl

LEMMA IdleIsRequest == Idle \in Request /\ \A c \in Clients : Blank(c) \in Request
<1>1. AnyClient \in Clients
  BY AddressAssumption DEF AnyClient
<1>. QED
  BY <1>1 DEF Idle, Blank, Request

\* The rows a sync adds have the table's types.
LEMMA CreatedRows ==
  ASSUME NEW items \in SUBSET Item, NEW now \in Nat, clock \in Nat
  PROVE  /\ Created(items, now) \subseteq EventRow
         /\ CreatedReceipts(items, now) \subseteq ReceiptRow
<1>1. ASSUME NEW i \in items
      PROVE  NewEvent(i, now) \in EventRow /\ NewReceipt(i, now) \in ReceiptRow
  <2>1. i.event_id \in EventIds /\ i.ttl_seconds \in Ttls
    BY DEF Item
  <2>2. ValidTtl(i.event_id, i.ttl_seconds) \in Nat
    BY <2>1, ValidTtlBounds
  <2>3. /\ Recipient[i.event_id] \in Clients
        /\ Author[i.event_id] \in Clients
        /\ i.ttl_seconds \in Nat
    BY <2>1, AddressAssumption, TtlAssumption
  <2>. QED
    BY <2>1, <2>2, <2>3 DEF NewEvent, NewReceipt, EventRow, ReceiptRow
<1>. QED
  BY <1>1 DEF Created, CreatedReceipts

\* Marking keeps the rows' types and ids.
LEMMA MarkEvents ==
  ASSUME NEW rows \in SUBSET EventRow, NEW chosen \in SUBSET rows
  PROVE  Mark(rows, chosen) \subseteq EventRow
  BY DEF Mark, EventRow

LEMMA MarkReceipts ==
  ASSUME NEW rows \in SUBSET ReceiptRow, NEW chosen \in SUBSET rows
  PROVE  Mark(rows, chosen) \subseteq ReceiptRow
  BY DEF Mark, ReceiptRow

\* Every step keeps the types of the variables.
LEMMA TypeStep == TypeOK /\ [Next]_vars => TypeOK'
<1>. SUFFICES ASSUME TypeOK, [Next]_vars PROVE TypeOK'
  OBVIOUS
<1>. USE DEF TypeOK
<1>1. CASE Tick
  BY <1>1 DEF Tick
<1>2. ASSUME NEW c \in Clients, NEW d \in Clients, Mesh(c, d) PROVE TypeOK'
  BY <1>2 DEF Mesh
<1>3. ASSUME NEW e \in EventIds, Issue(e) PROVE TypeOK'
  BY <1>3 DEF Issue
<1>4. ASSUME NEW w \in Workers, NEW c \in Clients, BeginSync(w, c) PROVE TypeOK'
  <2>1. PICK carrying \in SUBSET {i \in Item : i.event_id \in held[c]},
             relayed \in SUBSET {i \in Item : i.event_id \in issued},
             skip \in SUBSET (held[c] \cup Collisions) :
          req' = [req EXCEPT ![w] =
            [Blank(c) EXCEPT !.phase = "ingest", !.now = clock,
                             !.carrying = carrying, !.relayed = relayed,
                             !.skip = skip]]
    BY <1>4 DEF BeginSync
  <2>2. skip \subseteq EventIds
    BY AddressAssumption
  <2>3. [Blank(c) EXCEPT !.phase = "ingest", !.now = clock,
                         !.carrying = carrying, !.relayed = relayed,
                         !.skip = skip] \in Request
    BY <2>2 DEF Blank, Request
  <2>. QED
    BY <1>4, <2>1, <2>3 DEF BeginSync
<1>5. ASSUME NEW w \in Workers, NEW c \in Clients, BeginAck(w, c) PROVE TypeOK'
  <2>1. PICK ids \in SUBSET held[c], confirms \in SUBSET confirmed[c] :
          req' = [req EXCEPT ![w] =
            [Blank(c) EXCEPT !.phase = "ackEvents", !.ids = ids,
                             !.confirms = confirms]]
    BY <1>5 DEF BeginAck
  <2>2. [Blank(c) EXCEPT !.phase = "ackEvents", !.ids = ids,
                         !.confirms = confirms] \in Request
    BY DEF Blank, Request
  <2>. QED
    BY <1>5, <2>1, <2>2 DEF BeginAck
<1>6. ASSUME NEW w \in Workers, Ingest(w) PROVE TypeOK'
  <2>. DEFINE q == req[w]
              stored == Stored(q.carrying, q.now)
              receipted == Named(stored, Ids(q.relayed))
  <2>1. /\ q.carrying \subseteq Item
        /\ q.relayed \subseteq Item
        /\ q.now \in Nat
    BY DEF Request
  <2>2. /\ stored \subseteq EventRow
        /\ receipts \cup CreatedReceipts(q.relayed, q.now) \subseteq ReceiptRow
    BY <2>1, CreatedRows DEF Stored
  <2>3. Mark(stored, receipted) \subseteq EventRow
    BY <2>2, MarkEvents DEF Named
  <2>4. [q EXCEPT !.phase = "selectEvents", !.carrying = {},
                  !.relayed = {}] \in Request
    BY DEF Request
  <2>5. req' \in [Workers -> Request]
    BY <1>6, <2>4 DEF Ingest
  <2>. QED
    BY <1>6, <2>2, <2>3, <2>5 DEF Ingest
<1>7. ASSUME NEW w \in Workers, SelectEvents(w) PROVE TypeOK'
  <2>1. PICK slice \in SUBSET events :
          req' = [req EXCEPT ![w] =
            [req[w] EXCEPT !.phase = "selectReceipts",
                           !.ids = Ids(slice) \ req[w].skip, !.skip = {}]]
    BY <1>7 DEF SelectEvents, Slices, Pending, Undelivered, Live, Of
  <2>2. Ids(slice) \subseteq EventIds
    BY DEF EventRow, Ids
  <2>3. [req[w] EXCEPT !.phase = "selectReceipts",
                       !.ids = Ids(slice) \ req[w].skip,
                       !.skip = {}] \in Request
    BY <2>2 DEF Request
  <2>. QED
    BY <1>7, <2>1, <2>3 DEF SelectEvents
<1>8. ASSUME NEW w \in Workers, SelectReceipts(w) PROVE TypeOK'
  <2>1. PICK slice \in SUBSET receipts :
          req' = [req EXCEPT ![w] = [req[w] EXCEPT !.phase = "reply",
                                     !.now = 0, !.confirms = Ids(slice)]]
    BY <1>8 DEF SelectReceipts, Slices, Pending, Undelivered, Live, Of
  <2>2. Ids(slice) \subseteq EventIds
    BY DEF ReceiptRow, Ids
  <2>3. [req[w] EXCEPT !.phase = "reply", !.now = 0,
                       !.confirms = Ids(slice)] \in Request
    BY <2>2 DEF Request
  <2>. QED
    BY <1>8, <2>1, <2>3 DEF SelectReceipts
<1>9. ASSUME NEW w \in Workers, Receive(w) PROVE TypeOK'
  BY <1>9, IdleIsRequest DEF Receive, Request
<1>10. ASSUME NEW w \in Workers, Abandon(w) PROVE TypeOK'
  BY <1>10, IdleIsRequest DEF Abandon
<1>11. ASSUME NEW w \in Workers, AckEvents(w) PROVE TypeOK'
  <2>1. events' \subseteq EventRow
    BY <1>11, MarkEvents DEF AckEvents, Named, Of
  <2>2. [req[w] EXCEPT !.phase = "ackReceipts", !.ids = {}] \in Request
    BY DEF Request
  <2>. QED
    BY <1>11, <2>1, <2>2 DEF AckEvents
<1>12. ASSUME NEW w \in Workers, AckReceipts(w) PROVE TypeOK'
  <2>1. receipts' \subseteq ReceiptRow
    BY <1>12, MarkReceipts DEF AckReceipts, Named, Of
  <2>. QED
    BY <1>12, <2>1, IdleIsRequest DEF AckReceipts
<1>13. CASE Collect
  BY <1>13 DEF Collect, GcStart, GcExpired, GcDelivered, GcReceipts, GcKilled,
                 Live, Undelivered
<1>14. CASE UNCHANGED vars
  BY <1>14 DEF vars
<1>. QED
  BY <1>1, <1>2, <1>3, <1>4, <1>5, <1>6, <1>7, <1>8, <1>9, <1>10, <1>11,
     <1>12, <1>13, <1>14 DEF Next, Serve

\* The variables always have their types.
THEOREM TypeCorrect == Spec => []TypeOK
<1>1. Init => TypeOK
  BY IdleIsRequest DEF Init, TypeOK
<1>. QED
  BY <1>1, TypeStep, PTL DEF Spec

-----------------------------------------------------------------------------
(* Tables.                                                                 *)

\* A marked table has the rows it had: each is as it was, or was chosen and
\* differs only in being delivered.
LEMMA MarkedFrom ==
  ASSUME NEW rows, NEW chosen \in SUBSET rows, NEW r \in Mark(rows, chosen)
  PROVE  \E s \in rows :
           \/ s \notin chosen /\ r = s
           \/ s \in chosen /\ r = [s EXCEPT !.delivered = TRUE]
  BY DEF Mark

\* Marking never makes two rows of one.
LEMMA MarkDistinct ==
  ASSUME NEW rows \in SUBSET EventRow, NEW chosen \in SUBSET rows,
         Distinct(rows)
  PROVE  Distinct(Mark(rows, chosen))
<1>. SUFFICES ASSUME NEW x \in Mark(rows, chosen), NEW y \in Mark(rows, chosen),
                     x.event_id = y.event_id
              PROVE  x = y
  BY DEF Distinct
<1>1. PICK r \in rows : \/ r \notin chosen /\ x = r
                        \/ r \in chosen /\ x = [r EXCEPT !.delivered = TRUE]
  BY MarkedFrom
<1>2. PICK s \in rows : \/ s \notin chosen /\ y = s
                        \/ s \in chosen /\ y = [s EXCEPT !.delivered = TRUE]
  BY MarkedFrom
<1>3. r.event_id = s.event_id
  BY <1>1, <1>2 DEF EventRow
<1>. QED
  BY <1>1, <1>2, <1>3 DEF Distinct

\* get_or_create of a list without repetitions keeps ids unique.
LEMMA IngestDistinct ==
  ASSUME NEW items \in SUBSET Item, NEW now, Distinct(items), Distinct(events)
  PROVE  Distinct(events \cup Created(items, now))
<1>1. \A r \in Created(items, now) :
        \E i \in items : i.event_id \notin Ids(events) /\ r = NewEvent(i, now)
  BY DEF Created
<1>2. \A i \in items : NewEvent(i, now).event_id = i.event_id
  BY DEF NewEvent
<1>. QED
  BY <1>1, <1>2 DEF Distinct, Ids

-----------------------------------------------------------------------------
(* The inductive invariant.                                                *)

\* Marking rows whose recipient holds the event keeps the tables in order.
LEMMA MarkKeeps ==
  ASSUME NEW rows \in SUBSET EventRow, NEW chosen \in SUBSET rows,
         \A r \in rows : r.recipient_mailbox = Recipient[r.event_id],
         \A r \in rows :
           r.delivered \/ r \in chosen => r.event_id \in held[r.recipient_mailbox]
  PROVE  /\ \A r \in Mark(rows, chosen) :
              r.recipient_mailbox = Recipient[r.event_id]
         /\ \A r \in Mark(rows, chosen) :
              r.delivered => r.event_id \in held[r.recipient_mailbox]
<1>. SUFFICES ASSUME NEW r \in Mark(rows, chosen)
              PROVE  /\ r.recipient_mailbox = Recipient[r.event_id]
                     /\ r.delivered => r.event_id \in held[r.recipient_mailbox]
  OBVIOUS
<1>1. PICK s \in rows : \/ s \notin chosen /\ r = s
                        \/ s \in chosen /\ r = [s EXCEPT !.delivered = TRUE]
  BY MarkedFrom
<1>2. /\ r.event_id = s.event_id
      /\ r.recipient_mailbox = s.recipient_mailbox
      /\ r.delivered => s.delivered \/ s \in chosen
  BY <1>1 DEF EventRow
<1>. QED
  BY <1>2

\* What the events step of a sync leaves: typed, addressed, unique rows, and
\* delivered ones only where the recipient holds the event.
LEMMA IngestStep ==
  ASSUME Inv, NEW w \in Workers, Ingest(w)
  PROVE  /\ \A r \in events' : r.recipient_mailbox = Recipient[r.event_id]
         /\ DeliveredIsHeld'
         /\ OneRowPerEvent'
<1>. DEFINE q == req[w]
            stored == Stored(q.carrying, q.now)
            receipted == Named(stored, Ids(q.relayed))
<1>1. /\ q.carrying \subseteq Item
      /\ q.now \in Nat
      /\ clock \in Nat
      /\ events \subseteq EventRow
  BY DEF Inv, TypeOK, Request
<1>2. stored \subseteq EventRow
  BY <1>1, CreatedRows DEF Stored
<1>3. \A r \in Created(q.carrying, q.now) :
        ~r.delivered /\ r.recipient_mailbox = Recipient[r.event_id]
  BY DEF Created, NewEvent
<1>4. \A r \in stored : r.recipient_mailbox = Recipient[r.event_id]
  BY <1>3 DEF Stored, Inv, RowsAreAddressed
<1>5. \A r \in stored : r.delivered \/ r \in receipted =>
                          r.event_id \in held[r.recipient_mailbox]
  <2>1. Ids(q.relayed) \subseteq issued
    BY DEF Inv, HonestRequests
  <2>2. \A r \in receipted : r.event_id \in held[r.recipient_mailbox]
    BY <2>1, <1>4 DEF Inv, IssuedIsHeld, Named
  <2>. QED
    BY <2>2, <1>3 DEF Stored, Inv, DeliveredIsHeld
<1>6. events' = Mark(stored, receipted) /\ held' = held
  BY DEF Ingest
<1>7. Distinct(stored)
  BY <1>1, IngestDistinct DEF Stored, Inv, HonestRequests, OneRowPerEvent
<1>. HIDE DEF stored, receipted
<1>8. receipted \subseteq stored
  BY DEF receipted, Named
<1>. QED
  BY <1>2, <1>4, <1>5, <1>6, <1>7, <1>8, MarkKeeps, MarkDistinct
  DEF DeliveredIsHeld, OneRowPerEvent

\* A step that touches neither the tables nor the clients, and keeps every
\* request honest, keeps the invariant.
LEMMA OnlyRequests ==
  ASSUME Inv, TypeOK', HonestRequests',
         UNCHANGED <<events, receipts, held, issued, confirmed>>
  PROVE  Inv'
  BY DEF Inv, IssuedIsHeld, RowsAreAddressed, OneRowPerEvent, DeliveredIsHeld,
         ConfirmedIsHeld

\* Clients only gain events.
LEMMA HeldGrows ==
  ASSUME Inv, TypeOK', HonestRequests', ConfirmedIsHeld',
         \A c \in Clients : held[c] \subseteq held'[c],
         UNCHANGED <<events, receipts, issued>>
  PROVE  Inv'
<1>1. \A r \in events : r.event_id \in EventIds /\ r.recipient_mailbox \in Clients
  BY DEF Inv, TypeOK, EventRow
<1>2. \A e \in issued : e \in EventIds /\ Recipient[e] \in Clients
  BY AddressAssumption DEF Inv, TypeOK
<1>. QED
  BY <1>1, <1>2 DEF Inv, IssuedIsHeld, RowsAreAddressed, OneRowPerEvent,
                    DeliveredIsHeld

\* Every step keeps the invariant.
LEMMA InvStep == Inv /\ [Next]_vars => Inv'
<1>. SUFFICES ASSUME Inv, [Next]_vars PROVE Inv'
  OBVIOUS
<1>0. TypeOK /\ TypeOK'
  BY TypeStep DEF Inv
<1>1. CASE Tick
  <2>1. HonestRequests'
    BY <1>1 DEF Tick, Inv, HonestRequests
  <2>. QED
    BY <1>0, <1>1, <2>1, OnlyRequests DEF Tick
<1>2. ASSUME NEW c \in Clients, NEW d \in Clients, Mesh(c, d) PROVE Inv'
  <2>1. \A x \in Clients : held[x] \subseteq held'[x]
    BY <1>0, <1>2 DEF Mesh, TypeOK
  <2>2. HonestRequests'
    <3>1. \A w \in Workers : req[w].client \in Clients
      BY <1>0 DEF TypeOK, Request
    <3>. QED
      BY <1>2, <2>1, <3>1 DEF Mesh, Inv, HonestRequests
  <2>3. ConfirmedIsHeld'
    <3>1. \A x \in Clients : \A e \in confirmed[x] : Recipient[e] \in Clients
      BY <1>0, AddressAssumption DEF TypeOK
    <3>. QED
      BY <1>2, <2>1, <3>1 DEF Mesh, Inv, ConfirmedIsHeld
  <2>. QED
    BY <1>0, <1>2, <2>1, <2>2, <2>3, HeldGrows DEF Mesh
<1>3. ASSUME NEW e \in EventIds, Issue(e) PROVE Inv'
  <2>1. HonestRequests'
    BY <1>3 DEF Issue, Inv, HonestRequests
  <2>2. IssuedIsHeld' /\ RowsAreAddressed'
    BY <1>3 DEF Issue, Inv, IssuedIsHeld, RowsAreAddressed
  <2>. QED
    BY <1>0, <1>3, <2>1, <2>2
    DEF Issue, Inv, OneRowPerEvent, DeliveredIsHeld, ConfirmedIsHeld
<1>4. ASSUME NEW w \in Workers, NEW c \in Clients, BeginSync(w, c) PROVE Inv'
  <2>1. PICK carrying \in SUBSET {i \in Item : i.event_id \in held[c]},
             relayed \in SUBSET {i \in Item : i.event_id \in issued},
             skip \in SUBSET (held[c] \cup Collisions) :
          /\ Distinct(carrying) /\ Distinct(relayed)
          /\ req' = [req EXCEPT ![w] =
               [Blank(c) EXCEPT !.phase = "ingest", !.now = clock,
                                !.carrying = carrying, !.relayed = relayed,
                                !.skip = skip]]
    BY <1>4 DEF BeginSync
  <2>2. /\ req'[w].phase = "ingest"
        /\ req'[w].carrying = carrying
        /\ req'[w].relayed = relayed
        /\ \A v \in Workers \ {w} : req'[v] = req[v]
    BY <1>0, <2>1 DEF TypeOK, Blank
  <2>3. Ids(relayed) \subseteq issued
    BY DEF Ids
  <2>4. HonestRequests'
    BY <1>4, <2>1, <2>2, <2>3 DEF BeginSync, Inv, HonestRequests
  <2>. QED
    BY <1>0, <1>4, <2>4, OnlyRequests DEF BeginSync
<1>5. ASSUME NEW w \in Workers, NEW c \in Clients, BeginAck(w, c) PROVE Inv'
  <2>1. PICK ids \in SUBSET held[c], confirms \in SUBSET confirmed[c] :
          req' = [req EXCEPT ![w] =
            [Blank(c) EXCEPT !.phase = "ackEvents", !.ids = ids,
                             !.confirms = confirms]]
    BY <1>5 DEF BeginAck
  <2>2. /\ req'[w].phase = "ackEvents" /\ req'[w].client = c
        /\ req'[w].carrying = {} /\ req'[w].relayed = {}
        /\ req'[w].ids = ids
        /\ \A v \in Workers \ {w} : req'[v] = req[v]
    BY <1>0, <2>1 DEF TypeOK, Blank
  <2>3. HonestRequests'
    BY <1>5, <2>2 DEF BeginAck, Inv, HonestRequests, Ids, Distinct
  <2>. QED
    BY <1>0, <1>5, <2>3, OnlyRequests DEF BeginAck
<1>6. ASSUME NEW w \in Workers, Ingest(w) PROVE Inv'
  <2>1. /\ \A r \in events' : r.recipient_mailbox = Recipient[r.event_id]
        /\ DeliveredIsHeld' /\ OneRowPerEvent'
    BY <1>6, IngestStep
  <2>2. \A r \in CreatedReceipts(req[w].relayed, req[w].now) :
          r.recipient_mailbox = Author[r.event_id] /\ r.event_id \in issued
    BY DEF CreatedReceipts, NewReceipt, Inv, HonestRequests, Ids
  <2>3. RowsAreAddressed'
    BY <1>6, <2>1, <2>2 DEF Ingest, Inv, RowsAreAddressed
  <2>4. /\ req'[w].phase = "selectEvents"
        /\ req'[w].carrying = {} /\ req'[w].relayed = {}
        /\ \A v \in Workers \ {w} : req'[v] = req[v]
    BY <1>0, <1>6 DEF Ingest, TypeOK, Request
  <2>5. HonestRequests'
    BY <1>6, <2>4 DEF Ingest, Inv, HonestRequests, Ids, Distinct
  <2>. QED
    BY <1>0, <1>6, <2>1, <2>3, <2>5
    DEF Ingest, Inv, IssuedIsHeld, ConfirmedIsHeld
<1>7. ASSUME NEW w \in Workers, SelectEvents(w) PROVE Inv'
  <2>1. PICK ids : req' = [req EXCEPT ![w] =
          [req[w] EXCEPT !.phase = "selectReceipts", !.ids = ids, !.skip = {}]]
    BY <1>7 DEF SelectEvents
  <2>2. /\ req'[w].phase = "selectReceipts"
        /\ req'[w].carrying = req[w].carrying
        /\ req'[w].relayed = req[w].relayed
        /\ \A v \in Workers \ {w} : req'[v] = req[v]
    BY <1>0, <2>1 DEF TypeOK, Request
  <2>3. HonestRequests'
    BY <1>7, <2>2 DEF SelectEvents, Inv, HonestRequests
  <2>. QED
    BY <1>0, <1>7, <2>3, OnlyRequests DEF SelectEvents
<1>8. ASSUME NEW w \in Workers, SelectReceipts(w) PROVE Inv'
  <2>1. PICK slice \in SUBSET receipts :
          /\ \A r \in slice : r.recipient_mailbox = req[w].client
          /\ req' = [req EXCEPT ![w] = [req[w] EXCEPT !.phase = "reply",
                                        !.now = 0, !.confirms = Ids(slice)]]
    BY <1>8 DEF SelectReceipts, Slices, Pending, Undelivered, Live, Of
  <2>2. /\ req'[w].phase = "reply"
        /\ req'[w].client = req[w].client
        /\ req'[w].carrying = req[w].carrying
        /\ req'[w].relayed = req[w].relayed
        /\ req'[w].confirms = Ids(slice)
        /\ \A v \in Workers \ {w} : req'[v] = req[v]
    BY <1>0, <2>1 DEF TypeOK, Request
  <2>3. \A e \in Ids(slice) : Author[e] = req[w].client /\ e \in issued
    BY <2>1 DEF Inv, RowsAreAddressed, Ids
  <2>4. HonestRequests'
    BY <1>8, <2>2, <2>3 DEF SelectReceipts, Inv, HonestRequests
  <2>. QED
    BY <1>0, <1>8, <2>4, OnlyRequests DEF SelectReceipts
<1>9. ASSUME NEW w \in Workers, Receive(w) PROVE Inv'
  <2>1. \A x \in Clients : held[x] \subseteq held'[x]
    BY <1>0, <1>9 DEF Receive, TypeOK, Request
  <2>2. HonestRequests'
    <3>1. \A v \in Workers : req[v].client \in Clients
      BY <1>0 DEF TypeOK, Request
    <3>2. /\ req'[w] = Idle
          /\ \A v \in Workers \ {w} : req'[v] = req[v]
      BY <1>0, <1>9 DEF Receive, TypeOK
    <3>. QED
      BY <1>9, <2>1, <3>1, <3>2
      DEF Receive, Inv, HonestRequests, Idle, Blank, Ids, Distinct
  <2>3. ConfirmedIsHeld'
    <3>1. \A x \in Clients : \A e \in confirmed[x] : Recipient[e] \in Clients
      BY <1>0, AddressAssumption DEF TypeOK
    <3>2. \A e \in req[w].confirms :
            Author[e] = req[w].client /\ e \in held[Recipient[e]]
      BY <1>9 DEF Receive, Inv, HonestRequests, IssuedIsHeld
    <3>3. \A e \in req[w].confirms : Recipient[e] \in Clients
      BY <1>0, AddressAssumption DEF TypeOK, Request
    <3>4. \A x \in Clients : \A e \in confirmed'[x] :
            e \in confirmed[x] \/ (x = req[w].client /\ e \in req[w].confirms)
      BY <1>0, <1>9 DEF Receive, TypeOK
    <3>. QED
      BY <2>1, <3>1, <3>2, <3>3, <3>4 DEF Inv, ConfirmedIsHeld
  <2>. QED
    BY <1>0, <1>9, <2>1, <2>2, <2>3, HeldGrows DEF Receive
<1>10. ASSUME NEW w \in Workers, Abandon(w) PROVE Inv'
  <2>1. /\ req'[w] = Idle
        /\ \A v \in Workers \ {w} : req'[v] = req[v]
    BY <1>0, <1>10 DEF Abandon, TypeOK
  <2>2. HonestRequests'
    BY <1>10, <2>1
    DEF Abandon, Inv, HonestRequests, Idle, Blank, Ids, Distinct
  <2>. QED
    BY <1>0, <1>10, <2>2, OnlyRequests DEF Abandon
<1>11. ASSUME NEW w \in Workers, AckEvents(w) PROVE Inv'
  <2>. DEFINE acked == Named(Of(events, req[w].client), req[w].ids)
  <2>1. \A r \in events : r.delivered \/ r \in acked =>
                            r.event_id \in held[r.recipient_mailbox]
    BY <1>11 DEF AckEvents, Inv, HonestRequests, DeliveredIsHeld, Named, Of
  <2>2. events' = Mark(events, acked) /\ held' = held
    BY <1>11 DEF AckEvents
  <2>3. /\ \A r \in events' : r.recipient_mailbox = Recipient[r.event_id]
        /\ DeliveredIsHeld' /\ OneRowPerEvent'
    <3>. HIDE DEF acked
    <3>1. acked \subseteq events
      BY DEF acked, Named, Of
    <3>. QED
      BY <1>0, <2>1, <2>2, <3>1, MarkKeeps, MarkDistinct
      DEF Inv, TypeOK, RowsAreAddressed, OneRowPerEvent, DeliveredIsHeld
  <2>4. /\ req'[w].phase = "ackReceipts"
        /\ req'[w].carrying = req[w].carrying
        /\ req'[w].relayed = req[w].relayed
        /\ \A v \in Workers \ {w} : req'[v] = req[v]
    BY <1>0, <1>11 DEF AckEvents, TypeOK, Request
  <2>5. HonestRequests'
    BY <1>11, <2>4 DEF AckEvents, Inv, HonestRequests
  <2>. QED
    BY <1>0, <1>11, <2>3, <2>5
    DEF AckEvents, Inv, IssuedIsHeld, RowsAreAddressed, ConfirmedIsHeld
<1>12. ASSUME NEW w \in Workers, AckReceipts(w) PROVE Inv'
  <2>. DEFINE acked == Named(Of(receipts, req[w].client), req[w].confirms)
  <2>1. \A r \in Mark(receipts, acked) : \E s \in receipts :
          r.event_id = s.event_id /\ r.recipient_mailbox = s.recipient_mailbox
    <3>1. ASSUME NEW r \in Mark(receipts, acked)
          PROVE  \E s \in receipts : /\ r.event_id = s.event_id
                                     /\ r.recipient_mailbox = s.recipient_mailbox
      <4>1. PICK s \in receipts :
              \/ s \notin acked /\ r = s
              \/ s \in acked /\ r = [s EXCEPT !.delivered = TRUE]
        BY <3>1, MarkedFrom DEF Named, Of
      <4>. QED
        BY <1>0, <4>1 DEF TypeOK, ReceiptRow
    <3>. QED
      BY <3>1
  <2>2. RowsAreAddressed'
    BY <1>12, <2>1 DEF AckReceipts, Inv, RowsAreAddressed
  <2>3. /\ req'[w] = Idle
        /\ \A v \in Workers \ {w} : req'[v] = req[v]
    BY <1>0, <1>12 DEF AckReceipts, TypeOK
  <2>4. HonestRequests'
    BY <1>12, <2>3
    DEF AckReceipts, Inv, HonestRequests, Idle, Blank, Ids, Distinct
  <2>. QED
    BY <1>0, <1>12, <2>2, <2>4
    DEF AckReceipts, Inv, IssuedIsHeld, OneRowPerEvent, DeliveredIsHeld,
        ConfirmedIsHeld
<1>13. CASE Collect
  <2>1. /\ events' \subseteq events /\ receipts' \subseteq receipts
        /\ UNCHANGED <<req, held, issued, confirmed>>
    BY <1>13 DEF Collect, GcStart, GcExpired, GcDelivered, GcReceipts, GcKilled,
                   Live, Undelivered
  <2>. QED
    BY <1>0, <2>1
    DEF Inv, IssuedIsHeld, HonestRequests, RowsAreAddressed, OneRowPerEvent,
        Distinct, DeliveredIsHeld, ConfirmedIsHeld
<1>14. CASE UNCHANGED vars
  BY <1>0, <1>14
  DEF vars, Inv, IssuedIsHeld, HonestRequests, RowsAreAddressed, OneRowPerEvent,
      DeliveredIsHeld, ConfirmedIsHeld
<1>. QED
  BY <1>1, <1>2, <1>3, <1>4, <1>5, <1>6, <1>7, <1>8, <1>9, <1>10, <1>11,
     <1>12, <1>13, <1>14 DEF Next, Serve

\* The invariant holds initially: the tables are empty and nobody confirms.
LEMMA InvInit == Init => Inv
<1>1. Init => TypeOK
  BY IdleIsRequest DEF Init, TypeOK
<1>. QED
  BY <1>1 DEF Init, Inv, IssuedIsHeld, HonestRequests, RowsAreAddressed,
              OneRowPerEvent, Distinct, DeliveredIsHeld, ConfirmedIsHeld,
              Idle, Blank, Ids

\* The invariant holds whatever clients, handlers, gc and the mesh do.
THEOREM InvHolds == Spec => []Inv
BY InvInit, InvStep, PTL DEF Spec

\* No event stops being offered, and none is reported to its author as
\* delivered, before its recipient holds it; no event is stored twice.
THEOREM DeliverySafe == Spec => [](DeliveredIsHeld /\ ConfirmedIsHeld /\ OneRowPerEvent)
<1>1. Inv => DeliveredIsHeld /\ ConfirmedIsHeld /\ OneRowPerEvent
  BY DEF Inv
<1>. QED
  BY <1>1, InvHolds, PTL

\* A sender told of a delivery was told the truth, whoever carried the receipt.
THEOREM ConfirmationsTrue == Spec => []ConfirmedIsHeld
<1>1. Inv => ConfirmedIsHeld
  BY DEF Inv
<1>. QED
  BY <1>1, InvHolds, PTL

-----------------------------------------------------------------------------
(* What a step may do to the Event table.                                  *)

\* gc compares with an instant that is not in the future.
GcNowIsPast == gc.now <= clock

LEMMA GcNow == Spec => []GcNowIsPast
<1>1. Init => GcNowIsPast
  BY DEF Init, GcNowIsPast
<1>2. TypeOK /\ GcNowIsPast /\ [Next]_vars => GcNowIsPast'
  <2>. SUFFICES ASSUME TypeOK, GcNowIsPast, [Next]_vars PROVE GcNowIsPast'
    OBVIOUS
  <2>1. clock \in Nat /\ gc.now \in Nat
    BY DEF TypeOK
  <2>2. clock' = clock \/ clock' = clock + 1
    BY DEF Next, Tick, Mesh, Issue, Serve, BeginSync, BeginAck, Ingest,
           SelectEvents, SelectReceipts, Receive, AckEvents, AckReceipts,
           Abandon, Collect, GcStart, GcExpired, GcDelivered, GcReceipts,
           GcKilled, vars
  <2>3. gc'.now \in {gc.now, clock, 0}
    <3>1. CASE Collect
      BY <3>1 DEF TypeOK, Collect, GcStart, GcExpired, GcDelivered, GcReceipts,
                  GcKilled
    <3>2. CASE gc' = gc
      BY <3>2
    <3>. QED
      BY <3>1, <3>2
      DEF Next, Tick, Mesh, Issue, Serve, BeginSync, BeginAck, Ingest,
          SelectEvents, SelectReceipts, Receive, AckEvents, AckReceipts,
          Abandon, vars
  <2>. QED
    BY <2>1, <2>2, <2>3 DEF GcNowIsPast
<1>. QED
  BY <1>1, <1>2, TypeCorrect, PTL DEF Spec

\* A row that a step marks delivered, or removes, is one whose recipient holds
\* the event or whose time is up; every other row stays exactly as it is.
LEMMA RowStep ==
  ASSUME Inv, GcNowIsPast, [Next]_vars, NEW r \in events, r \notin events'
  PROVE  \/ r.event_id \in held[r.recipient_mailbox]
         \/ Expired(r)
<1>. r \in EventRow /\ clock \in Nat /\ gc.now \in Nat
  BY DEF Inv, TypeOK
<1>1. ASSUME NEW w \in Workers, Ingest(w)
      PROVE  r.event_id \in held[r.recipient_mailbox]
  <2>1. r.event_id \in Ids(req[w].relayed)
    BY <1>1 DEF Ingest, Stored, Mark, Named
  <2>. QED
    BY <2>1 DEF Inv, HonestRequests, IssuedIsHeld, RowsAreAddressed
<1>2. ASSUME NEW w \in Workers, AckEvents(w)
      PROVE  r.event_id \in held[r.recipient_mailbox]
  <2>1. r.event_id \in req[w].ids /\ r.recipient_mailbox = req[w].client
    BY <1>2 DEF AckEvents, Mark, Named, Of
  <2>. QED
    BY <1>2, <2>1 DEF AckEvents, Inv, HonestRequests
<1>3. ASSUME GcExpired PROVE Expired(r)
  BY <1>3 DEF GcExpired, Live, Expired, GcNowIsPast, EventRow
<1>4. ASSUME GcDelivered PROVE r.event_id \in held[r.recipient_mailbox]
  BY <1>4 DEF GcDelivered, Undelivered, Inv, DeliveredIsHeld
<1>5. \/ \E w \in Workers : Ingest(w) \/ AckEvents(w)
      \/ GcExpired \/ GcDelivered
  BY DEF Next, Tick, Mesh, Issue, Serve, BeginSync, BeginAck,
         SelectEvents, SelectReceipts, Receive, AckReceipts,
         Abandon, Collect, GcStart, GcReceipts, GcKilled, vars
<1>. QED
  BY <1>1, <1>2, <1>3, <1>4, <1>5

\* No step removes an event that its recipient does not hold before its deadline.
THEOREM NothingIsLost == Spec => KeptUntilHeld
<1>1. Inv /\ GcNowIsPast /\ [Next]_vars =>
        [\A r \in events : \/ r.event_id \in Ids(events')
                           \/ r.event_id \in held[r.recipient_mailbox]
                           \/ Expired(r)]_vars
  BY RowStep DEF Ids
<1>. QED
  BY <1>1, InvHolds, GcNow, PTL DEF Spec, KeptUntilHeld

\* What one transaction does to one event of carrying[]: afterwards it is held, or
\* owed as it was before, or, if the table did not have it, as this push asks.
LEMMA IngestOwes ==
  ASSUME Inv, NEW w \in Workers, Ingest(w), NEW i \in req[w].carrying,
         i.event_id \notin held[Recipient[i.event_id]]
  PROVE  OwedAsPushed(w, i)
<1>. DEFINE e == i.event_id
            stored == Stored(req[w].carrying, req[w].now)
            Debt(r) == [event_id |-> r.event_id, mailbox |-> r.recipient_mailbox,
                        deadline |-> r.ttl_expires_at]
<1>1. events' = Mark(stored, Named(stored, Ids(req[w].relayed)))
  BY DEF Ingest
<1>2. e \notin Ids(req[w].relayed)
  BY DEF Inv, HonestRequests, IssuedIsHeld
<1>3. ASSUME NEW r \in stored, r.event_id = e, ~r.delivered
      PROVE  Debt(r) \in Debts'
  <2>1. r \in events'
    BY <1>1, <1>2, <1>3 DEF Mark, Named
  <2>. QED
    BY <1>3, <2>1 DEF Debts, Undelivered
<1>4. CASE e \in Ids(events)
  <2>1. PICK r \in events : r.event_id = e
    BY <1>4 DEF Ids
  <2>2. ~r.delivered /\ r.recipient_mailbox = Recipient[e]
    BY <2>1 DEF Inv, DeliveredIsHeld, RowsAreAddressed
  <2>3. Debt(r) \in Debts /\ Debt(r) \in Debts'
    BY <1>3, <2>1, <2>2 DEF Stored, Debts, Undelivered
  <2>. QED
    BY <2>1, <2>2, <2>3 DEF OwedAsPushed
<1>5. CASE e \notin Ids(events)
  <2>. DEFINE r == NewEvent(i, req[w].now)
  <2>1. r \in stored
    BY <1>5 DEF Stored, Created
  <2>2. /\ r.event_id = e /\ ~r.delivered /\ r.recipient_mailbox = Recipient[e]
        /\ r.ttl_expires_at = req[w].now + ValidTtl(e, i.ttl_seconds)
    BY DEF NewEvent
  <2>3. Debt(r) \in Debts'
    BY <1>3, <2>1, <2>2
  <2>. QED
    BY <1>5, <2>2, <2>3 DEF OwedAsPushed
<1>. QED
  BY <1>4, <1>5

\* What a sync accepts is held or owed: until the deadline of the row that was there,
\* or for the lifetime this push asked for if there was none.
THEOREM AcceptedOwed == Spec => AcceptedIsOwed
<1>1. Inv => PushesAreOwed
  BY IngestOwes DEF PushesAreOwed
<1>2. Inv => [PushesAreOwed]_vars
  BY <1>1
<1>. QED
  BY <1>2, InvHolds, PTL DEF Spec, AcceptedIsOwed

-----------------------------------------------------------------------------
(* The tables, requests and clients together keep the mailbox's promise.   *)

\* Initially nothing is owed.
LEMMA PromiseInit == Init => Promise!Init
<1>. SUFFICES ASSUME Init PROVE Promise!Init
  OBVIOUS
<1>1. TypeOK
  BY InvInit DEF Inv
<1>2. Debts = {}
  BY DEF Init, Debts, Undelivered
<1>. QED
  BY <1>1, <1>2 DEF Init, TypeOK, Promise!Init

\* A step that leaves clock and clients alone is an exchange of debts.
LEMMA PromiseExchange ==
  ASSUME Inv, Inv', GcNowIsPast, [Next]_vars, UNCHANGED <<clock, held>>
  PROVE  Promise!Exchange
<1>. DEFINE D(r) == [event_id |-> r.event_id, mailbox |-> r.recipient_mailbox,
                     deadline |-> r.ttl_expires_at]
<1>1. /\ \A d \in Debts : \E r \in events : ~r.delivered /\ d = D(r)
      /\ \A r \in events : ~r.delivered => D(r) \in Debts
  BY DEF Debts, Undelivered
<1>2. /\ \A d \in Debts' : \E r \in events' : ~r.delivered /\ d = D(r)
      /\ \A r \in events' : ~r.delivered => D(r) \in Debts'
  BY DEF Debts, Undelivered
<1>3. Debts' \subseteq Promise!Debt
  <2>1. ASSUME NEW r \in events' PROVE D(r) \in Promise!Debt
    BY DEF Inv, TypeOK, EventRow, Promise!Debt
  <2>. QED
    BY <1>2, <2>1
<1>4. ASSUME NEW d \in Debts \ Debts' PROVE Promise!Settled(d)
  <2>1. PICK r \in events : ~r.delivered /\ d = D(r)
    BY <1>1
  <2>2. r \notin events'
    BY <1>2, <1>4, <2>1
  <2>3. r.event_id \in held[r.recipient_mailbox] \/ Expired(r)
    BY <2>2, RowStep
  <2>. QED
    BY <2>1, <2>3 DEF Promise!Settled, Expired
<1>5. \A d, f \in Debts' : d.event_id = f.event_id => d = f
  BY <1>2 DEF Inv, OneRowPerEvent, Distinct
<1>. QED
  BY <1>3, <1>4, <1>5 DEF Promise!Exchange

\* Every step is a step of the mailbox, or changes nothing of it.
LEMMA PromiseStep ==
  ASSUME Inv, Inv', GcNowIsPast, [Next]_vars
  PROVE  [Promise!Next]_Promise!vars
<1>1. CASE UNCHANGED <<clock, held>>
  BY <1>1, PromiseExchange DEF Promise!Next
<1>2. CASE Tick
  BY <1>2 DEF Tick, Debts, Promise!Next, Promise!Wait
<1>3. CASE UNCHANGED <<clock, events>> /\ \A c \in Clients : held[c] \subseteq held'[c]
  BY <1>3 DEF Inv, TypeOK, Debts, Promise!Next, Promise!Obtain
<1>4. ASSUME NEW c \in Clients, NEW d \in Clients, Mesh(c, d)
      PROVE  UNCHANGED <<clock, events>> /\ \A x \in Clients : held[x] \subseteq held'[x]
  BY <1>4 DEF Mesh, Inv, TypeOK
<1>5. ASSUME NEW w \in Workers, Receive(w)
      PROVE  UNCHANGED <<clock, events>> /\ \A x \in Clients : held[x] \subseteq held'[x]
  BY <1>5 DEF Receive, Inv, TypeOK, Request
<1>. QED
  BY <1>1, <1>2, <1>3, <1>4, <1>5
  DEF Next, Issue, Serve, BeginSync, BeginAck, Ingest, SelectEvents,
      SelectReceipts, AckEvents, AckReceipts, Abandon, Collect, GcStart,
      GcExpired, GcDelivered, GcReceipts, GcKilled, vars

\* sync, ack, gc and the mesh together implement the mailbox.
THEOREM ImplementsMailbox == Spec => KeepsPromise
<1>1. Inv /\ Inv' /\ GcNowIsPast /\ [Next]_vars => [Promise!Next]_Promise!vars
  BY PromiseStep
<1>. QED
  BY <1>1, PromiseInit, InvHolds, GcNow, PTL DEF Spec, KeepsPromise, Promise!Spec

-----------------------------------------------------------------------------
(* The ingest transaction, statement by statement (SyncTxn).               *)

\* A bounded sequence is a sequence.
LEMMA SeqOfFacts ==
  ASSUME NEW S, NEW n \in Nat, NEW s \in SeqOf(S, n)
  PROVE  /\ Len(s) \in 0..n
         /\ s \in [1..Len(s) -> S]
         /\ DOMAIN s = 1..Len(s)
<1>1. PICK m \in 0..n : s \in [1..m -> S]
  BY DEF SeqOf
<1>2. Len(s) = m
  BY <1>1
<1>. QED
  BY <1>1, <1>2

\* A list that is a permutation of a set of keys is a scan.
LEMMA ScanFacts ==
  ASSUME IsFiniteSet(EventKeys), NEW S, S \subseteq EventKeys,
         NEW s \in SetToAllKPermutations(S)
  PROVE  /\ s \in SeqOf(EventKeys, Cardinality(EventKeys))
         /\ IsInjective(s)
         /\ Range(s) \subseteq S
<1>1. PICK T \in SUBSET S : s \in SetToSeqs(T)
  BY DEF SetToAllKPermutations
<1>2. /\ s \in [1..Cardinality(T) -> T]
      /\ \A i, j \in 1..Cardinality(T) : i # j => s[i] # s[j]
  BY <1>1 DEF SetToSeqs
<1>3. T \subseteq EventKeys /\ IsFiniteSet(T) /\ Cardinality(T) \in Nat
      /\ Cardinality(EventKeys) \in Nat /\ Cardinality(T) <= Cardinality(EventKeys)
  BY FS_Subset, FS_CardinalityType
<1>4. s \in [1..Cardinality(T) -> EventKeys]
  BY <1>2, <1>3
<1>5. s \in SeqOf(EventKeys, Cardinality(EventKeys))
  BY <1>3, <1>4 DEF SeqOf
<1>. QED
  BY <1>2, <1>5 DEF IsInjective, Range

\* The lists of a transaction are sequences of keys.
LEMMA TxnFacts ==
  ASSUME NEW q \in Txn
  PROVE  /\ Len(q.events) \in 0..MaxItems /\ Len(q.receipts) \in 0..MaxItems
         /\ DOMAIN q.events = 1..Len(q.events) /\ DOMAIN q.receipts = 1..Len(q.receipts)
         /\ \A i \in 1..Len(q.events) : q.events[i] \in EventKeys
         /\ \A i \in 1..Len(q.receipts) : q.receipts[i] \in EventKeys
         /\ MaxItems \in Nat
         /\ q.receipts # << >> => Len(q.receipts) >= 1
<1>0. MaxItems \in Nat
  BY SyncTxnAssumption
<1>1. q.events \in SeqOf(EventKeys, MaxItems) /\ q.receipts \in SeqOf(EventKeys, MaxItems)
  BY DEF Txn
<1>2. /\ Len(q.events) \in 0..MaxItems /\ DOMAIN q.events = 1..Len(q.events)
      /\ q.events \in [1..Len(q.events) -> EventKeys]
  BY <1>0, <1>1, SeqOfFacts
<1>3. /\ Len(q.receipts) \in 0..MaxItems /\ DOMAIN q.receipts = 1..Len(q.receipts)
      /\ q.receipts \in [1..Len(q.receipts) -> EventKeys]
  BY <1>0, <1>1, SeqOfFacts
<1>4. ASSUME q.receipts # << >>, Len(q.receipts) = 0
      PROVE  FALSE
  BY <1>3, <1>4
<1>. QED
  BY <1>0, <1>2, <1>3, <1>4

\* How far a transaction is, by its statement.
LEMMA ThroughFacts ==
  ASSUME NEW q
  PROVE  /\ q.phase \in {"getEvent", "insertEvent", "getEventAgain"} => Through(q) = q.at - 1
         /\ q.phase = "hint" => Through(q) = q.at
         /\ q.phase \in {"idle", "getReceipt", "insertReceipt", "mark", "commit"} =>
              Through(q) = Len(q.events)
BY DEF Through, EventPhases

\* On to item i of the events: nothing is written, and i - 1 events are behind.
LEMMA EventsFromFacts ==
  ASSUME NEW q \in Txn, NEW i \in 1..(Len(q.events) + 1), NEW r, r = EventsFrom(q, i)
  PROVE  /\ r \in Txn
         /\ r.events = q.events /\ r.receipts = q.receipts
         /\ r.new = q.new /\ r.newReceipts = q.newReceipts /\ r.marked = q.marked
         /\ r.phase \in {"getEvent", "getReceipt", "commit"}
         /\ Through(r) = i - 1
         /\ r.phase = "getEvent" => r.at \in DOMAIN r.events
         /\ r.phase = "getReceipt" => r.at = 1 /\ 1 \in DOMAIN r.receipts
<1>0. i \in 1..(MaxItems + 1) /\ 1 \in 1..(MaxItems + 1)
      /\ "getEvent" \in Phases /\ "getReceipt" \in Phases /\ "commit" \in Phases
  BY TxnFacts DEF Phases
<1>1. CASE i <= Len(q.events)
  <2>1. r = [q EXCEPT !.phase = "getEvent", !.at = i]
    BY <1>1 DEF EventsFrom
  <2>2. /\ r \in Txn /\ r.phase = "getEvent" /\ r.at = i
        /\ r.events = q.events /\ r.receipts = q.receipts
        /\ r.new = q.new /\ r.newReceipts = q.newReceipts /\ r.marked = q.marked
    BY <1>0, <2>1 DEF Txn
  <2>. QED
    BY <1>1, <2>2, TxnFacts, ThroughFacts
<1>2. CASE i = Len(q.events) + 1 /\ q.receipts # << >>
  <2>1. r = [q EXCEPT !.phase = "getReceipt", !.at = 1]
    BY <1>2, TxnFacts DEF EventsFrom
  <2>2. /\ r \in Txn /\ r.phase = "getReceipt" /\ r.at = 1
        /\ r.events = q.events /\ r.receipts = q.receipts
        /\ r.new = q.new /\ r.newReceipts = q.newReceipts /\ r.marked = q.marked
    BY <1>0, <2>1 DEF Txn
  <2>. QED
    BY <1>2, <2>2, TxnFacts, ThroughFacts
<1>3. CASE i = Len(q.events) + 1 /\ q.receipts = << >>
  <2>1. r = [q EXCEPT !.phase = "commit", !.at = 1]
    BY <1>3, TxnFacts DEF EventsFrom
  <2>2. /\ r \in Txn /\ r.phase = "commit" /\ r.at = 1
        /\ r.events = q.events /\ r.receipts = q.receipts
        /\ r.new = q.new /\ r.newReceipts = q.newReceipts /\ r.marked = q.marked
    BY <1>0, <2>1 DEF Txn
  <2>. QED
    BY <1>3, <2>2, TxnFacts, ThroughFacts
<1>. QED
  BY <1>1, <1>2, <1>3, TxnFacts

\* On to item i of the receipts: nothing is written, and the events are behind.
LEMMA ReceiptsFromFacts ==
  ASSUME NEW q \in Txn, NEW i \in 1..(Len(q.receipts) + 1), NEW r, r = ReceiptsFrom(q, i)
  PROVE  /\ r \in Txn
         /\ r.events = q.events /\ r.receipts = q.receipts
         /\ r.new = q.new /\ r.newReceipts = q.newReceipts /\ r.marked = q.marked
         /\ r.phase \in {"getReceipt", "commit"}
         /\ Through(r) = Len(q.events)
         /\ r.phase = "getReceipt" => r.at = i /\ i \in DOMAIN r.receipts
<1>0. i \in 1..(MaxItems + 1) /\ 1 \in 1..(MaxItems + 1)
      /\ "getReceipt" \in Phases /\ "commit" \in Phases
  BY TxnFacts DEF Phases
<1>1. CASE i <= Len(q.receipts)
  <2>1. r = [q EXCEPT !.phase = "getReceipt", !.at = i]
    BY <1>1 DEF ReceiptsFrom
  <2>2. /\ r \in Txn /\ r.phase = "getReceipt" /\ r.at = i
        /\ r.events = q.events /\ r.receipts = q.receipts
        /\ r.new = q.new /\ r.newReceipts = q.newReceipts /\ r.marked = q.marked
    BY <1>0, <2>1 DEF Txn
  <2>. QED
    BY <1>1, <2>2, TxnFacts, ThroughFacts
<1>2. CASE i = Len(q.receipts) + 1
  <2>1. r = [q EXCEPT !.phase = "commit", !.at = 1]
    BY <1>2, TxnFacts DEF ReceiptsFrom
  <2>2. /\ r \in Txn /\ r.phase = "commit" /\ r.at = 1
        /\ r.events = q.events /\ r.receipts = q.receipts
        /\ r.new = q.new /\ r.newReceipts = q.newReceipts /\ r.marked = q.marked
    BY <1>0, <2>1 DEF Txn
  <2>. QED
    BY <1>2, <2>2, TxnFacts, ThroughFacts
<1>. QED
  BY <1>1, <1>2, TxnFacts

-----------------------------------------------------------------------------

\* A step of w inside its transaction: it may insert a key nobody has inserted, lock a
\* row nobody has locked, insert a receipt it has looked for and hint at what it has
\* inserted, and it is where it should be.
Advances(w, q) ==
  /\ q \in Txn /\ InPlace(q)
  /\ txn' = [txn EXCEPT ![w] = q]
  /\ UNCHANGED <<eventRows, receiptRows, bulk, undone>>
  /\ raced \subseteq raced' /\ raced' \subseteq EventKeys
  /\ q.phase = "insertReceipt" => receiptRows[ReceiptAt(q)] = 0
  /\ \A e \in q.newReceipts \ txn[w].newReceipts :
       /\ w \in AboutToInsert(e)
       /\ e \in raced' \/ (receiptRows[e] = 0 /\ InsertingReceipt(e) = {})
  /\ txn[w].new \subseteq q.new /\ txn[w].marked \subseteq q.marked
  /\ \A e \in q.new \ txn[w].new : e \notin Committed /\ Inserting(e) \subseteq {w}
  /\ \A e \in q.marked \ txn[w].marked :
       e \in Committed \cup txn[w].new /\ Locking(e) \subseteq {w}
  /\ hinted \subseteq hinted' /\ hinted' \subseteq hinted \cup q.new
  /\ \A i \in 1..Through(q) : Sees(q, q.events[i]) \/ q.events[i] \in undone

LEMMA BeginAdvances ==
  ASSUME TxnInv, NEW w \in Handlers,
         NEW pushes \in SeqOf(EventKeys, MaxItems), NEW relayed \in SeqOf(EventKeys, MaxItems),
         BeginTxn(w, pushes, relayed)
  PROVE  \E q \in Txn : Advances(w, q)
<1>. DEFINE p == [NoTxn EXCEPT !.events = pushes, !.receipts = relayed]
            q == EventsFrom(p, 1)
<1>1. txn[w] \in Txn /\ InPlace(txn[w]) /\ txn[w].phase = "idle" /\ txn[w] = NoTxn
  BY DEF TxnInv, TxnTypeOK, BeginTxn, InPlace
<1>p. p = [NoTxn EXCEPT !.events = pushes, !.receipts = relayed]
  OBVIOUS
<1>q. q = EventsFrom(p, 1)
  OBVIOUS
<1>. HIDE DEF p, q
<1>2. /\ p \in Txn /\ p.new = {} /\ p.newReceipts = {} /\ p.marked = {}
      /\ 1 \in 1..(Len(p.events) + 1)
  <2>1. 1 \in 1..(MaxItems + 1) /\ "idle" \in Phases
    BY SyncTxnAssumption DEF Phases
  <2>2. p \in Txn /\ p.new = {} /\ p.newReceipts = {} /\ p.marked = {}
    BY <1>p, <2>1 DEF Txn, NoTxn
  <2>. QED
    BY <2>2, TxnFacts
<1>3. /\ q \in Txn /\ q.new = {} /\ q.newReceipts = {} /\ q.marked = {} /\ Through(q) = 0
      /\ q.phase \in {"getEvent", "getReceipt", "commit"}
      /\ q.phase = "getEvent" => q.at \in DOMAIN q.events
      /\ q.phase = "getReceipt" => q.at = 1 /\ 1 \in DOMAIN q.receipts
  BY <1>2, <1>q, EventsFromFacts
<1>4. InPlace(q)
  BY <1>3 DEF InPlace, EventPhases, ReceiptPhases
<1>5. /\ txn' = [txn EXCEPT ![w] = q]
      /\ UNCHANGED <<eventRows, receiptRows, raced, bulk, undone, hinted>>
  BY <1>p, <1>q DEF BeginTxn
<1>6. txn[w].new = {} /\ txn[w].marked = {}
  BY <1>1 DEF NoTxn
<1>7. raced \subseteq EventKeys
  BY DEF TxnInv, TxnTypeOK
<1>8. Advances(w, q)
  BY <1>3, <1>4, <1>5, <1>6, <1>7 DEF Advances
<1>. QED
  BY <1>3, <1>8

\* On to the next event, which w sees.
LEMMA NextEventAdvances ==
  ASSUME TxnInv, NEW w \in Handlers, txn[w].phase \in EventPhases,
         Sees(txn[w], EventAt(txn[w])),
         txn' = [txn EXCEPT ![w] = EventsFrom(txn[w], txn[w].at + 1)],
         UNCHANGED <<eventRows, receiptRows, raced, bulk, undone>>,
         hinted \subseteq hinted', hinted' \subseteq hinted \cup txn[w].new
  PROVE  \E q \in Txn : Advances(w, q)
<1>. DEFINE p == txn[w]
            q == EventsFrom(p, p.at + 1)
<1>p. p = txn[w]
  OBVIOUS
<1>q. q = EventsFrom(p, p.at + 1)
  OBVIOUS
<1>. HIDE DEF p, q
<1>1. p \in Txn /\ InPlace(p) /\ p.at \in DOMAIN p.events /\ p.newReceipts = {} /\ p.marked = {}
  BY <1>p DEF TxnInv, TxnTypeOK, InPlace
<1>2. p.at \in 1..Len(p.events) /\ p.at + 1 \in 1..(Len(p.events) + 1)
  BY <1>1, TxnFacts
<1>3. /\ q \in Txn /\ q.events = p.events /\ q.receipts = p.receipts
      /\ q.new = p.new /\ q.newReceipts = {} /\ q.marked = {} /\ Through(q) = p.at
      /\ q.phase \in {"getEvent", "getReceipt", "commit"}
      /\ q.phase = "getEvent" => q.at \in DOMAIN q.events
      /\ q.phase = "getReceipt" => q.at = 1 /\ 1 \in DOMAIN q.receipts
  BY <1>1, <1>2, <1>q, EventsFromFacts, SMTT(30)
<1>4. Through(p) \in {p.at - 1, p.at}
  BY <1>p, ThroughFacts DEF EventPhases
<1>5. \A e \in q.new : \E i \in 1..Through(q) : e = q.events[i]
  BY <1>1, <1>2, <1>3, <1>4 DEF InPlace
<1>6. InPlace(q)
  BY <1>3, <1>5 DEF InPlace, EventPhases, ReceiptPhases
<1>7. \A i \in 1..Through(q) : Sees(q, q.events[i]) \/ q.events[i] \in undone
  <2>. SUFFICES ASSUME NEW i \in 1..p.at
                PROVE  Sees(p, p.events[i]) \/ p.events[i] \in undone
    BY <1>3 DEF Sees
  <2>1. CASE i = p.at
    BY <1>p, <2>1 DEF EventAt
  <2>2. CASE i \in 1..Through(p)
    BY <1>p, <2>2 DEF TxnInv, AcceptedIsThere
  <2>. QED
    BY <1>2, <1>4, <2>1, <2>2
<1>8. raced \subseteq EventKeys
  BY DEF TxnInv, TxnTypeOK
<1>9. Advances(w, q)
  BY <1>p, <1>q, <1>1, <1>3, <1>6, <1>7, <1>8 DEF Advances
<1>. QED
  BY <1>3, <1>9

\* Another statement about the same event.
LEMMA OtherStatementAdvances ==
  ASSUME TxnInv, NEW w \in Handlers,
         txn[w].phase \in {"getEvent", "insertEvent"},
         NEW ph \in {"insertEvent", "getEventAgain"},
         txn' = [txn EXCEPT ![w] = [txn[w] EXCEPT !.phase = ph]],
         UNCHANGED <<eventRows, receiptRows, raced, bulk, undone, hinted>>
  PROVE  \E q \in Txn : Advances(w, q)
<1>. DEFINE p == txn[w]
            q == [p EXCEPT !.phase = ph]
<1>1. /\ p \in Txn /\ InPlace(p) /\ p.at \in DOMAIN p.events
      /\ p.newReceipts = {} /\ p.marked = {}
  BY DEF TxnInv, TxnTypeOK, InPlace, EventPhases
<1>2. /\ q \in Txn /\ q.phase = ph /\ q.at = p.at /\ q.events = p.events
      /\ q.new = p.new /\ q.newReceipts = {} /\ q.marked = {}
  BY <1>1 DEF Txn, Phases
<1>3. Through(q) = Through(p)
  BY <1>2, ThroughFacts
<1>4. txn' = [txn EXCEPT ![w] = q]
  OBVIOUS
<1>. HIDE DEF q
<1>5. InPlace(q)
  BY <1>1, <1>2, <1>3 DEF InPlace, EventPhases, ReceiptPhases
<1>6. \A i \in 1..Through(q) : Sees(q, q.events[i]) \/ q.events[i] \in undone
  BY <1>2, <1>3 DEF TxnInv, AcceptedIsThere, Sees
<1>7. raced \subseteq EventKeys
  BY DEF TxnInv, TxnTypeOK
<1>8. Advances(w, q)
  BY <1>1, <1>2, <1>4, <1>5, <1>6, <1>7 DEF Advances
<1>. QED
  BY <1>2, <1>8

\* A statement about a receipt, or the next of them, with what it has inserted or locked.
LEMMA ReceiptStatementAdvances ==
  ASSUME TxnInv, NEW w \in Handlers, txn[w].phase \in ReceiptPhases,
         NEW q \in Txn,
         q.phase \in ReceiptPhases \cup {"commit"},
         q.events = txn[w].events, q.receipts = txn[w].receipts, q.new = txn[w].new,
         q.phase \in ReceiptPhases => q.at \in DOMAIN q.receipts,
         \/ q.at = txn[w].at /\ q.marked = txn[w].marked
         \/ /\ q.phase = "commit" \/ q.at = txn[w].at + 1
            /\ q.marked \in {txn[w].marked, txn[w].marked \cup {ReceiptAt(txn[w])}}
            /\ q.marked # txn[w].marked => /\ Sees(txn[w], ReceiptAt(txn[w]))
                                           /\ Locking(ReceiptAt(txn[w])) \subseteq {w},
         q.phase = "insertReceipt" => receiptRows[ReceiptAt(q)] = 0,
         \A e \in q.newReceipts \ txn[w].newReceipts :
           /\ w \in AboutToInsert(e)
           /\ e \in raced' \/ (receiptRows[e] = 0 /\ InsertingReceipt(e) = {}),
         raced \subseteq raced', raced' \subseteq EventKeys,
         txn' = [txn EXCEPT ![w] = q],
         UNCHANGED <<eventRows, receiptRows, bulk, undone, hinted>>
  PROVE  \E r \in Txn : Advances(w, r)
<1>1. /\ txn[w] \in Txn /\ InPlace(txn[w]) /\ txn[w].at \in DOMAIN txn[w].receipts
      /\ txn[w].at \in 1..Len(txn[w].receipts)
  BY TxnFacts DEF TxnInv, TxnTypeOK, InPlace
<1>2. Through(q) = Len(q.events) /\ Through(txn[w]) = Len(q.events)
  BY ThroughFacts DEF ReceiptPhases
<1>3. q.phase \in ReceiptPhases =>
        \A e \in q.marked : \E i \in 1..(q.at - 1) : e = q.receipts[i]
  <2>. SUFFICES ASSUME q.phase \in ReceiptPhases, NEW e \in q.marked
                PROVE  \E i \in 1..(q.at - 1) : e = q.receipts[i]
    OBVIOUS
  <2>1. CASE e \in txn[w].marked
    BY <1>1, <2>1 DEF InPlace, ReceiptPhases
  <2>2. CASE e \notin txn[w].marked
    <3>1. e = q.receipts[txn[w].at] /\ q.at = txn[w].at + 1
      BY <2>2 DEF ReceiptAt, ReceiptPhases
    <3>. QED
      BY <1>1, <3>1
  <2>. QED
    BY <2>1, <2>2
<1>4. InPlace(q)
  <2>1. \A e \in q.new : \E i \in 1..Through(q) : e = q.events[i]
    BY <1>1, <1>2 DEF InPlace
  <2>. QED
    BY <1>3, <2>1 DEF InPlace, EventPhases, ReceiptPhases
<1>5. \A i \in 1..Through(q) : Sees(q, q.events[i]) \/ q.events[i] \in undone
  BY <1>2 DEF TxnInv, AcceptedIsThere, Sees
<1>6. /\ txn[w].marked \subseteq q.marked
      /\ \A e \in q.marked \ txn[w].marked :
           e \in Committed \cup txn[w].new /\ Locking(e) \subseteq {w}
  BY DEF Sees
<1>7. Advances(w, q)
  BY <1>4, <1>5, <1>6 DEF Advances
<1>. QED
  BY <1>7

LEMMA GetEventAdvances ==
  ASSUME TxnInv, NEW w \in Handlers, GetEvent(w)
  PROVE  \E q \in Txn : Advances(w, q)
<1>1. CASE Sees(txn[w], EventAt(txn[w]))
  BY <1>1, NextEventAdvances DEF GetEvent, EventPhases
<1>2. CASE ~Sees(txn[w], EventAt(txn[w]))
  BY <1>2, OtherStatementAdvances DEF GetEvent, EventPhases, Phases
<1>. QED
  BY <1>1, <1>2

LEMMA InsertEventAdvances ==
  ASSUME TxnInv, NEW w \in Handlers, InsertEvent(w)
  PROVE  \E q \in Txn : Advances(w, q)
<1>. DEFINE p == txn[w]
            e == EventAt(p)
            q == [p EXCEPT !.phase = "hint", !.new = @ \cup {e}]
<1>1. CASE Sees(txn[w], EventAt(txn[w]))
  BY <1>1, OtherStatementAdvances DEF InsertEvent, EventPhases, Phases
<1>2. CASE ~Sees(txn[w], EventAt(txn[w]))
  <2>1. /\ p \in Txn /\ InPlace(p) /\ p.phase = "insertEvent"
        /\ p.at \in DOMAIN p.events /\ p.newReceipts = {} /\ p.marked = {}
    BY DEF TxnInv, TxnTypeOK, InPlace, InsertEvent, EventPhases
  <2>2. p.at \in 1..Len(p.events) /\ e = p.events[p.at] /\ e \in EventKeys /\ w # Bulk
    BY <2>1, TxnFacts, SyncTxnAssumption DEF EventAt
  <2>3. /\ q \in Txn /\ q.phase = "hint" /\ q.at = p.at /\ q.events = p.events
        /\ q.new = p.new \cup {e} /\ q.newReceipts = {} /\ q.marked = {}
    BY <2>1, <2>2 DEF Txn, Phases
  <2>4. /\ Through(p) = p.at - 1 /\ Through(q) = p.at
    BY <2>1, <2>3, ThroughFacts
  <2>5. /\ txn' = [txn EXCEPT ![w] = q]
        /\ UNCHANGED <<eventRows, receiptRows, raced, bulk, undone, hinted>>
    BY <1>2 DEF InsertEvent
  <2>6. e \notin Committed /\ Inserting(e) \subseteq {w}
    BY <1>2, <2>1, <2>2 DEF InsertEvent, WaitsFor, Sees
  <2>. HIDE DEF e, q
  <2>7. InPlace(q)
    <3>1. \A f \in q.new : \E i \in 1..Through(q) : f = q.events[i]
      BY <2>1, <2>2, <2>3, <2>4 DEF InPlace
    <3>. QED
      BY <2>1, <2>2, <2>3, <3>1 DEF InPlace, EventPhases, ReceiptPhases, EventAt
  <2>8. \A i \in 1..Through(q) : Sees(q, q.events[i]) \/ q.events[i] \in undone
    <3>. SUFFICES ASSUME NEW i \in 1..p.at
                  PROVE  Sees(q, p.events[i]) \/ p.events[i] \in undone
      BY <2>3, <2>4
    <3>1. CASE i = p.at
      BY <2>2, <2>3, <3>1 DEF Sees
    <3>2. CASE i \in 1..Through(p)
      BY <2>3, <3>2 DEF TxnInv, AcceptedIsThere, Sees
    <3>. QED
      BY <2>2, <2>4, <3>1, <3>2
  <2>9. raced \subseteq EventKeys
    BY DEF TxnInv, TxnTypeOK
  <2>10. Advances(w, q)
    BY <2>3, <2>1, <2>5, <2>6, <2>7, <2>8, <2>9 DEF Advances
  <2>. QED
    BY <2>3, <2>10
<1>. QED
  BY <1>1, <1>2

LEMMA GetEventAgainAdvances ==
  ASSUME TxnInv, NEW w \in Handlers, GetEventAgain(w), Sees(txn[w], EventAt(txn[w]))
  PROVE  \E q \in Txn : Advances(w, q)
BY NextEventAdvances DEF GetEventAgain, EventPhases

LEMMA HintAdvances ==
  ASSUME TxnInv, NEW w \in Handlers, Hint(w)
  PROVE  \E q \in Txn : Advances(w, q)
<1>1. EventAt(txn[w]) \in txn[w].new
  BY DEF TxnInv, InPlace, Hint
<1>2. Sees(txn[w], EventAt(txn[w]))
  BY <1>1 DEF Sees
<1>. QED
  BY <1>1, <1>2, NextEventAdvances DEF Hint, EventPhases

LEMMA GetReceiptAdvances ==
  ASSUME TxnInv, NEW w \in Handlers, GetReceipt(w), Receipts(txn[w], ReceiptAt(txn[w])) < 2
  PROVE  \E q \in Txn : Advances(w, q)
<1>. DEFINE p == txn[w]
<1>1. p \in Txn /\ InPlace(p) /\ p.phase = "getReceipt" /\ p.at \in DOMAIN p.receipts
  BY DEF TxnInv, TxnTypeOK, InPlace, GetReceipt, ReceiptPhases
<1>2. receiptRows[ReceiptAt(p)] \in Nat
  BY <1>1, TxnFacts DEF TxnInv, TxnTypeOK, ReceiptAt
<1>3. PICK ph \in {"insertReceipt", "mark"} :
        /\ txn' = [txn EXCEPT ![w].phase = ph]
        /\ ph = "insertReceipt" => Receipts(p, ReceiptAt(p)) = 0
        /\ UNCHANGED <<eventRows, receiptRows, raced, bulk, undone, hinted>>
  BY <1>2 DEF GetReceipt, At, Receipts
<1>4. PICK q : q = [p EXCEPT !.phase = ph]
  OBVIOUS
<1>5. /\ q \in Txn /\ q.phase = ph /\ q.at = p.at /\ q.events = p.events
      /\ q.receipts = p.receipts /\ q.new = p.new /\ q.marked = p.marked
      /\ q.newReceipts = p.newReceipts
      /\ txn' = [txn EXCEPT ![w] = q]
  BY <1>1, <1>3, <1>4 DEF Txn, Phases
<1>6. q.phase = "insertReceipt" => receiptRows[ReceiptAt(q)] = 0
  BY <1>2, <1>3, <1>5 DEF Receipts, ReceiptAt
<1>7. raced' = raced /\ raced \subseteq EventKeys
  BY <1>3 DEF TxnInv, TxnTypeOK
<1>. QED
  BY <1>1, <1>3, <1>5, <1>6, <1>7, ReceiptStatementAdvances DEF ReceiptPhases

LEMMA InsertReceiptAdvances ==
  ASSUME TxnInv, NEW w \in Handlers, InsertReceipt(w)
  PROVE  \E q \in Txn : Advances(w, q)
<1>. DEFINE p == txn[w]
            e == ReceiptAt(p)
<1>1. p \in Txn /\ InPlace(p) /\ p.phase = "insertReceipt" /\ p.at \in DOMAIN p.receipts
  BY DEF TxnInv, TxnTypeOK, InPlace, InsertReceipt, ReceiptPhases
<1>2. e \in EventKeys /\ receiptRows[e] \in Nat
  BY <1>1, TxnFacts DEF ReceiptAt, TxnInv, TxnTypeOK
<1>3. PICK q : q = [p EXCEPT !.phase = "mark", !.newReceipts = @ \cup {e}]
  OBVIOUS
<1>4. /\ q \in Txn /\ q.phase = "mark" /\ q.at = p.at /\ q.events = p.events
      /\ q.receipts = p.receipts /\ q.new = p.new /\ q.marked = p.marked
      /\ q.newReceipts = p.newReceipts \cup {e}
      /\ txn' = [txn EXCEPT ![w] = q]
      /\ UNCHANGED <<eventRows, receiptRows, bulk, undone, hinted>>
  BY <1>1, <1>2, <1>3 DEF Txn, Phases, InsertReceipt
<1>5. /\ raced \subseteq raced' /\ raced' \subseteq EventKeys
      /\ e \in raced' \/ (receiptRows[e] = 0 /\ InsertingReceipt(e) = {})
  <2>1. raced \subseteq EventKeys
    BY DEF TxnInv, TxnTypeOK
  <2>2. raced' = IF receiptRows[e] > 0 \/ \E v \in Handlers : e \in txn[v].newReceipts
                 THEN raced \cup {e} ELSE raced
    BY DEF InsertReceipt
  <2>. HIDE DEF e
  <2>3. CASE receiptRows[e] > 0 \/ \E v \in Handlers : e \in txn[v].newReceipts
    <3>1. raced' = raced \cup {e}
      BY <2>2, <2>3
    <3>. QED
      BY <1>2, <2>1, <3>1
  <2>4. CASE ~(receiptRows[e] > 0 \/ \E v \in Handlers : e \in txn[v].newReceipts)
    BY <1>2, <2>1, <2>2, <2>4 DEF InsertingReceipt
  <2>. QED
    BY <2>3, <2>4
<1>6. w \in AboutToInsert(e)
  BY <1>1 DEF AboutToInsert
<1>. QED
  BY <1>1, <1>4, <1>5, <1>6, ReceiptStatementAdvances DEF ReceiptPhases

\* gc and ack hold rows of the table, those before the one they are at.
LEMMA BulkFacts ==
  ASSUME TxnTypeOK
  PROVE  /\ bulk.at \in Nat \ {0} /\ Len(bulk.scan) \in Nat
         /\ DOMAIN bulk.scan = 1..Len(bulk.scan)
         /\ bulk.scan \in [1..Len(bulk.scan) -> EventKeys]
         /\ bulk.scan \in SeqOf(EventKeys, Cardinality(EventKeys))
<1>1. Cardinality(EventKeys) \in Nat
  BY SyncTxnAssumption, FS_CardinalityType
<1>2. bulk.scan \in SeqOf(EventKeys, Cardinality(EventKeys))
      /\ bulk.at \in 1..(Cardinality(EventKeys) + 1)
  BY DEF TxnTypeOK, BulkState
<1>. QED
  BY <1>1, <1>2, SeqOfFacts

LEMMA BulkLocksStay ==
  ASSUME TxnTypeOK, LocksAreExclusive
  PROVE  BulkLocks \subseteq Committed
<1>. SUFFICES ASSUME NEW i \in 1..(bulk.at - 1)
              PROVE  bulk.scan[i] \in Committed
  BY DEF BulkLocks
<1>1. i \in DOMAIN bulk.scan
  BY BulkFacts DEF LocksAreExclusive
<1>. QED
  BY <1>1 DEF LocksAreExclusive, Range

LEMMA MarkAdvances ==
  ASSUME TxnInv, NEW w \in Handlers, MarkDelivered(w)
  PROVE  \E q \in Txn : Advances(w, q)
<1>. DEFINE p == txn[w]
            e == ReceiptAt(p)
<1>1. /\ p \in Txn /\ InPlace(p) /\ p.phase = "mark" /\ p.at \in DOMAIN p.receipts
      /\ p.at \in 1..Len(p.receipts) /\ p.at + 1 \in 1..(Len(p.receipts) + 1)
  BY TxnFacts DEF TxnInv, TxnTypeOK, InPlace, MarkDelivered, ReceiptPhases
<1>2. e \in EventKeys /\ w # Bulk
  BY <1>1, TxnFacts, SyncTxnAssumption DEF ReceiptAt
<1>3. PICK m : m = IF Sees(p, e) THEN [p EXCEPT !.marked = @ \cup {e}] ELSE p
  OBVIOUS
<1>4. /\ m \in Txn /\ m.events = p.events /\ m.receipts = p.receipts /\ m.new = p.new
      /\ m.newReceipts = p.newReceipts
      /\ m.marked = IF Sees(p, e) THEN p.marked \cup {e} ELSE p.marked
  BY <1>1, <1>2, <1>3 DEF Txn
<1>5. PICK q : q = ReceiptsFrom(m, p.at + 1)
  OBVIOUS
<1>6. /\ q \in Txn /\ q.events = p.events /\ q.receipts = p.receipts /\ q.new = p.new
      /\ q.newReceipts = p.newReceipts
      /\ q.marked = m.marked /\ q.phase \in {"getReceipt", "commit"}
      /\ q.phase = "getReceipt" => q.at = p.at + 1 /\ q.at \in DOMAIN q.receipts
  BY <1>1, <1>4, <1>5, ReceiptsFromFacts
<1>7. txn' = [txn EXCEPT ![w] = q] /\ UNCHANGED <<eventRows, receiptRows, raced, bulk, undone, hinted>>
  BY <1>3, <1>5 DEF MarkDelivered
<1>8. ASSUME Sees(p, e)
      PROVE  Locking(e) \subseteq {w}
  <2>1. CASE e \in Committed
    BY <1>1, <1>2, <2>1 DEF MarkDelivered, WaitsFor
  <2>2. CASE e \notin Committed
    <3>1. e \in p.new /\ Inserting(e) = {w}
      BY <1>8, <2>2 DEF Sees, TxnInv, KeysAreUnique
    <3>2. ASSUME NEW v \in Handlers, e \in txn[v].marked
          PROVE  v = w
      BY <2>2, <3>1, <3>2 DEF TxnInv, KeysAreUnique, Inserting
    <3>3. e \notin BulkLocks
      BY <2>2, BulkLocksStay DEF TxnInv
    <3>. QED
      BY <3>2, <3>3 DEF Locking
  <2>. QED
    BY <2>1, <2>2
<1>9. raced' = raced /\ raced \subseteq EventKeys
  BY DEF TxnInv, TxnTypeOK, MarkDelivered
<1>. QED
  BY <1>1, <1>4, <1>6, <1>7, <1>8, <1>9, ReceiptStatementAdvances DEF ReceiptPhases

-----------------------------------------------------------------------------
(* Each part of the invariant over each kind of step.                      *)

TxnSafe ==
  /\ \A w \in Handlers : InPlace(txn[w])
  /\ KeysAreUnique /\ AcceptedIsThere /\ HintsComeTrue /\ LocksAreExclusive

LEMMA AdvancesKeeps ==
  ASSUME TxnInv, NEW w \in Handlers, NEW q \in Txn, Advances(w, q)
  PROVE  TxnSafe'
<1>1. /\ txn' = [txn EXCEPT ![w] = q] /\ txn'[w] = q
      /\ \A v \in Handlers : v # w => txn'[v] = txn[v]
      /\ eventRows' = eventRows /\ bulk' = bulk /\ undone' = undone
  BY DEF Advances, TxnInv, TxnTypeOK
<1>2. Committed' = Committed /\ BulkLocks' = BulkLocks
  BY <1>1 DEF Committed, BulkLocks
<1>3. \A e : /\ Inserting(e)' \subseteq Inserting(e) \cup {w}
             /\ Inserting(e) \subseteq Inserting(e)'
  BY <1>1 DEF Inserting, Advances
<1>4. \A e : /\ Locking(e)' \subseteq Locking(e) \cup {w}
             /\ w \in Locking(e)' \ Locking(e) => e \in q.marked \ txn[w].marked
  BY <1>1, <1>2, SyncTxnAssumption DEF Locking
<1>5. (\A v \in Handlers : InPlace(txn[v]))'
  <2>. SUFFICES ASSUME NEW v \in Handlers
                PROVE  InPlace(txn'[v])
    BY DEF InPlace, Through, EventAt
  <2>. QED
    BY <1>1 DEF TxnInv, Advances
<1>6. KeysAreUnique'
  <2>. SUFFICES ASSUME NEW v \in Handlers
                PROVE  /\ txn'[v].new \cap Committed = {}
                       /\ \A e \in txn'[v].new : Inserting(e)' = {v}
                       /\ \A e \in txn'[v].marked : e \in Committed \cup txn'[v].new
    BY <1>2 DEF KeysAreUnique
  <2>0. KeysAreUnique
    BY DEF TxnInv
  <2>1. CASE v = w
    <3>1. q.new \cap Committed = {}
      BY <2>0 DEF KeysAreUnique, Advances
    <3>2. \A e \in q.marked : e \in Committed \cup q.new
      BY <2>0 DEF KeysAreUnique, Advances
    <3>3. \A e \in q.new : Inserting(e) \subseteq {w} /\ w \in Inserting(e)'
      BY <2>0, <1>1 DEF KeysAreUnique, Advances, Inserting
    <3>. QED
      BY <1>1, <1>3, <2>1, <3>1, <3>2, <3>3
  <2>2. CASE v # w
    <3>1. ASSUME NEW e \in txn[v].new
          PROVE  e \notin q.new
      <4>1. Inserting(e) = {v}
        BY <2>0 DEF KeysAreUnique
      <4>. QED
        BY <2>2, <4>1 DEF Advances, Inserting
    <3>2. \A e \in txn[v].new : w \notin Inserting(e)'
      BY <1>1, <3>1 DEF Inserting
    <3>. QED
      BY <1>1, <1>3, <2>0, <2>2, <3>2 DEF KeysAreUnique
  <2>. QED
    BY <2>1, <2>2
<1>7. AcceptedIsThere'
  <2>. SUFFICES ASSUME NEW v \in Handlers, NEW i \in 1..Through(txn'[v])
                PROVE  txn'[v].events[i] \in Committed \cup txn'[v].new \cup undone
    BY <1>1, <1>2 DEF AcceptedIsThere, Through, Sees
  <2>1. CASE v = w
    BY <1>1, <1>2, <2>1 DEF Advances, Sees
  <2>2. CASE v # w
    BY <1>1, <1>2, <2>2 DEF TxnInv, AcceptedIsThere, Sees
  <2>. QED
    BY <2>1, <2>2
<1>8. HintsComeTrue'
  <2>. SUFFICES ASSUME NEW e \in hinted'
                PROVE  e \in Committed \/ Inserting(e)' # {} \/ e \in undone
    BY <1>1, <1>2 DEF HintsComeTrue
  <2>1. CASE e \in hinted
    BY <1>3, <2>1 DEF TxnInv, HintsComeTrue
  <2>2. CASE e \in q.new
    BY <1>1, <2>2 DEF Inserting
  <2>. QED
    BY <2>1, <2>2 DEF Advances
<1>9. LocksAreExclusive'
  <2>1. LocksAreExclusive
    BY DEF TxnInv
  <2>2. ASSUME NEW e \in EventKeys, NEW a \in Locking(e)', NEW b \in Locking(e)'
        PROVE  a = b
    <3>1. CASE w \in Locking(e)' \ Locking(e)
      <4>1. Locking(e) \subseteq {w}
        BY <1>4, <3>1 DEF Advances
      <4>. QED
        BY <1>4, <4>1
    <3>2. CASE ~(w \in Locking(e)' \ Locking(e))
      BY <1>4, <2>1, <3>2 DEF LocksAreExclusive
    <3>. QED
      BY <3>1, <3>2
  <2>. QED
    BY <1>1, <1>2, <2>1, <2>2 DEF LocksAreExclusive
<1>. QED
  BY <1>5, <1>6, <1>7, <1>8, <1>9 DEF TxnSafe

\* The end of a transaction: what it inserted is in the table, or is undone.
LEMMA EndKeeps ==
  ASSUME TxnInv, NEW w \in Handlers,
         txn' = [txn EXCEPT ![w] = NoTxn], UNCHANGED <<bulk, hinted>>,
         Committed \subseteq Committed', Committed' \subseteq Committed \cup txn[w].new,
         undone \subseteq undone', txn[w].new \subseteq Committed' \cup undone'
  PROVE  TxnSafe'
<1>1. /\ txn'[w] = NoTxn
      /\ \A v \in Handlers : v # w => txn'[v] = txn[v]
      /\ bulk' = bulk /\ BulkLocks' = BulkLocks /\ hinted' = hinted
  BY DEF TxnInv, TxnTypeOK, BulkLocks
<1>2. /\ NoTxn.phase = "idle" /\ NoTxn.new = {} /\ NoTxn.marked = {} /\ NoTxn.newReceipts = {}
      /\ NoTxn.events = << >> /\ Through(NoTxn) = 0
  BY DEF NoTxn, Through, EventPhases
<1>3. \A e : Inserting(e)' = Inserting(e) \ {w} /\ Locking(e)' \subseteq Locking(e)
  BY <1>1, <1>2, SyncTxnAssumption DEF Inserting, Locking
<1>4. (\A v \in Handlers : InPlace(txn[v]))'
  <2>. SUFFICES ASSUME NEW v \in Handlers
                PROVE  InPlace(txn'[v])
    BY DEF InPlace, Through, EventAt
  <2>1. InPlace(NoTxn)
    BY <1>2 DEF InPlace, EventPhases, ReceiptPhases
  <2>. QED
    BY <1>1, <2>1 DEF TxnInv
<1>5. KeysAreUnique'
  <2>. SUFFICES ASSUME NEW v \in Handlers, v # w
                PROVE  /\ txn[v].new \cap Committed' = {}
                       /\ \A e \in txn[v].new : Inserting(e)' = {v}
                       /\ \A e \in txn[v].marked : e \in Committed' \cup txn[v].new
    BY <1>1, <1>2 DEF KeysAreUnique
  <2>0. KeysAreUnique
    BY DEF TxnInv
  <2>1. txn[v].new \cap txn[w].new = {}
    BY <2>0 DEF KeysAreUnique, Inserting
  <2>. QED
    BY <1>3, <2>0, <2>1 DEF KeysAreUnique
<1>6. AcceptedIsThere'
  <2>. SUFFICES ASSUME NEW v \in Handlers, NEW i \in 1..Through(txn'[v])
                PROVE  txn'[v].events[i] \in Committed' \cup txn'[v].new \cup undone'
    BY DEF AcceptedIsThere, Through, Sees
  <2>1. CASE v = w
    BY <1>1, <1>2, <2>1
  <2>2. CASE v # w
    BY <1>1, <2>2 DEF TxnInv, AcceptedIsThere, Sees
  <2>. QED
    BY <2>1, <2>2
<1>7. HintsComeTrue'
  <2>. SUFFICES ASSUME NEW e \in hinted
                PROVE  e \in Committed' \/ Inserting(e)' # {} \/ e \in undone'
    BY <1>1 DEF HintsComeTrue
  <2>1. e \in Committed \/ Inserting(e) # {} \/ e \in undone
    BY DEF TxnInv, HintsComeTrue
  <2>2. w \in Inserting(e) => e \in txn[w].new
    BY DEF Inserting
  <2>. QED
    BY <1>3, <2>1, <2>2
<1>8. LocksAreExclusive'
  BY <1>1, <1>3 DEF TxnInv, LocksAreExclusive
<1>. QED
  BY <1>4, <1>5, <1>6, <1>7, <1>8 DEF TxnSafe

\* A step of gc or ack: what it removes nobody has locked, and is undone.
LEMMA ElsewhereKeeps ==
  ASSUME TxnInv, UNCHANGED <<txn, hinted>>, LocksAreExclusive',
         undone \subseteq undone', Committed' \subseteq Committed,
         Committed \ Committed' \subseteq undone',
         \A v \in Handlers : \A e \in txn[v].marked : e \notin Committed \ Committed'
  PROVE  TxnSafe'
<1>1. \A e : Inserting(e)' = Inserting(e)
  BY DEF Inserting
<1>2. (\A v \in Handlers : InPlace(txn[v]))'
  BY DEF TxnInv, InPlace, Through, EventAt
<1>3. KeysAreUnique'
  BY <1>1 DEF TxnInv, KeysAreUnique
<1>4. AcceptedIsThere'
  <2>. SUFFICES ASSUME NEW v \in Handlers, NEW i \in 1..Through(txn[v])
                PROVE  txn[v].events[i] \in Committed' \cup txn[v].new \cup undone'
    BY DEF AcceptedIsThere, Through, Sees
  <2>. QED
    BY DEF TxnInv, AcceptedIsThere, Sees
<1>5. HintsComeTrue'
  BY <1>1 DEF TxnInv, HintsComeTrue
<1>. QED
  BY <1>2, <1>3, <1>4, <1>5 DEF TxnSafe

LEMMA UndoKeeps ==
  ASSUME TxnInv, NEW w \in Handlers, Undo(w)
  PROVE  TxnSafe'
<1>1. Committed' = Committed
  BY DEF Undo, Committed
<1>. QED
  BY <1>1, EndKeeps DEF Undo

LEMMA CommitKeeps ==
  ASSUME TxnInv, NEW w \in Handlers, Commit(w)
  PROVE  TxnSafe'
<1>1. \A e \in EventKeys :
        eventRows'[e] # "none" <=> e \in Committed \cup txn[w].new \cup txn[w].marked
  BY DEF Commit, EventsAfter, Committed
<1>2. txn[w].marked \subseteq Committed \cup txn[w].new /\ txn[w].new \subseteq EventKeys
  BY DEF TxnInv, KeysAreUnique, TxnTypeOK, Txn
<1>3. Committed' = Committed \cup txn[w].new
  BY <1>1, <1>2 DEF Committed
<1>. QED
  BY <1>3, EndKeeps DEF Commit

LEMMA BulkStartKeeps ==
  ASSUME TxnInv, NEW kind \in {"gc", "ack"}, NEW scan \in SetToAllKPermutations(Committed),
         BulkStart(kind, scan)
  PROVE  TxnSafe'
<1>1. /\ scan \in SeqOf(EventKeys, Cardinality(EventKeys)) /\ IsInjective(scan)
      /\ Range(scan) \subseteq Committed
  BY ScanFacts, SyncTxnAssumption DEF Committed
<1>2. Len(scan) \in Nat
  BY <1>1, SeqOfFacts, SyncTxnAssumption, FS_CardinalityType
<1>3. Committed' = Committed /\ bulk'.scan = scan /\ bulk'.at = 1 /\ BulkLocks' = {}
  BY DEF BulkStart, Committed, BulkLocks
<1>4. \A e : Locking(e)' \subseteq Locking(e)
  BY <1>3 DEF Locking, BulkStart
<1>5. LocksAreExclusive'
  BY <1>1, <1>2, <1>3, <1>4 DEF TxnInv, LocksAreExclusive
<1>. QED
  BY <1>3, <1>5, ElsewhereKeeps DEF BulkStart

LEMMA BulkLockKeeps ==
  ASSUME TxnInv, BulkLock
  PROVE  TxnSafe'
<1>1. /\ bulk.at \in 1..Len(bulk.scan) /\ bulk.scan[bulk.at] \in EventKeys
      /\ bulk'.scan = bulk.scan /\ bulk'.at = bulk.at + 1
      /\ Len(bulk.scan) \in Nat
  BY BulkFacts DEF TxnInv, BulkLock, TxnTypeOK, BulkState
<1>2. Committed' = Committed
  BY DEF BulkLock, Committed
<1>3. BulkLocks' \subseteq BulkLocks \cup {bulk.scan[bulk.at]}
  BY <1>1 DEF BulkLocks
<1>4. Locking(bulk.scan[bulk.at]) = {}
  BY <1>1 DEF BulkLock, WaitsFor
<1>5. ASSUME NEW e \in EventKeys, NEW a \in Locking(e)', NEW b \in Locking(e)'
      PROVE  a = b
  <2>1. Locking(e)' \subseteq Locking(e) \cup {Bulk}
    BY DEF Locking, BulkLock
  <2>2. CASE e = bulk.scan[bulk.at]
    BY <1>4, <2>1, <2>2
  <2>3. CASE e # bulk.scan[bulk.at]
    <3>1. Locking(e)' \subseteq Locking(e)
      BY <1>3, <2>3 DEF Locking, BulkLock
    <3>. QED
      BY <3>1 DEF TxnInv, LocksAreExclusive
  <2>. QED
    BY <2>2, <2>3
<1>6. LocksAreExclusive'
  BY <1>1, <1>2, <1>5 DEF TxnInv, LocksAreExclusive
<1>. QED
  BY <1>2, <1>6, ElsewhereKeeps DEF BulkLock

\* After gc, ack or their rollback no row is locked by them.
LEMMA NoBulkKeeps ==
  ASSUME TxnInv, bulk' = NoBulk, txn' = txn
  PROVE  LocksAreExclusive'
<1>1. BulkLocks' = {} /\ bulk'.scan = << >> /\ bulk'.at = 1
  BY DEF NoBulk, BulkLocks
<1>2. \A e : Locking(e)' \subseteq Locking(e)
  BY <1>1 DEF Locking
<1>. QED
  BY <1>1, <1>2 DEF TxnInv, LocksAreExclusive, IsInjective, Range

LEMMA GcDeleteKeeps ==
  ASSUME TxnInv, GcDelete
  PROVE  TxnSafe'
<1>1. Committed' = Committed \ BulkLocks
  BY DEF GcDelete, Committed
<1>2. ASSUME NEW v \in Handlers, NEW e \in txn[v].marked, e \in BulkLocks
      PROVE  FALSE
  <2>1. e \in EventKeys
    BY DEF TxnInv, TxnTypeOK, Txn
  <2>2. v \in Locking(e) /\ Bulk \in Locking(e)
    BY <1>2 DEF Locking
  <2>. QED
    BY <2>1, <2>2, SyncTxnAssumption DEF TxnInv, LocksAreExclusive
<1>. QED
  BY <1>1, <1>2, NoBulkKeeps, ElsewhereKeeps DEF GcDelete

LEMMA AckUpdateKeeps ==
  ASSUME TxnInv, AckUpdate
  PROVE  TxnSafe'
<1>1. BulkLocks \subseteq Committed
  BY BulkLocksStay DEF TxnInv
<1>2. Committed' = Committed
  BY <1>1 DEF AckUpdate, Committed
<1>. QED
  BY <1>2, NoBulkKeeps, ElsewhereKeeps DEF AckUpdate

LEMMA GcReceiptKeeps ==
  ASSUME TxnInv, NEW e \in EventKeys, GcReceipt(e)
  PROVE  TxnSafe'
<1>1. Committed' = Committed /\ BulkLocks' = BulkLocks
  BY DEF GcReceipt, Committed, BulkLocks
<1>2. LocksAreExclusive'
  BY <1>1 DEF TxnInv, GcReceipt, LocksAreExclusive, Locking
<1>. QED
  BY <1>1, <1>2, ElsewhereKeeps DEF GcReceipt

LEMMA BulkAbortedKeeps ==
  ASSUME TxnInv, BulkAborted
  PROVE  TxnSafe'
<1>1. Committed' = Committed
  BY DEF BulkAborted, Committed
<1>. QED
  BY <1>1, NoBulkKeeps, ElsewhereKeeps DEF BulkAborted

-----------------------------------------------------------------------------
(* Types, and the count of receipts.                                       *)

LEMMA NoTxnType == NoTxn \in Txn /\ NoBulk \in BulkState
<1>1. Cardinality(EventKeys) \in Nat /\ MaxItems \in Nat
  BY SyncTxnAssumption, FS_CardinalityType
<1>2. /\ << >> \in SeqOf(EventKeys, MaxItems)
      /\ << >> \in SeqOf(EventKeys, Cardinality(EventKeys))
  <2>1. << >> \in [1..0 -> EventKeys]
    OBVIOUS
  <2>2. 0 \in 0..MaxItems /\ 0 \in 0..Cardinality(EventKeys)
    BY <1>1
  <2>. QED
    BY <2>1, <2>2 DEF SeqOf
<1>. QED
  BY <1>1, <1>2 DEF Txn, NoTxn, Phases, BulkState, NoBulk

LEMMA TxnTypeInit == TxnInit => TxnTypeOK
BY NoTxnType DEF TxnInit, TxnTypeOK, Rows

LEMMA AdvancesTypes ==
  ASSUME TxnInv, NEW w \in Handlers, NEW q \in Txn, Advances(w, q),
         begun' \in [syncs : Nat, bulk : Nat]
  PROVE  TxnTypeOK'
<1>1. q.new \subseteq EventKeys
  BY DEF Txn
<1>. QED
  BY <1>1 DEF TxnInv, TxnTypeOK, Advances

LEMMA EndTypes ==
  ASSUME TxnInv, NEW w \in Handlers, Undo(w) \/ Commit(w)
  PROVE  TxnTypeOK'
<1>1. txn[w] \in Txn /\ txn[w].new \subseteq EventKeys
  BY DEF TxnInv, TxnTypeOK, Txn
<1>2. CASE Undo(w)
  BY <1>1, <1>2, NoTxnType DEF Undo, TxnInv, TxnTypeOK
<1>3. CASE Commit(w)
  <2>1. eventRows' \in [EventKeys -> Rows]
    BY <1>3 DEF Commit, EventsAfter, TxnInv, TxnTypeOK, Rows
  <2>2. receiptRows' \in [EventKeys -> Nat]
    BY <1>3 DEF Commit, Receipts, TxnInv, TxnTypeOK
  <2>. QED
    BY <1>3, <2>1, <2>2, NoTxnType DEF Commit, TxnInv, TxnTypeOK
<1>. QED
  BY <1>2, <1>3

LEMMA ElsewhereTypes ==
  ASSUME TxnInv, Elsewhere
  PROVE  TxnTypeOK'
<1>0. TxnTypeOK /\ Cardinality(EventKeys) \in Nat
  BY SyncTxnAssumption, FS_CardinalityType DEF TxnInv
<1>1. ASSUME NEW kind \in {"gc", "ack"}, NEW scan \in SetToAllKPermutations(Committed),
             BulkStart(kind, scan)
      PROVE  TxnTypeOK'
  <2>1. scan \in SeqOf(EventKeys, Cardinality(EventKeys))
    BY ScanFacts, SyncTxnAssumption DEF Committed
  <2>2. bulk' \in BulkState
    BY <1>0, <1>1, <2>1 DEF BulkStart, BulkState
  <2>. QED
    BY <1>0, <1>1, <2>2 DEF BulkStart, TxnTypeOK
<1>2. ASSUME NEW e \in EventKeys, GcReceipt(e)
      PROVE  TxnTypeOK'
  BY <1>0, <1>2 DEF GcReceipt, TxnTypeOK
<1>3. CASE BulkLock
  <2>0. /\ Len(bulk.scan) \in 0..Cardinality(EventKeys) /\ bulk.at \in Nat \ {0}
        /\ bulk.at <= Len(bulk.scan)
    BY <1>0, <1>3, BulkFacts, SeqOfFacts DEF BulkLock
  <2>1. bulk.at + 1 \in 1..(Cardinality(EventKeys) + 1)
    BY <1>0, <2>0
  <2>2. bulk' \in BulkState
    BY <1>0, <1>3, <2>1 DEF BulkLock, BulkState, TxnTypeOK
  <2>. QED
    BY <1>0, <1>3, <2>2 DEF BulkLock, TxnTypeOK
<1>4. BulkLocks \subseteq EventKeys
  BY <1>0, BulkLocksStay DEF TxnInv, Committed
<1>5. CASE GcDelete
  BY <1>0, <1>4, <1>5, NoTxnType DEF GcDelete, TxnTypeOK, Rows
<1>6. CASE AckUpdate
  BY <1>0, <1>6, NoTxnType DEF AckUpdate, TxnTypeOK, Rows
<1>7. CASE BulkAborted
  BY <1>0, <1>7, NoTxnType DEF BulkAborted, TxnTypeOK
<1>. QED
  BY <1>1, <1>2, <1>3, <1>5, <1>6, <1>7 DEF Elsewhere

\* The two counts of a receipt are finite, and of handlers.
LEMMA CountFacts ==
  ASSUME TxnTypeOK, NEW e \in EventKeys
  PROVE  /\ IsFiniteSet(InsertingReceipt(e) \cup AboutToInsert(e))
         /\ InsertingReceipt(e) \cup AboutToInsert(e) \subseteq Handlers
         /\ Cardinality(InsertingReceipt(e) \cup AboutToInsert(e)) \in 0..Cardinality(Handlers)
         /\ IsFiniteSet(InsertingReceipt(e)) /\ Cardinality(InsertingReceipt(e)) \in Nat
         /\ receiptRows[e] \in Nat /\ Cardinality(Handlers) \in Nat
<1>1. /\ InsertingReceipt(e) \cup AboutToInsert(e) \subseteq Handlers
      /\ InsertingReceipt(e) \subseteq Handlers /\ IsFiniteSet(Handlers)
  BY SyncTxnAssumption DEF InsertingReceipt, AboutToInsert
<1>. QED
  BY <1>1, FS_Subset, FS_CardinalityType DEF TxnTypeOK

\* The same of the next state: they are handlers whatever the state is.
LEMMA CountFactsPrimed ==
  ASSUME NEW e
  PROVE  /\ IsFiniteSet(InsertingReceipt(e)') /\ Cardinality(InsertingReceipt(e)') \in Nat
         /\ Cardinality(InsertingReceipt(e)' \cup AboutToInsert(e)')
              \in 0..Cardinality(Handlers)
<1>1. /\ InsertingReceipt(e)' \cup AboutToInsert(e)' \subseteq Handlers
      /\ InsertingReceipt(e)' \subseteq Handlers /\ IsFiniteSet(Handlers)
  BY SyncTxnAssumption DEF InsertingReceipt, AboutToInsert
<1>. QED
  BY <1>1, FS_Subset, FS_CardinalityType

\* Fewer rows and fewer who insert are counted no higher.
LEMMA FewerCounted ==
  ASSUME TxnInv, TxnTypeOK', raced \subseteq raced',
         NEW e \in EventKeys, receiptRows'[e] <= receiptRows[e],
         InsertingReceipt(e)' \subseteq InsertingReceipt(e),
         AboutToInsert(e)' \subseteq AboutToInsert(e)
  PROVE  /\ receiptRows'[e] + Cardinality(InsertingReceipt(e)' \cup AboutToInsert(e)')
              <= Cardinality(Handlers)
         /\ e \notin raced' => receiptRows'[e] + Cardinality(InsertingReceipt(e)') <= 1
<1>1. /\ receiptRows[e] + Cardinality(InsertingReceipt(e) \cup AboutToInsert(e))
           <= Cardinality(Handlers)
      /\ e \notin raced => receiptRows[e] + Cardinality(InsertingReceipt(e)) <= 1
  BY DEF TxnInv, ReceiptsAreCounted
<1>2. receiptRows[e] \in Nat /\ receiptRows'[e] \in Nat /\ Cardinality(Handlers) \in Nat
  BY CountFacts DEF TxnInv, TxnTypeOK
<1>3. /\ Cardinality(InsertingReceipt(e)' \cup AboutToInsert(e)')
           <= Cardinality(InsertingReceipt(e) \cup AboutToInsert(e))
      /\ Cardinality(InsertingReceipt(e) \cup AboutToInsert(e)) \in Nat
      /\ Cardinality(InsertingReceipt(e)' \cup AboutToInsert(e)') \in Nat
  BY CountFacts, FS_Subset, FS_CardinalityType DEF TxnInv
<1>4. /\ Cardinality(InsertingReceipt(e)') <= Cardinality(InsertingReceipt(e))
      /\ Cardinality(InsertingReceipt(e)) \in Nat /\ Cardinality(InsertingReceipt(e)') \in Nat
  BY CountFacts, FS_Subset, FS_CardinalityType DEF TxnInv
<1>. QED
  BY <1>1, <1>2, <1>3, <1>4

LEMMA AdvancesCounts ==
  ASSUME TxnInv, NEW w \in Handlers, NEW q \in Txn, Advances(w, q), TxnTypeOK'
  PROVE  ReceiptsAreCounted'
<1>. SUFFICES ASSUME NEW e \in EventKeys
              PROVE  /\ receiptRows'[e]
                          + Cardinality(InsertingReceipt(e)' \cup AboutToInsert(e)')
                          <= Cardinality(Handlers)
                     /\ e \notin raced' =>
                          receiptRows'[e] + Cardinality(InsertingReceipt(e)') <= 1
  BY DEF ReceiptsAreCounted
<1>1. /\ txn'[w] = q /\ \A v \in Handlers : v # w => txn'[v] = txn[v]
      /\ receiptRows' = receiptRows /\ raced \subseteq raced'
  BY DEF Advances, TxnInv, TxnTypeOK
<1>2. /\ InsertingReceipt(e)' \subseteq InsertingReceipt(e) \cup {w}
      /\ AboutToInsert(e)' \subseteq AboutToInsert(e) \cup {w}
  BY <1>1 DEF InsertingReceipt, AboutToInsert, ReceiptAt
<1>3. receiptRows[e] \in Nat /\ Cardinality(Handlers) \in Nat
      /\ Cardinality(InsertingReceipt(e)' \cup AboutToInsert(e)') \in Nat
  <2>1. TxnTypeOK
    BY DEF TxnInv
  <2>2. receiptRows[e] \in Nat /\ Cardinality(Handlers) \in Nat
    BY <2>1, CountFacts
  <2>. QED
    BY <2>2, CountFactsPrimed
<1>4. /\ receiptRows[e] + Cardinality(InsertingReceipt(e)' \cup AboutToInsert(e)')
           <= Cardinality(Handlers)
  <2>1. CASE InsertingReceipt(e)' \cup AboutToInsert(e)'
               \subseteq InsertingReceipt(e) \cup AboutToInsert(e)
    <3>1. Cardinality(InsertingReceipt(e)' \cup AboutToInsert(e)')
            <= Cardinality(InsertingReceipt(e) \cup AboutToInsert(e))
      <4>1. IsFiniteSet(InsertingReceipt(e) \cup AboutToInsert(e))
        BY CountFacts DEF TxnInv
      <4>. QED
        BY <2>1, <4>1, FS_Subset
    <3>2. /\ receiptRows[e] + Cardinality(InsertingReceipt(e) \cup AboutToInsert(e))
               <= Cardinality(Handlers)
          /\ Cardinality(InsertingReceipt(e) \cup AboutToInsert(e)) \in Nat
      <4>1. TxnTypeOK /\ ReceiptsAreCounted
        BY DEF TxnInv
      <4>2. Cardinality(InsertingReceipt(e) \cup AboutToInsert(e)) \in 0..Cardinality(Handlers)
        BY <4>1, CountFacts
      <4>. QED
        BY <1>3, <4>1, <4>2 DEF ReceiptsAreCounted
    <3>. QED
      BY <1>3, <3>1, <3>2
  <2>2. CASE ~(InsertingReceipt(e)' \cup AboutToInsert(e)'
                 \subseteq InsertingReceipt(e) \cup AboutToInsert(e))
    <3>1. w \notin InsertingReceipt(e) /\ w \notin AboutToInsert(e)
      BY <1>2, <2>2
    <3>2. w \notin InsertingReceipt(e)'
      BY <1>1, <3>1 DEF InsertingReceipt, Advances
    <3>3. w \in AboutToInsert(e)'
      BY <1>2, <2>2, <3>2
    <3>4. receiptRows[e] = 0
      BY <1>1, <3>3 DEF AboutToInsert, Advances
    <3>5. Cardinality(InsertingReceipt(e)' \cup AboutToInsert(e)') <= Cardinality(Handlers)
      BY <1>3, CountFactsPrimed
    <3>. QED
      BY <1>3, <3>4, <3>5
  <2>. QED
    BY <2>1, <2>2
<1>5. ASSUME e \notin raced'
      PROVE  receiptRows[e] + Cardinality(InsertingReceipt(e)') <= 1
  <2>0. /\ receiptRows[e] + Cardinality(InsertingReceipt(e)) <= 1
        /\ Cardinality(InsertingReceipt(e)) \in Nat
    BY <1>1, <1>5, CountFacts DEF TxnInv, ReceiptsAreCounted
  <2>1. CASE InsertingReceipt(e)' \subseteq InsertingReceipt(e)
    <3>1. /\ Cardinality(InsertingReceipt(e)') <= Cardinality(InsertingReceipt(e))
          /\ Cardinality(InsertingReceipt(e)') \in Nat
      BY <2>1, CountFacts, FS_Subset, FS_CardinalityType DEF TxnInv
    <3>. QED
      BY <1>3, <2>0, <3>1
  <2>2. CASE ~(InsertingReceipt(e)' \subseteq InsertingReceipt(e))
    <3>1. e \in q.newReceipts \ txn[w].newReceipts
      BY <1>1, <1>2, <2>2 DEF InsertingReceipt
    <3>2. receiptRows[e] = 0 /\ InsertingReceipt(e) = {}
      BY <1>5, <3>1 DEF Advances
    <3>3. InsertingReceipt(e)' = {w}
      BY <1>2, <2>2, <3>2
    <3>. QED
      BY <3>2, <3>3, FS_Singleton
  <2>. QED
    BY <2>1, <2>2
<1>. QED
  BY <1>1, <1>4, <1>5

LEMMA EndCounts ==
  ASSUME TxnInv, NEW w \in Handlers, Undo(w) \/ Commit(w), TxnTypeOK'
  PROVE  ReceiptsAreCounted'
<1>. SUFFICES ASSUME NEW e \in EventKeys
              PROVE  /\ receiptRows'[e]
                          + Cardinality(InsertingReceipt(e)' \cup AboutToInsert(e)')
                          <= Cardinality(Handlers)
                     /\ e \notin raced' =>
                          receiptRows'[e] + Cardinality(InsertingReceipt(e)') <= 1
  BY DEF ReceiptsAreCounted
<1>1. /\ txn'[w] = NoTxn /\ \A v \in Handlers : v # w => txn'[v] = txn[v]
      /\ raced' = raced
  BY DEF Undo, Commit, TxnInv, TxnTypeOK
<1>2. /\ InsertingReceipt(e)' = InsertingReceipt(e) \ {w}
      /\ AboutToInsert(e)' = AboutToInsert(e) \ {w}
  BY <1>1 DEF InsertingReceipt, AboutToInsert, NoTxn, ReceiptAt
<1>3. receiptRows[e] \in Nat
  BY DEF TxnInv, TxnTypeOK
<1>4. CASE w \in InsertingReceipt(e) /\ Commit(w)
  <2>1. receiptRows'[e] = receiptRows[e] + 1
    BY <1>4 DEF InsertingReceipt, Commit, Receipts
  <2>2. Cardinality(InsertingReceipt(e)') = Cardinality(InsertingReceipt(e)) - 1
    BY <1>2, <1>4, CountFacts, FS_RemoveElement DEF TxnInv
  <2>3. /\ InsertingReceipt(e)' \cup AboutToInsert(e)'
             = (InsertingReceipt(e) \cup AboutToInsert(e)) \ {w}
    BY <1>2
  <2>4. Cardinality(InsertingReceipt(e)' \cup AboutToInsert(e)')
          = Cardinality(InsertingReceipt(e) \cup AboutToInsert(e)) - 1
    BY <1>4, <2>3, CountFacts, FS_RemoveElement DEF TxnInv
  <2>5. /\ Cardinality(InsertingReceipt(e) \cup AboutToInsert(e)) \in Nat
        /\ Cardinality(InsertingReceipt(e)) \in Nat /\ Cardinality(Handlers) \in Nat
    BY CountFacts DEF TxnInv
  <2>. QED
    BY <1>1, <1>3, <2>1, <2>2, <2>4, <2>5 DEF TxnInv, ReceiptsAreCounted
<1>5. CASE ~(w \in InsertingReceipt(e) /\ Commit(w))
  <2>1. receiptRows'[e] = receiptRows[e]
    BY <1>3, <1>5 DEF InsertingReceipt, Commit, Receipts, Undo
  <2>2. /\ receiptRows'[e] <= receiptRows[e] /\ raced \subseteq raced'
        /\ InsertingReceipt(e)' \subseteq InsertingReceipt(e)
        /\ AboutToInsert(e)' \subseteq AboutToInsert(e)
    BY <1>1, <1>2, <1>3, <2>1
  <2>. QED
    BY <2>2, FewerCounted
<1>. QED
  BY <1>4, <1>5

LEMMA ElsewhereCounts ==
  ASSUME TxnInv, Elsewhere, TxnTypeOK'
  PROVE  ReceiptsAreCounted'
<1>. SUFFICES ASSUME NEW e \in EventKeys
              PROVE  /\ receiptRows'[e]
                          + Cardinality(InsertingReceipt(e)' \cup AboutToInsert(e)')
                          <= Cardinality(Handlers)
                     /\ e \notin raced' =>
                          receiptRows'[e] + Cardinality(InsertingReceipt(e)') <= 1
  BY DEF ReceiptsAreCounted
<1>0. receiptRows \in [EventKeys -> Nat]
  BY DEF TxnInv, TxnTypeOK
<1>1. txn' = txn /\ raced' = raced
  BY DEF Elsewhere, BulkStart, GcReceipt, BulkLock, GcDelete, AckUpdate, BulkAborted
<1>2. receiptRows'[e] <= receiptRows[e]
  BY <1>0 DEF Elsewhere, BulkStart, GcReceipt, BulkLock, GcDelete, AckUpdate, BulkAborted
<1>3. InsertingReceipt(e)' = InsertingReceipt(e) /\ AboutToInsert(e)' = AboutToInsert(e)
  BY <1>1 DEF InsertingReceipt, AboutToInsert, ReceiptAt
<1>. QED
  BY <1>1, <1>2, <1>3, FewerCounted
-----------------------------------------------------------------------------
(* The invariant, and what it says of receipts.                            *)

\* A step of w keeps the invariant: it goes on, is rolled back or commits.
LEMMA AdvancesStep ==
  ASSUME TxnInv, NEW w \in Handlers, NEW q \in Txn, Advances(w, q),
         begun' \in [syncs : Nat, bulk : Nat]
  PROVE  TxnInv'
BY AdvancesKeeps, AdvancesTypes, AdvancesCounts DEF TxnInv, TxnSafe

LEMMA UndoStep ==
  ASSUME TxnInv, NEW w \in Handlers, Undo(w)
  PROVE  TxnInv'
BY UndoKeeps, EndTypes, EndCounts DEF TxnInv, TxnSafe

LEMMA StatementStep ==
  ASSUME TxnInv, NEW w \in Handlers, Statement(w)
  PROVE  TxnInv'
<1>0. begun \in [syncs : Nat, bulk : Nat]
  BY DEF TxnInv, TxnTypeOK
<1>1. ASSUME NEW pushes \in SeqOf(EventKeys, MaxItems),
             NEW relayed \in SeqOf(EventKeys, MaxItems), BeginTxn(w, pushes, relayed)
      PROVE  TxnInv'
  <2>1. begun' \in [syncs : Nat, bulk : Nat]
    BY <1>0, <1>1 DEF BeginTxn
  <2>. QED
    BY <1>1, <2>1, BeginAdvances, AdvancesStep
<1>2. CASE GetEvent(w)
  <2>1. begun' = begun
    BY <1>2 DEF GetEvent
  <2>. QED
    BY <1>0, <1>2, <2>1, GetEventAdvances, AdvancesStep
<1>3. CASE InsertEvent(w)
  <2>1. begun' = begun
    BY <1>3 DEF InsertEvent
  <2>. QED
    BY <1>0, <1>3, <2>1, InsertEventAdvances, AdvancesStep
<1>4. CASE GetEventAgain(w)
  <2>1. CASE Sees(txn[w], EventAt(txn[w]))
    <3>1. begun' = begun
      BY <1>4, <2>1 DEF GetEventAgain
    <3>. QED
      BY <1>0, <1>4, <2>1, <3>1, GetEventAgainAdvances, AdvancesStep
  <2>2. CASE ~Sees(txn[w], EventAt(txn[w]))
    <3>1. Undo(w)
      BY <1>4, <2>2 DEF GetEventAgain
    <3>. QED
      BY <3>1, UndoStep
  <2>. QED
    BY <2>1, <2>2
<1>5. CASE Hint(w)
  <2>1. begun' = begun
    BY <1>5 DEF Hint
  <2>. QED
    BY <1>0, <1>5, <2>1, HintAdvances, AdvancesStep
<1>6. CASE GetReceipt(w)
  <2>1. CASE Undo(w)
    BY <2>1, UndoStep
  <2>2. CASE ~Undo(w)
    <3>1. begun' = begun /\ Receipts(txn[w], ReceiptAt(txn[w])) < 2
      BY <1>6, <2>2 DEF GetReceipt
    <3>. QED
      BY <1>0, <1>6, <3>1, GetReceiptAdvances, AdvancesStep
  <2>. QED
    BY <2>1, <2>2
<1>7. CASE InsertReceipt(w)
  <2>1. begun' = begun
    BY <1>7 DEF InsertReceipt
  <2>. QED
    BY <1>0, <1>7, <2>1, InsertReceiptAdvances, AdvancesStep
<1>8. CASE MarkDelivered(w)
  <2>1. begun' = begun
    BY <1>8 DEF MarkDelivered
  <2>. QED
    BY <1>0, <1>8, <2>1, MarkAdvances, AdvancesStep
<1>9. CASE Commit(w)
  BY <1>9, CommitKeeps, EndTypes, EndCounts DEF TxnInv, TxnSafe
<1>10. CASE Rollback(w)
  BY <1>10, UndoStep DEF Rollback
<1>. QED
  BY <1>1, <1>2, <1>3, <1>4, <1>5, <1>6, <1>7, <1>8, <1>9, <1>10 DEF Statement

LEMMA ElsewhereStep ==
  ASSUME TxnInv, Elsewhere
  PROVE  TxnInv'
<1>1. TxnTypeOK' /\ ReceiptsAreCounted'
  BY ElsewhereTypes, ElsewhereCounts
<1>2. TxnSafe'
  BY BulkStartKeeps, BulkLockKeeps, GcDeleteKeeps, AckUpdateKeeps, GcReceiptKeeps,
     BulkAbortedKeeps DEF Elsewhere
<1>. QED
  BY <1>1, <1>2 DEF TxnInv, TxnSafe

LEMMA TxnInvInit == TxnInit => TxnInv
<1>. SUFFICES ASSUME TxnInit
              PROVE  TxnInv
  OBVIOUS
<1>1. /\ \A w \in Handlers : txn[w] = NoTxn
      /\ NoTxn.phase = "idle" /\ NoTxn.new = {} /\ NoTxn.marked = {} /\ NoTxn.newReceipts = {}
      /\ NoTxn.events = << >> /\ Through(NoTxn) = 0
  BY DEF TxnInit, NoTxn, Through, EventPhases
<1>2. InPlace(NoTxn)
  BY <1>1 DEF InPlace, EventPhases, ReceiptPhases
<1>3. KeysAreUnique /\ AcceptedIsThere /\ HintsComeTrue
  BY <1>1 DEF TxnInit, KeysAreUnique, AcceptedIsThere, HintsComeTrue
<1>4. BulkLocks = {} /\ bulk.scan = << >> /\ bulk.at = 1
  BY DEF TxnInit, NoBulk, BulkLocks
<1>5. LocksAreExclusive
  <2>1. \A e \in EventKeys : Locking(e) = {}
    BY <1>1, <1>4 DEF Locking
  <2>. QED
    BY <1>4, <2>1 DEF LocksAreExclusive, IsInjective, Range
<1>6. ReceiptsAreCounted
  <2>. SUFFICES ASSUME NEW e \in EventKeys
                PROVE  /\ receiptRows[e]
                            + Cardinality(InsertingReceipt(e) \cup AboutToInsert(e))
                            <= Cardinality(Handlers)
                       /\ receiptRows[e] + Cardinality(InsertingReceipt(e)) <= 1
    BY DEF ReceiptsAreCounted
  <2>1. /\ InsertingReceipt(e) \cup AboutToInsert(e) = {} /\ InsertingReceipt(e) = {}
        /\ receiptRows[e] = 0
    BY <1>1 DEF TxnInit, InsertingReceipt, AboutToInsert
  <2>2. Cardinality({}) = 0 /\ Cardinality(Handlers) \in Nat
    BY SyncTxnAssumption, FS_EmptySet, FS_CardinalityType
  <2>3. /\ Cardinality(InsertingReceipt(e) \cup AboutToInsert(e)) = 0
        /\ Cardinality(InsertingReceipt(e)) = 0
    BY <2>1, <2>2
  <2>. QED
    BY <2>1, <2>2, <2>3
<1>. QED
  BY <1>1, <1>2, <1>3, <1>5, <1>6, TxnTypeInit DEF TxnInv

\* Every statement leaves the invariant standing, so it holds of every state.
LEMMA TxnInvNext == TxnInv /\ [TxnNext]_txnVars => TxnInv'
<1>. SUFFICES ASSUME TxnInv, [TxnNext]_txnVars
              PROVE  TxnInv'
  OBVIOUS
<1>1. CASE Elsewhere
  BY <1>1, ElsewhereStep
<1>2. ASSUME NEW w \in Handlers, Statement(w)
      PROVE  TxnInv'
  BY <1>2, StatementStep
<1>3. CASE UNCHANGED txnVars
  <2>1. /\ eventRows' = eventRows /\ receiptRows' = receiptRows /\ txn' = txn /\ bulk' = bulk
        /\ begun' = begun /\ hinted' = hinted /\ undone' = undone /\ raced' = raced
    BY <1>3 DEF txnVars
  <2>2. /\ Committed' = Committed /\ BulkLocks' = BulkLocks
        /\ \A e : Inserting(e)' = Inserting(e) /\ InsertingReceipt(e)' = InsertingReceipt(e)
    BY <2>1 DEF Committed, BulkLocks, Inserting, InsertingReceipt
  <2>3. \A e : Locking(e)' = Locking(e) /\ AboutToInsert(e)' = AboutToInsert(e)
    BY <2>1, <2>2 DEF Locking, AboutToInsert, ReceiptAt
  <2>4. (\A w \in Handlers : InPlace(txn[w]))'
    BY <2>1 DEF TxnInv, InPlace, Through, EventAt
  <2>5. KeysAreUnique' /\ AcceptedIsThere' /\ HintsComeTrue'
    BY <2>1, <2>2 DEF TxnInv, KeysAreUnique, AcceptedIsThere, HintsComeTrue, Sees, Through
  <2>6. LocksAreExclusive' /\ ReceiptsAreCounted'
    BY <2>1, <2>2, <2>3 DEF TxnInv, LocksAreExclusive, ReceiptsAreCounted
  <2>. QED
    BY <2>1, <2>4, <2>5, <2>6 DEF TxnInv, TxnTypeOK
<1>. QED
  BY <1>1, <1>2, <1>3 DEF TxnNext

\* Whatever handlers ingest at once, and whatever gc and ack do meanwhile: a sync has
\* written and locked what its lists call for and no more, what it has accepted is there,
\* a hint's event follows, a key is inserted once, a row has one holder.
THEOREM TxnInvHolds == TxnSpec => []TxnInv
BY TxnInvInit, TxnInvNext, PTL DEF TxnSpec

\* A receipt has a second row only if two transactions inserted it at once, and never
\* more rows than there are handlers.
THEOREM OverlapBoundsReceiptsHolds == TxnSpec => []OverlapBoundsReceipts
<1>1. TxnInv => OverlapBoundsReceipts
  <2>. SUFFICES ASSUME TxnInv, NEW e \in EventKeys, receiptRows[e] > 1
                PROVE  e \in raced /\ receiptRows[e] <= Cardinality(Handlers)
    BY DEF OverlapBoundsReceipts
  <2>1. /\ receiptRows[e] + Cardinality(InsertingReceipt(e) \cup AboutToInsert(e))
             <= Cardinality(Handlers)
        /\ e \notin raced => receiptRows[e] + Cardinality(InsertingReceipt(e)) <= 1
    BY DEF TxnInv, ReceiptsAreCounted
  <2>2. /\ Cardinality(InsertingReceipt(e) \cup AboutToInsert(e)) \in 0..Cardinality(Handlers)
        /\ Cardinality(InsertingReceipt(e)) \in Nat
        /\ receiptRows[e] \in Nat /\ Cardinality(Handlers) \in Nat
    <3>1. TxnTypeOK
      BY DEF TxnInv
    <3>. QED
      BY <3>1, CountFacts
  <2>. QED
    BY <2>1, <2>2
<1>. QED
  BY <1>1, TxnInvHolds, PTL
-----------------------------------------------------------------------------
(* Deadlocks.                                                              *)

\* Of finitely many ranks one is the highest.
LEMMA HighestRank ==
  ASSUME NEW n \in Nat, NEW D, D # {}, NEW f \in [D -> 1..n]
  PROVE  \E a \in D : \A b \in D : f[b] <= f[a]
<1>. DEFINE T == {n - f[a] : a \in D}
            R == OpToRel(<, Nat)
<1>1. T \subseteq Nat /\ T # {}
  OBVIOUS
<1>2. \E x \in T : \A y \in T : ~(<<y, x>> \in R)
  <2>. HIDE DEF T, R
  <2>1. IsWellFoundedOn(R, Nat)
    BY NatLessThanWellFounded DEF R
  <2>. QED
    BY <1>1, <2>1, WFMin
<1>3. PICK a \in D : \A b \in D : ~(<<n - f[b], n - f[a]>> \in R)
  BY <1>2
<1>4. \A x \in Nat, y \in Nat : x < y => <<x, y>> \in R
  BY DEF OpToRel
<1>. HIDE DEF R
<1>5. ASSUME NEW b \in D
      PROVE  f[b] <= f[a]
  <2>1. f[a] \in 1..n /\ f[b] \in 1..n
    OBVIOUS
  <2>2. n - f[b] \in Nat /\ n - f[a] \in Nat
    BY <2>1
  <2>3. ~(n - f[b] < n - f[a])
    BY <1>3, <1>4, <2>2
  <2>. QED
    BY <2>1, <2>3
<1>. QED
  BY <1>5

\* What a statement that waits is about.
Wanted(a) ==
  IF a = Bulk THEN bulk.scan[bulk.at]
  ELSE IF txn[a].phase = "mark" THEN ReceiptAt(txn[a]) ELSE EventAt(txn[a])

\* Who waits is at an event to insert, a receipt to mark, or a row to lock.
LEMMA WaitingFacts ==
  ASSUME TxnInv, NEW a \in Handlers \cup {Bulk}, NEW b \in WaitsFor(a)
  PROVE  /\ Wanted(a) \in EventKeys
         /\ a # Bulk => txn[a].phase \in {"insertEvent", "mark"}
         /\ a = Bulk => bulk.at \in 1..Len(bulk.scan)
         /\ a # Bulk /\ txn[a].phase = "insertEvent" =>
              b \in (Inserting(Wanted(a)) \cup Locking(Wanted(a))) \ {a}
         /\ a = Bulk \/ txn[a].phase = "mark" => b \in Locking(Wanted(a)) \ {a}
<1>0. TxnTypeOK /\ LocksAreExclusive
  BY DEF TxnInv
<1>1. CASE a = Bulk
  <2>1. bulk.at \in 1..Len(bulk.scan) /\ b \in Locking(bulk.scan[bulk.at])
    <3>1. bulk.at <= Len(bulk.scan) /\ b \in Locking(bulk.scan[bulk.at])
      BY <1>1 DEF WaitsFor
    <3>. QED
      BY <1>0, <3>1, BulkFacts
  <2>2. Wanted(a) = bulk.scan[bulk.at] /\ Wanted(a) \in EventKeys
    BY <1>0, <1>1, <2>1, BulkFacts DEF Wanted
  <2>3. bulk.scan[bulk.at] \notin BulkLocks
    BY <1>0, <2>1, BulkFacts DEF LocksAreExclusive, BulkLocks, IsInjective
  <2>4. b # Bulk
    BY <2>1, <2>3, SyncTxnAssumption DEF Locking
  <2>. QED
    BY <1>1, <2>1, <2>2, <2>4
<1>2. CASE a \in Handlers
  <2>0. a # Bulk /\ txn[a] \in Txn /\ InPlace(txn[a])
    BY <1>0, <1>2, SyncTxnAssumption DEF TxnInv, TxnTypeOK
  <2>1. txn[a].phase \in {"insertEvent", "mark"}
    BY <2>0 DEF WaitsFor
  <2>2. CASE txn[a].phase = "insertEvent"
    <3>1. Wanted(a) = EventAt(txn[a]) /\ Wanted(a) \in EventKeys
      BY <2>0, <2>2, TxnFacts DEF Wanted, EventAt, InPlace, EventPhases
    <3>2. b \in (Inserting(Wanted(a)) \cup Locking(Wanted(a))) \ {a}
      BY <2>0, <2>2, <3>1 DEF WaitsFor
    <3>. QED
      BY <2>0, <2>2, <3>1, <3>2
  <2>3. CASE txn[a].phase = "mark"
    <3>1. Wanted(a) = ReceiptAt(txn[a]) /\ Wanted(a) \in EventKeys
      BY <2>0, <2>3, TxnFacts DEF Wanted, ReceiptAt, InPlace, ReceiptPhases
    <3>2. b \in Locking(Wanted(a)) \ {a}
      BY <2>0, <2>3, <3>1 DEF WaitsFor
    <3>. QED
      BY <2>0, <2>3, <3>1, <3>2
  <2>. QED
    BY <2>1, <2>2, <2>3
<1>. QED
  BY <1>1, <1>2

\* Who has locked a row and waits, waits for a row that comes later in the same list.
LEMMA LockedIsBefore ==
  ASSUME TxnInv, NEW b \in Handlers \cup {Bulk}, WaitsFor(b) # {},
         NEW e, b \in Locking(e)
  PROVE  /\ b # Bulk => txn[b].phase = "mark"
         /\ \E s \in ListsOf(b) : \E i, j \in DOMAIN s :
              i < j /\ e = s[i] /\ Wanted(b) = s[j]
<1>0. TxnTypeOK
  BY DEF TxnInv
<1>1. CASE b = Bulk
  <2>1. bulk.at \in 1..Len(bulk.scan)
    BY <1>1, WaitingFacts
  <2>2. PICK i \in 1..(bulk.at - 1) : e = bulk.scan[i]
    BY <1>1, SyncTxnAssumption DEF Locking, BulkLocks
  <2>3. i \in DOMAIN bulk.scan /\ bulk.at \in DOMAIN bulk.scan /\ i < bulk.at
    BY <1>0, <2>1, BulkFacts
  <2>4. bulk.scan \in ListsOf(b) /\ Wanted(b) = bulk.scan[bulk.at]
    BY <1>1 DEF ListsOf, Wanted
  <2>. QED
    BY <1>1, <2>2, <2>3, <2>4
<1>2. CASE b \in Handlers
  <2>0. b # Bulk /\ txn[b] \in Txn /\ InPlace(txn[b]) /\ e \in txn[b].marked
    BY <1>0, <1>2, SyncTxnAssumption DEF TxnInv, TxnTypeOK, Locking
  <2>1. txn[b].phase = "mark"
    <3>1. txn[b].phase \in {"insertEvent", "mark"}
      BY <2>0, WaitingFacts
    <3>2. txn[b].phase # "insertEvent"
      BY <2>0 DEF InPlace, EventPhases
    <3>. QED
      BY <3>1, <3>2
  <2>2. /\ txn[b].at \in DOMAIN txn[b].receipts
        /\ \E i \in 1..(txn[b].at - 1) : e = txn[b].receipts[i]
    BY <2>0, <2>1 DEF InPlace, ReceiptPhases
  <2>3. PICK i \in 1..(txn[b].at - 1) : e = txn[b].receipts[i]
    BY <2>2
  <2>4. i \in DOMAIN txn[b].receipts /\ i < txn[b].at
    BY <2>0, <2>2, TxnFacts
  <2>5. txn[b].receipts \in ListsOf(b) /\ Wanted(b) = txn[b].receipts[txn[b].at]
    BY <2>0, <2>1 DEF ListsOf, Wanted, ReceiptAt
  <2>. QED
    BY <2>0, <2>1, <2>2, <2>3, <2>4, <2>5
<1>. QED
  BY <1>1, <1>2

\* Who has inserted a row and waits to insert another, waits for one later in its list.
LEMMA InsertedIsBefore ==
  ASSUME TxnInv, NEW b \in Handlers, txn[b].phase = "insertEvent",
         NEW e, e \in txn[b].new
  PROVE  \E s \in ListsOf(b) : \E i, j \in DOMAIN s :
           i < j /\ e = s[i] /\ Wanted(b) = s[j]
<1>0. b # Bulk /\ txn[b] \in Txn /\ InPlace(txn[b])
  BY SyncTxnAssumption DEF TxnInv, TxnTypeOK
<1>1. txn[b].at \in DOMAIN txn[b].events /\ Through(txn[b]) = txn[b].at - 1
  BY <1>0, ThroughFacts DEF InPlace, EventPhases
<1>2. PICK i \in 1..(txn[b].at - 1) : e = txn[b].events[i]
  BY <1>0, <1>1 DEF InPlace
<1>3. i \in DOMAIN txn[b].events /\ i < txn[b].at
  BY <1>0, <1>1, TxnFacts
<1>4. txn[b].events \in ListsOf(b) /\ Wanted(b) = txn[b].events[txn[b].at]
  BY <1>0 DEF ListsOf, Wanted, EventAt
<1>. QED
  BY <1>1, <1>2, <1>3, <1>4

\* Take of the actors that wait for locks the one that wants the row of the highest
\* rank.  Whoever holds that row waits for one of a rank no lower, so for the same row,
\* which only it holds.  If none waits for locks, say so of the keys they insert.
LEMMA NoDeadlock ==
  ASSUME TxnInv, NEW actors \in SUBSET (Handlers \cup {Bulk}),
         Deadlocked(actors), InOneOrder(actors)
  PROVE  FALSE
<1>. DEFINE N == Cardinality(EventKeys)
            M == {a \in actors : a = Bulk \/ txn[a].phase = "mark"}
<1>0. N \in Nat /\ TxnTypeOK /\ LocksAreExclusive /\ KeysAreUnique
  BY SyncTxnAssumption, FS_CardinalityType DEF TxnInv
<1>1. PICK rank \in [EventKeys -> 1..N] :
        IsInjective(rank) /\ \A a \in actors : \A s \in ListsOf(a) : Ascending(rank, s)
  BY DEF InOneOrder
<1>. HIDE DEF N
<1>2. \A a \in actors : /\ a \in Handlers \cup {Bulk} /\ WaitsFor(a) # {}
                        /\ WaitsFor(a) \cap actors # {}
                        /\ Wanted(a) \in EventKeys /\ rank[Wanted(a)] \in 1..N
  <2>. SUFFICES ASSUME NEW a \in actors
                PROVE  /\ a \in Handlers \cup {Bulk} /\ WaitsFor(a) # {}
                       /\ WaitsFor(a) \cap actors # {}
                       /\ Wanted(a) \in EventKeys /\ rank[Wanted(a)] \in 1..N
    OBVIOUS
  <2>1. WaitsFor(a) \cap actors # {}
    BY DEF Deadlocked
  <2>2. Wanted(a) \in EventKeys
    BY <2>1, WaitingFacts
  <2>. QED
    BY <2>1, <2>2
\* An item before the one that b wants, of a rank no lower, is the one that b wants.
<1>3. ASSUME NEW b \in actors, NEW e \in EventKeys, rank[Wanted(b)] <= rank[e],
             \E s \in ListsOf(b) : \E i, j \in DOMAIN s :
               i < j /\ e = s[i] /\ Wanted(b) = s[j]
      PROVE  e = Wanted(b)
  <2>1. rank[e] <= rank[Wanted(b)]
    BY <1>1, <1>3 DEF Ascending
  <2>2. rank[e] = rank[Wanted(b)]
    BY <1>2, <1>3, <2>1
  <2>. QED
    BY <1>1, <1>2, <2>2 DEF IsInjective
<1>4. CASE M # {}
  <2>1. PICK a \in M : \A b \in M : rank[Wanted(b)] <= rank[Wanted(a)]
    <3>. DEFINE f == [a \in M |-> rank[Wanted(a)]]
    <3>1. f \in [M -> 1..N]
      BY <1>2
    <3>2. PICK a \in M : \A b \in M : f[b] <= f[a]
      <4>. HIDE DEF M, f
      <4>. QED
        BY <1>0, <1>4, <3>1, HighestRank
    <3>. QED
      BY <3>2
  <2>2. PICK b \in actors : b \in Locking(Wanted(a)) \ {a}
    BY <1>2, WaitingFacts
  <2>3. b \in M /\ \E s \in ListsOf(b) : \E i, j \in DOMAIN s :
          i < j /\ Wanted(a) = s[i] /\ Wanted(b) = s[j]
    BY <1>2, <2>2, LockedIsBefore
  <2>4. Wanted(a) = Wanted(b)
    BY <1>2, <1>3, <2>1, <2>3
  <2>5. PICK c \in actors : c \in Locking(Wanted(b)) \ {b}
    BY <1>2, <2>3, WaitingFacts
  <2>. QED
    BY <1>0, <1>2, <2>2, <2>4, <2>5 DEF LocksAreExclusive
<1>5. CASE M = {}
  <2>0. \A a \in actors : a # Bulk /\ a \in Handlers /\ txn[a].phase = "insertEvent"
    BY <1>2, <1>5, WaitingFacts
  <2>1. PICK a \in actors : \A b \in actors : rank[Wanted(b)] <= rank[Wanted(a)]
    <3>. DEFINE f == [a \in actors |-> rank[Wanted(a)]]
    <3>1. f \in [actors -> 1..N]
      BY <1>2
    <3>2. PICK a \in actors : \A b \in actors : f[b] <= f[a]
      <4>1. actors # {}
        BY DEF Deadlocked
      <4>. HIDE DEF f
      <4>. QED
        BY <1>0, <4>1, <3>1, HighestRank
    <3>. QED
      BY <3>2
  <2>i. ASSUME NEW x \in actors
        PROVE  \E b \in actors : b \in Inserting(Wanted(x)) \ {x}
    <3>1. PICK b \in actors :
            b \in (Inserting(Wanted(x)) \cup Locking(Wanted(x))) \ {x}
      BY <1>2, <2>0, WaitingFacts
    <3>2. b \notin Locking(Wanted(x))
      BY <1>2, <2>0, LockedIsBefore
    <3>. QED
      BY <3>1, <3>2
  <2>2. PICK b \in actors : b \in Inserting(Wanted(a)) \ {a}
    BY <2>i
  <2>3. \E s \in ListsOf(b) : \E i, j \in DOMAIN s :
          i < j /\ Wanted(a) = s[i] /\ Wanted(b) = s[j]
    BY <2>0, <2>2, InsertedIsBefore DEF Inserting
  <2>4. Wanted(a) = Wanted(b)
    BY <1>2, <1>3, <2>1, <2>3
  <2>5. PICK c \in actors : c \in Inserting(Wanted(b)) \ {b}
    BY <2>i
  <2>6. Inserting(Wanted(b)) = {b}
    BY <1>0, <2>0, <2>2, <2>4 DEF KeysAreUnique, Inserting
  <2>. QED
    BY <2>5, <2>6
<1>. QED
  BY <1>4, <1>5

\* Syncs, gc and ack wait for each other in a cycle only if their lists name two events
\* in opposite orders.
THEOREM DeadlocksNeedCrossingHolds == TxnSpec => []DeadlocksNeedCrossing
<1>1. TxnInv => DeadlocksNeedCrossing
  BY NoDeadlock DEF DeadlocksNeedCrossing
<1>. QED
  BY <1>1, TxnInvHolds, PTL

-----------------------------------------------------------------------------
(* Commits.                                                                *)

\* A commit writes over no event but those it has inserted or marked, and all that the
\* sync has accepted is then there.
LEMMA CommitIsKept ==
  ASSUME TxnInv, NEW w \in Handlers, Commit(w)
  PROVE  /\ \A e \in EventKeys :
              /\ eventRows[e] = "delivered" => eventRows'[e] # "undelivered"
              /\ eventRows[e] # "none" => eventRows'[e] # "none"
         /\ \A i \in DOMAIN txn[w].events :
              eventRows'[txn[w].events[i]] # "none" \/ txn[w].events[i] \in undone
<1>1. eventRows' = EventsAfter(txn[w]) /\ txn[w].phase = "commit"
  BY DEF Commit
<1>2. \A e \in EventKeys : e \in txn[w].new => eventRows[e] = "none"
  BY DEF TxnInv, KeysAreUnique, Committed
<1>3. ASSUME NEW i \in DOMAIN txn[w].events
      PROVE  eventRows'[txn[w].events[i]] # "none" \/ txn[w].events[i] \in undone
  <2>1. txn[w].events \in SeqOf(EventKeys, MaxItems) /\ MaxItems \in Nat
    BY SyncTxnAssumption DEF TxnInv, TxnTypeOK, Txn
  <2>2. i \in 1..Len(txn[w].events) /\ txn[w].events[i] \in EventKeys
    BY <2>1, SeqOfFacts
  <2>3. Sees(txn[w], txn[w].events[i]) \/ txn[w].events[i] \in undone
    BY <1>1, <2>2, ThroughFacts DEF TxnInv, AcceptedIsThere
  <2>. QED
    BY <1>1, <2>2, <2>3 DEF Sees, Committed, EventsAfter
<1>. QED
  BY <1>1, <1>2, <1>3 DEF EventsAfter

LEMMA CommitsStep == TxnInv /\ [TxnNext]_txnVars => [CommitsAreKept]_txnVars
<1>. SUFFICES ASSUME TxnInv, TxnNext PROVE CommitsAreKept
  OBVIOUS
<1>1. ASSUME NEW w \in Handlers, Commit(w)
      PROVE  \A i \in DOMAIN txn[w].events :
               eventRows'[txn[w].events[i]] # "none" \/ txn[w].events[i] \in undone
  BY <1>1, CommitIsKept
<1>2. ASSUME NEW e \in EventKeys
      PROVE  /\ eventRows[e] = "delivered" => eventRows'[e] # "undelivered"
             /\ eventRows[e] # "none" /\ eventRows'[e] = "none" =>
                  bulk.kind = "gc" /\ e \in undone'
  <2>1. ASSUME NEW w \in Handlers, Statement(w), ~Commit(w)
        PROVE  eventRows' = eventRows
    BY <2>1 DEF Statement, BeginTxn, GetEvent, InsertEvent, GetEventAgain, Hint, GetReceipt,
                InsertReceipt, MarkDelivered, Rollback, Undo
  <2>2. CASE GcDelete
    BY <2>2 DEF GcDelete
  <2>3. CASE AckUpdate
    BY <2>3 DEF AckUpdate
  <2>4. CASE Elsewhere /\ ~GcDelete /\ ~AckUpdate
    <3>1. eventRows' = eventRows
      BY <2>4 DEF Elsewhere, BulkStart, BulkLock, GcReceipt, BulkAborted
    <3>. QED
      BY <3>1
  <2>. QED
    BY <2>1, <2>2, <2>3, <2>4, CommitIsKept DEF TxnNext
<1>. QED
  BY <1>1, <1>2 DEF CommitsAreKept

\* No commit takes back what another has written: a delivered event does not become
\* undelivered, only gc removes one, and when a sync commits, all that it has accepted
\* is in the table or was collected.
THEOREM CommitsKeptHolds == TxnSpec => CommitsKept
BY TxnInvHolds, CommitsStep, PTL DEF TxnSpec, CommitsKept
=============================================================================
