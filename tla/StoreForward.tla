----------------------------- MODULE StoreForward -----------------------------
(***************************************************************************)
(* The store-and-forward core of the backend: POST /v1/sync, POST /v1/ack  *)
(* (apps/sync/views.py), the Event and Receipt tables (apps/sync/models.py)*)
(* and the periodic `manage.py gc` command, together with the clients that *)
(* call them and the mesh that carries the same ciphertext between phones. *)
(*                                                                         *)
(* Tables are sets of rows.  A handler runs in one of the server's Workers *)
(* and is split where the database lets other workers in: the ingest       *)
(* transaction of sync is one step (transaction.atomic), every statement   *)
(* outside it is a step of its own, and `now' is read once, at the start.  *)
(* A reply may be lost and a worker may die at any point (Abandon).        *)
(***************************************************************************)
EXTENDS Naturals, FiniteSets

CONSTANTS
  Clients,      \* registered identities; a client stands for its mailbox_id
  EventIds,     \* content hashes: one ciphertext each
  Workers,      \* concurrent request handlers of the server
  Author,       \* who wrote the event: receipts are routed back to it
  Recipient,    \* the mailbox the event is addressed to
  Priority,     \* the event's class
  TtlMax,       \* PLATFORM["TTL_MAX"]: ceiling per class
  Ttls,         \* lifetimes a client may ask for
  SyncMax,      \* PLATFORM["SYNC_MAX_EVENTS"]
  MaxRelay,     \* bound: receipts relayed in one sync
  Collisions,   \* ids a client's Bloom filter may match without holding them
  MaxClock      \* bound: the last instant of the model

ASSUME AddressAssumption ==
  /\ Author \in [EventIds -> Clients]
  /\ Recipient \in [EventIds -> Clients]
  /\ Priority \in [EventIds -> Nat]
  /\ Clients # {}
  /\ Collisions \subseteq EventIds

ASSUME TtlAssumption ==
  /\ TtlMax \in [{Priority[e] : e \in EventIds} -> Nat]
  /\ Ttls \subseteq Nat \ {0}
  /\ {SyncMax, MaxRelay, MaxClock} \subseteq Nat

VARIABLES
  clock,      \* timezone.now()
  events,     \* the Event table
  receipts,   \* the Receipt table
  req,        \* req[w]: the request worker w is serving
  gc,         \* the gc command: its next statement and its captured `now'
  held,       \* held[c]: ciphertexts client c keeps in durable storage
  issued,     \* events whose recipient has written a delivery receipt
  confirmed   \* confirmed[c]: events client c has been told were delivered

vars == <<clock, events, receipts, req, gc, held, issued, confirmed>>

-----------------------------------------------------------------------------
(* Rows, request payloads and the handlers' local state.                   *)

EventRow == [event_id : EventIds, recipient_mailbox : Clients,
             ttl_expires_at : Nat, delivered : BOOLEAN, created_at : Nat]

ReceiptRow == [event_id : EventIds, recipient_mailbox : Clients,
               ttl_expires_at : Nat, delivered : BOOLEAN]

\* An element of carrying[] or receipts[]: the id stands for the ciphertext.
Item == [event_id : EventIds, ttl_seconds : Ttls]

Ids(s) == {x.event_id : x \in s}

\* No id twice in a list of items or in a table.
Distinct(s) == \A x, y \in s : x.event_id = y.event_id => x = y

\* phase names the next statement of the handler; `ids' and `confirms' are the
\* events and receipts a sync found, or the ones an ack confirms.
Request == [phase : {"idle", "ingest", "selectEvents", "selectReceipts",
                     "reply", "ackEvents", "ackReceipts"},
            client : Clients, now : Nat,
            carrying : SUBSET Item, relayed : SUBSET Item,
            skip : SUBSET EventIds,
            ids : SUBSET EventIds, confirms : SUBSET EventIds]

Blank(c) == [phase |-> "idle", client |-> c, now |-> 0, carrying |-> {},
             relayed |-> {}, skip |-> {}, ids |-> {}, confirms |-> {}]

AnyClient == CHOOSE c \in Clients : TRUE

Idle == Blank(AnyClient)

TypeOK ==
  /\ clock \in Nat
  /\ events \subseteq EventRow
  /\ receipts \subseteq ReceiptRow
  /\ req \in [Workers -> Request]
  /\ gc \in [pc : {"idle", "expired", "delivered", "receipts"}, now : Nat]
  /\ held \in [Clients -> SUBSET EventIds]
  /\ issued \subseteq EventIds
  /\ confirmed \in [Clients -> SUBSET EventIds]

Init ==
  /\ clock = 0
  /\ events = {}
  /\ receipts = {}
  /\ req = [w \in Workers |-> Idle]
  /\ gc = [pc |-> "idle", now |-> 0]
  /\ held = [c \in Clients |-> {e \in EventIds : Author[e] = c}]
  /\ issued = {}
  /\ confirmed = [c \in Clients |-> {}]

-----------------------------------------------------------------------------
(* The world outside the server.                                           *)

Tick ==
  /\ clock < MaxClock
  /\ clock' = clock + 1
  /\ UNCHANGED <<events, receipts, req, gc, held, issued, confirmed>>

\* Two phones meet and one copies a ciphertext from the other.
Mesh(c, d) ==
  \E e \in held[c] \ held[d] :
    /\ held' = [held EXCEPT ![d] = @ \cup {e}]
    /\ UNCHANGED <<clock, events, receipts, req, gc, issued, confirmed>>

\* The recipient, holding the event, writes the end-to-end receipt for it.
\* From then on any client may carry that receipt.
Issue(e) ==
  /\ e \in held[Recipient[e]] \ issued
  /\ issued' = issued \cup {e}
  /\ UNCHANGED <<clock, events, receipts, req, gc, held, confirmed>>

-----------------------------------------------------------------------------
(* POST /v1/sync.                                                          *)

\* The payload parses, the caller has a mailbox and carries no more than
\* SYNC_MAX_EVENTS events.  `skip' is what the Bloom filter matches and `want'
\* does not list: held events, and ids the filter matches by accident.  Of an id
\* listed twice only the first entry has an effect, so lists are sets.
BeginSync(w, c) ==
  /\ req[w].phase = "idle"
  /\ \E carrying \in SUBSET {i \in Item : i.event_id \in held[c]},
        relayed \in SUBSET {i \in Item : i.event_id \in issued},
        skip \in SUBSET (held[c] \cup Collisions) :
       /\ Distinct(carrying)
       /\ Cardinality(carrying) <= SyncMax
       /\ Distinct(relayed)
       /\ Cardinality(relayed) <= MaxRelay
       /\ req' = [req EXCEPT ![w] =
            [Blank(c) EXCEPT !.phase = "ingest", !.now = clock,
                             !.carrying = carrying, !.relayed = relayed,
                             !.skip = skip]]
  /\ UNCHANGED <<clock, events, receipts, gc, held, issued, confirmed>>

\* validate_ttl: clamp the requested lifetime to the class's ceiling.
ValidTtl(e, ttl) ==
  IF ttl <= TtlMax[Priority[e]] THEN ttl ELSE TtlMax[Priority[e]]

NewEvent(i, now) ==
  [event_id |-> i.event_id, recipient_mailbox |-> Recipient[i.event_id],
   ttl_expires_at |-> now + ValidTtl(i.event_id, i.ttl_seconds),
   delivered |-> FALSE, created_at |-> clock]

\* The rows get_or_create adds: none for an id the table already has.  (Receipts
\* are looked up by id and address; the address is the author's.)
Created(carrying, now) ==
  {NewEvent(i, now) : i \in {j \in carrying : j.event_id \notin Ids(events)}}

StoredAnew(carrying, now) ==   \* mutant
  {r \in events : r.event_id \notin Ids(carrying)}
    \cup {NewEvent(i, now) : i \in carrying}

\* The Event table with carrying[] in it; a row that was there keeps its deadline.
Stored(carrying, now) == events \cup Created(carrying, now)

NewReceipt(i, now) ==
  [event_id |-> i.event_id, recipient_mailbox |-> Author[i.event_id],
   ttl_expires_at |-> now + i.ttl_seconds, delivered |-> FALSE]

CreatedReceipts(relayed, now) ==
  {NewReceipt(i, now) : i \in {j \in relayed : j.event_id \notin Ids(receipts)}}

\* Table.objects.filter(...).update(delivered=True), `chosen' being the filter.
Mark(rows, chosen) ==
  (rows \ chosen) \cup {[r EXCEPT !.delivered = TRUE] : r \in chosen}

\* filter(event_id__in=ids)
Named(rows, ids) == {r \in rows : r.event_id \in ids}

\* The transaction: events first, then receipts; a relayed receipt marks the
\* event delivered whoever relays it and whoever it is addressed to.
Ingest(w) ==
  /\ req[w].phase = "ingest"
  /\ LET q == req[w]
         stored == Stored(q.carrying, q.now)
     IN /\ events' = Mark(stored, Named(stored, Ids(q.relayed)))
        /\ receipts' = receipts \cup CreatedReceipts(q.relayed, q.now)
        /\ req' = [req EXCEPT ![w] = [q EXCEPT !.phase = "selectEvents",
                                      !.carrying = {}, !.relayed = {}]]
  /\ UNCHANGED <<clock, gc, held, issued, confirmed>>

\* The possible results of  [:SYNC_MAX_EVENTS]  on an unordered query.
Slices(rows) ==
  {s \in SUBSET rows :
     Cardinality(s) = IF Cardinality(rows) <= SyncMax
                        THEN Cardinality(rows) ELSE SyncMax}

LiveSooner(rows, now) == {r \in rows : r.ttl_expires_at > now + 1}   \* mutant
Live(rows, now) == {r \in rows : r.ttl_expires_at > now}

UndeliveredAll(rows) == rows   \* mutant
Undelivered(rows) == {r \in rows : ~r.delivered}

OfAnybody(rows, c) == rows   \* mutant
Of(rows, c) == {r \in rows : r.recipient_mailbox = c}

PendingWithDelivered(rows, q) == Live(Of(rows, q.client), q.now)   \* mutant
Pending(rows, q) == Undelivered(Live(Of(rows, q.client), q.now))

\* order_by("priority", "created_at"); equal keys come in any order.
Precedes(r, s) ==
  \/ Priority[r.event_id] < Priority[s.event_id]
  \/ /\ Priority[r.event_id] = Priority[s.event_id]
     /\ r.created_at < s.created_at

\* The Bloom filter is applied to the slice the query returned.
SelectEvents(w) ==
  /\ req[w].phase = "selectEvents"
  /\ LET q == req[w]
         pending == Pending(events, q)
     IN \E slice \in Slices(pending) :
          /\ \A r \in slice, s \in pending \ slice : ~Precedes(s, r)
          /\ req' = [req EXCEPT ![w] =
               [q EXCEPT !.phase = "selectReceipts",
                         !.ids = Ids(slice) \ q.skip, !.skip = {}]]
  /\ UNCHANGED <<clock, events, receipts, gc, held, issued, confirmed>>

SelectReceipts(w) ==
  /\ req[w].phase = "selectReceipts"
  /\ LET q == req[w]
     IN \E slice \in Slices(Pending(receipts, q)) :
          req' = [req EXCEPT ![w] =
            [q EXCEPT !.phase = "reply", !.now = 0,
                      !.confirms = Ids(slice)]]
  /\ UNCHANGED <<clock, events, receipts, gc, held, issued, confirmed>>

\* The reply arrives and the client stores what it carries.
Receive(w) ==
  /\ req[w].phase = "reply"
  /\ held' = [held EXCEPT ![req[w].client] = @ \cup req[w].ids]
  /\ confirmed' = [confirmed EXCEPT ![req[w].client] = @ \cup req[w].confirms]
  /\ req' = [req EXCEPT ![w] = Idle]
  /\ UNCHANGED <<clock, events, receipts, gc, issued>>

\* The request ends without an answer the client can use: the worker dies, the
\* connection drops, a payload is too large (the transaction rolls back) or the
\* Bloom parameters are refused (after the transaction has committed).
Abandon(w) ==
  /\ req[w].phase # "idle"
  /\ req' = [req EXCEPT ![w] = Idle]
  /\ UNCHANGED <<clock, events, receipts, gc, held, issued, confirmed>>

-----------------------------------------------------------------------------
(* POST /v1/ack: two statements, each restricted to the caller's mailbox.  *)

\* A client acknowledges what it has stored; a relay stores, and may name,
\* events that are not addressed to it.
BeginAck(w, c) ==
  /\ req[w].phase = "idle"
  /\ \E ids \in SUBSET held[c], confirms \in SUBSET confirmed[c] :
       req' = [req EXCEPT ![w] =
         [Blank(c) EXCEPT !.phase = "ackEvents", !.ids = ids,
                          !.confirms = confirms]]
  /\ UNCHANGED <<clock, events, receipts, gc, held, issued, confirmed>>

AckEvents(w) ==
  /\ req[w].phase = "ackEvents"
  /\ LET q == req[w]
     IN /\ events' = Mark(events, Named(Of(events, q.client), q.ids))
        /\ req' = [req EXCEPT ![w] = [q EXCEPT !.phase = "ackReceipts",
                                               !.ids = {}]]
  /\ UNCHANGED <<clock, receipts, gc, held, issued, confirmed>>

AckReceipts(w) ==
  /\ req[w].phase = "ackReceipts"
  /\ LET q == req[w]
     IN receipts' = Mark(receipts, Named(Of(receipts, q.client), q.confirms))
  /\ req' = [req EXCEPT ![w] = Idle]
  /\ UNCHANGED <<clock, events, gc, held, issued, confirmed>>

-----------------------------------------------------------------------------
(* manage.py gc: one DELETE per table and condition, each its own commit.  *)

GcStart ==
  /\ gc.pc = "idle"
  /\ gc' = [pc |-> "expired", now |-> clock]
  /\ UNCHANGED <<clock, events, receipts, req, held, issued, confirmed>>

GcExpired ==
  /\ gc.pc = "expired"
  /\ events' = Live(events, gc.now)
  /\ gc' = [gc EXCEPT !.pc = "delivered"]
  /\ UNCHANGED <<clock, receipts, req, held, issued, confirmed>>

GcDelivered ==
  /\ gc.pc = "delivered"
  /\ events' = Undelivered(events)
  /\ gc' = [gc EXCEPT !.pc = "receipts"]
  /\ UNCHANGED <<clock, receipts, req, held, issued, confirmed>>

GcReceipts ==
  /\ gc.pc = "receipts"
  /\ receipts' = Live(receipts, gc.now)
  /\ gc' = [pc |-> "idle", now |-> 0]
  /\ UNCHANGED <<clock, events, req, held, issued, confirmed>>

\* The command is killed between two statements.
GcKilled ==
  /\ gc.pc # "idle"
  /\ gc' = [pc |-> "idle", now |-> 0]
  /\ UNCHANGED <<clock, events, receipts, req, held, issued, confirmed>>

-----------------------------------------------------------------------------

Serve(w) ==
  \/ \E c \in Clients : BeginSync(w, c) \/ BeginAck(w, c)
  \/ Ingest(w)
  \/ SelectEvents(w)
  \/ SelectReceipts(w)
  \/ Receive(w)
  \/ AckEvents(w)
  \/ AckReceipts(w)
  \/ Abandon(w)

Collect == GcStart \/ GcExpired \/ GcDelivered \/ GcReceipts \/ GcKilled

Next ==
  \/ Tick
  \/ \E c, d \in Clients : Mesh(c, d)
  \/ \E e \in EventIds : Issue(e)
  \/ \E w \in Workers : Serve(w)
  \/ Collect

Spec == Init /\ [][Next]_vars

-----------------------------------------------------------------------------
(* Safety.                                                                 *)

\* The server stops offering an event (delivered = TRUE) only when its
\* recipient has it: by ack, or by a receipt relayed by anybody.
DeliveredIsHeld ==
  \A r \in events : r.delivered => r.event_id \in held[r.recipient_mailbox]

\* What a worker is about to do with a payload was true when the client said it
\* and still is: relayed receipts were issued, acknowledged events are held, and
\* the confirmations of a reply are for the caller's own events.
HonestRequests ==
  \A w \in Workers :
    LET q == req[w]
    IN /\ Distinct(q.carrying) /\ Distinct(q.relayed)
       /\ Ids(q.relayed) \subseteq issued
       /\ q.phase = "ackEvents" => q.ids \subseteq held[q.client]
       /\ q.phase = "reply" =>
            \A e \in q.confirms : Author[e] = q.client /\ e \in issued

\* A receipt exists only for an event its recipient holds.
IssuedIsHeld == \A e \in issued : e \in held[Recipient[e]]

\* Rows keep the addresses their events were written with.
RowsAreAddressed ==
  /\ \A r \in events : r.recipient_mailbox = Recipient[r.event_id]
  /\ \A r \in receipts : /\ r.recipient_mailbox = Author[r.event_id]
                         /\ r.event_id \in issued

\* A sender told of a delivery was told the truth, although the confirmation
\* crossed the mesh, the Receipt table and a reply: the recipient holds it.
ConfirmedIsHeld ==
  \A c \in Clients : \A e \in confirmed[c] :
    Author[e] = c /\ e \in held[Recipient[e]]

\* An event is stored at most once, whatever is re-pushed and by whom.
OneRowPerEvent == Distinct(events)

\* The inductive invariant: the safety properties and what they rest on.
Inv ==
  /\ TypeOK
  /\ IssuedIsHeld
  /\ HonestRequests
  /\ RowsAreAddressed
  /\ OneRowPerEvent
  /\ DeliveredIsHeld
  /\ ConfirmedIsHeld

\* No step removes an event that its recipient does not hold before its
\* ttl_expires_at: not gc, not another client's receipt or ack.
Expired(r) == r.ttl_expires_at <= clock
KeptUntilHeld ==
  [][\A r \in events : \/ r.event_id \in Ids(events')
                       \/ r.event_id \in held[r.recipient_mailbox]
                       \/ Expired(r)]_vars

-----------------------------------------------------------------------------
(* The promise: the rows not yet marked delivered are the debts.           *)

Debts == {[event_id |-> r.event_id, mailbox |-> r.recipient_mailbox,
           deadline |-> r.ttl_expires_at] : r \in Undelivered(events)}

Promise == INSTANCE Mailbox WITH owed <- Debts

\* Every behaviour of sync, ack, gc and the mesh is one the mailbox allows.
KeepsPromise == Promise!Spec

\* "re-submitting the same event is a harmless no-op": an event that a sync reports
\* as accepted is with its recipient, or owed to it; if the table had its row, until
\* the deadline of that row, however much longer this push asks for and even when it
\* has passed; if not, for the lifetime asked for, within its class's ceiling.
OwedAsPushed(w, i) ==
  \E d \in Debts' :
    /\ d.event_id = i.event_id
    /\ d.mailbox = Recipient[i.event_id]
    /\ \/ d \in Debts
       \/ /\ i.event_id \notin Ids(events)
          /\ d.deadline = req[w].now + ValidTtl(i.event_id, i.ttl_seconds)
PushesAreOwed ==
  \A w \in Workers : Ingest(w) =>
    \A i \in req[w].carrying : \/ i.event_id \in held[Recipient[i.event_id]]
                              \/ OwedAsPushed(w, i)
AcceptedIsOwed == [][PushesAreOwed]_vars

-----------------------------------------------------------------------------
(* Fairness and liveness.                                                  *)

\* A worker goes on with the request it has.
Advance(w) == \/ Ingest(w) \/ SelectEvents(w) \/ SelectReceipts(w)
              \/ Receive(w) \/ AckEvents(w) \/ AckReceipts(w)

\* An author offers its event until the fabric has it.
KeepsOffering(e) ==
  SF_vars(/\ e \notin Ids(events) /\ e \notin held[Recipient[e]]
          /\ \E w \in Workers : /\ BeginSync(w, Author[e])
                                /\ e \in Ids(req'[w].carrying))

\* A recipient keeps syncing, repairing Bloom collisions with `want', and keeps
\* acknowledging what it has stored.
KeepsPulling(c) ==
  /\ SF_vars(\E w \in Workers :
               BeginSync(w, c) /\ req'[w].skip \subseteq held[c])
  /\ SF_vars(\E w \in Workers :
               BeginAck(w, c) /\ req'[w].ids = held[c])

FairSpec ==
  /\ Spec
  /\ \A w \in Workers : WF_vars(Advance(w))
  /\ \A e \in EventIds : KeepsOffering(e)
  /\ \A c \in {Recipient[e] : e \in EventIds} : KeepsPulling(c)

\* cron keeps starting gc, and not every run of it is killed.
FairGc == /\ WF_vars(GcStart)
          /\ SF_vars(GcExpired)
          /\ SF_vars(GcDelivered)
          /\ SF_vars(GcReceipts)

\* The gc command alone is fair.
GcSpec == Spec /\ FairGc

\* No push stores again an event that its recipient already has.  (Deleting the
\* delivered row forgets the id, so a relay that still carries it may do so.)
NoResurrection ==
  \A e \in EventIds :
    e \in Ids(events') \ Ids(events) => e \notin held[Recipient[e]]

\* The request of w ends without its answer being used.
Failure(w) == Abandon(w) /\ ~Receive(w) /\ ~AckReceipts(w)

\* End to end: an author that keeps offering gets its event to the recipient past
\* a slice of SYNC_MAX_EVENTS other events, once connections stop failing and
\* relays stop re-pushing what is already delivered.
EventuallyHeld ==
  <>[][NoResurrection /\ \A w \in Workers : ~Failure(w)]_vars =>
    \A e \in EventIds : <>(e \in held[Recipient[e]])

\* Storage is reclaimed: again and again there is no delivered row and no expired
\* row of an event, even when relays re-push it and gc is killed half way.
Reclaimed ==
  \A e \in EventIds :
    /\ []<>(\A r \in events : r.event_id = e => ~r.delivered)
    /\ []<>(\A r \in events : r.event_id = e => ~Expired(r))
=============================================================================
