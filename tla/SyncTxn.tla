-------------------------------- MODULE SyncTxn --------------------------------
(***************************************************************************)
(* The transaction in which POST /v1/sync ingests events and receipts,     *)
(* statement by statement.  StoreForward takes it as one step; here are the*)
(* waits, the races and the rollbacks that are inside that step.           *)
(*                                                                         *)
(* The database is PostgreSQL at READ COMMITTED: a SELECT sees what is     *)
(* committed and what its own transaction wrote; an INSERT of a key another*)
(* transaction has inserted waits for its end; an UPDATE or DELETE waits   *)
(* for the row's lock; one transaction of a cycle of waits is aborted.     *)
(*                                                                         *)
(* There is no time: any row may have expired, so gc may collect any row.  *)
(***************************************************************************)
EXTENDS Naturals, FiniteSets, SequencesExt

CONSTANTS
  EventKeys,  \* hashes of ciphertexts
  Handlers,   \* concurrent sync handlers
  MaxItems,   \* bound: events and receipts in one sync
  MaxSyncs,   \* bound: syncs that are begun
  MaxBulk,    \* bound: statements of gc and ack that are begun
  Bulk        \* gc's DELETE or ack's UPDATE, as a holder of locks

ASSUME SyncTxnAssumption ==
  /\ {MaxItems, MaxSyncs, MaxBulk} \subseteq Nat
  /\ Bulk \notin Handlers /\ IsFiniteSet(Handlers) /\ IsFiniteSet(EventKeys)

VARIABLES
  eventRows,    \* eventRows[e]: the committed Event row of e
  receiptRows,  \* receiptRows[e]: how many committed Receipt rows e has
  txn,          \* txn[w]: the sync handler w is ingesting, and what it has written
  bulk,         \* gc's DELETE or ack's UPDATE of events, and what it has locked so far
  begun,        \* how many syncs, and statements of gc and ack, were begun
  hinted,       \* events whose recipient has been sent a hint
  undone,       \* events that were rolled back or collected
  raced         \* receipts inserted while another transaction had inserted them

txnVars == <<eventRows, receiptRows, txn, bulk, begun, hinted, undone, raced>>

Rows == {"none", "undelivered", "delivered"}

\* What one sync carries, and what its transaction has done: the statement it is at,
\* the item that is about, the rows it has inserted and those it has locked.
Phases == {"idle", "getEvent", "insertEvent", "getEventAgain", "hint",
           "getReceipt", "insertReceipt", "mark", "commit"}
Txn == [phase : Phases, at : 1..(MaxItems + 1),
        events : SeqOf(EventKeys, MaxItems), receipts : SeqOf(EventKeys, MaxItems),
        new : SUBSET EventKeys, newReceipts : SUBSET EventKeys, marked : SUBSET EventKeys]
NoTxn == [phase |-> "idle", at |-> 1, events |-> << >>, receipts |-> << >>,
          new |-> {}, newReceipts |-> {}, marked |-> {}]

\* at: the row the statement is to lock next, in the order of its scan.
BulkState == [kind : {"none", "gc", "ack"}, scan : SeqOf(EventKeys, Cardinality(EventKeys)),
              at : 1..(Cardinality(EventKeys) + 1)]
NoBulk == [kind |-> "none", scan |-> << >>, at |-> 1]

TxnTypeOK ==
  /\ eventRows \in [EventKeys -> Rows]
  /\ receiptRows \in [EventKeys -> Nat]
  /\ txn \in [Handlers -> Txn]
  /\ bulk \in BulkState
  /\ begun \in [syncs : Nat, bulk : Nat]
  /\ hinted \subseteq EventKeys
  /\ undone \subseteq EventKeys
  /\ raced \subseteq EventKeys

TxnInit ==
  /\ eventRows = [e \in EventKeys |-> "none"]
  /\ receiptRows = [e \in EventKeys |-> 0]
  /\ txn = [w \in Handlers |-> NoTxn]
  /\ bulk = NoBulk
  /\ begun = [syncs |-> 0, bulk |-> 0]
  /\ hinted = {}
  /\ undone = {}
  /\ raced = {}

-----------------------------------------------------------------------------
(* What the database shows a transaction, and what it makes it wait for.   *)

Committed == {e \in EventKeys : eventRows[e] # "none"}
Sees(q, e) == e \in Committed \cup q.new
Receipts(q, e) == receiptRows[e] + IF e \in q.newReceipts THEN 1 ELSE 0

ReceiptAtFromTheEnd(q) == q.receipts[Len(q.receipts) + 1 - q.at]   \* mutant

\* The event and the receipt the transaction is at: both lists in the client's order.
EventAt(q) == q.events[q.at]
ReceiptAt(q) == q.receipts[q.at]

\* Who holds what a statement waits for: an UPDATE or DELETE, the lock of its row; an
\* INSERT, the end of whoever inserts, updates or deletes a row of the same key.
BulkLocks == {bulk.scan[i] : i \in 1..(bulk.at - 1)}
Inserting(e) == {w \in Handlers : e \in txn[w].new}
Locking(e) == {w \in Handlers : e \in txn[w].marked}
              \cup (IF e \in BulkLocks THEN {Bulk} ELSE {})

WaitsFor(a) ==
  IF a = Bulk
  THEN IF bulk.at <= Len(bulk.scan) THEN Locking(bulk.scan[bulk.at]) ELSE {}
  ELSE CASE txn[a].phase = "insertEvent" ->
              (Inserting(EventAt(txn[a])) \cup Locking(EventAt(txn[a]))) \ {a}
         [] txn[a].phase = "mark" /\ ReceiptAt(txn[a]) \in Committed ->
              Locking(ReceiptAt(txn[a])) \ {a}
         [] OTHER -> {}

-----------------------------------------------------------------------------
(* The transaction of sync.                                                *)

At(w, phase) == txn' = [txn EXCEPT ![w].phase = phase]

\* On to the first statement about item i of the events, then of the receipts, and
\* then to the COMMIT.
EventsFrom(q, i) ==
  IF i <= Len(q.events) THEN [q EXCEPT !.phase = "getEvent", !.at = i]
  ELSE IF q.receipts # << >> THEN [q EXCEPT !.phase = "getReceipt", !.at = 1]
  ELSE [q EXCEPT !.phase = "commit", !.at = 1]
ReceiptsFrom(q, i) ==
  IF i <= Len(q.receipts) THEN [q EXCEPT !.phase = "getReceipt", !.at = i]
  ELSE [q EXCEPT !.phase = "commit", !.at = 1]

BeginTxn(w, pushes, relayed) ==
  /\ txn[w].phase = "idle"
  /\ Len(pushes) + Len(relayed) <= MaxItems
  /\ txn' = [txn EXCEPT ![w] =
       EventsFrom([NoTxn EXCEPT !.events = pushes, !.receipts = relayed], 1)]
  /\ begun.syncs < MaxSyncs
  /\ begun' = [begun EXCEPT !.syncs = @ + 1]
  /\ UNCHANGED <<eventRows, receiptRows, bulk, hinted, undone, raced>>

\* Event.objects.get_or_create: a SELECT, and if it finds a row the id is accepted.
GetEvent(w) ==
  /\ txn[w].phase = "getEvent"
  /\ LET q == txn[w]
     IN txn' = [txn EXCEPT ![w] =
          IF Sees(q, EventAt(q)) THEN EventsFrom(q, q.at + 1)
          ELSE [q EXCEPT !.phase = "insertEvent"]]
  /\ UNCHANGED <<eventRows, receiptRows, bulk, begun, hinted, undone, raced>>

\* The INSERT, in a savepoint; IntegrityError if another one has committed.
InsertEvent(w) ==
  /\ txn[w].phase = "insertEvent"
  /\ WaitsFor(w) = {}
  /\ LET q == txn[w]
     IN txn' = [txn EXCEPT ![w] =
          IF Sees(q, EventAt(q)) THEN [q EXCEPT !.phase = "getEventAgain"]
          ELSE [q EXCEPT !.phase = "hint", !.new = @ \cup {EventAt(q)}]]
  /\ UNCHANGED <<eventRows, receiptRows, bulk, begun, hinted, undone, raced>>

\* What an open transaction leaves behind when it is rolled back.
Undo(w) ==
  /\ txn' = [txn EXCEPT ![w] = NoTxn]
  /\ undone' = undone \cup txn[w].new
  /\ UNCHANGED <<eventRows, receiptRows, bulk, begun, hinted, raced>>

\* The other one's row; an error if gc has deleted it meanwhile.
GetEventAgain(w) ==
  /\ txn[w].phase = "getEventAgain"
  /\ LET q == txn[w]
     IN IF Sees(q, EventAt(q))
        THEN /\ txn' = [txn EXCEPT ![w] = EventsFrom(q, q.at + 1)]
             /\ UNCHANGED <<eventRows, receiptRows, bulk, begun, hinted, undone, raced>>
        ELSE Undo(w)

\* mutant: everybody is told, whoever created the row
HintAll(w) ==
  /\ txn[w].phase = "hint"
  /\ txn' = [txn EXCEPT ![w] = EventsFrom(txn[w], txn[w].at + 1)]
  /\ hinted' = hinted \cup Range(txn[w].events)
  /\ UNCHANGED <<eventRows, receiptRows, bulk, begun, undone, raced>>

\* push_to_mailbox, while the transaction is open.
Hint(w) ==
  /\ txn[w].phase = "hint"
  /\ txn' = [txn EXCEPT ![w] = EventsFrom(txn[w], txn[w].at + 1)]
  /\ hinted' = hinted \cup {EventAt(txn[w])}
  /\ UNCHANGED <<eventRows, receiptRows, bulk, begun, undone, raced>>

\* mutant: Receipt.objects.create
GetReceiptNever(w) ==
  /\ txn[w].phase = "getReceipt"
  /\ At(w, "insertReceipt")
  /\ UNCHANGED <<eventRows, receiptRows, bulk, begun, hinted, undone, raced>>

\* Receipt.objects.get_or_create: MultipleObjectsReturned if there are two, and the
\* whole sync is refused.
GetReceipt(w) ==
  /\ txn[w].phase = "getReceipt"
  /\ LET q == txn[w]
         n == Receipts(q, ReceiptAt(q))
     IN \/ /\ n < 2
           /\ At(w, IF n = 0 THEN "insertReceipt" ELSE "mark")
           /\ UNCHANGED <<eventRows, receiptRows, bulk, begun, hinted, undone, raced>>
        \/ n >= 2 /\ Undo(w)

\* No constraint keeps two transactions from inserting the same receipt.
InsertReceipt(w) ==
  /\ txn[w].phase = "insertReceipt"
  /\ LET q == txn[w]
         e == ReceiptAt(q)
     IN /\ txn' = [txn EXCEPT ![w] = [q EXCEPT !.phase = "mark", !.newReceipts = @ \cup {e}]]
        /\ raced' = IF receiptRows[e] > 0 \/ \E v \in Handlers : e \in txn[v].newReceipts
                    THEN raced \cup {e} ELSE raced
  /\ UNCHANGED <<eventRows, receiptRows, bulk, begun, hinted, undone>>

\* The UPDATE finds the event only if it can be seen; it locks it to the end.
MarkDelivered(w) ==
  /\ txn[w].phase = "mark"
  /\ WaitsFor(w) = {}
  /\ LET q == txn[w]
         e == ReceiptAt(q)
     IN txn' = [txn EXCEPT ![w] =
          ReceiptsFrom(IF Sees(q, e) THEN [q EXCEPT !.marked = @ \cup {e}] ELSE q, q.at + 1)]
  /\ UNCHANGED <<eventRows, receiptRows, bulk, begun, hinted, undone, raced>>

\* What the events table is once w has committed.
EventsAfter(q) ==
  [e \in EventKeys |-> CASE e \in q.marked -> "delivered"
                        [] e \in q.new \ q.marked -> "undelivered"
                        [] OTHER -> eventRows[e]]

Commit(w) ==
  /\ txn[w].phase = "commit"
  /\ eventRows' = EventsAfter(txn[w])
  /\ receiptRows' = [e \in EventKeys |-> Receipts(txn[w], e)]
  /\ txn' = [txn EXCEPT ![w] = NoTxn]
  /\ UNCHANGED <<bulk, begun, hinted, undone, raced>>

\* The worker dies, a payload is too large, or the database picks the transaction to
\* break a cycle of waits.
Rollback(w) == txn[w].phase # "idle" /\ Undo(w)

-----------------------------------------------------------------------------
(* Statements elsewhere that lock many events row by row, in the order of  *)
(* their scan: gc's DELETE and ack's UPDATE.  And gc's DELETE of receipts. *)

BulkStart(kind, scan) ==
  /\ bulk.kind = "none"
  /\ bulk' = [kind |-> kind, scan |-> scan, at |-> 1]
  /\ begun.bulk < MaxBulk
  /\ begun' = [begun EXCEPT !.bulk = @ + 1]
  /\ UNCHANGED <<eventRows, receiptRows, txn, hinted, undone, raced>>

BulkLock ==
  /\ bulk.at <= Len(bulk.scan)
  /\ WaitsFor(Bulk) = {}
  /\ bulk' = [bulk EXCEPT !.at = @ + 1]
  /\ UNCHANGED <<eventRows, receiptRows, txn, begun, hinted, undone, raced>>

GcDelete ==
  /\ bulk.kind = "gc" /\ bulk.at > Len(bulk.scan)
  /\ eventRows' = [e \in EventKeys |-> IF e \in BulkLocks THEN "none" ELSE eventRows[e]]
  /\ undone' = undone \cup BulkLocks
  /\ bulk' = NoBulk
  /\ UNCHANGED <<receiptRows, txn, begun, hinted, raced>>

AckUpdate ==
  /\ bulk.kind = "ack" /\ bulk.at > Len(bulk.scan)
  /\ eventRows' = [e \in EventKeys |->
       IF e \in BulkLocks THEN "delivered" ELSE eventRows[e]]
  /\ bulk' = NoBulk
  /\ UNCHANGED <<receiptRows, txn, begun, hinted, undone, raced>>

\* Receipts that were inserted apart also expire apart.
GcReceipt(e) ==
  /\ receiptRows[e] > 0
  /\ receiptRows' = [receiptRows EXCEPT ![e] = @ - 1]
  /\ UNCHANGED <<eventRows, txn, bulk, begun, hinted, undone, raced>>

\* Killed, or picked to break a cycle of waits.
BulkAborted ==
  /\ bulk.kind # "none"
  /\ bulk' = NoBulk
  /\ UNCHANGED <<eventRows, receiptRows, txn, begun, hinted, undone, raced>>

-----------------------------------------------------------------------------

Statement(w) ==
  \/ \E pushes \in SeqOf(EventKeys, MaxItems), relayed \in SeqOf(EventKeys, MaxItems) :
       BeginTxn(w, pushes, relayed)
  \/ GetEvent(w) \/ InsertEvent(w) \/ GetEventAgain(w) \/ Hint(w)
  \/ GetReceipt(w) \/ InsertReceipt(w) \/ MarkDelivered(w) \/ Commit(w) \/ Rollback(w)

Elsewhere ==
  \/ \E kind \in {"gc", "ack"}, scan \in SetToAllKPermutations(Committed) :
       BulkStart(kind, scan)
  \/ \E e \in EventKeys : GcReceipt(e)
  \/ BulkLock \/ GcDelete \/ AckUpdate \/ BulkAborted

TxnNext == Elsewhere \/ \E w \in Handlers : Statement(w)

TxnSpec == TxnInit /\ [][TxnNext]_txnVars
-----------------------------------------------------------------------------

\* The lists some actors go through never name two events in opposite orders.
ListsOf(a) ==
  IF a = Bulk THEN {bulk.scan}
  ELSE {txn[a].events, txn[a].receipts}
Ascending(rank, s) == \A i, j \in DOMAIN s : i < j => rank[s[i]] <= rank[s[j]]
InOneOrder(actors) ==
  \E rank \in {f \in [EventKeys -> 1..Cardinality(EventKeys)] : IsInjective(f)} :
    \A a \in actors : \A s \in ListsOf(a) : Ascending(rank, s)

Deadlocked(actors) == actors # {} /\ \A a \in actors : WaitsFor(a) \cap actors # {}

\* Syncs wait for each other, and for gc and ack, in a cycle only if their lists name
\* two events in opposite orders: no lock is held that the order of the lists does not
\* call for, so clients that send their lists sorted are never picked as victims.
DeadlocksNeedCrossing ==
  \A actors \in SUBSET (Handlers \cup {Bulk}) :
    Deadlocked(actors) => ~InOneOrder(actors)

\* A receipt has one row, unless two transactions inserted it at once; then it has at
\* most one for each worker (and as long as it has two, every sync that carries it is
\* refused).
OverlapBoundsReceipts ==
  \A e \in EventKeys :
    receiptRows[e] > 1 => e \in raced /\ receiptRows[e] <= Cardinality(Handlers)

\* Where a transaction is: how many of its events it has been through, and it has
\* written and locked what its lists call for up to there, and no more.
EventPhases == {"getEvent", "insertEvent", "getEventAgain", "hint"}
ReceiptPhases == {"getReceipt", "insertReceipt", "mark"}
Through(q) == CASE q.phase \in EventPhases \ {"hint"} -> q.at - 1
                [] q.phase = "hint" -> q.at
                [] OTHER -> Len(q.events)
InPlace(q) ==
  /\ q.phase = "idle" => q = NoTxn
  /\ q.phase \in EventPhases => /\ q.at \in DOMAIN q.events
                                /\ q.newReceipts = {} /\ q.marked = {}
  /\ q.phase = "hint" => EventAt(q) \in q.new
  /\ \A e \in q.new : \E i \in 1..Through(q) : e = q.events[i]
  /\ q.phase \in ReceiptPhases =>
       /\ q.at \in DOMAIN q.receipts
       /\ \A e \in q.marked : \E i \in 1..(q.at - 1) : e = q.receipts[i]

\* Whatever a sync has accepted so far is in the table, or in what it will commit, or
\* was and has been collected.
AcceptedIsThere ==
  \A w \in Handlers : \A i \in 1..Through(txn[w]) :
    LET e == txn[w].events[i] IN Sees(txn[w], e) \/ e \in undone

\* A hint runs ahead of its event, but the event follows, unless its transaction is
\* rolled back; no hint is for an event that somebody else may yet roll back.
HintsComeTrue ==
  \A e \in hinted : e \in Committed \/ Inserting(e) # {} \/ e \in undone

\* An uncommitted row is the only one of its id.
KeysAreUnique ==
  \A w \in Handlers :
    /\ txn[w].new \cap Committed = {}
    /\ \A e \in txn[w].new : Inserting(e) = {w}
    /\ \A e \in txn[w].marked : e \in Committed \cup txn[w].new

\* A row is locked by one, and what gc and ack go through nobody else removes.
LocksAreExclusive ==
  /\ \A e \in EventKeys : \A a, b \in Locking(e) : a = b
  /\ IsInjective(bulk.scan) /\ Range(bulk.scan) \subseteq Committed
  /\ bulk.at <= Len(bulk.scan) + 1

\* Who has inserted a receipt for e, and who has looked and will.
InsertingReceipt(e) == {w \in Handlers : e \in txn[w].newReceipts}
AboutToInsert(e) ==
  {w \in Handlers : txn[w].phase = "insertReceipt" /\ ReceiptAt(txn[w]) = e}
ReceiptsAreCounted ==
  \A e \in EventKeys :
    /\ receiptRows[e] + Cardinality(InsertingReceipt(e) \cup AboutToInsert(e))
         <= Cardinality(Handlers)
    /\ e \notin raced => receiptRows[e] + Cardinality(InsertingReceipt(e)) <= 1

TxnInv ==
  /\ TxnTypeOK
  /\ \A w \in Handlers : InPlace(txn[w])
  /\ KeysAreUnique /\ AcceptedIsThere /\ HintsComeTrue
  /\ LocksAreExclusive /\ ReceiptsAreCounted

\* What is committed is kept: no commit takes an event that is delivered back to
\* undelivered, an event goes only with gc, and when a sync commits, all that it has
\* accepted is in the table, unless it has been collected or undone.
CommitsAreKept ==
  /\ \A e \in EventKeys :
       /\ eventRows[e] = "delivered" => eventRows'[e] # "undelivered"
       /\ eventRows[e] # "none" /\ eventRows'[e] = "none" =>
            bulk.kind = "gc" /\ e \in undone'
  /\ \A w \in Handlers : Commit(w) =>
       \A i \in DOMAIN txn[w].events :
         LET e == txn[w].events[i] IN eventRows'[e] # "none" \/ e \in undone
CommitsKept == [][CommitsAreKept]_txnVars
=============================================================================
