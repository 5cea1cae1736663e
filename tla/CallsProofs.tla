------------------------------- MODULE CallsProofs -------------------------------
(* Machine-checked theorems about Calls, for every set of callers, workers,  *)
(* pollers and sockets and every page size.                                  *)
EXTENDS Calls, TLAPS

\* Has(c, seq): the table holds a signal of that number in c's call.
Has(c, seq) == \E i \in DOMAIN signals : signals[i].call = c /\ signals[i].seq = seq

LEMMA Shapes == Idle \in Request /\ NoPoll \in Poll
BY DEF Idle, Request, Phases, NoPoll, Poll

\* Rows are numbered from 1, and each is a CallSignal.
LEMMA Rows ==
  ASSUME TypeOK
  PROVE  /\ DOMAIN signals = 1..Len(signals) /\ Len(signals) \in Nat
         /\ Len(signals) <= MaxSignals /\ MaxSignals \in Nat
         /\ \A i \in DOMAIN signals : signals[i] \in CallSignal
BY CallsAssumption DEF TypeOK

\* A handler at work relays a signal of a caller.
LEMMA AtWork ==
  ASSUME TypeOK, RowsAreThere, NEW w \in Workers, req[w].phase # "idle"
  PROVE  /\ req[w] \in Request /\ req[w].call \in Callers
         /\ req[w].seq \in Nat /\ req[w].expires_at \in Nat
         /\ req[w].seq <= acked[req[w].call]
BY DEF TypeOK, RowsAreThere, Request

\* What INSERT and UPDATE make of the table.
LEMMA InsertRows ==
  ASSUME TypeOK, RowsAreThere, NEW w \in Workers, Insert(w)
  PROVE  /\ signals' \in Seq(CallSignal) /\ Len(signals') = Len(signals) + 1
         /\ Len(signals') <= MaxSignals
         /\ DOMAIN signals' = DOMAIN signals \cup {Len(signals) + 1}
         /\ \A i \in DOMAIN signals : signals'[i] = signals[i]
         /\ signals'[Len(signals) + 1] =
              [call |-> req[w].call, seq |-> req[w].seq,
               expires_at |-> req[w].expires_at, delivered |-> FALSE]
<1>. DEFINE r == [call |-> req[w].call, seq |-> req[w].seq,
                  expires_at |-> req[w].expires_at, delivered |-> FALSE]
<1>1. r \in CallSignal
  BY AtWork DEF Insert, CallSignal
<1>2. signals' = Append(signals, r) /\ Len(signals) < MaxSignals
  BY DEF Insert
<1>3. signals \in Seq(CallSignal)
  BY DEF TypeOK
<1>. HIDE DEF r
<1>4. /\ signals' \in Seq(CallSignal) /\ Len(signals') = Len(signals) + 1
      /\ \A i \in 1..Len(signals) : signals'[i] = signals[i]
      /\ signals'[Len(signals) + 1] = r
  BY <1>1, <1>2, <1>3
<1>5. DOMAIN signals' = 1..Len(signals') /\ DOMAIN signals = 1..Len(signals)
  BY <1>3, <1>4
<1>. QED
  BY <1>2, <1>4, <1>5, Rows DEF r

LEMMA MarkedRows ==
  ASSUME TypeOK, NEW ids
  PROVE  /\ Marked(ids) \in Seq(CallSignal) /\ Len(Marked(ids)) = Len(signals)
         /\ DOMAIN Marked(ids) = DOMAIN signals
         /\ \A i \in DOMAIN signals :
              /\ Marked(ids)[i].call = signals[i].call
              /\ Marked(ids)[i].seq = signals[i].seq
              /\ Marked(ids)[i].expires_at = signals[i].expires_at
              /\ Marked(ids)[i].delivered => signals[i].delivered \/ i \in ids
<1>1. \A i \in DOMAIN signals :
        LET r == [signals[i] EXCEPT !.delivered = signals[i].delivered \/ i \in ids]
        IN /\ r \in CallSignal /\ r.call = signals[i].call /\ r.seq = signals[i].seq
           /\ r.expires_at = signals[i].expires_at
           /\ r.delivered => signals[i].delivered \/ i \in ids
  BY Rows DEF CallSignal
<1>2. /\ DOMAIN Marked(ids) = 1..Len(signals)
      /\ \A i \in DOMAIN signals :
           Marked(ids)[i] = [signals[i] EXCEPT !.delivered = signals[i].delivered \/ i \in ids]
  BY Rows DEF Marked
<1>3. Marked(ids) \in [1..Len(signals) -> CallSignal]
  BY <1>1, <1>2, Rows DEF Marked
<1>4. Marked(ids) \in Seq(CallSignal) /\ Len(Marked(ids)) = Len(signals)
  BY <1>3, Rows
<1>5. DOMAIN Marked(ids) = DOMAIN signals
  BY <1>2, Rows
<1>. QED
  BY <1>1, <1>2, <1>4, <1>5

\* Rows are only ever appended or marked: they keep their call, seq and deadline.
LEMMA RowsStay ==
  ASSUME TypeOK, RowsAreThere, [Next]_vars
  PROVE  /\ DOMAIN signals \subseteq DOMAIN signals'
         /\ signals' \in Seq(CallSignal) /\ Len(signals') <= MaxSignals
         /\ clock' \in Nat /\ clock <= clock'
         /\ \A i \in DOMAIN signals : /\ signals'[i].call = signals[i].call
                                      /\ signals'[i].seq = signals[i].seq
                                      /\ signals'[i].expires_at = signals[i].expires_at
<1>. clock \in Nat /\ signals \in Seq(CallSignal) /\ Len(signals) <= MaxSignals
  BY DEF TypeOK
<1>1. clock' = clock \/ clock' = clock + 1
  BY DEF Next, Tick, Device, Connect, Disconnect, Notify, UpdateFcmToken, Relay, BeginSignal,
         Insert, Push, ReadToken, NotifyCall, Relayed, SignalFails, HandOver, BeginPoll,
         SelectPending, MarkDelivered, Receive, PollFails, vars
<1>2. ASSUME NEW w \in Workers, Insert(w)
      PROVE  /\ DOMAIN signals \subseteq DOMAIN signals'
             /\ signals' \in Seq(CallSignal) /\ Len(signals') <= MaxSignals
             /\ \A i \in DOMAIN signals : signals'[i] = signals[i]
  BY <1>2, InsertRows
<1>3. ASSUME NEW p \in Pollers, MarkDelivered(p) PROVE signals' = Marked(poll[p].ids)
  BY <1>3 DEF MarkDelivered
<1>4. \/ UNCHANGED signals
      \/ \E w \in Workers : Insert(w)
      \/ \E p \in Pollers : MarkDelivered(p)
  BY DEF Next, Tick, Device, Connect, Disconnect, Notify, UpdateFcmToken, Relay, BeginSignal,
         Push, ReadToken, NotifyCall, Relayed, SignalFails, HandOver, BeginPoll,
         SelectPending, Receive, PollFails, callerVars, calleeVars, tableVars, vars
<1>. QED
  BY <1>1, <1>2, <1>3, <1>4, MarkedRows

LEMMA HasStays ==
  ASSUME TypeOK, RowsAreThere, [Next]_vars, NEW c, NEW seq, Has(c, seq)
  PROVE  \E i \in DOMAIN signals' : signals'[i].call = c /\ signals'[i].seq = seq
BY RowsStay DEF Has

-----------------------------------------------------------------------------
(* Types.                                                                  *)

LEMMA TypeStep == TypeOK /\ RowsAreThere /\ PollsAreRight /\ [Next]_vars => TypeOK'
<1>. SUFFICES ASSUME TypeOK, RowsAreThere, PollsAreRight, [Next]_vars PROVE TypeOK'
  OBVIOUS
<1>0. /\ signals' \in Seq(CallSignal) /\ Len(signals') <= MaxSignals /\ clock' \in Nat
      /\ got \subseteq DOMAIN signals' /\ lost \subseteq DOMAIN signals'
  BY RowsStay DEF TypeOK
<1>1. CASE Tick
  BY <1>0, <1>1 DEF Tick, TypeOK, callerVars, calleeVars, tableVars
<1>2. ASSUME NEW w \in Workers, Relay(w) PROVE TypeOK'
  <2>1. ASSUME NEW c \in Callers, NEW ttl \in 1..MaxTtl, BeginSignal(w, c, ttl) PROVE TypeOK'
    <3>1. req' \in [Workers -> Request]
      BY <2>1, CallsAssumption DEF BeginSignal, TypeOK, Request, Phases
    <3>. QED
      BY <1>0, <2>1, <3>1 DEF BeginSignal, TypeOK, calleeVars, tableVars
  <2>2. ASSUME NEW phase \in Phases, Go(w, phase) PROVE req' \in [Workers -> Request]
    BY <2>2 DEF Go, TypeOK, Request
  <2>3. CASE Insert(w)
    BY <1>0, <2>2, <2>3 DEF Insert, TypeOK, Phases, calleeVars
  <2>4. CASE Push(w)
    <3>1. HintOf(w) \in Hint
      BY <2>4, AtWork DEF Push, HintOf, Hint
    <3>2. hints' \subseteq (Sockets \cup {Fcm}) \X Hint
      BY <2>4, <3>1 DEF Push, TypeOK
    <3>3. req' \in [Workers -> Request]
      BY <2>2, <2>4 DEF Push, Phases
    <3>. QED
      BY <1>0, <2>4, <3>2, <3>3 DEF Push, TypeOK, tableVars
  <2>5. CASE ReadToken(w)
    <3>1. req' \in [Workers -> Request]
      BY <2>2, <2>5 DEF ReadToken, Phases
    <3>. QED
      BY <1>0, <2>5, <3>1 DEF ReadToken, TypeOK, calleeVars, tableVars
  <2>6. CASE NotifyCall(w)
    <3>1. HintOf(w) \in Hint
      BY <2>6, AtWork DEF NotifyCall, HintOf, Hint
    <3>2. hints' \subseteq (Sockets \cup {Fcm}) \X Hint
      BY <2>6, <3>1 DEF NotifyCall, TypeOK
    <3>3. req' \in [Workers -> Request]
      BY <2>2, <2>6 DEF NotifyCall, Phases
    <3>. QED
      BY <1>0, <2>6, <3>2, <3>3 DEF NotifyCall, TypeOK, tableVars
  <2>7. CASE Relayed(w)
    <3>1. acked' \in [Callers -> Nat]
      BY <2>7, AtWork DEF Relayed, TypeOK
    <3>2. req' \in [Workers -> Request]
      BY <2>7, Shapes DEF Relayed, TypeOK
    <3>. QED
      BY <1>0, <2>7, <3>1, <3>2 DEF Relayed, TypeOK, calleeVars, tableVars
  <2>8. CASE SignalFails(w)
    BY <1>0, <2>8, Shapes DEF SignalFails, TypeOK, calleeVars, tableVars
  <2>. QED
    BY <1>2, <2>1, <2>3, <2>4, <2>5, <2>6, <2>7, <2>8 DEF Relay
<1>3. ASSUME NEW p \in Pollers, HandOver(p) PROVE TypeOK'
  <2>1. CASE BeginPoll(p)
    <3>1. poll' \in [Pollers -> Poll]
      BY <2>1 DEF BeginPoll, TypeOK, NoPoll, Poll
    <3>. QED
      BY <1>0, <2>1, <3>1 DEF BeginPoll, TypeOK, callerVars, calleeVars
  <2>2. CASE SelectPending(p)
    <3>1. Pending(poll[p].now) \subseteq 1..MaxSignals
      BY Rows DEF Pending
    <3>2. poll' \in [Pollers -> Poll]
      BY <2>2, <3>1 DEF SelectPending, Slices, TypeOK, Poll
    <3>. QED
      BY <1>0, <2>2, <3>2 DEF SelectPending, TypeOK, callerVars, calleeVars
  <2>3. CASE MarkDelivered(p)
    <3>1. poll' \in [Pollers -> Poll]
      BY <2>3 DEF MarkDelivered, TypeOK, Poll
    <3>. QED
      BY <1>0, <2>3, <3>1 DEF MarkDelivered, TypeOK, callerVars, calleeVars
  <2>4. CASE Receive(p)
    <3>1. poll' \in [Pollers -> Poll]
      BY <2>4, Shapes DEF Receive, TypeOK
    <3>2. got' \subseteq DOMAIN signals
      BY <2>4 DEF Receive, TypeOK, PollsAreRight
    <3>. QED
      BY <1>0, <2>4, <3>1, <3>2 DEF Receive, TypeOK, callerVars, calleeVars
  <2>5. CASE PollFails(p)
    <3>1. poll' \in [Pollers -> Poll]
      BY <2>5, Shapes DEF PollFails, TypeOK
    <3>2. lost' \subseteq DOMAIN signals
      BY <2>5 DEF PollFails, TypeOK, PollsAreRight
    <3>. QED
      BY <1>0, <2>5, <3>1, <3>2 DEF PollFails, TypeOK, callerVars, calleeVars
  <2>. QED
    BY <1>3, <2>1, <2>2, <2>3, <2>4, <2>5 DEF HandOver
<1>4. CASE Device
  BY <1>0, <1>4 DEF Device, Connect, Disconnect, Notify, UpdateFcmToken, TypeOK,
                    callerVars, tableVars
<1>5. CASE UNCHANGED vars
  BY <1>5 DEF vars, TypeOK
<1>. QED
  BY <1>1, <1>2, <1>3, <1>4, <1>5 DEF Next

-----------------------------------------------------------------------------
(* Callers, workers and hints know of rows that are there.                 *)

\* What RowsAreThere says of callers and of one worker.
Known == \A c \in Callers : \A seq \in 0..acked[c] : seq < acked[c] => Has(c, seq)
Busy(w) == /\ req[w].phase # "idle" => req[w].call \in Callers /\ req[w].seq <= acked[req[w].call]
           /\ req[w].phase \in {"push", "token", "fcm", "reply"} => Has(req[w].call, req[w].seq)
Within == \A i \in DOMAIN signals : signals[i].seq <= acked[signals[i].call]

LEMMA RowsSplit == RowsAreThere <=> Known /\ Within /\ \A w \in Workers : Busy(w)
BY DEF RowsAreThere, Known, Within, Busy, Has

LEMMA RowsAreThereStep ==
  ASSUME TypeOK, TypeOK', RowsAreThere, [Next]_vars
  PROVE  RowsAreThere'
<1>0. Known /\ Within /\ \A w \in Workers : Busy(w)
  BY RowsSplit
<1>1. \A c \in Callers, seq \in Nat : Has(c, seq) => Has(c, seq)'
  BY HasStays DEF Has
<1>2. UNCHANGED acked => Known'
  BY <1>0, <1>1 DEF Known, TypeOK
<1>3. \A i \in DOMAIN signals : /\ i \in DOMAIN signals' /\ signals'[i].call = signals[i].call
                                /\ signals'[i].seq = signals[i].seq /\ signals[i].call \in Callers
                                /\ signals[i].seq \in Nat
  BY RowsStay, Rows DEF CallSignal
<1>4. ASSUME NEW w \in Workers, UNCHANGED <<req[w], acked>> PROVE Busy(w)'
  <2>1. Busy(w) /\ req[w] \in Request
    BY <1>0 DEF TypeOK
  <2>2. Has(req[w].call, req[w].seq) /\ req[w].call \in Callers =>
          Has(req[w].call, req[w].seq)'
    BY <1>1, <1>4, <2>1 DEF Request, Has
  <2>. QED
    BY <1>4, <2>1, <2>2 DEF Busy
<1>5. CASE UNCHANGED <<req, acked, signals>>
  BY <1>0, <1>2, <1>4, <1>5 DEF Within, RowsAreThere, Known, Busy, Has
<1>6. ASSUME NEW p \in Pollers, MarkDelivered(p) PROVE RowsAreThere'
  <2>1. UNCHANGED <<req, acked>> /\ DOMAIN signals' = DOMAIN signals
    BY <1>6, MarkedRows DEF MarkDelivered, callerVars
  <2>2. Within'
    BY <1>0, <1>3, <2>1 DEF Within
  <2>3. \A w \in Workers : Busy(w)'
    BY <1>4, <2>1
  <2>. QED
    BY <1>2, <2>1, <2>2, <2>3 DEF RowsAreThere, Known, Within, Busy, Has
<1>7. ASSUME NEW w \in Workers, Relay(w) PROVE RowsAreThere'
  <2>1. ASSUME Busy(w)', UNCHANGED acked, Within',
               \A v \in Workers \ {w} : UNCHANGED req[v]
        PROVE  RowsAreThere'
    <3>1. \A v \in Workers : Busy(v)'
      BY <1>4, <2>1
    <3>. QED
      BY <1>2, <2>1, <3>1 DEF RowsAreThere, Known, Within, Busy, Has
  <2>2. UNCHANGED <<signals, acked>> => Within'
    BY <1>0 DEF Within
  <2>3. ASSUME NEW c \in Callers, NEW ttl \in 1..MaxTtl, BeginSignal(w, c, ttl)
        PROVE  RowsAreThere'
    <3>1. Busy(w)' /\ UNCHANGED <<signals, acked>>
          /\ \A v \in Workers \ {w} : UNCHANGED req[v]
      BY <2>3 DEF BeginSignal, Busy, TypeOK, tableVars
    <3>. QED
      BY <2>1, <2>2, <3>1
  <2>4. CASE Insert(w)
    <3>1. /\ req[w].phase = "insert" /\ UNCHANGED acked /\ req[w] \in Request
          /\ req' = [req EXCEPT ![w].phase = "push"]
      BY <2>4 DEF Insert, Go, TypeOK
    <3>. DEFINE n == Len(signals) + 1
    <3>2. /\ DOMAIN signals' = DOMAIN signals \cup {n}
          /\ signals'[n].call = req[w].call /\ signals'[n].seq = req[w].seq
      <4>. HIDE DEF n
      <4>1. \A r : r = [call |-> req[w].call, seq |-> req[w].seq,
                       expires_at |-> req[w].expires_at, delivered |-> FALSE] =>
              r.call = req[w].call /\ r.seq = req[w].seq
        OBVIOUS
      <4>. QED
        BY <2>4, <4>1, InsertRows DEF n
    <3>3. Within'
      BY <1>0, <1>3, <3>1, <3>2, AtWork DEF Within
    <3>4. /\ req'[w].phase = "push" /\ req'[w].call = req[w].call /\ req'[w].seq = req[w].seq
          /\ \A v \in Workers \ {w} : UNCHANGED req[v]
      BY <3>1 DEF TypeOK, Request
    <3>5. Busy(w)'
      BY <1>0, <3>1, <3>2, <3>4 DEF Busy, Has
    <3>. QED
      BY <2>1, <3>1, <3>3, <3>4, <3>5
  <2>5. ASSUME NEW phase, Go(w, phase), req[w].phase \in {"push", "token", "fcm", "reply"},
               UNCHANGED <<signals, acked>>
        PROVE  RowsAreThere'
    <3>1. Busy(w)' /\ \A v \in Workers \ {w} : UNCHANGED req[v]
      BY <1>0, <2>5 DEF Go, Busy, Has, TypeOK, Request
    <3>. QED
      BY <2>1, <2>2, <2>5, <3>1
  <2>6. CASE Push(w) \/ ReadToken(w) \/ NotifyCall(w)
    BY <2>5, <2>6 DEF Push, ReadToken, NotifyCall, tableVars, callerVars
  <2>7. CASE Relayed(w)
    <3>. DEFINE c == req[w].call
    <3>1. /\ c \in Callers /\ req[w].seq \in Nat /\ req[w].seq <= acked[c]
          /\ Has(c, req[w].seq) /\ req[w].phase = "reply"
      BY <1>0, <2>7, AtWork DEF Relayed, Busy
    <3>2. /\ acked' = [acked EXCEPT ![c] = IF @ <= req[w].seq THEN req[w].seq + 1 ELSE @]
          /\ req' = [req EXCEPT ![w] = Idle] /\ UNCHANGED signals
      BY <2>7 DEF Relayed, tableVars
    <3>3. \A d \in Callers : acked[d] \in Nat /\ acked'[d] \in Nat /\ acked[d] <= acked'[d]
      BY <3>1, <3>2 DEF TypeOK
    <3>4. Known'
      BY <1>0, <3>1, <3>2, <3>3 DEF Known, Has, TypeOK
    <3>5. Within'
      BY <1>0, <1>3, <3>2, <3>3 DEF Within
    <3>6. \A v \in Workers : Busy(v)'
      BY <1>0, <3>2, <3>3 DEF Busy, Has, TypeOK, Idle, Request
    <3>. QED
      BY <3>4, <3>5, <3>6 DEF RowsAreThere, Known, Within, Busy, Has
  <2>8. CASE SignalFails(w)
    <3>1. Busy(w)' /\ UNCHANGED <<signals, acked>>
          /\ \A v \in Workers \ {w} : UNCHANGED req[v]
      BY <2>8 DEF SignalFails, Busy, TypeOK, Idle, tableVars
    <3>. QED
      BY <2>1, <2>2, <3>1
  <2>. QED
    BY <1>7, <2>3, <2>4, <2>6, <2>7, <2>8 DEF Relay
<1>. QED
  BY <1>5, <1>6, <1>7
  DEF Next, Tick, Device, Connect, Disconnect, Notify, UpdateFcmToken, HandOver, BeginPoll,
      SelectPending, Receive, PollFails, callerVars, tableVars, vars

\* A hint is sent for a row that is there, and rows stay.
LEMMA ToldStep ==
  ASSUME TypeOK, RowsAreThere, ToldIsStored, [Next]_vars
  PROVE  ToldIsStored'
<1>1. ASSUME NEW h \in hints' PROVE Has(h[2].call, h[2].seq)
  <2>1. CASE h \in hints
    BY <2>1 DEF ToldIsStored, Has
  <2>2. ASSUME NEW w \in Workers, Push(w) \/ NotifyCall(w), h \notin hints
        PROVE  Has(h[2].call, h[2].seq)
    <3>1. h[2] = HintOf(w)
      BY <2>2 DEF Push, NotifyCall
    <3>2. Has(req[w].call, req[w].seq)
      BY <2>2 DEF Push, NotifyCall, RowsAreThere, Has
    <3>. QED
      BY <3>1, <3>2 DEF HintOf
  <2>. QED
    BY <2>1, <2>2
    DEF Next, Tick, Device, Connect, Disconnect, Notify, UpdateFcmToken, Relay, BeginSignal,
        Insert, ReadToken, Relayed, SignalFails, HandOver, BeginPoll, SelectPending,
        MarkDelivered, Receive, PollFails, callerVars, calleeVars, tableVars, vars
<1>. QED
  BY <1>1, HasStays DEF ToldIsStored

-----------------------------------------------------------------------------
(* Polls.                                                                  *)

\* What was handed over stays so, and whoever's answer is ready hands over.
LEMMA HandedOverGrows ==
  ASSUME TypeOK, [Next]_vars
  PROVE  HandedOver \subseteq HandedOver'
<1>1. ASSUME NEW p \in Pollers, HandOver(p) PROVE HandedOver \subseteq HandedOver'
  <2>1. \A q \in Pollers \ {p} : UNCHANGED poll[q]
    BY <1>1 DEF HandOver, BeginPoll, SelectPending, MarkDelivered, Receive, PollFails, TypeOK
  <2>2. got \subseteq got' /\ lost \subseteq lost'
    BY <1>1 DEF HandOver, BeginPoll, SelectPending, MarkDelivered, Receive, PollFails
  <2>3. poll[p].phase = "reply" => poll[p].ids \subseteq got' \cup lost'
    BY <1>1 DEF HandOver, BeginPoll, SelectPending, MarkDelivered, Receive, PollFails
  <2>. QED
    BY <2>1, <2>2, <2>3 DEF HandedOver, Answering
<1>2. CASE UNCHANGED <<poll, got, lost>>
  BY <1>2 DEF HandedOver, Answering
<1>. QED
  BY <1>1, <1>2
  DEF Next, Tick, Device, Connect, Disconnect, Notify, UpdateFcmToken, Relay, BeginSignal,
      Insert, Push, ReadToken, NotifyCall, Relayed, SignalFails, tableVars, vars

\* Covered, of any table and instant.
CoveredIn(i, rows, table, now) ==
  \A seq \in 0..table[i].seq :
    \/ seq = table[i].seq
    \/ \E j \in DOMAIN table :
         /\ table[j].call = table[i].call /\ table[j].seq = seq
         /\ j \in rows \/ table[j].expires_at <= now

LEMMA CoveredIsIn ==
  /\ \A i, rows : Covered(i, rows) <=> CoveredIn(i, rows, signals, clock)
  /\ \A p \in Pollers : \A i : Covered(i, HandedOver \cup poll[p].ids)' <=>
       CoveredIn(i, HandedOver' \cup poll'[p].ids, signals', clock')
BY DEF Covered, CoveredIn

\* A row stays covered by the same rows, or more.
LEMMA CoveredStays ==
  ASSUME TypeOK, RowsAreThere, [Next]_vars, NEW i \in DOMAIN signals,
         NEW rows, NEW more, rows \subseteq more, CoveredIn(i, rows, signals, clock)
  PROVE  CoveredIn(i, more, signals', clock')
<1>1. clock \in Nat /\ clock' \in Nat /\ clock <= clock'
  BY RowsStay DEF TypeOK
<1>2. ASSUME NEW seq \in 0..signals[i].seq, seq # signals[i].seq
      PROVE  \E j \in DOMAIN signals' :
               /\ signals'[j].call = signals'[i].call /\ signals'[j].seq = seq
               /\ j \in more \/ signals'[j].expires_at <= clock'
  <2>1. PICK j \in DOMAIN signals :
          /\ signals[j].call = signals[i].call /\ signals[j].seq = seq
          /\ j \in rows \/ signals[j].expires_at <= clock
    BY <1>2 DEF CoveredIn
  <2>2. signals[j].expires_at \in Nat
    BY Rows DEF CallSignal
  <2>3. /\ j \in DOMAIN signals' /\ signals'[j].call = signals'[i].call
        /\ signals'[j].seq = seq /\ signals'[j].expires_at = signals[j].expires_at
    <3>1. /\ j \in DOMAIN signals' /\ signals'[j].call = signals[j].call
          /\ signals'[j].seq = signals[j].seq
          /\ signals'[j].expires_at = signals[j].expires_at
          /\ signals'[i].call = signals[i].call
      BY RowsStay
    <3>. QED
      BY <2>1, <3>1
  <2>4. j \in more \/ signals'[j].expires_at <= clock'
    BY <1>1, <2>1, <2>2, <2>3
  <2>. QED
    BY <2>3, <2>4
<1>3. signals'[i].seq = signals[i].seq
  BY RowsStay
<1>. QED
  BY <1>2, <1>3 DEF CoveredIn

\* A page begins each call: what precedes one of its rows is in it, or was handed over
\* before, or has expired.
LEMMA SelectedIsCovered ==
  ASSUME TypeOK, RowsAreThere, MarkedIsHandedOver, NEW now \in Nat, now <= clock,
         NEW ids \in Slices(Pending(now)), NEW i \in ids
  PROVE  Covered(i, HandedOver \cup ids)
<1>1. /\ ids \subseteq Pending(now) /\ i \in DOMAIN signals
      /\ \A j \in Pending(now) \ ids : ~Precedes(j, i)
  BY DEF Slices, Pending
<1>2. /\ signals[i].seq \in Nat /\ signals[i].call \in Callers
      /\ acked[signals[i].call] \in Nat /\ signals[i].seq <= acked[signals[i].call]
  BY <1>1, Rows DEF CallSignal, TypeOK, RowsAreThere
<1>3. ASSUME NEW seq \in 0..signals[i].seq, seq # signals[i].seq
      PROVE  \E j \in DOMAIN signals :
               /\ signals[j].call = signals[i].call /\ signals[j].seq = seq
               /\ j \in HandedOver \cup ids \/ signals[j].expires_at <= clock
  <2>1. PICK j \in DOMAIN signals : signals[j].call = signals[i].call /\ signals[j].seq = seq
    BY <1>2, <1>3 DEF RowsAreThere
  <2>2. CASE signals[j].delivered
    BY <2>1, <2>2 DEF MarkedIsHandedOver
  <2>3. CASE signals[j].expires_at <= now
    BY <2>1, <2>3, Rows DEF CallSignal, TypeOK
  <2>4. CASE j \in Pending(now)
    BY <1>1, <1>2, <1>3, <2>1, <2>4 DEF Precedes
  <2>. QED
    BY <2>1, <2>2, <2>3, <2>4, Rows DEF Pending, CallSignal
<1>. QED
  BY <1>3 DEF Covered

LEMMA PollsStep ==
  ASSUME TypeOK, TypeOK', RowsAreThere, MarkedIsHandedOver, PollsAreRight, [Next]_vars
  PROVE  PollsAreRight'
<1>. DEFINE Right(p) == /\ poll[p].phase \in {"idle", "select"} => poll[p].ids = {}
                        /\ poll[p].now <= clock
                        /\ poll[p].ids \subseteq DOMAIN signals
                        /\ \A i \in poll[p].ids : Covered(i, HandedOver \cup poll[p].ids)
<1>. clock \in Nat /\ clock' \in Nat /\ clock <= clock' /\ DOMAIN signals \subseteq DOMAIN signals'
  BY RowsStay DEF TypeOK
<1>1. \A p \in Pollers : Right(p) /\ poll[p] \in Poll
  BY DEF PollsAreRight, TypeOK
<1>2. ASSUME NEW p \in Pollers, NEW i \in poll[p].ids, poll'[p].ids = poll[p].ids
      PROVE  Covered(i, HandedOver \cup poll[p].ids)'
  <2>1. /\ i \in DOMAIN signals /\ Covered(i, HandedOver \cup poll[p].ids)
        /\ HandedOver \cup poll[p].ids \subseteq HandedOver' \cup poll'[p].ids
    BY <1>1, <1>2, HandedOverGrows
  <2>2. CoveredIn(i, HandedOver \cup poll[p].ids, signals, clock)
    BY <2>1, CoveredIsIn
  <2>3. CoveredIn(i, HandedOver' \cup poll'[p].ids, signals', clock')
    BY <2>1, <2>2, CoveredStays
  <2>4. Covered(i, HandedOver \cup poll[p].ids)'
    BY <2>3, CoveredIsIn
  <2>. QED
    BY <1>2, <2>4
<1>3. ASSUME NEW p \in Pollers, UNCHANGED poll[p] PROVE Right(p)'
  <2>1. \A i \in poll[p].ids : Covered(i, HandedOver \cup poll[p].ids)'
    BY <1>2, <1>3
  <2>2. poll[p].now \in Nat /\ poll[p].now <= clock /\ poll[p].ids \subseteq DOMAIN signals
    BY <1>1 DEF Poll
  <2>3. poll[p].now <= clock' /\ poll[p].ids \subseteq DOMAIN signals'
    BY <2>2
  <2>4. \A i \in poll'[p].ids : Covered(i, HandedOver \cup poll[p].ids)'
    BY <1>3, <2>1
  <2>. QED
    BY <1>1, <1>3, <2>3, <2>4
<1>4. ASSUME NEW p \in Pollers, HandOver(p) PROVE Right(p)' /\ \A q \in Pollers \ {p} : UNCHANGED poll[q]
  <2>1. \A q \in Pollers \ {p} : UNCHANGED poll[q]
    BY <1>4 DEF HandOver, BeginPoll, SelectPending, MarkDelivered, Receive, PollFails, TypeOK
  <2>2. CASE BeginPoll(p)
    <3>1. poll'[p].phase = "select" /\ poll'[p].now = clock /\ poll'[p].ids = {}
      BY <2>2 DEF BeginPoll, NoPoll, TypeOK
    <3>. QED
      BY <2>1, <3>1
  <2>3. CASE Receive(p) \/ PollFails(p)
    <3>1. poll'[p] = NoPoll
      BY <2>3 DEF Receive, PollFails, TypeOK
    <3>. QED
      BY <2>1, <3>1 DEF NoPoll
  <2>4. CASE SelectPending(p)
    <3>1. PICK ids \in Slices(Pending(poll[p].now)) :
            poll' = [poll EXCEPT ![p] = [phase |-> "mark", now |-> 0, ids |-> ids]]
      BY <2>4 DEF SelectPending
    <3>2. poll'[p].phase = "mark" /\ poll'[p].now = 0 /\ poll'[p].ids = ids
      BY <3>1 DEF TypeOK
    <3>3. ids \subseteq DOMAIN signals /\ poll[p].now \in Nat /\ poll[p].now <= clock
      BY <1>1 DEF Slices, Pending, Poll
    <3>4. ASSUME NEW i \in ids PROVE Covered(i, HandedOver \cup poll[p].ids)'
      <4>1. Covered(i, HandedOver \cup ids)
        BY <3>3, SelectedIsCovered
      <4>2. HandedOver \cup ids \subseteq HandedOver' \cup poll'[p].ids
        BY <3>2, HandedOverGrows
      <4>. QED
        BY <3>3, <4>1, <4>2, CoveredStays, CoveredIsIn
    <3>. QED
      BY <2>1, <3>2, <3>3, <3>4
  <2>5. CASE MarkDelivered(p)
    <3>1. poll'[p].phase = "reply" /\ poll'[p].now = poll[p].now /\ poll'[p].ids = poll[p].ids
      BY <1>1, <2>5 DEF MarkDelivered, TypeOK, Poll
    <3>2. \A i \in poll[p].ids : Covered(i, HandedOver \cup poll[p].ids)'
      BY <1>2, <3>1
    <3>3. poll[p].now \in Nat /\ poll[p].now <= clock /\ poll[p].ids \subseteq DOMAIN signals
      BY <1>1 DEF Poll
    <3>. QED
      BY <2>1, <3>1, <3>2, <3>3
  <2>. QED
    BY <1>4, <2>2, <2>3, <2>4, <2>5, <2>1 DEF HandOver
<1>5. \A p \in Pollers : Right(p)'
  <2>1. CASE UNCHANGED poll
    BY <1>3, <2>1
  <2>2. CASE \E p \in Pollers : HandOver(p)
    BY <1>3, <1>4, <2>2
  <2>. QED
    BY <2>1, <2>2
    DEF Next, Tick, Device, Connect, Disconnect, Notify, UpdateFcmToken, Relay, BeginSignal,
        Insert, Push, ReadToken, NotifyCall, Relayed, SignalFails, tableVars, vars
<1>. QED
  BY <1>5 DEF PollsAreRight

\* Only rows whose poll is about to answer are marked.
LEMMA MarkedStep ==
  ASSUME TypeOK, RowsAreThere, MarkedIsHandedOver, [Next]_vars
  PROVE  MarkedIsHandedOver'
<1>0. HandedOver \subseteq HandedOver'
  BY HandedOverGrows
<1>1. ASSUME NEW p \in Pollers, MarkDelivered(p) PROVE MarkedIsHandedOver'
  <2>1. /\ signals' = Marked(poll[p].ids)
        /\ poll'[p].phase = "reply" /\ poll'[p].ids = poll[p].ids
    BY <1>1 DEF MarkDelivered, TypeOK, Poll
  <2>2. poll[p].ids \subseteq HandedOver'
    BY <2>1 DEF HandedOver, Answering
  <2>3. ASSUME NEW i \in DOMAIN signals', signals'[i].delivered PROVE i \in HandedOver'
    <3>1. i \in DOMAIN signals /\ (signals[i].delivered \/ i \in poll[p].ids)
      BY <2>1, <2>3, MarkedRows
    <3>. QED
      BY <1>0, <2>2, <3>1 DEF MarkedIsHandedOver
  <2>. QED
    BY <2>3 DEF MarkedIsHandedOver
<1>2. ASSUME NEW w \in Workers, Insert(w) PROVE MarkedIsHandedOver'
  <2>1. ASSUME NEW i \in DOMAIN signals', signals'[i].delivered PROVE i \in HandedOver'
    <3>1. ~signals'[Len(signals) + 1].delivered
      <4>1. \A r : r = [call |-> req[w].call, seq |-> req[w].seq,
                       expires_at |-> req[w].expires_at, delivered |-> FALSE] => ~r.delivered
        OBVIOUS
      <4>. QED
        BY <1>2, <4>1, InsertRows
    <3>2. i \in DOMAIN signals \cup {Len(signals) + 1}
      BY <1>2, InsertRows
    <3>3. i \in DOMAIN signals
      BY <2>1, <3>1, <3>2
    <3>4. signals'[i] = signals[i]
      BY <1>2, <3>3, InsertRows
    <3>. QED
      BY <1>0, <2>1, <3>3, <3>4 DEF MarkedIsHandedOver
  <2>. QED
    BY <2>1 DEF MarkedIsHandedOver
<1>3. CASE UNCHANGED signals
  BY <1>0, <1>3 DEF MarkedIsHandedOver
<1>. QED
  BY <1>1, <1>2, <1>3
  DEF Next, Tick, Device, Connect, Disconnect, Notify, UpdateFcmToken, Relay, BeginSignal,
      Push, ReadToken, NotifyCall, Relayed, SignalFails, HandOver, BeginPoll,
      SelectPending, Receive, PollFails, callerVars, calleeVars, tableVars, vars

\* What a device receives begins each call, together with what was handed over.
LEMMA OvertakenStep ==
  ASSUME TypeOK, RowsAreThere, PollsAreRight, NothingIsOvertaken, [Next]_vars
  PROVE  NothingIsOvertaken'
<1>0. HandedOver \subseteq HandedOver'
  BY HandedOverGrows
<1>1. ASSUME NEW i \in got' PROVE CoveredIn(i, HandedOver', signals', clock')
  <2>1. CASE i \in got
    <3>1. i \in DOMAIN signals /\ CoveredIn(i, HandedOver, signals, clock)
      BY <2>1, CoveredIsIn DEF NothingIsOvertaken, TypeOK
    <3>. QED
      BY <1>0, <3>1, CoveredStays
  <2>2. ASSUME NEW p \in Pollers, Receive(p), i \in poll[p].ids
        PROVE  CoveredIn(i, HandedOver', signals', clock')
    <3>1. /\ i \in DOMAIN signals
          /\ CoveredIn(i, HandedOver \cup poll[p].ids, signals, clock)
      BY <2>2, CoveredIsIn DEF PollsAreRight
    <3>2. HandedOver \cup poll[p].ids \subseteq HandedOver'
      BY <1>0, <2>2 DEF Receive, HandedOver
    <3>. QED
      BY <3>1, <3>2, CoveredStays
  <2>. QED
    BY <1>1, <2>1, <2>2
    DEF Next, Tick, Device, Connect, Disconnect, Notify, UpdateFcmToken, Relay, BeginSignal,
        Insert, Push, ReadToken, NotifyCall, Relayed, SignalFails, HandOver, BeginPoll,
        SelectPending, MarkDelivered, Receive, PollFails, tableVars, vars
<1>2. \A i : Covered(i, HandedOver)' <=> CoveredIn(i, HandedOver', signals', clock')
  BY DEF Covered, CoveredIn
<1>. QED
  BY <1>1, <1>2 DEF NothingIsOvertaken

-----------------------------------------------------------------------------

LEMMA InvInit == Init => Inv
<1>. SUFFICES ASSUME Init PROVE Inv
  OBVIOUS
<1>1. signals = << >> /\ DOMAIN signals = {} /\ Len(signals) = 0
  BY DEF Init
<1>2. TypeOK
  <2>1. signals \in Seq(CallSignal) /\ Len(signals) <= MaxSignals
    BY <1>1, CallsAssumption
  <2>2. got \subseteq DOMAIN signals /\ lost \subseteq DOMAIN signals
    BY DEF Init
  <2>. QED
    BY <2>1, <2>2, Shapes DEF Init, TypeOK
<1>3. RowsAreThere /\ PollsAreRight /\ ToldIsStored
  BY <1>1 DEF Init, RowsAreThere, PollsAreRight, ToldIsStored, Idle, NoPoll
<1>4. MarkedIsHandedOver /\ NothingIsOvertaken
  BY <1>1 DEF Init, MarkedIsHandedOver, NothingIsOvertaken
<1>. QED
  BY <1>2, <1>3, <1>4 DEF Inv

LEMMA InvStep == Inv /\ [Next]_vars => Inv'
<1>. SUFFICES ASSUME Inv, [Next]_vars PROVE Inv'
  OBVIOUS
<1>1. TypeOK'
  BY TypeStep DEF Inv
<1>2. RowsAreThere' /\ ToldIsStored'
  BY <1>1, RowsAreThereStep, ToldStep DEF Inv
<1>3. PollsAreRight'
  BY <1>1, PollsStep DEF Inv
<1>4. MarkedIsHandedOver' /\ NothingIsOvertaken'
  BY MarkedStep, OvertakenStep DEF Inv
<1>. QED
  BY <1>1, <1>2, <1>3, <1>4 DEF Inv

\* The inductive invariant of signals, polls and wake-ups.
THEOREM InvHolds == Spec => []Inv
BY InvInit, InvStep, PTL DEF Spec

\* A signal marked delivered was handed over, or its answer was lost.
THEOREM SignalsHandedOver == Spec => []MarkedIsHandedOver
<1>1. Inv => MarkedIsHandedOver
  BY DEF Inv
<1>. QED
  BY <1>1, InvHolds, PTL

\* No device has a signal of a call without the earlier ones.
THEOREM CallsInOrder == Spec => []NothingIsOvertaken
<1>1. Inv => NothingIsOvertaken
  BY DEF Inv
<1>. QED
  BY <1>1, InvHolds, PTL
=============================================================================
