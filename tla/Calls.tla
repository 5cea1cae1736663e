--------------------------------- MODULE Calls ---------------------------------
(***************************************************************************)
(* One mailbox's call signals, and how its device is told of them: the     *)
(* CallSignal rows that POST /v1/call/signal inserts and GET /v1/call/poll *)
(* hands over, the push sockets in the mailbox's channel group, and the FCM*)
(* token of its identity.                                                  *)
(*                                                                         *)
(* signal is an INSERT followed by a wake-up; poll is a SELECT followed by *)
(* an UPDATE, and then an answer that may be lost.  None of these are one  *)
(* transaction, and no row is ever deleted.  Authentication is in SigAuth. *)
(***************************************************************************)
EXTENDS Naturals, FiniteSets, Sequences

CONSTANTS
  Callers,    \* peers, each with one call to the mailbox
  Workers,    \* concurrent POST /v1/call/signal handlers
  Pollers,    \* concurrent GET /v1/call/poll handlers
  Sockets,    \* the push sockets the device may open
  Page,       \* how many signals one poll hands over (200)
  MaxTtl,     \* SIGNAL_TTL_MAX
  MaxSignals, \* bound: rows in the table
  MaxSeq,     \* bound: the last seq of a call
  MaxClock,   \* bound: the last instant of the model
  Fcm,        \* the way to the app that is not a socket
  None        \* no caller

ASSUME CallsAssumption ==
  /\ {Page, MaxTtl, MaxSignals, MaxSeq, MaxClock} \subseteq Nat
  /\ None \notin Callers /\ Fcm \notin Sockets

VARIABLES
  clock,    \* timezone.now()
  wake,     \* the deployment: has it a channel layer, FCM credentials, or neither?
            \* (with a layer, credentials are of no use)
  signals,  \* the CallSignal table; a row's place is its id
  acked,    \* acked[c]: how many signals caller c has had a 201 for
  req,      \* req[w]: the signal worker w is relaying
  poll,     \* poll[p]: the poll worker p is serving
  group,    \* the sockets in the mailbox's channel group
  hints,    \* hints on their way to a socket or, by FCM, to the app
  token,    \* has the callee's identity an fcm_token?
  got,      \* the rows the callee has received
  lost      \* the rows marked delivered by polls whose answer was lost

vars == <<clock, wake, signals, acked, req, poll, group, hints, token, got,
          lost>>
callerVars == <<acked, req>>
calleeVars == <<group, hints, token>>
tableVars == <<signals, poll, got, lost>>

CallSignal == [call : Callers, seq : Nat, expires_at : Nat, delivered : BOOLEAN]
Hint == [call : Callers, seq : Nat]

Phases == {"idle", "insert", "push", "token", "fcm", "reply"}
Request == [phase : Phases, call : Callers \cup {None}, seq : Nat, expires_at : Nat]
Idle == [phase |-> "idle", call |-> None, seq |-> 0, expires_at |-> 0]

Poll == [phase : {"idle", "select", "mark", "reply"}, now : Nat,
         ids : SUBSET (1..MaxSignals)]
NoPoll == [phase |-> "idle", now |-> 0, ids |-> {}]

TypeOK ==
  /\ clock \in Nat
  /\ wake \in {"layer", "fcm", "none"}
  /\ signals \in Seq(CallSignal) /\ Len(signals) <= MaxSignals
  /\ acked \in [Callers -> Nat]
  /\ req \in [Workers -> Request]
  /\ poll \in [Pollers -> Poll]
  /\ group \subseteq Sockets
  /\ hints \subseteq (Sockets \cup {Fcm}) \X Hint
  /\ token \in BOOLEAN
  /\ got \subseteq DOMAIN signals
  /\ lost \subseteq DOMAIN signals

Init ==
  /\ clock = 0
  /\ wake \in {"layer", "fcm", "none"}
  /\ signals = << >>
  /\ acked = [c \in Callers |-> 0]
  /\ req = [w \in Workers |-> Idle]
  /\ poll = [p \in Pollers |-> NoPoll]
  /\ group = {}
  /\ hints = {}
  /\ token = FALSE
  /\ got = {}
  /\ lost = {}

Tick ==
  /\ clock < MaxClock
  /\ clock' = clock + 1
  /\ UNCHANGED <<wake, callerVars, calleeVars, tableVars>>

-----------------------------------------------------------------------------
(* POST /v1/call/signal.                                                   *)

\* A caller sends its next signal once the last was answered, and sends it again
\* when it grew tired of waiting.  The serializer computes the deadline.
BeginSignal(w, c, ttl) ==
  /\ req[w].phase = "idle"
  /\ acked[c] <= MaxSeq
  /\ req' = [req EXCEPT ![w] = [phase |-> "insert", call |-> c, seq |-> acked[c],
                                expires_at |-> clock + ttl]]
  /\ UNCHANGED <<clock, wake, acked, calleeVars, tableVars>>

Go(w, phase) == req' = [req EXCEPT ![w].phase = phase]

\* mutant: with ATOMIC_REQUESTS the row would not be visible yet
InsertUncommitted(w) ==
  /\ req[w].phase = "insert"
  /\ Go(w, "push")
  /\ UNCHANGED <<clock, wake, signals, poll, got, lost, acked, calleeVars>>

\* CallSignal.objects.create, committed at once.
Insert(w) ==
  /\ req[w].phase = "insert"
  /\ Len(signals) < MaxSignals
  /\ signals' = Append(signals, [call |-> req[w].call, seq |-> req[w].seq,
                                 expires_at |-> req[w].expires_at,
                                 delivered |-> FALSE])
  /\ Go(w, "push")
  /\ UNCHANGED <<clock, wake, acked, calleeVars, poll, got, lost>>

HintOf(w) == [call |-> req[w].call, seq |-> req[w].seq]

\* push_to_mailbox: group_send reaches the sockets in the group at that moment, if
\* any.  It is False only without a layer; then an offer (seq 0) goes on to FCM.
Push(w) ==
  /\ req[w].phase = "push"
  /\ IF wake = "layer"
     THEN /\ hints' = hints \cup (group \X {HintOf(w)})
          /\ Go(w, "reply")
     ELSE /\ Go(w, IF req[w].seq = 0 THEN "token" ELSE "reply")
          /\ UNCHANGED hints
  /\ UNCHANGED <<clock, wake, acked, group, token, tableVars>>

ReadToken(w) ==
  /\ req[w].phase = "token"
  /\ Go(w, IF token THEN "fcm" ELSE "reply")
  /\ UNCHANGED <<clock, wake, acked, calleeVars, tableVars>>

\* fcm.notify_call: nothing without credentials, and a failure is logged and passed
\* over (the token may be that of a device that is gone).
NotifyCall(w) ==
  /\ req[w].phase = "fcm"
  /\ \/ wake = "fcm" /\ hints' = hints \cup {<<Fcm, HintOf(w)>>}
     \/ UNCHANGED hints
  /\ Go(w, "reply")
  /\ UNCHANGED <<clock, wake, acked, group, token, tableVars>>

\* 201.  The caller goes on to its next signal.
Relayed(w) ==
  /\ req[w].phase = "reply"
  /\ LET c == req[w].call
     IN acked' = [acked EXCEPT ![c] = IF @ <= req[w].seq THEN req[w].seq + 1 ELSE @]
  /\ req' = [req EXCEPT ![w] = Idle]
  /\ UNCHANGED <<clock, wake, calleeVars, tableVars>>

\* The worker dies, the layer raises, or the answer is lost.
SignalFails(w) ==
  /\ req[w].phase # "idle"
  /\ req' = [req EXCEPT ![w] = Idle]
  /\ UNCHANGED <<clock, wake, acked, calleeVars, tableVars>>

-----------------------------------------------------------------------------
(* GET /v1/call/poll.                                                      *)

\* The caller is registered; `now' is captured.
BeginPoll(p) ==
  /\ poll[p].phase = "idle"
  /\ poll' = [poll EXCEPT ![p] = [NoPoll EXCEPT !.phase = "select", !.now = clock]]
  /\ UNCHANGED <<clock, wake, callerVars, calleeVars, signals, got, lost>>

Pending(now) ==
  {i \in DOMAIN signals : ~signals[i].delivered /\ signals[i].expires_at > now}

PrecedesNothing(i, j) == FALSE   \* mutant

\* ordering = ["seq", "created_at"], whatever the call; rows of one seq are created
\* in the order of their commits or not, so they come in any order.
Precedes(i, j) == signals[i].seq < signals[j].seq

\* The slices [:Page] of `rows' in that order.
Slices(rows) ==
  {s \in SUBSET rows :
     /\ Cardinality(s) <= Page
     /\ s = rows \/ Cardinality(s) = Page
     /\ \A i \in s, j \in rows \ s : ~Precedes(j, i)}

SelectPending(p) ==
  /\ poll[p].phase = "select"
  /\ \E ids \in Slices(Pending(poll[p].now)) :
       poll' = [poll EXCEPT ![p] = [phase |-> "mark", now |-> 0, ids |-> ids]]
  /\ UNCHANGED <<clock, wake, callerVars, calleeVars, signals, got, lost>>

MarkedAll(ids) ==   \* mutant
  [i \in DOMAIN signals |-> [signals[i] EXCEPT !.delivered = TRUE]]

\* update(delivered=True) of the rows that were selected.
Marked(ids) ==
  [i \in DOMAIN signals |->
     [signals[i] EXCEPT !.delivered = signals[i].delivered \/ i \in ids]]

MarkDelivered(p) ==
  /\ poll[p].phase = "mark"
  /\ signals' = Marked(poll[p].ids)
  /\ poll' = [poll EXCEPT ![p].phase = "reply"]
  /\ UNCHANGED <<clock, wake, callerVars, calleeVars, got, lost>>

Receive(p) ==
  /\ poll[p].phase = "reply"
  /\ got' = got \cup poll[p].ids
  /\ poll' = [poll EXCEPT ![p] = NoPoll]
  /\ UNCHANGED <<clock, wake, callerVars, calleeVars, signals, lost>>

\* The worker dies, or its answer does not arrive.
PollFails(p) ==
  /\ poll[p].phase # "idle"
  /\ lost' = IF poll[p].phase = "reply" THEN lost \cup poll[p].ids ELSE lost
  /\ poll' = [poll EXCEPT ![p] = NoPoll]
  /\ UNCHANGED <<clock, wake, callerVars, calleeVars, signals, got>>

-----------------------------------------------------------------------------
(* The callee's device: its sockets and its FCM token.                     *)

\* connect, once the nonce is burnt: group_add, then accept.
Connect(s) ==
  /\ wake = "layer"
  /\ group' = group \cup {s}
  /\ s \notin group
  /\ UNCHANGED <<clock, wake, callerVars, hints, token, tableVars>>

\* disconnect: group_discard; what is on its way to the socket is gone.
Disconnect(s) ==
  /\ s \in group
  /\ group' = group \ {s}
  /\ hints' = {h \in hints : h[1] # s}
  /\ UNCHANGED <<clock, wake, callerVars, token, tableVars>>

\* notify sends the payload on; FCM delivers a message, or drops it.
Notify(h) ==
  /\ h \in hints
  /\ hints' = hints \ {h}
  /\ UNCHANGED <<clock, wake, callerVars, group, token, tableVars>>

\* POST /v1/fcm-token; the token cannot be blank.
UpdateFcmToken ==
  /\ ~token
  /\ token' = TRUE
  /\ UNCHANGED <<clock, wake, callerVars, group, hints, tableVars>>

-----------------------------------------------------------------------------

Relay(w) ==
  \/ \E c \in Callers, ttl \in 1..MaxTtl : BeginSignal(w, c, ttl)
  \/ Insert(w) \/ Push(w) \/ ReadToken(w) \/ NotifyCall(w)
  \/ Relayed(w) \/ SignalFails(w)

HandOver(p) == \/ BeginPoll(p) \/ SelectPending(p) \/ MarkDelivered(p)
               \/ Receive(p) \/ PollFails(p)

Device == \/ \E s \in Sockets : Connect(s) \/ Disconnect(s)
          \/ \E h \in hints : Notify(h)
          \/ UpdateFcmToken

Next ==
  \/ Tick \/ Device
  \/ \E w \in Workers : Relay(w)
  \/ \E p \in Pollers : HandOver(p)

Spec == Init /\ [][Next]_vars

-----------------------------------------------------------------------------

Answering == UNION {poll[p].ids : p \in {q \in Pollers : poll[q].phase = "reply"}}
HandedOver == got \cup lost \cup Answering

\* Every signal of the call that is earlier than row i is among rows, or has expired.
Covered(i, rows) ==
  \A seq \in 0..signals[i].seq :
    \/ seq = signals[i].seq
    \/ \E j \in DOMAIN signals :
         /\ signals[j].call = signals[i].call /\ signals[j].seq = seq
         /\ j \in rows \/ signals[j].expires_at <= clock

\* A signal that is marked delivered is in the callee's hands or in an answer on its
\* way there, unless the answer was lost: two polls may hand it over twice, a signal
\* that arrives between SELECT and UPDATE is not marked with the others.
MarkedIsHandedOver ==
  \A i \in DOMAIN signals :
    signals[i].delivered => i \in HandedOver

\* "ordering within a call": whoever has a signal has had every earlier one of the
\* call, or it has expired, is on its way in the answer of another poll or was lost
\* with one; the page is cut from the other end.
NothingIsOvertaken == \A i \in got : Covered(i, HandedOver)

\* A wake-up never runs ahead of its signal: whatever the device is told of is in the
\* table when it polls.
ToldIsStored ==
  \A h \in hints :
    \E i \in DOMAIN signals :
      signals[i].call = h[2].call /\ signals[i].seq = h[2].seq

\* What these rest on: a caller knows of its rows, and so does a worker past the
\* INSERT.
RowsAreThere ==
  /\ \A c \in Callers : \A seq \in 0..acked[c] :
       seq < acked[c] =>
         \E i \in DOMAIN signals : signals[i].call = c /\ signals[i].seq = seq
  /\ \A w \in Workers :
       /\ req[w].phase # "idle" => req[w].call \in Callers /\ req[w].seq <= acked[req[w].call]
       /\ req[w].phase \in {"push", "token", "fcm", "reply"} =>
            \E i \in DOMAIN signals :
              signals[i].call = req[w].call /\ signals[i].seq = req[w].seq
  /\ \A i \in DOMAIN signals : signals[i].seq <= acked[signals[i].call]

\* A poll has selected a beginning of each call.
PollsAreRight ==
  \A p \in Pollers :
    /\ poll[p].phase \in {"idle", "select"} => poll[p].ids = {}
    /\ poll[p].now <= clock
    /\ poll[p].ids \subseteq DOMAIN signals
    /\ \A i \in poll[p].ids : Covered(i, HandedOver \cup poll[p].ids)

Inv == /\ TypeOK /\ RowsAreThere /\ PollsAreRight
       /\ MarkedIsHandedOver /\ NothingIsOvertaken /\ ToldIsStored
=============================================================================
