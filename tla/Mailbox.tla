-------------------------------- MODULE Mailbox --------------------------------
(***************************************************************************)
(* What the store-and-forward server promises, without tables, requests,   *)
(* receipts, acknowledgements or garbage collection: it owes each event it *)
(* has taken to that event's mailbox, under one deadline, and is rid of the*)
(* debt only when the mailbox's owner holds the event or the deadline is   *)
(* past.  (Docstrings of apps/sync/models.py and of sync and ack.)         *)
(***************************************************************************)
EXTENDS Naturals

CONSTANTS Clients, EventIds

VARIABLES
  clock,
  owed,   \* debts: an event, the mailbox it is owed to, its deadline
  held    \* held[c]: the events client c holds

vars == <<clock, owed, held>>

Debt == [event_id : EventIds, mailbox : Clients, deadline : Nat]

Init ==
  /\ clock = 0
  /\ owed = {}
  /\ held \in [Clients -> SUBSET EventIds]

Wait ==
  /\ clock' = clock + 1
  /\ UNCHANGED <<owed, held>>

\* A client obtains events, from the server or from another client, and keeps
\* what it had.
Obtain ==
  /\ held' \in [Clients -> SUBSET EventIds]
  /\ \A c \in Clients : held[c] \subseteq held'[c]
  /\ UNCHANGED <<clock, owed>>

Settled(d) == d.event_id \in held[d.mailbox] \/ d.deadline <= clock

\* The server takes on and settles debts; it never owes one event twice, which
\* also rules out moving a deadline or an address of a debt in place.
Exchange ==
  /\ owed' \subseteq Debt
  /\ \A d \in owed \ owed' : Settled(d)
  /\ \A d, f \in owed' : d.event_id = f.event_id => d = f
  /\ UNCHANGED <<clock, held>>

Next == Wait \/ Obtain \/ Exchange

Spec == Init /\ [][Next]_vars
=============================================================================
