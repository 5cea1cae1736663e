----------------------------- MODULE Coordination ------------------------------
(***************************************************************************)
(* Coordination deltas: POST /v1/coord/<geohash>/publish stores one, GET   *)
(* /v1/coord/<geohash>?since= pages through the unexpired ones of a shard, *)
(* gc deletes the expired ones.                                            *)
(*                                                                         *)
(* A delta's id is the hash of its ciphertext alone, so publishing it again*)
(* finds the row there is, wherever it was published and however long it is*)
(* to live.  A subscriber resumes after the created_at of the last delta it*)
(* has: a timestamp taken before the row is visible, and not a unique one. *)
(***************************************************************************)
EXTENDS Naturals, FiniteSets

CONSTANTS
  Deltas,     \* ciphertexts, that is delta ids
  Geohashes,  \* as clients write them: of any length, in either case
  Shard,      \* Shard[g]: g cut to COORD_GEOHASH_LEN (5) letters, in lower case
  Home,       \* the geohash the subscriber asks for
  Workers,    \* concurrent publish handlers
  Page,       \* how many deltas one answer carries (1000)
  Ttls,       \* the ttl_seconds that clients ask for, 1 to a week
  MaxClock,   \* bound: the last instant of the model
  MaxTries,   \* bound: publications that differ
  None        \* no row, no delta, no shard

ASSUME CoordAssumption ==
  /\ Shard \in [Geohashes -> STRING] /\ Home \in Geohashes
  /\ {Page, MaxClock, MaxTries} \cup Ttls \subseteq Nat
  /\ Page > 0

VARIABLES
  clock,      \* timezone.now()
  deltas,     \* deltas[d]: the CoordDelta row of d
  req,        \* req[w]: the publication worker w is handling
  fetch,      \* the subscriber's request
  gc,         \* the gc command: is it in its statement, and its captured `now'
  tries,      \* every publication that was ever begun
  published,  \* deltas whose publication was answered with 201
  cursor,     \* the latest created_at the subscriber has seen
  got,        \* the deltas it has
  late,       \* rows that appeared behind the cursor
  tied        \* rows a page was cut in front of, of its last row's created_at

vars == <<clock, deltas, req, fetch, gc, tries, published, cursor, got, late, tied>>
subscriberVars == <<fetch, cursor, got, tied>>

Shards == {Shard[g] : g \in Geohashes}

CoordDelta == [geohash : Shards, created_at : Nat, expires_at : Nat]
Try == [delta : Deltas, geohash : Shards, expires_at : Nat]
ASSUME NoneAssumption == None \notin CoordDelta \cup Deltas \cup Shards

Request == [phase : {"idle", "get", "create", "insert", "again", "reply"},
            delta : Deltas \cup {None}, geohash : Shards \cup {None},
            expires_at : Nat, created_at : Nat]
Idle == [phase |-> "idle", delta |-> None, geohash |-> None,
         expires_at |-> 0, created_at |-> 0]

\* upto: the created_at of the last row of the answer; cut: rows as old beyond it.
Fetch == [phase : {"idle", "select", "reply"}, now : Nat, since : Nat,
          ids : SUBSET Deltas, upto : Nat, cut : SUBSET Deltas]
NoFetch == [phase |-> "idle", now |-> 0, since |-> 0, ids |-> {}, upto |-> 0,
            cut |-> {}]

TypeOK ==
  /\ clock \in Nat
  /\ deltas \in [Deltas -> CoordDelta \cup {None}]
  /\ req \in [Workers -> Request]
  /\ fetch \in Fetch
  /\ gc \in [pc : {"idle", "coord"}, now : Nat]
  /\ tries \subseteq Try
  /\ published \subseteq Deltas
  /\ cursor \in Nat
  /\ got \subseteq Deltas
  /\ late \subseteq Deltas
  /\ tied \subseteq Deltas

\* Time starts at 1: a cursor of 0 is no cursor.
Init ==
  /\ clock = 1
  /\ deltas = [d \in Deltas |-> None]
  /\ req = [w \in Workers |-> Idle]
  /\ fetch = NoFetch
  /\ gc = [pc |-> "idle", now |-> 0]
  /\ tries = {}
  /\ published = {}
  /\ cursor = 0
  /\ got = {}
  /\ late = {}
  /\ tied = {}

Tick ==
  /\ clock < MaxClock
  /\ clock' = clock + 1
  /\ UNCHANGED <<deltas, req, gc, tries, published, late, subscriberVars>>

-----------------------------------------------------------------------------
(* POST /v1/coord/<geohash>/publish: get_or_create(delta_id=...).          *)

\* The serializer cuts the geohash and computes the deadline.
BeginPublish(w, d, g, ttl) ==
  /\ req[w].phase = "idle"
  /\ req' = [req EXCEPT ![w] = [phase |-> "get", delta |-> d, geohash |-> Shard[g],
                                expires_at |-> clock + ttl, created_at |-> 0]]
  /\ tries' = tries \cup {[delta |-> d, geohash |-> Shard[g], expires_at |-> clock + ttl]}
  /\ Cardinality(tries') <= MaxTries
  /\ UNCHANGED <<clock, deltas, gc, published, late, subscriberVars>>

Go(w, phase) == req' = [req EXCEPT ![w].phase = phase]

\* The row there is is as good as a new one, expired or not.
Get(w) ==
  /\ req[w].phase = "get"
  /\ Go(w, IF deltas[req[w].delta] = None THEN "create" ELSE "reply")
  /\ UNCHANGED <<clock, deltas, gc, tries, published, late, subscriberVars>>

\* auto_now_add takes the time in the worker ...
Stamp(w) ==
  /\ req[w].phase = "create"
  /\ req' = [req EXCEPT ![w].phase = "insert", ![w].created_at = clock]
  /\ UNCHANGED <<clock, deltas, gc, tries, published, late, subscriberVars>>

NewRow(q) == [geohash |-> q.geohash, created_at |-> q.created_at,
              expires_at |-> q.expires_at]

\* Nothing the subscriber has been answered, or is being answered, is as young.
Visible(at) == at > cursor /\ at > fetch.upto

\* ... and the row becomes visible later; IntegrityError if one is there by now.
Insert(w) ==
  /\ req[w].phase = "insert"
  /\ LET d == req[w].delta
     IN IF deltas[d] = None
        THEN /\ deltas' = [deltas EXCEPT ![d] = NewRow(req[w])]
             /\ late' = IF Visible(req[w].created_at) THEN late \ {d} ELSE late \cup {d}
             /\ Go(w, "reply")
        ELSE Go(w, "again") /\ UNCHANGED <<deltas, late>>
  /\ UNCHANGED <<clock, gc, tries, published, subscriberVars>>

\* The row of the other worker, unless gc has deleted it meanwhile: then an error.
GetAgain(w) ==
  /\ req[w].phase = "again"
  /\ IF deltas[req[w].delta] = None
     THEN req' = [req EXCEPT ![w] = Idle]
     ELSE Go(w, "reply")
  /\ UNCHANGED <<clock, deltas, gc, tries, published, late, subscriberVars>>

\* 201
Published(w) ==
  /\ req[w].phase = "reply"
  /\ published' = published \cup {req[w].delta}
  /\ req' = [req EXCEPT ![w] = Idle]
  /\ UNCHANGED <<clock, deltas, gc, tries, late, subscriberVars>>

\* The worker dies, or the answer is lost.
PublishFails(w) ==
  /\ req[w].phase # "idle"
  /\ req' = [req EXCEPT ![w] = Idle]
  /\ UNCHANGED <<clock, deltas, gc, tries, published, late, subscriberVars>>

-----------------------------------------------------------------------------
(* GET /v1/coord/<geohash>?since=<created_at of the last delta it has>.    *)

\* The query is built with `now'; it is run when the answer is serialized.
BeginFetch ==
  /\ fetch.phase = "idle"
  /\ fetch' = [NoFetch EXCEPT !.phase = "select", !.now = clock, !.since = cursor]
  /\ UNCHANGED <<clock, deltas, req, gc, tries, published, cursor, got, late, tied>>

FoundLongLived(q) ==   \* mutant
  {d \in Deltas : /\ deltas[d] # None
                  /\ deltas[d].geohash = Shard[Home]
                  /\ deltas[d].expires_at > q.now + 1
                  /\ deltas[d].created_at > q.since}

\* The filter of the query.
Found(q) ==
  {d \in Deltas : /\ deltas[d] # None
                  /\ deltas[d].geohash = Shard[Home]
                  /\ deltas[d].expires_at > q.now
                  /\ deltas[d].created_at > q.since}

Older(d, e) == deltas[d].created_at < deltas[e].created_at

PagesInAnyOrder(found) ==   \* mutant
  {s \in SUBSET found : Cardinality(s) <= Page /\ (s = found \/ Cardinality(s) = Page)}

\* order_by("created_at")[:Page]
Pages(found) ==
  {s \in SUBSET found :
     /\ Cardinality(s) <= Page
     /\ s = found \/ Cardinality(s) = Page
     /\ \A d \in s, e \in found \ s : ~Older(e, d)}

SelectDeltas ==
  /\ fetch.phase = "select"
  /\ \E page \in Pages(Found(fetch)) :
       IF page = {} THEN fetch' = [fetch EXCEPT !.phase = "reply", !.now = 0, !.since = 0]
       ELSE \E last \in page :
         /\ \A d \in page : ~Older(last, d)
         /\ fetch' = [phase |-> "reply", now |-> 0, since |-> 0, ids |-> page,
                      upto |-> deltas[last].created_at,
                      cut |-> {d \in Found(fetch) \ page :
                                ~Older(last, d) /\ ~Older(d, last)}]
  /\ UNCHANGED <<clock, deltas, req, gc, tries, published, cursor, got, late, tied>>

\* The subscriber merges what it gets and moves its cursor.
Merge ==
  /\ fetch.phase = "reply"
  /\ got' = got \cup fetch.ids
  /\ cursor' = IF fetch.upto > cursor THEN fetch.upto ELSE cursor
  /\ tied' = tied \cup fetch.cut
  /\ fetch' = NoFetch
  /\ UNCHANGED <<clock, deltas, req, gc, tries, published, late>>

FetchFails ==
  /\ fetch.phase # "idle"
  /\ fetch' = NoFetch
  /\ UNCHANGED <<clock, deltas, req, gc, tries, published, cursor, got, late, tied>>

-----------------------------------------------------------------------------
(* manage.py gc, its statement on deltas.                                  *)

GcStart ==
  /\ gc.pc = "idle"
  /\ gc' = [pc |-> "coord", now |-> clock]
  /\ UNCHANGED <<clock, deltas, req, tries, published, late, subscriberVars>>

ExpiredSoon(now) == {d \in Deltas : deltas[d] # None /\ deltas[d].expires_at <= now + 1}   \* mutant

Expired(now) == {d \in Deltas : deltas[d] # None /\ deltas[d].expires_at <= now}

GcCoord ==
  /\ gc.pc = "coord"
  /\ deltas' = [d \in Deltas |-> IF d \in Expired(gc.now) THEN None ELSE deltas[d]]
  /\ gc' = [pc |-> "idle", now |-> 0]
  /\ UNCHANGED <<clock, req, tries, published, late, subscriberVars>>

GcKilled ==
  /\ gc.pc = "coord"
  /\ gc' = [pc |-> "idle", now |-> 0]
  /\ UNCHANGED <<clock, deltas, req, tries, published, late, subscriberVars>>

-----------------------------------------------------------------------------

Publish(w) ==
  \/ \E d \in Deltas, g \in Geohashes, ttl \in Ttls : BeginPublish(w, d, g, ttl)
  \/ Get(w) \/ Stamp(w) \/ Insert(w) \/ GetAgain(w) \/ Published(w) \/ PublishFails(w)

Subscribe == BeginFetch \/ SelectDeltas \/ Merge \/ FetchFails
Collect == GcStart \/ GcCoord \/ GcKilled

Next == Tick \/ Subscribe \/ Collect \/ \E w \in Workers : Publish(w)

Spec == Init /\ [][Next]_vars

-----------------------------------------------------------------------------

\* A subscriber that resumes with `since' misses nothing, but a row that became
\* visible behind its cursor and one that a page boundary separated from another row
\* of the same instant: what is behind the cursor and has not expired, it has.
NothingIsSkipped ==
  \A d \in Deltas :
    deltas[d] # None /\ deltas[d].geohash = Shard[Home]
    /\ deltas[d].expires_at > clock /\ deltas[d].created_at <= cursor =>
      d \in got \cup late \cup tied

\* What was answered with 201 is in the table, with the shard and the deadline of one
\* publication of it, at least until the earliest deadline any of them asked for:
\* however publications of one delta, their retries and gc overlap.
PublishedIsHeld ==
  \A d \in published :
    (\A t \in tries : t.delta = d => t.expires_at > clock) =>
      /\ deltas[d] # None
      /\ [delta |-> d, geohash |-> deltas[d].geohash,
          expires_at |-> deltas[d].expires_at] \in tries

\* What these rest on.
HandlersAreRight ==
  /\ \A w \in Workers :
       LET q == req[w]
       IN /\ q.phase # "idle" =>
               [delta |-> q.delta, geohash |-> q.geohash, expires_at |-> q.expires_at] \in tries
          /\ q.phase = "reply" /\ (\A t \in tries : t.delta = q.delta => t.expires_at > clock) =>
               deltas[q.delta] # None
  /\ \A d \in Deltas : deltas[d] # None =>
       [delta |-> d, geohash |-> deltas[d].geohash,
        expires_at |-> deltas[d].expires_at] \in tries
  /\ gc.now <= clock /\ fetch.now <= clock

\* The answer on its way covers everything up to its last row.
PageIsRight ==
  /\ fetch.phase = "select" => fetch.upto = 0 /\ fetch.since = cursor
  /\ fetch.phase = "reply" =>
       \A d \in Deltas :
         deltas[d] # None /\ deltas[d].geohash = Shard[Home]
         /\ deltas[d].expires_at > clock /\ deltas[d].created_at <= fetch.upto =>
           d \in got \cup late \cup tied \cup fetch.ids \cup fetch.cut

Inv == /\ TypeOK /\ HandlersAreRight /\ PageIsRight
       /\ NothingIsSkipped /\ PublishedIsHeld
=============================================================================
