--------------------------- MODULE CoordinationProofs ---------------------------
(* Machine-checked theorems about Coordination, for every set of deltas,     *)
(* geohashes, workers and lifetimes and every page size.                     *)
EXTENDS Coordination, FiniteSetTheorems, TLAPS

LEMMA Shapes ==
  /\ Idle \in Request /\ NoFetch \in Fetch
  /\ \A g \in Geohashes : Shard[g] \in Shards
  /\ \A ttl \in Ttls : ttl \in Nat
BY CoordAssumption DEF Idle, Request, NoFetch, Fetch, Shards

\* What Found returns is in the table.
LEMMA FoundRows ==
  ASSUME TypeOK, NEW d \in Found(fetch)
  PROVE  /\ d \in Deltas /\ deltas[d] # None /\ deltas[d] \in CoordDelta
         /\ deltas[d].created_at \in Nat
BY DEF Found, TypeOK, CoordDelta

\* A handler at work has the delta, shard and deadline of a publication.
LEMMA AtWork ==
  ASSUME TypeOK, HandlersAreRight, NEW w \in Workers, req[w].phase # "idle"
  PROVE  /\ req[w] \in Request
         /\ req[w].delta \in Deltas /\ req[w].geohash \in Shards
         /\ req[w].expires_at \in Nat /\ req[w].created_at \in Nat
         /\ NewRow(req[w]) \in CoordDelta
<1>1. /\ [delta |-> req[w].delta, geohash |-> req[w].geohash,
          expires_at |-> req[w].expires_at] \in tries
      /\ tries \subseteq Try /\ req[w] \in Request
  BY DEF TypeOK, HandlersAreRight
<1>2. req[w].delta \in Deltas /\ req[w].geohash \in Shards
  BY <1>1 DEF Try
<1>. QED
  BY <1>1, <1>2 DEF Request, NewRow, CoordDelta

\* A page, the youngest of its rows, and the rows as young as that one which the
\* page was cut in front of.
Answer(page, last) ==
  [phase |-> "reply", now |-> 0, since |-> 0, ids |-> page,
   upto |-> deltas[last].created_at,
   cut |-> {d \in Found(fetch) \ page : ~Older(last, d) /\ ~Older(d, last)}]

\* The query finds nothing, or it answers with a beginning of what it finds.
LEMMA SelectFetches ==
  ASSUME TypeOK, SelectDeltas
  PROVE  \/ /\ Found(fetch) = {}
            /\ fetch' = [fetch EXCEPT !.phase = "reply", !.now = 0, !.since = 0]
         \/ \E page \in SUBSET Found(fetch) : \E last \in page :
              /\ \A d \in page : ~Older(last, d)
              /\ \A d \in page, f \in Found(fetch) \ page : ~Older(f, d)
              /\ fetch' = Answer(page, last)
<1>1. PICK page \in Pages(Found(fetch)) :
        IF page = {} THEN fetch' = [fetch EXCEPT !.phase = "reply", !.now = 0, !.since = 0]
        ELSE \E last \in page :
               (\A d \in page : ~Older(last, d)) /\ fetch' = Answer(page, last)
  BY DEF SelectDeltas, Answer
<1>2. /\ page \in SUBSET Found(fetch)
      /\ page = Found(fetch) \/ Cardinality(page) = Page
      /\ \A d \in page, f \in Found(fetch) \ page : ~Older(f, d)
  BY DEF Pages
<1>3. CASE page = {}
  <2>1. Cardinality(page) = 0
    BY <1>3, FS_EmptySet
  <2>. QED
    BY <1>1, <1>2, <1>3, <2>1, CoordAssumption
<1>4. CASE page # {}
  BY <1>1, <1>2, <1>4
<1>. QED
  BY <1>3, <1>4

-----------------------------------------------------------------------------
(* Types.                                                                  *)

LEMMA TypeStep == TypeOK /\ HandlersAreRight /\ [Next]_vars => TypeOK'
<1>. SUFFICES ASSUME TypeOK, HandlersAreRight, [Next]_vars PROVE TypeOK'
  OBVIOUS
<1>. USE Shapes DEF TypeOK
<1>1. CASE Tick
  BY <1>1 DEF Tick, subscriberVars
<1>2. ASSUME NEW w \in Workers, Publish(w) PROVE TypeOK'
  <2>1. ASSUME NEW d \in Deltas, NEW g \in Geohashes, NEW ttl \in Ttls,
               BeginPublish(w, d, g, ttl)
        PROVE  TypeOK'
    <3>1. /\ req' \in [Workers -> Request]
          /\ tries' \subseteq Try
      BY <2>1 DEF BeginPublish, Request, Try
    <3>. QED
      BY <2>1, <3>1 DEF BeginPublish, subscriberVars
  <2>2. CASE Get(w)
    BY <2>2 DEF Get, Go, Request, subscriberVars
  <2>3. CASE Stamp(w)
    BY <2>3 DEF Stamp, Request, subscriberVars
  <2>4. CASE Insert(w)
    <3>1. /\ req' \in [Workers -> Request]
          /\ deltas' \in [Deltas -> CoordDelta \cup {None}]
          /\ late' \subseteq Deltas
      BY <2>4, AtWork DEF Insert, Go, Request
    <3>. QED
      BY <2>4, <3>1 DEF Insert, subscriberVars
  <2>5. CASE GetAgain(w)
    BY <2>5 DEF GetAgain, Go, Request, subscriberVars
  <2>6. CASE Published(w)
    BY <2>6, AtWork DEF Published, subscriberVars
  <2>7. CASE PublishFails(w)
    BY <2>7 DEF PublishFails, subscriberVars
  <2>. QED
    BY <1>2, <2>1, <2>2, <2>3, <2>4, <2>5, <2>6, <2>7 DEF Publish
<1>3. CASE BeginFetch
  BY <1>3 DEF BeginFetch, NoFetch, Fetch
<1>4. CASE SelectDeltas
  <2>1. ASSUME NEW page \in SUBSET Found(fetch), NEW last \in page
        PROVE  Answer(page, last) \in Fetch
    BY FoundRows DEF Answer, Fetch
  <2>2. [fetch EXCEPT !.phase = "reply", !.now = 0, !.since = 0] \in Fetch
    BY DEF Fetch
  <2>3. fetch' \in Fetch
    BY <1>4, <2>1, <2>2, SelectFetches
  <2>. QED
    BY <1>4, <2>3 DEF SelectDeltas
<1>5. CASE Merge
  BY <1>5 DEF Merge, Fetch
<1>6. CASE FetchFails
  BY <1>6 DEF FetchFails
<1>7. CASE Collect
  BY <1>7 DEF Collect, GcStart, GcCoord, GcKilled, subscriberVars
<1>8. CASE UNCHANGED vars
  BY <1>8 DEF vars
<1>. QED
  BY <1>1, <1>2, <1>3, <1>4, <1>5, <1>6, <1>7, <1>8 DEF Next, Subscribe

-----------------------------------------------------------------------------
(* Publications.                                                           *)

TryOf(d, row) == [delta |-> d, geohash |-> row.geohash, expires_at |-> row.expires_at]

\* All publications of d among ts ask for a deadline beyond now.
Lives(d, ts, now) == \A t \in ts : t.delta = d => t.expires_at > now

\* A row that gc deletes had expired.
LEMMA GcDeletes ==
  ASSUME TypeOK, HandlersAreRight, GcCoord, NEW d \in Deltas, deltas[d] # None
  PROVE  deltas'[d] = deltas[d] \/ (deltas'[d] = None /\ ~Lives(d, tries, clock))
<1>1. CASE d \notin Expired(gc.now)
  BY <1>1 DEF GcCoord, TypeOK
<1>2. CASE d \in Expired(gc.now)
  <2>1. deltas[d].expires_at <= gc.now /\ gc.now <= clock
    BY <1>2 DEF Expired, HandlersAreRight
  <2>2. TryOf(d, deltas[d]) \in tries
    BY DEF HandlersAreRight, TryOf
  <2>3. deltas[d] \in CoordDelta /\ gc.now \in Nat /\ clock \in Nat
    BY DEF TypeOK
  <2>4. deltas'[d] = None
    BY <1>2 DEF GcCoord, TypeOK
  <2>. QED
    BY <2>1, <2>2, <2>3, <2>4 DEF Lives, TryOf, CoordDelta
<1>. QED
  BY <1>1, <1>2

\* A step keeps a row for as long as anything asked for of its delta lives, and keeps
\* every publication on record.
LEMMA RowsStay ==
  ASSUME TypeOK, HandlersAreRight, [Next]_vars
  PROVE  /\ tries \subseteq tries' /\ clock <= clock'
         /\ \A d \in Deltas : Lives(d, tries', clock') => Lives(d, tries, clock)
         /\ \A d \in Deltas : deltas[d] # None =>
              deltas'[d] = deltas[d] \/ (deltas'[d] = None /\ ~Lives(d, tries, clock))
<1>. clock \in Nat /\ tries \subseteq Try
  BY DEF TypeOK
<1>1. CASE Tick
  BY <1>1 DEF Tick, subscriberVars, Lives, Try
<1>2. CASE GcCoord
  <2>1. UNCHANGED <<clock, tries>>
    BY <1>2 DEF GcCoord
  <2>. QED
    BY <1>2, <2>1, GcDeletes DEF Lives
<1>3. ASSUME NEW w \in Workers, Insert(w)
      PROVE  /\ UNCHANGED <<clock, tries>>
             /\ \A d \in Deltas : deltas[d] # None => deltas'[d] = deltas[d]
  BY <1>3 DEF Insert, TypeOK
<1>4. ASSUME NEW w \in Workers, NEW d \in Deltas, NEW g \in Geohashes, NEW ttl \in Ttls,
             BeginPublish(w, d, g, ttl)
      PROVE  tries \subseteq tries' /\ UNCHANGED <<clock, deltas>>
  BY <1>4 DEF BeginPublish
<1>5. \/ Tick \/ GcCoord
      \/ \E w \in Workers : Insert(w)
      \/ \E w \in Workers, d \in Deltas, g \in Geohashes, ttl \in Ttls :
           BeginPublish(w, d, g, ttl)
      \/ UNCHANGED <<clock, tries, deltas>>
  BY DEF Next, Subscribe, BeginFetch, SelectDeltas, Merge, FetchFails, Collect,
         GcStart, GcKilled, Publish, Get, Stamp, GetAgain, Published,
         PublishFails, subscriberVars, vars
<1>6. ASSUME tries \subseteq tries', UNCHANGED clock
      PROVE  clock <= clock' /\ \A d \in Deltas : Lives(d, tries', clock') => Lives(d, tries, clock)
  BY <1>6 DEF Lives
<1>. QED
  BY <1>1, <1>2, <1>3, <1>4, <1>5, <1>6

\* Handlers and rows stay those of publications, and an answer of 201 is for a row.
LEMMA HandlersStep ==
  ASSUME TypeOK, TypeOK', HandlersAreRight, [Next]_vars
  PROVE  HandlersAreRight'
<1>. DEFINE Works(q) == q.phase # "idle" => TryOf(q.delta, q) \in tries
            Answers(q) == q.phase = "reply" /\ Lives(q.delta, tries, clock) => deltas[q.delta] # None
<1>1. \A w \in Workers : Works(req[w]) /\ Answers(req[w])
  BY DEF HandlersAreRight, TryOf, Lives
<1>2. \A d \in Deltas : deltas[d] # None => TryOf(d, deltas[d]) \in tries
  BY DEF HandlersAreRight, TryOf
<1>3. ASSUME NEW w \in Workers, UNCHANGED req[w] PROVE Works(req[w])' /\ Answers(req[w])'
  <2>1. Works(req[w])'
    BY <1>1, <1>3, RowsStay DEF TryOf
  <2>2. Answers(req[w])'
    BY <1>1, <1>3, RowsStay, AtWork
  <2>. QED
    BY <2>1, <2>2
<1>4. ASSUME NEW w \in Workers, Publish(w)
      PROVE  /\ \A v \in Workers \ {w} : UNCHANGED req[v]
             /\ Works(req[w])' /\ Answers(req[w])'
             /\ \A d \in Deltas : deltas'[d] # None => TryOf(d, deltas'[d]) \in tries'
             /\ UNCHANGED <<gc, fetch, clock>>
  <2>1. ASSUME NEW d \in Deltas, NEW g \in Geohashes, NEW ttl \in Ttls,
               BeginPublish(w, d, g, ttl)
        PROVE  /\ \A v \in Workers \ {w} : UNCHANGED req[v]
               /\ Works(req[w])' /\ req'[w].phase = "get"
               /\ tries \subseteq tries' /\ UNCHANGED <<gc, fetch, clock, deltas>>
    BY <2>1 DEF BeginPublish, TypeOK, Request, TryOf, subscriberVars
  <2>2. CASE Get(w)
    BY <1>1, <1>2, <2>2 DEF Get, Go, TypeOK, Request, TryOf, subscriberVars
  <2>3. CASE Stamp(w)
    BY <1>1, <1>2, <2>3 DEF Stamp, TypeOK, Request, TryOf, subscriberVars
  <2>4. CASE Insert(w)
    <3>. NewRow(req[w]) # None
      BY <2>4, AtWork, NoneAssumption DEF Insert
    <3>1. /\ \A v \in Workers \ {w} : UNCHANGED req[v]
          /\ Works(req[w])' /\ Answers(req[w])' /\ UNCHANGED <<gc, fetch, clock, tries>>
      <4>1. CASE deltas[req[w].delta] = None
        BY <1>1, <2>4, <4>1, AtWork DEF Insert, Go, TypeOK, Request, TryOf, subscriberVars
      <4>2. CASE deltas[req[w].delta] # None
        BY <1>1, <2>4, <4>2, AtWork DEF Insert, Go, TypeOK, Request, TryOf, subscriberVars
      <4>. QED
        BY <4>1, <4>2
    <3>2. ASSUME NEW d \in Deltas, deltas'[d] # None PROVE TryOf(d, deltas'[d]) \in tries
      BY <1>1, <1>2, <2>4, <3>2, AtWork DEF Insert, TypeOK, TryOf, NewRow
    <3>. QED
      BY <3>1, <3>2
  <2>5. CASE GetAgain(w)
    <3>1. CASE deltas[req[w].delta] = None
      BY <1>1, <1>2, <2>5, <3>1 DEF GetAgain, TypeOK, Request, Idle, subscriberVars
    <3>2. CASE deltas[req[w].delta] # None
      BY <1>1, <1>2, <2>5, <3>2 DEF GetAgain, Go, TypeOK, Request, TryOf, subscriberVars
    <3>. QED
      BY <3>1, <3>2
  <2>6. CASE Published(w)
    BY <1>1, <1>2, <2>6 DEF Published, TypeOK, Idle, subscriberVars
  <2>7. CASE PublishFails(w)
    BY <1>1, <1>2, <2>7 DEF PublishFails, TypeOK, Idle, subscriberVars
  <2>. QED
    BY <1>2, <1>4, <2>1, <2>2, <2>3, <2>4, <2>5, <2>6, <2>7 DEF Publish
<1>5. ASSUME UNCHANGED req
      PROVE  \A d \in Deltas : deltas'[d] # None => TryOf(d, deltas'[d]) \in tries'
  <2>0. ASSUME NEW w \in Workers, Insert(w) PROVE FALSE
    BY <1>5, <2>0 DEF Insert, Go, TypeOK, Request
  <2>1. ASSUME NEW d \in Deltas, deltas'[d] # None PROVE deltas'[d] = deltas[d]
    BY <1>5, <2>0, <2>1
    DEF TypeOK, Next, Tick, Subscribe, BeginFetch, SelectDeltas, Merge, FetchFails, Collect,
        GcStart, GcCoord, GcKilled, Publish, BeginPublish, Get, Stamp, GetAgain,
        Published, PublishFails, subscriberVars, vars
  <2>. QED
    BY <1>2, <2>1, RowsStay
<1>6. gc'.now <= clock' /\ fetch'.now <= clock'
  <2>1. gc.now <= clock /\ fetch.now <= clock /\ clock <= clock'
    BY RowsStay DEF HandlersAreRight
  <2>2. gc.now \in Nat /\ fetch.now \in Nat /\ clock \in Nat /\ clock' \in Nat
    BY DEF TypeOK, Fetch
  <2>3. /\ gc'.now = gc.now \/ gc'.now = clock \/ gc'.now = 0
        /\ fetch'.now = fetch.now \/ fetch'.now = clock \/ fetch'.now = 0
    <3>1. CASE Collect
      BY <3>1 DEF Collect, GcStart, GcCoord, GcKilled, subscriberVars
    <3>2. CASE SelectDeltas
      <4>1. gc' = gc
        BY <3>2 DEF SelectDeltas
      <4>2. ASSUME NEW page, NEW last PROVE Answer(page, last).now = 0
        BY DEF Answer
      <4>3. [fetch EXCEPT !.phase = "reply", !.now = 0, !.since = 0].now = 0
        BY DEF TypeOK, Fetch
      <4>4. fetch'.now = 0
        BY <3>2, <4>2, <4>3, SelectFetches
      <4>. QED
        BY <4>1, <4>4
    <3>3. CASE BeginFetch
      BY <3>3 DEF BeginFetch, NoFetch
    <3>4. CASE Merge \/ FetchFails
      <4>1. gc' = gc /\ fetch' = NoFetch
        BY <3>4 DEF Merge, FetchFails
      <4>. QED
        BY <4>1 DEF NoFetch
    <3>5. CASE UNCHANGED <<gc, fetch>>
      BY <3>5
    <3>. QED
      BY <1>4, <3>1, <3>2, <3>3, <3>4, <3>5 DEF Next, Tick, Subscribe, subscriberVars, vars
  <2>. QED
    BY <2>1, <2>2, <2>3
<1>7. CASE \E w \in Workers : Publish(w)
  BY <1>3, <1>4, <1>6, <1>7 DEF HandlersAreRight, TryOf, Lives
<1>8. CASE UNCHANGED req
  BY <1>3, <1>5, <1>6, <1>8 DEF HandlersAreRight, TryOf, Lives
<1>. QED
  BY <1>7, <1>8 DEF Next, Tick, Subscribe, BeginFetch, SelectDeltas, Merge, FetchFails,
                    Collect, GcStart, GcCoord, GcKilled, vars

\* A publication answered with 201 keeps its row.
LEMMA PublishedStep ==
  ASSUME TypeOK, TypeOK', HandlersAreRight, HandlersAreRight', PublishedIsHeld,
         [Next]_vars
  PROVE  PublishedIsHeld'
<1>1. ASSUME NEW d \in published', Lives(d, tries', clock') PROVE deltas'[d] # None
  <2>1. CASE d \in published
    BY <1>1, <2>1, RowsStay DEF PublishedIsHeld, Lives, TypeOK
  <2>2. ASSUME NEW w \in Workers, Published(w), d = req[w].delta PROVE deltas'[d] # None
    BY <1>1, <2>2, RowsStay, AtWork DEF Published, HandlersAreRight, Lives
  <2>. QED
    BY <2>1, <2>2 DEF Next, Tick, Subscribe, BeginFetch, SelectDeltas, Merge, FetchFails,
      Collect, GcStart, GcCoord, GcKilled, Publish, BeginPublish, Get, Stamp, Insert,
      GetAgain, Published, PublishFails, subscriberVars, vars
<1>. QED
  BY <1>1 DEF PublishedIsHeld, HandlersAreRight, Lives, TypeOK

-----------------------------------------------------------------------------
(* The subscriber.                                                         *)

\* Row d of the table is one the subscriber should have once it is past `at'.
Due(d, at) == /\ deltas[d] # None /\ deltas[d].geohash = Shard[Home]
              /\ deltas[d].expires_at > clock /\ deltas[d].created_at <= at

\* What the subscriber has, or is known to miss.
Accounted == got \cup late \cup tied

\* A row inserted where the subscriber has looked is on record as late.
LEMMA InsertedIsLate ==
  ASSUME TypeOK, HandlersAreRight, NEW w \in Workers, Insert(w), NEW d \in Deltas,
         NEW at \in Nat, at <= cursor \/ at <= fetch.upto, Due(d, at)',
         d = req[w].delta, deltas[d] = None
  PROVE  d \in late'
<1>1. deltas'[d] = NewRow(req[w]) /\ req[w].created_at \in Nat
  BY AtWork DEF Insert, TypeOK
<1>2. req[w].created_at <= at
  BY <1>1 DEF Due, NewRow
<1>3. cursor \in Nat /\ fetch.upto \in Nat
  BY DEF TypeOK, Fetch
<1>4. ~Visible(req[w].created_at)
  BY <1>1, <1>2, <1>3 DEF Visible
<1>. QED
  BY <1>4 DEF Insert

\* A row is due after a step if it was due before, or has just become visible behind
\* the cursor, or behind the answer on its way.
LEMMA DueStep ==
  ASSUME TypeOK, HandlersAreRight, [Next]_vars, NEW d \in Deltas, NEW at \in Nat,
         at <= cursor \/ at <= fetch.upto, Due(d, at)'
  PROVE  Due(d, at) \/ d \in late'
<1>1. ASSUME NEW w \in Workers, Insert(w), d # req[w].delta \/ deltas[d] # None
      PROVE  deltas'[d] = deltas[d]
  BY <1>1 DEF Insert, TypeOK
<1>2. CASE deltas'[d] = deltas[d]
  <2>1. clock <= clock' /\ clock \in Nat
    BY RowsStay DEF TypeOK
  <2>2. deltas[d] # None => deltas[d] \in CoordDelta
    BY DEF TypeOK
  <2>3. clock' = clock \/ clock' = clock + 1
    BY DEF Next, Tick, Subscribe, BeginFetch, SelectDeltas, Merge, FetchFails, Collect,
           GcStart, GcCoord, GcKilled, Publish, BeginPublish, Get, Stamp, Insert,
           GetAgain, Published, PublishFails, subscriberVars, vars
  <2>. QED
    BY <1>2, <2>1, <2>2, <2>3 DEF Due, CoordDelta
<1>3. deltas'[d] # None
  BY DEF Due
<1>4. CASE GcCoord
  BY <1>2, <1>3, <1>4 DEF GcCoord, TypeOK
<1>. QED
  BY <1>1, <1>2, <1>4, InsertedIsLate
  DEF Next, Tick, Subscribe, BeginFetch, SelectDeltas, Merge, FetchFails, Collect,
      GcStart, GcKilled, Publish, BeginPublish, Get, Stamp, GetAgain, Published,
      PublishFails, subscriberVars, vars

\* A row leaves `late' only when it becomes visible where the subscriber will look.
LEMMA AccountedStep ==
  ASSUME TypeOK, HandlersAreRight, [Next]_vars, NEW d \in Accounted \cap Deltas, NEW at \in Nat,
         at <= cursor \/ at <= fetch.upto, Due(d, at)'
  PROVE  d \in Accounted'
<1>1. ASSUME NEW w \in Workers, Insert(w), d # req[w].delta \/ deltas[d] # None
      PROVE  d \in late => d \in late'
  BY <1>1 DEF Insert
<1>2. d \in got \cup tied => d \in got' \cup tied'
  BY DEF Next, Tick, Subscribe, BeginFetch, SelectDeltas, Merge, FetchFails, Collect,
         GcStart, GcCoord, GcKilled, Publish, BeginPublish, Get, Stamp, Insert,
         GetAgain, Published, PublishFails, subscriberVars, vars
<1>. QED
  BY <1>1, <1>2, InsertedIsLate
  DEF Accounted, Next, Tick, Subscribe, BeginFetch, SelectDeltas, Merge, FetchFails,
      Collect, GcStart, GcCoord, GcKilled, Publish, BeginPublish, Get, Stamp, GetAgain,
      Published, PublishFails, subscriberVars, vars

\* The answer on its way covers what is due up to its last row.
LEMMA PageStep ==
  ASSUME TypeOK, HandlersAreRight, NothingIsSkipped, PageIsRight, [Next]_vars
  PROVE  PageIsRight'
<1>. DEFINE Right(f) == \A d \in Deltas : Due(d, f.upto) => d \in Accounted \cup f.ids \cup f.cut
<1>. fetch \in Fetch /\ cursor \in Nat /\ clock \in Nat
  BY DEF TypeOK
<1>1. CASE BeginFetch
  BY <1>1 DEF BeginFetch, NoFetch, PageIsRight
<1>2. CASE Merge \/ FetchFails
  <2>1. fetch'.phase = "idle"
    BY <1>2 DEF Merge, FetchFails, NoFetch
  <2>. QED
    BY <2>1 DEF PageIsRight
<1>3. CASE SelectDeltas
  <2>0. /\ UNCHANGED <<clock, deltas, cursor, got, late, tied>>
        /\ fetch.phase = "select" /\ fetch.upto = 0 /\ fetch.since = cursor
        /\ fetch.now <= clock
    BY <1>3 DEF SelectDeltas, PageIsRight, HandlersAreRight
  <2>1. ASSUME NEW d \in Deltas, Due(d, cursor) PROVE d \in Accounted
    BY <2>1 DEF NothingIsSkipped, Due, Accounted
  <2>2. ASSUME NEW d \in Deltas, NEW at \in Nat, Due(d, at), ~Due(d, cursor)
        PROVE  d \in Found(fetch)
    BY <2>0, <2>2 DEF Due, Found, TypeOK, CoordDelta, Fetch
  <2>3. CASE Found(fetch) = {} /\ fetch' = [fetch EXCEPT !.phase = "reply", !.now = 0, !.since = 0]
    <3>1. fetch'.phase = "reply" /\ fetch'.upto = 0
      BY <2>0, <2>3 DEF Fetch
    <3>2. ASSUME NEW d \in Deltas, Due(d, 0) PROVE d \in Accounted
      BY <2>1, <2>2, <2>3, <3>2
    <3>. QED
      BY <2>0, <3>1, <3>2 DEF PageIsRight, Due, Accounted
  <2>4. ASSUME NEW page \in SUBSET Found(fetch), NEW last \in page,
               \A d \in page : ~Older(last, d),
               \A d \in page, f \in Found(fetch) \ page : ~Older(f, d),
               fetch' = Answer(page, last)
        PROVE  PageIsRight'
    <3>1. /\ fetch'.phase = "reply" /\ fetch'.upto = deltas[last].created_at
          /\ fetch'.ids = page
          /\ fetch'.cut = {d \in Found(fetch) \ page : ~Older(last, d) /\ ~Older(d, last)}
      BY <2>4 DEF Answer
    <3>2. deltas[last].created_at \in Nat
      BY FoundRows
    <3>3. ASSUME NEW d \in Deltas, Due(d, deltas[last].created_at)
          PROVE  d \in Accounted \cup fetch'.ids \cup fetch'.cut
      <4>1. CASE d \in Found(fetch) \ page
        <5>1. ~Older(d, last) /\ ~Older(last, d)
          BY <2>4, <3>2, <3>3, <4>1, FoundRows DEF Older, Due
        <5>. QED
          BY <3>1, <4>1, <5>1
      <4>. QED
        BY <2>1, <2>2, <3>1, <3>2, <3>3, <4>1
    <3>. QED
      BY <2>0, <3>1, <3>3 DEF PageIsRight, Due, Accounted
  <2>. QED
    BY <1>3, <2>3, <2>4, SelectFetches
<1>4. CASE UNCHANGED <<fetch, cursor>>
  <2>1. ASSUME NEW d \in Deltas, Due(d, fetch.upto)', fetch.phase = "reply"
        PROVE  d \in Accounted' \cup fetch.ids \cup fetch.cut
    <3>1. Due(d, fetch.upto) => d \in Accounted \cup fetch.ids \cup fetch.cut
      BY <2>1 DEF PageIsRight, Due, Accounted
    <3>2. fetch.upto \in Nat /\ fetch'.upto = fetch.upto
      BY <1>4 DEF Fetch
    <3>3. \A at \in Nat : at = fetch.upto => Due(d, at)'
      BY <1>4, <2>1 DEF Due
    <3>4. Due(d, fetch.upto) \/ d \in late'
      BY <3>2, <3>3, DueStep
    <3>5. d \in Accounted => d \in Accounted'
      BY <3>2, <3>3, AccountedStep
    <3>. QED
      BY <3>1, <3>4, <3>5 DEF Accounted
  <2>. QED
    BY <1>4, <2>1 DEF PageIsRight, Due, Accounted
<1>. QED
  BY <1>1, <1>2, <1>3, <1>4
  DEF Next, Tick, Subscribe, Collect, GcStart, GcCoord, GcKilled, Publish, BeginPublish, Get,
      Stamp, Insert, GetAgain, Published, PublishFails, subscriberVars, vars

\* The cursor moves with what is merged.
LEMMA SkipStep ==
  ASSUME TypeOK, HandlersAreRight, NothingIsSkipped, PageIsRight, [Next]_vars
  PROVE  NothingIsSkipped'
<1>. fetch \in Fetch /\ cursor \in Nat
  BY DEF TypeOK
<1>1. CASE Merge
  <2>1. /\ UNCHANGED <<clock, deltas, late>>
        /\ got' = got \cup fetch.ids /\ tied' = tied \cup fetch.cut
        /\ cursor' = IF fetch.upto > cursor THEN fetch.upto ELSE cursor
        /\ fetch.phase = "reply"
    BY <1>1 DEF Merge
  <2>. QED
    BY <2>1 DEF NothingIsSkipped, PageIsRight, Fetch
<1>2. CASE UNCHANGED cursor
  <2>1. ASSUME NEW d \in Deltas, Due(d, cursor)' PROVE d \in Accounted'
    <3>1. Due(d, cursor) => d \in Accounted
      BY DEF NothingIsSkipped, Due, Accounted
    <3>2. \A at \in Nat : at = cursor => Due(d, at)'
      BY <1>2, <2>1 DEF Due
    <3>3. Due(d, cursor) \/ d \in late'
      BY <3>2, DueStep
    <3>4. d \in Accounted => d \in Accounted'
      BY <3>2, AccountedStep
    <3>. QED
      BY <3>1, <3>3, <3>4 DEF Accounted
  <2>. QED
    BY <2>1 DEF NothingIsSkipped, Due, Accounted
<1>. QED
  BY <1>1, <1>2
  DEF Next, Tick, Subscribe, BeginFetch, SelectDeltas, FetchFails, Collect, GcStart, GcCoord,
      GcKilled, Publish, BeginPublish, Get, Stamp, Insert, GetAgain, Published, PublishFails,
      subscriberVars, vars

-----------------------------------------------------------------------------

LEMMA InvInit == Init => Inv
BY Shapes DEF Init, Inv, TypeOK, HandlersAreRight, PageIsRight, NothingIsSkipped,
              PublishedIsHeld, NoFetch, Idle

LEMMA InvStep == Inv /\ [Next]_vars => Inv'
<1>. SUFFICES ASSUME Inv, [Next]_vars PROVE Inv'
  OBVIOUS
<1>1. TypeOK'
  BY TypeStep DEF Inv
<1>2. HandlersAreRight'
  BY <1>1, HandlersStep DEF Inv
<1>3. PublishedIsHeld'
  BY <1>1, <1>2, PublishedStep DEF Inv
<1>4. PageIsRight' /\ NothingIsSkipped'
  BY PageStep, SkipStep DEF Inv
<1>. QED
  BY <1>1, <1>2, <1>3, <1>4 DEF Inv

\* The inductive invariant of publications, the subscriber and gc.
THEOREM InvHolds == Spec => []Inv
BY InvInit, InvStep, PTL DEF Spec

\* Behind its cursor a subscriber has every live row but the late and the tied ones.
THEOREM CursorSafe == Spec => []NothingIsSkipped
<1>1. Inv => NothingIsSkipped
  BY DEF Inv
<1>. QED
  BY <1>1, InvHolds, PTL

\* What was answered with 201 is stored until the earliest deadline asked for.
THEOREM PublicationsKept == Spec => []PublishedIsHeld
<1>1. Inv => PublishedIsHeld
  BY DEF Inv
<1>. QED
  BY <1>1, InvHolds, PTL
=============================================================================
