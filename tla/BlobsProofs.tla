------------------------------ MODULE BlobsProofs ------------------------------
(* Machine-checked theorems about Blobs, for every number of fragments and    *)
(* workers and for both stores.                                               *)
EXTENDS Blobs, TLAPS

LEMMA IdleIsRequest == Idle \in Request /\ Idle.phase = "idle"
BY DEF Idle, Request, Phases

\* What a step of worker w leaves alone.
Others(w) == \A v \in Workers \ {w} : req'[v] = req[v]

LEMMA GoTypes ==
  ASSUME TypeOK, NEW w \in Workers, NEW p \in Phases
  PROVE  /\ Go(w, p) => /\ req' \in [Workers -> Request] /\ Others(w)
                        /\ req'[w].phase = p /\ req'[w].idx = req[w].idx
         /\ Done(w) => /\ req' \in [Workers -> Request] /\ Others(w)
                       /\ req'[w].phase = "idle"
<1>1. /\ [req[w] EXCEPT !.phase = p] \in Request
      /\ [req[w] EXCEPT !.phase = p].phase = p
      /\ [req[w] EXCEPT !.phase = p].idx = req[w].idx
  BY DEF TypeOK, Request
<1>. QED
  BY <1>1, IdleIsRequest DEF Go, Done, TypeOK, Others

\* A handler of worker w begins.
LEMMA BeginTypes ==
  ASSUME TypeOK, NEW w \in Workers, NEW i \in Fragments
  PROVE  /\ \A ttl \in 1..MaxTtl : BeginRegister(w, i, ttl) =>
              /\ req' \in [Workers -> Request] /\ Others(w)
              /\ req'[w].phase = "register" /\ req'[w].idx = i
         /\ BeginUpload(w, i) =>
              /\ req' \in [Workers -> Request] /\ Others(w)
              /\ req'[w].phase = "open" /\ req'[w].idx = i
         /\ BeginDownload(w, i) =>
              /\ req' \in [Workers -> Request] /\ Others(w)
              /\ req'[w].phase = "read" /\ req'[w].idx = i
<1>1. ASSUME NEW ttl \in 1..MaxTtl, BeginRegister(w, i, ttl)
      PROVE  /\ req' \in [Workers -> Request] /\ Others(w)
             /\ req'[w].phase = "register" /\ req'[w].idx = i
  <2>1. [Idle EXCEPT !.phase = "register", !.idx = i,
                     !.ttl_expires_at = clock + ttl] \in Request
    <3> DEFINE deadline == clock + ttl
    <3>1. deadline \in Nat
      BY ClockAssumption DEF TypeOK
    <3> HIDE DEF deadline
    <3>2. [Idle EXCEPT !.phase = "register", !.idx = i, !.ttl_expires_at = deadline]
            \in Request
      BY <3>1 DEF Idle, Request, Phases
    <3>. QED
      BY <3>2 DEF deadline
  <2>. QED
    BY <1>1, <2>1 DEF BeginRegister, TypeOK, Others, Idle
<1>2. ASSUME BeginUpload(w, i)
      PROVE  /\ req' \in [Workers -> Request] /\ Others(w)
             /\ req'[w].phase = "open" /\ req'[w].idx = i
  <2>1. rows[i].pk \in Pks
    BY <1>2 DEF BeginUpload, TypeOK, Row
  <2>2. [Idle EXCEPT !.phase = "open", !.idx = i, !.pk = rows[i].pk] \in Request
    BY <2>1 DEF Idle, Request, Phases
  <2>. QED
    BY <1>2, <2>2 DEF BeginUpload, TypeOK, Others, Idle
<1>3. ASSUME BeginDownload(w, i)
      PROVE  /\ req' \in [Workers -> Request] /\ Others(w)
             /\ req'[w].phase = "read" /\ req'[w].idx = i
  <2>1. [Idle EXCEPT !.phase = "read", !.idx = i] \in Request
    BY DEF Idle, Request, Phases
  <2>. QED
    BY <1>3, <2>1 DEF BeginDownload, TypeOK, Others, Idle
<1>. QED
  BY <1>1, <1>2, <1>3

-----------------------------------------------------------------------------
(* Rows.                                                                    *)

LEMMA RegisterRows ==
  ASSUME TypeOK, WorkersAreRight, NEW w \in Workers, RegisterRow(w)
  PROVE  /\ rows' \in [Fragments -> Row \cup {None}]
         /\ \A i \in Fragments :
              /\ rows[i] # None => /\ rows'[i] # None
                                   /\ rows'[i].uploaded = rows[i].uploaded
              /\ i \in Available' => i \in Available
<1> DEFINE j == req[w].idx
<1> DEFINE deadline == req[w].ttl_expires_at
<1>1. j \in Fragments /\ deadline \in Nat
  BY DEF RegisterRow, WorkersAreRight, TypeOK, Request
<1>2. CASE rows[j] = None
  <2>1. PICK pk \in FreshPks : rows' = [rows EXCEPT ![j] = NewRow(pk, deadline)]
    BY <1>2 DEF RegisterRow
  <2>2. pk \in Pks
    BY DEF FreshPks
  <2>3. NewRow(pk, deadline) \in Row /\ ~NewRow(pk, deadline).uploaded
    BY <1>1, <2>2 DEF NewRow, Row
  <2>. QED
    BY <1>1, <1>2, <2>1, <2>3 DEF TypeOK, Available
<1>3. CASE rows[j] # None
  <2>1. rows' = [rows EXCEPT ![j].ttl_expires_at = deadline]
    BY <1>3 DEF RegisterRow
  <2>2. rows[j] \in Row
    BY <1>1, <1>3 DEF TypeOK
  <2>3. /\ [rows[j] EXCEPT !.ttl_expires_at = deadline] \in Row
        /\ [rows[j] EXCEPT !.ttl_expires_at = deadline].uploaded = rows[j].uploaded
    BY <1>1, <2>2 DEF Row
  <2>4. [rows[j] EXCEPT !.ttl_expires_at = deadline] # None
    BY <2>3, NoneAssumption
  <2>. QED
    BY <1>1, <1>3, <2>1, <2>3, <2>4 DEF TypeOK, Available
<1>. QED
  BY <1>2, <1>3

LEMMA MarkRows ==
  ASSUME TypeOK, NEW j \in Fragments, rows[j] # None,
         rows' = [rows EXCEPT ![j].uploaded = TRUE]
  PROVE  /\ rows' \in [Fragments -> Row \cup {None}]
         /\ \A i \in Fragments :
              /\ rows[i] # None => /\ rows'[i] # None
                                   /\ rows[i].uploaded => rows'[i].uploaded
              /\ i \in Available' => i \in Available \/ i = j
<1>1. rows[j] \in Row
  BY DEF TypeOK
<1>2. /\ [rows[j] EXCEPT !.uploaded = TRUE] \in Row
      /\ [rows[j] EXCEPT !.uploaded = TRUE].uploaded
  BY <1>1 DEF Row
<1>3. [rows[j] EXCEPT !.uploaded = TRUE] # None
  BY <1>2, NoneAssumption
<1>. QED
  BY <1>2, <1>3 DEF TypeOK, Available

-----------------------------------------------------------------------------
(* The invariant.                                                           *)

\* What worker w relies on.
Right(w) ==
  /\ req[w].phase # "idle" => req[w].idx \in Fragments
  /\ req[w].phase \in {"open", "write", "save"} => ~presign
  /\ req[w].phase \in {"save", "read"} =>
       store[req[w].idx] = "whole" \/ req[w].idx \in doubled
  /\ req[w].phase = "write" => store[req[w].idx] = w \/ req[w].idx \in doubled

LEMMA RightParts == WorkersAreRight <=> \A w \in Workers : Right(w)
BY DEF WorkersAreRight, Right

\* A step that leaves files alone: what others rely on stays.
LEMMA FilesStay ==
  ASSUME WorkersAreRight, NEW w \in Workers, Others(w), Right(w)',
         UNCHANGED <<presign, store, doubled>>
  PROVE  WorkersAreRight'
BY RightParts DEF Others, Right, WorkersAreRight

LEMMA WorkerStep ==
  ASSUME Inv, NEW w \in Workers, Serve(w)
  PROVE  Inv'
<1>t. TypeOK /\ WorkersAreRight /\ Right(w) /\ req[w] \in Request
  BY RightParts DEF Inv, TypeOK
<1>i. SentIsStored /\ NothingDoubledOnS3 /\ OfferedIsStored /\ ServedIsWhole
  BY DEF Inv
\* Nothing but the requests and the rows changes, and no fragment becomes available.
<1>q. ASSUME req' \in [Workers -> Request], Others(w), Right(w)',
             rows' \in [Fragments -> Row \cup {None}], Available' \subseteq Available,
             UNCHANGED <<clock, presign, store, gc, urls, sent, doubled, served>>
      PROVE  Inv'
  <2>1. TypeOK'
    BY <1>t, <1>q DEF TypeOK
  <2>2. WorkersAreRight'
    BY <1>t, <1>q, FilesStay
  <2>3. (SentIsStored /\ NothingDoubledOnS3 /\ OfferedIsStored /\ ServedIsWhole)'
    BY <1>i, <1>q
    DEF SentIsStored, NothingDoubledOnS3, OfferedIsStored, ServedIsWhole
  <2>. QED
    BY <2>1, <2>2, <2>3 DEF Inv
<1>a. (rows' = rows) => /\ rows' \in [Fragments -> Row \cup {None}]
                        /\ Available' \subseteq Available
  BY <1>t DEF TypeOK, Available
<1>1. ASSUME NEW i \in Fragments, NEW ttl \in 1..MaxTtl, BeginRegister(w, i, ttl)
      PROVE  Inv'
  <2>1. /\ req' \in [Workers -> Request] /\ Others(w)
        /\ req'[w].phase = "register" /\ req'[w].idx = i
    BY <1>1, <1>t, BeginTypes
  <2>. QED
    BY <1>1, <1>q, <1>a, <2>1 DEF BeginRegister, Right
<1>2. ASSUME NEW i \in Fragments, BeginUpload(w, i) PROVE Inv'
  <2>1. /\ req' \in [Workers -> Request] /\ Others(w)
        /\ req'[w].phase = "open" /\ req'[w].idx = i
    BY <1>2, <1>t, BeginTypes
  <2>. QED
    BY <1>2, <1>q, <1>a, <2>1 DEF BeginUpload, Right
<1>3. ASSUME NEW i \in Fragments, BeginDownload(w, i) PROVE Inv'
  <2>1. /\ req' \in [Workers -> Request] /\ Others(w)
        /\ req'[w].phase = "read" /\ req'[w].idx = i
    BY <1>3, <1>t, BeginTypes
  <2>2. store[i] = "whole" \/ i \in doubled
    BY <1>3, <1>i DEF BeginDownload, OfferedIsStored
  <2>. QED
    BY <1>3, <1>q, <1>a, <2>1, <2>2 DEF BeginDownload, Right
<1>4. CASE RegisterRow(w)
  <2>1. /\ req' \in [Workers -> Request] /\ Others(w) /\ req'[w].phase = "idle"
    BY <1>4, <1>t, GoTypes DEF RegisterRow, Phases
  <2>2. /\ rows' \in [Fragments -> Row \cup {None}] /\ Available' \subseteq Available
    BY <1>4, <1>t, RegisterRows DEF Available
  <2>3. /\ urls' \subseteq Fragments
        /\ urls' # {} => presign
        /\ UNCHANGED <<clock, presign, store, gc, sent, doubled, served>>
    BY <1>4, <1>t, <1>i DEF RegisterRow, TypeOK, Right, SentIsStored
  <2>4. TypeOK'
    BY <1>t, <2>1, <2>2, <2>3 DEF TypeOK
  <2>5. WorkersAreRight'
    BY <1>t, <2>1, <2>3, FilesStay DEF Right
  <2>6. (SentIsStored /\ NothingDoubledOnS3 /\ OfferedIsStored /\ ServedIsWhole)'
    BY <1>i, <2>2, <2>3
    DEF SentIsStored, NothingDoubledOnS3, OfferedIsStored, ServedIsWhole
  <2>. QED
    BY <2>4, <2>5, <2>6 DEF Inv
<1>5. CASE OpenFile(w)
  <2> DEFINE i == req[w].idx
  <2>1. /\ i \in Fragments /\ ~presign /\ req[w].phase = "open"
        /\ store' = [store EXCEPT ![i] = w]
        /\ doubled' = IF InUse(i, w) THEN doubled \cup {i} ELSE doubled
        /\ UNCHANGED <<clock, presign, rows, gc, urls, sent, served>>
    BY <1>5, <1>t DEF OpenFile, Right
  <2>2. /\ req' \in [Workers -> Request] /\ Others(w)
        /\ req'[w].phase = "write" /\ req'[w].idx = i
    BY <1>5, <1>t, GoTypes DEF OpenFile, Phases
  <2> HIDE DEF i
  <2>3. store' \in [Fragments -> Contents] /\ store'[i] = w
        /\ \A j \in Fragments \ {i} : store'[j] = store[j]
    BY <1>t, <2>1 DEF TypeOK, Contents
  <2>4. doubled \subseteq doubled' /\ doubled' \subseteq Fragments
    BY <1>t, <2>1 DEF TypeOK
  <2>5. TypeOK'
    BY <1>t, <2>1, <2>2, <2>3, <2>4 DEF TypeOK
  <2>6. Right(w)'
    BY <2>1, <2>2, <2>3 DEF Right
  <2>7. ASSUME NEW v \in Workers \ {w} PROVE Right(v)'
    <3>1. req'[v] = req[v] /\ Right(v)
      BY <1>t, <2>2, RightParts DEF Others
    <3>2. CASE req[v].idx = i /\ req[v].phase \in {"write", "save", "read"}
      <4>1. i \in doubled'
        BY <2>1, <3>2 DEF InUse
      <4>. QED
        BY <2>1, <3>1, <3>2, <4>1 DEF Right
    <3>3. CASE req[v].idx # i \/ req[v].phase \notin {"write", "save", "read"}
      BY <2>1, <2>3, <2>4, <3>1, <3>3 DEF Right
    <3>. QED
      BY <3>2, <3>3
  <2>8. WorkersAreRight'
    BY <2>6, <2>7 DEF Right, WorkersAreRight
  <2>9. OfferedIsStored'
    <3>1. i \in Available => i \in doubled'
      BY <2>1 DEF InUse, Available
    <3>. QED
      BY <1>i, <2>1, <2>3, <2>4, <3>1 DEF OfferedIsStored, Available
  <2>10. (SentIsStored /\ NothingDoubledOnS3 /\ ServedIsWhole)'
    BY <1>i, <2>1, <2>4 DEF SentIsStored, NothingDoubledOnS3, ServedIsWhole
  <2>. QED
    BY <2>5, <2>8, <2>9, <2>10 DEF Inv
<1>6. CASE WriteFile(w)
  <2> DEFINE i == req[w].idx
  <2>1. /\ i \in Fragments /\ ~presign
        /\ store[i] = w \/ i \in doubled
        /\ \/ store' = [store EXCEPT ![i] = "whole"]
           \/ store[i] \notin {w, "whole"} /\ store' = store
        /\ UNCHANGED <<clock, presign, rows, gc, urls, sent, doubled, served>>
    BY <1>6, <1>t DEF WriteFile, Right
  <2>2. /\ req' \in [Workers -> Request] /\ Others(w)
        /\ req'[w].phase = "save" /\ req'[w].idx = i
    BY <1>6, <1>t, GoTypes DEF WriteFile, Phases
  <2> HIDE DEF i
  <2>3. /\ store' \in [Fragments -> Contents]
        /\ store'[i] = "whole" \/ i \in doubled
        /\ \A j \in Fragments : store'[j] = store[j] \/ store'[j] = "whole"
        /\ \A j \in Fragments \ {i} : store'[j] = store[j]
    BY <1>t, <2>1 DEF TypeOK, Contents
  <2>4. TypeOK'
    BY <1>t, <2>1, <2>2, <2>3 DEF TypeOK
  <2>5. Right(w)'
    BY <2>1, <2>2, <2>3 DEF Right
  <2>6. ASSUME NEW v \in Workers \ {w} PROVE Right(v)'
    <3>1. req'[v] = req[v] /\ Right(v)
      BY <1>t, <2>2, RightParts DEF Others
    <3>2. CASE req[v].phase = "write" /\ req[v].idx = i
      <4>1. i \in doubled
        BY <2>1, <3>1, <3>2 DEF Right
      <4>. QED
        BY <2>1, <3>1, <3>2, <4>1 DEF Right
    <3>3. CASE req[v].phase # "write" \/ req[v].idx # i
      BY <2>1, <2>3, <3>1, <3>3 DEF Right
    <3>. QED
      BY <3>2, <3>3
  <2>7. WorkersAreRight'
    BY <2>5, <2>6 DEF Right, WorkersAreRight
  <2>8. (SentIsStored /\ NothingDoubledOnS3 /\ OfferedIsStored /\ ServedIsWhole)'
    BY <1>i, <1>t, <2>1, <2>3
    DEF SentIsStored, NothingDoubledOnS3, OfferedIsStored, ServedIsWhole, Available,
        TypeOK
  <2>. QED
    BY <2>4, <2>7, <2>8 DEF Inv
<1>7. CASE SaveRow(w)
  <2> DEFINE i == req[w].idx
  <2>1. /\ i \in Fragments
        /\ store[i] = "whole" \/ i \in doubled
        /\ UNCHANGED <<clock, presign, store, gc, urls, sent, doubled, served>>
    BY <1>7, <1>t DEF SaveRow, Right
  <2>2. /\ req' \in [Workers -> Request] /\ Others(w) /\ req'[w].phase = "idle"
    BY <1>7, <1>t, GoTypes DEF SaveRow, Phases
  <2>3. CASE rows' = rows
    BY <1>q, <1>a, <2>1, <2>2, <2>3 DEF Right
  <2>4. CASE rows' # rows
    <3>1. rows[i] # None /\ rows' = [rows EXCEPT ![i].uploaded = TRUE]
      BY <1>7, <2>4 DEF SaveRow
    <3> HIDE DEF i
    <3>2. /\ rows' \in [Fragments -> Row \cup {None}]
          /\ \A j \in Fragments : j \in Available' => j \in Available \/ j = i
      BY <1>t, <2>1, <3>1, MarkRows
    <3>3. TypeOK'
      BY <1>t, <2>1, <2>2, <3>2 DEF TypeOK
    <3>4. WorkersAreRight'
      BY <1>t, <2>1, <2>2, FilesStay DEF Right
    <3>5. OfferedIsStored'
      BY <1>i, <2>1, <3>2 DEF OfferedIsStored, Available
    <3>6. (SentIsStored /\ NothingDoubledOnS3 /\ ServedIsWhole)'
      BY <1>i, <2>1 DEF SentIsStored, NothingDoubledOnS3, ServedIsWhole
    <3>. QED
      BY <3>3, <3>4, <3>5, <3>6 DEF Inv
  <2>. QED
    BY <2>3, <2>4
<1>8. CASE Read(w)
  <2> DEFINE i == req[w].idx
  <2>1. /\ i \in Fragments
        /\ store[i] = "whole" \/ i \in doubled
        /\ served' = served \cup {[idx |-> i, whole |-> (store[i] = "whole")]}
        /\ UNCHANGED <<clock, presign, rows, store, gc, urls, sent, doubled>>
    BY <1>8, <1>t DEF Read, Right
  <2>2. /\ req' \in [Workers -> Request] /\ Others(w) /\ req'[w].phase = "idle"
    BY <1>8, <1>t, GoTypes DEF Read, Phases
  <2> HIDE DEF i
  <2>3. TypeOK'
    <3>1. [idx |-> i, whole |-> (store[i] = "whole")] \in [idx : Fragments, whole : BOOLEAN]
      BY <2>1
    <3>. QED
      BY <1>t, <2>1, <2>2, <3>1 DEF TypeOK
  <2>4. WorkersAreRight'
    BY <1>t, <2>1, <2>2, FilesStay DEF Right
  <2>5. ServedIsWhole'
    <3>1. ASSUME NEW s \in served', s \notin served
          PROVE  s.whole \/ s.idx \in doubled
      <4>1. s = [idx |-> i, whole |-> (store[i] = "whole")]
        BY <2>1, <3>1
      <4>2. s.idx = i /\ s.whole = (store[i] = "whole")
        BY <4>1, Zenon
      <4>3. CASE store[i] = "whole"
        BY <4>2, <4>3, Zenon
      <4>4. CASE i \in doubled
        BY <4>2, <4>4
      <4>. QED
        BY <2>1, <4>3, <4>4
    <3>2. \A s \in served : s.whole \/ s.idx \in doubled
      BY <1>i DEF ServedIsWhole
    <3>. QED
      BY <2>1, <3>1, <3>2, Zenon DEF ServedIsWhole
  <2>6. (SentIsStored /\ NothingDoubledOnS3 /\ OfferedIsStored)'
    BY <1>i, <2>1 DEF SentIsStored, NothingDoubledOnS3, OfferedIsStored, Available
  <2>. QED
    BY <2>3, <2>4, <2>5, <2>6 DEF Inv
<1>9. CASE Die(w)
  <2>1. /\ req' \in [Workers -> Request] /\ Others(w) /\ req'[w].phase = "idle"
    BY <1>9, <1>t, GoTypes DEF Die, Phases
  <2>. QED
    BY <1>9, <1>q, <1>a, <2>1 DEF Die, Right
<1>. QED
  BY <1>1, <1>2, <1>3, <1>4, <1>5, <1>6, <1>7, <1>8, <1>9 DEF Serve

LEMMA InvInit == Init => Inv
<1>. SUFFICES ASSUME Init PROVE Inv
  OBVIOUS
<1>1. \A w \in Workers : req[w].phase = "idle"
  BY IdleIsRequest DEF Init
<1>2. TypeOK
  BY IdleIsRequest DEF Init, TypeOK, Contents
<1>3. WorkersAreRight
  BY <1>1 DEF WorkersAreRight
<1>4. SentIsStored /\ NothingDoubledOnS3 /\ OfferedIsStored /\ ServedIsWhole
  BY DEF Init, SentIsStored, NothingDoubledOnS3, OfferedIsStored, ServedIsWhole, Available
<1>. QED
  BY <1>2, <1>3, <1>4 DEF Inv

\* What neither a worker nor a client does to the rows: gc only removes some.
LEMMA GcRows ==
  ASSUME TypeOK, GcFragments
  PROVE  /\ rows' \in [Fragments -> Row \cup {None}]
         /\ Available' \subseteq Available
         /\ \A i \in Fragments : rows[i] # None /\ rows[i].ttl_expires_at > gc.now =>
              rows'[i] = rows[i]
<1>1. \A i \in Fragments : rows'[i] = rows[i] \/ rows'[i] = None
  BY DEF GcFragments
<1>2. rows' \in [Fragments -> Row \cup {None}]
  BY <1>1 DEF GcFragments, TypeOK
<1>3. ASSUME NEW i \in Fragments, rows[i] # None, rows[i].ttl_expires_at > gc.now
      PROVE  rows'[i] = rows[i]
  <2>1. rows[i].ttl_expires_at \in Nat /\ gc.now \in Nat
    BY <1>3 DEF TypeOK, Row
  <2>2. i \notin Expired(gc.now)
    BY <1>3, <2>1 DEF Expired
  <2>. QED
    BY <2>2 DEF GcFragments
<1>. QED
  BY <1>1, <1>2, <1>3 DEF Available

LEMMA InvStep == Inv /\ [Next]_vars => Inv'
<1>. SUFFICES ASSUME Inv, [Next]_vars PROVE Inv'
  OBVIOUS
<1>t. TypeOK /\ WorkersAreRight /\ SentIsStored /\ NothingDoubledOnS3
      /\ OfferedIsStored /\ ServedIsWhole
  BY DEF Inv
<1>1. CASE Tick
  <2>1. TypeOK'
    BY <1>1, <1>t, ClockAssumption DEF Tick, TypeOK
  <2>2. gc'.now <= clock'
    BY <1>1, <1>t DEF Tick, TypeOK, SentIsStored
  <2>. QED
    BY <1>1, <1>t, <2>1, <2>2
    DEF Tick, Inv, WorkersAreRight, SentIsStored, NothingDoubledOnS3, OfferedIsStored,
        ServedIsWhole, Available
<1>2. CASE Collect
  <2>1. gc' \in [pc : {"idle", "fragments"}, now : Nat] /\ gc'.now <= clock
    BY <1>2, <1>t DEF Collect, GcStart, GcFragments, GcKilled, TypeOK
  <2>2. rows' \in [Fragments -> Row \cup {None}] /\ Available' \subseteq Available
    BY <1>2, <1>t, GcRows DEF Collect, GcStart, GcKilled, TypeOK, Available
  <2>3. UNCHANGED <<clock, presign, store, req, urls, sent, doubled, served>>
    BY <1>2 DEF Collect, GcStart, GcFragments, GcKilled
  <2>4. TypeOK'
    BY <1>t, <2>1, <2>2, <2>3 DEF TypeOK
  <2>. QED
    BY <1>t, <2>1, <2>2, <2>3, <2>4
    DEF Inv, WorkersAreRight, SentIsStored, NothingDoubledOnS3, OfferedIsStored,
        ServedIsWhole
<1>3. ASSUME NEW w \in Workers, Serve(w) PROVE Inv'
  BY <1>3, WorkerStep
<1>4. ASSUME NEW i \in Fragments, PutDirect(i) PROVE Inv'
  <2>1. presign /\ sent' \subseteq sent \cup {i}
        /\ store' = [store EXCEPT ![i] = "whole"]
        /\ UNCHANGED <<clock, presign, rows, req, gc, urls, doubled, served>>
    BY <1>4, <1>t DEF PutDirect, SentIsStored
  <2>2. /\ store' \in [Fragments -> Contents]
        /\ store'[i] = "whole" /\ \A j \in Fragments \ {i} : store'[j] = store[j]
    BY <1>t, <2>1 DEF TypeOK, Contents
  <2>3. TypeOK'
    BY <1>t, <2>1, <2>2 DEF TypeOK
  <2>4. \A w \in Workers : Right(w)'
    BY <1>t, <2>1, <2>2 DEF Right, WorkersAreRight
  <2>5. WorkersAreRight'
    BY <2>4 DEF Right, WorkersAreRight
  <2>6. SentIsStored'
    BY <1>t, <2>1, <2>2 DEF SentIsStored, TypeOK
  <2>7. (NothingDoubledOnS3 /\ OfferedIsStored /\ ServedIsWhole)'
    BY <1>t, <2>1, <2>2
    DEF NothingDoubledOnS3, OfferedIsStored, ServedIsWhole, Available
  <2>. QED
    BY <2>3, <2>5, <2>6, <2>7 DEF Inv
<1>5. ASSUME NEW i \in Fragments, Complete(i) PROVE Inv'
  <2>1. store[i] = "whole"
        /\ UNCHANGED <<clock, presign, store, req, gc, urls, sent, doubled, served>>
    BY <1>5, <1>t DEF Complete, SentIsStored
  <2>2. /\ rows' \in [Fragments -> Row \cup {None}]
        /\ \A j \in Fragments : j \in Available' => j \in Available \/ j = i
    BY <1>5, <1>t, MarkRows DEF Complete
  <2>3. TypeOK'
    BY <1>t, <2>1, <2>2 DEF TypeOK
  <2>4. OfferedIsStored'
    BY <1>t, <2>1, <2>2 DEF OfferedIsStored, Available
  <2>. QED
    BY <1>t, <2>1, <2>3, <2>4
    DEF Inv, WorkersAreRight, SentIsStored, NothingDoubledOnS3, ServedIsWhole
<1>6. CASE UNCHANGED vars
  BY <1>6, <1>t
  DEF vars, Inv, TypeOK, WorkersAreRight, SentIsStored, NothingDoubledOnS3,
      OfferedIsStored, ServedIsWhole, Available
<1>. QED
  BY <1>1, <1>2, <1>3, <1>4, <1>5, <1>6 DEF Next

\* The invariant holds for both stores, whichever handlers overlap, die or repeat.
THEOREM InvHolds == Spec => []Inv
BY InvInit, InvStep, PTL DEF Spec

\* What is offered is stored, and what is served is the fragment, with no exception
\* on S3.
THEOREM FragmentsSafe ==
  Spec => [](OfferedIsStored /\ ServedIsWhole /\ NothingDoubledOnS3)
<1>1. Inv => OfferedIsStored /\ ServedIsWhole /\ NothingDoubledOnS3
  BY DEF Inv
<1>. QED
  BY <1>1, InvHolds, PTL

\* What a download has been served is the whole fragment.
THEOREM ServesWhole == Spec => []ServedIsWhole
<1>1. Inv => ServedIsWhole
  BY DEF Inv
<1>. QED
  BY <1>1, InvHolds, PTL

\* What a step does to a row that has not expired.
Keeps(i) ==
  rows[i] # None /\ rows[i].ttl_expires_at > clock =>
    rows'[i] # None /\ (rows[i].uploaded => rows'[i].uploaded)

LEMMA KeepStep ==
  ASSUME Inv, [Next]_vars, NEW i \in Fragments
  PROVE  Keeps(i)
<1>t. TypeOK /\ WorkersAreRight /\ gc.now <= clock
  BY DEF Inv, SentIsStored
<1>1. ASSUME rows' = rows PROVE Keeps(i)
  BY <1>1 DEF Keeps
<1>2. CASE Tick \/ UNCHANGED vars
  BY <1>1, <1>2 DEF Tick, vars
<1>3. CASE Collect
  <2>1. CASE GcFragments
    <3>1. SUFFICES ASSUME rows[i] # None, rows[i].ttl_expires_at > clock
                   PROVE  rows'[i] = rows[i]
      BY DEF Keeps
    <3>2. rows[i].ttl_expires_at \in Nat /\ clock \in Nat /\ gc.now \in Nat
      BY <1>t, <3>1 DEF TypeOK, Row
    <3>3. rows[i].ttl_expires_at > gc.now
      BY <1>t, <3>1, <3>2
    <3>. QED
      BY <1>t, <2>1, <3>1, <3>3, GcRows
  <2>2. CASE GcStart \/ GcKilled
    BY <1>1, <2>2 DEF GcStart, GcKilled
  <2>. QED
    BY <1>3, <2>1, <2>2 DEF Collect
<1>4. ASSUME NEW w \in Workers, Serve(w) PROVE Keeps(i)
  <2>1. CASE RegisterRow(w)
    BY <1>t, <2>1, RegisterRows DEF Keeps
  <2>2. CASE SaveRow(w)
    <3>1. CASE rows' = rows
      BY <1>1, <3>1
    <3>2. CASE rows' # rows
      <4> DEFINE j == req[w].idx
      <4>1. /\ j \in Fragments /\ rows[j] # None
            /\ rows' = [rows EXCEPT ![j].uploaded = TRUE]
        BY <1>t, <2>2, <3>2 DEF SaveRow, WorkersAreRight
      <4> HIDE DEF j
      <4>. QED
        BY <1>t, <4>1, MarkRows DEF Keeps
    <3>. QED
      BY <3>1, <3>2
  <2>3. ASSUME ~RegisterRow(w), ~SaveRow(w) PROVE rows' = rows
    BY <1>4, <2>3
    DEF Serve, BeginRegister, BeginUpload, BeginDownload, OpenFile, WriteFile, Read, Die
  <2>. QED
    BY <1>1, <2>1, <2>2, <2>3
<1>5. ASSUME NEW j \in Fragments, PutDirect(j) \/ Complete(j) PROVE Keeps(i)
  <2>1. CASE PutDirect(j)
    BY <1>1, <2>1 DEF PutDirect
  <2>2. CASE Complete(j)
    BY <1>t, <2>2, MarkRows DEF Complete, Keeps
  <2>. QED
    BY <1>5, <2>1, <2>2
<1>. QED
  BY <1>2, <1>3, <1>4, <1>5 DEF Next

\* No step removes a fragment before its deadline, or withdraws one that is offered.
THEOREM NothingIsWithdrawn == Spec => KeptUntilExpired
<1>1. Inv /\ [Next]_vars =>
        [\A i \in Fragments :
           rows[i] # None /\ rows[i].ttl_expires_at > clock =>
             rows'[i] # None /\ (rows[i].uploaded => rows'[i].uploaded)]_vars
  BY KeepStep DEF Keeps
<1>. QED
  BY <1>1, InvHolds, PTL DEF Spec, KeptUntilExpired
=============================================================================
