--------------------------------- MODULE Blobs ---------------------------------
(***************************************************************************)
(* The fragments of one transfer: their BlobFragment rows, their ciphertext*)
(* in the object store, and gc, which deletes rows.  Fragments of different*)
(* transfers never meet.                                                   *)
(*                                                                         *)
(* Row and ciphertext are two stores with nothing that spans them.  With S3*)
(* the client puts the ciphertext there itself and then says so; with the  *)
(* file store a handler reads the row, writes the file and updates the row.*)
(* Clients are honest: they send the one ciphertext of a fragment, and call*)
(* `complete' after S3 has answered.                                       *)
(***************************************************************************)
EXTENDS Naturals, FiniteSets

CONSTANTS
  Fragments,  \* the idx of the transfer's fragments
  Workers,    \* concurrent request handlers
  Pks,        \* primary keys of rows; one may serve again once forgotten
  MaxTtl,     \* the longest lifetime validate_ttl lets a client have
  MaxClock,   \* bound: the last instant of the model
  None        \* no row, no fragment, no key

ASSUME ClockAssumption == MaxTtl \in Nat /\ MaxClock \in Nat
ASSUME StoreAssumption == "none" \notin Workers /\ "whole" \notin Workers

VARIABLES
  clock,    \* timezone.now()
  presign,  \* is the store S3?  (settings, fixed while the server runs)
  rows,     \* rows[i]: the BlobFragment row of fragment i
  store,    \* store[i]: "none", "whole", or the worker that last truncated it
  req,      \* req[w]: the request worker w is serving
  gc,       \* the gc command: its next statement and its captured `now'
  urls,     \* fragments the client has a presigned PUT URL for
  sent,     \* fragments the client knows to be in S3
  doubled,  \* fragments whose file was opened by a PUT while in use
  served    \* what downloads have got

vars == <<clock, presign, rows, store, req, gc, urls, sent, doubled, served>>

Row == [pk : Pks, uploaded : BOOLEAN, ttl_expires_at : Nat]
ASSUME NoneAssumption == None \notin Row \cup Fragments \cup Pks

Contents == {"none", "whole"} \cup Workers

\* phase is the next statement, the rest the handler's local variables: register
\* has a deadline, upload a row's primary key.
Phases == {"idle", "register", "open", "write", "save", "read"}
Request == [phase : Phases, idx : Fragments \cup {None}, pk : Pks \cup {None},
            ttl_expires_at : Nat]
Idle == [phase |-> "idle", idx |-> None, pk |-> None, ttl_expires_at |-> 0]

TypeOK ==
  /\ clock \in Nat
  /\ presign \in BOOLEAN
  /\ rows \in [Fragments -> Row \cup {None}]
  /\ store \in [Fragments -> Contents]
  /\ req \in [Workers -> Request]
  /\ gc \in [pc : {"idle", "fragments"}, now : Nat]
  /\ urls \subseteq Fragments
  /\ sent \subseteq Fragments
  /\ doubled \subseteq Fragments
  /\ served \subseteq [idx : Fragments, whole : BOOLEAN]

Init ==
  /\ clock = 0
  /\ presign \in BOOLEAN
  /\ rows = [i \in Fragments |-> None]
  /\ store = [i \in Fragments |-> "none"]
  /\ req = [w \in Workers |-> Idle]
  /\ gc = [pc |-> "idle", now |-> 0]
  /\ urls = {}
  /\ sent = {}
  /\ doubled = {}
  /\ served = {}

Tick ==
  /\ clock < MaxClock
  /\ clock' = clock + 1
  /\ UNCHANGED <<presign, rows, store, req, gc, urls, sent, doubled, served>>

\* Worker w goes on to phase p, or is done.
Go(w, p) == req' = [req EXCEPT ![w].phase = p]
Done(w) == req' = [req EXCEPT ![w] = Idle]

-----------------------------------------------------------------------------
(* POST /v1/blobs/<transfer>/<idx>/register.                               *)

\* The deadline is computed before the row is touched.
BeginRegister(w, i, ttl) ==
  /\ req[w].phase = "idle"
  /\ req' = [req EXCEPT ![w] = [Idle EXCEPT !.phase = "register", !.idx = i,
                                !.ttl_expires_at = clock + ttl]]
  /\ UNCHANGED <<clock, presign, rows, store, gc, urls, sent, doubled, served>>

NewRowUploaded(pk, deadline) ==   \* mutant
  [pk |-> pk, uploaded |-> TRUE, ttl_expires_at |-> deadline]

NewRow(pk, deadline) == [pk |-> pk, uploaded |-> FALSE, ttl_expires_at |-> deadline]

\* Keys that no row and no handler remembers.
FreshPks == {pk \in Pks : /\ \A i \in Fragments : rows[i] = None \/ rows[i].pk # pk
                         /\ \A w \in Workers : req[w].pk # pk}

\* update_or_create: a transaction that locks the row it finds, and leaves its key
\* and `uploaded' alone.  The reply has a presigned URL, with S3.
RegisterRow(w) ==
  /\ req[w].phase = "register"
  /\ LET i == req[w].idx
         deadline == req[w].ttl_expires_at
     IN /\ IF rows[i] = None
           THEN \E pk \in FreshPks : rows' = [rows EXCEPT ![i] = NewRow(pk, deadline)]
           ELSE rows' = [rows EXCEPT ![i].ttl_expires_at = deadline]
        /\ urls' = IF presign THEN urls \cup {i} ELSE urls
  /\ Done(w)
  /\ UNCHANGED <<clock, presign, store, gc, sent, doubled, served>>

-----------------------------------------------------------------------------
(* Upload to S3: a PUT to the presigned URL, then POST .../complete.       *)

PutDirect(i) ==
  /\ i \in urls
  /\ store' = [store EXCEPT ![i] = "whole"]
  /\ sent' \in {sent, sent \cup {i}}   \* the answer may be lost
  /\ UNCHANGED <<clock, presign, rows, req, gc, urls, doubled, served>>

\* One UPDATE; 404 if there is no row.  That the bytes were sent is the client's word,
\* and its alone: the handler does not look at the store.
Complete(i) ==
  /\ i \in sent
  /\ rows[i] # None
  /\ rows' = [rows EXCEPT ![i].uploaded = TRUE]
  /\ UNCHANGED <<clock, presign, store, req, gc, urls, sent, doubled, served>>

-----------------------------------------------------------------------------
(* Upload to the file store: PUT .../upload.                               *)

\* BlobFragment.objects.get; without a row the answer is 404.
BeginUpload(w, i) ==
  /\ req[w].phase = "idle"
  /\ ~presign
  /\ rows[i] # None
  /\ req' = [req EXCEPT ![w] = [Idle EXCEPT !.phase = "open", !.idx = i,
                                            !.pk = rows[i].pk]]
  /\ UNCHANGED <<clock, presign, rows, store, gc, urls, sent, doubled, served>>

\* Somebody relies on the file of fragment i: it is offered, or a worker other than
\* w is writing it, has written it or is about to read it.
InUse(i, w) ==
  \/ rows[i] # None /\ rows[i].uploaded
  \/ \E v \in Workers \ {w} :
       req[v].idx = i /\ req[v].phase \in {"write", "save", "read"}

\* LocalStore.put: write_bytes opens the file, which truncates it, ...
OpenFile(w) ==
  /\ req[w].phase = "open"
  /\ LET i == req[w].idx
     IN /\ store' = [store EXCEPT ![i] = w]
        /\ doubled' = IF InUse(i, w) THEN doubled \cup {i} ELSE doubled
  /\ Go(w, "write")
  /\ UNCHANGED <<clock, presign, rows, gc, urls, sent, served>>

\* ... and writes.  If another worker has truncated it again meanwhile, what was
\* written before that is missing.
WriteFile(w) ==
  /\ req[w].phase = "write"
  /\ LET i == req[w].idx
     IN \/ store' = [store EXCEPT ![i] = "whole"]
        \/ store[i] \notin {w, "whole"} /\ UNCHANGED store
  /\ Go(w, "save")
  /\ UNCHANGED <<clock, presign, rows, gc, urls, sent, doubled, served>>

\* frag.save(update_fields=["uploaded"]), by primary key: if that row is gone, an
\* error.
SaveRow(w) ==
  /\ req[w].phase = "save"
  /\ LET i == req[w].idx
     IN IF rows[i] # None /\ rows[i].pk = req[w].pk
        THEN rows' = [rows EXCEPT ![i].uploaded = TRUE]
        ELSE UNCHANGED rows
  /\ Done(w)
  /\ UNCHANGED <<clock, presign, store, gc, urls, sent, doubled, served>>

-----------------------------------------------------------------------------
(* GET /v1/blobs/<transfer>/<idx>.  (The manifest only reads.)             *)

RegisteredFragments == {i \in Fragments : rows[i] # None}   \* mutant

\* What a download finds: rows that are uploaded, expired or not.
Available == {i \in Fragments : rows[i] # None /\ rows[i].uploaded}

BeginDownload(w, i) ==
  /\ req[w].phase = "idle"
  /\ i \in Available
  /\ req' = [req EXCEPT ![w] = [Idle EXCEPT !.phase = "read", !.idx = i]]
  /\ UNCHANGED <<clock, presign, rows, store, gc, urls, sent, doubled, served>>

\* The file is read, or the client follows the presigned URL.
Read(w) ==
  /\ req[w].phase = "read"
  /\ LET i == req[w].idx
     IN served' = served \cup {[idx |-> i, whole |-> (store[i] = "whole")]}
  /\ Done(w)
  /\ UNCHANGED <<clock, presign, rows, store, gc, urls, sent, doubled>>

-----------------------------------------------------------------------------
(* manage.py gc, its statement on fragments.                               *)

GcStart ==
  /\ gc.pc = "idle"
  /\ gc' = [pc |-> "fragments", now |-> clock]
  /\ UNCHANGED <<clock, presign, rows, store, req, urls, sent, doubled, served>>

ExpiredSoon(now) ==   \* mutant
  {i \in Fragments : rows[i] # None /\ rows[i].ttl_expires_at <= now + 1}

Expired(now) == {i \in Fragments : rows[i] # None /\ rows[i].ttl_expires_at <= now}

\* It deletes rows; what they stand for stays in the object store.
GcFragments ==
  /\ gc.pc = "fragments"
  /\ rows' = [i \in Fragments |-> IF i \in Expired(gc.now) THEN None ELSE rows[i]]
  /\ gc' = [pc |-> "idle", now |-> 0]
  /\ UNCHANGED <<clock, presign, store, req, urls, sent, doubled, served>>

GcKilled ==
  /\ gc.pc # "idle"
  /\ gc' = [pc |-> "idle", now |-> 0]
  /\ UNCHANGED <<clock, presign, rows, store, req, urls, sent, doubled, served>>

-----------------------------------------------------------------------------

\* A worker dies, or answers with an error, before its next statement.
Die(w) ==
  /\ req[w].phase # "idle"
  /\ Done(w)
  /\ UNCHANGED <<clock, presign, rows, store, gc, urls, sent, doubled, served>>

Serve(w) ==
  \/ \E i \in Fragments : \/ \E ttl \in 1..MaxTtl : BeginRegister(w, i, ttl)
                          \/ BeginUpload(w, i) \/ BeginDownload(w, i)
  \/ RegisterRow(w) \/ OpenFile(w) \/ WriteFile(w) \/ SaveRow(w) \/ Read(w)
  \/ Die(w)

Collect == GcStart \/ GcFragments \/ GcKilled

Next ==
  \/ Tick \/ Collect
  \/ \E w \in Workers : Serve(w)
  \/ \E i \in Fragments : PutDirect(i) \/ Complete(i)

Spec == Init /\ [][Next]_vars

-----------------------------------------------------------------------------

\* "uploaded flips true once the bytes are actually in the store", and they stay
\* there: what is offered can be read, unless its file was opened by a second PUT.
OfferedIsStored ==
  \A i \in Available : store[i] = "whole" \/ i \in doubled

\* What a download gets is the fragment, although row and bytes are read apart and
\* the row may be collected, registered and uploaded anew in between.
ServedIsWhole == \A s \in served : s.whole \/ s.idx \in doubled

\* With S3 there is no such exception.
NothingDoubledOnS3 == presign => doubled = {}

\* A fragment is not collected before the deadline that is in its row, and once it
\* is offered it is offered until then, however often it is registered again.
KeptUntilExpired ==
  [][\A i \in Fragments :
       rows[i] # None /\ rows[i].ttl_expires_at > clock =>
         rows'[i] # None /\ (rows[i].uploaded => rows'[i].uploaded)]_vars

\* What these rest on.  A worker knows its fragment; only the file store opens files;
\* a worker that has written or is about to read can rely on the file, unless ...
WorkersAreRight ==
  \A w \in Workers :
    LET q == req[w]
    IN /\ q.phase # "idle" => q.idx \in Fragments
       /\ q.phase \in {"open", "write", "save"} => ~presign
       /\ q.phase \in {"save", "read"} => store[q.idx] = "whole" \/ q.idx \in doubled
       /\ q.phase = "write" => store[q.idx] = w \/ q.idx \in doubled

SentIsStored ==
  /\ \A i \in sent : presign /\ store[i] = "whole"
  /\ urls # {} => presign
  /\ gc.now <= clock

Inv == /\ TypeOK /\ WorkersAreRight /\ SentIsStored /\ NothingDoubledOnS3
       /\ OfferedIsStored /\ ServedIsWhole
=============================================================================
