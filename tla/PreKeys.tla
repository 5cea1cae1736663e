-------------------------------- MODULE PreKeys --------------------------------
(***************************************************************************)
(* The prekey bundle of one identity (rows of different identities never   *)
(* meet): its owner uploads or replaces it (POST /v1/prekeys), peers fetch *)
(* it and take one one-time prekey each (GET /v1/prekeys/<mailbox_id>).    *)
(*                                                                         *)
(* Both handlers read the row under a row lock that they hold until their  *)
(* transaction commits: select_for_update in fetch, and in upload the one  *)
(* Django's update_or_create takes.  An owner that has missed the answer to*)
(* an upload sends the same body again.                                    *)
(***************************************************************************)
EXTENDS Naturals, FiniteSets

CONSTANTS
  Gens,      \* generations of key material; one signed prekey each
  Keys,      \* one-time prekeys
  PoolOf,    \* PoolOf[g]: the one-time prekeys generated with signed prekey g
  Workers,   \* concurrent request handlers
  NoOne,     \* nobody holds the row lock
  Resends    \* bound: how often an upload is sent again

ASSUME PoolsAssumption ==
  /\ PoolOf \in [Gens -> SUBSET Keys]
  /\ \A g, h \in Gens : g # h => PoolOf[g] \cap PoolOf[h] = {}

ASSUME NamesAssumption ==
  NoOne \notin Workers /\ IsFiniteSet(Workers) /\ Gens # {} /\ Resends \in Nat

VARIABLES
  exists,  \* is there a PreKeyBundle row
  bundle,  \* the row: its signed prekey and its pool
  lock,    \* the worker that holds the row lock
  req,     \* req[w]: what worker w is doing, with its copy of the row
  sends,   \* sends[g]: how often generation g has been sent
  given,   \* given[k]: how many callers have been given key k
  replies  \* the pairs of signed and one-time prekey callers have been given

vars == <<exists, bundle, lock, req, sends, given, replies>>

Bundle == [signed : Gens, pool : SUBSET Keys]
Request == [phase : {"idle", "upload", "uploadSave", "fetchSave"},
            copy : Bundle]

Generation(g) == [signed |-> g, pool |-> PoolOf[g]]
AnyGen == CHOOSE g \in Gens : TRUE
Idle == [phase |-> "idle", copy |-> Generation(AnyGen)]

TypeOK ==
  /\ exists \in BOOLEAN
  /\ bundle \in Bundle
  /\ lock \in Workers \cup {NoOne}
  /\ req \in [Workers -> Request]
  /\ sends \in [Gens -> Nat]
  /\ given \in [Keys -> Nat]
  /\ replies \subseteq [signed : Gens, key : Keys]

Init ==
  /\ exists = FALSE
  /\ bundle = Generation(AnyGen)   \* no row yet: the value is never read
  /\ lock = NoOne
  /\ req = [w \in Workers |-> Idle]
  /\ sends = [g \in Gens |-> 0]
  /\ given = [k \in Keys |-> 0]
  /\ replies = {}

-----------------------------------------------------------------------------
(* POST /v1/prekeys.                                                       *)

\* The owner has made generation g, or has had no answer to it yet.
BeginUpload(w, g) ==
  /\ req[w].phase = "idle"
  /\ sends[g] <= Resends
  /\ sends' = [sends EXCEPT ![g] = @ + 1]
  /\ req' = [req EXCEPT ![w] = [phase |-> "upload", copy |-> Generation(g)]]
  /\ UNCHANGED <<exists, bundle, lock, given, replies>>

\* update_or_create finds no row and inserts it.
UploadCreate(w) ==
  /\ req[w].phase = "upload"
  /\ ~exists
  /\ exists' = TRUE
  /\ bundle' = req[w].copy
  /\ req' = [req EXCEPT ![w] = Idle]
  /\ UNCHANGED <<lock, sends, given, replies>>

LockFreeIgnored == TRUE   \* mutant

\* SELECT ... FOR UPDATE waits for the row.
LockFree == lock = NoOne

\* update_or_create finds the row and locks it.
UploadGet(w) ==
  /\ req[w].phase = "upload"
  /\ exists
  /\ LockFree
  /\ lock' = w
  /\ req' = [req EXCEPT ![w].phase = "uploadSave"]
  /\ UNCHANGED <<exists, bundle, sends, given, replies>>

\* It saves every field and commits.
UploadSave(w) ==
  /\ req[w].phase = "uploadSave"
  /\ bundle' = req[w].copy
  /\ lock' = NoOne
  /\ req' = [req EXCEPT ![w] = Idle]
  /\ UNCHANGED <<exists, sends, given, replies>>

-----------------------------------------------------------------------------
(* GET /v1/prekeys/<mailbox_id>.                                           *)

\* select_for_update().first(): a row is found, locked and copied.
FetchGet(w) ==
  /\ req[w].phase = "idle"
  /\ exists
  /\ LockFree
  /\ lock' = w
  /\ req' = [req EXCEPT ![w] = [phase |-> "fetchSave", copy |-> bundle]]
  /\ UNCHANGED <<exists, bundle, sends, given, replies>>

PoolWithoutPop(pool, k) == pool   \* mutant

\* pool.pop(0) on the copy.
PoolAfter(pool, k) == pool \ {k}

\* take_one_time_prekey: the copy's pool, less one key, is saved and the rest of
\* the row is left as it is; the transaction commits.
FetchTake(w) ==
  /\ req[w].phase = "fetchSave"
  /\ LET copy == req[w].copy
     IN \E k \in copy.pool :
          /\ bundle' = [bundle EXCEPT !.pool = PoolAfter(copy.pool, k)]
          /\ given' = [given EXCEPT ![k] = @ + 1]
          /\ replies' = replies \cup {[signed |-> copy.signed, key |-> k]}
  /\ lock' = NoOne
  /\ req' = [req EXCEPT ![w] = Idle]
  /\ UNCHANGED <<exists, sends>>

\* The pool is empty: the caller gets the signed prekey alone, nothing is saved.
FetchNone(w) ==
  /\ req[w].phase = "fetchSave"
  /\ req[w].copy.pool = {}
  /\ lock' = NoOne
  /\ req' = [req EXCEPT ![w] = Idle]
  /\ UNCHANGED <<exists, bundle, sends, given, replies>>

\* A worker dies before its commit: the lock goes, nothing is written.
Die(w) ==
  /\ req[w].phase # "idle"
  /\ lock' = IF lock = w THEN NoOne ELSE lock
  /\ req' = [req EXCEPT ![w] = Idle]
  /\ UNCHANGED <<exists, bundle, sends, given, replies>>

-----------------------------------------------------------------------------

Upload(w) == \/ \E g \in Gens : BeginUpload(w, g)
             \/ UploadCreate(w) \/ UploadGet(w) \/ UploadSave(w)
Fetch(w) == FetchGet(w) \/ FetchTake(w) \/ FetchNone(w)

Next == \E w \in Workers : Upload(w) \/ Fetch(w) \/ Die(w)

Spec == Init /\ [][Next]_vars

-----------------------------------------------------------------------------

\* "never reused across callers": a one-time prekey is given to as many callers as
\* its upload was sent times, and no more.  One for an owner that sends each upload
\* once; every repetition may hand each key out once again.
ResendsBoundReuse ==
  \A g \in Gens : \A k \in PoolOf[g] : given[k] <= sends[g]

\* What a caller gets belongs together: the one-time prekey was uploaded with the
\* signed prekey, although upload and fetch each write only part of the row.
RepliesMatch == \A r \in replies : r.key \in PoolOf[r.signed]

\* A key of the stored generation is either still in the pool or has been given to
\* a caller: none is lost between the two, whichever handlers overlap.
KeysAreAccounted ==
  exists => \A k \in PoolOf[bundle.signed] : k \in bundle.pool \/ given[k] > 0

\* The invariant these rest on: one worker at a time is past its read of the row
\* and its copy is the row ...
OneAtATime ==
  \A w \in Workers : req[w].phase \in {"uploadSave", "fetchSave"} => lock = w

CopiesAreCurrent ==
  \A w \in Workers :
    /\ req[w].phase = "fetchSave" => exists /\ req[w].copy = bundle
    /\ req[w].phase = "uploadSave" => exists
    /\ req[w].phase \in {"upload", "uploadSave"} =>
         req[w].copy = Generation(req[w].copy.signed)

PoolIsOfGeneration == bundle.pool \subseteq PoolOf[bundle.signed]

Locked == /\ TypeOK /\ OneAtATime /\ CopiesAreCurrent /\ PoolIsOfGeneration
          /\ RepliesMatch /\ KeysAreAccounted

\* ... and a key has been given, is in the pool, or will be put there by an upload
\* under way, once for each time that its upload was sent.
Uploading(w, g) == /\ req[w].phase \in {"upload", "uploadSave"}
                   /\ req[w].copy.signed = g
Uploaders(g) == {w \in Workers : Uploading(w, g)}
InPool(k) == exists /\ k \in bundle.pool

KeysAreCounted ==
  \A g \in Gens : \A k \in PoolOf[g] :
    given[k] + Cardinality(Uploaders(g)) + (IF InPool(k) THEN 1 ELSE 0) <= sends[g]

Inv == Locked /\ KeysAreCounted
=============================================================================
