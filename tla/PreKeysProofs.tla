----------------------------- MODULE PreKeysProofs -----------------------------
(* Machine-checked theorems about PreKeys, for every number of generations,   *)
(* keys and workers.                                                          *)
EXTENDS PreKeys, FiniteSetTheorems, TLAPS

LEMMA IdleIsRequest ==
  /\ Idle \in Request /\ Idle.phase = "idle"
  /\ \A g \in Gens : Generation(g) \in Bundle
                     /\ Generation(g).signed = g /\ Generation(g).pool = PoolOf[g]
<1>1. AnyGen \in Gens
  BY NamesAssumption DEF AnyGen
<1>2. \A g \in Gens : Generation(g) \in Bundle
                      /\ Generation(g).signed = g /\ Generation(g).pool = PoolOf[g]
  BY PoolsAssumption DEF Generation, Bundle
<1>. QED
  BY <1>1, <1>2 DEF Idle, Request

\* What a step of worker w does to the requests.
Others(w) == \A v \in Workers \ {w} : req'[v] = req[v]

LEMMA LockedInit == Init => Locked
<1>. SUFFICES ASSUME Init PROVE Locked
  OBVIOUS
<1>1. AnyGen \in Gens
  BY NamesAssumption DEF AnyGen
<1>2. TypeOK
  BY <1>1, IdleIsRequest DEF Init, TypeOK
<1>. QED
  BY <1>1, <1>2, IdleIsRequest
  DEF Init, Locked, OneAtATime, CopiesAreCurrent, PoolIsOfGeneration, RepliesMatch,
      KeysAreAccounted

\* Every step keeps the types of the variables.
LEMMA TypeStep == TypeOK /\ [Next]_vars => TypeOK'
<1>. SUFFICES ASSUME TypeOK, [Next]_vars PROVE TypeOK'
  OBVIOUS
<1>. USE DEF TypeOK
<1>1. ASSUME NEW w \in Workers, NEW g \in Gens, BeginUpload(w, g) PROVE TypeOK'
  <2>1. [phase |-> "upload", copy |-> Generation(g)] \in Request
    BY IdleIsRequest DEF Request
  <2>. QED
    BY <1>1, <2>1 DEF BeginUpload
<1>2. ASSUME NEW w \in Workers, UploadCreate(w) PROVE TypeOK'
  <2>1. req[w].copy \in Bundle
    BY DEF Request
  <2>. QED
    BY <1>2, <2>1, IdleIsRequest DEF UploadCreate
<1>3. ASSUME NEW w \in Workers, UploadGet(w) PROVE TypeOK'
  <2>1. [req[w] EXCEPT !.phase = "uploadSave"] \in Request
    BY DEF Request
  <2>. QED
    BY <1>3, <2>1 DEF UploadGet
<1>4. ASSUME NEW w \in Workers, UploadSave(w) PROVE TypeOK'
  <2>1. req[w].copy \in Bundle
    BY DEF Request
  <2>. QED
    BY <1>4, <2>1, IdleIsRequest DEF UploadSave
<1>5. ASSUME NEW w \in Workers, FetchGet(w) PROVE TypeOK'
  <2>1. [phase |-> "fetchSave", copy |-> bundle] \in Request
    BY DEF Request
  <2>. QED
    BY <1>5, <2>1 DEF FetchGet
<1>6. ASSUME NEW w \in Workers, FetchTake(w) PROVE TypeOK'
  <2>1. PICK k \in req[w].copy.pool :
          /\ bundle' = [bundle EXCEPT !.pool = PoolAfter(req[w].copy.pool, k)]
          /\ given' = [given EXCEPT ![k] = @ + 1]
          /\ replies' = replies \cup {[signed |-> req[w].copy.signed, key |-> k]}
    BY <1>6 DEF FetchTake
  <2>2. req[w].copy.signed \in Gens /\ req[w].copy.pool \subseteq Keys
    BY DEF Request, Bundle
  <2>3. bundle' \in Bundle
    BY <2>1, <2>2 DEF Bundle, PoolAfter
  <2>. QED
    BY <1>6, <2>1, <2>2, <2>3, IdleIsRequest DEF FetchTake
<1>7. ASSUME NEW w \in Workers, FetchNone(w) \/ Die(w) PROVE TypeOK'
  BY <1>7, IdleIsRequest DEF FetchNone, Die
<1>8. CASE UNCHANGED vars
  BY <1>8 DEF vars
<1>. QED
  BY <1>1, <1>2, <1>3, <1>4, <1>5, <1>6, <1>7, <1>8 DEF Next, Upload, Fetch

\* Every step keeps the invariant: the row changes only under the lock.
LEMMA LockedStep == Locked /\ [Next]_vars => Locked'
<1>. SUFFICES ASSUME Locked, [Next]_vars PROVE Locked'
  OBVIOUS
<1>. USE DEF Locked
<1>0. TypeOK'
  BY TypeStep
<1>1. ASSUME NEW w \in Workers, NEW g \in Gens, BeginUpload(w, g) PROVE Locked'
  <2>1. req'[w] = [phase |-> "upload", copy |-> Generation(g)] /\ Others(w)
    BY <1>1 DEF BeginUpload, TypeOK, Others
  <2>2. OneAtATime' /\ CopiesAreCurrent'
    BY <1>1, <2>1, IdleIsRequest
    DEF BeginUpload, Others, OneAtATime, CopiesAreCurrent
  <2>. QED
    BY <1>0, <1>1, <2>2
    DEF BeginUpload, PoolIsOfGeneration, RepliesMatch, KeysAreAccounted
<1>2. ASSUME NEW w \in Workers, UploadCreate(w) PROVE Locked'
  <2>1. req'[w] = Idle /\ Others(w)
    BY <1>2 DEF UploadCreate, TypeOK, Others
  <2>2. \A v \in Workers : req[v].phase \notin {"fetchSave", "uploadSave"}
    BY <1>2 DEF UploadCreate, CopiesAreCurrent
  <2>3. OneAtATime' /\ CopiesAreCurrent'
    BY <1>2, <2>1, <2>2, IdleIsRequest
    DEF UploadCreate, Others, OneAtATime, CopiesAreCurrent
  <2>4. bundle' = Generation(bundle'.signed) /\ bundle'.signed \in Gens
    BY <1>0, <1>2 DEF UploadCreate, CopiesAreCurrent, TypeOK, Bundle
  <2>5. PoolIsOfGeneration' /\ KeysAreAccounted'
    BY <2>4, IdleIsRequest DEF PoolIsOfGeneration, KeysAreAccounted
  <2>. QED
    BY <1>0, <1>2, <2>3, <2>5 DEF UploadCreate, RepliesMatch
<1>3. ASSUME NEW w \in Workers, UploadGet(w) PROVE Locked'
  <2>1. /\ req'[w].phase = "uploadSave" /\ req'[w].copy = req[w].copy
        /\ Others(w) /\ req[w].phase = "upload"
    BY <1>3 DEF UploadGet, TypeOK, Request, Others
  <2>2. \A v \in Workers \ {w} : req[v].phase \notin {"fetchSave", "uploadSave"}
    BY <1>3, NamesAssumption DEF UploadGet, LockFree, OneAtATime
  <2>3. OneAtATime' /\ CopiesAreCurrent'
    BY <1>3, <2>1, <2>2 DEF UploadGet, Others, OneAtATime, CopiesAreCurrent
  <2>. QED
    BY <1>0, <1>3, <2>3
    DEF UploadGet, PoolIsOfGeneration, RepliesMatch, KeysAreAccounted
<1>4. ASSUME NEW w \in Workers, UploadSave(w) PROVE Locked'
  <2>1. req'[w] = Idle /\ Others(w)
    BY <1>4 DEF UploadSave, TypeOK, Others
  <2>2. \A v \in Workers \ {w} : req[v].phase \notin {"fetchSave", "uploadSave"}
    BY <1>4 DEF UploadSave, OneAtATime
  <2>3. OneAtATime' /\ CopiesAreCurrent'
    BY <1>4, <2>1, <2>2, IdleIsRequest
    DEF UploadSave, Others, OneAtATime, CopiesAreCurrent
  <2>4. bundle' = Generation(bundle'.signed) /\ bundle'.signed \in Gens
    BY <1>0, <1>4 DEF UploadSave, CopiesAreCurrent, TypeOK, Bundle
  <2>5. PoolIsOfGeneration' /\ KeysAreAccounted'
    BY <2>4, IdleIsRequest DEF PoolIsOfGeneration, KeysAreAccounted
  <2>. QED
    BY <1>0, <1>4, <2>3, <2>5 DEF UploadSave, RepliesMatch
<1>5. ASSUME NEW w \in Workers, FetchGet(w) PROVE Locked'
  <2>1. /\ req'[w] = [phase |-> "fetchSave", copy |-> bundle]
        /\ Others(w)
    BY <1>5 DEF FetchGet, TypeOK, Others
  <2>2. \A v \in Workers : req[v].phase \notin {"fetchSave", "uploadSave"}
    BY <1>5, NamesAssumption DEF FetchGet, LockFree, OneAtATime
  <2>3. OneAtATime' /\ CopiesAreCurrent'
    BY <1>5, <2>1, <2>2 DEF FetchGet, Others, OneAtATime, CopiesAreCurrent
  <2>. QED
    BY <1>0, <1>5, <2>3
    DEF FetchGet, PoolIsOfGeneration, RepliesMatch, KeysAreAccounted
<1>6. ASSUME NEW w \in Workers, FetchTake(w) PROVE Locked'
  <2>1. PICK k \in bundle.pool :
          /\ bundle' = [bundle EXCEPT !.pool = bundle.pool \ {k}]
          /\ given' = [given EXCEPT ![k] = @ + 1]
          /\ replies' = replies \cup {[signed |-> bundle.signed, key |-> k]}
    BY <1>6 DEF FetchTake, CopiesAreCurrent, PoolAfter
  <2>2. /\ bundle'.signed = bundle.signed /\ bundle'.pool = bundle.pool \ {k}
        /\ k \in Keys /\ k \in PoolOf[bundle.signed]
    BY <2>1 DEF TypeOK, Bundle, PoolIsOfGeneration
  <2>3. req'[w] = Idle /\ Others(w)
    BY <1>6 DEF FetchTake, TypeOK, Others
  <2>4. \A v \in Workers \ {w} : req[v].phase \notin {"fetchSave", "uploadSave"}
    BY <1>6 DEF FetchTake, OneAtATime
  <2>5. OneAtATime' /\ CopiesAreCurrent'
    BY <1>6, <2>3, <2>4, IdleIsRequest
    DEF FetchTake, Others, OneAtATime, CopiesAreCurrent
  <2>6. PoolIsOfGeneration' /\ RepliesMatch'
    BY <2>1, <2>2 DEF PoolIsOfGeneration, RepliesMatch
  <2>7. KeysAreAccounted'
    <3>1. given'[k] > 0 /\ \A j \in Keys : given[j] > 0 => given'[j] > 0
      BY <2>1, <2>2 DEF TypeOK
    <3>2. PoolOf[bundle.signed] \subseteq Keys
      BY PoolsAssumption DEF TypeOK, Bundle
    <3>. QED
      BY <1>6, <2>2, <3>1, <3>2 DEF FetchTake, KeysAreAccounted
  <2>. QED
    BY <1>0, <2>5, <2>6, <2>7
<1>7. ASSUME NEW w \in Workers, FetchNone(w) \/ Die(w) PROVE Locked'
  <2>1. req'[w] = Idle /\ Others(w)
    BY <1>7 DEF FetchNone, Die, TypeOK, Others
  <2>2. \A v \in Workers \ {w} :
          req[v].phase \in {"fetchSave", "uploadSave"} => lock' = v
    BY <1>7 DEF FetchNone, Die, OneAtATime
  <2>3. OneAtATime' /\ CopiesAreCurrent'
    BY <1>7, <2>1, <2>2, IdleIsRequest
    DEF FetchNone, Die, Others, OneAtATime, CopiesAreCurrent
  <2>. QED
    BY <1>0, <1>7, <2>3
    DEF FetchNone, Die, PoolIsOfGeneration, RepliesMatch, KeysAreAccounted
<1>8. CASE UNCHANGED vars
  BY <1>0, <1>8 DEF vars, OneAtATime, CopiesAreCurrent, PoolIsOfGeneration,
                    RepliesMatch, KeysAreAccounted
<1>. QED
  BY <1>1, <1>2, <1>3, <1>4, <1>5, <1>6, <1>7, <1>8 DEF Next, Upload, Fetch

LEMMA LockedHolds == Spec => []Locked
BY LockedInit, LockedStep, PTL DEF Spec

\* A caller's two keys belong together and no key vanishes, however uploads,
\* retries and fetches overlap.
THEOREM BundleSafe == Spec => [](RepliesMatch /\ KeysAreAccounted)
<1>1. Locked => RepliesMatch /\ KeysAreAccounted
  BY DEF Locked
<1>. QED
  BY <1>1, LockedHolds, PTL

\* No one-time key of the stored generation is lost between the pool and a caller.
THEOREM KeysKept == Spec => []KeysAreAccounted
<1>1. Locked => KeysAreAccounted
  BY DEF Locked
<1>. QED
  BY <1>1, LockedHolds, PTL

-----------------------------------------------------------------------------
(* How often a key is given.                                                *)

LEMMA UploadersAreFinite ==
  ASSUME NEW g
  PROVE  IsFiniteSet(Uploaders(g)) /\ Cardinality(Uploaders(g)) \in Nat
BY NamesAssumption, FS_Subset, FS_CardinalityType DEF Uploaders

\* The uploads under way change by at most that of the worker that steps.
LEMMA UploadersStep ==
  ASSUME NEW w \in Workers, Others(w), NEW g
  PROVE  /\ Cardinality(Uploaders(g)) \in Nat
         /\ (Uploading(w, g)' <=> Uploading(w, g)) =>
              Cardinality(Uploaders(g)') = Cardinality(Uploaders(g))
         /\ Uploading(w, g)' /\ ~Uploading(w, g) =>
              Cardinality(Uploaders(g)') = Cardinality(Uploaders(g)) + 1
         /\ ~Uploading(w, g)' /\ Uploading(w, g) =>
              Cardinality(Uploaders(g)') = Cardinality(Uploaders(g)) - 1
<1>0. \A v \in Workers \ {w} : Uploading(v, g)' <=> Uploading(v, g)
  BY DEF Others, Uploading
<1>1. CASE Uploading(w, g)' <=> Uploading(w, g)
  <2>1. Uploaders(g)' = Uploaders(g)
    BY <1>0, <1>1 DEF Uploaders
  <2>. QED
    BY <1>1, <2>1, UploadersAreFinite
<1>2. CASE Uploading(w, g)' /\ ~Uploading(w, g)
  <2>1. Uploaders(g)' = Uploaders(g) \cup {w} /\ w \notin Uploaders(g)
    BY <1>0, <1>2 DEF Uploaders
  <2>. QED
    BY <1>2, <2>1, UploadersAreFinite, FS_AddElement
<1>3. CASE ~Uploading(w, g)' /\ Uploading(w, g)
  <2>1. Uploaders(g)' = Uploaders(g) \ {w} /\ w \in Uploaders(g)
    BY <1>0, <1>3 DEF Uploaders
  <2>. QED
    BY <1>3, <2>1, UploadersAreFinite, FS_RemoveElement
<1>. QED
  BY <1>1, <1>2, <1>3

LEMMA CountedInit == Init => KeysAreCounted
<1>. SUFFICES ASSUME Init, NEW g \in Gens, NEW k \in PoolOf[g]
              PROVE  given[k] + Cardinality(Uploaders(g)) + (IF InPool(k) THEN 1 ELSE 0)
                       <= sends[g]
  BY DEF KeysAreCounted
<1>1. Uploaders(g) = {}
  BY IdleIsRequest DEF Init, Uploaders, Uploading
<1>2. Cardinality(Uploaders(g)) = 0
  BY <1>1, FS_EmptySet
<1>. QED
  BY <1>2, PoolsAssumption DEF Init, InPool

\* A send adds an upload, an upload that is saved adds the keys of its own pool only,
\* and a fetch takes a key that is in the pool.
LEMMA CountedStep == Locked /\ KeysAreCounted /\ [Next]_vars => KeysAreCounted'
<1>. SUFFICES ASSUME Locked, KeysAreCounted, [Next]_vars,
                     NEW g \in Gens, NEW k \in PoolOf[g]
              PROVE  given'[k] + Cardinality(Uploaders(g)') +
                       (IF InPool(k)' THEN 1 ELSE 0) <= sends'[g]
  BY DEF KeysAreCounted
<1>. DEFINE pooled == IF InPool(k) THEN 1 ELSE 0
            n == Cardinality(Uploaders(g))
            after == Cardinality(Uploaders(g)')
<1>t. TypeOK /\ TypeOK' /\ k \in Keys
  BY TypeStep, PoolsAssumption DEF Locked
<1>n. /\ given[k] \in Nat /\ sends[g] \in Nat /\ n \in Nat
      /\ given[k] + n + pooled <= sends[g]
  BY <1>t, UploadersAreFinite DEF TypeOK, KeysAreCounted
<1>. HIDE DEF n, after
<1>1. ASSUME NEW w \in Workers, NEW h \in Gens, BeginUpload(w, h)
      PROVE  given'[k] + after + (IF InPool(k)' THEN 1 ELSE 0) <= sends'[g]
  <2>1. /\ Others(w) /\ req'[w] = [phase |-> "upload", copy |-> Generation(h)]
        /\ req[w].phase = "idle" /\ UNCHANGED <<exists, bundle, given>>
    BY <1>1, <1>t DEF BeginUpload, TypeOK, Others
  <2>2. ~Uploading(w, g) /\ (Uploading(w, g)' <=> g = h)
    BY <2>1, IdleIsRequest DEF Uploading
  <2>3. sends'[g] = IF g = h THEN sends[g] + 1 ELSE sends[g]
    BY <1>1, <1>t DEF BeginUpload, TypeOK
  <2>4. after = IF g = h THEN n + 1 ELSE n
    BY <2>1, <2>2, UploadersStep DEF n, after
  <2>. QED
    BY <1>n, <2>1, <2>3, <2>4 DEF InPool
<1>2. ASSUME NEW w \in Workers, UploadCreate(w) \/ UploadSave(w)
      PROVE  given'[k] + after + (IF InPool(k)' THEN 1 ELSE 0) <= sends'[g]
  <2>1. PICK h \in Gens : /\ Uploading(w, h) /\ req[w].copy = Generation(h)
                          /\ Generation(h).signed = h /\ Generation(h).pool = PoolOf[h]
    BY <1>2, <1>t, IdleIsRequest
    DEF Locked, CopiesAreCurrent, UploadCreate, UploadSave, Uploading, TypeOK, Request,
        Bundle
  <2>2. /\ Others(w) /\ req'[w] = Idle /\ UNCHANGED <<sends, given>>
        /\ bundle'.pool = PoolOf[h]
    BY <1>2, <1>t, <2>1 DEF UploadCreate, UploadSave, TypeOK, Others
  <2>3. ~Uploading(w, g)' /\ (Uploading(w, g) <=> g = h)
    BY <2>1, <2>2, IdleIsRequest DEF Uploading
  <2>4. after = IF g = h THEN n - 1 ELSE n
    BY <2>2, <2>3, UploadersStep DEF n, after
  <2>5. InPool(k)' => g = h
    BY <2>2, PoolsAssumption DEF InPool
  <2>. QED
    BY <1>n, <2>2, <2>4, <2>5
<1>3. ASSUME NEW w \in Workers,
             UploadGet(w) \/ FetchGet(w) \/ FetchNone(w) \/ Die(w)
      PROVE  given'[k] + after + (IF InPool(k)' THEN 1 ELSE 0) <= sends'[g]
  <2>1. Others(w) /\ (Uploading(w, g)' => Uploading(w, g))
    BY <1>3, <1>t, IdleIsRequest
    DEF UploadGet, FetchGet, FetchNone, Die, Others, Uploading, TypeOK, Request
  <2>2. after \in Int /\ after <= n
    BY <1>n, <2>1, UploadersStep DEF n, after
  <2>3. UNCHANGED <<exists, bundle, sends, given>>
    BY <1>3 DEF UploadGet, FetchGet, FetchNone, Die
  <2>. QED
    BY <1>n, <2>2, <2>3 DEF InPool
<1>4. ASSUME NEW w \in Workers, FetchTake(w)
      PROVE  given'[k] + after + (IF InPool(k)' THEN 1 ELSE 0) <= sends'[g]
  <2>1. PICK j \in bundle.pool :
          /\ bundle' = [bundle EXCEPT !.pool = bundle.pool \ {j}]
          /\ given' = [given EXCEPT ![j] = @ + 1]
    BY <1>4 DEF FetchTake, Locked, CopiesAreCurrent, PoolAfter
  <2>2. /\ exists /\ UNCHANGED <<exists, sends>> /\ req[w].phase = "fetchSave"
        /\ Others(w) /\ req'[w] = Idle
    BY <1>4, <1>t DEF FetchTake, Locked, CopiesAreCurrent, TypeOK, Others
  <2>3. after = n
    BY <2>2, IdleIsRequest, UploadersStep DEF Uploading, n, after
  <2>4. bundle'.pool = bundle.pool \ {j}
    BY <1>t, <2>1 DEF TypeOK, Bundle
  <2>5. given'[k] = IF k = j THEN given[k] + 1 ELSE given[k]
    BY <1>t, <2>1 DEF TypeOK
  <2>. QED
    BY <1>n, <2>2, <2>3, <2>4, <2>5 DEF InPool
<1>5. CASE UNCHANGED vars
  <2>1. UNCHANGED <<exists, bundle, sends, given>> /\ after = n
    BY <1>5 DEF vars, Uploaders, Uploading, n, after
  <2>. QED
    BY <1>n, <2>1 DEF InPool, after
<1>. QED
  BY <1>1, <1>2, <1>3, <1>4, <1>5 DEF Next, Upload, Fetch, after

\* The whole invariant.
THEOREM InvHolds == Spec => []Inv
<1>1. Init => Inv
  BY LockedInit, CountedInit DEF Inv
<1>2. Inv /\ [Next]_vars => Inv'
  BY LockedStep, CountedStep DEF Inv
<1>. QED
  BY <1>1, <1>2, PTL DEF Spec

\* A one-time prekey is given to no more callers than its upload was sent times, for
\* any number of concurrent callers, replacements and repetitions.
THEOREM ReuseIsBounded == Spec => []ResendsBoundReuse
<1>1. Inv => ResendsBoundReuse
  <2>. SUFFICES ASSUME Inv, NEW g \in Gens, NEW k \in PoolOf[g]
                PROVE  given[k] <= sends[g]
    BY DEF ResendsBoundReuse
  <2>1. given[k] \in Nat /\ sends[g] \in Nat /\ Cardinality(Uploaders(g)) \in Nat
    BY PoolsAssumption, UploadersAreFinite DEF Inv, Locked, TypeOK
  <2>2. given[k] + Cardinality(Uploaders(g)) + (IF InPool(k) THEN 1 ELSE 0) <= sends[g]
    BY DEF Inv, KeysAreCounted
  <2>. QED
    BY <2>1, <2>2
<1>. QED
  BY <1>1, InvHolds, PTL
=============================================================================
