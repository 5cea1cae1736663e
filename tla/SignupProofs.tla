------------------------------ MODULE SignupProofs ------------------------------
(* Machine-checked theorems about Signup, for every number of phone numbers,  *)
(* keys, tokens and workers.                                                  *)
EXTENDS Signup, FiniteSetTheorems, TLAPS

LEMMA IdleIsRequest ==
  Idle \in Request /\ Idle.phase = "idle" /\ Idle.number = None /\ Idle.key = None
BY DEF Idle, Request, Phases

\* What a step of worker w does to the requests.
Others(w) == \A v \in Workers \ {w} : req'[v] = req[v]

LEMMA GoTypes ==
  ASSUME TypeOK, NEW w \in Workers, NEW p \in Phases
  PROVE  /\ Go(w, p) => /\ req' \in [Workers -> Request] /\ Others(w)
                        /\ req'[w] = [req[w] EXCEPT !.phase = p]
         /\ Done(w) => /\ req' \in [Workers -> Request] /\ Others(w)
                       /\ req'[w] = Idle
<1>1. [req[w] EXCEPT !.phase = p] \in Request
  BY DEF TypeOK, Request
<1>. QED
  BY <1>1, IdleIsRequest DEF Go, Done, TypeOK, Others

-----------------------------------------------------------------------------
(* Steps that only move a worker, or only add a code or a token.            *)

\* Nothing that outlives the request has changed.
Quiet == UNCHANGED <<identities, registered, entries, backups,
                     accounts, proven, restored, recovered>>

LEMMA BeginTypes ==
  ASSUME TypeOK, NEW w \in Workers, NEW t \in Tokens, NEW purpose \in Purposes,
         NEW next \in Phases, NEW k \in Keys \cup {None}, NEW named \in BOOLEAN,
         Begin(w, t, purpose, next, k, named)
  PROVE  /\ req' \in [Workers -> Request] /\ Others(w)
         /\ req'[w].phase = next /\ req'[w].key = k /\ req'[w].number \in Numbers
<1>1. PICK n \in Numbers :
        req' = [req EXCEPT ![w] = [Idle EXCEPT !.phase = next, !.token = t,
                                               !.number = n, !.key = k,
                                               !.named = named]]
  BY DEF Begin, Good, TypeOK, Token
<1>2. [Idle EXCEPT !.phase = next, !.token = t, !.number = n, !.key = k,
                   !.named = named] \in Request
  BY DEF Idle, Request
<1>. QED
  BY <1>1, <1>2 DEF TypeOK, Others, Idle

\* Every way a handler begins with a token.
Begins(w) ==
  \E next \in {"isTaken", "spend", "redeem"}, purpose \in Purposes, t \in Tokens,
     k \in Keys \cup {None}, named \in BOOLEAN :
    (next = "redeem" \/ k \in Keys) /\ Begin(w, t, purpose, next, k, named)

LEMMA BeginsIs ==
  ASSUME NEW w \in Workers, NEW t \in Tokens
  PROVE  /\ \A k \in Keys, named \in BOOLEAN :
              Begin(w, t, "signup", "isTaken", k, named) => Begins(w)
         /\ \A k \in Keys : Begin(w, t, "recovery", "spend", k, FALSE) => Begins(w)
         /\ Begin(w, t, "recovery", "redeem", None, FALSE) => Begins(w)
BY DEF Begins, Purposes

LEMMA BeginsTypes ==
  ASSUME TypeOK, NEW w \in Workers, Begins(w)
  PROVE  /\ req' \in [Workers -> Request] /\ Others(w)
         /\ req'[w].phase \in {"isTaken", "spend", "redeem"}
         /\ req'[w].phase = "redeem" \/ req'[w].key \in Keys
         /\ req'[w].number \in Numbers
         /\ Quiet /\ UNCHANGED <<codes, lapsed, issued, raced>>
<1>1. PICK next \in {"isTaken", "spend", "redeem"}, purpose \in Purposes,
           t \in Tokens, k \in Keys \cup {None}, named \in BOOLEAN :
             (next = "redeem" \/ k \in Keys) /\ Begin(w, t, purpose, next, k, named)
  BY DEF Begins
<1>2. next \in Phases
  BY DEF Phases
<1>3. /\ req' \in [Workers -> Request] /\ Others(w)
      /\ req'[w].phase = next /\ req'[w].key = k /\ req'[w].number \in Numbers
  BY <1>1, <1>2, BeginTypes
<1>4. Quiet /\ UNCHANGED <<codes, lapsed, issued, raced>>
  BY <1>1 DEF Begin, Quiet, tables, history
<1>. QED
  BY <1>1, <1>3, <1>4

\* What every step of worker w does to the requests, and to nothing else if the
\* phase it starts from only reads.
LEMMA WorkerTypes ==
  ASSUME TypeOK, RequestsAreFilled, NEW w \in Workers,
         Register(w) \/ Recover(w) \/ Backup(w) \/ Die(w)
  PROVE  req' \in [Workers -> Request] /\ Others(w) /\ RequestsAreFilled'
<1>. USE DEF RequestsAreFilled
<1>f. req[w] \in Request
  BY DEF TypeOK
<1>b. ASSUME Begins(w)
      PROVE  req' \in [Workers -> Request] /\ Others(w) /\ RequestsAreFilled'
  BY <1>b, BeginsTypes DEF Others
<1>g. ASSUME NEW p \in Phases, Go(w, p),
             req[w].phase # "idle",
             \/ req[w].phase \notin {"redeem", "read", "resolve"} /\ p # "resolve"
             \/ p \in {"read"}
      PROVE  req' \in [Workers -> Request] /\ Others(w) /\ RequestsAreFilled'
  <2>1. /\ req' \in [Workers -> Request] /\ Others(w)
        /\ req'[w] = [req[w] EXCEPT !.phase = p]
    BY <1>g, GoTypes
  <2>2. /\ req'[w].phase = p /\ req'[w].number = req[w].number
        /\ req'[w].key = req[w].key
    BY <2>1, <1>f DEF Request
  <2>. QED
    BY <1>g, <2>1, <2>2 DEF Others
<1>d. ASSUME Done(w)
      PROVE  req' \in [Workers -> Request] /\ Others(w) /\ RequestsAreFilled'
  <2>1. req' \in [Workers -> Request] /\ Others(w) /\ req'[w] = Idle
    BY <1>d, GoTypes DEF Phases
  <2>. QED
    BY <2>1, IdleIsRequest DEF Others
<1>1. CASE Register(w)
  <2>1. ASSUME NEW t \in Tokens, NEW k \in Keys, NEW named \in BOOLEAN,
               Begin(w, t, "signup", "isTaken", k, named)
        PROVE  req' \in [Workers -> Request] /\ Others(w) /\ RequestsAreFilled'
    BY <2>1, <1>b, BeginsIs
  <2>3. CASE IsTaken(w)
    BY <2>3, <1>g DEF IsTaken, Phases
  <2>4. CASE Burn(w) \/ List(w)
    BY <2>4, <1>d DEF Burn, List, Enter
  <2>5. CASE RegisterConsume(w)
    BY <2>5, <1>g DEF RegisterConsume, Consume, Phases
  <2>6. CASE Create(w)
    BY <2>6, <1>g, <1>d DEF Create, Phases
  <2>7. CASE Bind(w)
    BY <2>7, <1>g, <1>d DEF Bind, Phases
  <2>. QED
    BY <1>1, <2>1, <2>3, <2>4, <2>5, <2>6, <2>7 DEF Register
<1>2. CASE Recover(w)
  <2>1. ASSUME NEW t \in Tokens, NEW k \in Keys,
               Begin(w, t, "recovery", "spend", k, FALSE)
        PROVE  req' \in [Workers -> Request] /\ Others(w) /\ RequestsAreFilled'
    BY <2>1, <1>b, BeginsIs
  <2>3. CASE RecoverConsume(w)
    BY <2>3, <1>g DEF RecoverConsume, Consume, Phases
  <2>4. CASE IsKnown(w)
    BY <2>4, <1>g, <1>d DEF IsKnown, Phases
  <2>5. CASE Mint(w)
    BY <2>5, <1>g DEF Mint, Phases
  <2>6. CASE Point(w)
    BY <2>6, <1>d DEF Point, Enter
  <2>. QED
    BY <1>2, <2>1, <2>3, <2>4, <2>5, <2>6 DEF Recover
<1>3. CASE Backup(w)
  <2>1. ASSUME NEW k \in Keys, BackUp(w, k)
        PROVE  req' \in [Workers -> Request] /\ Others(w) /\ RequestsAreFilled'
    <3>1. PICK n \in Numbers :
            req' = [req EXCEPT ![w] = [Idle EXCEPT !.phase = "store", !.key = k,
                                                   !.number = n]]
      BY <2>1 DEF BackUp, EntriesOf
    <3>2. [Idle EXCEPT !.phase = "store", !.key = k, !.number = n] \in Request
      BY DEF Idle, Request, Phases
    <3>3. /\ req' \in [Workers -> Request] /\ Others(w)
          /\ req'[w].phase = "store" /\ req'[w].key = k /\ req'[w].number = n
      BY <3>1, <3>2 DEF TypeOK, Others, Idle
    <3>. QED
      BY <3>3 DEF Others
  <2>2. CASE Store(w) \/ Resolve(w)
    BY <2>2, <1>d DEF Store, Resolve
  <2>3. ASSUME NEW t \in Tokens, Begin(w, t, "recovery", "redeem", None, FALSE)
        PROVE  req' \in [Workers -> Request] /\ Others(w) /\ RequestsAreFilled'
    BY <2>3, <1>b, BeginsIs
  <2>5. CASE RestoreConsume(w)
    BY <2>5, <1>g DEF RestoreConsume, Consume, Phases
  <2>6. CASE ReadBackup(w)
    <3>1. CASE Done(w)
      BY <3>1, <1>d
    <3>2. CASE ~Done(w)
      <4>1. req[w].phase = "read" /\ req[w].number \in Numbers
        BY <2>6 DEF ReadBackup
      <4>2. PICK b \in Keys :
              req' = [req EXCEPT ![w] = [req[w] EXCEPT !.phase = "resolve",
                                                       !.bundle = b]]
        BY <2>6, <3>2, <4>1 DEF ReadBackup, TypeOK
      <4>3. [req[w] EXCEPT !.phase = "resolve", !.bundle = b] \in Request
        BY <1>f DEF Request, Phases
      <4>4. /\ req' \in [Workers -> Request] /\ Others(w)
            /\ req'[w].phase = "resolve" /\ req'[w].number = req[w].number
            /\ req'[w].bundle = b
        BY <4>2, <4>3, <1>f DEF TypeOK, Others, Request
      <4>. QED
        BY <4>1, <4>4 DEF Others
    <3>. QED
      BY <3>1, <3>2
  <2>. QED
    BY <1>3, <2>1, <2>2, <2>3, <2>5, <2>6 DEF Backup
<1>4. CASE Die(w)
  BY <1>4, <1>d DEF Die
<1>. QED
  BY <1>1, <1>2, <1>3, <1>4

\* Every step keeps the types of the variables and the requests filled.
LEMMA TypeStep ==
  TypeOK /\ RequestsAreFilled /\ [Next]_vars => TypeOK' /\ RequestsAreFilled'
<1>. SUFFICES ASSUME TypeOK, RequestsAreFilled, [Next]_vars
              PROVE  TypeOK' /\ RequestsAreFilled'
  OBVIOUS
<1>. USE DEF tables, history
<1>1. ASSUME NEW n \in Numbers, NEW purpose \in Purposes, RequestCode(n, purpose)
      PROVE  TypeOK' /\ RequestsAreFilled'
  BY <1>1 DEF RequestCode, TypeOK, Code, RequestsAreFilled
<1>2. ASSUME NEW t \in Tokens, IssueToken(t) \/ Lapse(t)
      PROVE  TypeOK' /\ RequestsAreFilled'
  <2>1. CASE IssueToken(t)
    <3>1. PICK c \in codes :
            issued' = issued \cup {[token |-> t, number |-> c.number,
                                    purpose |-> c.purpose, consumed |-> FALSE]}
      BY <2>1 DEF IssueToken
    <3>2. issued' \subseteq Token
      <4>1. c.number \in Numbers /\ c.purpose \in Purposes
        BY DEF TypeOK, Code
      <4>2. [token |-> t, number |-> c.number, purpose |-> c.purpose,
             consumed |-> FALSE] \in Token
        BY <4>1 DEF Token
      <4>. QED
        BY <3>1, <4>2 DEF TypeOK
    <3>. QED
      BY <2>1, <3>2 DEF IssueToken, TypeOK, RequestsAreFilled
  <2>2. CASE Lapse(t)
    BY <2>2 DEF Lapse, TypeOK, RequestsAreFilled
  <2>. QED
    BY <1>2, <2>1, <2>2
<1>3. ASSUME NEW w \in Workers, Register(w) \/ Recover(w) \/ Backup(w) \/ Die(w)
      PROVE  TypeOK' /\ RequestsAreFilled'
  <2>1. req' \in [Workers -> Request] /\ RequestsAreFilled'
    BY <1>3, WorkerTypes
  <2>. SUFFICES TypeOK'
    BY <2>1
  <2>f. req[w] \in Request
    BY DEF TypeOK
  <2>2. ASSUME Quiet, UNCHANGED <<codes, lapsed, issued>>, raced' \subseteq Numbers
        PROVE  TypeOK'
    BY <2>1, <2>2 DEF Quiet, TypeOK
  <2>3. ASSUME NEW phase \in Phases, Consume(w, phase),
               proven' \subseteq [number : Numbers, key : Keys]
        PROVE  TypeOK'
    <3>1. issued' \subseteq Token
      BY <2>3 DEF Consume, Consumed, TypeOK, Token
    <3>. QED
      BY <2>1, <2>3, <3>1 DEF Consume, TypeOK
  <2>4. ASSUME Prove(w), req[w].number \in Numbers, req[w].key \in Keys
        PROVE  proven' \subseteq [number : Numbers, key : Keys]
    BY <2>4 DEF Prove, TypeOK
  <2>5. CASE IsTaken(w) \/ IsKnown(w) \/ ReadBackup(w) \/ Die(w)
             \/ \E k \in Keys : BackUp(w, k)
    <3>1. Quiet /\ UNCHANGED <<codes, lapsed, issued>>
      <4>1. CASE IsTaken(w) \/ IsKnown(w) \/ ReadBackup(w) \/ Die(w)
        BY <4>1 DEF Quiet, IsTaken, IsKnown, ReadBackup, Die
      <4>2. CASE \E k \in Keys : BackUp(w, k)
        BY <4>2 DEF Quiet, BackUp
      <4>. QED
        BY <2>5, <4>1, <4>2
    <3>2. raced' \subseteq Numbers
      <4>1. CASE IsTaken(w)
        <5>1. req[w].number \in Numbers
          BY <4>1 DEF IsTaken, RequestsAreFilled
        <5>2. raced' = raced \/ raced' = raced \cup {req[w].number}
          BY <4>1 DEF IsTaken
        <5>. QED
          BY <5>1, <5>2 DEF TypeOK
      <4>2. CASE IsKnown(w) \/ ReadBackup(w) \/ Die(w)
        BY <4>2 DEF TypeOK, IsKnown, ReadBackup, Die
      <4>3. CASE \E k \in Keys : BackUp(w, k)
        BY <4>3 DEF TypeOK, BackUp
      <4>. QED
        BY <2>5, <4>1, <4>2, <4>3
    <3>. QED
      BY <2>2, <3>1, <3>2
  <2>6. CASE Burn(w) \/ RestoreConsume(w)
    <3>1. PICK phase \in Phases : Consume(w, phase)
      BY <2>6 DEF Burn, RestoreConsume, Phases
    <3>2. proven' \subseteq [number : Numbers, key : Keys]
      BY <2>6 DEF Burn, RestoreConsume, TypeOK
    <3>. QED
      BY <2>3, <3>1, <3>2
  <2>7. CASE RegisterConsume(w) \/ RecoverConsume(w)
    <3>1. req[w].number \in Numbers /\ req[w].key \in Keys
      BY <2>7 DEF RegisterConsume, RecoverConsume, Consume, RequestsAreFilled
    <3>. QED
      <4>1. PICK phase \in Phases : Consume(w, phase)
        BY <2>7 DEF RegisterConsume, RecoverConsume, Phases
      <4>2. proven' \subseteq [number : Numbers, key : Keys]
        BY <2>4, <2>7, <3>1 DEF RegisterConsume, RecoverConsume
      <4>. QED
        BY <2>3, <4>1, <4>2
  <2>8. CASE Create(w) \/ Mint(w)
    <3>1. req[w].key \in Keys
      BY <2>8 DEF Create, Mint, RequestsAreFilled
    <3>. QED
      BY <2>1, <2>8, <3>1 DEF Create, Mint, IdentitiesWith, TypeOK
  <2>9. CASE Bind(w) \/ List(w) \/ Point(w) \/ Store(w)
    <3>1. req[w].number \in Numbers /\ req[w].key \in Keys
      BY <2>9 DEF Bind, List, Point, Enter, Store, RequestsAreFilled
    <3>. QED
      BY <2>1, <2>9, <3>1 DEF Bind, List, Point, Enter, Store, RegisteredWith, TypeOK
  <2>10. CASE Resolve(w)
    <3>1. req[w].number \in Numbers /\ req[w].bundle \in Keys
      BY <2>10 DEF Resolve, RequestsAreFilled
    <3>. QED
      BY <2>1, <2>10, <3>1 DEF Resolve, TypeOK
  <2>11. CASE Begins(w)
    BY <2>2, <2>11, BeginsTypes DEF TypeOK
  <2>. QED
    BY <1>3, <2>5, <2>6, <2>7, <2>8, <2>9, <2>10, <2>11, BeginsIs
    DEF Register, Recover, Backup
<1>4. CASE UNCHANGED vars
  BY <1>4 DEF vars, TypeOK, RequestsAreFilled
<1>. QED
  BY <1>1, <1>2, <1>3, <1>4 DEF Next

-----------------------------------------------------------------------------
(* Numbers, keys and identities belong together.                            *)

Pair(w) == [number |-> req[w].number, key |-> req[w].key]

WorkerProven(w) ==
  /\ req[w].phase \in {"create", "bind", "list", "isKnown", "mint", "point", "store"} =>
       Pair(w) \in proven
  /\ req[w].phase \in {"bind", "list", "point"} => req[w].key \in identities
  /\ req[w].phase \in {"list", "mint", "point"} => req[w].number \in registered
  /\ req[w].phase \in {"store", "resolve"} => entries[req[w].number] # None
  /\ req[w].phase = "resolve" =>
       [number |-> req[w].number, key |-> req[w].bundle] \in proven

LEMMA ProvenParts == RequestsAreProven <=> \A w \in Workers : WorkerProven(w)
BY DEF RequestsAreProven, WorkerProven, Pair

Typed == TypeOK /\ RequestsAreFilled

\* What RestoreResolves says of proofs, and what it says of bundle and mailbox.
RestoredAreProven ==
  \A r \in restored : /\ [number |-> r.number, key |-> r.bundle] \in proven
                      /\ [number |-> r.number, key |-> r.mailbox] \in proven
RestoredBelong == \A r \in restored : r.number \in Undisputed => r.bundle = r.mailbox

LEMMA RestoreParts == RestoreResolves <=> RestoredAreProven /\ RestoredBelong
BY DEF RestoreResolves, RestoredAreProven, RestoredBelong

LEMMA RestorePartsNext == RestoreResolves' <=> RestoredAreProven' /\ RestoredBelong'
BY RestoreParts, PTL

Rows == /\ EntriesLeadSomewhere /\ RegisteredHasAccount /\ RowsAreProven
        /\ BackupsHaveEntries /\ RestoredAreProven

\* The tables only grow, and an entry is replaced but never removed.
Grows == /\ identities \subseteq identities' /\ registered \subseteq registered'
         /\ proven \subseteq proven'
         /\ \A n \in Numbers : entries[n] # None => entries'[n] # None

LEMMA OthersStayProven ==
  ASSUME Typed, RequestsAreProven, Grows, NEW w \in Workers, Others(w),
         WorkerProven(w)'
  PROVE  RequestsAreProven'
<1>1. ASSUME NEW v \in Workers \ {w} PROVE WorkerProven(v)'
  <2>1. req'[v] = req[v] /\ WorkerProven(v)
    BY ProvenParts DEF Others
  <2>2. req[v].phase \in {"store", "resolve"} => req[v].number \in Numbers
    BY DEF Typed, RequestsAreFilled
  <2>. QED
    BY <2>1, <2>2 DEF WorkerProven, Grows, Pair
<1>2. \A v \in Workers : WorkerProven(v)'
  BY <1>1
<1>. QED
  BY <1>2 DEF RequestsAreProven, WorkerProven, Pair

\* A step that touches no table of numbers and keys, and takes its worker to a
\* phase that takes nothing for granted.
Carefree == {"idle", "isTaken", "burn", "consume", "spend", "redeem", "read"}

LEMMA QuietStep ==
  ASSUME Typed, RequestsAreProven, Rows, Quiet, NEW w \in Workers, Others(w),
         req'[w].phase \in Carefree \/ WorkerProven(w)'
  PROVE  RequestsAreProven' /\ Rows'
<1>1. Grows
  BY DEF Quiet, Grows
<1>2. WorkerProven(w)'
  BY DEF Carefree, WorkerProven
<1>3. Rows'
  BY DEF Quiet, Rows, EntriesLeadSomewhere, RegisteredHasAccount, RowsAreProven,
         BackupsHaveEntries, RestoredAreProven
<1>. QED
  BY <1>1, <1>2, <1>3, OthersStayProven

\* The phase after a step, whichever way it ends.
LEMMA PhaseAfter ==
  ASSUME TypeOK, NEW w \in Workers, NEW p \in Phases
  PROVE  /\ Go(w, p) => /\ Others(w) /\ req'[w].phase = p
                        /\ req'[w].number = req[w].number
                        /\ req'[w].key = req[w].key
         /\ Done(w) => Others(w) /\ req'[w].phase = "idle"
<1>1. req[w] \in Request
  BY DEF TypeOK
<1>2. ASSUME Go(w, p)
      PROVE  /\ Others(w) /\ req'[w].phase = p
             /\ req'[w].number = req[w].number /\ req'[w].key = req[w].key
  <2>1. Others(w) /\ req'[w] = [req[w] EXCEPT !.phase = p]
    BY <1>2, GoTypes
  <2>. QED
    BY <1>1, <2>1 DEF Request
<1>3. ASSUME Done(w) PROVE Others(w) /\ req'[w].phase = "idle"
  <2>1. Others(w) /\ req'[w] = Idle
    BY <1>3, GoTypes
  <2>. QED
    BY <2>1, IdleIsRequest
<1>. QED
  BY <1>2, <1>3

LEMMA RowsStep ==
  ASSUME Typed, RequestsAreProven, Rows, NEW w \in Workers, Others(w),
         Register(w) \/ Recover(w) \/ Backup(w) \/ Die(w)
  PROVE  RequestsAreProven' /\ Rows'
<1>. USE DEF tables, history
<1>t. TypeOK /\ req[w] \in Request /\ RequestsAreFilled
  BY DEF Typed, TypeOK
<1>p. WorkerProven(w)
  BY ProvenParts
<1>1. CASE Begins(w)
  <2>1. Quiet /\ req'[w].phase \in Carefree
    BY <1>1, <1>t, BeginsTypes DEF Carefree
  <2>. QED
    BY <2>1, QuietStep
<1>3. CASE IsTaken(w) \/ Burn(w) \/ RestoreConsume(w) \/ Die(w)
  <2>1. Quiet
    BY <1>3 DEF Quiet, IsTaken, Burn, RestoreConsume, Consume, Die
  <2>2. req'[w].phase \in Carefree
    BY <1>3, <1>t, PhaseAfter
    DEF IsTaken, Burn, RestoreConsume, Die, Carefree, Phases
  <2>. QED
    BY <2>1, <2>2, QuietStep
<1>4. CASE IsKnown(w)
  <2>1. Quiet
    BY <1>4 DEF Quiet, IsKnown
  <2>2. CASE Taken(req[w].number)
    <3>1. /\ req'[w].phase = "mint" /\ req'[w].number = req[w].number
          /\ req'[w].key = req[w].key
      BY <1>4, <1>t, <2>2, PhaseAfter DEF IsKnown, Phases
    <3>2. WorkerProven(w)'
      BY <1>4, <1>p, <2>1, <2>2, <3>1 DEF WorkerProven, Pair, IsKnown, Taken, Quiet
    <3>. QED
      BY <2>1, <3>2, QuietStep
  <2>3. CASE ~Taken(req[w].number)
    <3>1. req'[w].phase \in Carefree
      BY <1>4, <1>t, <2>3, PhaseAfter DEF IsKnown, Phases, Carefree
    <3>. QED
      BY <2>1, <3>1, QuietStep
  <2>. QED
    BY <2>2, <2>3
<1>5. CASE RegisterConsume(w) \/ RecoverConsume(w)
  <2>1. /\ proven' = proven \cup {Pair(w)}
        /\ UNCHANGED <<identities, registered, entries, backups, accounts, restored>>
    BY <1>5 DEF RegisterConsume, RecoverConsume, Consume, Prove, Pair
  <2>2. /\ req'[w].phase \in {"create", "isKnown"} /\ Pair(w)' = Pair(w)
    BY <1>5, <1>t, PhaseAfter DEF RegisterConsume, RecoverConsume, Phases, Pair
  <2>3. WorkerProven(w)' /\ Grows
    BY <2>1, <2>2 DEF WorkerProven, Grows
  <2>4. Rows'
    BY <2>1 DEF Rows, EntriesLeadSomewhere, RegisteredHasAccount, RowsAreProven,
                BackupsHaveEntries, RestoredAreProven
  <2>. QED
    BY <2>3, <2>4, OthersStayProven
<1>6. CASE Create(w) \/ Mint(w)
  <2>1. CASE Done(w) /\ UNCHANGED identities
    <3>1. Quiet /\ req'[w].phase \in Carefree
      BY <1>6, <1>t, <2>1, PhaseAfter DEF Create, Mint, Quiet, Carefree, Phases
    <3>. QED
      BY <3>1, QuietStep
  <2>2. CASE identities' = identities \cup {req[w].key} /\ (Go(w, "bind") \/ Go(w, "point"))
    <3>1. UNCHANGED <<registered, entries, backups, accounts, proven, restored>>
      BY <1>6 DEF Create, Mint
    <3>2. /\ Create(w) /\ Go(w, "bind") => req'[w].phase = "bind"
          /\ Mint(w) /\ Go(w, "point") => req'[w].phase = "point"
          /\ req'[w].number = req[w].number /\ req'[w].key = req[w].key
      BY <1>t, <2>2, PhaseAfter DEF Phases
    <3>3. \/ req[w].phase = "create" /\ req'[w].phase = "bind"
          \/ req[w].phase = "mint" /\ req'[w].phase = "point"
      BY <1>6, <1>t, <2>2, PhaseAfter, IdleIsRequest DEF Create, Mint, Phases
    <3>4. WorkerProven(w)' /\ Grows
      BY <1>p, <2>2, <3>1, <3>2, <3>3 DEF WorkerProven, Grows, Pair
    <3>5. Rows'
      BY <2>2, <3>1 DEF Rows, EntriesLeadSomewhere, RegisteredHasAccount,
                        RowsAreProven, BackupsHaveEntries, RestoredAreProven
    <3>. QED
      BY <3>4, <3>5, OthersStayProven
  <2>. QED
    BY <1>6, <2>1, <2>2 DEF Create, Mint, IdentitiesWith
<1>7. CASE Bind(w)
  <2>1. /\ registered' = registered \cup {req[w].number}
        /\ accounts' = [accounts EXCEPT ![req[w].number] = @ \cup {req[w].key}]
        /\ UNCHANGED <<identities, entries, backups, proven, restored>>
    BY <1>7 DEF Bind, RegisteredWith
  <2>2. /\ req[w].number \in Numbers /\ req[w].key \in identities /\ Pair(w) \in proven
        /\ accounts \in [Numbers -> SUBSET Keys]
    BY <1>7, <1>t, <1>p DEF Bind, RequestsAreFilled, WorkerProven, TypeOK
  <2>3. \/ req'[w].phase = "list" /\ req'[w].number = req[w].number
             /\ req'[w].key = req[w].key
        \/ req'[w].phase = "idle"
    BY <1>7, <1>t, PhaseAfter DEF Bind, Phases
  <2>4. WorkerProven(w)' /\ Grows
    BY <2>1, <2>2, <2>3 DEF WorkerProven, Grows, Pair
  <2>5. EntriesLeadSomewhere' /\ BackupsHaveEntries' /\ RestoredAreProven'
    BY <2>1 DEF Rows, EntriesLeadSomewhere, BackupsHaveEntries, RestoredAreProven
  <2>6. RegisteredHasAccount' /\ RowsAreProven'
    BY <2>1, <2>2 DEF Rows, RegisteredHasAccount, RowsAreProven, Pair
  <2>. QED
    BY <2>4, <2>5, <2>6, OthersStayProven DEF Rows
<1>8. CASE List(w) \/ Point(w)
  <2>1. /\ entries' = [entries EXCEPT ![req[w].number] = req[w].key]
        /\ UNCHANGED <<identities, registered, backups, accounts, proven, restored>>
    BY <1>8 DEF List, Point, Enter
  <2>2. /\ req[w].number \in registered /\ req[w].key \in identities
        /\ req[w].number \in Numbers /\ req[w].key \in Keys /\ Pair(w) \in proven
        /\ entries \in [Numbers -> Keys \cup {None}]
    BY <1>8, <1>t, <1>p DEF List, Point, Enter, RequestsAreFilled, WorkerProven, TypeOK
  <2>3. req'[w].phase \in Carefree
    BY <1>8, <1>t, PhaseAfter DEF List, Point, Enter, Carefree, Phases
  <2>4. WorkerProven(w)' /\ Grows
    BY <2>1, <2>2, <2>3, NoneAssumption DEF WorkerProven, Grows, Carefree
  <2>5. Rows'
    BY <2>1, <2>2, NoneAssumption
    DEF Rows, EntriesLeadSomewhere, RegisteredHasAccount, RowsAreProven,
        BackupsHaveEntries, RestoredAreProven, Pair
  <2>. QED
    BY <2>4, <2>5, OthersStayProven
<1>9. ASSUME NEW k \in Keys, BackUp(w, k) PROVE RequestsAreProven' /\ Rows'
  <2>1. Quiet
    BY <1>9 DEF Quiet, BackUp
  <2>2. PICK n \in Numbers :
          /\ entries[n] = k
          /\ req' = [req EXCEPT ![w] = [Idle EXCEPT !.phase = "store", !.key = k,
                                                    !.number = n]]
    BY <1>9 DEF BackUp, EntriesOf
  <2>3. req'[w].phase = "store" /\ req'[w].key = k /\ req'[w].number = n
    BY <2>2, <1>t DEF TypeOK, Idle
  <2>4. WorkerProven(w)'
    BY <2>1, <2>2, <2>3, NoneAssumption DEF WorkerProven, Pair, Rows, RowsAreProven, Quiet
  <2>. QED
    BY <2>1, <2>4, QuietStep
<1>10. CASE Store(w)
  <2>1. /\ backups' = [backups EXCEPT ![req[w].number] = req[w].key]
        /\ UNCHANGED <<identities, registered, entries, accounts, proven, restored>>
    BY <1>10 DEF Store
  <2>2. /\ req[w].number \in Numbers /\ Pair(w) \in proven
        /\ entries[req[w].number] # None
        /\ backups \in [Numbers -> Keys \cup {None}]
    BY <1>10, <1>t, <1>p DEF Store, RequestsAreFilled, WorkerProven, TypeOK
  <2>3. req'[w].phase \in Carefree
    BY <1>10, <1>t, PhaseAfter DEF Store, Carefree, Phases
  <2>4. WorkerProven(w)' /\ Grows
    BY <2>1, <2>3 DEF WorkerProven, Grows, Carefree
  <2>5. Rows'
    BY <2>1, <2>2
    DEF Rows, EntriesLeadSomewhere, RegisteredHasAccount, RowsAreProven,
        BackupsHaveEntries, RestoredAreProven, Pair
  <2>. QED
    BY <2>4, <2>5, OthersStayProven
<1>11. CASE ReadBackup(w)
  <2>1. Quiet /\ req[w].phase = "read" /\ req[w].number \in Numbers
    BY <1>11, <1>t DEF Quiet, ReadBackup, RequestsAreFilled
  <2>2. CASE backups[req[w].number] = None
    <3>1. req'[w].phase \in Carefree
      BY <1>11, <1>t, <2>2, PhaseAfter DEF ReadBackup, Carefree, Phases
    <3>. QED
      BY <2>1, <3>1, QuietStep
  <2>3. CASE backups[req[w].number] # None
    <3>1. /\ req'[w].phase = "resolve" /\ req'[w].number = req[w].number
          /\ req'[w].bundle = backups[req[w].number]
      BY <1>11, <1>t, <2>3 DEF ReadBackup, TypeOK, Request
    <3>2. backups[req[w].number] \in Keys
      BY <1>t, <2>1, <2>3 DEF TypeOK
    <3>3. WorkerProven(w)'
      BY <2>1, <2>3, <3>1, <3>2
      DEF WorkerProven, Rows, RowsAreProven, BackupsHaveEntries, Quiet
    <3>. QED
      BY <2>1, <3>3, QuietStep
  <2>. QED
    BY <2>2, <2>3
<1>12. CASE Resolve(w)
  <2>1. /\ restored' = restored \cup {[number |-> req[w].number,
                                       bundle |-> req[w].bundle,
                                       mailbox |-> entries[req[w].number]]}
        /\ UNCHANGED <<identities, registered, entries, backups, accounts, proven>>
    BY <1>12 DEF Resolve
  <2>2. /\ req[w].number \in Numbers /\ entries[req[w].number] # None
        /\ [number |-> req[w].number, key |-> req[w].bundle] \in proven
    BY <1>12, <1>t, <1>p DEF Resolve, RequestsAreFilled, WorkerProven
  <2>3. [number |-> req[w].number, key |-> entries[req[w].number]] \in proven
    <3>1. entries[req[w].number] \in Keys
      BY <1>t, <2>2 DEF TypeOK
    <3>. QED
      BY <2>2, <3>1 DEF Rows, RowsAreProven
  <2>4. req'[w].phase \in Carefree
    BY <1>12, <1>t, PhaseAfter DEF Resolve, Carefree, Phases
  <2>5. WorkerProven(w)' /\ Grows
    BY <2>1, <2>4 DEF WorkerProven, Grows, Carefree
  <2>6. RestoredAreProven'
    <3>1. ASSUME NEW r \in restored'
          PROVE  /\ [number |-> r.number, key |-> r.bundle] \in proven
                 /\ [number |-> r.number, key |-> r.mailbox] \in proven
      <4>1. CASE r \in restored
        BY <4>1 DEF Rows, RestoredAreProven
      <4>2. CASE r \notin restored
        <5>1. /\ r.number = req[w].number /\ r.bundle = req[w].bundle
              /\ r.mailbox = entries[req[w].number]
          BY <2>1, <3>1, <4>2
        <5>. QED
          BY <2>2, <2>3, <5>1
      <4>. QED
        BY <4>1, <4>2
    <3>. QED
      BY <2>1, <3>1 DEF RestoredAreProven
  <2>7. Rows'
    BY <2>1, <2>6
    DEF Rows, EntriesLeadSomewhere, RegisteredHasAccount, RowsAreProven,
        BackupsHaveEntries
  <2>. QED
    BY <2>5, <2>7, OthersStayProven
<1>. QED
  BY <1>1, <1>3, <1>4, <1>5, <1>6, <1>7, <1>8, <1>9, <1>10, <1>11, <1>12, BeginsIs
  DEF Register, Recover, Backup

-----------------------------------------------------------------------------
(* How many accounts a number gets.                                         *)

LEMMA BindingIsFinite ==
  ASSUME NEW n \in Numbers
  PROVE  /\ IsFiniteSet(Binding(n)) /\ Cardinality(Binding(n)) \in Nat
         /\ Cardinality(Binding(n)) <= Cardinality(Workers)
         /\ Cardinality(Workers) \in Nat
<1>1. Binding(n) \subseteq Workers
  BY DEF Binding
<1>. QED
  BY <1>1, WorkersAssumption, FS_Subset, FS_CardinalityType

LEMMA BindingIsFiniteNext ==
  ASSUME NEW n \in Numbers
  PROVE  /\ IsFiniteSet(Binding(n)') /\ Cardinality(Binding(n)') \in Nat
         /\ Cardinality(Binding(n)') <= Cardinality(Workers)
<1>1. Binding(n)' \subseteq Workers
  BY DEF Binding
<1>. QED
  BY <1>1, WorkersAssumption, FS_Subset, FS_CardinalityType

LEMMA RoomIsNatural ==
  ASSUME NEW n \in Numbers
  PROVE  Room(n) \in Nat /\ Room(n)' \in Nat
BY BindingIsFinite DEF Room

\* The bound for one number.
Bounded(n) ==
  /\ IsFiniteSet(accounts[n])
  /\ Cardinality(accounts[n]) + Cardinality(Binding(n)) <= Room(n)

LEMMA FewerBinding ==
  ASSUME NEW n \in Numbers, Bounded(n), accounts'[n] = accounts[n],
         n \in raced' <=> n \in raced, Binding(n)' \subseteq Binding(n)
  PROVE  Bounded(n)'
<1>1. Cardinality(Binding(n)') <= Cardinality(Binding(n))
  BY BindingIsFinite, FS_Subset
<1>2. Cardinality(accounts[n]) \in Nat
  BY FS_CardinalityType DEF Bounded
<1>3. Room(n)' = Room(n)
  BY DEF Room
<1>. QED
  BY <1>1, <1>2, <1>3, RoomIsNatural, BindingIsFinite, BindingIsFiniteNext DEF Bounded

\* A worker passes the re-check of a number without accounts.
LEMMA PassBounded ==
  ASSUME NEW n \in Numbers, NEW w \in Workers, Others(w), accounts'[n] = {},
         raced' = IF Binding(n) = {} THEN raced ELSE raced \cup {n}
  PROVE  Bounded(n)'
<1>1. IsFiniteSet(accounts'[n]) /\ Cardinality(accounts'[n]) = 0
  BY FS_EmptySet
<1>2. CASE n \in raced'
  <2>1. Room(n)' = Cardinality(Workers)
    BY <1>2 DEF Room
  <2>. QED
    BY <1>1, <2>1, BindingIsFinite, BindingIsFiniteNext DEF Bounded
<1>3. CASE n \notin raced'
  <2>1. Binding(n)' \subseteq {w}
    BY <1>3 DEF Binding, Others
  <2>2. Cardinality(Binding(n)') <= 1
    <3> DEFINE B == Binding(n)'
    <3>1. IsFiniteSet({w}) /\ Cardinality({w}) = 1
      BY FS_Singleton
    <3>2. B \subseteq {w}
      BY <2>1
    <3> HIDE DEF B
    <3>3. Cardinality(B) <= Cardinality({w})
      BY <3>1, <3>2, FS_Subset
    <3>. QED
      BY <3>1, <3>3 DEF B
  <2>3. Room(n)' = 1
    BY <1>3 DEF Room
  <2>. QED
    BY <1>1, <2>2, <2>3, BindingIsFiniteNext DEF Bounded
<1>. QED
  BY <1>2, <1>3

LEMMA BoundStep ==
  ASSUME Typed, RegisteredHasAccount, AccountsAreBounded, NEW w \in Workers,
         Others(w), Register(w) \/ Recover(w) \/ Backup(w) \/ Die(w),
         NEW n \in Numbers
  PROVE  Bounded(n)'
<1>. USE DEF tables, history
<1>t. TypeOK /\ req[w] \in Request /\ RequestsAreFilled /\ Bounded(n)
  BY DEF Typed, TypeOK, AccountsAreBounded, Bounded
<1>k. ASSUME req'[w].phase \notin {"consume", "create", "bind"}
      PROVE  Binding(n)' \subseteq Binding(n) \ {w}
  BY <1>k DEF Binding, Others
<1>s. ASSUME req[w].phase \in {"consume", "create"}, req'[w].number = req[w].number
      PROVE  Binding(n)' \subseteq Binding(n)
  BY <1>s DEF Binding, Others
<1>1. CASE IsTaken(w) \/ Bind(w)
  <2>1. CASE IsTaken(w) /\ n # req[w].number
    <3>1. req'[w].number = req[w].number
      BY <1>t, <2>1, PhaseAfter DEF IsTaken, Phases
    <3>2. Binding(n)' \subseteq Binding(n)
      BY <2>1, <3>1 DEF Binding, Others
    <3>3. n \in raced' <=> n \in raced
      BY <2>1 DEF IsTaken
    <3>. QED
      BY <1>t, <2>1, <3>2, <3>3, FewerBinding DEF IsTaken
  <2>2. CASE IsTaken(w) /\ n = req[w].number
    <3>1. CASE n \in registered
      <4>1. req'[w].phase = "burn"
        BY <1>t, <2>2, <3>1, PhaseAfter DEF IsTaken, Taken, Phases
      <4>2. UNCHANGED <<accounts, raced>>
        BY <2>2, <3>1 DEF IsTaken, Taken
      <4>. QED
        BY <1>t, <1>k, <4>1, <4>2, FewerBinding
    <3>2. CASE n \notin registered
      <4>1. accounts'[n] = {}
        BY <2>2, <3>2 DEF IsTaken, RegisteredHasAccount
      <4>2. raced' = IF Binding(n) = {} THEN raced ELSE raced \cup {n}
        BY <2>2, <3>2 DEF IsTaken, Taken
      <4>. QED
        BY <4>1, <4>2, PassBounded
    <3>. QED
      BY <3>1, <3>2
  <2>3. CASE Bind(w)
    <3>1. /\ req[w].number \in Numbers /\ req[w].phase = "bind"
          /\ accounts' = [accounts EXCEPT ![req[w].number] = @ \cup {req[w].key}]
          /\ accounts \in [Numbers -> SUBSET Keys] /\ raced' = raced
      BY <1>t, <2>3 DEF Bind, RequestsAreFilled, TypeOK
    <3>2. req'[w].phase \in {"list", "idle"}
      BY <1>t, <2>3, PhaseAfter DEF Bind, Phases
    <3>3. Binding(n)' \subseteq Binding(n) \ {w}
      BY <1>k, <3>2
    <3>4. CASE n # req[w].number
      BY <1>t, <3>1, <3>3, <3>4, FewerBinding
    <3>5. CASE n = req[w].number
      <4>1. w \in Binding(n)
        BY <3>1, <3>5 DEF Binding
      <4>2. /\ Cardinality(Binding(n) \ {w}) = Cardinality(Binding(n)) - 1
            /\ IsFiniteSet(Binding(n) \ {w})
        BY <4>1, BindingIsFinite, FS_RemoveElement
      <4>3. Cardinality(Binding(n)') <= Cardinality(Binding(n)) - 1
        BY <3>3, <4>2, FS_Subset
      <4>4. accounts'[n] = accounts[n] \cup {req[w].key} /\ IsFiniteSet(accounts[n])
        BY <1>t, <3>1, <3>5 DEF Bounded
      <4>5. /\ IsFiniteSet(accounts'[n]) /\ Cardinality(accounts[n]) \in Nat
            /\ Cardinality(accounts'[n]) \in Nat
            /\ Cardinality(accounts'[n]) <= Cardinality(accounts[n]) + 1
        <5> DEFINE A == accounts[n]
        <5> DEFINE x == req[w].key
        <5>1. IsFiniteSet(A) /\ accounts'[n] = A \cup {x}
          BY <4>4
        <5> HIDE DEF A, x
        <5>2. Cardinality(A) \in Nat
          BY <5>1, FS_CardinalityType
        <5>3. /\ IsFiniteSet(A \cup {x})
              /\ Cardinality(A \cup {x}) = IF x \in A THEN Cardinality(A)
                                            ELSE Cardinality(A) + 1
          BY <5>1, FS_AddElement
        <5>. QED
          BY <5>1, <5>2, <5>3 DEF A
      <4>. QED
        BY <1>t, <3>1, <4>3, <4>5, RoomIsNatural, BindingIsFinite, BindingIsFiniteNext
        DEF Bounded, Room
    <3>. QED
      BY <3>4, <3>5
  <2>. QED
    BY <1>1, <2>1, <2>2, <2>3
<1>2. CASE RegisterConsume(w) \/ Create(w)
  <2>1. UNCHANGED <<accounts, raced>>
    BY <1>2 DEF RegisterConsume, Consume, Create
  <2>2. CASE Done(w)
    <3>1. req'[w].phase = "idle"
      BY <1>t, <2>2, PhaseAfter DEF Phases
    <3>. QED
      BY <1>k, <1>t, <2>1, <3>1, FewerBinding
  <2>3. CASE ~Done(w)
    <3>1. req'[w].number = req[w].number /\ req[w].phase \in {"consume", "create"}
      BY <1>t, <1>2, <2>3, PhaseAfter DEF RegisterConsume, Consume, Create, Phases
    <3>. QED
      BY <1>s, <1>t, <2>1, <3>1, FewerBinding
  <2>. QED
    BY <2>2, <2>3
<1>3. ASSUME UNCHANGED <<accounts, raced>>, req'[w].phase \notin {"consume", "create", "bind"}
      PROVE  Bounded(n)'
  BY <1>3, <1>k, <1>t, FewerBinding
<1>4. CASE Begins(w)
  <2>1. /\ UNCHANGED <<accounts, raced>>
        /\ req'[w].phase \notin {"consume", "create", "bind"}
    BY <1>4, <1>t, BeginsTypes DEF Quiet
  <2>. QED
    BY <1>3, <2>1
<1>6. CASE Burn(w) \/ List(w) \/ RecoverConsume(w) \/ IsKnown(w) \/ Mint(w)
           \/ Point(w)
  <2>1. req'[w].phase \notin {"consume", "create", "bind"}
    BY <1>6, <1>t, PhaseAfter DEF Burn, List, Point, Enter, RecoverConsume, IsKnown, Mint, Phases
  <2>. QED
    BY <1>3, <1>6, <2>1 DEF Burn, Consume, List, Point, Enter, RecoverConsume, IsKnown, Mint
<1>7. CASE Store(w) \/ RestoreConsume(w) \/ Resolve(w) \/ Die(w)
  <2>1. req'[w].phase \notin {"consume", "create", "bind"}
    BY <1>7, <1>t, PhaseAfter DEF Store, RestoreConsume, Resolve, Die, Phases
  <2>. QED
    BY <1>3, <1>7, <2>1 DEF Store, RestoreConsume, Consume, Resolve, Die
<1>8. CASE ReadBackup(w) \/ \E k \in Keys : BackUp(w, k)
  <2>1. CASE ReadBackup(w)
    <3>1. req'[w].phase \in {"idle", "resolve"}
      <4>1. CASE Done(w)
        <5>1. "idle" \in Phases
          BY DEF Phases
        <5>. QED
          BY <1>t, <4>1, <5>1, PhaseAfter
      <4>2. CASE ~Done(w)
        <5> DEFINE b == backups[req[w].number]
        <5>0. req' = [req EXCEPT ![w] = [@ EXCEPT !.phase = "resolve", !.bundle = b]]
          BY <2>1, <4>2 DEF ReadBackup
        <5> HIDE DEF b
        <5>1. req'[w] = [req[w] EXCEPT !.phase = "resolve", !.bundle = b]
          BY <1>t, <5>0 DEF TypeOK
        <5>. QED
          BY <1>t, <5>1 DEF Request
      <4>. QED
        BY <4>1, <4>2
    <3>. QED
      BY <1>3, <2>1, <3>1 DEF ReadBackup
  <2>2. ASSUME NEW k \in Keys, BackUp(w, k) PROVE Bounded(n)'
    <3>1. req'[w].phase = "store"
      BY <1>t, <2>2 DEF BackUp, EntriesOf, Idle, TypeOK
    <3>. QED
      BY <1>3, <2>2, <3>1 DEF BackUp
  <2>. QED
    BY <1>8, <2>1, <2>2
<1>. QED
  BY <1>1, <1>2, <1>4, <1>6, <1>7, <1>8, BeginsIs DEF Register, Recover, Backup

-----------------------------------------------------------------------------

(* Undisputed numbers: their rows are those of their one account.           *)

OwnRows(n) ==
  {entries[n], backups[n]} \subseteq accounts[n] \cup {None}

\* Worker w is about to store, or to restore, what the account of n owns.
OwnRequest(w, n) ==
  /\ req[w].phase \in {"list", "store"} => req[w].key \in accounts[n]
  /\ req[w].phase = "resolve" => req[w].bundle \in accounts[n]

LEMMA OwnParts ==
  RowsAreTheAccounts <=>
    \A n \in Undisputed :
      OwnRows(n) /\ \A w \in Workers : req[w].number = n => OwnRequest(w, n)
BY DEF RowsAreTheAccounts, OwnRows, OwnRequest

\* One worker's step: numbers are only ever taken off Undisputed and accounts only added,
\* so the other workers need no second look.
LEMMA OwnStep ==
  ASSUME RowsAreTheAccounts, RestoredBelong, NEW w \in Workers, Others(w),
         Undisputed' \subseteq Undisputed,
         \A n \in Undisputed' :
           /\ accounts[n] \subseteq accounts'[n]
           /\ OwnRows(n) => OwnRows(n)'
           /\ OwnRows(n) /\ (req[w].number = n => OwnRequest(w, n)) =>
                (req'[w].number = n => OwnRequest(w, n)'),
         \A r \in restored' : r \in restored \/ (r.number \in Undisputed' => r.bundle = r.mailbox)
  PROVE  RowsAreTheAccounts' /\ RestoredBelong'
<1>1. RestoredBelong'
  BY DEF RestoredBelong
<1>2. ASSUME NEW n \in Undisputed'
      PROVE  OwnRows(n)' /\ \A v \in Workers : req'[v].number = n => OwnRequest(v, n)'
  <2>1. /\ n \in Undisputed /\ OwnRows(n)
        /\ \A v \in Workers : req[v].number = n => OwnRequest(v, n)
    BY <1>2, OwnParts
  <2>2. ASSUME NEW v \in Workers \ {w}, req'[v].number = n PROVE OwnRequest(v, n)'
    BY <1>2, <2>1, <2>2 DEF OwnRequest, Others
  <2>. QED
    BY <1>2, <2>1, <2>2
<1>. QED
  BY <1>1, <1>2 DEF RowsAreTheAccounts, OwnRows, OwnRequest

LEMMA UndisputedShrinks ==
  ASSUME raced \subseteq raced', recovered \subseteq recovered'
  PROVE  Undisputed' \subseteq Undisputed
BY DEF Undisputed

\* Two members of the accounts of an undisputed number are one.
LEMMA OneAccount ==
  ASSUME AccountsAreBounded, NEW n \in Undisputed,
         NEW j \in accounts[n], NEW k \in accounts[n]
  PROVE  j = k
<1>1. SUFFICES ASSUME j # k PROVE FALSE
  OBVIOUS
<1>2. n \in Numbers /\ Room(n) = 1
  BY DEF Undisputed, Room
<1>3. IsFiniteSet(accounts[n]) /\ Cardinality(accounts[n]) + Cardinality(Binding(n)) <= 1
  BY <1>2 DEF AccountsAreBounded
<1>4. IsFiniteSet({j}) /\ Cardinality({j}) = 1
  BY FS_Singleton
<1>5. Cardinality({j} \cup {k}) = Cardinality({j}) + 1 /\ IsFiniteSet({j} \cup {k})
  BY <1>1, <1>4, FS_AddElement
<1>6. Cardinality({j} \cup {k}) <= Cardinality(accounts[n])
  <2> DEFINE two == {j} \cup {k}
  <2>1. two \subseteq accounts[n]
    OBVIOUS
  <2> HIDE DEF two
  <2>. QED
    BY <1>3, <2>1, FS_Subset DEF two
<1>7. Cardinality(accounts[n]) \in Nat /\ Cardinality(Binding(n)) \in Nat
  BY <1>2, <1>3, BindingIsFinite, FS_CardinalityType
<1>. QED
  BY <1>3, <1>4, <1>5, <1>6, <1>7

LEMMA AccountsStep ==
  ASSUME Typed, RequestsAreProven, AccountsAreBounded, RowsAreTheAccounts, RestoredBelong,
         NEW w \in Workers, Others(w),
         Register(w) \/ Recover(w) \/ Backup(w) \/ Die(w)
  PROVE  RowsAreTheAccounts' /\ RestoredBelong'
<1>. USE DEF tables, history
<1>t. TypeOK /\ req[w] \in Request /\ RequestsAreFilled /\ WorkerProven(w)
  BY ProvenParts DEF Typed, TypeOK
<1>q. ASSUME UNCHANGED <<entries, backups, accounts, restored, recovered>>,
             raced \subseteq raced',
             req'[w].phase \notin {"list", "store", "resolve"}
      PROVE  RowsAreTheAccounts' /\ RestoredBelong'
  <2>1. Undisputed' \subseteq Undisputed
    BY <1>q, UndisputedShrinks
  <2>2. \A n \in Undisputed' : OwnRequest(w, n)' /\ (OwnRows(n) => OwnRows(n)')
    BY <1>q DEF OwnRequest, OwnRows
  <2>. QED
    BY <1>q, <2>1, <2>2, OwnStep
<1>1. CASE Begins(w)
  BY <1>1, <1>q, <1>t, BeginsTypes DEF Quiet
<1>2. CASE IsTaken(w) \/ Burn(w) \/ RestoreConsume(w) \/ Die(w) \/ IsKnown(w)
           \/ RegisterConsume(w) \/ RecoverConsume(w) \/ Create(w) \/ Mint(w)
  <2>1. /\ UNCHANGED <<entries, backups, accounts, restored, recovered>>
        /\ raced \subseteq raced'
    BY <1>2 DEF IsTaken, Burn, RestoreConsume, Consume, Die, IsKnown, RegisterConsume,
                RecoverConsume, Create, Mint
  <2>2. req'[w].phase \notin {"list", "store", "resolve"}
    BY <1>2, <1>t, PhaseAfter
    DEF IsTaken, Burn, RestoreConsume, Die, IsKnown, RegisterConsume,
        RecoverConsume, Create, Mint, Phases
  <2>. QED
    BY <1>q, <2>1, <2>2
<1>3. CASE Bind(w)
  <2>1. /\ accounts' = [accounts EXCEPT ![req[w].number] = @ \cup {req[w].key}]
        /\ UNCHANGED <<entries, backups, restored, recovered, raced>>
        /\ accounts \in [Numbers -> SUBSET Keys] /\ req[w].number \in Numbers
    BY <1>3, <1>t DEF Bind, RequestsAreFilled, TypeOK
  <2>2. \/ req'[w].phase = "list" /\ req'[w].number = req[w].number
             /\ req'[w].key = req[w].key
        \/ req'[w].phase = "idle"
    BY <1>3, <1>t, PhaseAfter DEF Bind, Phases
  <2>3. Undisputed' = Undisputed /\ Undisputed \subseteq Numbers
    BY <2>1 DEF Undisputed
  <2>4. ASSUME NEW n \in Undisputed'
        PROVE  /\ accounts[n] \subseteq accounts'[n]
               /\ OwnRows(n) => OwnRows(n)'
               /\ req'[w].number = n => OwnRequest(w, n)'
    BY <2>1, <2>2, <2>3 DEF OwnRows, OwnRequest
  <2>. QED
    BY <2>1, <2>3, <2>4, OwnStep
<1>4. CASE List(w)
  <2>1. /\ entries' = [entries EXCEPT ![req[w].number] = req[w].key]
        /\ UNCHANGED <<backups, accounts, restored, recovered, raced>>
        /\ entries \in [Numbers -> Keys \cup {None}] /\ req[w].phase = "list"
    BY <1>4, <1>t DEF List, Enter, TypeOK
  <2>2. req'[w].phase = "idle"
    BY <1>4, <1>t, PhaseAfter DEF List, Enter, Phases
  <2>3. Undisputed' = Undisputed /\ Undisputed \subseteq Numbers
    BY <2>1 DEF Undisputed
  <2>4. ASSUME NEW n \in Undisputed' PROVE OwnRows(n) => OwnRows(n)'
    <3>1. req[w].number = n => req[w].key \in accounts[n]
      BY <2>1, <2>3, OwnParts DEF OwnRequest
    <3>. QED
      BY <2>1, <2>3, <3>1 DEF OwnRows
  <2>5. \A n \in Undisputed' : OwnRequest(w, n)'
    BY <2>2 DEF OwnRequest
  <2>. QED
    BY <2>1, <2>3, <2>4, <2>5, OwnStep
<1>5. CASE Point(w)
  <2>1. /\ entries' = [entries EXCEPT ![req[w].number] = req[w].key]
        /\ UNCHANGED <<backups, accounts, restored, raced>>
        /\ recovered' = recovered \cup {req[w].number}
        /\ entries \in [Numbers -> Keys \cup {None}]
    BY <1>5, <1>t DEF Point, Enter, TypeOK
  <2>2. req'[w].phase = "idle"
    BY <1>5, <1>t, PhaseAfter DEF Point, Enter, Phases
  <2>3. Undisputed' \subseteq Undisputed /\ req[w].number \notin Undisputed'
    BY <2>1 DEF Undisputed
  <2>4. \A n \in Undisputed' : (OwnRows(n) => OwnRows(n)') /\ OwnRequest(w, n)'
    BY <2>1, <2>2, <2>3 DEF OwnRows, OwnRequest, Undisputed
  <2>. QED
    BY <2>1, <2>3, <2>4, OwnStep
<1>6. ASSUME NEW k \in Keys, BackUp(w, k) PROVE RowsAreTheAccounts' /\ RestoredBelong'
  <2>1. UNCHANGED <<entries, backups, accounts, restored, recovered, raced>>
    BY <1>6 DEF BackUp
  <2>2. PICK m \in Numbers :
          /\ entries[m] = k
          /\ req' = [req EXCEPT ![w] = [Idle EXCEPT !.phase = "store", !.key = k,
                                                    !.number = m]]
    BY <1>6 DEF BackUp, EntriesOf
  <2>3. req'[w].phase = "store" /\ req'[w].key = k /\ req'[w].number = m
    BY <2>2, <1>t DEF TypeOK, Idle
  <2>4. Undisputed' = Undisputed
    BY <2>1 DEF Undisputed
  <2>5. ASSUME NEW n \in Undisputed'
        PROVE  /\ OwnRows(n) => OwnRows(n)'
               /\ OwnRows(n) => (req'[w].number = n => OwnRequest(w, n)')
    BY <2>1, <2>2, <2>3, NoneAssumption DEF OwnRows, OwnRequest
  <2>. QED
    BY <2>1, <2>4, <2>5, OwnStep
<1>7. CASE Store(w)
  <2>1. /\ backups' = [backups EXCEPT ![req[w].number] = req[w].key]
        /\ UNCHANGED <<entries, accounts, restored, recovered, raced>>
        /\ backups \in [Numbers -> Keys \cup {None}] /\ req[w].phase = "store"
    BY <1>7, <1>t DEF Store, TypeOK
  <2>2. req'[w].phase = "idle"
    BY <1>7, <1>t, PhaseAfter DEF Store, Phases
  <2>3. Undisputed' = Undisputed /\ Undisputed \subseteq Numbers
    BY <2>1 DEF Undisputed
  <2>4. ASSUME NEW n \in Undisputed' PROVE OwnRows(n) => OwnRows(n)'
    <3>1. req[w].number = n => req[w].key \in accounts[n]
      BY <2>1, <2>3, OwnParts DEF OwnRequest
    <3>. QED
      BY <2>1, <2>3, <3>1 DEF OwnRows
  <2>5. \A n \in Undisputed' : OwnRequest(w, n)'
    BY <2>2 DEF OwnRequest
  <2>. QED
    BY <2>1, <2>3, <2>4, <2>5, OwnStep
<1>8. CASE ReadBackup(w)
  <2>1. UNCHANGED <<entries, backups, accounts, restored, recovered, raced>>
    BY <1>8 DEF ReadBackup
  <2>2. CASE backups[req[w].number] = None
    <3>1. req'[w].phase = "idle"
      BY <1>8, <1>t, <2>2, PhaseAfter DEF ReadBackup, Phases
    <3>. QED
      BY <1>q, <2>1, <3>1
  <2>3. CASE backups[req[w].number] # None
    <3>1. /\ req'[w].phase = "resolve" /\ req'[w].number = req[w].number
          /\ req'[w].bundle = backups[req[w].number]
      BY <1>8, <1>t, <2>3 DEF ReadBackup, TypeOK, Request
    <3>2. Undisputed' = Undisputed
      BY <2>1 DEF Undisputed
    <3>3. ASSUME NEW n \in Undisputed'
          PROVE  /\ OwnRows(n) => OwnRows(n)'
                 /\ OwnRows(n) => (req'[w].number = n => OwnRequest(w, n)')
      BY <2>1, <2>3, <3>1 DEF OwnRows, OwnRequest
    <3>. QED
      BY <2>1, <3>2, <3>3, OwnStep
  <2>. QED
    BY <2>2, <2>3
<1>9. CASE Resolve(w)
  <2>1. /\ restored' = restored \cup {[number |-> req[w].number,
                                       bundle |-> req[w].bundle,
                                       mailbox |-> entries[req[w].number]]}
        /\ UNCHANGED <<entries, backups, accounts, recovered, raced>>
        /\ req[w].phase = "resolve"
    BY <1>9 DEF Resolve
  <2>2. req'[w].phase = "idle"
    BY <1>9, <1>t, PhaseAfter DEF Resolve, Phases
  <2>3. Undisputed' = Undisputed
    BY <2>1 DEF Undisputed
  <2>4. req[w].number \in Undisputed => req[w].bundle = entries[req[w].number]
    <3>1. ASSUME req[w].number \in Undisputed
          PROVE  req[w].bundle \in accounts[req[w].number]
                 /\ entries[req[w].number] \in accounts[req[w].number]
      BY <1>t, <2>1, <3>1, OwnParts DEF OwnRequest, OwnRows, WorkerProven
    <3>. QED
      BY <3>1, OneAccount
  <2>5. \A n \in Undisputed' : (OwnRows(n) => OwnRows(n)') /\ OwnRequest(w, n)'
    BY <2>1, <2>2 DEF OwnRows, OwnRequest
  <2>6. \A r \in restored' :
          r \in restored \/ (r.number \in Undisputed' => r.bundle = r.mailbox)
    BY <2>1, <2>3, <2>4
  <2>. QED
    BY <2>1, <2>3, <2>5, <2>6, OwnStep
<1>. QED
  BY <1>1, <1>2, <1>3, <1>4, <1>5, <1>6, <1>7, <1>8, <1>9, BeginsIs
  DEF Register, Recover, Backup

-----------------------------------------------------------------------------

LEMMA InvInit == Init => Inv
<1>. SUFFICES ASSUME Init PROVE Inv
  OBVIOUS
<1>1. \A w \in Workers : req[w] = Idle /\ req[w].phase = "idle"
  BY IdleIsRequest DEF Init
<1>2. TypeOK
  BY IdleIsRequest DEF Init, TypeOK
<1>3. RequestsAreFilled /\ RequestsAreProven
  BY <1>1 DEF RequestsAreFilled, RequestsAreProven
<1>4. /\ EntriesLeadSomewhere /\ RegisteredHasAccount /\ RowsAreProven
      /\ BackupsHaveEntries /\ RestoreResolves
  BY NoneAssumption
  DEF Init, EntriesLeadSomewhere, RegisteredHasAccount, RowsAreProven,
      BackupsHaveEntries, RestoreResolves
<1>5. AccountsAreBounded
  <2>1. ASSUME NEW n \in Numbers
        PROVE  accounts[n] = {} /\ Binding(n) = {} /\ Room(n) = 1
    BY <1>1 DEF Init, Binding, Room
  <2>. QED
    BY <2>1, FS_EmptySet DEF AccountsAreBounded
<1>6. RowsAreTheAccounts
  BY <1>1 DEF Init, RowsAreTheAccounts, Undisputed
<1>. QED
  BY <1>2, <1>3, <1>4, <1>5, <1>6 DEF Inv

LEMMA InvStep == Inv /\ [Next]_vars => Inv'
<1>. SUFFICES ASSUME Inv, [Next]_vars PROVE Inv'
  OBVIOUS
<1>t. TypeOK' /\ RequestsAreFilled'
  BY TypeStep DEF Inv
<1>p. /\ Typed /\ Rows /\ RequestsAreProven /\ AccountsAreBounded
      /\ RowsAreTheAccounts /\ RestoredBelong
  BY RestoreParts DEF Inv, Typed, Rows
<1>q. ASSUME Quiet, req' = req, raced' = raced PROVE Inv'
  <2>1. Rows'
    BY <1>p, <1>q DEF Quiet, Rows, EntriesLeadSomewhere, RegisteredHasAccount,
                      RowsAreProven, BackupsHaveEntries, RestoredAreProven
  <2>2. RequestsAreProven'
    BY <1>p, <1>q DEF Quiet, RequestsAreProven
  <2>3. AccountsAreBounded'
    BY <1>p, <1>q DEF Quiet, AccountsAreBounded, Binding, Room
  <2>4. RowsAreTheAccounts' /\ RestoredBelong'
    BY <1>p, <1>q DEF Quiet, RowsAreTheAccounts, RestoredBelong, Undisputed
  <2>. QED
    BY <1>t, <2>1, <2>2, <2>3, <2>4, RestorePartsNext DEF Inv, Rows
<1>1. ASSUME NEW n \in Numbers, NEW purpose \in Purposes, RequestCode(n, purpose)
      PROVE  Inv'
  BY <1>1, <1>q DEF RequestCode, Quiet, tables, history
<1>2. ASSUME NEW t \in Tokens, IssueToken(t) \/ Lapse(t) PROVE Inv'
  BY <1>2, <1>q DEF IssueToken, Lapse, Quiet, tables, history
<1>3. ASSUME NEW w \in Workers, Register(w) \/ Recover(w) \/ Backup(w) \/ Die(w)
      PROVE  Inv'
  <2>1. Others(w)
    BY <1>3, <1>p, WorkerTypes DEF Typed
  <2>2. RequestsAreProven' /\ Rows'
    BY <1>3, <1>p, <2>1, RowsStep
  <2>3. \A n \in Numbers : Bounded(n)'
    BY <1>3, <1>p, <2>1, BoundStep DEF Rows
  <2>4. RowsAreTheAccounts' /\ RestoredBelong'
    BY <1>3, <1>p, <2>1, AccountsStep
  <2>. QED
    BY <1>t, <2>2, <2>3, <2>4, RestorePartsNext DEF Inv, Rows, AccountsAreBounded, Bounded
<1>4. CASE UNCHANGED vars
  BY <1>4, <1>q DEF vars, Quiet
<1>. QED
  BY <1>1, <1>2, <1>3, <1>4 DEF Next

\* The invariant holds however the statements of all handlers interleave.
THEOREM InvHolds == Spec => []Inv
BY InvInit, InvStep, PTL DEF Spec

\* Entries lead to identities of registered numbers, a registered number has an
\* account, keys and numbers are tied by tokens only, and a backup is answered
\* with a mailbox proven for its number.
THEOREM NumbersSafe ==
  Spec => [](EntriesLeadSomewhere /\ RegisteredHasAccount /\ RowsAreProven
             /\ RestoreResolves)
<1>1. Inv => EntriesLeadSomewhere /\ RegisteredHasAccount /\ RowsAreProven
             /\ RestoreResolves
  BY DEF Inv
<1>. QED
  BY <1>1, InvHolds, PTL

\* A registered number has an account, whatever dies between the statements.
THEOREM AccountsThere == Spec => []RegisteredHasAccount
<1>1. Inv => RegisteredHasAccount
  BY DEF Inv
<1>. QED
  BY <1>1, InvHolds, PTL

\* A restore answers with a bundle and a mailbox of its number, and of one identity unless
\* the number has been recovered or raced for.
THEOREM RestoresResolve == Spec => []RestoreResolves
<1>1. Inv => RestoreResolves
  BY DEF Inv
<1>. QED
  BY <1>1, InvHolds, PTL

\* A number gets one account, or, once two registers were between the re-check and
\* the mark at the same time, one for each request the server serves at once.
THEOREM OverlapBounds == Spec => []OverlapBoundsAccounts
<1>1. Inv => OverlapBoundsAccounts
  <2>. SUFFICES ASSUME Inv, NEW n \in Numbers
                PROVE  Cardinality(accounts[n]) <= Room(n)
    BY DEF OverlapBoundsAccounts
  <2>1. /\ IsFiniteSet(accounts[n])
        /\ Cardinality(accounts[n]) + Cardinality(Binding(n)) <= Room(n)
    BY DEF Inv, AccountsAreBounded
  <2>. QED
    BY <2>1, RoomIsNatural, BindingIsFinite, FS_CardinalityType
<1>. QED
  BY <1>1, InvHolds, PTL
=============================================================================
