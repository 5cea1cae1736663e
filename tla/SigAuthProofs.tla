----------------------------- MODULE SigAuthProofs -----------------------------
(* Machine-checked theorems about SigAuth, for every set of keys and nonces,  *)
(* every finite set of workers and every lifetime.                            *)
EXTENDS SigAuth, FiniteSetTheorems, TLAPS

LEMMA IdleIsRequest == Idle \in Request /\ Idle.phase = "idle"
<1>1. (CHOOSE p \in Pubs : TRUE) \in Pubs /\ (CHOOSE n \in Nonces : TRUE) \in Nonces
  BY SetsAssumption
<1>. QED
  BY <1>1 DEF Idle, Request

\* Every step keeps the types of the variables.
LEMMA TypeStep == TypeOK /\ [Next]_vars => TypeOK'
<1>. SUFFICES ASSUME TypeOK, [Next]_vars PROVE TypeOK'
  OBVIOUS
<1>. USE DEF TypeOK
<1>1. CASE Tick
  BY <1>1 DEF Tick
<1>2. ASSUME NEW p \in Pubs, NEW n \in Nonces, IssueChallenge(p, n) PROVE TypeOK'
  <2>1. /\ [nonce |-> n, pub |-> p, created_at |-> clock,
            consumed |-> FALSE] \in Challenge
        /\ [nonce |-> n, pub |-> p, created_at |-> clock] \in Issue
    BY DEF Challenge, Issue
  <2>. QED
    BY <1>2, <2>1 DEF IssueChallenge
<1>3. ASSUME NEW w \in Workers, NEW p \in Pubs, NEW k \in Pubs, NEW n \in Nonces,
             Arrive(w, p, n, k)
      PROVE  TypeOK'
  <2>1. [Idle EXCEPT !.phase = "get", !.pub = p, !.nonce = n,
                     !.signer = k] \in Request
    BY IdleIsRequest DEF Request
  <2>. QED
    BY <1>3, <2>1 DEF Arrive
<1>4. ASSUME NEW w \in Workers, Get(w) PROVE TypeOK'
  <2>1. PICK c \in challenges :
          req' = [req EXCEPT ![w] = [req[w] EXCEPT !.phase = "check",
                                     !.created_at = c.created_at,
                                     !.consumed = c.consumed]]
    BY <1>4 DEF Get
  <2>2. [req[w] EXCEPT !.phase = "check", !.created_at = c.created_at,
                       !.consumed = c.consumed] \in Request
    BY DEF Request, Challenge
  <2>. QED
    BY <1>4, <2>1, <2>2 DEF Get
<1>5. ASSUME NEW w \in Workers, Check(w) PROVE TypeOK'
  <2>1. [req[w] EXCEPT !.phase = "save", !.checked_at = clock] \in Request
    BY DEF Request
  <2>. QED
    BY <1>5, <2>1 DEF Check
<1>6. ASSUME NEW w \in Workers, Save(w) PROVE TypeOK'
  <2>1. challenges' \subseteq Challenge
    BY <1>6 DEF Save, Burnt, Challenge
  <2>2. req[w].nonce \in Nonces /\ req[w].pub \in Pubs /\ req[w].signer \in Pubs
        /\ req[w].checked_at \in Nat
    BY DEF Request
  <2>3. uses' \in [Nonces -> Nat] /\ grants' \subseteq Grant
    BY <1>6, <2>2 DEF Save, Grant
  <2>. QED
    BY <1>6, <2>1, <2>3, IdleIsRequest DEF Save
<1>7. ASSUME NEW w \in Workers, Refuse(w) \/ Die(w) PROVE TypeOK'
  BY <1>7, IdleIsRequest DEF Refuse, Die
<1>8. CASE Gc
  BY <1>8 DEF Gc
<1>9. CASE UNCHANGED vars
  BY <1>9 DEF vars
<1>. QED
  BY <1>1, <1>2, <1>3, <1>4, <1>5, <1>6, <1>7, <1>8, <1>9 DEF Next, Authenticate

\* The variables always have their types.
THEOREM TypeCorrect == Spec => []TypeOK
<1>1. Init => TypeOK
  BY IdleIsRequest DEF Init, TypeOK
<1>. QED
  BY <1>1, TypeStep, PTL DEF Spec

-----------------------------------------------------------------------------
(* The inductive invariant, part by part.                                  *)

\* An id that has been issued is not issued again, so a challenge that has let
\* somebody in cannot reappear; the table only loses rows otherwise.
LEMMA RowsStep ==
  TypeOK /\ RowsAreIssued /\ RequestsAreIssued /\ [Next]_vars => RowsAreIssued'
<1>. SUFFICES ASSUME TypeOK, RowsAreIssued, RequestsAreIssued, [Next]_vars
              PROVE  RowsAreIssued'
  OBVIOUS
<1>1. CASE Tick
  BY <1>1 DEF Tick, TypeOK, Issue, RowsAreIssued
<1>2. ASSUME NEW p \in Pubs, NEW n \in Nonces, IssueChallenge(p, n)
      PROVE  RowsAreIssued'
  <2>. DEFINE new == [nonce |-> n, pub |-> p, created_at |-> clock]
  <2>1. issued' = issued \cup {new} /\ UNCHANGED <<clock, uses>>
    BY <1>2 DEF IssueChallenge
  <2>2. \A c \in challenges' : \/ c \in challenges
                               \/ c.nonce = n /\ c.pub = p /\ c.created_at = clock
    BY <1>2 DEF IssueChallenge
  <2>3. \A i \in issued' : i.created_at <= clock'
    BY <2>1 DEF RowsAreIssued, TypeOK
  <2>4. \A c \in challenges' : \E i \in issued' :
          /\ i.nonce = c.nonce /\ i.pub = c.pub /\ i.created_at = c.created_at
    <3>1. new \in issued' /\ new.nonce = n /\ new.pub = p
          /\ new.created_at = clock
      BY <2>1
    <3>. QED
      BY <2>1, <2>2, <3>1 DEF RowsAreIssued
  <2>5. \A m \in Nonces : uses'[m] > 0 => \E i \in issued' : i.nonce = m
    BY <2>1 DEF RowsAreIssued
  <2>. QED
    BY <2>3, <2>4, <2>5 DEF RowsAreIssued
<1>3. ASSUME NEW w \in Workers, Save(w) PROVE RowsAreIssued'
  <2>1. \A c \in challenges' : \E d \in challenges :
          c.nonce = d.nonce /\ c.pub = d.pub /\ c.created_at = d.created_at
    BY <1>3 DEF Save, Burnt, TypeOK, Challenge
  <2>2. \A n \in Nonces : uses'[n] > 0 => uses[n] > 0 \/ n = req[w].nonce
    BY <1>3 DEF Save, TypeOK
  <2>3. \E i \in issued : i.nonce = req[w].nonce
    BY <1>3 DEF Save, RequestsAreIssued
  <2>4. UNCHANGED <<clock, issued>>
    BY <1>3 DEF Save
  <2>5. \A n \in Nonces : uses'[n] > 0 => \E i \in issued : i.nonce = n
    BY <2>2, <2>3 DEF RowsAreIssued
  <2>6. \A c \in challenges' : \E i \in issued :
          /\ i.nonce = c.nonce /\ i.pub = c.pub /\ i.created_at = c.created_at
    BY <2>1 DEF RowsAreIssued
  <2>. QED
    BY <2>4, <2>5, <2>6 DEF RowsAreIssued
<1>4. CASE /\ challenges' \subseteq challenges
           /\ UNCHANGED <<clock, issued, uses>>
  BY <1>4 DEF RowsAreIssued
<1>. QED
  BY <1>1, <1>2, <1>3, <1>4
  DEF Next, Authenticate, Arrive, Get, Check, Refuse, Die, Gc, vars

\* What a worker remembers of its request stays true.
LEMMA RequestsStep ==
  TypeOK /\ RowsAreIssued /\ RequestsAreIssued /\ [Next]_vars
    => RequestsAreIssued'
<1>. SUFFICES ASSUME TypeOK, RowsAreIssued, RequestsAreIssued, [Next]_vars
              PROVE  RequestsAreIssued'
  OBVIOUS
<1>1. issued \subseteq issued'
  BY DEF Next, Tick, IssueChallenge, Arrive, Authenticate, Get, Check, Save,
         Refuse, Die, Gc, vars
<1>2. ASSUME NEW w \in Workers, Get(w) PROVE RequestsAreIssued'
  <2>1. PICK c \in challenges :
          /\ c.nonce = req[w].nonce /\ c.pub = req[w].pub
          /\ req' = [req EXCEPT ![w] = [req[w] EXCEPT !.phase = "check",
                                        !.created_at = c.created_at,
                                        !.consumed = c.consumed]]
    BY <1>2 DEF Get
  <2>2. /\ req'[w].phase = "check" /\ req'[w].nonce = c.nonce
        /\ req'[w].pub = c.pub /\ req'[w].created_at = c.created_at
        /\ \A v \in Workers \ {w} : req'[v] = req[v]
    BY <2>1 DEF TypeOK, Request
  <2>. QED
    BY <1>1, <2>2 DEF RowsAreIssued, RequestsAreIssued
<1>3. ASSUME NEW w \in Workers, Check(w) PROVE RequestsAreIssued'
  <2>1. /\ req'[w].phase = "save" /\ req'[w].nonce = req[w].nonce
        /\ req'[w].pub = req[w].pub /\ req'[w].signer = req[w].signer
        /\ req'[w].created_at = req[w].created_at
        /\ req'[w].consumed = req[w].consumed
        /\ req'[w].checked_at = clock
        /\ \A v \in Workers \ {w} : req'[v] = req[v]
    BY <1>3 DEF Check, TypeOK, Request
  <2>2. \E i \in issued : /\ i.nonce = req[w].nonce /\ i.pub = req[w].pub
                          /\ i.created_at = req[w].created_at
    BY <1>3 DEF Check, RequestsAreIssued
  <2>3. req[w].created_at <= clock
    BY <2>2 DEF RowsAreIssued
  <2>4. req[w].signer = req[w].pub /\ ~req[w].consumed
        /\ clock - req[w].created_at <= Ttl
    BY <1>3 DEF Check, Usable, SignatureVerifies
  <2>. QED
    BY <1>1, <2>1, <2>2, <2>3, <2>4 DEF RequestsAreIssued
<1>4. ASSUME NEW w \in Workers, \A v \in Workers \ {w} : req'[v] = req[v],
             req'[w].phase \in {"idle", "get"}
      PROVE  RequestsAreIssued'
  BY <1>1, <1>4 DEF RequestsAreIssued
<1>5. ASSUME NEW w \in Workers, NEW p \in Pubs, NEW k \in Pubs, NEW n \in Nonces,
             Arrive(w, p, n, k)
      PROVE  RequestsAreIssued'
  <2>1. /\ req'[w].phase = "get"
        /\ \A v \in Workers \ {w} : req'[v] = req[v]
    BY <1>5, IdleIsRequest DEF Arrive, TypeOK, Request
  <2>. QED
    BY <1>4, <2>1
<1>6. ASSUME NEW w \in Workers, Save(w) \/ Refuse(w) \/ Die(w)
      PROVE  RequestsAreIssued'
  <2>1. /\ req'[w].phase = "idle"
        /\ \A v \in Workers \ {w} : req'[v] = req[v]
    BY <1>6, IdleIsRequest DEF Save, Refuse, Die, TypeOK
  <2>. QED
    BY <1>4, <2>1
<1>7. CASE UNCHANGED req
  BY <1>1, <1>7 DEF RequestsAreIssued
<1>. QED
  BY <1>2, <1>3, <1>5, <1>6, <1>7
  DEF Next, Authenticate, Tick, IssueChallenge, Gc, vars

\* A grant records what the worker checked.
LEMMA GrantsStep ==
  TypeOK /\ RowsAreIssued /\ RequestsAreIssued /\ GrantedIsProven /\ [Next]_vars
    => GrantedIsProven'
<1>. SUFFICES ASSUME TypeOK, RowsAreIssued, RequestsAreIssued, GrantedIsProven,
                     [Next]_vars
              PROVE  GrantedIsProven'
  OBVIOUS
<1>1. issued \subseteq issued'
  BY DEF Next, Tick, IssueChallenge, Arrive, Authenticate, Get, Check, Save,
         Refuse, Die, Gc, vars
<1>2. ASSUME NEW w \in Workers, Save(w) PROVE GrantedIsProven'
  <2>1. \A g \in grants' : \/ g \in grants
                           \/ /\ g.nonce = req[w].nonce /\ g.pub = req[w].pub
                              /\ g.signer = req[w].signer
                              /\ g.checked_at = req[w].checked_at
    BY <1>2 DEF Save
  <2>2. /\ req[w].signer = req[w].pub
        /\ \E i \in issued : /\ i.nonce = req[w].nonce /\ i.pub = req[w].pub
                             /\ i.created_at <= req[w].checked_at
                             /\ req[w].checked_at - i.created_at <= Ttl
    BY <1>2 DEF Save, RequestsAreIssued
  <2>. QED
    BY <1>1, <2>1, <2>2 DEF GrantedIsProven
<1>3. CASE UNCHANGED grants
  BY <1>1, <1>3 DEF GrantedIsProven
<1>. QED
  BY <1>2, <1>3 DEF Next, Authenticate, Tick, IssueChallenge, Arrive, Get, Check,
                    Refuse, Die, Gc, vars

\* A used nonce has no usable row.
LEMMA BurntStep ==
  TypeOK /\ RowsAreIssued /\ BurntStaysBurnt /\ [Next]_vars => BurntStaysBurnt'
<1>. SUFFICES ASSUME TypeOK, RowsAreIssued, BurntStaysBurnt, [Next]_vars
              PROVE  BurntStaysBurnt'
  OBVIOUS
<1>1. ASSUME NEW p \in Pubs, NEW n \in Nonces, IssueChallenge(p, n)
      PROVE  BurntStaysBurnt'
  <2>1. \A c \in challenges' : c \in challenges \/ c.nonce = n
    BY <1>1 DEF IssueChallenge
  <2>2. ~(uses[n] > 0) /\ uses' = uses
    BY <1>1 DEF IssueChallenge, RowsAreIssued
  <2>. QED
    BY <2>1, <2>2 DEF BurntStaysBurnt
<1>2. ASSUME NEW w \in Workers, Save(w) PROVE BurntStaysBurnt'
  <2>1. \A c \in challenges' : IF c.nonce = req[w].nonce THEN c.consumed
                                                         ELSE c \in challenges
    BY <1>2 DEF Save, Burnt, TypeOK, Challenge
  <2>2. \A n \in Nonces \ {req[w].nonce} : uses'[n] = uses[n]
    BY <1>2 DEF Save, TypeOK
  <2>. QED
    BY <2>1, <2>2 DEF BurntStaysBurnt
<1>3. CASE challenges' \subseteq challenges /\ UNCHANGED uses
  BY <1>3 DEF BurntStaysBurnt
<1>. QED
  BY <1>1, <1>2, <1>3
  DEF Next, Authenticate, Tick, Arrive, Get, Check, Refuse, Die, Gc, vars

-----------------------------------------------------------------------------
(* Counting the requests that can still be let in.                         *)

\* The hopeful are finitely many, at most all the workers.
LEMMA HopefulIsFinite ==
  ASSUME NEW n
  PROVE  /\ IsFiniteSet(Hopeful(n)) /\ Cardinality(Hopeful(n)) \in Nat
         /\ Cardinality(Hopeful(n)) <= Cardinality(Workers)
         /\ Cardinality(Workers) \in Nat
<1>1. Hopeful(n) \subseteq Workers
  BY DEF Hopeful
<1>. QED
  BY <1>1, SetsAssumption, FS_Subset, FS_CardinalityType

\* The bound survives a step that lets nobody in on n and gives nobody hope.
LEMMA FewerHopeful ==
  ASSUME TypeOK, UsesAreBounded, NEW n \in Nonces, uses'[n] = uses[n],
         Hopeful(n)' \subseteq Hopeful(n)
  PROVE  uses'[n] + Cardinality(Hopeful(n)') <= Cardinality(Workers)
<1>1. /\ Cardinality(Hopeful(n)') <= Cardinality(Hopeful(n))
      /\ Cardinality(Hopeful(n)') \in Nat
  BY HopefulIsFinite, FS_Subset, FS_CardinalityType
<1>2. uses[n] + Cardinality(Hopeful(n)) <= Cardinality(Workers)
  BY DEF UsesAreBounded
<1>3. uses[n] \in Nat
  BY DEF TypeOK
<1>. QED
  BY <1>1, <1>2, <1>3, HopefulIsFinite

\* Every request let in uses up one hope, and hope is given only before the
\* first use of the nonce.
LEMMA UsesStep ==
  TypeOK /\ RequestsAreIssued /\ BurntStaysBurnt /\ UsesAreBounded /\ [Next]_vars
    => UsesAreBounded'
<1>. SUFFICES ASSUME TypeOK, RequestsAreIssued, BurntStaysBurnt, UsesAreBounded,
                     [Next]_vars, NEW n \in Nonces
              PROVE  uses'[n] + Cardinality(Hopeful(n)') <= Cardinality(Workers)
  BY DEF UsesAreBounded
<1>1. ASSUME NEW w \in Workers, Get(w)
      PROVE  uses'[n] + Cardinality(Hopeful(n)') <= Cardinality(Workers)
  <2>1. PICK c \in challenges :
          /\ c.nonce = req[w].nonce /\ c.pub = req[w].pub
          /\ req' = [req EXCEPT ![w] = [req[w] EXCEPT !.phase = "check",
                                        !.created_at = c.created_at,
                                        !.consumed = c.consumed]]
    BY <1>1 DEF Get
  <2>2. /\ req'[w].nonce = req[w].nonce /\ req'[w].consumed = c.consumed
        /\ \A v \in Workers \ {w} : req'[v] = req[v]
        /\ uses' = uses
    BY <1>1, <2>1 DEF Get, TypeOK, Request
  <2>3. CASE n = req[w].nonce /\ ~c.consumed
    <3>1. uses[n] = 0
      BY <2>1, <2>3 DEF BurntStaysBurnt, TypeOK
    <3>2. Hopeful(n)' \subseteq Workers
      BY DEF Hopeful
    <3>3. Cardinality(Hopeful(n)') <= Cardinality(Workers)
          /\ Cardinality(Hopeful(n)') \in Nat
      BY <3>2, SetsAssumption, FS_Subset, FS_CardinalityType
    <3>. QED
      BY <2>2, <3>1, <3>3
  <2>4. CASE n # req[w].nonce \/ c.consumed
    <3>1. Hopeful(n)' \subseteq Hopeful(n)
      BY <2>2, <2>4 DEF Hopeful
    <3>. QED
      BY <2>2, <3>1, FewerHopeful
  <2>. QED
    BY <2>3, <2>4
<1>2. ASSUME NEW w \in Workers, Save(w)
      PROVE  uses'[n] + Cardinality(Hopeful(n)') <= Cardinality(Workers)
  <2>1. /\ req'[w].phase = "idle"
        /\ \A v \in Workers \ {w} : req'[v] = req[v]
    BY <1>2, IdleIsRequest DEF Save, TypeOK
  <2>2. CASE n = req[w].nonce
    <3>1. w \in Hopeful(n)
      BY <1>2, <2>2 DEF Save, Hopeful, RequestsAreIssued
    <3>2. Hopeful(n)' = Hopeful(n) \ {w}
      BY <2>1 DEF Hopeful
    <3>3. Cardinality(Hopeful(n)') = Cardinality(Hopeful(n)) - 1
      BY <3>1, <3>2, HopefulIsFinite, FS_RemoveElement
    <3>4. uses'[n] = uses[n] + 1 /\ uses[n] \in Nat
      BY <1>2, <2>2 DEF Save, TypeOK
    <3>5. uses[n] + Cardinality(Hopeful(n)) <= Cardinality(Workers)
      BY DEF UsesAreBounded
    <3>. QED
      BY <3>3, <3>4, <3>5, HopefulIsFinite
  <2>3. CASE n # req[w].nonce
    <3>1. uses'[n] = uses[n]
      BY <1>2, <2>3 DEF Save, TypeOK
    <3>2. Hopeful(n)' \subseteq Hopeful(n)
      BY <2>1 DEF Hopeful
    <3>. QED
      BY <3>1, <3>2, FewerHopeful
  <2>. QED
    BY <2>2, <2>3
<1>3. ASSUME NEW w \in Workers, Check(w)
      PROVE  uses' = uses /\ Hopeful(n)' \subseteq Hopeful(n)
  <2>1. /\ req'[w].nonce = req[w].nonce /\ req'[w].consumed = req[w].consumed
        /\ \A v \in Workers \ {w} : req'[v] = req[v]
    BY <1>3 DEF Check, TypeOK, Request
  <2>. QED
    BY <1>3, <2>1 DEF Check, Hopeful
<1>4. ASSUME NEW w \in Workers, Refuse(w) \/ Die(w)
      PROVE  uses' = uses /\ Hopeful(n)' \subseteq Hopeful(n)
  <2>1. /\ req'[w].phase = "idle"
        /\ \A v \in Workers \ {w} : req'[v] = req[v]
    BY <1>4, IdleIsRequest DEF Refuse, Die, TypeOK
  <2>. QED
    BY <1>4, <2>1 DEF Refuse, Die, Hopeful
<1>5. ASSUME NEW w \in Workers, NEW p \in Pubs, NEW k \in Pubs, NEW m \in Nonces,
             Arrive(w, p, m, k)
      PROVE  uses' = uses /\ Hopeful(n)' \subseteq Hopeful(n)
  <2>1. /\ req'[w].phase = "get"
        /\ \A v \in Workers \ {w} : req'[v] = req[v]
    BY <1>5, IdleIsRequest DEF Arrive, TypeOK, Request
  <2>. QED
    BY <1>5, <2>1 DEF Arrive, Hopeful
<1>6. CASE UNCHANGED <<req, uses>>
  <2>1. Hopeful(n)' \subseteq Hopeful(n)
    BY <1>6 DEF Hopeful
  <2>. QED
    BY <1>6, <2>1, FewerHopeful
<1>. QED
  BY <1>1, <1>2, <1>3, <1>4, <1>5, <1>6, FewerHopeful
  DEF Next, Authenticate, Tick, IssueChallenge, Gc, vars

-----------------------------------------------------------------------------

\* The invariant holds however requests, their repeats and gc overlap.
THEOREM InvHolds == Spec => []Inv
<1>1. Init => Inv
  <2>. SUFFICES ASSUME Init PROVE Inv
    OBVIOUS
  <2>1. TypeOK
    BY IdleIsRequest DEF Init, TypeOK
  <2>2. RowsAreIssued /\ RequestsAreIssued /\ GrantedIsProven /\ BurntStaysBurnt
    BY IdleIsRequest
    DEF Init, RowsAreIssued, RequestsAreIssued, GrantedIsProven, BurntStaysBurnt
  <2>3. UsesAreBounded
    BY HopefulIsFinite DEF Init, UsesAreBounded
  <2>. QED
    BY <2>1, <2>2, <2>3 DEF Inv
<1>2. Inv /\ [Next]_vars => Inv'
  BY TypeStep, RowsStep, RequestsStep, GrantsStep, BurntStep, UsesStep DEF Inv
<1>. QED
  BY <1>1, <1>2, PTL DEF Spec

\* Whoever is let in has proved the key; a used nonce is never usable again.
THEOREM GrantsSafe == Spec => [](GrantedIsProven /\ BurntStaysBurnt)
<1>1. Inv => GrantedIsProven /\ BurntStaysBurnt
  BY DEF Inv
<1>. QED
  BY <1>1, InvHolds, PTL

\* A nonce that was used stays used, although copies of its row are written back.
THEOREM BurntForGood == Spec => []BurntStaysBurnt
<1>1. Inv => BurntStaysBurnt
  BY DEF Inv
<1>. QED
  BY <1>1, InvHolds, PTL

\* However many times a request is repeated, a nonce lets in at most as many of
\* the repeats as there are workers.
THEOREM UsesBounded == Spec => []OverlapBoundsUses
<1>1. Inv => OverlapBoundsUses
  <2>. SUFFICES ASSUME Inv, NEW n \in Nonces PROVE uses[n] <= Cardinality(Workers)
    BY DEF OverlapBoundsUses
  <2>1. uses[n] + Cardinality(Hopeful(n)) <= Cardinality(Workers) /\ uses[n] \in Nat
    BY DEF Inv, TypeOK, UsesAreBounded
  <2>. QED
    BY <2>1, HopefulIsFinite
<1>. QED
  BY <1>1, InvHolds, PTL
=============================================================================
