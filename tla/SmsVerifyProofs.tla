---------------------------- MODULE SmsVerifyProofs ----------------------------
(* Machine-checked theorems about SmsVerify, for every number of workers,     *)
(* every limit and every lifetime; and about IdVerify, for all submissions.   *)
EXTENDS SmsVerify, IdVerify, FiniteSetTheorems, SequenceTheorems, TLAPS

LEMMA IdleIsRequest == Idle \in Request /\ Idle.phase = "idle"
BY DEF Idle, Request

LEMMA AppendFacts ==
  ASSUME NEW s \in Seq(Nat), NEW t \in Nat
  PROVE  /\ Append(s, t) \in Seq(Nat) /\ Len(s) \in Nat
         /\ Len(Append(s, t)) = Len(s) + 1
         /\ \A n \in 1..Len(s) + 1 :
              Append(s, t)[n] = t \/ (n \in 1..Len(s) /\ Append(s, t)[n] = s[n])
<1>1. Len(s) \in Nat /\ \A n \in 1..Len(s) + 1 : n = Len(s) + 1 \/ n \in 1..Len(s)
  BY LenProperties
<1>. QED
  BY <1>1, AppendProperties

LEMMA NoneYet == Len(<<>>) = 0 /\ <<>> \in Seq(Nat)
BY EmptySeq

LEMMA IssuingIsFinite ==
  IsFiniteSet(Issuing) /\ Cardinality(Issuing) \in Nat
<1>1. Issuing \subseteq Workers
  BY DEF Issuing
<1>. QED
  BY <1>1, LimitsAssumption, FS_Subset, FS_CardinalityType

\* The part of the invariant that holds however tries overlap.
Base == /\ TypeOK /\ TokensAreEarned /\ NothingBefore
        /\ row.created_at <= clock

\* What a step of worker w does to the requests.
Others(w) == \A v \in Workers \ {w} : req'[v] = req[v]

LEMMA TypeStep == TypeOK /\ [Next]_vars => TypeOK'
<1>. SUFFICES ASSUME TypeOK, [Next]_vars PROVE TypeOK'
  OBVIOUS
<1>. USE DEF TypeOK
<1>1. CASE Tick \/ Start \/ Send
  <2>1. CASE Tick
    BY <2>1 DEF Tick
  <2>2. CASE Start
    <3>1. row' \in Row
      BY <2>2 DEF Start, Row
    <3>. QED
      BY <2>2, <3>1 DEF Start
  <2>3. CASE Send
    <3>1. row' \in Row
      BY <2>3 DEF Send, Row
    <3>. QED
      BY <2>3, <3>1 DEF Send
  <2>. QED
    BY <1>1, <2>1, <2>2, <2>3
<1>2. ASSUME NEW w \in Workers, NEW ok \in BOOLEAN, Arrive(w, ok) PROVE TypeOK'
  <2>1. [Idle EXCEPT !.phase = "get", !.ok = ok] \in Request
    BY DEF Idle, Request
  <2>. QED
    BY <1>2, <2>1 DEF Arrive
<1>3. ASSUME NEW w \in Workers, Get(w) PROVE TypeOK'
  <2>1. [req[w] EXCEPT !.phase = "try", !.attempts = row.attempts,
                       !.verified = row.verified] \in Request
    BY DEF Request, Row
  <2>. QED
    BY <1>3, <2>1 DEF Get
<1>4. ASSUME NEW w \in Workers, Try(w) PROVE TypeOK'
  <2>1. req[w].attempts + 1 \in Nat /\ req[w].ok \in BOOLEAN
    BY DEF Request
  <2>2. row' \in Row
    BY <1>4, <2>1 DEF Try, AttemptCounted, Row
  <2>3. [req[w] EXCEPT !.phase = "issue"] \in Request
    BY DEF Request
  <2>4. req' \in [Workers -> Request]
    BY <1>4, <2>3, IdleIsRequest DEF Try
  <2>5. right' \in Seq(Nat) /\ guesses' \in Nat
    BY <1>4 DEF Try
  <2>. QED
    BY <1>4, <2>2, <2>4, <2>5 DEF Try
<1>5. ASSUME NEW w \in Workers,
             IssueToken(w) \/ GetNothing(w) \/ Refuse(w) \/ Die(w)
      PROVE  TypeOK'
  <2>1. req' = [req EXCEPT ![w] = Idle]
    BY <1>5 DEF IssueToken, GetNothing, Refuse, Die
  <2>2. req' \in [Workers -> Request]
    BY <2>1, IdleIsRequest
  <2>3. tokens' \in Nat /\ UNCHANGED <<clock, row, guesses, right, overlapped>>
    BY <1>5 DEF IssueToken, GetNothing, Refuse, Die
  <2>. QED
    BY <2>2, <2>3
<1>6. CASE UNCHANGED vars
  BY <1>6 DEF vars
<1>. QED
  BY <1>1, <1>2, <1>3, <1>4, <1>5, <1>6 DEF Next, Verify

LEMMA BaseInit == Init => Base
<1>. SUFFICES ASSUME Init PROVE Base
  OBVIOUS
<1>1. TypeOK
  BY NoneYet, IdleIsRequest DEF Init, TypeOK, Row
<1>2. Issuing = {}
  BY IdleIsRequest DEF Init, Issuing
<1>3. Cardinality(Issuing) = 0
  BY <1>2, FS_EmptySet
<1>. QED
  BY <1>1, <1>2, <1>3, NoneYet, IdleIsRequest
  DEF Init, Base, TokensAreEarned, NothingBefore

\* The workers that may still issue a token change by at most the one that steps.
LEMMA IssuingStep ==
  ASSUME TypeOK, NEW w \in Workers, req' \in [Workers -> Request], Others(w)
  PROVE  /\ req'[w].phase # "issue" /\ req[w].phase # "issue" =>
              Issuing' = Issuing
         /\ req'[w].phase = "issue" /\ req[w].phase # "issue" =>
              Cardinality(Issuing') = Cardinality(Issuing) + 1
         /\ req'[w].phase # "issue" /\ req[w].phase = "issue" =>
              /\ Issuing' \subseteq Issuing
              /\ Cardinality(Issuing') = Cardinality(Issuing) - 1
<1>1. CASE req'[w].phase # "issue" /\ req[w].phase # "issue"
  BY <1>1 DEF Issuing, Others
<1>2. CASE req'[w].phase = "issue" /\ req[w].phase # "issue"
  <2>1. Issuing' = Issuing \cup {w} /\ w \notin Issuing
    BY <1>2 DEF Issuing, Others
  <2>. QED
    BY <1>2, <2>1, IssuingIsFinite, FS_AddElement
<1>3. CASE req'[w].phase # "issue" /\ req[w].phase = "issue"
  <2>1. Issuing' = Issuing \ {w} /\ w \in Issuing
    BY <1>3 DEF Issuing, Others
  <2>. QED
    BY <1>3, <2>1, IssuingIsFinite, FS_RemoveElement
<1>. QED
  BY <1>1, <1>2, <1>3

LEMMA BaseStep == Base /\ [Next]_vars => Base'
<1>. SUFFICES ASSUME Base, [Next]_vars PROVE Base'
  OBVIOUS
<1>. USE DEF Base
<1>t. TypeOK /\ TypeOK'
  BY TypeStep
<1>c. Cardinality(Issuing) \in Nat
  BY IssuingIsFinite
<1>n. /\ clock \in Nat /\ guesses \in Nat /\ tokens \in Nat /\ right \in Seq(Nat)
      /\ Len(right) \in Nat /\ row.created_at \in Nat
  <2>1. right \in Seq(Nat)
    BY <1>t DEF TypeOK
  <2>2. Len(right) \in Nat
    BY <2>1, AppendFacts
  <2>. QED
    BY <1>t, <2>1, <2>2 DEF TypeOK, Row
<1>1. CASE Tick \/ Send
  <2>1. Issuing' = Issuing /\ UNCHANGED <<req, guesses, right, tokens>>
    BY <1>1 DEF Tick, Send, Issuing
  <2>2. /\ row'.created_at = row.created_at /\ clock <= clock'
        /\ row'.state = "none" => row.state = "none"
    BY <1>1, <1>t DEF Tick, Send, TypeOK, Row
  <2>. QED
    <3>1. TokensAreEarned'
      BY <2>1, <2>2 DEF TokensAreEarned
    <3>2. NothingBefore'
      BY <2>1, <2>2 DEF NothingBefore
    <3>3. row'.created_at <= clock'
      BY <1>t, <2>2 DEF TypeOK, Row
    <3>. QED
      BY <1>t, <2>1, <3>1, <3>2, <3>3
<1>2. CASE Start
  <2>1. /\ Issuing' = Issuing /\ right = <<>> /\ row'.state = "sending"
        /\ UNCHANGED <<req, guesses, right, tokens, clock>> /\ row'.created_at = clock
    BY <1>2 DEF Start, Issuing, NothingBefore
  <2>. QED
    BY <1>t, <2>1 DEF TokensAreEarned, NothingBefore, TypeOK
<1>3. ASSUME NEW w \in Workers, (\E ok \in BOOLEAN : Arrive(w, ok)) \/ Get(w) \/ GetNothing(w) \/ Refuse(w)
      PROVE  Base'
  <2>1. /\ Others(w) /\ req'[w].phase # "issue" /\ req[w].phase # "issue"
        /\ row.state = "none" => req'[w].phase \in {"idle", "get"}
    <3>1. CASE \E ok \in BOOLEAN : Arrive(w, ok)
      BY <3>1, <1>t DEF Arrive, Others, TypeOK, Idle
    <3>2. CASE Get(w)
      BY <3>2, <1>t DEF Get, InTable, Others, TypeOK, Request
    <3>3. CASE GetNothing(w) \/ Refuse(w)
      BY <3>3, <1>t, IdleIsRequest DEF GetNothing, Refuse, Others, TypeOK
    <3>. QED
      BY <1>3, <3>1, <3>2, <3>3
  <2>2. Issuing' = Issuing
    BY <1>t, <2>1, IssuingStep DEF TypeOK
  <2>3. UNCHANGED <<clock, row, guesses, right, tokens>>
    BY <1>3 DEF Arrive, Get, GetNothing, Refuse
  <2>4. NothingBefore'
    BY <2>1, <2>3 DEF NothingBefore, Others
  <2>. QED
    BY <1>t, <2>2, <2>3, <2>4 DEF TokensAreEarned
<1>4. ASSUME NEW w \in Workers, Try(w) PROVE Base'
  <2>1. Others(w) /\ req[w].phase = "try"
    BY <1>4, <1>t DEF Try, Others, TypeOK
  <2>2. /\ row'.created_at = row.created_at /\ row'.state = row.state
        /\ row.state # "none"
    BY <1>4, <1>t, <2>1 DEF Try, TypeOK, Row, NothingBefore
  <2>3. /\ guesses' = guesses + 1 /\ clock' = clock /\ tokens' = tokens
        /\ clock - row.created_at <= CodeTtl
    BY <1>4 DEF Try, Usable
  <2>4. CASE req[w].ok
    <3>1. right' = Append(right, clock) /\ req'[w].phase = "issue"
      BY <1>4, <2>4, <1>t DEF Try, TypeOK, Request
    <3>2. Cardinality(Issuing') = Cardinality(Issuing) + 1
      BY <1>t, <2>1, <3>1, IssuingStep DEF TypeOK
    <3>3. /\ Len(right') = Len(right) + 1 /\ Len(right) \in Nat
          /\ \A n \in 1..Len(right') :
               right'[n] = clock \/ (n \in 1..Len(right) /\ right'[n] = right[n])
      BY <1>n, <3>1, AppendFacts
    <3>4. TokensAreEarned'
      <4>1. /\ tokens' + Cardinality(Issuing') <= Len(right')
            /\ Len(right') <= guesses'
        BY <1>n, <1>c, <2>3, <3>2, <3>3 DEF TokensAreEarned
      <4>2. ASSUME NEW n \in 1..Len(right')
            PROVE  /\ row'.created_at <= right'[n]
                   /\ right'[n] - row'.created_at <= CodeTtl
        <5>1. CASE right'[n] = clock
          BY <2>2, <2>3, <5>1
        <5>2. CASE n \in 1..Len(right) /\ right'[n] = right[n]
          BY <2>2, <5>2 DEF TokensAreEarned
        <5>. QED
          BY <3>3, <5>1, <5>2
      <4>. QED
        BY <4>1, <4>2 DEF TokensAreEarned
    <3>. QED
      BY <1>t, <2>2, <2>3, <3>4 DEF NothingBefore, TypeOK
  <2>5. CASE ~req[w].ok
    <3>1. right' = right /\ req'[w].phase # "issue" /\ Len(right) \in Nat
      BY <1>4, <2>5, <1>t, IdleIsRequest DEF Try, TypeOK
    <3>2. Issuing' = Issuing
      BY <1>t, <2>1, <3>1, IssuingStep DEF TypeOK
    <3>3. TokensAreEarned'
      BY <1>n, <1>c, <2>2, <2>3, <3>1, <3>2 DEF TokensAreEarned
    <3>. QED
      BY <1>t, <2>2, <2>3, <3>3 DEF NothingBefore, TypeOK
  <2>. QED
    BY <2>4, <2>5
<1>5. ASSUME NEW w \in Workers, IssueToken(w) PROVE Base'
  <2>1. Others(w) /\ req[w].phase = "issue" /\ req'[w].phase # "issue"
    BY <1>5, <1>t, IdleIsRequest DEF IssueToken, Others, TypeOK
  <2>2. Issuing' \subseteq Issuing /\ Cardinality(Issuing') = Cardinality(Issuing) - 1
    BY <1>t, <2>1, IssuingStep DEF TypeOK
  <2>3. row.state # "none"
    BY <2>1 DEF NothingBefore
  <2>. QED
    <3>1. tokens' = tokens + 1 /\ UNCHANGED <<clock, row, guesses, right>>
      BY <1>5 DEF IssueToken
    <3>2. TokensAreEarned'
      BY <1>n, <1>c, <2>2, <3>1 DEF TokensAreEarned
    <3>. QED
      BY <1>t, <2>3, <3>1, <3>2 DEF NothingBefore
<1>6. ASSUME NEW w \in Workers, Die(w) PROVE Base'
  <2>1. Others(w) /\ req'[w].phase = "idle"
    <3>1. req' = [req EXCEPT ![w] = Idle] /\ req \in [Workers -> Request]
      BY <1>6, <1>t DEF Die, TypeOK
    <3>. QED
      BY <3>1, IdleIsRequest DEF Others
  <2>2. Issuing' \subseteq Issuing /\ Cardinality(Issuing') <= Cardinality(Issuing)
    <3>1. req'[w].phase # "issue" /\ req' \in [Workers -> Request]
      BY <1>t, <2>1 DEF TypeOK
    <3>. QED
      BY <1>t, <1>c, <2>1, <3>1, IssuingStep
  <2>3. Cardinality(Issuing') \in Nat
    <3>1. IsFiniteSet(Issuing')
      BY <2>2, IssuingIsFinite, FS_Subset
    <3>. QED
      BY <3>1, FS_CardinalityType
  <2>4. UNCHANGED <<clock, row, guesses, right, tokens>>
    BY <1>6 DEF Die
  <2>5. TokensAreEarned'
    BY <1>n, <1>c, <2>2, <2>3, <2>4 DEF TokensAreEarned
  <2>6. NothingBefore'
    BY <2>1, <2>4 DEF NothingBefore, Others
  <2>. QED
    BY <1>t, <2>4, <2>5, <2>6
<1>7. CASE UNCHANGED vars
  BY <1>t, <1>7 DEF vars, TokensAreEarned, NothingBefore, Issuing
<1>. QED
  BY <1>1, <1>2, <1>3, <1>4, <1>5, <1>6, <1>7 DEF Next, Verify

\* However tries overlap, there are no more tokens, issued or about to be, than
\* comparisons that a right code passed, all within the code's lifetime.
THEOREM Earned == Spec => []TokensAreEarned
<1>1. Spec => []Base
  BY BaseInit, BaseStep, PTL DEF Spec
<1>. QED
  BY <1>1, PTL DEF Base

-----------------------------------------------------------------------------
(* As long as tries do not overlap.                                         *)

LEMMA CountInit == Init => CountIsKept
<1>. SUFFICES ASSUME Init PROVE CountIsKept
  OBVIOUS
<1>1. \A w \in Workers : req[w].phase = "idle"
  BY IdleIsRequest DEF Init
<1>2. row.attempts = 0 /\ guesses = 0 /\ tokens = 0 /\ MaxAttempts \in Nat
  BY LimitsAssumption DEF Init
<1>. QED
  BY <1>1, <1>2 DEF CountIsKept

\* A step that leaves the row's columns and the counts alone, and after which w
\* neither tries nor issues.
LEMMA QuietStep ==
  ASSUME CountIsKept, NEW w \in Workers, Others(w),
         req'[w].phase \notin {"try", "issue"},
         row' = row, guesses' = guesses, tokens' = tokens
  PROVE  CountIsKept'
BY DEF CountIsKept, Others

\* The step that makes overlapped true is not taken, so w reads the row alone.
LEMMA CountStep == Base /\ CountIsKept /\ [Next]_vars /\ ~overlapped' => CountIsKept'
<1>. SUFFICES ASSUME Base, CountIsKept, [Next]_vars, ~overlapped' PROVE CountIsKept'
  OBVIOUS
<1>t. TypeOK /\ TypeOK' /\ MaxAttempts \in Nat
  BY TypeStep, LimitsAssumption DEF Base
<1>1. CASE Tick \/ Send
  BY <1>1, <1>t DEF Tick, Send, TypeOK, Row, CountIsKept
<1>2. CASE Start
  BY <1>2, <1>t DEF Start, Base, NothingBefore, CountIsKept
<1>3. ASSUME NEW w \in Workers, NEW ok \in BOOLEAN, Arrive(w, ok) PROVE CountIsKept'
  <2>1. req'[w].phase = "get" /\ Others(w)
    BY <1>3, <1>t DEF Arrive, TypeOK, Idle, Others
  <2>. QED
    BY <1>3, <2>1, QuietStep DEF Arrive
<1>4. ASSUME NEW w \in Workers, Get(w) PROVE CountIsKept'
  <2>1. /\ req'[w].phase = "try" /\ req'[w].attempts = row.attempts
        /\ req'[w].verified = row.verified /\ Others(w)
    BY <1>4, <1>t DEF Get, TypeOK, Request, Others
  <2>2. \A v \in Workers \ {w} : req'[v].phase # "try"
    BY <1>4, <2>1 DEF Get, Others
  <2>3. UNCHANGED <<row, guesses, tokens>>
    BY <1>4 DEF Get
  <2>. QED
    BY <2>1, <2>2, <2>3 DEF CountIsKept, Others
<1>5. ASSUME NEW w \in Workers, Try(w) PROVE CountIsKept'
  <2>1. /\ req[w].phase = "try" /\ req[w].attempts = row.attempts /\ ~row.verified
        /\ tokens = 0 /\ row.attempts < MaxAttempts /\ Others(w)
    BY <1>5, <1>t DEF Try, Usable, CountIsKept, TypeOK, Others
  <2>2. /\ row'.attempts = row.attempts + 1 /\ row'.verified = req[w].ok
        /\ guesses' = guesses + 1 /\ tokens' = tokens
    BY <1>5, <1>t, <2>1 DEF Try, AttemptCounted, TypeOK, Row
  <2>3. req[w].ok \in BOOLEAN
    BY <1>t DEF TypeOK, Request
  <2>4. \/ req[w].ok /\ req'[w].phase = "issue"
        \/ req'[w].phase = "idle"
    BY <1>5, <1>t, IdleIsRequest DEF Try, TypeOK, Request
  <2>5. \A v \in Workers \ {w} : req'[v].phase \notin {"try", "issue"}
    BY <2>1 DEF CountIsKept, Others
  <2>6. row'.attempts = guesses' /\ row'.attempts <= MaxAttempts
    BY <1>t, <2>1, <2>2 DEF TypeOK, Row, CountIsKept
  <2>. QED
    BY <2>1, <2>2, <2>3, <2>4, <2>5, <2>6 DEF CountIsKept
<1>6. ASSUME NEW w \in Workers, IssueToken(w) PROVE CountIsKept'
  <2>1. req'[w].phase = "idle" /\ Others(w) /\ req[w].phase = "issue"
    BY <1>6, <1>t, IdleIsRequest DEF IssueToken, TypeOK, Others
  <2>2. row.verified /\ tokens = 0 /\ tokens' = 1 /\ UNCHANGED <<row, guesses>>
    BY <1>6, <2>1 DEF IssueToken, CountIsKept
  <2>3. \A v \in Workers : req'[v].phase # "issue"
    BY <2>1 DEF CountIsKept, Others
  <2>4. \A v \in Workers : req'[v].phase = "try" => req'[v] = req[v]
    BY <2>1 DEF Others
  <2>5. row'.attempts = guesses' /\ row'.attempts <= MaxAttempts
    BY <2>2 DEF CountIsKept
  <2>6. \A v \in Workers : req'[v].phase = "try" =>
          req'[v].attempts = row'.attempts /\ req'[v].verified = row'.verified
    BY <2>2, <2>4 DEF CountIsKept
  <2>7. \A u, v \in Workers : req'[u].phase = "try" /\ req'[v].phase = "try" => u = v
    BY <2>4 DEF CountIsKept
  <2>8. row'.verified /\ tokens' <= 1
    BY <2>2
  <2>. QED
    BY <2>3, <2>5, <2>6, <2>7, <2>8 DEF CountIsKept
<1>7. ASSUME NEW w \in Workers, GetNothing(w) \/ Refuse(w) \/ Die(w)
      PROVE  CountIsKept'
  <2>1. req'[w].phase = "idle" /\ Others(w)
    BY <1>7, <1>t, IdleIsRequest DEF GetNothing, Refuse, Die, TypeOK, Others
  <2>. QED
    BY <1>7, <2>1, QuietStep DEF GetNothing, Refuse, Die
<1>8. CASE UNCHANGED vars
  BY <1>8 DEF vars, CountIsKept
<1>. QED
  BY <1>1, <1>2, <1>3, <1>4, <1>5, <1>6, <1>7, <1>8 DEF Next, Verify

LEMMA OverlappedStays == TypeOK /\ [Next]_vars /\ ~overlapped' => ~overlapped
BY DEF Next, Verify, Tick, Start, Send, Arrive, Get, GetNothing, Try, IssueToken, Refuse, Die, vars,
       TypeOK

-----------------------------------------------------------------------------
(* However tries overlap.                                                  *)

LEMMA AscendingIsFinite ==
  ASSUME NEW n \in Nat, NEW a \in Nat
  PROVE  IsFiniteSet(Ascending(n, a)) /\ Cardinality(Ascending(n, a)) \in Nat
<1>. DEFINE S == Ascending(n, a)
            T == SUBSET ((1..n) \X (a..MaxAttempts))
            F == [s \in S |-> {<<i, s[i]>> : i \in 1..n}]
<1>0. MaxAttempts \in Nat
  BY LimitsAssumption
<1>1. IsFiniteSet(1..n) /\ IsFiniteSet(a..MaxAttempts)
  BY <1>0, FS_Interval
<1>2. IsFiniteSet(T)
  BY <1>1, FS_Product, FS_SUBSET
<1>3. F \in [S -> T]
  BY DEF Ascending
<1>4. ASSUME NEW s \in S, NEW t \in S, F[s] = F[t]
      PROVE  s = t
  <2>1. s \in [1..n -> a..MaxAttempts] /\ t \in [1..n -> a..MaxAttempts]
    BY DEF Ascending
  <2>2. ASSUME NEW i \in 1..n
        PROVE  s[i] = t[i]
    <3>1. <<i, s[i]>> \in F[t]
      BY <1>4
    <3>2. PICK k \in 1..n : <<i, s[i]>> = <<k, t[k]>>
      BY <3>1
    <3>. QED
      BY <3>2
  <2>. QED
    BY <2>1, <2>2
<1>5. F \in Injection(S, T)
  BY <1>3, <1>4 DEF Injection, IsInjective
<1>. HIDE DEF F, S, T
<1>6. IsFiniteSet(S) /\ Cardinality(S) \in Nat
  BY <1>2, <1>5, FS_Injection, FS_CardinalityType
<1>. QED
  BY <1>6 DEF S

\* Sequences from a higher count on are sequences from a lower one on.
LEMMA AscendingShrinks ==
  ASSUME NEW n \in Nat, NEW a \in Nat, NEW b \in Nat, a <= b
  PROVE  Ascending(n, b) \subseteq Ascending(n, a)
<1>. SUFFICES ASSUME NEW s \in Ascending(n, b)
              PROVE  s \in Ascending(n, a)
  OBVIOUS
<1>0. MaxAttempts \in Nat
  BY LimitsAssumption
<1>1. s \in [1..n -> a..MaxAttempts]
  BY <1>0 DEF Ascending
<1>. QED
  BY <1>1 DEF Ascending

\* The sequences of m counts from c on are more than those, taken together, of 1, 2 .. m
\* counts from c + 1 on: put c in front of each, as often as it takes; and there is the
\* one that is c throughout.
LEMMA SequencesAhead ==
  ASSUME NEW m \in Nat, NEW c \in Nat, c <= MaxAttempts,
         NEW I, NEW p \in [I -> 1..m], \A v, w \in I : p[v] = p[w] => v = w,
         NEW T, T = UNION {{v} \X Ascending(p[v], c + 1) : v \in I}
  PROVE  IsFiniteSet(T) /\ Cardinality(T) \in Nat
         /\ Cardinality(T) + 1 <= Cardinality(Ascending(m, c))
<1>. DEFINE pad(v, s) == [i \in 1..m |-> IF i <= m - p[v] THEN c ELSE s[i - (m - p[v])]]
            flat == [i \in 1..m |-> c]
            U == Ascending(m, c) \ {flat}
            F == [x \in T |-> pad(x[1], x[2])]
<1>0. MaxAttempts \in Nat
  BY LimitsAssumption
<1>1. ASSUME NEW x \in T
      PROVE  /\ x = <<x[1], x[2]>> /\ x[1] \in I /\ p[x[1]] \in 1..m
             /\ x[2] \in [1..p[x[1]] -> (c + 1)..MaxAttempts]
             /\ \A i, j \in 1..p[x[1]] : i <= j => x[2][i] <= x[2][j]
  <2>1. PICK v \in I : x \in {v} \X Ascending(p[v], c + 1)
    OBVIOUS
  <2>2. x = <<x[1], x[2]>> /\ x[1] = v /\ x[2] \in Ascending(p[v], c + 1)
    BY <2>1
  <2>. QED
    BY <2>2 DEF Ascending
<1>2. ASSUME NEW x \in T
      PROVE  F[x] \in U
  <2>. DEFINE v == x[1]
              s == x[2]
              k == m - p[v]
  <2>1. /\ p[v] \in 1..m /\ k \in Nat /\ k < m /\ s \in [1..p[v] -> (c + 1)..MaxAttempts]
        /\ \A i, j \in 1..p[v] : i <= j => s[i] <= s[j]
    BY <1>1
  <2>2. F[x] = [i \in 1..m |-> IF i <= k THEN c ELSE s[i - k]]
    OBVIOUS
  <2>. HIDE DEF F, v, s
  <2>3. \A i \in 1..m : ~(i <= k) => i - k \in 1..p[v] /\ s[i - k] \in (c + 1)..MaxAttempts
    BY <2>1
  <2>4. F[x] \in [1..m -> c..MaxAttempts]
    BY <1>0, <2>2, <2>3
  <2>5. ASSUME NEW i \in 1..m, NEW j \in 1..m, i <= j
        PROVE  F[x][i] <= F[x][j]
    <3>1. CASE i <= k
      <4>1. F[x][i] = c
        BY <2>2, <3>1
      <4>2. F[x][j] \in c..MaxAttempts
        BY <2>4
      <4>. QED
        BY <1>0, <4>1, <4>2
    <3>2. CASE ~(i <= k)
      <4>1. ~(j <= k) /\ i - k <= j - k
        BY <2>1, <2>5, <3>2
      <4>. QED
        BY <2>1, <2>2, <2>3, <3>2, <4>1
    <3>. QED
      BY <3>1, <3>2
  <2>6. F[x][m] # c
    BY <2>1, <2>2, <2>3
  <2>7. F[x] # flat
    BY <2>1, <2>6
  <2>. QED
    BY <2>4, <2>5, <2>7 DEF Ascending
\* How often c comes first says how long the rest is, and so whose it is.
<1>3. ASSUME NEW x \in T, NEW y \in T, F[x] = F[y], p[x[1]] < p[y[1]]
      PROVE  FALSE
  <2>. DEFINE i == m - p[x[1]]
  <2>1. p[x[1]] \in 1..m /\ p[y[1]] \in 1..m /\ y[2] \in [1..p[y[1]] -> (c + 1)..MaxAttempts]
    BY <1>1
  <2>2. /\ i \in 1..m /\ i <= m - p[x[1]] /\ ~(i <= m - p[y[1]])
        /\ i - (m - p[y[1]]) \in 1..p[y[1]]
    BY <1>3, <2>1
  <2>3. F[x][i] = c
    BY <2>2
  <2>4. F[y][i] = y[2][i - (m - p[y[1]])]
    BY <2>2
  <2>5. y[2][i - (m - p[y[1]])] \in (c + 1)..MaxAttempts
    BY <2>1, <2>2
  <2>. HIDE DEF F, i
  <2>. QED
    BY <1>0, <1>3, <2>3, <2>4, <2>5
<1>4. ASSUME NEW x \in T, NEW y \in T, F[x] = F[y]
      PROVE  x = y
  <2>0. /\ x = <<x[1], x[2]>> /\ y = <<y[1], y[2]>> /\ x[1] \in I /\ y[1] \in I
        /\ p[x[1]] \in 1..m /\ p[y[1]] \in 1..m
        /\ x[2] \in [1..p[x[1]] -> (c + 1)..MaxAttempts]
        /\ y[2] \in [1..p[y[1]] -> (c + 1)..MaxAttempts]
    BY <1>1
  <2>1. p[x[1]] = p[y[1]]
    <3>1. ~(p[x[1]] < p[y[1]]) /\ ~(p[y[1]] < p[x[1]])
      <4>. HIDE DEF F
      <4>. QED
        BY <1>3, <1>4
    <3>. QED
      BY <2>0, <3>1
  <2>2. x[1] = y[1]
    BY <2>0, <2>1
  <2>3. ASSUME NEW i \in 1..p[x[1]]
        PROVE  x[2][i] = y[2][i]
    <3>. DEFINE k == i + (m - p[x[1]])
    <3>1. k \in 1..m /\ ~(k <= m - p[x[1]]) /\ k - (m - p[x[1]]) = i
      BY <2>0
    <3>. HIDE DEF k
    <3>2. F[x][k] = x[2][i] /\ F[y][k] = y[2][i]
      BY <2>2, <3>1
    <3>. HIDE DEF F
    <3>. QED
      BY <1>4, <3>2
  <2>. QED
    BY <2>0, <2>2, <2>3
<1>5. F \in Injection(T, U)
  <2>. HIDE DEF U
  <2>1. F \in [T -> U]
    BY <1>2
  <2>. HIDE DEF F
  <2>. QED
    BY <1>4, <2>1 DEF Injection, IsInjective
<1>6. flat \in Ascending(m, c)
  BY <1>0 DEF Ascending
<1>7. /\ IsFiniteSet(U) /\ Cardinality(U) = Cardinality(Ascending(m, c)) - 1
      /\ Cardinality(Ascending(m, c)) \in Nat
  <2>. HIDE DEF flat
  <2>. QED
    BY <1>6, AscendingIsFinite, FS_RemoveElement
<1>. HIDE DEF F, U
<1>8. IsFiniteSet(T) /\ Cardinality(T) <= Cardinality(U) /\ Cardinality(T) \in Nat
  BY <1>5, <1>7, FS_Injection, FS_CardinalityType
<1>. QED
  BY <1>7, <1>8
\* Of finitely many turns one is the last.
LEMMA LastTurn ==
  ASSUME NEW n \in Nat, NEW I, I # {}, NEW f \in [I -> 1..n]
  PROVE  \E v \in I : \A w \in I : f[w] <= f[v]
<1>. DEFINE T == {n - f[v] : v \in I}
            R == OpToRel(<, Nat)
<1>1. T \subseteq Nat /\ T # {}
  OBVIOUS
<1>2. \E x \in T : \A y \in T : ~(<<y, x>> \in R)
  <2>. HIDE DEF T, R
  <2>1. IsWellFoundedOn(R, Nat)
    BY NatLessThanWellFounded DEF R
  <2>. QED
    BY <1>1, <2>1, WFMin
<1>3. PICK v \in I : \A w \in I : ~(<<n - f[w], n - f[v]>> \in R)
  BY <1>2
<1>4. \A x \in Nat, y \in Nat : x < y => <<x, y>> \in R
  BY DEF OpToRel
<1>. HIDE DEF R
<1>5. ASSUME NEW w \in I
      PROVE  f[w] <= f[v]
  <2>1. f[v] \in 1..n /\ f[w] \in 1..n
    OBVIOUS
  <2>2. n - f[w] \in Nat /\ n - f[v] \in Nat
    BY <2>1
  <2>3. ~(n - f[w] < n - f[v])
    BY <1>3, <1>4, <2>2
  <2>. QED
    BY <2>1, <2>3
<1>. QED
  BY <1>5

LEMMA WorkersAreCounted == Cardinality(Workers) \in Nat /\ MaxAttempts \in Nat
BY LimitsAssumption, FS_CardinalityType

\* What is left to whom.
LEMMA LimitIsInt == GuessLimit \in Int
BY WorkersAreCounted, AscendingIsFinite DEF GuessLimit

LEMMA LeftFacts ==
  ASSUME NEW turn, NEW read, NEW x
  PROVE  x \in GuessesLeft(turn, read) <=>
           \E v \in Workers : x \in {v} \X Ascending(turn[v], read[v] + 1)
BY DEF GuessesLeft

\* Who has read more has less left.
LEMMA LessLeft ==
  ASSUME NEW turn \in Turns, NEW old \in [Workers -> Nat], NEW new \in [Workers -> Nat],
         \A v \in Workers : old[v] <= new[v]
  PROVE  GuessesLeft(turn, new) \subseteq GuessesLeft(turn, old)
<1>. SUFFICES ASSUME NEW v \in Workers
              PROVE  Ascending(turn[v], new[v] + 1) \subseteq Ascending(turn[v], old[v] + 1)
  BY DEF GuessesLeft
<1>1. /\ turn[v] \in Nat /\ old[v] + 1 \in Nat /\ new[v] + 1 \in Nat
      /\ old[v] + 1 <= new[v] + 1
  BY WorkersAreCounted DEF Turns
<1>. QED
  BY <1>1, AscendingShrinks

\* At first no more is left than the limit.
LEMMA LeftAtFirst ==
  ASSUME NEW turn \in Turns, NEW read \in [Workers -> {0}]
  PROVE  /\ IsFiniteSet(GuessesLeft(turn, read))
         /\ 0 + Cardinality(GuessesLeft(turn, read)) <= GuessLimit
<1>. DEFINE n == Cardinality(Workers)
            T == GuessesLeft(turn, read)
<1>0. n \in Nat /\ MaxAttempts \in Nat
  BY WorkersAreCounted
<1>1. turn \in [Workers -> 1..n] /\ \A v, w \in Workers : turn[v] = turn[w] => v = w
  BY DEF Turns
<1>2. T = UNION {{v} \X Ascending(turn[v], 0 + 1) : v \in Workers}
  BY DEF GuessesLeft
<1>. HIDE DEF n, T
<1>3. IsFiniteSet(T) /\ Cardinality(T) \in Nat
      /\ Cardinality(T) + 1 <= Cardinality(Ascending(n, 0))
  BY <1>0, <1>1, <1>2, SequencesAhead
<1>4. Cardinality(Ascending(n, 0)) \in Nat
  BY <1>0, AscendingIsFinite
<1>. QED
  BY <1>3, <1>4 DEF GuessLimit, n, T

\* A write of a copy of c takes one away: give w the last turn of those who are at c + 1
\* after it, and what all of them have left was ahead of w.
LEMMA WriteTakesOne ==
  ASSUME NEW old \in [Workers -> Nat], NEW new \in [Workers -> Nat],
         NEW w \in Workers, NEW c \in Nat, c < MaxAttempts,
         old[w] <= c, new[w] = c + 1,
         \A v \in Workers : new[v] = c + 1 \/ old[v] <= new[v],
         \A turn \in Turns : IsFiniteSet(GuessesLeft(turn, old)),
         NEW turn \in Turns
  PROVE  \E t \in Turns :
           /\ IsFiniteSet(GuessesLeft(turn, new))
           /\ Cardinality(GuessesLeft(turn, new)) + 1 <= Cardinality(GuessesLeft(t, old))
           /\ Cardinality(GuessesLeft(turn, new)) \in Nat
<1>. DEFINE n == Cardinality(Workers)
            I == {v \in Workers : new[v] = c + 1}
            p == [v \in I |-> turn[v]]
            AfterI == UNION {{v} \X Ascending(p[v], (c + 1) + 1) : v \in I}
            Rest == UNION {{v} \X Ascending(turn[v], new[v] + 1) : v \in Workers \ I}
<1>0. n \in Nat /\ MaxAttempts \in Nat /\ c + 1 \in Nat /\ c + 1 <= MaxAttempts /\ w \in I
  BY WorkersAreCounted
<1>1. turn \in [Workers -> 1..n] /\ \A u, v \in Workers : turn[u] = turn[v] => u = v
  BY DEF Turns
<1>2. PICK u \in I : \A v \in I : p[v] <= p[u]
  <2>1. p \in [I -> 1..n] /\ I # {}
    BY <1>0, <1>1
  <2>. HIDE DEF p, I, n
  <2>. QED
    BY <1>0, <2>1, LastTurn
<1>3. PICK m : m = turn[u]
  OBVIOUS
<1>4. m \in 1..n /\ m \in Nat /\ u \in Workers /\ p \in [I -> 1..m]
      /\ \A v, x \in I : p[v] = p[x] => v = x
  BY <1>0, <1>1, <1>2, <1>3
<1>5. PICK t : t = [turn EXCEPT ![w] = turn[u], ![u] = turn[w]]
  OBVIOUS
<1>6. t \in Turns /\ t[w] = m /\ \A v \in Workers \ I : t[v] = turn[v]
  <2>1. t \in [Workers -> 1..n]
    BY <1>1, <1>4, <1>5
  <2>2. /\ t[w] = turn[u] /\ t[u] = turn[w]
        /\ \A v \in Workers : v # w /\ v # u => t[v] = turn[v]
    BY <1>1, <1>4, <1>5
  <2>3. \A v, x \in Workers : t[v] = t[x] => v = x
    BY <1>1, <1>4, <2>2
  <2>. QED
    BY <1>0, <1>2, <1>3, <2>1, <2>2, <2>3 DEF Turns
<1>. DEFINE Ahead == {w} \X Ascending(m, c + 1)
<1>7. IsFiniteSet(AfterI) /\ Cardinality(AfterI) \in Nat
      /\ Cardinality(AfterI) + 1 <= Cardinality(Ascending(m, c + 1))
  <2>1. AfterI = UNION {{v} \X Ascending(p[v], (c + 1) + 1) : v \in I}
    OBVIOUS
  <2>. HIDE DEF p, I, AfterI
  <2>. QED
    BY <1>0, <1>4, <2>1, SequencesAhead
<1>8. IsFiniteSet(Ahead) /\ Cardinality(Ahead) = Cardinality(Ascending(m, c + 1))
      /\ Cardinality(Ahead) \in Nat
  <2>1. IsFiniteSet(Ascending(m, c + 1)) /\ Cardinality(Ascending(m, c + 1)) \in Nat
    BY <1>0, <1>4, AscendingIsFinite
  <2>2. IsFiniteSet({w}) /\ Cardinality({w}) = 1
    BY FS_Singleton
  <2>3. IsFiniteSet(Ahead)
        /\ Cardinality(Ahead) = Cardinality({w}) * Cardinality(Ascending(m, c + 1))
    BY <2>1, <2>2, FS_Product
  <2>. QED
    BY <2>1, <2>2, <2>3
<1>9. GuessesLeft(turn, new) = AfterI \cup Rest
  BY DEF GuessesLeft
<1>10. Ahead \cup Rest \subseteq GuessesLeft(t, old)
  <2>1. Ascending(m, c + 1) \subseteq Ascending(t[w], old[w] + 1)
    BY <1>0, <1>4, <1>6, AscendingShrinks
  <2>2. ASSUME NEW v \in Workers \ I
        PROVE  Ascending(turn[v], new[v] + 1) \subseteq Ascending(t[v], old[v] + 1)
    <3>1. turn[v] \in Nat /\ old[v] + 1 \in Nat /\ new[v] + 1 \in Nat
          /\ old[v] + 1 <= new[v] + 1 /\ t[v] = turn[v]
      BY <1>1, <1>6, <1>0
    <3>. QED
      BY <3>1, AscendingShrinks
  <2>3. Ahead \subseteq GuessesLeft(t, old)
    BY <2>1, LeftFacts
  <2>4. Rest \subseteq GuessesLeft(t, old)
    BY <2>2, LeftFacts
  <2>. QED
    BY <2>3, <2>4
<1>11. Ahead \cap Rest = {}
  BY <1>0
<1>12. IsFiniteSet(GuessesLeft(t, old)) /\ Cardinality(GuessesLeft(t, old)) \in Nat
  BY <1>6, FS_CardinalityType
<1>. HIDE DEF Ahead, AfterI, Rest
<1>13. /\ IsFiniteSet(Rest) /\ Cardinality(Rest) \in Nat
       /\ Cardinality(Ahead) + Cardinality(Rest) <= Cardinality(GuessesLeft(t, old))
  <2>1. IsFiniteSet(Rest) /\ Cardinality(Rest) \in Nat
    BY <1>10, <1>12, FS_Subset, FS_CardinalityType
  <2>2. Cardinality(Ahead \cup Rest) = Cardinality(Ahead) + Cardinality(Rest)
    <3>1. Cardinality(Ahead \cap Rest) = 0
      BY <1>11, FS_EmptySet
    <3>2. Cardinality(Ahead \cup Rest)
            = Cardinality(Ahead) + Cardinality(Rest) - Cardinality(Ahead \cap Rest)
      BY <1>8, <2>1, FS_Union
    <3>. QED
      BY <1>8, <2>1, <3>1, <3>2
  <2>3. Cardinality(Ahead \cup Rest) <= Cardinality(GuessesLeft(t, old))
    BY <1>10, <1>12, FS_Subset
  <2>. QED
    BY <1>8, <2>1, <2>2, <2>3
<1>14. /\ IsFiniteSet(AfterI \cup Rest) /\ Cardinality(AfterI \cup Rest) \in Nat
       /\ Cardinality(AfterI \cup Rest) <= Cardinality(AfterI) + Cardinality(Rest)
  <2>1. IsFiniteSet(AfterI \cap Rest)
    BY <1>13, FS_Subset
  <2>2. Cardinality(AfterI \cap Rest) \in Nat
    BY <2>1, FS_CardinalityType
  <2>3. /\ IsFiniteSet(AfterI \cup Rest)
        /\ Cardinality(AfterI \cup Rest)
             = Cardinality(AfterI) + Cardinality(Rest) - Cardinality(AfterI \cap Rest)
    BY <1>7, <1>13, FS_Union
  <2>4. Cardinality(AfterI \cup Rest) \in Nat
    BY <2>3, FS_CardinalityType
  <2>. QED
    BY <1>7, <1>13, <2>2, <2>3, <2>4
<1>15. Cardinality(AfterI \cup Rest) + 1 <= Cardinality(GuessesLeft(t, old))
  BY <1>7, <1>8, <1>12, <1>13, <1>14
<1>. QED
  BY <1>6, <1>9, <1>14, <1>15

\* Nobody has read more than the row counts.
LEMMA LeastReadFacts ==
  ASSUME TypeOK
  PROVE  LeastRead \in [Workers -> Nat]
         /\ \A v \in Workers : LeastRead[v] <= row.attempts
BY DEF LeastRead, TypeOK, Row, Request

\* A step that compares no code and leaves the row's count alone.
LEMMA NoGuessStep ==
  ASSUME TypeOK, TypeOK', GuessesAreCounted, guesses' = guesses,
         row'.attempts = row.attempts, row'.state = "none" => row.state = "none",
         \A v \in Workers : req'[v].phase = "try" =>
           \/ req'[v] = req[v]
           \/ req'[v].attempts = row.attempts
  PROVE  GuessesAreCounted'
<1>1. LeastRead \in [Workers -> Nat] /\ LeastRead' \in [Workers -> Nat]
  <2>1. LeastRead' \in [Workers -> Nat]
    BY DEF LeastRead, TypeOK, Row, Request
  <2>. QED
    BY <2>1, LeastReadFacts
<1>2. \A v \in Workers : LeastRead[v] <= LeastRead'[v]
  <2>. SUFFICES ASSUME NEW v \in Workers PROVE LeastRead[v] <= LeastRead'[v]
    OBVIOUS
  <2>1. /\ req[v].attempts \in Nat /\ req'[v].attempts \in Nat /\ row.attempts \in Nat
        /\ row'.attempts = row.attempts
    BY DEF TypeOK, Request, Row
  <2>2. LeastRead[v] = IF req[v].phase = "try" /\ req[v].attempts < row.attempts
                       THEN req[v].attempts ELSE row.attempts
    BY DEF LeastRead
  <2>3. LeastRead'[v] = IF req'[v].phase = "try" /\ req'[v].attempts < row'.attempts
                        THEN req'[v].attempts ELSE row'.attempts
    BY DEF LeastRead
  <2>. QED
    BY <2>1, <2>2, <2>3
<1>3. ASSUME NEW turn \in Turns
      PROVE  /\ IsFiniteSet(GuessesLeft(turn, LeastRead'))
             /\ guesses + Cardinality(GuessesLeft(turn, LeastRead')) <= GuessLimit
  <2>1. PICK new : new = LeastRead'
    OBVIOUS
  <2>2. GuessesLeft(turn, new) \subseteq GuessesLeft(turn, LeastRead)
    BY <1>1, <1>2, <2>1, LessLeft
  <2>3. /\ IsFiniteSet(GuessesLeft(turn, LeastRead))
        /\ guesses + Cardinality(GuessesLeft(turn, LeastRead)) <= GuessLimit
        /\ guesses \in Nat
    BY DEF GuessesAreCounted, TypeOK
  <2>4. /\ IsFiniteSet(GuessesLeft(turn, new))
        /\ Cardinality(GuessesLeft(turn, new)) <= Cardinality(GuessesLeft(turn, LeastRead))
        /\ Cardinality(GuessesLeft(turn, new)) \in Nat
        /\ Cardinality(GuessesLeft(turn, LeastRead)) \in Nat
    BY <2>2, <2>3, FS_Subset, FS_CardinalityType
  <2>5. GuessLimit \in Int
    BY WorkersAreCounted, AscendingIsFinite DEF GuessLimit
  <2>6. guesses + Cardinality(GuessesLeft(turn, new)) <= GuessLimit
    BY <2>3, <2>4, <2>5
  <2>. QED
    BY <2>1, <2>4, <2>6
<1>4. row'.state = "none" => row'.attempts = 0
  BY DEF GuessesAreCounted
<1>5. \A turn \in Turns :
        /\ IsFiniteSet(GuessesLeft(turn, LeastRead)')
        /\ guesses' + Cardinality(GuessesLeft(turn, LeastRead)') <= GuessLimit
  BY <1>3 DEF GuessesLeft
<1>. QED
  BY <1>4, <1>5 DEF GuessesAreCounted

\* A step that compares a code and counts it, from the copy that w read.
LEMMA GuessStep ==
  ASSUME TypeOK, TypeOK', GuessesAreCounted, guesses' = guesses + 1,
         NEW w \in Workers, req[w].phase = "try", req'[w].phase # "try", Others(w),
         req[w].attempts < MaxAttempts, row'.attempts = req[w].attempts + 1,
         row'.state # "none"
  PROVE  GuessesAreCounted'
<1>. DEFINE c == req[w].attempts
<1>1. LeastRead \in [Workers -> Nat] /\ LeastRead' \in [Workers -> Nat]
  <2>1. LeastRead' \in [Workers -> Nat]
    BY DEF LeastRead, TypeOK, Row, Request
  <2>. QED
    BY <2>1, LeastReadFacts
<1>2. c \in Nat /\ row.attempts \in Nat /\ row'.attempts = c + 1
  BY DEF TypeOK, Request, Row
<1>. HIDE DEF c
<1>3. LeastRead[w] <= c /\ LeastRead'[w] = c + 1
  BY <1>2 DEF LeastRead, c
<1>4. ASSUME NEW v \in Workers
      PROVE  LeastRead'[v] = c + 1 \/ LeastRead[v] <= LeastRead'[v]
  <2>1. CASE v = w
    BY <1>3, <2>1
  <2>2. CASE v # w
    <3>1. req'[v] = req[v] /\ req[v].attempts \in Nat
      BY <2>2 DEF Others, TypeOK, Request
    <3>2. LeastRead[v] = IF req[v].phase = "try" /\ req[v].attempts < row.attempts
                         THEN req[v].attempts ELSE row.attempts
      BY DEF LeastRead
    <3>3. LeastRead'[v] = IF req[v].phase = "try" /\ req[v].attempts < c + 1
                          THEN req[v].attempts ELSE c + 1
      BY <1>2, <3>1 DEF LeastRead
    <3>. QED
      BY <1>2, <3>1, <3>2, <3>3
  <2>. QED
    BY <2>1, <2>2
<1>5. PICK old, new : old = LeastRead /\ new = LeastRead'
  OBVIOUS
<1>6. \A turn \in Turns : /\ IsFiniteSet(GuessesLeft(turn, old))
                          /\ guesses + Cardinality(GuessesLeft(turn, old)) <= GuessLimit
  BY <1>5 DEF GuessesAreCounted
<1>7. guesses \in Nat /\ GuessLimit \in Int
  BY LimitIsInt DEF TypeOK
<1>8. ASSUME NEW turn \in Turns
      PROVE  /\ IsFiniteSet(GuessesLeft(turn, new))
             /\ guesses + 1 + Cardinality(GuessesLeft(turn, new)) <= GuessLimit
  <2>1. c < MaxAttempts
    BY DEF c
  <2>2. PICK t \in Turns :
           /\ IsFiniteSet(GuessesLeft(turn, new))
           /\ Cardinality(GuessesLeft(turn, new)) + 1 <= Cardinality(GuessesLeft(t, old))
           /\ Cardinality(GuessesLeft(turn, new)) \in Nat
    BY <1>1, <1>2, <1>3, <1>4, <1>5, <1>6, <2>1, WriteTakesOne
  <2>3. Cardinality(GuessesLeft(t, old)) \in Nat
    BY <1>6, FS_CardinalityType
  <2>4. guesses + Cardinality(GuessesLeft(t, old)) <= GuessLimit
    BY <1>6
  <2>. QED
    BY <1>7, <2>2, <2>3, <2>4
<1>9. \A turn \in Turns :
        /\ IsFiniteSet(GuessesLeft(turn, LeastRead)')
        /\ guesses' + Cardinality(GuessesLeft(turn, LeastRead)') <= GuessLimit
  BY <1>5, <1>8 DEF GuessesLeft
<1>. QED
  BY <1>9 DEF GuessesAreCounted

\* At first no code is compared, and nobody has read anything.
LEMMA GuessesInit == Init => GuessesAreCounted
<1>. SUFFICES ASSUME Init PROVE GuessesAreCounted
  OBVIOUS
<1>1. LeastRead \in [Workers -> {0}] /\ row.attempts = 0 /\ guesses = 0
  BY DEF Init, LeastRead, Idle
<1>. QED
  BY <1>1, LeftAtFirst DEF GuessesAreCounted

LEMMA GuessesStep ==
  Base /\ GuessesAreCounted /\ [Next]_vars => GuessesAreCounted'
<1>. SUFFICES ASSUME Base, GuessesAreCounted, [Next]_vars PROVE GuessesAreCounted'
  OBVIOUS
<1>t. TypeOK /\ TypeOK'
  BY TypeStep DEF Base
<1>1. CASE Tick \/ Send
  <2>1. row'.attempts = row.attempts /\ (row'.state = "none" => row.state = "none")
    BY <1>1, <1>t DEF Tick, Send, TypeOK, Row
  <2>2. guesses' = guesses /\ \A v \in Workers : req'[v] = req[v]
    BY <1>1 DEF Tick, Send
  <2>. QED
    BY <1>t, <2>1, <2>2, NoGuessStep
<1>2. CASE Start
  <2>1. row'.attempts = row.attempts /\ row'.state # "none"
    BY <1>2 DEF Start, GuessesAreCounted
  <2>2. req' = req /\ guesses' = guesses
    BY <1>2 DEF Start
  <2>. QED
    BY <1>t, <2>1, <2>2, NoGuessStep
<1>3. ASSUME NEW w \in Workers,
             \/ \E ok \in BOOLEAN : Arrive(w, ok)
             \/ Get(w) \/ GetNothing(w) \/ IssueToken(w) \/ Refuse(w) \/ Die(w)
      PROVE  GuessesAreCounted'
  <2>1. row' = row /\ guesses' = guesses
    BY <1>3 DEF Arrive, Get, GetNothing, IssueToken, Refuse, Die
  <2>2. Others(w)
    BY <1>3, <1>t DEF Arrive, Get, GetNothing, IssueToken, Refuse, Die, Others, TypeOK
  <2>3. req'[w].phase = "try" => req'[w].attempts = row.attempts
    <3>1. CASE \E ok \in BOOLEAN : Arrive(w, ok)
      BY <3>1, <1>t DEF Arrive, TypeOK, Idle
    <3>2. CASE Get(w)
      BY <3>2, <1>t DEF Get, TypeOK, Request
    <3>3. CASE GetNothing(w) \/ IssueToken(w) \/ Refuse(w) \/ Die(w)
      BY <3>3, <1>t, IdleIsRequest DEF GetNothing, IssueToken, Refuse, Die, TypeOK
    <3>. QED
      BY <1>3, <3>1, <3>2, <3>3
  <2>4. \A v \in Workers : req'[v].phase = "try" =>
          req'[v] = req[v] \/ req'[v].attempts = row.attempts
    BY <2>2, <2>3 DEF Others
  <2>. QED
    BY <1>t, <2>1, <2>4, NoGuessStep
<1>4. ASSUME NEW w \in Workers, Try(w)
      PROVE  GuessesAreCounted'
  <2>1. /\ req[w].phase = "try" /\ req[w].attempts < MaxAttempts /\ guesses' = guesses + 1
        /\ Others(w)
    BY <1>4, <1>t DEF Try, Usable, TypeOK, Others
  <2>2. row'.attempts = req[w].attempts + 1 /\ row'.state = row.state
    BY <1>4, <1>t DEF Try, AttemptCounted, TypeOK, Row
  <2>3. row.state # "none"
    BY <2>1 DEF Base, NothingBefore
  <2>4. req'[w].phase # "try"
    BY <1>4, <1>t, IdleIsRequest DEF Try, TypeOK, Request
  <2>. QED
    BY <1>t, <2>1, <2>2, <2>3, <2>4, GuessStep
<1>5. CASE UNCHANGED vars
  BY <1>5, <1>t, NoGuessStep DEF vars
<1>. QED
  BY <1>1, <1>2, <1>3, <1>4, <1>5 DEF Next, Verify

\* Workers can take turns.
LEMMA TurnsExist == Turns # {}
<1>. DEFINE n == Cardinality(Workers)
<1>1. n \in Nat /\ ExistsBijection(1..n, Workers)
  BY LimitsAssumption, FS_CardinalityType
<1>2. PICK g \in Bijection(1..n, Workers) : TRUE
  BY <1>1 DEF ExistsBijection
<1>3. /\ g \in [1..n -> Workers]
      /\ \A w \in Workers : \E i \in 1..n : g[i] = w
  BY <1>2 DEF Bijection, Injection, Surjection
<1>. DEFINE turn == [w \in Workers |-> CHOOSE i \in 1..n : g[i] = w]
<1>4. \A w \in Workers : turn[w] \in 1..n /\ g[turn[w]] = w
  BY <1>3
<1>. HIDE DEF n
<1>5. turn \in [Workers -> 1..n] /\ \A v, w \in Workers : turn[v] = turn[w] => v = w
  BY <1>4
<1>. QED
  BY <1>5 DEF Turns, n

LEMMA GuessesWithinLimit == TypeOK /\ GuessesAreCounted => OverlapBoundsGuesses
<1>. SUFFICES ASSUME TypeOK, GuessesAreCounted PROVE OverlapBoundsGuesses
  OBVIOUS
<1>1. PICK turn \in Turns : TRUE
  BY TurnsExist
<1>2. /\ Cardinality(GuessesLeft(turn, LeastRead)) \in Nat
      /\ guesses + Cardinality(GuessesLeft(turn, LeastRead)) <= GuessLimit
  BY FS_CardinalityType DEF GuessesAreCounted
<1>3. guesses \in Nat /\ GuessLimit \in Int
  BY LimitIsInt DEF TypeOK
<1>. QED
  BY <1>2, <1>3 DEF OverlapBoundsGuesses

-----------------------------------------------------------------------------

\* The whole invariant, for every number of workers and whatever overlaps.
THEOREM InvHolds == Spec => []Inv
<1>. DEFINE Kept == Base /\ GuessesAreCounted /\ (~overlapped => CountIsKept)
<1>1. Init => Kept
  BY BaseInit, GuessesInit, CountInit
<1>2. Kept /\ [Next]_vars => Kept'
  <2>. SUFFICES ASSUME Base, GuessesAreCounted, ~overlapped => CountIsKept, [Next]_vars
                PROVE  Base' /\ GuessesAreCounted' /\ (~overlapped' => CountIsKept')
    OBVIOUS
  <2>1. Base' /\ GuessesAreCounted'
    BY BaseStep, GuessesStep
  <2>2. ASSUME ~overlapped' PROVE CountIsKept'
    <3>1. ~overlapped
      BY <2>2, OverlappedStays DEF Base
    <3>. QED
      BY <2>2, <3>1, CountStep
  <2>. QED
    BY <2>1, <2>2
<1>3. Kept => Inv
  BY DEF Base, Inv
<1>. QED
  BY <1>1, <1>2, <1>3, PTL DEF Spec

\* However tries overlap, the codes compared stay under a limit that only the number
\* of handlers and MAX_ATTEMPTS decide: a stale copy can take the counter back, but not
\* for ever.
THEOREM OverlapBoundsGuessesHolds == Spec => []OverlapBoundsGuesses
<1>1. Inv => OverlapBoundsGuesses
  BY GuessesWithinLimit DEF Inv
<1>. QED
  BY <1>1, InvHolds, PTL

\* As long as tries do not overlap, a verification takes MAX_ATTEMPTS codes at most
\* and issues at most one token, whatever dies and whenever.
THEOREM SerialLimits == Spec => [](AttemptsAreLimited /\ OneToken)
<1>1. Inv => AttemptsAreLimited /\ OneToken
  BY DEF Inv, CountIsKept, AttemptsAreLimited, OneToken
<1>. QED
  BY <1>1, InvHolds, PTL

\* As long as tries do not overlap, a verification issues one token.
THEOREM OneTokenEach == Spec => []OneToken
<1>1. Inv => OneToken
  BY DEF Inv, CountIsKept, OneToken
<1>. QED
  BY <1>1, InvHolds, PTL

-----------------------------------------------------------------------------
(* Identity documents (IdVerify).                                          *)

\* Two names are hashed alike exactly when they are the same, in as many parts.
LEMMA TextsAlike ==
  ASSUME NEW v \in Text, NEW u \in Text
  PROVE  (normalize_text(v) = normalize_text(u)) <=> SameName(v, u)
<1>1. v # None /\ u # None
  BY SubmissionAssumption
<1>2. (normalize_text(v) = normalize_text(u))
        <=> v.letters = u.letters /\ ((v.joint # "none") = (u.joint # "none"))
  BY DEF normalize_text
<1>. QED
  BY <1>1, <1>2 DEF SameName

\* So are two dates, when neither is read as another.
LEMMA DatesAlike ==
  ASSUME NEW v \in Written, NEW u \in Written, Clear(v), Clear(u)
  PROVE  (normalize_date(v) = normalize_date(u)) <=> SameDate(v, u)
<1>1. v # None /\ u # None
  BY SubmissionAssumption
<1>2. normalize_date(v) = Date(v.month, v.day) /\ normalize_date(u) = Date(u.month, u.day)
  BY <1>1 DEF Clear
<1>. QED
  BY <1>1, <1>2 DEF Date, SameDate

\* How each field that is entered compares with one that is stored.
LEMMA FieldsCompared ==
  ASSUME NEW stored \in Documents, NEW entered \in Entries, NEW q,
         q.entered = entered, q.hash = fields_hash(stored),
         IsClear(stored), IsClear(entered), NEW f \in FieldNames, entered[f] # None
  PROVE  /\ f \in DOMAIN per_field(q)
         /\ stored[f] = None => per_field(q)[f] = "null"
         /\ stored[f] # None /\ f = "number" => per_field(q)[f] = "true"
         /\ stored[f] # None /\ f \in {"full_name", "father_name"} =>
              per_field(q)[f] = IF SameName(stored[f], entered[f]) THEN "true" ELSE "false"
         /\ stored[f] # None /\ f = "date_of_birth" =>
              per_field(q)[f] = IF SameDate(stored[f], entered[f]) THEN "true" ELSE "false"
<1>1. IsSubmission(stored) /\ IsSubmission(entered)
  BY SubmissionAssumption
<1>2. /\ f \in DOMAIN per_field(q)
      /\ per_field(q)[f] = IF q.hash[f] = None THEN "null"
                           ELSE IF normalize_field(f, entered[f]) = q.hash[f] THEN "true"
                           ELSE "false"
  BY DEF per_field
<1>3. q.hash[f] = IF stored[f] = None THEN None ELSE normalize_field(f, stored[f])
  BY DEF fields_hash
<1>4. CASE stored[f] = None
  BY <1>2, <1>3, <1>4
<1>5. CASE stored[f] # None /\ f = "number"
  <2>0. /\ stored[f] \in {v \in Text : v.letters = Number}
        /\ entered[f] \in {v \in Text : v.letters = Number}
    BY <1>1, <1>5 DEF IsSubmission
  <2>1. stored[f] \in Text /\ entered[f] \in Text /\ stored[f].letters = entered[f].letters
    BY <2>0
  <2>2. \A v : normalize_field(f, v) = normalize_number(v)
    BY <1>5 DEF normalize_field, NumberFields, DateFields
  <2>3. normalize_field(f, entered[f]) = q.hash[f] /\ q.hash[f] # None
    BY <1>3, <1>5, <2>1, <2>2, SubmissionAssumption DEF normalize_number
  <2>. QED
    BY <1>2, <1>5, <2>3
<1>6. CASE stored[f] # None /\ f \in {"full_name", "father_name"}
  <2>1. stored[f] \in Text /\ entered[f] \in Text
    BY <1>1, <1>6 DEF IsSubmission
  <2>2. \A v : normalize_field(f, v) = normalize_text(v)
    BY <1>6 DEF normalize_field, NumberFields, DateFields
  <2>3. /\ q.hash[f] # None
        /\ (normalize_field(f, entered[f]) = q.hash[f]) <=> SameName(stored[f], entered[f])
    BY <1>3, <1>6, <2>1, <2>2, TextsAlike, SubmissionAssumption
  <2>. QED
    BY <1>2, <1>6, <2>3
<1>7. CASE stored[f] # None /\ f = "date_of_birth"
  <2>1. stored[f] \in Written /\ entered[f] \in Written
    BY <1>1, <1>7 DEF IsSubmission
  <2>2. \A v : normalize_field(f, v) = normalize_date(v)
    BY <1>7 DEF normalize_field, NumberFields, DateFields
  <2>3. Clear(stored[f]) /\ Clear(entered[f])
    BY <1>7 DEF IsClear
  <2>4. /\ q.hash[f] # None
        /\ (normalize_field(f, entered[f]) = q.hash[f]) <=> SameDate(stored[f], entered[f])
    BY <1>3, <1>7, <2>1, <2>2, <2>3, DatesAlike, SubmissionAssumption
  <2>. QED
    BY <1>2, <1>7, <2>4
<1>. QED
  BY <1>2, <1>4, <1>5, <1>6, <1>7 DEF FieldNames

\* What is answered of clear writings is whether the two people agree.
LEMMA MatchedIsAgreement ==
  ASSUME NEW stored \in Documents, NEW entered \in Entries, NEW q,
         q.entered = entered, q.hash = fields_hash(stored),
         IsClear(stored), IsClear(entered), \A f \in required_match : entered[f] # None
  PROVE  Matched(q) <=> Agree(stored, entered)
<1>. DEFINE name == "full_name"
            date == "date_of_birth"
            father == "father_name"
<1>0. {"number", name, date, father} = FieldNames /\ entered[name] # None /\ entered[date] # None
  BY DEF FieldNames, required_match
<1>1. DOMAIN per_field(q) = {f \in FieldNames : entered[f] # None}
  BY DEF per_field
<1>2. entered["number"] # None => per_field(q)["number"] # "false"
  BY <1>0, FieldsCompared
<1>3. (per_field(q)[name] = "true") <=> SameName(stored[name], entered[name])
  BY <1>0, FieldsCompared DEF SameName
<1>4. (per_field(q)[date] = "true") <=> SameDate(stored[date], entered[date])
  BY <1>0, FieldsCompared DEF SameDate
<1>5. entered[father] # None =>
        ((per_field(q)[father] # "false")
           <=> stored[father] = None \/ SameName(stored[father], entered[father]))
  BY <1>0, FieldsCompared
<1>6. Matched(q) <=> /\ per_field(q)[name] = "true" /\ per_field(q)[date] = "true"
                     /\ entered[father] # None => per_field(q)[father] # "false"
  BY <1>0, <1>1, <1>2 DEF Matched, required_match
<1>7. Agree(stored, entered) <=>
        /\ SameName(stored[name], entered[name]) /\ SameDate(stored[date], entered[date])
        /\ \/ entered[father] = None \/ stored[father] = None
           \/ SameName(stored[father], entered[father])
  BY DEF Agree
<1>. QED
  BY <1>3, <1>4, <1>5, <1>6, <1>7

\* A copy of a row is of one of the documents, and what is entered was submitted.
LEMMA CopyFacts ==
  ASSUME IdvInv, NEW w \in Verifiers, check[w].phase \in {"compare", "answered"}
  PROVE  /\ check[w].as \in 1..Len(ingested) /\ ingested[check[w].as] \in Documents
         /\ check[w].hash = fields_hash(ingested[check[w].as])
         /\ check[w].entered \in Entries
         /\ \A f \in required_match : check[w].entered[f] # None
         /\ check[w].phase = "answered" => check[w].matched = Matched(check[w])
<1>1. /\ check[w].as \in DOMAIN ingested /\ check[w].hash = fields_hash(ingested[check[w].as])
      /\ check[w].entered # None
      /\ \A f \in required_match : check[w].entered[f] # None
      /\ check[w].phase = "answered" => check[w].matched = Matched(check[w])
  BY DEF IdvInv, CopiesAgree
<1>2. check[w].entered \in Entries \cup {None} /\ ingested \in Seq(Documents)
  BY DEF IdvInv, IdvTypeOK, Check
<1>. QED
  BY <1>1, <1>2

LEMMA IdvInvInit == IdvInit => IdvInv
<1>. SUFFICES ASSUME IdvInit
              PROVE  IdvInv
  OBVIOUS
<1>1. NoCheck \in Check
  BY CalendarAssumption DEF NoCheck, Check
<1>2. ingested \in Seq(Documents) /\ Len(ingested) = 0
  BY DEF IdvInit
<1>3. IdvTypeOK
  BY <1>1, <1>2, CalendarAssumption DEF IdvInit, IdvTypeOK
<1>4. CopiesAgree /\ VerifiedWasStored
  BY DEF IdvInit, CopiesAgree, VerifiedWasStored, NoCheck
<1>. QED
  BY <1>3, <1>4 DEF IdvInv

\* Ingest takes no document away: it adds one.
LEMMA IngestKeeps ==
  ASSUME IdvInv, NEW fields \in Documents, Ingest(fields)
  PROVE  IdvInv'
<1>0. /\ ingested \in Seq(Documents) /\ Len(ingested) < MaxIngests
      /\ MaxIngests \in Nat
      /\ ingested' = Append(ingested, fields)
      /\ check' = check /\ verified' = verified /\ doc' = RowOf(fields)
  BY CalendarAssumption DEF Ingest, IdvInv, IdvTypeOK
<1>1. /\ ingested' \in Seq(Documents) /\ Len(ingested') = Len(ingested) + 1
      /\ ingested'[Len(ingested')] = fields /\ ingested' # << >>
      /\ \A i \in DOMAIN ingested : i \in DOMAIN ingested' /\ ingested'[i] = ingested[i]
  BY <1>0
<1>2. IdvTypeOK'
  <2>1. doc'.hash \in Hashes /\ doc'.enc_fields \in Documents \cup {None}
    BY <1>0 DEF RowOf, Hashes, seal_fields
  <2>2. Len(ingested') <= MaxIngests
    BY <1>0, <1>1
  <2>. QED
    BY <1>0, <1>1, <2>1, <2>2 DEF IdvInv, IdvTypeOK
<1>3. CopiesAgree'
  BY <1>0, <1>1 DEF IdvInv, CopiesAgree
<1>4. VerifiedWasStored'
  BY <1>0, <1>1 DEF IdvInv, VerifiedWasStored
<1>. QED
  BY <1>2, <1>3, <1>4 DEF IdvInv

\* A step of a verify handler that records nothing.
LEMMA CheckKeeps ==
  ASSUME IdvInv, NEW w \in Verifiers, NEW q \in Check,
         check' = [check EXCEPT ![w] = q], UNCHANGED <<doc, verified, ingested>>,
         q.phase = "idle" <=> q.entered = None,
         q.phase # "idle" => \A f \in required_match : q.entered[f] # None,
         q.phase \in {"compare", "answered"} =>
           q.as \in DOMAIN ingested /\ q.hash = fields_hash(ingested[q.as]),
         q.phase = "answered" => q.matched = Matched(q)
  PROVE  IdvInv'
<1>1. /\ check'[w] = q /\ \A v \in Verifiers : v # w => check'[v] = check[v]
      /\ check' \in [Verifiers -> Check]
  BY DEF IdvInv, IdvTypeOK
<1>2. IdvTypeOK'
  BY <1>1 DEF IdvInv, IdvTypeOK
<1>3. CopiesAgree'
  BY <1>1 DEF IdvInv, CopiesAgree
<1>4. VerifiedWasStored'
  BY DEF IdvInv, VerifiedWasStored
<1>. QED
  BY <1>2, <1>3, <1>4 DEF IdvInv

\* A verification is recorded only when what is entered agrees with the copy.
LEMMA CompareKeeps ==
  ASSUME IdvInv, NEW w \in Verifiers, Compare(w)
  PROVE  IdvInv'
<1>. DEFINE p == check[w]
            stored == ingested[p.as]
<1>0. p \in Check /\ p.phase = "compare"
  BY DEF IdvInv, IdvTypeOK, Compare
<1>1. PICK q : q = [p EXCEPT !.phase = "answered", !.matched = Matched(p)]
  OBVIOUS
<1>2. Matched(p) \in BOOLEAN
  BY DEF Matched
<1>3. /\ q \in Check /\ q.phase = "answered" /\ q.entered = p.entered /\ q.hash = p.hash
      /\ q.as = p.as /\ q.matched = Matched(p)
  BY <1>0, <1>1, <1>2 DEF Check
<1>4. q.matched = Matched(q)
  BY <1>3 DEF Matched, per_field
<1>5. /\ check' = [check EXCEPT ![w] = q] /\ doc' = doc /\ ingested' = ingested
      /\ verified' = IF Matched(p) /\ verified[p.caller] = None
                     THEN [verified EXCEPT ![p.caller] = p.entered] ELSE verified
  BY <1>1 DEF Compare
<1>6. /\ p.as \in 1..Len(ingested) /\ stored \in Documents /\ p.hash = fields_hash(stored)
      /\ p.entered \in Entries /\ \A f \in required_match : p.entered[f] # None
  BY <1>0, CopyFacts
<1>7. /\ check'[w] = q /\ \A v \in Verifiers : v # w => check'[v] = check[v]
      /\ check' \in [Verifiers -> Check]
  BY <1>3, <1>5 DEF IdvInv, IdvTypeOK
<1>8. IdvTypeOK'
  BY <1>5, <1>6, <1>7 DEF IdvInv, IdvTypeOK
<1>9. CopiesAgree'
  <2>1. /\ q.entered # None /\ q.as \in DOMAIN ingested /\ q.hash = fields_hash(ingested[q.as])
        /\ \A f \in required_match : q.entered[f] # None
    BY <1>0, <1>3 DEF IdvInv, CopiesAgree
  <2>. QED
    BY <1>3, <1>4, <1>5, <1>7, <2>1 DEF IdvInv, CopiesAgree
<1>10. VerifiedWasStored'
  <2>. SUFFICES ASSUME NEW c \in Callers, verified'[c] # None
                PROVE  \E i \in DOMAIN ingested :
                         \/ Agree(ingested[i], verified'[c])
                         \/ ~IsClear(ingested[i]) \/ ~IsClear(verified'[c])
    BY <1>5 DEF VerifiedWasStored
  <2>1. CASE verified'[c] = verified[c]
    BY <2>1 DEF IdvInv, VerifiedWasStored
  <2>2. CASE verified'[c] # verified[c]
    <3>1. verified'[c] = p.entered /\ Matched(p)
      BY <1>5, <2>2 DEF IdvInv, IdvTypeOK
    <3>2. p.as \in DOMAIN ingested
      BY <1>0 DEF IdvInv, CopiesAgree
    <3>3. IsClear(stored) /\ IsClear(p.entered) => Agree(stored, p.entered)
      BY <1>6, <3>1, MatchedIsAgreement
    <3>. QED
      BY <3>1, <3>2, <3>3
  <2>. QED
    BY <2>1, <2>2
<1>. QED
  BY <1>8, <1>9, <1>10 DEF IdvInv

LEMMA VerifyKeeps ==
  ASSUME IdvInv, NEW w \in Verifiers, VerifyDocument(w)
  PROVE  IdvInv'
<1>0. /\ check[w] \in Check /\ NoCheck \in Check
      /\ NoCheck.phase = "idle" /\ NoCheck.entered = None
  BY CalendarAssumption DEF IdvInv, IdvTypeOK, NoCheck, Check
<1>1. ASSUME NEW c \in Callers, NEW e \in Entries, BeginVerify(w, c, e)
      PROVE  IdvInv'
  <2>. DEFINE q == [NoCheck EXCEPT !.phase = "get", !.caller = c, !.entered = e]
  <2>1. q \in Check /\ q.phase = "get" /\ q.entered = e
    BY <1>0 DEF NoCheck, Check
  <2>2. check' = [check EXCEPT ![w] = q] /\ UNCHANGED <<doc, verified, ingested>>
        /\ \A f \in required_match : e[f] # None
    BY <1>1 DEF BeginVerify
  <2>3. e # None
    BY SubmissionAssumption
  <2>. HIDE DEF q
  <2>. QED
    BY <2>1, <2>2, <2>3, CheckKeeps
<1>2. CASE GetDocument(w)
  <2>1. CASE doc = None
    BY <1>0, <1>2, <2>1, CheckKeeps DEF GetDocument
  <2>2. CASE doc # None
    <3>. DEFINE q == [check[w] EXCEPT !.phase = "compare", !.hash = doc.hash,
                                      !.as = Len(ingested)]
    <3>1. /\ ingested \in Seq(Documents) /\ ingested # << >> /\ Len(ingested) <= MaxIngests
          /\ doc = RowOf(ingested[Len(ingested)]) /\ doc.hash \in Hashes
      BY <2>2 DEF IdvInv, IdvTypeOK, CopiesAgree
    <3>2. /\ Len(ingested) \in DOMAIN ingested /\ Len(ingested) \in 0..MaxIngests
          /\ doc.hash = fields_hash(ingested[Len(ingested)])
      BY <3>1, CalendarAssumption DEF RowOf
    <3>3. /\ q \in Check /\ q.phase = "compare" /\ q.entered = check[w].entered
          /\ q.hash = doc.hash /\ q.as = Len(ingested)
      BY <1>0, <3>1, <3>2 DEF Check
    <3>4. check[w].entered # None /\ \A f \in required_match : check[w].entered[f] # None
      BY <1>2 DEF GetDocument, IdvInv, CopiesAgree
    <3>5. check' = [check EXCEPT ![w] = q] /\ UNCHANGED <<doc, verified, ingested>>
      BY <1>2, <2>2 DEF GetDocument
    <3>. HIDE DEF q
    <3>. QED
      BY <3>2, <3>3, <3>4, <3>5, CheckKeeps
  <2>. QED
    BY <2>1, <2>2
<1>3. CASE Compare(w)
  BY <1>3, CompareKeeps
<1>4. CASE EndVerify(w)
  BY <1>0, <1>4, CheckKeeps DEF EndVerify
<1>. QED
  BY <1>1, <1>2, <1>3, <1>4 DEF VerifyDocument

LEMMA IdvInvNext == IdvInv /\ [IdvNext]_idvVars => IdvInv'
<1>. SUFFICES ASSUME IdvInv, [IdvNext]_idvVars
              PROVE  IdvInv'
  OBVIOUS
<1>1. ASSUME NEW fields \in Documents, Ingest(fields)
      PROVE  IdvInv'
  BY <1>1, IngestKeeps
<1>2. ASSUME NEW w \in Verifiers, VerifyDocument(w)
      PROVE  IdvInv'
  BY <1>2, VerifyKeeps
<1>3. CASE UNCHANGED idvVars
  BY <1>3 DEF IdvInv, IdvTypeOK, CopiesAgree, VerifiedWasStored, idvVars
<1>. QED
  BY <1>1, <1>2, <1>3 DEF IdvNext

\* A copy is of one ingest as a whole, and a verification was earned of a document that
\* was stored, whatever is ingested between the SELECT and the answer.
THEOREM IdvInvHolds == IdvSpec => []IdvInv
BY IdvInvInit, IdvInvNext, PTL DEF IdvSpec

\* What verify answers is what the operator and the user meant, however they wrote it,
\* if neither wrote a date that reads as another.
THEOREM MatchIsMeaningHolds == IdvSpec => []MatchIsMeaning
<1>1. IdvInv => MatchIsMeaning
  <2>. SUFFICES ASSUME IdvInv, NEW w \in Verifiers, check[w].phase = "answered",
                       IsClear(check[w].entered), IsClear(ingested[check[w].as])
                PROVE  check[w].matched <=> Agree(ingested[check[w].as], check[w].entered)
    BY DEF MatchIsMeaning
  <2>1. /\ ingested[check[w].as] \in Documents /\ check[w].entered \in Entries
        /\ check[w].hash = fields_hash(ingested[check[w].as])
        /\ \A f \in required_match : check[w].entered[f] # None
        /\ check[w].matched = Matched(check[w])
    BY CopyFacts
  <2>. QED
    BY <2>1, MatchedIsAgreement
<1>. QED
  BY <1>1, IdvInvHolds, PTL
=============================================================================
