------------------------------- MODULE SmsVerify -------------------------------
(***************************************************************************)
(* One phone verification (rows of different verifications never meet):    *)
(* POST /v1/sms/request creates the PhoneVerification row and sends its    *)
(* code, POST /v1/sms/verify tries a code against it and, when it is right,*)
(* issues a registration token.                                            *)
(*                                                                         *)
(* verify_code runs without a transaction: it reads the row, try_code      *)
(* decides on that copy and writes attempts AND verified_at back, and the  *)
(* token is a statement of its own.  Several requests may try the same     *)
(* verification at once.                                                   *)
(***************************************************************************)
EXTENDS Naturals, FiniteSets, Sequences

CONSTANTS
  Workers,      \* concurrent request handlers
  MaxAttempts,  \* PhoneVerification.MAX_ATTEMPTS
  CodeTtl,      \* SMS["CODE_TTL"]
  MaxClock      \* bound: the last instant of the model

ASSUME LimitsAssumption ==
  {MaxAttempts, CodeTtl, MaxClock} \subseteq Nat /\ IsFiniteSet(Workers)

VARIABLES
  clock,    \* timezone.now()
  row,      \* the row's state and its columns
  req,      \* req[w]: the try worker w is handling, with its copy of the row
  guesses,  \* how many codes have been compared with the row's
  right,    \* the instants at which right codes were compared, in order
  tokens,   \* how many registration tokens the verification has issued
  overlapped  \* has a worker read the row between another's read and write?

vars == <<clock, row, req, guesses, right, tokens, overlapped>>

\* state: not yet created; created and being sent; its code sent; deleted.
Row == [state : {"none", "sending", "sent", "deleted"},
        created_at : Nat, attempts : Nat, verified : BOOLEAN]

\* ok: does the caller have the right code?  The rest is the copy.
Request == [phase : {"idle", "get", "try", "issue"}, ok : BOOLEAN,
            attempts : Nat, verified : BOOLEAN]

Idle == [phase |-> "idle", ok |-> FALSE, attempts |-> 0, verified |-> FALSE]

TypeOK ==
  /\ clock \in Nat
  /\ row \in Row
  /\ req \in [Workers -> Request]
  /\ guesses \in Nat
  /\ right \in Seq(Nat)
  /\ tokens \in Nat
  /\ overlapped \in BOOLEAN

Init ==
  /\ clock = 0
  /\ row = [state |-> "none", created_at |-> 0, attempts |-> 0,
            verified |-> FALSE]
  /\ req = [w \in Workers |-> Idle]
  /\ guesses = 0
  /\ right = <<>>
  /\ tokens = 0
  /\ overlapped = FALSE

Tick ==
  /\ clock < MaxClock
  /\ clock' = clock + 1
  /\ UNCHANGED <<row, req, guesses, right, tokens, overlapped>>

-----------------------------------------------------------------------------
(* POST /v1/sms/request.  (Which numbers it serves is a matter of Signup.) *)

\* PhoneVerification.start
Start ==
  /\ row.state = "none"
  /\ row' = [state |-> "sending", created_at |-> clock, attempts |-> 0,
             verified |-> FALSE]
  /\ UNCHANGED <<clock, req, guesses, right, tokens, overlapped>>

\* The sender delivers the code and the caller gets the verification's id; or it
\* does not, and the row is deleted.
Send ==
  /\ row.state = "sending"
  /\ \E state \in {"sent", "deleted"} : row' = [row EXCEPT !.state = state]
  /\ UNCHANGED <<clock, req, guesses, right, tokens, overlapped>>

-----------------------------------------------------------------------------
(* POST /v1/sms/verify.                                                    *)

\* A request may name any id: that of a row not yet there, or not any more.
Arrive(w, ok) ==
  /\ req[w].phase = "idle"
  /\ req' = [req EXCEPT ![w] = [Idle EXCEPT !.phase = "get", !.ok = ok]]
  /\ UNCHANGED <<clock, row, guesses, right, tokens, overlapped>>

InTable == row.state \in {"sending", "sent"}

\* PhoneVerification.objects.get(id=vid)
Get(w) ==
  /\ req[w].phase = "get"
  /\ InTable
  /\ req' = [req EXCEPT ![w] = [@ EXCEPT !.phase = "try",
                                !.attempts = row.attempts,
                                !.verified = row.verified]]
  /\ overlapped' = (overlapped \/ \E v \in Workers \ {w} : req[v].phase = "try")
  /\ UNCHANGED <<clock, row, guesses, right, tokens>>

\* DoesNotExist: "unknown verification".
GetNothing(w) ==
  /\ req[w].phase = "get"
  /\ ~InTable
  /\ req' = [req EXCEPT ![w] = Idle]
  /\ UNCHANGED <<clock, row, guesses, right, tokens, overlapped>>

UsableOnceVerified(q) ==   \* mutant
  clock - row.created_at <= CodeTtl /\ q.attempts < MaxAttempts
UsableForEver(q) == ~q.verified /\ q.attempts < MaxAttempts     \* mutant
UsableOnceMore(q) == /\ ~q.verified /\ q.attempts <= MaxAttempts   \* mutant
                     /\ clock - row.created_at <= CodeTtl

\* The early return of try_code, on the copy.
Usable(q) ==
  /\ ~q.verified
  /\ clock - row.created_at <= CodeTtl
  /\ q.attempts < MaxAttempts

AttemptUncounted(q) == q.attempts   \* mutant

AttemptCounted(q) == q.attempts + 1

\* try_code compares the code and saves both columns of its copy.
Try(w) ==
  /\ req[w].phase = "try"
  /\ LET q == req[w]
     IN /\ Usable(q) /\ InTable
        /\ guesses' = guesses + 1
        /\ right' = IF q.ok THEN Append(right, clock) ELSE right
        /\ row' = [row EXCEPT !.attempts = AttemptCounted(q), !.verified = q.ok]
        /\ req' = [req EXCEPT ![w] =
                     IF q.ok THEN [q EXCEPT !.phase = "issue"] ELSE Idle]
  /\ UNCHANGED <<clock, tokens, overlapped>>

\* RegistrationToken.issue
IssueToken(w) ==
  /\ req[w].phase = "issue"
  /\ tokens' = tokens + 1
  /\ req' = [req EXCEPT ![w] = Idle]
  /\ UNCHANGED <<clock, row, guesses, right, overlapped>>

\* "invalid or expired code", without a look at the code; or the row was deleted
\* since it was read, and save() fails for want of a row to update.
Refuse(w) ==
  /\ req[w].phase = "try"
  /\ ~Usable(req[w]) \/ ~InTable
  /\ req' = [req EXCEPT ![w] = Idle]
  /\ UNCHANGED <<clock, row, guesses, right, tokens, overlapped>>

Die(w) ==
  /\ req[w].phase # "idle"
  /\ req' = [req EXCEPT ![w] = Idle]
  /\ UNCHANGED <<clock, row, guesses, right, tokens, overlapped>>

Verify(w) == Get(w) \/ GetNothing(w) \/ Try(w) \/ IssueToken(w) \/ Refuse(w)

Next ==
  \/ Tick \/ Start \/ Send
  \/ \E w \in Workers : \/ \E ok \in BOOLEAN : Arrive(w, ok)
                        \/ Verify(w) \/ Die(w)

Spec == Init /\ [][Next]_vars

-----------------------------------------------------------------------------

\* Every token, issued or about to be, answers a right code of its own: there are no
\* more of them than comparisons that a right code passed, and each of these was made
\* within CODE_TTL of the verification's start.
Issuing == {w \in Workers : req[w].phase = "issue"}
TokensAreEarned ==
  /\ tokens + Cardinality(Issuing) <= Len(right)
  /\ Len(right) <= guesses
  /\ \A n \in 1..Len(right) : /\ row.created_at <= right[n]
                            /\ right[n] - row.created_at <= CodeTtl

\* What it rests on: nothing has been tried before the row is there.
NothingBefore ==
  row.state = "none" => /\ guesses = 0 /\ right = <<>> /\ tokens = 0
                        /\ \A w \in Workers : req[w].phase \in {"idle", "get"}

\* While tries have not overlapped, the row has counted every guess and remembers
\* the right one.
CountIsKept ==
  /\ row.attempts = guesses /\ row.attempts <= MaxAttempts
  /\ \A w \in Workers :
       /\ req[w].phase = "try" => /\ req[w].attempts = row.attempts
                                  /\ req[w].verified = row.verified
       /\ req[w].phase = "issue" => row.verified /\ tokens = 0
  /\ \A v, w \in Workers : req[v].phase = "try" /\ req[w].phase = "try" => v = w
  /\ \A v, w \in Workers : req[v].phase = "issue" /\ req[w].phase = "issue" => v = w
  /\ ~row.verified => tokens = 0
  /\ tokens <= 1

\* A stale copy written late takes the counter back, and what it took back can be
\* spent again while another copy is held.  Guesses are counted here by the ascending
\* sequences of n counts from a to MaxAttempts: with n workers at a the number of guesses
\* G(n, a) = G(n-1, a) + 1 + G(n, a+1) is the number of those, but for one.
Ascending(n, a) ==
  {s \in [1..n -> a..MaxAttempts] : \A i, j \in 1..n : i <= j => s[i] <= s[j]}
GuessLimit == Cardinality(Ascending(Cardinality(Workers), 0)) - 1

\* However tries overlap, the number of codes compared stays under that limit:
\* MAX_ATTEMPTS for one worker, 20 for two, with MAX_ATTEMPTS = 5.
OverlapBoundsGuesses == guesses <= GuessLimit

\* The least that each worker has read, or will have if it dies and comes again; and the
\* guesses that are left if they write in turn: after a write the worker and all whose
\* turn is lower may read the row anew.
LeastRead ==
  [w \in Workers |-> IF req[w].phase = "try" /\ req[w].attempts < row.attempts
                     THEN req[w].attempts ELSE row.attempts]
Turns == {turn \in [Workers -> 1..Cardinality(Workers)] :
            \A v, w \in Workers : turn[v] = turn[w] => v = w}
GuessesLeft(turn, read) ==
  UNION {{w} \X Ascending(turn[w], read[w] + 1) : w \in Workers}
GuessesAreCounted ==
  /\ row.state = "none" => row.attempts = 0
  /\ \A turn \in Turns :
       /\ IsFiniteSet(GuessesLeft(turn, LeastRead))
       /\ guesses + Cardinality(GuessesLeft(turn, LeastRead)) <= GuessLimit

Inv == /\ TypeOK /\ TokensAreEarned /\ NothingBefore /\ GuessesAreCounted
       /\ row.created_at <= clock
       /\ ~overlapped => CountIsKept

\* No more codes are compared than MAX_ATTEMPTS, whatever dies and whenever, as long
\* as no try has read the row between the read and the write of another.
AttemptsAreLimited == ~overlapped => guesses <= MaxAttempts

\* Under the same condition a verification that succeeded issues one token and is
\* done.
OneToken == ~overlapped => tokens <= 1
=============================================================================
