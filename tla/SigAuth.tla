-------------------------------- MODULE SigAuth --------------------------------
(***************************************************************************)
(* Challenge/response authentication: GET /v1/challenge, the signature     *)
(* check that precedes every authenticated request                         *)
(* (SignatureAuthentication.authenticate) and every push socket            *)
(* (_verify_and_resolve, the same statements), and the gc command's delete *)
(* of consumed challenges.                                                 *)
(*                                                                         *)
(* No transaction holds the check together: a worker reads the row, decides*)
(* on its copy, then writes the row back.  The same request may reach the  *)
(* server more than once (a retry, a proxy, a second socket).              *)
(***************************************************************************)
EXTENDS Naturals, FiniteSets

CONSTANTS
  Pubs,       \* Ed25519 public keys; a key also stands for its private half
  Nonces,     \* secrets.token_hex(32): never drawn twice
  Workers,    \* concurrent requests being authenticated
  Ttl,        \* PLATFORM["CHALLENGE_TTL"]
  MaxClock,   \* bound: the last instant of the model
  MaxSends    \* bound: requests that carry one nonce

ASSUME BoundsAssumption == {Ttl, MaxClock, MaxSends} \subseteq Nat

ASSUME SetsAssumption ==
  Pubs # {} /\ Nonces # {} /\ IsFiniteSet(Workers)

VARIABLES
  clock,       \* timezone.now()
  challenges,  \* the Challenge table
  req,         \* req[w]: the request worker w is authenticating
  issued,      \* every challenge ever issued
  sent,        \* sent[n]: how many requests have carried nonce n
  uses,        \* uses[n]: how many requests have been let in on nonce n
  grants       \* who was let in, on which nonce, by whose signature, when checked

vars == <<clock, challenges, req, issued, sent, uses, grants>>

Issue == [nonce : Nonces, pub : Pubs, created_at : Nat]
Challenge == [nonce : Nonces, pub : Pubs, created_at : Nat, consumed : BOOLEAN]
Grant == [nonce : Nonces, pub : Pubs, signer : Pubs, checked_at : Nat]

\* pub and nonce are the X-Identity and X-Nonce headers, signer the key that made
\* X-Signature over the nonce; the rest is the worker's copy of the row.
Request == [phase : {"idle", "get", "check", "save"},
            pub : Pubs, nonce : Nonces, signer : Pubs,
            created_at : Nat, consumed : BOOLEAN, checked_at : Nat]

Idle == [phase |-> "idle", pub |-> CHOOSE p \in Pubs : TRUE,
         nonce |-> CHOOSE n \in Nonces : TRUE,
         signer |-> CHOOSE p \in Pubs : TRUE,
         created_at |-> 0, consumed |-> FALSE, checked_at |-> 0]

TypeOK ==
  /\ clock \in Nat
  /\ challenges \subseteq Challenge
  /\ req \in [Workers -> Request]
  /\ issued \subseteq Issue
  /\ sent \in [Nonces -> Nat]
  /\ uses \in [Nonces -> Nat]
  /\ grants \subseteq Grant

Init ==
  /\ clock = 0
  /\ challenges = {}
  /\ req = [w \in Workers |-> Idle]
  /\ issued = {}
  /\ sent = [n \in Nonces |-> 0]
  /\ uses = [n \in Nonces |-> 0]
  /\ grants = {}

-----------------------------------------------------------------------------

Tick ==
  /\ clock < MaxClock
  /\ clock' = clock + 1
  /\ UNCHANGED <<challenges, req, issued, sent, uses, grants>>

\* GET /v1/challenge?pub=...: anyone may ask for any key.
IssueChallenge(p, n) ==
  /\ n \notin {i.nonce : i \in issued}
  /\ challenges' = challenges \cup
       {[nonce |-> n, pub |-> p, created_at |-> clock, consumed |-> FALSE]}
  /\ issued' = issued \cup {[nonce |-> n, pub |-> p, created_at |-> clock]}
  /\ UNCHANGED <<clock, req, sent, uses, grants>>

\* A request or a socket arrives with well-formed headers.  Without the headers
\* it is anonymous, malformed ones are refused: neither touches the table.
Arrive(w, p, n, signer) ==
  /\ req[w].phase = "idle"
  /\ sent[n] < MaxSends
  /\ sent' = [sent EXCEPT ![n] = @ + 1]
  /\ req' = [req EXCEPT ![w] =
       [Idle EXCEPT !.phase = "get", !.pub = p, !.nonce = n,
                    !.signer = signer]]
  /\ UNCHANGED <<clock, challenges, issued, uses, grants>>

\* Challenge.objects.get(nonce=nonce, ed25519_pub=pub): the row is copied.
Get(w) ==
  /\ req[w].phase = "get"
  /\ \E c \in challenges :
       /\ c.nonce = req[w].nonce /\ c.pub = req[w].pub
       /\ req' = [req EXCEPT ![w] = [@ EXCEPT !.phase = "check",
                                     !.created_at = c.created_at,
                                     !.consumed = c.consumed]]
  /\ UNCHANGED <<clock, challenges, issued, sent, uses, grants>>

UsableAfterUse(q) == clock - q.created_at <= Ttl   \* mutant

\* is_valid on the copy.
Usable(q) == ~q.consumed /\ clock - q.created_at <= Ttl

UnverifiedSignature(q) == TRUE   \* mutant

\* verify_key.verify succeeds.
SignatureVerifies(q) == q.signer = q.pub

Check(w) ==
  /\ req[w].phase = "check"
  /\ Usable(req[w])
  /\ SignatureVerifies(req[w])
  /\ req' = [req EXCEPT ![w] = [@ EXCEPT !.phase = "save",
                                !.checked_at = clock]]
  /\ UNCHANGED <<clock, challenges, issued, sent, uses, grants>>

NotBurnt(c) == c   \* mutant

\* challenge.consumed = True
Burnt(c) == [c EXCEPT !.consumed = TRUE]

\* challenge.save(update_fields=["consumed"]) finds the row, and the request is
\* let in.
Save(w) ==
  /\ req[w].phase = "save"
  /\ LET q == req[w]
         row == {c \in challenges : c.nonce = q.nonce}
     IN /\ row # {}
        /\ challenges' = (challenges \ row) \cup {Burnt(c) : c \in row}
        /\ uses' = [uses EXCEPT ![q.nonce] = @ + 1]
        /\ grants' = grants \cup
             {[nonce |-> q.nonce, pub |-> q.pub, signer |-> q.signer,
               checked_at |-> q.checked_at]}
  /\ req' = [req EXCEPT ![w] = Idle]
  /\ UNCHANGED <<clock, issued, sent>>

\* No such row, a stale or used one, a bad signature; or the row is gone when
\* it is saved (gc took it), which raises DatabaseError.
Refuse(w) ==
  /\ \/ /\ req[w].phase = "get"
        /\ ~\E c \in challenges : c.nonce = req[w].nonce /\ c.pub = req[w].pub
     \/ /\ req[w].phase = "check"
        /\ ~(Usable(req[w]) /\ SignatureVerifies(req[w]))
     \/ /\ req[w].phase = "save"
        /\ ~\E c \in challenges : c.nonce = req[w].nonce
  /\ req' = [req EXCEPT ![w] = Idle]
  /\ UNCHANGED <<clock, challenges, issued, sent, uses, grants>>

\* The worker dies before it has saved.
Die(w) ==
  /\ req[w].phase # "idle"
  /\ req' = [req EXCEPT ![w] = Idle]
  /\ UNCHANGED <<clock, challenges, issued, sent, uses, grants>>

\* gc: Challenge.objects.filter(consumed=True).delete()
Gc ==
  /\ challenges' = {c \in challenges : ~c.consumed}
  /\ UNCHANGED <<clock, req, issued, sent, uses, grants>>

Authenticate(w) == Get(w) \/ Check(w) \/ Save(w) \/ Refuse(w)

Next ==
  \/ Tick
  \/ \E p \in Pubs, n \in Nonces : IssueChallenge(p, n)
  \/ \E w \in Workers, p, k \in Pubs, n \in Nonces : Arrive(w, p, n, k)
  \/ \E w \in Workers : Authenticate(w) \/ Die(w)
  \/ Gc

Spec == Init /\ [][Next]_vars

-----------------------------------------------------------------------------

\* Whoever is let in as pub signed, with pub's key, a nonce that was issued for
\* pub, and no longer than CHALLENGE_TTL before the signature was checked.
GrantedIsProven ==
  \A g \in grants :
    /\ g.signer = g.pub
    /\ \E i \in issued : /\ i.nonce = g.nonce /\ i.pub = g.pub
                         /\ i.created_at <= g.checked_at
                         /\ g.checked_at - i.created_at <= Ttl

\* Once a request has been let in on a nonce, the row that is left, if any, is
\* consumed: a request that reads it from then on is refused, and gc never
\* makes the nonce usable again.
BurntStaysBurnt ==
  \A n \in Nonces : uses[n] > 0 =>
    \A c \in challenges : c.nonce = n => c.consumed

\* However often a request is repeated, a nonce lets in no more requests than
\* the server was checking at one time: the repeats that overlap the first.
OverlapBoundsUses == \A n \in Nonces : uses[n] <= Cardinality(Workers)

\* What these rest on.  Rows and requests agree with what was issued, ...
RowsAreIssued ==
  /\ \A c \in challenges : \E i \in issued :
       /\ i.nonce = c.nonce /\ i.pub = c.pub /\ i.created_at = c.created_at
  /\ \A i \in issued : i.created_at <= clock
  /\ \A n \in Nonces : uses[n] > 0 => \E i \in issued : i.nonce = n

\* ... a worker past `get' remembers an issued challenge, past `check' a good one,
RequestsAreIssued ==
  \A w \in Workers :
    LET q == req[w]
    IN /\ q.phase \in {"check", "save"} =>
            \E i \in issued : /\ i.nonce = q.nonce /\ i.pub = q.pub
                              /\ i.created_at = q.created_at
       /\ q.phase = "save" => /\ q.signer = q.pub /\ ~q.consumed
                              /\ q.created_at <= q.checked_at
                              /\ q.checked_at - q.created_at <= Ttl

\* ... and those that may still be let in on n, with those that have been, are no
\* more than the workers.
Hopeful(n) == {w \in Workers : /\ req[w].phase \in {"check", "save"}
                               /\ req[w].nonce = n /\ ~req[w].consumed}
UsesAreBounded ==
  \A n \in Nonces : uses[n] + Cardinality(Hopeful(n)) <= Cardinality(Workers)

Inv == /\ TypeOK /\ RowsAreIssued /\ RequestsAreIssued /\ GrantedIsProven
       /\ BurntStaysBurnt /\ UsesAreBounded
=============================================================================
