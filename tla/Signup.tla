-------------------------------- MODULE Signup --------------------------------
(***************************************************************************)
(* Phone numbers, accounts and backups, on a deployment that sets          *)
(* REQUIRE_SMS_VERIFICATION: POST /v1/sms/request and /v1/sms/verify (here *)
(* only which numbers they give tokens to; module SmsVerify has the codes),*)
(* POST /v1/register, /v1/recover, /v1/backup and the fetch of a backup.   *)
(*                                                                         *)
(* No handler runs in a transaction.  Each statement commits on its own and*)
(* is a step; in between other workers run, or this one dies.              *)
(***************************************************************************)
EXTENDS Naturals, FiniteSets

CONSTANTS
  Numbers,  \* keyed hashes of phone numbers
  Keys,     \* Ed25519 keys; a key stands for its Identity row and mailbox_id
  Tokens,   \* registration tokens
  Workers,  \* concurrent request handlers
  None      \* no key, number or token

ASSUME NoneAssumption == None \notin Keys \cup Numbers \cup Tokens

ASSUME WorkersAssumption == IsFiniteSet(Workers)

VARIABLES
  codes,       \* verifications sent: a number and a purpose each
  issued,      \* the RegistrationToken table
  lapsed,      \* tokens older than TOKEN_TTL
  identities,  \* the Identity table
  registered,  \* the RegisteredNumber table
  entries,     \* the PhoneDirectoryEntry table: entries[n] is a mailbox
  backups,     \* the IdentityBackup table: whose keys backups[n] encrypts
  req,         \* req[w]: the request worker w is serving
  accounts,    \* accounts[n]: the keys register has bound number n to
  raced,       \* numbers two registers were between re-check and mark with
  proven,      \* numbers and the keys that came with a token for them
  restored,    \* replies of the backup fetch: whose keys, and which mailbox
  recovered    \* numbers whose entry a recover has repointed

tables == <<issued, identities, registered, entries, backups>>
history == <<accounts, raced, proven, restored, recovered>>
vars == <<codes, issued, lapsed, identities, registered, entries, backups,
          req, accounts, raced, proven, restored, recovered>>

Purposes == {"signup", "recovery"}

Code == [number : Numbers, purpose : Purposes]
Token == [token : Tokens, number : Numbers, purpose : Purposes,
          consumed : BOOLEAN]

\* phase names the next statement; number, key and named (is there a display
\* name?) are the handler's local state, bundle what it has read of a backup.
Phases == {"idle",
           "isTaken", "burn", "consume", "create", "bind", "list",
           "spend", "isKnown", "mint", "point",
           "store",
           "redeem", "read", "resolve"}
Request == [phase : Phases, token : Tokens \cup {None},
            number : Numbers \cup {None}, key : Keys \cup {None},
            named : BOOLEAN, bundle : Keys \cup {None}]

Idle == [phase |-> "idle", token |-> None, number |-> None, key |-> None,
         named |-> FALSE, bundle |-> None]

TypeOK ==
  /\ codes \subseteq Code
  /\ issued \subseteq Token
  /\ lapsed \subseteq Tokens
  /\ identities \subseteq Keys
  /\ registered \subseteq Numbers
  /\ entries \in [Numbers -> Keys \cup {None}]
  /\ backups \in [Numbers -> Keys \cup {None}]
  /\ req \in [Workers -> Request]
  /\ accounts \in [Numbers -> SUBSET Keys]
  /\ raced \subseteq Numbers
  /\ proven \subseteq [number : Numbers, key : Keys]
  /\ restored \subseteq [number : Numbers, bundle : Keys,
                           mailbox : Keys \cup {None}]
  /\ recovered \subseteq Numbers

Init ==
  /\ codes = {}
  /\ issued = {}
  /\ lapsed = {}
  /\ identities = {}
  /\ registered = {}
  /\ entries = [n \in Numbers |-> None]
  /\ backups = [n \in Numbers |-> None]
  /\ req = [w \in Workers |-> Idle]
  /\ accounts = [n \in Numbers |-> {}]
  /\ raced = {}
  /\ proven = {}
  /\ restored = {}
  /\ recovered = {}

\* Worker w goes on to phase p, or is done.
Go(w, p) == req' = [req EXCEPT ![w].phase = p]
Done(w) == req' = [req EXCEPT ![w] = Idle]

-----------------------------------------------------------------------------
(* Tokens.                                                                 *)

TakenNever(n) == FALSE   \* mutant

\* RegisteredNumber.objects.filter(msisdn_hash=n).exists()
Taken(n) == n \in registered

\* POST /v1/sms/request: a code goes out to sign up a number that is not
\* registered, or to recover one that is.
RequestCode(n, purpose) ==
  /\ IF purpose = "signup" THEN ~Taken(n) ELSE Taken(n)
  /\ codes' = codes \cup {[number |-> n, purpose |-> purpose]}
  /\ UNCHANGED <<lapsed, req>> /\ UNCHANGED tables /\ UNCHANGED history

\* POST /v1/sms/verify: a right code gets a token, however long ago the request
\* looked at the number.
IssueToken(t) ==
  /\ t \notin {r.token : r \in issued}
  /\ \E c \in codes :
       issued' = issued \cup {[token |-> t, number |-> c.number,
                               purpose |-> c.purpose, consumed |-> FALSE]}
  /\ UNCHANGED <<codes, lapsed, req, identities, registered, entries, backups>>
  /\ UNCHANGED history

\* TOKEN_TTL has passed since the token was issued.  (For a consumed token that
\* makes no difference any more.)
Lapse(t) ==
  /\ t \in {r.token : r \in {s \in issued : ~s.consumed}}
  /\ lapsed' = lapsed \cup {t}
  /\ UNCHANGED <<codes, req>> /\ UNCHANGED tables /\ UNCHANGED history

\* The row of a token that is_valid, and is for this purpose.
Good(t, purpose) ==
  {r \in issued : /\ r.token = t /\ r.purpose = purpose
                  /\ ~r.consumed /\ t \notin lapsed}

\* A handler that takes a token begins: it reads the row, and checks the copy at
\* once.  (A token that is not good gets a 403, and nothing has changed.)
Begin(w, t, purpose, next, k, named) ==
  /\ req[w].phase = "idle"
  /\ \E r \in Good(t, purpose) :
       req' = [req EXCEPT ![w] = [Idle EXCEPT !.phase = next, !.token = t,
                                              !.number = r.number, !.key = k,
                                              !.named = named]]
  /\ UNCHANGED <<codes, lapsed>> /\ UNCHANGED tables /\ UNCHANGED history

\* rt.consumed = True; rt.save(update_fields=["consumed"])
Consumed(t) == {IF r.token = t THEN [r EXCEPT !.consumed = TRUE] ELSE r : r \in issued}

Consume(w, phase) ==
  /\ req[w].phase = phase
  /\ issued' = Consumed(req[w].token)
  /\ UNCHANGED <<codes, lapsed, identities, registered, entries, backups,
                 accounts, raced, restored, recovered>>

\* What the token has proven goes with the key that came with it.
Prove(w) == proven' = proven \cup {[number |-> req[w].number, key |-> req[w].key]}

-----------------------------------------------------------------------------
(* POST /v1/register.                                                      *)

\* The registers that have passed the re-check of n and not yet marked it.
Binding(n) == {w \in Workers : /\ req[w].phase \in {"consume", "create", "bind"}
                               /\ req[w].number = n}

\* The re-check of the number.
IsTaken(w) ==
  /\ req[w].phase = "isTaken"
  /\ LET n == req[w].number
     IN IF Taken(n) THEN Go(w, "burn") /\ UNCHANGED raced
        ELSE /\ Go(w, "consume")
             /\ raced' = IF Binding(n) = {} THEN raced ELSE raced \cup {n}
  /\ UNCHANGED <<codes, lapsed, accounts, proven, restored, recovered>>
  /\ UNCHANGED tables

\* 409: the token is used up all the same.
Burn(w) == Consume(w, "burn") /\ Done(w) /\ UNCHANGED proven

RegisterConsume(w) == Consume(w, "consume") /\ Go(w, "create") /\ Prove(w)

IdentitiesWithout(k) == identities   \* mutant

\* Identity.objects.get_or_create
IdentitiesWith(k) == identities \cup {k}

\* RegisterSerializer refuses the keys (the token is gone), or get_or_create finds
\* or inserts the identity.
Create(w) ==
  /\ req[w].phase = "create"
  /\ \/ Done(w) /\ UNCHANGED identities
     \/ Go(w, "bind") /\ identities' = IdentitiesWith(req[w].key)
  /\ UNCHANGED <<codes, lapsed, issued, registered, entries, backups>>
  /\ UNCHANGED history

RegisteredNotAtAll(n) == registered   \* mutant
RegisteredWith(n) == registered \cup {n}

\* RegisteredNumber.objects.get_or_create; without a display name that is all.
Bind(w) ==
  /\ req[w].phase = "bind"
  /\ LET q == req[w]
     IN /\ registered' = RegisteredWith(q.number)
        /\ accounts' = [accounts EXCEPT ![q.number] = @ \cup {q.key}]
        /\ IF q.named THEN Go(w, "list") ELSE Done(w)
  /\ UNCHANGED <<codes, lapsed, issued, identities, entries, backups, raced,
                 proven, restored, recovered>>

\* PhoneDirectoryEntry.objects.update_or_create, the last statement of register
\* and of recover.
Enter(w, phase) ==
  /\ req[w].phase = phase
  /\ entries' = [entries EXCEPT ![req[w].number] = req[w].key]
  /\ Done(w)
  /\ UNCHANGED <<codes, lapsed, issued, identities, registered, backups,
                 accounts, raced, proven, restored>>

List(w) == Enter(w, "list") /\ UNCHANGED recovered

Register(w) ==
  \/ \E t \in Tokens, k \in Keys, named \in BOOLEAN :
       Begin(w, t, "signup", "isTaken", k, named)
  \/ IsTaken(w) \/ Burn(w) \/ RegisterConsume(w)
  \/ Create(w) \/ Bind(w) \/ List(w)

-----------------------------------------------------------------------------
(* POST /v1/recover.                                                       *)

RecoverConsume(w) == Consume(w, "spend") /\ Go(w, "isKnown") /\ Prove(w)

IsKnown(w) ==
  /\ req[w].phase = "isKnown"
  /\ IF Taken(req[w].number) THEN Go(w, "mint") ELSE Done(w)
  /\ UNCHANGED <<codes, lapsed>> /\ UNCHANGED tables /\ UNCHANGED history

\* (The old entry read next only gives a display name.)
Mint(w) ==
  /\ req[w].phase = "mint"
  /\ identities' = IdentitiesWith(req[w].key)
  /\ Go(w, "point")
  /\ UNCHANGED <<codes, lapsed, issued, registered, entries, backups>>
  /\ UNCHANGED history

Point(w) == Enter(w, "point") /\ recovered' = recovered \cup {req[w].number}

Recover(w) ==
  \/ \E t \in Tokens, k \in Keys : Begin(w, t, "recovery", "spend", k, FALSE)
  \/ RecoverConsume(w) \/ IsKnown(w) \/ Mint(w)
  \/ Point(w)

-----------------------------------------------------------------------------
(* Backups.                                                                *)

\* Mutant: any number that a token came with.
NumbersOnceProven(k) == {n \in Numbers : [number |-> n, key |-> k] \in proven}

\* PhoneDirectoryEntry.objects.filter(mailbox_id=...)
EntriesOf(k) == {n \in Numbers : entries[n] = k}

\* POST /v1/backup, authenticated as k: the first entry that names k's mailbox
\* gives the number; with none the answer is 400.
BackUp(w, k) ==
  /\ req[w].phase = "idle"
  /\ k \in identities
  /\ \E n \in EntriesOf(k) :
       req' = [req EXCEPT ![w] = [Idle EXCEPT !.phase = "store", !.key = k,
                                              !.number = n]]
  /\ UNCHANGED <<codes, lapsed>> /\ UNCHANGED tables /\ UNCHANGED history

\* IdentityBackup.objects.update_or_create
Store(w) ==
  /\ req[w].phase = "store"
  /\ backups' = [backups EXCEPT ![req[w].number] = req[w].key]
  /\ Done(w)
  /\ UNCHANGED <<codes, lapsed, issued, identities, registered, entries>>
  /\ UNCHANGED history

RestoreConsume(w) == Consume(w, "redeem") /\ Go(w, "read") /\ UNCHANGED proven

\* IdentityBackup.objects.filter(...).first(); with none the answer is 404.
ReadBackup(w) ==
  /\ req[w].phase = "read"
  /\ LET b == backups[req[w].number]
     IN IF b = None THEN Done(w)
        ELSE req' = [req EXCEPT ![w] = [@ EXCEPT !.phase = "resolve",
                                                 !.bundle = b]]
  /\ UNCHANGED <<codes, lapsed>> /\ UNCHANGED tables /\ UNCHANGED history

\* The directory entry gives the mailbox_id of the reply.
Resolve(w) ==
  /\ req[w].phase = "resolve"
  /\ LET q == req[w]
     IN restored' = restored \cup {[number |-> q.number,
                                    bundle |-> q.bundle,
                                    mailbox |-> entries[q.number]]}
  /\ Done(w)
  /\ UNCHANGED <<codes, lapsed, accounts, raced, proven, recovered>>
  /\ UNCHANGED tables

Backup(w) ==
  \/ \E k \in Keys : BackUp(w, k)
  \/ Store(w)
  \/ \E t \in Tokens : Begin(w, t, "recovery", "redeem", None, FALSE)
  \/ RestoreConsume(w) \/ ReadBackup(w) \/ Resolve(w)

-----------------------------------------------------------------------------

Die(w) ==
  /\ req[w].phase # "idle"
  /\ Done(w)
  /\ UNCHANGED <<codes, lapsed>> /\ UNCHANGED tables /\ UNCHANGED history

Next ==
  \/ \E n \in Numbers, purpose \in Purposes : RequestCode(n, purpose)
  \/ \E t \in Tokens : IssueToken(t) \/ Lapse(t)
  \/ \E w \in Workers : Register(w) \/ Recover(w) \/ Backup(w) \/ Die(w)

Spec == Init /\ [][Next]_vars

-----------------------------------------------------------------------------

\* A directory entry leads to an identity ("PhoneDirectoryEntry outlived its
\* Identity (shouldn't happen)") and belongs to a registered number, at every step
\* of register and recover and wherever one dies.
EntriesLeadSomewhere ==
  \A n \in Numbers : entries[n] # None => entries[n] \in identities /\ n \in registered

\* No number is marked as registered without an account behind it: a register that
\* fails half way leaves the number free.
RegisteredHasAccount ==
  /\ registered = {n \in Numbers : accounts[n] # {}}
  /\ \A n \in Numbers : accounts[n] \subseteq identities

\* Whatever ties a key to a number, an account, an entry or a backup: the key once
\* came with a good token for that very number.
RowsAreProven ==
  \A n \in Numbers, k \in Keys :
    k \in accounts[n] \/ entries[n] = k \/ backups[n] = k =>
      [number |-> n, key |-> k] \in proven

\* The numbers that have not changed hands: none recovered, no two registers racing.
Undisputed == Numbers \ (recovered \cup raced)

\* A backup is answered with a mailbox (the null of the code never comes up), mailbox
\* and bundle were both proven for the number of the token, and they belong together,
\* unless a recover has repointed the number or two registers raced for it.  What is
\* stored for a number was looked up by a handler that may write it much later.
RestoreResolves ==
  \A r \in restored :
    /\ [number |-> r.number, key |-> r.bundle] \in proven
    /\ [number |-> r.number, key |-> r.mailbox] \in proven
    /\ r.number \in Undisputed => r.bundle = r.mailbox

\* A number is bound to one account, unless two registers were between the re-check
\* and the mark at once; then to no more than the server was serving at one time.
Room(n) == IF n \in raced THEN Cardinality(Workers) ELSE 1
OverlapBoundsAccounts == \A n \in Numbers : Cardinality(accounts[n]) <= Room(n)

\* What these rest on.  A worker's local state is there when a statement needs it, ...
RequestsAreFilled ==
  \A w \in Workers :
    LET q == req[w]
    IN /\ q.phase # "idle" => q.number \in Numbers
       /\ q.phase \notin {"idle", "redeem", "read", "resolve"} => q.key \in Keys
       /\ q.phase = "resolve" => q.bundle \in Keys

\* ... and the tables still are as the worker's next statement takes for granted.
RequestsAreProven ==
  \A w \in Workers :
    LET q == req[w]
        pair == [number |-> q.number, key |-> q.key]
    IN /\ q.phase \in {"create", "bind", "list", "isKnown", "mint", "point", "store"} =>
            pair \in proven
       /\ q.phase \in {"bind", "list", "point"} => q.key \in identities
       /\ q.phase \in {"list", "mint", "point"} => q.number \in registered
       /\ q.phase \in {"store", "resolve"} => entries[q.number] # None
       /\ q.phase = "resolve" => [number |-> q.number, key |-> q.bundle] \in proven

BackupsHaveEntries ==
  \A n \in Numbers : backups[n] # None => entries[n] # None

\* A number that has not changed hands: whatever is stored or about to be stored for it
\* is its account's.
RowsAreTheAccounts ==
  \A n \in Undisputed :
    /\ {entries[n], backups[n]} \subseteq accounts[n] \cup {None}
    /\ \A w \in Workers : req[w].number = n =>
         /\ req[w].phase \in {"list", "store"} => req[w].key \in accounts[n]
         /\ req[w].phase = "resolve" => req[w].bundle \in accounts[n]

\* Those about to bind n count with those that have.
AccountsAreBounded ==
  \A n \in Numbers :
    /\ IsFiniteSet(accounts[n])
    /\ Cardinality(accounts[n]) + Cardinality(Binding(n)) <= Room(n)

Inv == /\ TypeOK /\ RequestsAreFilled /\ RequestsAreProven
       /\ EntriesLeadSomewhere /\ RegisteredHasAccount /\ RowsAreProven
       /\ BackupsHaveEntries /\ RestoreResolves /\ RowsAreTheAccounts
       /\ AccountsAreBounded
=============================================================================
