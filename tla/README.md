# ProShetu backend: verification project

TLA+ models of the ProShetu backend (Django, Django REST Framework, Channels, PostgreSQL), the TLC runs
that check them on small instances, and TLAPS proofs of what matters most. Paths below are relative to
the repository root (`src/` in `PROJECT.json`).

The server stores and forwards ciphertext for phones that also exchange it among themselves. Its handlers
are short, stateless functions over one database. What is hard about them is not any single handler: it is
that most run **without a transaction**, next to other workers, a cron job that deletes rows, clients that
lose replies and repeat requests, and phones that carry the same ciphertext around the server.

## 1. Inventory

| Component | Code | State | Operations | Hard part | Status |
|---|---|---|---|---|---|
| sync and ack | `apps/sync/views.py` | `Event`, `Receipt` | push, select, receipts, ack | relays, receipts by third parties, paging before the Bloom filter, stale `now`, lost replies; waits and rollbacks inside the ingest transaction | modelled, proved |
| garbage collection | `apps/sync/management/commands/gc.py` | deletes from five tables | six deletes, each a commit | kill between deletes, races with every writer of the tables | modelled, each delete with its table |
| signature authentication | `apps/common/auth.py`, `consumers.py` | `Challenge` | issue, check, burn | check-then-save on a copy; gc of the row in between | modelled, proved |
| prekeys | `apps/directory/views.py`, `models.py` | `PreKeyBundle` | upload, fetch one key | partial writes of one row; repeated uploads | modelled, proved |
| SMS verification | `apps/smsverify` | `PhoneVerification` | request, try code, issue token | counter written back from a copy | modelled, proved |
| register, recover, backup | `apps/directory/views.py` | `Identity`, `RegisteredNumber`, `PhoneDirectoryEntry`, `IdentityBackup`, `RegistrationToken` | five handlers of up to six statements | death between statements; two tokens for a number; recover against backup | modelled, proved |
| push and FCM | `apps/common/push.py`, `fcm.py`, `consumers.py`, `update_fcm_token` | channel groups, `fcm_token` | connect, disconnect, notify, fallback | hint sent inside a transaction, or while a device connects; fallback condition | modelled in `Calls` and `SyncTxn` |
| blobs | `apps/sync/blob_views.py`, `storage.py` | `BlobFragment`, object store | register, upload, complete, manifest, download | row and bytes are two stores; overlapping PUTs; gc between two statements | modelled, proved |
| Bloom filter | `apps/sync/bloom.py` | none | membership | never a false negative | its effect is in `StoreForward` |
| calling | `apps/calling` | `CallSignal` | signal, poll | select, mark and answer are three steps; polls overlap; order within a call | modelled, proved |
| coordination | `apps/coordination` | `CoordDelta` | publish, fetch since | cursor on `created_at`, set before the commit and not unique; a delta published twice | modelled, proved |
| document verification | `apps/idverify` | `IdentityDocument`, `DocumentVerification` | ingest, verify | verify against a row that is replaced; several writings of one value, one writing of several | modelled, proved |
| validators, senders, throttles, settings | `apps/common/validators.py`, `smsverify/sender.py`, `config` | none, or DRF's cache | | | constants and outcomes only |

**Interactions.** Every authenticated request, and every push socket, first passes `SigAuth`. `sync` and
`ack` share `Event` and `Receipt` with `gc`; `gc` shares `Challenge` with authentication and `BlobFragment`
with the blob handlers and `CoordDelta` with coordination. `smsverify` gives
tokens to `register`, `recover` and `fetch_backup`, which share four tables. Otherwise components touch
disjoint tables, so they are modelled, checked and proved apart. `sync` and `signal` call `push`.

**What makes each correct.** *sync*: an event is removed or no longer offered only when its recipient holds
it or its lifetime is over; it does reach a recipient that keeps syncing; storage is reclaimed. *auth*:
whoever is let in has signed a fresh nonce issued for that key; a burnt nonce stays burnt. *prekeys*: a key
goes to one caller, with the signed prekey it was made with, and is not lost. *SMS*: a bounded number of
guesses, one token, each earned. *signup*: one account per number, an entry leads to an identity, no row
ties a key to a number that was not proven with it. *blobs*: a fragment that is offered is stored, whole, and
stays so until its deadline. *calls*: what is marked delivered was handed over, in the order of its call, and no
wake-up runs ahead of its signal. *coordination*: a subscriber that resumes misses nothing but what the cursor
cannot see, and what was accepted is kept. *documents*: an answer says what both people meant.

The hazards, each at its line with the properties aimed at it, are in `PROJECT.json`.

## 2. Modules

| Module | Models | Composes |
|---|---|---|
| `Mailbox` | abstract: debts with deadlines, what clients hold | |
| `StoreForward` | sync, ack, gc, clients, mesh | refines `Mailbox` (`Promise == INSTANCE Mailbox WITH owed <- Debts`) |
| `SigAuth` | challenge, authenticate / `_verify_and_resolve`, gc of challenges | |
| `PreKeys` | upload and fetch of one bundle, with its row lock | |
| `SmsVerify` | one verification: start, send, try, issue | |
| `Signup` | number check, tokens, register, recover, backup | the outcome of `SmsVerify` as `IssueToken` |
| `Blobs` | the fragments of a transfer: register, S3 or file upload, complete, download, gc | |
| `SyncTxn` | the ingest transaction of sync, statement by statement, with locks, rollbacks, the push hint, gc and ack | the inside of one step of `StoreForward` |
| `Calls` | signal, poll, the push sockets, `push_to_mailbox`, FCM and its token | calling with push |
| `Coordination` | publish, fetch since, gc of deltas | |
| `IdVerify` | ingest and verify of one document, with the normalisers | |
| `MC...` | instances for TLC | extend the module of that name |
| `...Proofs` | theorems | extend the module of that name; those about `SyncTxn` are in `StoreForwardProofs`, those about `IdVerify` in `SmsVerifyProofs` |

### How the models correspond to the code

A table is a set of rows (`events`, `challenges`, `issued`) or, with one row per key, a function
(`entries[n]`, `backups[n]`; `None` is "no row"). `req[w]` is the handler worker `w` is running: `phase` is its next statement, the
other fields are its local variables, and they keep their value while other workers move on. That is how
`challenge.save()` and `rec.save()` write back what was read earlier. Each database statement outside
`transaction.atomic` is one action. `Die`, `Abandon` and `GcKilled` end a handler between two statements:
its local state goes, its commits stay. A handler's early return is a disjunct, or an action, that goes back
to `idle`. Variables under "history" (`uses`, `grants`, `given`, `proven`, `accounts`, `guesses`, ...)
record what happened; no guard reads them, save for bounds (`sent`, `sends`).

* **StoreForward.** `BeginSync` to `Receive` are the statements of `sync`: parse and read `now`, the ingest
  transaction, the page of events minus what the Bloom filter matches, the receipts, the reply. `BeginAck`,
  `AckEvents`, `AckReceipts` are `ack`. `skip` is the set of ids the Bloom filter matches and `want` does not
  repair: any subset of what the client holds plus `Collisions`. Clients are honest: they push what they
  hold, relay receipts that exist, and ack what they have stored. They are not limited to their own traffic:
  relays push, relay and ack anything they hold.
* **SigAuth.** `Get`, `Check`, `Save` are the three statements of `authenticate`; `_verify_and_resolve` has
  the same. A signature is the key that made it. The same request may arrive up to `MaxSends` times.
* **PreKeys.** `select_for_update` (in `fetch_prekeys`, and the one inside Django's `update_or_create`) is
  `lock`. `FetchTake` writes the pool alone (`update_fields`), `UploadSave` all columns.
* **SmsVerify.** A request may name any id, also one whose code is still being sent or whose row is gone
  (`GetNothing`). `Get` copies the row, `Try` decides on the copy and writes both columns back.
* **Signup.** Each handler is a chain of phases, in the order of its statements; `Consume` burns the token
  before what it pays for is done, as the code does. A token's row is read once, and the copy is judged at
  once, so both are one step (`Begin`).
* **Blobs.** `rows` is the table, `store` what the object store holds: nothing, the whole ciphertext, or what
  the worker that last opened the file has truncated it to. `presign` tells S3 from `LocalStore`; with S3 the
  client's own PUT is `PutDirect`. `OpenFile` and `WriteFile` are the two halves of `write_bytes`. `doubled`
  records fragments whose file was opened while somebody relied on it. A row that was collected and
  registered again has another primary key, which is what `SaveRow` goes by. Clients send the one ciphertext
  of a fragment and call `complete` after S3 has answered. The manifest only reads.

* **SyncTxn.** `txn[w]` is a transaction: `phase` its next statement, `at` the item that is about, `new` and
  `newReceipts` the rows it has inserted and nobody else sees, `marked` those it has locked. `WaitsFor` is what
  PostgreSQL makes a statement wait for: an INSERT, whoever inserts, updates or deletes a row of its key; an UPDATE
  or DELETE, the row's lock. `get_or_create` is
  its three statements (`GetEvent`, `InsertEvent` in a savepoint, `GetEventAgain`); `Receipt` has no unique key,
  so `InsertReceipt` never waits. `Bulk` is the one statement of gc or ack that locks many rows, in the order of
  its scan. Any transaction of a cycle of waits may be rolled back.
* **Calls.** `Insert`, `Push`, `ReadToken`, `NotifyCall`, `Relayed` are the statements of `signal`; `SelectPending`,
  `MarkDelivered`, `Receive` those of `poll`. A caller sends signals 0, 1, ... of its call, the next once the last
  is answered, and repeats one it has no answer to. `wake` is the deployment: a channel layer, or FCM
  credentials without one, or neither. Seq 0 is the offer, the only signal FCM announces.
* **Coordination.** `Get`, `Stamp`, `Insert`, `GetAgain` are `get_or_create`: `created_at` is taken in the worker
  (`auto_now_add`) before the row is visible. The subscriber keeps the last `created_at` it has seen and sends it
  as `since`. History: `tries` (every publication begun), `late` (rows that appeared behind the cursor), `tied`
  (rows cut off from others of their instant by the page).
* **IdVerify.** What a person submits is what was meant (a name's letters, a month and a day) and how it was
  written (a date style, a joint between the parts); the normalisers see the writing only. `check[w]` is a verify
  handler with its copy of the row. `normalize_date` tries
  the formats in the order of the code. A keyed hash is modelled by what is hashed.

### Abstractions

PostgreSQL at READ COMMITTED: statements are atomic, transactions are not serializable (development's SQLite
allows fewer interleavings). In `StoreForward` the ingest transaction is one step, which is what READ COMMITTED shows of
it to the others: nobody sees it before its commit. What happens inside (waits, races, rollbacks, the hint) is
`SyncTxn`, where there is no time: any row may have expired. `event_id` does not cover the recipient; with honest clients an id
has one recipient. An id stands for its ciphertext, a key for its identity row and mailbox. Receipts name the
author of the event they are for. Left out: `last_seen_bucket`, sizes, `display_name`'s
text, x25519 keys, `kind` beyond the offer, throttles. Workers share one clock that does not run backwards. In
`IdVerify` one optional text field stands for all, and documents of other types or numbers never meet.

## 3. Runs

`CHECK_DEADLOCK FALSE` everywhere: the clock, tokens, nonces and uploads are bounded, so each model really
may come to the end of its bounds with nobody at work.

| Run | Instance | Checks | States (about) |
|---|---|---|---|
| StoreForwardSafety | 2 clients, 1 event, 2 workers, page of 1, clock 0..1 | `Inv`, `DeliveredIsHeld`, `ConfirmedIsHeld`, `KeptUntilHeld`, refinement `KeepsPromise` | 510 k |
| StoreForwardDelivery | 2 events of different class, 1 worker, page of 1, one Bloom collision, fair clients, no expiry | `EventuallyHeld` | 96 k |
| StoreForwardReclaim | 1 event asked for 1 or 3 instants, ceiling 2, clock 0..2, 1 worker, fair gc | `AcceptedIsOwed`, `Reclaimed` | 270 k |
| SigAuthSafety | 2 keys, 2 nonces, 2 workers, 3 sends, lifetime 1 of clock 0..2 | `Inv`, `GrantedIsProven`, `BurntStaysBurnt`, `OverlapBoundsUses` | 1.3 M |
| PreKeysSafety | 2 generations of 2 keys, 3 workers, each upload up to three times | `Inv`, `ResendsBoundReuse`, `RepliesMatch`, `KeysAreAccounted` | 21 k |
| SmsVerifySafety | 2 workers, the real `MAX_ATTEMPTS` of 5 | `Inv`, `AttemptsAreLimited`, `OneToken`, `OverlapBoundsGuesses` | 3.9 M |
| SignupSafety | 1 number, 2 keys, 3 tokens, 2 workers | `Inv`, `EntriesLeadSomewhere`, `RegisteredHasAccount`, `RestoreResolves`, `OverlapBoundsAccounts` | 630 k |
| BlobsSafety | 1 fragment, 3 workers, 4 primary keys, lifetime 1 of clock 0..2 | `Inv`, `OfferedIsStored`, `ServedIsWhole`, `KeptUntilExpired` | 109 k |
| CallsSafety | 1 call of 2 signals (3 rows), 1 worker, 2 polls, page of 1, 1 socket, clock 0..1, all deployments | `Inv`, `MarkedIsHandedOver`, `NothingIsOvertaken` | 2.3 M |
| CoordinationSafety | 2 deltas, 2 shards, 2 workers, page of 1, lifetime 2 of clock 1..3, 2 different publications | `Inv`, `NothingIsSkipped`, `PublishedIsHeld` | 2.1 M |
| SyncTxnSafety | 2 events, 2 workers, 3 syncs of up to 2 items, 1 statement of gc or ack | `TxnInv`, `DeadlocksNeedCrossing`, `OverlapBoundsReceipts` | 590 k |
| IdVerifySafety | 1 document ingested twice, a calendar of 2 months and 3 days, 7 writings of a date, 3 joints, 2 names, 1 caller, 1 worker | `IdvInv`, `MatchIsMeaning` | 730 k |

**Why the bounds are enough to meet the hazards.** Two workers give every overlap of two handlers, and each
safety property that a third could break is also a theorem for any number of them. A page of one with two
events is a full page with one event beyond it. A lifetime of one with a clock that reaches beyond it has
live, just expired and expired rows. Three tokens are two sign-ups and a recovery, or a sign-up, a recovery
and a restore. Three workers in `Blobs` are two uploads and a download of one fragment (fragments do not
meet), and four primary keys are one for each worker and one for the row. Two keys in a pool are "one taken, one left". Two
polls and a page of one are two pages of one call in flight; three rows are an offer, its repetition and the
next signal. Two lists of two ids are the shortest that can cross, and gc is the third party of a cycle; the
third sync meets the receipts that two others have doubled. In the calendar of two months and three days 1
February reads as 2 January when written month first, and 3 January has one reading; more days add neither. Symmetry is used where the members of a set are
never told apart (workers; in `Signup` also keys and tokens, in `Blobs` primary keys), and never with a liveness property.

**Conditions that the code silently makes.** These promises hold only while something has not happened, and
the models say exactly what, so that one run covers both sides:

* `ResendsBoundReuse` (prekeys): a key is given to one caller if its upload was sent once, and to up to as many
  as it was sent times otherwise. `update_or_create` replaces the pool by the uploaded list, so a repeated upload
  puts keys back that callers have been given, against "never reused across callers"
  (`apps/directory/views.py:270`).
* `AttemptsAreLimited`, `OneToken` (SMS): as long as no try has read the row between another's read and
  write (`overlapped`), where a test says without a condition "even the correct code now fails after too many
  attempts". Beyond that, `OverlapBoundsGuesses` says how many codes can be compared: `GuessLimit`, 5 for one
  handler, 20 for two. `GuessLimit` counts sequences; `MCSmsVerify` assumes, and TLC evaluates, that it is the
  binomial coefficient `choose(MaxAttempts + workers, MaxAttempts) - 1` on the instance.
* `OverlapBoundsAccounts` (register): one account per number, until two registers of that number were
  between re-check and mark at once (`raced`); then at most one for each worker.
* `OfferedIsStored`, `ServedIsWhole` (blobs): with the file store, unless a PUT opened the file of the
  fragment while it was offered or another worker was at it (`doubled`), since `write_bytes` truncates in
  place; with S3 always (`NothingDoubledOnS3`).
* `AcceptedIsOwed` (sync): what a sync accepts is held by its recipient or owed to it until a deadline. A new row
  has the lifetime that was asked for, clamped to the ceiling of its class; a row that was there keeps its deadline,
  still ahead or already past, however much longer the push asked for. The run pushes one event with both lifetimes
  at every age of the row.
* `OverlapBoundsUses` (auth): a nonce lets in one request, or as many as overlap between its check and its save.
* `RestoreResolves` (backup): bundle and mailbox of a reply were proven for the number, and are of one account
  until a recover repoints the number (`recovered`) or two registers raced for it. After a recovery the reply names
  the mailbox of the present identity, which is not the one whose keys are in the backup.
* `OverlapBoundsReceipts` (sync): one row per receipt until two transactions inserted it at once (`raced`).
* `DeadlocksNeedCrossing` (sync): no sync is a victim of a deadlock unless two lists name two ids in opposite
  orders; nothing in the code sorts them.
* `MarkedIsHandedOver`, `NothingIsOvertaken` (calls): unless the answer of a poll was lost (`lost`), since poll
  marks before it answers and nothing asks for a signal again.
* `NothingIsSkipped` (coordination): but rows that appeared behind the cursor (`late`) or that a page boundary
  separated from another row of their instant (`tied`).
* `MatchIsMeaning` (documents): unless a date is written so that it reads as another (`IsClear`): month first
  where the day could be a month, or month first with hyphens.

### Where the code and its comments differ

Each of these was met while modelling; the models follow the code.

| Says | Code |
|---|---|
| "re-submitting the same event is a harmless no-op (dedup)" (`apps/sync/views.py:84-85`) | `get_or_create` (line 93) keeps the deadline of the row it finds: a push of an event whose row is about to expire, or has expired and awaits gc, is answered as accepted and dropped at the old deadline, however long a lifetime it asks for |
| "Pops one one-time prekey atomically so it is never reused across callers" (`apps/directory/views.py:270`) | an upload that is repeated puts back keys that callers have been given (line 230) |
| "whitespace-collapsed, diacritics stripped, and punctuation removed" (`apps/idverify/crypto.py:20`), "case/whitespace-insensitive" (`README.md:206`) | `normalize_text` turns punctuation into a space and only collapses whitespace: "O'Neil" and "ONeil", or "Anne Marie" and "Annemarie", do not match |
| "single-use and expire in 120s, so a captured request cannot be replayed" (`README.md:69`) | check and burn are apart (`apps/common/auth.py:57,66`): overlapping requests with one nonce are all let in |
| the re-check "closes the race where two verified tokens for the same number both reach this point" (`apps/directory/views.py:112-114`) | re-check and mark are separate statements: two workers pass it together, and the number has two accounts |
| "The client needs its own mailbox_id back too" (`apps/directory/views.py:372`) | after a recovery the reply pairs the old bundle with the new identity's mailbox |
| events the client "doesn't yet hold" (`apps/sync/views.py:69`) | the page is cut before the Bloom filter (line 147): held events that are not acked crowd out others |
| "stale auth challenges" (`gc.py:15`) | only consumed ones are deleted (line 25) |
| "Storing ciphertext longer than necessary is a liability" (`gc.py:4-5`) | rows of expired fragments are deleted, their bytes never: nothing calls `store.delete`. No statement deletes call signals at all |
| FCM is "the fallback for when it returns False" (`apps/common/fcm.py:3-5`), "No live socket to wake the callee" (`apps/calling/views.py:60`) | `push_to_mailbox` returns True whenever a channel layer is configured, sockets or not (`apps/common/push.py:40`), and `config/settings.py:212-222` always configures one |
| "signals are deleted on delivery" (`apps/calling/models.py:22-23`) | they are marked (`apps/calling/views.py:96`) and stay |

### Fairness

* `FairSpec` of StoreForward: a worker goes on with its request (weak fairness: threads are scheduled); an
  author keeps offering until the event is with the server or its recipient, and a recipient keeps syncing
  and acking (strong fairness, since a worker is not always free). These are the clients' polling loops, and
  the code relies on them: push is only a hint. `EventuallyHeld` further assumes that from some time on
  connections no longer fail and relays no longer re-push delivered events; without the former nothing can
  be promised.
* `GcSpec`: cron keeps starting gc and not every run is killed at the same delete. Nothing is assumed of clients.

## 4. Proofs

Everything below is checked by TLAPS for all values of the constants, from the named `ASSUME`s in the
modules (finite sets of workers, natural numbers, ids with one author and recipient).

| Theorem | States | Argument |
|---|---|---|
| `StoreForwardProofs!InvHolds`, `DeliverySafe` | `Inv`, `DeliveredIsHeld`, `ConfirmedIsHeld`, `OneRowPerEvent` | below |
| `StoreForwardProofs!ConfirmationsTrue`, `AcceptedOwed` | `ConfirmedIsHeld`; `AcceptedIsOwed` | the row found or made is the event's own (`RowsAreAddressed`), and the transaction changes no deadline; marked means held |
| `StoreForwardProofs!NothingIsLost` | `[][...]_vars`: nothing unexpired and unheld is removed | from `Inv` and gc's `now` never being ahead of the clock |
| `StoreForwardProofs!ImplementsMailbox` | `Spec => Promise!Spec` | each step is `Wait`, `Obtain`, `Exchange` or a stutter |
| `StoreForwardProofs!TxnInvHolds`, `OverlapBoundsReceiptsHolds` | `TxnInv`, `OverlapBoundsReceipts` of `SyncTxn` | below |
| `StoreForwardProofs!DeadlocksNeedCrossingHolds` | `DeadlocksNeedCrossing` | who holds the highest awaited id waits for an id that only it holds |
| `StoreForwardProofs!CommitsKeptHolds` | `CommitsKept`, an action property: no commit takes back what another wrote | what a transaction inserts is in nobody's table (`KeysAreUnique`); what it accepted is there (`AcceptedIsThere`) |
| `SigAuthProofs!InvHolds`, `GrantsSafe`, `BurntForGood`, `UsesBounded` | `GrantedIsProven`, `BurntStaysBurnt`, `OverlapBoundsUses` | below |
| `PreKeysProofs!InvHolds`, `BundleSafe`, `KeysKept`, `ReuseIsBounded` | `RepliesMatch`, `KeysAreAccounted`, `ResendsBoundReuse` | who is past its read holds the lock, so its copy is the row |
| `SmsVerifyProofs!Earned`, `InvHolds`, `SerialLimits`, `OneTokenEach` | `TokensAreEarned` (a part of `Inv`): no more tokens than right codes compared in time, `right` being their instants; `AttemptsAreLimited`, `OneToken` | until tries overlap, the copy is the row |
| `SmsVerifyProofs!OverlapBoundsGuessesHolds` | `OverlapBoundsGuesses` | below |
| `SmsVerifyProofs!IdvInvHolds`, `MatchIsMeaningHolds` | `IdvInv`, `MatchIsMeaning` of `IdVerify` | each normaliser identifies two writings exactly when they mean the same, or a date is not clear |
| `SignupProofs!InvHolds`, `NumbersSafe`, `AccountsThere`, `RestoresResolve`, `OverlapBounds` | the table properties; `OverlapBoundsAccounts` | below |
| `BlobsProofs!InvHolds`, `FragmentsSafe`, `ServesWhole`, `NothingIsWithdrawn` | `OfferedIsStored`, `ServedIsWhole`; `KeptUntilExpired` | below |
| `CallsProofs!InvHolds`, `SignalsHandedOver`, `CallsInOrder` | `Inv`; `MarkedIsHandedOver`; `NothingIsOvertaken` | below |
| `CoordinationProofs!InvHolds`, `CursorSafe`, `PublicationsKept` | `Inv`; `NothingIsSkipped`; `PublishedIsHeld` | below |

The inductive invariants, and why the properties alone are not inductive:

* **StoreForward `Inv`.** `DeliveredIsHeld` is broken by a step unless what the handler is about to do was
  true: `HonestRequests` says that relayed receipts in flight were issued and ids in an ack are held.
  `IssuedIsHeld` links a receipt to its recipient's storage and `RowsAreAddressed` links a row to the
  addresses of its event. All of these survive because `held` only grows.
* **SigAuth `Inv`.** `GrantedIsProven` needs the workers' copies to be copies of something issued
  (`RequestsAreIssued`). `OverlapBoundsUses` needs a count: uses plus the *hopeful* workers (past the read
  with an unconsumed copy) never exceed the workers. A worker becomes hopeful only while the row is
  unconsumed, and then there has been no use (`BurntStaysBurnt`).
* **Signup `Inv`.** `RequestsAreFilled` and `RequestsAreProven` carry what earlier statements of a handler
  have established to the later ones; it holds because no handler deletes a row. `AccountsAreBounded`
  counts accounts and those about to bind: while a number is not `raced` there is at most one of either.
  `RowsAreTheAccounts` says of numbers that have not changed hands that entry, backup and whatever a handler is
  about to store or to answer are that account's; with the count, bundle and mailbox of a reply are one.
* **PreKeys `Inv`.** Apart from the lock (`Locked`), `ResendsBoundReuse` needs a count: the times a key has
  been given, the uploads under way that will put it into the pool, and one if it is there, are no more than the
  times its upload was sent (`KeysAreCounted`).
* **Blobs `Inv`.** `OfferedIsStored` is broken by `SaveRow` and by `Complete` unless what they vouch for is
  still there: `WorkersAreRight` says so of a worker between its write and its save, or about to read
  (the file is whole, or `doubled`), `SentIsStored` of what the client knows to be in S3.
* **Calls `Inv`.** A poll breaks `NothingIsOvertaken` when its answer arrives unless what it selected is already
  a beginning of each call, counted with what others hand over (`PollsAreRight`): true at the SELECT, because
  every earlier signal of the call is in the table (`RowsAreThere`: a caller goes on only after a 201) and is
  selected, marked by another poll or expired. `MarkedIsHandedOver` needs that a poll that dies after its UPDATE
  moves its rows to `lost`.
* **Coordination `Inv`.** `Merge` moves the cursor, so what the answer on its way says must already hold of
  it: `PageIsRight` is `NothingIsSkipped` with the page's last `created_at` in place of the cursor. A row that
  appears later with an older `created_at` is `late` by then. `PublishedIsHeld` needs that a handler about to
  answer 201 has seen the row and gc cannot have taken it before the earliest deadline asked for
  (`HandlersAreRight`: every row has the shard and deadline of one publication, and gc's `now` is not ahead).

* **SmsVerify `Inv`.** A late write takes the counter back, so no bound on `row.attempts` survives a step: what
  is bounded is the guesses made plus those still possible (`GuessesAreCounted`). Let the handlers write in
  turn. The guesses left to one whose turn is `n` and whose least reading is `c` are the ascending sequences of
  `n` counts from `c + 1` to `MAX_ATTEMPTS`, and this holds for every order of turns. A write of `c + 1` lets
  some handlers read `c + 1`: give the writer the last of their turns, and what they all have left afterwards is
  less than what the writer alone had before (`SequencesAhead`, `WriteTakesOne`: put `c + 1` in front of the shorter
  sequences until they have the writer's length; the sequence that is `c + 1` throughout is left over).
* **SyncTxn `TxnInv`.** Every phase says what the transaction has been through (`InPlace`), so what it has
  written and locked is a beginning of its lists; all statements but the two ends and those elsewhere are one
  kind of step (`Advances`), for which the proof is done once. `OverlapBoundsReceipts` needs a count of the rows with
  those inserted and those about to be (`ReceiptsAreCounted`). For `DeadlocksNeedCrossing`, suppose an order of the
  ids with which all lists agree, and take the actor that waits for the highest row lock (if none waits for a
  lock, the highest key). Whoever holds it waits too, for an id further down the same list (events come before
  receipts, so who holds locks waits for one: `LockedIsBefore`, `InsertedIsBefore`). That is not higher, so it is the
  same id, listed twice, which nobody else holds: it waits for nobody.
* **IdVerify `IdvInv`.** A copy is of one ingest (`CopiesAgree`, by its position in `ingested`), so later
  ingests do not matter to it. Assumed of submissions (`SubmissionAssumption`): the fields have the shape the
  serializers give them, all are for one document number, and a field that is absent is not confused with one
  that is given. "Anne Marie" and "Annemarie" are different names, as they are for `normalize_text`.

**Only model-checked.** Liveness (`EventuallyHeld`, `Reclaimed`): fairness and `ENABLED` are out of the
prover's reach. That `GuessLimit` is the binomial coefficient: an induction over a recursive function, evaluated
for the instance. Every other property that a run checks is also a theorem.

## 5. Not modelled

* `BloomFilter`: bit arithmetic over one hash, used by both sides alike. That it never misses an added id is
  that the same indices are set and read; `StoreForward` assumes no more.
* The network calls of the SMS senders and of FCM: their outcomes are choices (`Send`, `NotifyCall`).
* Validators other than the lifetime, sizes and hex: they refuse a request before it changes state.
* Throttles (DRF over a cache; `RateBucket` is used by nothing), OpenAPI decoration, settings other than the
  limits, URLs, migrations, scripts: no state of their own. Handlers that only read (`lookup_by_phone`, the blob
  manifest, `verification_status`, health) can break nothing that is stated here.

**Assumptions throughout.** PostgreSQL at READ COMMITTED; one clock; honest clients as described under each
module; hashes and signatures without collisions.
