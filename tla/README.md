# ezauth in TLA+

ezauth is a multi-tenant authentication service: FastAPI handlers over an async
SQLAlchemy session (PostgreSQL, READ COMMITTED), Redis for counters, codes and
leases, S3 for objects, and payment providers behind prepaid billing.  This
directory models its server (`src/src/ezauth`) and proves what matters most
about it.  The modules are written from the source; line references are in
`PROJECT.json` (`map`).

## 1. The system

| component | state it keeps | operations | interacts with |
|---|---|---|---|
| request transaction (`dependencies.get_db`, `db/engine.py`) | one session per request | commit after the endpoint, roll back on any exception, `HTTPException` included | everything below |
| billing (`services/billing.py`, `services/payments/*`, `api/backend/billing.py`, `dashboard/billing.py`) | account row, append-only ledger, payment attempts | lazy creation, credit, charge, metering, card reload, top-up, webhook, capture, callback, poll, adjustment | Stripe, PayPal, confirmations.info, Redis lock of the metering pass |
| sign-in attempts and codes (`services/tokens.py`, `services/auth.py`, `services/bots.py`, `api/admin_auth.py`) | `auth_attempts`: token, code hash, wrong-guess counter, state | issue (which revokes older ones), consume by link, consume by code | mail, rate limiter, sessions |
| sessions (`services/sessions.py`, `api/frontend/sso.py`, `dependencies.py`) | `sessions`: refresh hash, expiry, revoked_at | create, refresh (rotates), revoke, revoke all of a user, bridge to satellite apps | signing keys, passwords, cookies |
| signing keys (`services/keys.py`, `api/backend/jwks.py`) | `application_keys`: active or retired | ensure, rotate, drop retired ones after the grace period | token minting and verification, JWKS |
| dashboard log-in (`dashboard/auth.py`) | Redis: code, attempts, index of pending codes, revoked tokens | issue, verify, log out | mail, rate limiter |
| OAuth sign-in (`services/oauth.py`, `api/frontend/oauth.py`) | Redis state, identities, users | authorize, callback, link or create a user | providers, sessions |
| custom tables (`services/tables.py`) | tables, columns, JSON rows, storage use | column add, rename and drop, row insert, update, delete, keyset query | billing usage |
| object storage (`services/objects.py`) | buckets, objects, S3 keys, quota | put, replace, delete, bucket delete, list, download | S3, CDN invalidation |
| domains (`dashboard/domains.py`, `services/domains.py`) | claimed host names, verified flag | claim, verify CNAME, release | redirects, cookies |
| proof of work (`services/hashcash.py`), rate limiter (`ratelimiter.py`) | Redis challenges; sliding windows | issue, redeem once; check and consume | bots, sign-in |
| clean-up (`services/cleanup.py`) and metering loops | Redis lease, expired rows | hourly pass of batched deletes; metering pass | sessions, attempts, audit log; billing |
| admission of requests (`dependencies.py`, `admin_logout` of `api/admin_auth.py`) | Redis deny-list | resolve a secret key, an administrator's or a session's token; log an administrator out | signing keys, sessions, billing |
| start-up (`main.py`, `config.py`), middleware, CSRF, redirects, mail, audit, templates | little or none | | |
| clients, SDKs, CLI, static site, docs, migrations | none on the server | | the API |

What is hard here: every handler is a transaction that reads, waits and
writes while others do the same under READ COMMITTED; row locks are taken in
some places and not in others; an exception undoes the bookkeeping together with
the work; effects at a provider, in Redis or in S3 are not undone by a rollback;
webhooks, browser returns and polls report the same fact in any order; and every
background pass may overlap with another instance's.

What makes each component correct, in a sentence:

* billing: no balance change is lost and no provider payment is credited twice
  or never; an account is suspended only while it is in debt.
* attempts: a new code replaces those before it, a bounded number of guesses, one
  sign-in per attempt.
* sessions: a refresh token is redeemed once, and nothing outlives a revocation.
* signing keys: one active key, and a token verifies for as long as it is valid.
* tables, objects: stored rows fit the columns, counted bytes are the stored
  bytes, and the database never points at bytes that are gone.
* dashboard codes, OAuth flows, proofs of work: what is checked is what is consumed.
* OAuth: a provider account enters one local user; bots: a donation pays for one.
* domains: a verified name belongs to the application that verified it.
* leases: one pass at a time, and each unit of time is charged once.
* admission: nothing withdrawn before a request arrives admits it.

## 2. Modules and plan

| module | models | checked by run | proofs |
|---|---|---|---|
| `Billing` | accounts, ledger, payments | `books`, `polls`, `live` | `BillingProofs`, `CreditProofs` |
| `AuthAttempts`, implementing `OneTimeSecret` | codes and links | `codes`, `owner`, `json` | `AuthAttemptsProofs` |
| `Sessions` | refresh tokens, passwords, single sign-on | `sessions`, `rehash` | `SessionsProofs` |
| `SigningKeys` | keys and tokens | `keys` | `SigningKeysProofs` |
| `Tables` | columns, rows, listing | `rows` | `TablesProofs` |
| `ObjectStorage` | PostgreSQL against S3, quotas | `objects` | `ObjectStorageProofs` |
| `DashboardLogin`, `Domains`, `Admission`, `Metering`, `Accounts`, `Access` | six smaller protocols | `components` | `ComponentsProofs` |

A theorem holds for every value of the constants that satisfies the assumptions of
its module, of which TLC evaluates the instance on every run.  What remains to TLC
alone:

* `PollEnds`, `PaidIsCredited`, `ReloadIsCredited` and `DebtIsPaused`: the prover
  does not know fairness.

The types of the variables are in each module's `TypeOK` (but `Access` has none).
The proofs state the types they need, and prove them; the configurations leave
`TypeOK` out because it says nothing about the code.  What could follow beside
proofs: tickets and OAuth flows as further implementations of `OneTimeSecret`.

Transactions are modelled alike everywhere: committed rows are variables, a
session has its own copy of what it locked or flushed, row locks last until
the commit, and an abort may come between any two steps.

## 3. Billing

`Billing.tla` has one `Worker` per database session.  `account`, `ledger` and
`payment` are the committed rows; `row`, `new` and `status` are what a session
has flushed; `held` are the account rows it has locked; `provider` and `intent`
are the world outside, which no rollback undoes.

| code | action or operator |
|---|---|
| unlocked look-up of `get_or_create_account` | `FindAccount`, in the `Begin...` actions |
| tenant row lock, second look, insert, welcome grant | `TakeTenant` |
| `_lock_account`, `locked_payment`, `refresh(with_for_update)` | `LockAccount` |
| `credit`, `charge`, `complete` | `Credited`, `CreditOnce`, `Charged`, `Complete`, `Post` |
| `create_topup` of the three rails | `CreateTopup` |
| Stripe events | `StripeSettle`, `ReloadWebhook` |
| PayPal: the browser's return, its capture, the capture event | `BeginReturn`, `PaypalCapture`, `PaypalWebhook` |
| crypto callback, status check, poll | `CryptoConfirm`, `CryptoExpire`, `PollNext`, `PollSkip`, `PollEnd` |
| `meter_account` | `MeterFirst`, `MeterUsage`, then one of `MeterNoReload`, `MeterReload`, `MeterReloadFails` |
| dashboard `adjust` | `Adjust` |
| commit, rollback, crash | `Commit`, `Abort` |

Cents are small integers.  The settings of an account (auto-reload on, card
saved) are a choice made when they are read, because no balance change depends on
their history; `reloadFailed` says whether a reload failed within 24 hours and
`DayPasses` ends that.  A provider reference is the payment or the card intent it
identifies.

### Runs

| run | instance | what it shows |
|---|---|---|
| `books` | one tenant, a card and a PayPal top-up, one card intent, two sessions | ledger and balance agree; a reference is credited once and only when the provider took the money; completed means credited; paused means in debt; a metering commit settles the pause |
| `polls` | two tenants, a crypto top-up each, two sessions | the lock invariant; completed attempts stay completed; every poll finishes, deadlock included |
| `live` | one tenant, one PayPal top-up, one card intent | money taken by PayPal is credited, a card charge reaches the ledger, debt leads to a pause or a reload |

Bounds: two sessions suffice for every lost update, since an anomaly is between
one reader and one writer; a second tenant only matters to a poll, which is the
only transaction that locks more than one account.  `MaxLedger` stops usage and
corrections at a ledger length; credits of references are bounded by the sets
`Payment` and `Intent`.

Fairness: a session not blocked by a lock goes on (weak fairness of its steps)
and a lock wait is granted in the end (PostgreSQL queues waiters; strong
fairness of the two lock actions).  Stripe and PayPal repeat an event until it is
acknowledged and the metering loop comes back to each tenant (strong fairness of
`BeginSettle` on these two rails, of `BeginReload` and `BeginMeter`).  The event
exists only once the money is taken, and `PaypalWebhook` never captures.  A capture
is made by the browser's return alone (`BeginReturn`), which nothing repeats and
which gets no fairness: an order the customer approved and never came back from
stays approved, no money is taken and nothing is promised.  `PaidIsCredited` speaks
of captured money: the browser may be lost between the capture and the commit, and
the event brings the credit.  For crypto the poll is the repetition; a payment that
arrives after its attempt expired waits for a callback, so the property leaves this
rail out.  Every liveness property assumes `Calm`: aborts do not go on for ever.

### Proofs

`BillingProofs.tla` proves, for any constants that satisfy the assumptions:

* `TypeCorrect`: `TypeOK`, by way of `Typing`, which adds that each step knows the
  tenant, payment or intent it works for.
* `LocksHold`: `LockInv`.  `BooksBalance` alone is not inductive: a commit writes
  the session's copy, so the copy has to continue the committed ledger.  That is
  `HeldFine`; it survives other sessions' commits because of `Exclusive`.
  `StageFine` says where in its handler a session holds what, and `KnownAccounts`
  that whatever a webhook refers to has an account.  The lemmas follow the actions,
  one for each group of handlers, all through `OneSessionKeeps`.
* `BooksAlwaysBalance` and `PauseNeedsDebt`: the two properties of committed states.

`CreditProofs.tla` goes on to what the locks are worth to the money:

* `NothingCreditedTwice`, `MoneyIsBacked`, `CompletedMeansCredited` and
  `CompletedStays`, from `CreditInv`.  None of the four is inductive: a session looks
  for a reference in the ledger it sees, and reads the status of an attempt before it
  has the lock of the account.  `AllOnce` and `InStep` say of what every session sees
  (`SeenLedger`, `SeenStatus`) what the properties say of the committed rows;
  `AllBacked` says it of flushed entries; and `Attempts` ties the attempts to the
  locks: one is closed by a session that holds its account, in a poll since before
  the current savepoint (`Closes`), and what a webhook says was verified before
  (`Verified`).
* `MeteringSettlesPause`, from `MeterInv`: the metering call has read the row it
  writes under its lock, so the pause it flushes is the one the balance asks for.

The liveness properties are model-checked.

## 4. Sign-in attempts

`AuthAttempts.tla` has one `Worker` per request.  A statement with a WHERE clause
is two steps: it picks rows from what is committed (`cand`), and later, when
their locks are free, looks at their status again (`Live`), as READ COMMITTED
does for `UPDATE` and `FOR UPDATE`.  `copy` is what the request has flushed and
holds locked; `told` is what clients have been answered, which a rollback does
not take back; `opened` counts the sessions an attempt has opened.

| code | action |
|---|---|
| `signup`: look-up, insertion of the user | `BeginSignup`, `InsertUser` |
| `signin_magic_link` | `BeginSignin` |
| owners' log-in through the API and the dashboard | `BeginAdmin`, `BeginDashboard` |
| `revoke_pending_attempts`, `create_auth_attempt` | `IssuePick`, `IssueRevoke`, `IssueInsert` |
| `consume_auth_attempt_by_code`, `consume_admin_login_code` | `BeginGuess`/`BeginAdminGuess`, `GuessPick`/`AdminPick`, `GuessRight`/`AdminRight`, `Wrong` |
| `consume_auth_attempt` behind the link | `BeginLink`, `LinkPick`, `LinkRight` |
| the answer, the commit or the rollback by `HTTPException` | `Commit`, `Refuse`, `Abort` |

Routes matter: the hosted pages answer a wrong code with a page, so the count is
committed; the JSON routes raise, so it is rolled back.

The abstract specification is `OneTimeSecret`: a secret is issued and then either
used, which opens one thing, or made void, and nothing happens to it again.
`ImplementsOneTime` maps an attempt to a secret by its committed status and the
sessions it has opened; a request's reads, locks and flushed rows are stutters, and
only `Commit` moves secrets, several at a time if it replaces or spends several.

| run | instance | what it shows |
|---|---|---|
| `codes` | one application and address, three attempts, two codes, two guesses allowed, hosted pages | wrong guesses end an attempt; a new code replaces every live one, except those issued beside it; every attempt is a one-time secret |
| `owner` | an owner of two applications, one of them with users signing in by link | a log-in spends the owner's code wherever it stands; the newest code is the one that counts |
| `json` (violated) | one attempt, JSON routes | wrong guesses are not counted |

A revocation does not see what other requests have not committed, and nothing makes
two issuing requests wait for each other (`auth.py:146`).  The ghost `beside` records,
for a request that has begun to replace the address's attempts, which ones overlapping
requests have committed since.  `NewestReplaces`, a property of the commit that issues
an attempt, claims that no other one of its address, type and application is live then,
`beside` apart.  It does not claim that only one code is live at a time: two sign-ins
that overlap leave one each.

Bounds: two requests at a time, since each anomaly has one writer and one reader; in
`codes` both may issue, in `owner` one.
Three attempts are a code, its replacement and one more; two guesses distinguish
a counted guess from the last one; one attempt expires (`Narrow`), since expiry only
ends it.  Symmetric: attempts, codes and, in `codes`, requests.

### Proofs

`AuthAttemptsProofs.tla` proves, for any number of requests, attempts, codes,
addresses and applications:

* `AttemptsSingleUse` and `ImplementsOneTimeSecret`.  That an attempt has opened one
  session exactly if it is consumed is not inductive: a commit writes what the
  request flushed, which must continue what is committed.  `LockInv` adds that no two
  requests hold one attempt (`Alone`) and that what a request holds follows from the
  committed status (`HeldFollows`).  `FlushLock` is the lemma every writing statement
  goes through; `CommitRow` says what a commit makes of one attempt, and is the step
  of the abstract specification.
* `HostedGuessesBounded`: `GuessesBounded`, where no route rolls its refusals back
  (`"json" \notin Routes`; with it the run `json` is the counterexample).  `CountInv`
  adds to `LockInv` that the counter of a row is the number of wrong guesses answered
  about it, that a flushed row is one ahead exactly if its request is about to refuse
  (`HeldCounts`), and where in its handler a request can hold rows (`StageCounts`).

* `AttemptsTyped`: `Typed` strengthens `TypeOK` by what the requests carry (`Proper`)
  and by guesses being left on every live row.
* `NewestReplacesEarlier`: `NewestReplaces`, for any number of overlapping issuers.  At
  each stage an issuer accounts for every committed live attempt of its credential: it
  has picked it, holds it as replaced, or has it in `beside`.
* `OwnerCodesAreSpent` and `DashboardCodeIsNewest`: `OwnerCodeSpent` and
  `NewestOwnerCode` under `OneIssuer`, the hypothesis that issuing requests do not
  overlap, which the run `owner` makes too.  Without it they are false: two
  issuers revoke what each can see and insert a code each.  Guesses, refusals,
  crashes and expiry interleave with the issuer at will.  `Base` says what a request
  is doing at each stage and that a row it has locked keeps its key (`HeldIs`).
  `LiveInv` states `OneLiveCode` of the rows as the issuer's session sees them
  (`OneSeen`), and follows a replacement through its statements: what is live for the
  credential has been picked (`Revoking`), then none of it is left (`Inserting`), and of
  an owner's codes only the inserted ones are live (`DashboardIssued`, `AdminIssued`).
  Everybody else's commit only takes live rows away (`Shrinks`).  `SpendInv` adds the
  guesser's side: it has picked all the owner's live codes unless a newer one has
  replaced them all (`Picked`), and consumes those that match together (`Spent`).
  `OwnerCommit` is the fact that ties the two: a commit issues no code of an owner,
  or all the owner's live codes are those it issued.

## 5. Sessions

`Sessions.tla` follows a refresh token through its rotations, and the password
behind it.  `row`, `password` and `outdated` are committed, `copy` and `passwd`
flushed; `sso` is Redis, where `GETDEL` is atomic and no rollback reaches.
`based` remembers how many password changes the credential behind a session had
seen; `redeemed` and `opened` count the answers to a token and to a ticket.

| code | action |
|---|---|
| password sign-in, hash upgrade, `create_session` | `BeginSignin`, `Rehash`, `Open` |
| `refresh_session` | `BeginRefresh`, `Rotate` |
| `revoke_session`, from the API or the back end | `BeginLogout`, `Pick`, `Revoke` |
| `set_password` and `revoke_user_sessions` | `BeginChange`, `WritePassword`, `Pick`, `Revoke` |
| SSO bridge and exchange | `BeginBridge`, `Mint`, `BeginExchange`, `Open` |
| expiry and clean-up | `SessionExpires`, `TicketExpires`, `Clean` |
| commit, rollback | `Commit`, `Abort` |

| run | instance | what it shows |
|---|---|---|
| `sessions` | one user, two applications, three sessions, three tokens, a ticket, a password change | a committed refresh kills the token it redeemed; a ticket opens one session; a revoked session never comes back; a password change ends every other session it found in its application |
| `rehash` (violated) | sign-in beside a change | the upgrade writes the old password back |

Bounds: two requests at a time; one change and one ticket, because each property is
about one; the third session is for single sign-on (`ThirdByTicket`), so that a
change meets two sessions of its own application or one of each.

### Proofs

`SessionsProofs.tla` proves the four properties for any number of requests, users,
applications, sessions, tokens and tickets:

* `RevokedStays`.  That a revoked row stays revoked is not inductive: a refresh that
  began earlier holds a copy.  `RowInv` adds that row locks exclude each other
  (`Alone`) and that what a request holds follows from the committed row
  (`HeldFollows`), which a statement ensures by looking at the row again when it has
  the lock.
* `RedeemedStaysDead`, from `TokenInv`: a token is one session's (`OwnToken`); a row
  held by a request carries a fresh token, nobody else's, or keeps its own and is
  revoked (`HeldToken`); the token a refresh has presented is its session's or nobody's
  (`Presented`).
* `TicketOpensOnce`, from `TicketInv`: a ticket is in Redis or in the hands of one
  request, never both, and has opened nothing until then.
* `OthersAreEnded`, from `ChangeInv`: the live sessions a change found are among those
  it has picked, and then among those it holds as revoked.

`LastPasswordHolds` is refuted by the run `rehash`.

The same module exhibits more facts: a session opened by single sign-on in another
application survives the password change (`sessions.py:185` ends those of one
application, `api/frontend/passwords.py:8-9` speaks of every other device); two
refreshes at the same time are both answered and the second rotation wins
(`sessions.py:111`); the session that changes the password is ended too (`auth.py:487`,
against the same lines); a sign-in that verified the old password before the change and
commits after it leaves a session (`auth.py:443`).

## 6. Signing keys

`SigningKeys.tla`: a request reads the list of keys unlocked (`seen`) and works
from it; `key` and `inline` are `application_keys` and the key on the application's
own row.

| code | action |
|---|---|
| the query of `ensure_keys`, in every operation | `Read` |
| `ensure_keys` without rows: adopt the inline key | `Adopt` |
| `active_key`, session and admin token signing | `Mint`, `MintAdmin` |
| `rotate_key`, `drop_retired_keys` | `Rotate`, `Drop` |
| `verification_keys` (JWKS and verification) | `Published` |
| commit (unique key id, stale row), rollback | `Commit`, `Abort` |

| run | instance | what it shows |
|---|---|---|
| `keys` | four keys, two tokens, two requests that both may rotate | the application's own key stays active; an unexpired token verifies, unless its key was dropped while in use; retired keys stay retired |

Four keys are the first, two overlapping rotations and one more after them.
`drop_retired_keys` deletes at any time; whether to wait is the operator's affair, and
`DEPLOYMENT.md:326-328` has both steps run back to back after a compromise.  So a drop
begins whenever it likes; the ghost `early` remembers the retired keys that a token of
an `Awaited` kind, or a request about to answer one, still used (`InUse`), and `cut` the
keys deleted that way, of whose tokens `TokensVerify` says nothing.  Every other token
must verify whatever overlaps, for a key must not be dropped by a request that never saw
it retired.  The run takes both kinds as awaited.  `DEPLOYMENT.md:317-318` waits for
access tokens only, while an administrator's token, signed with the same key, lives
eight hours: with `Awaited = {"access"}` nothing is claimed of those tokens, and such a
wait does end them before their time.  Overlapping rotations leave two active keys
(`keys.py:122`, against `keys.py:4-5`): the run shows that this does no more harm than a
key too many.

`SigningKeysProofs.tla` proves `TypeCorrect`, `KeysConsistent` (`KeysInv`),
`InlineAlwaysActive` and `RetiredStays`.  `InlineIsActive` is not inductive: a commit
moves `inline` to the key the request generated, and another request could retire that
key or the one before.  `KeysInv` adds what a request may hold: flushed rows are
distinct (`Apart`), only one request can be adopting with success (`Adopter`), a fresh
key is flushed as active, and a key is flushed as retired or dropped only by a request
that read it as active or retired (`CopyFine`).  `RequestStep` covers the steps that
change one request, `CommitWrites` the rows a commit writes; each action cites one of
them.

`TokensAlwaysVerify` proves `TokensVerify` whichever kinds an operator waits for, and
whether or not there is a wait at all.  A token verifies with a key somebody may be
about to drop, so `TokensInv` says that each key relied on by a token, or by a request
that is going to sign with it (`ReliedOn`), is published and in nobody's hands to be
dropped (`Reliable`).  No fairness is used from section 4 on: there are only safety
properties.

## 7. Custom tables

`Tables.tla`: one table, its columns and rows as partial functions from column names
to values, and a client that lists the rows.  `names`, `base` and `merged` are what a
request has loaded and computed; `newColumn` and `newRow` what it has flushed and
holds locked; `app` is the lock of the application row that guards the storage limit.

| code | action or operator |
|---|---|
| `insert_row` | `BeginInsert`, `Insert` |
| `update_row`: read and merge, reserve, flush | `BeginUpdate`, `Patch`, `Update` |
| `delete_row`, `delete_table` | `BeginDelete`, `Delete`, `BeginDeleteTable`, `DeleteTable` |
| `_reserve_storage` | `Reserve` |
| `add_column`, `update_column`, `delete_column` | `BeginAdd`, `Add`, `BeginRename`, `Rename`, `BeginDrop`, `Drop` |
| `_rename_row_key`, `_drop_row_key` | `PickRows`, `Rewrite`, `Rewritten` |
| `query_rows`, `_keyset_predicate` | `NextPage`, `After` |

Some promises hold only while certain requests do not overlap.  `excused` records
those overlaps, and a property names the ones it needs excused:

* `mixed`: a rename or drop ran beside another, or beside a row write that had read
  the columns and was not committed when the rename picked its rows.  The row then
  keeps, or gets back, a key that is no column (`RowsMatchColumns`).
* `stale`: an update wrote over a row that had changed since it was read; its growth
  was measured against the older row (`WithinLimit`).
* `grown`: a write that reserved nothing made stored rows larger: a rename to a longer
  name, or an update whose text is no longer but takes more bytes (`WithinLimit`).

Two measures meet in `_reserve_storage`: what is stored is the sum of `pg_column_size`
(`Stored`), what is added the growth of a JSON text (`Estimate`).  They are two constant
functions of a payload, and `Margin` bounds what the growth of the text is short of the
growth of the stored bytes.  `WithinLimit` is the limit up to one such margin, not one
for each request that is admitted; the documented limit itself can be passed by it, since a
short text takes more bytes as `jsonb`.

| run | instance | what it shows |
|---|---|---|
| `rows` | two names, two columns, two rows, two values, two requests, pages of one row | without those overlaps rows match the columns and the limit holds up to the margin; a row that is not touched is listed exactly once |

Bounds: the predicate of a page compares one row with the cursor, so two rows with
equal, different or missing values, in both directions, are all its cases; the sizes are
chosen so that two rows exceed the limit of five only together, and texts and stored
bytes differ by one in either direction, so that a growth is misjudged by up to two.
`Bounds` stops at the second excuse, and lets a listing overlap row writes only: a
listing whose sort column has gone ends with an error.  Deadlock is not checked, because
nothing more happens to a deleted table.  Sorting by `created_at` or `updated_at` is the
case without NULLs.

### Proofs

`TablesProofs.tla` proves the three properties for any number of requests, columns,
names, rows and values, any sizes, any limit and any size of a page.
`MarginAssumption` is what `Margin` means (some number always meets it, since
requests are bounded in size); `TablesAssumption` says what else is
needed: ids and names are finitely many, ids and values are ordered like
numbers, and null values are none of what they stand in for.

* `RowsLocked` (`RowInv`) is what the rest is built on: `Types` adds to `TypeOK` what
  a request of each kind has flushed by which stage (`Shape`); `Locks` says that no two
  requests have flushed the same row or column, and that what one has flushed is still
  what it found there; `TableInv` that whoever deletes the table holds all of its rows.
* `RowsAlwaysMatch` needs `MatchInv`, because a commit makes flushed rows visible and
  takes columns away.  Every value that is on its way to a row was checked against
  columns that are still there (`Written`), and a column that is going to be renamed or
  dropped is a key of no row its request does not rewrite (`Changing`).  Both fail as
  soon as requests have mixed, which is when the property excuses them.
* `LimitHolds` needs `LimitInv`: one request at a time holds the application row; the
  growth of the text it was granted still fits (`Reserved`), and everybody else
  writes no more bytes than were there (`Fits`); a commit then turns text into bytes,
  for which `MarginAssumption` is needed once.  What is used is the number of elements of
  a set of cells, so that sums need no induction: `WeightChange` gives the effect of
  changing one row.
* `ListedExactlyOnce` needs `ListInv`: the steady rows given so far are exactly those
  not after the cursor.  `AfterIs` shows `_keyset_predicate` to be a strict total order
  over values, NULL and ids (`PriorOrder`), `FitIs` that a page is everything up to
  its last row.  That a finite order has a last element (`LastExists`) comes from the
  library's theorem on subsets of a finite set, not from an induction here.

## 8. Object storage

`ObjectStorage.tla`: a slot is a (bucket, user, key), with at most one row in
PostgreSQL and one payload in S3, each known by its size.  `bucket` and `row` are
committed, `blob` is S3, which no rollback reaches; `bucketLock` and `rowLock` are
held from a flush to the end of the request.

| code | action |
|---|---|
| `create_bucket`, `update_bucket` | `CreateBucket`; `BeginUpdate`, `FlushUpdate`, `CommitUpdate` |
| `delete_bucket`: count, `_delete_s3_prefix`, rows, bucket | `BeginDeleteBucket`, `Count`, `Sweep`, `FlushRows`, `FlushDrop`, `CommitDeleteBucket` |
| `put_object`: `_lock_bucket`, size replaced, the sums of `_check_app_storage` and `_check_bucket_limit`, upsert, S3 | `BeginPut`, `LockBucket`, `ReadReplaced`, `CheckLimit` (three times), `Upsert`, `Store`, `CommitPut` |
| `delete_object` | `BeginDelete`, `Load`, `FlushDelete`, `Remove`, `CommitDelete` |
| `open_object` | `Download` |
| a rollback, a crash | `Abort`, from anywhere |

S3 may answer an error whether or not it did the work, and a batch deletion may
leave keys behind, whose `Errors` the code does not read.  Such accidents are
recorded per slot in `parted`, until an upload brings row and payload together again.

| run | instance | what it shows |
|---|---|---|
| `objects` | two slots of two users in one bucket, one slot in another; application limit 2, bucket or user limit 1; two requests, one of them on objects only | outside those accidents what is listed is what can be downloaded and nothing else is stored; an upload that was admitted leaves its bucket, user and application within the limits |

`QuotaKept` excuses two things the code allows: the size of the object replaced and
the three sums are separate statements, and a deletion that commits between them is
subtracted twice (`missed`); and the application's limit is checked under the lock of
one bucket (`late`).  Bounds: one accident at a time (`MaxParted`), since each is an
accident of one request; sizes 1 and 2 so that a replacement grows or shrinks.
Deadlock is not checked, because nothing is left to do once both buckets are deleted.

### Proofs

`ObjectStorageProofs` proves both properties for any number of requests, slots and
buckets, where every request may do everything: two deletions of one bucket at once,
for example, which the roles of the run leave out.  It assumes what
`ObjectStorageAssumption` says of the constants: finitely many slots, sizes and limits
that are numbers, null values apart from what they stand in for.

* `LockInv` is `Types`, which says what stage a request of each kind can be at and what
  it knows there, and `Locks`: who has flushed a row holds it (`HoldsBucket`,
  `HoldsRow`, `Deletes`), and a row that a deletion has loaded is still there as long
  as `found` says so.  Two requests never hold one row (`Exclusive`).
* `StoreAlwaysMatches` needs to say what S3 has while requests are under way.
  `StoreInv`: outside `parted`, the payload of a slot is what is `Due`, the upload or
  removal of the request that holds the row and is about to commit, else what the row
  says; and nothing is there once a deletion has swept the bucket.  The property is
  `StoreInv` where nobody holds the row and nothing was swept.
* `QuotaAlwaysKept` needs `QuotaInv`: the difference an upload has read is still the
  one its row makes, and each sum it has compared still fits when taken over the other
  slots (`Beside`) plus its own size, except for what `missed` and `late` record.
  Between the sums and the commit others may only shrink what lies beside, because the
  bucket is locked; the application as a whole is what `late` is about.
  A sum is the number of elements of a set of bytes, so that splitting one slot off
  (`SumSplit`) and comparing two sums slot by slot (`SumLess`) follow from the library's
  facts on cardinalities.

## 9. Six smaller protocols

`MCComponents.tla` instantiates six modules that share no state.  `part` is chosen in
the initial state and only the actions of that part are taken, so that the run is
the union of six state spaces, not their product.  It takes two concurrent requests,
or processes, of each, and one request of the last, whose adversaries are the events
around it.  Workers and browsers are interchangeable.  Deadlock is not checked,
because a part stops at its bounds (codes sent, times, flows).  The constants `AppOf`
(the application of a token) and `ProviderOf` (of a provider account) are functions
given by the configuration; `ComponentsAssumption` types the constants and
`NullsAssumption` sets null values apart from what they stand in for.

**`DashboardLogin`** (`dashboard/auth.py`): every action is one Redis command.

| code | action |
|---|---|
| `login`: cooldown, `_revoke_pending_codes`, `_store_admin_code` | `BeginLogin`, `RevokeCode`, `StoreCode` |
| `_consume_admin_code`: GET, then DEL or SET KEEPTTL | `BeginVerify`, then `BurnCode`, `AcceptCode` or `RejectCode` |
| `create_dashboard_session`, `logout` | `Enter`, `Logout` |
| expiry, loss of Redis, a crash | `CodeExpires`, `CooldownExpires`, `SessionExpires`, `Fail` |

`BurntWhenSpent`: a code opens one session, is compared with at most
`max_code_attempts` wrong guesses, and while stored is the newest, with the right
count and an expiry.  It is claimed of codes that no other command crossed between
the two commands of a guess (`contested`).

**`Domains`** (`dashboard/domains.py`): a request reads the row unlocked and writes
only its own columns later: `BeginInsert`, `BeginTransfer`, `BeginVerify`,
`BeginDelete`, the DNS answer `LookUp`, `WriteInsert`, `WriteRow`, `Commit`, `Abort`.
`VerifiedByHolder`: the application that holds a verified name is the one that
verified it, unless a transfer and a verification of the row overlapped (`crossed`).

**`Admission`** (`services/hashcash.py`, `services/bots.py`): `CreateChallenge`,
`TakeChallenge`, `CheckProof` for proofs of work; `BeginSignup`, `VerifyChallenge`,
`InsertBot`, `Commit`, `Abort` for bots.  `ProofAdmitsOnce`: a challenge admits one
sign-up.  `OneBotEach`: a confirmed donation pays for one bot over all applications,
by the unique index; a key names one bot of an application unless two sign-ups
presented it at once (`together`), since no index covers it.

**`Metering`** (`main.py`, `meter_account` of `services/billing.py`): the loops of
several processes, the lease in Redis and what a pass accrues.  `TakeLease`,
`SkipPass`, `MeterTenant` (reads the time), `Meter` (waits for the account), `Commit`,
`FailTenant`, `EndPass`, `Restart`; `Tick`, `LoseLease`, `UsageChanges`.
`OnePassAtATime`: two passes are under way only if one has outlasted its lease or
Redis lost it.  `ChargedOnce` holds even then: every unit of time between the first
metering and the last is charged once, unless an account was left for longer than the
31 days (`MaxElapsed`), and what is charged and what is accrued add up.  The code
stores the accrual rounded to six decimals; the model takes costs as whole parts of a
cent.  One tenant, since passes share nothing across tenants but their order; times
to 5 are two intervals and a lapse.

**`Accounts`** (`services/oauth.py`, `api/frontend/oauth.py`,
`api/backend/oauth_config.py`):

| code | action |
|---|---|
| configuration, read and written back whole | `BeginConfigure`, `BeginRemove`, `CommitConfigure` |
| `get_authorization_url`, `consume_state`, `handle_callback` | `Authorize`, `Callback`, `ProviderError`, `StateExpires` |
| `_find_or_create_user` | `Find`, `Match`, `CreateUser`, `Bind`, `Reread` |
| session and commit, any exception | `Enter`, `Abort` |
| the provider (external); sign-up, redeemed code, new password | `Grant`; `Register`, `VerifyEmail`, `SetPassword` |

`SameAccount`: a provider account enters one user, whatever addresses it asserts and
whichever callbacks overlap.  `NothingHalfMade`: a callback that loses the race takes
the user it created with it.  `FlowOnce`: a flow opens one session, in its own
browser, for the account granted to it.  `PasswordProved`: no provider account is
joined to a user registered with a password before the address was verified here.
Two flows, browsers, provider accounts and users with one address are two callbacks
that race for an account, for an address, or for one flow.

**`Access`** (`dependencies.py`, `admin_logout`): one action for each look-up:
`CheckSecret`, `CheckToken`, `CheckDenied`, `FindSite`, `CheckPaused`, `CheckSession`,
`CheckActive`, `Serve`; meanwhile `Issue`, `Revoke`, `Rotate`, `Drop`, `DeleteApp`,
`Pause`, `Resume`, `Tick`.  `AdmittedInForce`: whoever is served presented, for this
application and role, a credential nothing had withdrawn when the request arrived, and
whose application was not paused all along; during an outage of Redis nobody is
admitted as an administrator by a token.  `MaxEvents` bounds withdrawals to two, the
clock ends at 2 with tokens good for one second: an entry of the deny-list and the
token may then end in either order.  `OthersKept` keeps all events to the first of two
applications; the second is there for tokens shown to the wrong one.

### Proofs

`ComponentsProofs.tla` proves every property of the run, for the specification of its
protocol with any number of requests, processes, browsers, applications, tenants,
flows and times; `EachAsSpecified` shows that the composition implements the six, so
that all of it holds there too.  The inductive invariants, and what they add:

* `SpentIsBurnt` (`LoginInv`): a guess writes back what it read, so the property
  survives only because, until another command crosses it, the stored code is what
  the guess has read and no other guess is under way (`Alone`).
* `HolderVerified` (`HostInv`): a written row is still what the committed one becomes
  (`Written`), one request at a time has written (`OneWriter`), and what a request was
  let in on still holds unless it was crossed (`Uncrossed`).
* `AdmittedOnce` and `BotsDistinct` (`DoorInv`): a challenge that was taken is in the
  hands of one request; requests that have a bot to insert use different confirmed
  donations, and two that share a key are in `together`.
* `OneMetersAtATime` and `TimeChargedOnce` (`MeterInv`): only the last pass to take
  the lease has time left (`LeaseInv`); a row that is written charges what has passed
  since the last charge (`PassFine`), which needs the account's lock, not the lease.
  The lemmas on arithmetic say what carrying parts of a cent preserves.
* `SameUser`, `NoOrphans`, `FlowOpensOnce` and `JoinedAfterProof` (`AcctInv`): a flow
  belongs to one callback or one session (`FlowInv`); the row a callback has inserted
  is its own and ends with it (`MadeInv`), an inserted identity is the only one of its
  account (`BoundInv`), the user about to be entered may be (`TargetInv`).
* `ServedInForce` (`CallInv`): what is in force now was in force when the request
  arrived (`Arrived`), because nothing comes back into force: keys only get newer
  (`KeysInv`) and an entry of the deny-list outlives its token (`OutInv`).  `Staged`
  and `Through` say what each look-up has established.

Ghosts (`contested`, `crossed`, `together`, `lapsed`) excuse in the theorems what they
excuse in the run.  Nothing is assumed of them: the code's overlaps set them.

## 10. Where the code and its documentation part

Shown by a run: `json` (through the JSON routes codes can be guessed without end) and
`rehash` (a sign-in writes the old password's hash over a new one).  Seen while
modelling, and named where a property excuses them:

* sessions: a password change ends the session it was made in (`auth.py:487`, against
  `api/frontend/passwords.py:8-9` and `auth.py:480`), and the other facts of section 5.
* keys: the documented wait before a drop is too short for administrators' tokens
  (`DEPLOYMENT.md:317-318`, `admin_auth.py:165`); two overlapping rotations leave two
  active keys (`keys.py:122`).
* two sign-in requests at once leave two live codes (`auth.py:146`, against
  `tokens.py:10-12` and `tokens.py:84`).
* attempts are revoked under the address as typed while users are found under its lower case
  (`tokens.py:87`, `auth.py:376`).
* tables: the stored bytes may pass the limit by what the JSON text of a write is short
  of (`tables.py:608`, against `docs/configuration.html:136`); a rename or drop beside a
  row write (`tables.py:332`, against `tables.py:12-14`); a custom column called
  `created_at` or `updated_at`, with which the cursor of a listing carries the column's
  value while the sort uses the row's own (`tables.py:482`, `tables.py:730`).
* objects: uploads to two buckets both see the application's quota unspent, and a
  deletion between the statements is counted twice (against `objects.py:11-15`);
  `delete_bucket` empties S3 before the rows, against "Deletes run in the same order";
  a second deletion of an object removes the payload of a newer upload; the deletion of
  an application leaves its payloads (`dashboard/applications.py:172`).
* dashboard codes: guesses that overlap lose counts, or bring a used code back without
  an expiry (`dashboard/auth.py:210-232`, against lines 8-11).
* domains: a transfer and a verification that overlap leave a name verified for an
  application that did not verify it (against `dashboard/domains.py:7-12`).
* bots: two sign-ups at once register one key twice for an application.
* OAuth: an unverified local account without a password is linked
  (`oauth.py:438`), whereas `oauth.py:22-25` asks for a verified one; two
  configurations at once write each other's provider away (`oauth_config.py:52`).
* administrators: a log-out in the last second of a token may be forgotten within it
  (`admin_auth.py:193-198`); a paused tenant's administrator cannot log out.

## 11. Not modelled

* billing: account settings, the saved card, e-mails.
* sign-in: rate limits (each is one Redis transaction and only refuses more); a bot's
  signature, which stores nothing and may be repeated within its tolerance.
* clean-up of old attempts and audit entries, which touches what nothing reads
  any more; its loop and lease are those of metering.
* object listings, whose paging is that of `Tables`; table creation and column types.
* the exchange with an OAuth provider beyond the answer it may give.
* dashboard pages and the users API: writes of single rows without a protocol.
* what has no state of its own: rendering, schemas, redirects, cookies, CSRF tokens
  outside the dashboard's log-out, mail, audit, configuration, clients, SDKs, CLI, the
  static site and the migrations.
