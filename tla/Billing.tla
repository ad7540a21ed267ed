------------------------------- MODULE Billing -------------------------------
(***************************************************************************)
(* Prepaid billing: the account, its append-only ledger and the provider   *)
(* payments, written by concurrent database transactions (API requests,    *)
(* provider webhooks, dashboard actions, the hourly metering pass and the  *)
(* crypto poll).                                                           *)
(*                                                                         *)
(* A Worker is one session of services/billing.py: it reads, waits for the *)
(* row lock of an account (SELECT .. FOR UPDATE, populate_existing), works *)
(* on its own copy of the row, and publishes at commit.  Everything it     *)
(* flushed disappears when it aborts; what it did at a payment provider    *)
(* does not.                                                               *)
(*                                                                         *)
(* Cents are abstracted to small integers, provider references to the      *)
(* payment or card intent they identify, and the settings of an account    *)
(* (auto-reload enabled, card saved, 24 hours passed) to choices made when *)
(* they are read, since no balance change depends on their history.        *)
(***************************************************************************)
EXTENDS Integers, Sequences

CONSTANTS
    Tenant,         \* tenants, each with at most one billing account
    Worker,         \* database sessions that may run at the same time
    Payment,        \* top-up attempts a customer may start
    Intent,         \* off-session card charges Stripe may accept
    PaymentTenant,  \* the tenant a top-up is for
    PaymentRail,    \* "stripe", "paypal" or "crypto"
    PaymentCents,   \* its amount
    ReloadCents,    \* auto_reload_amount_cents
    ReloadBelow,    \* auto_reload_threshold_cents
    WelcomeCents,   \* settings.billing_welcome_credit_cents
    UsageCents,     \* whole cents one metering call may have accrued
    AdjustCents,    \* amounts a superadmin may add or remove
    Ops,            \* bound: the operations enabled in a run
    MaxLedger,      \* bound: usage and adjustments stop at this ledger length
    NoTenant, NoPayment, NoIntent, NoRef

Rails == {"stripe", "paypal", "crypto"}
OpNames == {"topup", "settle", "capture", "reload", "meter", "adjust", "poll"}

ASSUME AmountsAssumption ==
    /\ PaymentCents \in [Payment -> Nat]
    /\ {ReloadCents, WelcomeCents, MaxLedger} \subseteq Nat
    /\ ReloadBelow \in Int
    /\ UsageCents \subseteq Nat
    /\ AdjustCents \subseteq Int

ASSUME RoutingAssumption ==
    /\ PaymentTenant \in [Payment -> Tenant]
    /\ PaymentRail \in [Payment -> Rails]
    /\ Ops \subseteq OpNames

ASSUME NullsAssumption ==
    /\ NoTenant \notin Tenant
    /\ NoPayment \notin Payment
    /\ NoIntent \notin Intent
    /\ NoRef \notin Payment \union Intent
    /\ Payment \intersect Intent = {}

VARIABLES
    account,   \* committed billing_accounts row of each tenant
    ledger,    \* committed billing_transactions of each tenant, oldest first
    payment,   \* committed billing_payments.status of each top-up
    provider,  \* what the payment provider knows of each top-up
    intent,    \* tenant whose card Stripe charged under each intent
    pc,        \* where each worker's transaction is
    job,       \* what the transaction is about
    held,      \* account rows it has locked or inserted
    row,       \* its copy of the rows it holds
    new,       \* ledger entries it flushed
    status     \* payment statuses it flushed

db == <<account, ledger, payment>>
world == <<provider, intent>>
session == <<pc, job, held, row, new, status>>
vars == <<account, ledger, payment, provider, intent,
          pc, job, held, row, new, status>>

-----------------------------------------------------------------------------
(* Rows, entries and transactions.                                         *)

Ref == Payment \union Intent

\* reloadFailed: a card reload failed less than 24 hours ago.
Row == [exists: BOOLEAN, balance: Int, paused: BOOLEAN,
        metered: BOOLEAN, reloadFailed: BOOLEAN]

NoRow == [exists |-> FALSE, balance |-> 0, paused |-> FALSE,
          metered |-> FALSE, reloadFailed |-> FALSE]

Entry == [kind: {"grant", "topup", "charge", "adjustment"},
          cents: Int, after: Int, ref: Ref \union {NoRef}]

PaymentStatus == {"absent", "pending", "completed", "expired"}
ProviderStatus == {"none", "open", "approved", "paid", "expired"}

PCs == {"idle", "create", "wait", "work", "card", "next", "done"}

\* parent: holds the tenant row lock; born: inserted the account row;
\* base: rows held when the current savepoint began; todo: payments a poll
\* still has to look at.
Job == [op: OpNames \union {"none"}, tenant: Tenant \union {NoTenant},
        payment: Payment \union {NoPayment}, intent: Intent \union {NoIntent},
        parent: BOOLEAN, born: BOOLEAN, base: SUBSET Tenant,
        todo: SUBSET Payment]

NewJob(op, t, p, i, todo) ==
    [op |-> op, payment |-> p, intent |-> i, tenant |-> t,
     parent |-> FALSE, born |-> FALSE, base |-> {}, todo |-> todo]

NoJob == NewJob("none", NoTenant, NoPayment, NoIntent, {})

Refs(entries) == {entries[k].ref : k \in DOMAIN entries} \ {NoRef}

\* balance_after_cents of the newest entry.
Closing(entries) == IF entries = <<>> THEN 0 ELSE entries[Len(entries)].after

\* What worker w's transaction sees: committed rows and its own flushes.
SeenLedger(w, t) == ledger[t] \o new[w][t]
SeenStatus(w, p) == IF status[w][p] = "same" THEN payment[p] ELSE status[w][p]
SeenRef(w, r) == \E t \in Tenant : r \in Refs(SeenLedger(w, t))

Working(w, op) == pc[w] = "work" /\ job[w].op = op

-----------------------------------------------------------------------------
(* The two helpers every balance change goes through.                      *)

\* (fault) a credit that leaves the pause to the next metering pass.
CreditedStillPaused(r, cents) ==
    [exists |-> r.exists, balance |-> r.balance + cents, paused |-> r.paused,
     metered |-> r.metered, reloadFailed |-> FALSE]

\* credit: add, forget the reload failure, unpause at zero or above.
Credited(r, cents) ==
    [exists |-> r.exists, balance |-> r.balance + cents,
     paused |-> r.paused /\ r.balance + cents < 0,
     metered |-> r.metered, reloadFailed |-> FALSE]

Charged(r, cents) == [r EXCEPT !.balance = @ - cents]

\* Flush a changed row and the ledger entry that records the change.
Post(w, t, r, kind, cents, ref) ==
    /\ row' = [row EXCEPT ![w][t] = r]
    /\ new' = [new EXCEPT ![w][t] =
                  Append(@, [kind |-> kind, cents |-> cents,
                             after |-> r.balance, ref |-> ref])]

\* (fault) a credit whose entry carries a reference nobody looks up.
CreditAgain(w, t, cents, ref) ==
    Post(w, t, Credited(row[w][t], cents), "topup", cents, ref)

\* A provider reference that the ledger already carries is a no-op.
CreditOnce(w, t, cents, ref) ==
    IF SeenRef(w, ref)
      THEN UNCHANGED <<row, new>>
      ELSE Post(w, t, Credited(row[w][t], cents), "topup", cents, ref)

\* (fault) the attempt is closed elsewhere, after the credit is committed.
CompleteLater(w, p) ==
    /\ SeenStatus(w, p) # "completed"
    /\ CreditOnce(w, PaymentTenant[p], PaymentCents[p], p)
    /\ UNCHANGED status

\* complete: credit under the payment's reference, then close the attempt.
Complete(w, p) ==
    IF SeenStatus(w, p) = "completed"
      THEN UNCHANGED <<row, new, status>>
      ELSE /\ CreditOnce(w, PaymentTenant[p], PaymentCents[p], p)
           /\ status' = [status EXCEPT ![w][p] = "completed"]

\* The end of a unit of work: a poll goes on to its next payment.
Resume(w) == [pc EXCEPT ![w] = IF job[w].op = "poll" THEN "next" ELSE "done"]

-----------------------------------------------------------------------------
Init ==
    /\ account = [t \in Tenant |-> NoRow]
    /\ ledger = [t \in Tenant |-> <<>>]
    /\ payment = [p \in Payment |-> "absent"]
    /\ provider = [p \in Payment |-> "none"]
    /\ intent = [i \in Intent |-> NoTenant]
    /\ pc = [w \in Worker |-> "idle"]
    /\ job = [w \in Worker |-> NoJob]
    /\ held = [w \in Worker |-> {}]
    /\ row = [w \in Worker |-> [t \in Tenant |-> NoRow]]
    /\ new = [w \in Worker |-> [t \in Tenant |-> <<>>]]
    /\ status = [w \in Worker |-> [p \in Payment |-> "same"]]

(* Requests, webhooks and the metering pass: the part before the lock.     *)

Begin(w, j, next) ==
    /\ pc[w] = "idle"
    /\ j.op \in Ops
    /\ job' = [job EXCEPT ![w] = j]
    /\ pc' = [pc EXCEPT ![w] = next]
    /\ UNCHANGED <<db, world, held, row, new, status>>

\* get_or_create_account's unlocked read decides whether to create.
FindAccount(t, found) == IF account[t].exists THEN found ELSE "create"

\* Only the card rail locks the account before it creates the session.
TopupStart(p) == IF PaymentRail[p] = "stripe" THEN "wait" ELSE "work"

BeginTopup(w, p) ==
    /\ payment[p] = "absent"
    /\ provider[p] = "none"
    /\ Begin(w, NewJob("topup", PaymentTenant[p], p, NoIntent, {}),
             FindAccount(PaymentTenant[p], TopupStart(p)))

\* (fault) payment_status of the checkout event is not looked at.
BeginSettleUnpaid(w, p) ==
    /\ payment[p] # "absent"
    /\ Begin(w, NewJob("settle", PaymentTenant[p], p, NoIntent, {}), "wait")

\* A webhook for a known attempt: Stripe's checkout event and PayPal's capture
\* event exist only once the money is taken.  A crypto callback or status
\* check may come at any time.
BeginSettle(w, p) ==
    /\ payment[p] # "absent"
    /\ PaymentRail[p] # "crypto" => provider[p] = "paid"
    /\ Begin(w, NewJob("settle", PaymentTenant[p], p, NoIntent, {}), "wait")

\* paypal_return: the browser comes back from PayPal, if and when it does.
BeginReturn(w, p) ==
    /\ payment[p] # "absent"
    /\ PaymentRail[p] = "paypal"
    /\ Begin(w, NewJob("capture", PaymentTenant[p], p, NoIntent, {}), "wait")

\* payment_intent.succeeded carrying auto_reload metadata.
BeginReload(w, i) ==
    /\ intent[i] # NoTenant
    /\ Begin(w, NewJob("reload", intent[i], NoPayment, i, {}), "wait")

BeginMeter(w, t) ==
    Begin(w, NewJob("meter", t, NoPayment, NoIntent, {}),
          FindAccount(t, "wait"))

BeginAdjust(w, t) ==
    Begin(w, NewJob("adjust", t, NoPayment, NoIntent, {}),
          FindAccount(t, "wait"))

BeginPoll(w) ==
    LET pending == {p \in Payment : PaymentRail[p] = "crypto"
                                        /\ payment[p] = "pending"}
    IN  Begin(w, NewJob("poll", NoTenant, NoPayment, NoIntent, pending), "next")

\* (fault) the list is queried again after every payment.
PollNextAgain(w, p) ==
    /\ pc[w] = "next"
    /\ p \in job[w].todo
    /\ job' = [job EXCEPT ![w].payment = p, ![w].tenant = PaymentTenant[p]]
    /\ pc' = [pc EXCEPT ![w] = "wait"]
    /\ UNCHANGED <<db, world, held, row, new, status>>

\* The next pending payment of a poll, in whatever order the query gave.
PollNext(w, p) ==
    /\ pc[w] = "next"
    /\ p \in job[w].todo
    /\ job' = [job EXCEPT ![w].payment = p, ![w].tenant = PaymentTenant[p],
                          ![w].todo = @ \ {p}]
    /\ pc' = [pc EXCEPT ![w] = "wait"]
    /\ UNCHANGED <<db, world, held, row, new, status>>

PollEnd(w) ==
    /\ pc[w] = "next"
    /\ job[w].todo = {}
    /\ pc' = [pc EXCEPT ![w] = "done"]
    /\ UNCHANGED <<db, world, job, held, row, new, status>>

-----------------------------------------------------------------------------
(* Row locks.                                                              *)

TenantFree(w, t) ==
    \A v \in Worker \ {w} : ~(job[v].parent /\ job[v].tenant = t)

\* (fault) the account row is read without FOR UPDATE.
AccountUnlocked(w, t) == TRUE

AccountFree(w, t) == \A v \in Worker \ {w} : t \notin held[v]

\* Lock the tenant, look again, and create the account with its grant.
TakeTenant(w) ==
    LET t == job[w].tenant
        granted == [exists |-> TRUE, balance |-> WelcomeCents, paused |-> FALSE,
                    metered |-> FALSE, reloadFailed |-> FALSE]
    IN  /\ pc[w] = "create"
        /\ TenantFree(w, t)
        /\ IF account[t].exists
             THEN /\ job' = [job EXCEPT ![w].parent = TRUE]
                  /\ pc' = [pc EXCEPT ![w] =
                               IF job[w].op = "topup"
                                 THEN TopupStart(job[w].payment)
                                 ELSE "wait"]
                  /\ UNCHANGED <<held, row, new>>
             ELSE /\ job' = [job EXCEPT ![w].parent = TRUE, ![w].born = TRUE]
                  /\ pc' = [pc EXCEPT ![w] = "work"]
                  /\ held' = [held EXCEPT ![w] = @ \union {t}]
                  /\ Post(w, t, granted, "grant", WelcomeCents, NoRef)
        /\ UNCHANGED <<db, world, status>>

\* SELECT .. FOR UPDATE with populate_existing: wait, then read afresh.
LockAccount(w) ==
    LET t == job[w].tenant
    IN  /\ pc[w] = "wait"
        /\ AccountFree(w, t)
        /\ job' = [job EXCEPT ![w].base = held[w]]
        /\ held' = [held EXCEPT ![w] = @ \union {t}]
        /\ row' = [row EXCEPT ![w][t] = IF t \in held[w] THEN @ ELSE account[t]]
        /\ pc' = [pc EXCEPT ![w] = "work"]
        /\ UNCHANGED <<db, world, new, status>>

-----------------------------------------------------------------------------
(* Top-ups.                                                                *)

\* create_topup: the provider's session exists from here on, whatever
\* becomes of this transaction.
CreateTopup(w) ==
    LET p == job[w].payment
    IN  /\ Working(w, "topup")
        /\ provider[p] = "none"
        /\ provider' = [provider EXCEPT ![p] = "open"]
        /\ status' = [status EXCEPT ![w][p] = "pending"]
        /\ pc' = Resume(w)
        /\ UNCHANGED <<db, intent, job, held, row, new>>

\* stripe._handle_event, checkout.session.completed.
StripeSettle(w) ==
    LET p == job[w].payment
    IN  /\ Working(w, "settle")
        /\ PaymentRail[p] = "stripe"
        /\ Complete(w, p)
        /\ pc' = Resume(w)
        /\ UNCHANGED <<db, world, job, held>>

\* paypal.capture.  Capturing an approved order takes the money at once; a
\* lost answer, or an earlier capture, is recovered by reading the order
\* again.  An order that is not approved, or whose capture PayPal refuses,
\* stays as it is.
PaypalCapture(w) ==
    LET p == job[w].payment
    IN  /\ Working(w, "capture")
        /\ \/ /\ SeenStatus(w, p) = "completed" \/ provider[p] \in {"open", "approved"}
              /\ UNCHANGED <<provider, row, new, status>>
           \/ /\ SeenStatus(w, p) # "completed" /\ provider[p] \in {"approved", "paid"}
              /\ provider' = [provider EXCEPT ![p] = "paid"]
              /\ Complete(w, p)
        /\ pc' = Resume(w)
        /\ UNCHANGED <<db, intent, job, held>>

\* (fault) the capture event is left to the return that made the capture.
PaypalWebhookLeft(w) ==
    /\ Working(w, "settle")
    /\ PaymentRail[job[w].payment] = "paypal"
    /\ pc' = Resume(w)
    /\ UNCHANGED <<db, world, job, held, row, new, status>>

\* paypal._handle_webhook, PAYMENT.CAPTURE.COMPLETED: the capture, read again
\* from PayPal, completes the attempt.  It never captures.
PaypalWebhook(w) ==
    LET p == job[w].payment
    IN  /\ Working(w, "settle")
        /\ PaymentRail[p] = "paypal"
        /\ Complete(w, p)
        /\ pc' = Resume(w)
        /\ UNCHANGED <<db, world, job, held>>

\* crypto.confirm: ask the provider again under the lock.
CryptoConfirm(w) ==
    LET p == job[w].payment
    IN  /\ Working(w, "settle") \/ Working(w, "poll")
        /\ PaymentRail[p] = "crypto"
        /\ CASE SeenStatus(w, p) = "completed" -> UNCHANGED <<row, new, status>>
             [] OTHER ->
                CASE provider[p] = "paid" -> Complete(w, p)
                  [] provider[p] = "expired" ->
                       /\ status' = [status EXCEPT ![w][p] = "expired"]
                       /\ UNCHANGED <<row, new>>
                  [] OTHER -> UNCHANGED <<row, new, status>>
        /\ pc' = Resume(w)
        /\ UNCHANGED <<db, world, job, held>>

\* (fault) the status read before the lock decides.
CryptoExpireBlind(w) ==
    LET p == job[w].payment
    IN  /\ Working(w, "poll")
        /\ status' = [status EXCEPT ![w][p] = "expired"]
        /\ pc' = Resume(w)
        /\ UNCHANGED <<db, world, job, held, row, new>>

\* poll_pending: an attempt older than 48 hours expires without asking, if
\* it is still pending once its row is locked.
CryptoExpire(w) ==
    LET p == job[w].payment
    IN  /\ Working(w, "poll")
        /\ status' = IF SeenStatus(w, p) = "pending"
                       THEN [status EXCEPT ![w][p] = "expired"]
                       ELSE status
        /\ pc' = Resume(w)
        /\ UNCHANGED <<db, world, job, held, row, new>>

\* A PostgreSQL deadlock: every member of S waits for a row another holds.
Deadlocked(w) ==
    \E S \in SUBSET Worker :
        /\ w \in S
        /\ \A v \in S : /\ pc[v] = "wait"
                        /\ \E u \in S \ {v} : job[v].tenant \in held[u]

\* An error inside a poll's savepoint (the provider, or being the deadlock
\* victim) undoes that payment only, and the locks it took.
PollSkip(w) ==
    /\ job[w].op = "poll"
    /\ \/ pc[w] = "work" /\ held' = [held EXCEPT ![w] = job[w].base]
       \/ pc[w] = "wait" /\ Deadlocked(w) /\ UNCHANGED held
    /\ row' = [row EXCEPT ![w] = [t \in Tenant |->
                  IF t \in held'[w] THEN row[w][t] ELSE NoRow]]
    /\ pc' = [pc EXCEPT ![w] = "next"]
    /\ UNCHANGED <<db, world, job, new, status>>

-----------------------------------------------------------------------------
(* Card reloads, usage and adjustments.                                    *)

\* (fault) the event is ignored while the reload is marked as failed.
ReloadWebhookUnlessFailed(w) ==
    LET i == job[w].intent
        t == job[w].tenant
    IN  /\ Working(w, "reload")
        /\ IF row[w][t].reloadFailed
             THEN UNCHANGED <<row, new>>
             ELSE CreditOnce(w, t, ReloadCents, i)
        /\ pc' = Resume(w)
        /\ UNCHANGED <<db, world, job, held, status>>

\* stripe._handle_event, payment_intent.succeeded.
ReloadWebhook(w) ==
    LET i == job[w].intent
    IN  /\ Working(w, "reload")
        /\ CreditOnce(w, job[w].tenant, ReloadCents, i)
        /\ pc' = Resume(w)
        /\ UNCHANGED <<db, world, job, held, status>>

\* adjust: a signed superadmin correction, by credit or by charge.
Adjust(w) ==
    LET t == job[w].tenant
    IN  /\ Working(w, "adjust")
        /\ Len(SeenLedger(w, t)) < MaxLedger
        /\ \E n \in AdjustCents \ {0} :
              Post(w, t, IF n > 0 THEN Credited(row[w][t], n)
                                  ELSE Charged(row[w][t], -n),
                   "adjustment", n, NoRef)
        /\ pc' = Resume(w)
        /\ UNCHANGED <<db, world, job, held, status>>

\* meter_account's first call only starts the clock.
MeterFirst(w) ==
    LET t == job[w].tenant
    IN  /\ Working(w, "meter")
        /\ ~row[w][t].metered
        /\ row' = [row EXCEPT ![w][t].metered = TRUE]
        /\ pc' = Resume(w)
        /\ UNCHANGED <<db, world, job, held, new, status>>

\* Charge whole accrued cents, then decide about the saved card.
MeterUsage(w) ==
    LET t == job[w].tenant
    IN  /\ Working(w, "meter")
        /\ row[w][t].metered
        /\ \E n \in UsageCents :
              \/ n = 0 /\ UNCHANGED <<row, new>>
              \/ /\ n > 0
                 /\ Len(SeenLedger(w, t)) < MaxLedger
                 /\ Post(w, t, Charged(row[w][t], n), "charge", -n, NoRef)
        /\ pc' = [pc EXCEPT ![w] = "card"]
        /\ UNCHANGED <<db, world, job, held, status>>

\* The end of meter_account: a negative balance pauses the account.
Settled(r) == [r EXCEPT !.paused = @ \/ r.balance < 0]

\* (fault) the pause is only considered after a reload.
MeterNoReloadNoPause(w) ==
    /\ pc[w] = "card"
    /\ pc' = Resume(w)
    /\ UNCHANGED <<db, world, job, held, row, new, status>>

\* No reload is due: auto-reload disabled or no card saved (settings the
\* model does not keep), enough balance, or a failure in the last 24 hours.
MeterNoReload(w) ==
    LET t == job[w].tenant
    IN  /\ pc[w] = "card"
        /\ row' = [row EXCEPT ![w][t] = Settled(@)]
        /\ pc' = Resume(w)
        /\ UNCHANGED <<db, world, job, held, new, status>>

ReloadDue(r) == r.balance < ReloadBelow /\ ~r.reloadFailed

\* (fault) a successful reload is taken to end the debt.
MeterReloadUnsettled(w) ==
    LET t == job[w].tenant
    IN  /\ pc[w] = "card"
        /\ ReloadDue(row[w][t])
        /\ \E i \in Intent :
              /\ intent[i] = NoTenant
              /\ intent' = [intent EXCEPT ![i] = t]
              /\ Post(w, t, Credited(row[w][t], ReloadCents),
                      "topup", ReloadCents, i)
        /\ pc' = Resume(w)
        /\ UNCHANGED <<db, provider, job, held, status>>

\* charge_saved_card succeeds and its answer arrives: credit the intent.
MeterReload(w) ==
    LET t == job[w].tenant
    IN  /\ pc[w] = "card"
        /\ ReloadDue(row[w][t])
        /\ \E i \in Intent :
              /\ intent[i] = NoTenant
              /\ intent' = [intent EXCEPT ![i] = t]
              /\ Post(w, t, Settled(Credited(row[w][t], ReloadCents)),
                      "topup", ReloadCents, i)
        /\ pc' = Resume(w)
        /\ UNCHANGED <<db, provider, job, held, status>>

\* The charge fails, or succeeds at Stripe and its answer is lost: either way
\* the failure is recorded and no credit is written here.
MeterReloadFails(w) ==
    LET t == job[w].tenant
    IN  /\ pc[w] = "card"
        /\ ReloadDue(row[w][t])
        /\ \/ UNCHANGED intent
           \/ \E i \in Intent :
                 /\ intent[i] = NoTenant
                 /\ intent' = [intent EXCEPT ![i] = t]
        /\ row' = [row EXCEPT ![w][t] =
                      Settled([@ EXCEPT !.reloadFailed = TRUE])]
        /\ pc' = Resume(w)
        /\ UNCHANGED <<db, provider, job, held, new, status>>

-----------------------------------------------------------------------------
(* The end of a transaction.                                               *)

EndSession(w) ==
    /\ pc' = [pc EXCEPT ![w] = "idle"]
    /\ job' = [job EXCEPT ![w] = NoJob]
    /\ held' = [held EXCEPT ![w] = {}]
    /\ row' = [row EXCEPT ![w] = [t \in Tenant |-> NoRow]]
    /\ new' = [new EXCEPT ![w] = [t \in Tenant |-> <<>>]]
    /\ status' = [status EXCEPT ![w] = [p \in Payment |-> "same"]]

\* The unique constraint on tenant_id refuses a second account.
Commit(w) ==
    /\ pc[w] = "done"
    /\ ~(job[w].born /\ account[job[w].tenant].exists)
    /\ account' = [t \in Tenant |->
                      IF t \in held[w] THEN row[w][t] ELSE account[t]]
    /\ ledger' = [t \in Tenant |-> SeenLedger(w, t)]
    /\ payment' = [p \in Payment |-> SeenStatus(w, p)]
    /\ EndSession(w)
    /\ UNCHANGED world

\* Any exception, lost connection or crash before the commit.
Abort(w) ==
    /\ pc[w] # "idle"
    /\ EndSession(w)
    /\ UNCHANGED <<db, world>>

(* The world outside.                                                      *)

CustomerPays(p) ==
    /\ provider[p] = "open"
    /\ provider' = [provider EXCEPT ![p] =
                       IF PaymentRail[p] = "paypal" THEN "approved" ELSE "paid"]
    /\ UNCHANGED <<db, intent, session>>

CryptoLapses(p) ==
    /\ PaymentRail[p] = "crypto"
    /\ provider[p] = "open"
    /\ provider' = [provider EXCEPT ![p] = "expired"]
    /\ UNCHANGED <<db, intent, session>>

-----------------------------------------------------------------------------
Start(w) ==
    \/ \E p \in Payment : BeginTopup(w, p) \/ BeginSettle(w, p) \/ BeginReturn(w, p)
    \/ \E i \in Intent : BeginReload(w, i)
    \/ \E t \in Tenant : BeginMeter(w, t) \/ BeginAdjust(w, t)
    \/ BeginPoll(w)

Advance(w) ==
    \/ TakeTenant(w) \/ LockAccount(w)
    \/ \E p \in Payment : PollNext(w, p)
    \/ PollEnd(w) \/ PollSkip(w)
    \/ CreateTopup(w) \/ StripeSettle(w) \/ PaypalCapture(w) \/ PaypalWebhook(w)
    \/ CryptoConfirm(w) \/ CryptoExpire(w)
    \/ ReloadWebhook(w) \/ Adjust(w)
    \/ MeterFirst(w) \/ MeterUsage(w)
    \/ MeterNoReload(w) \/ MeterReload(w) \/ MeterReloadFails(w)

\* 24 hours after a failed reload (no transaction stays open that long).
DayPasses(t) ==
    /\ account[t].reloadFailed
    /\ \A w \in Worker : t \notin held[w]
    /\ account' = [account EXCEPT ![t].reloadFailed = FALSE]
    /\ UNCHANGED <<ledger, payment, world, session>>

Outside ==
    \/ \E p \in Payment : CustomerPays(p) \/ CryptoLapses(p)
    \/ \E t \in Tenant : DayPasses(t)

Next ==
    \/ \E w \in Worker : Start(w) \/ Advance(w) \/ Commit(w) \/ Abort(w)
    \/ Outside

Spec == Init /\ [][Next]_vars

-----------------------------------------------------------------------------
(* Safety.                                                                 *)

\* Every variable has its type, and only rows a worker holds differ from the
\* blank copy.
TypeOK ==
    /\ account \in [Tenant -> Row]
    /\ ledger \in [Tenant -> Seq(Entry)]
    /\ payment \in [Payment -> PaymentStatus]
    /\ provider \in [Payment -> ProviderStatus]
    /\ intent \in [Intent -> Tenant \union {NoTenant}]
    /\ pc \in [Worker -> PCs]
    /\ job \in [Worker -> Job]
    /\ held \in [Worker -> SUBSET Tenant]
    /\ row \in [Worker -> [Tenant -> Row]]
    /\ new \in [Worker -> [Tenant -> Seq(Entry)]]
    /\ status \in [Worker -> [Payment -> PaymentStatus \union {"same"}]]

Chained(entries) ==
    \A k \in 1..Len(entries) :
        entries[k].after =
            entries[k].cents + (IF k = 1 THEN 0 ELSE entries[k - 1].after)

\* Every ledger entry's balance_after is the previous one plus its amount,
\* and the account's balance is the last of them: no concurrent charge,
\* credit or grant is ever lost (credit, charge and _lock_account).
BooksBalance ==
    \A t \in Tenant :
        /\ Chained(ledger[t])
        /\ account[t].balance = Closing(ledger[t])

\* A provider reference is credited at most once, over all ledgers, however
\* many webhooks, returns, polls and reloads report it (credit's precheck).
CreditedOnce ==
    \A s, t \in Tenant : \A j \in DOMAIN ledger[s], k \in DOMAIN ledger[t] :
        ledger[s][j].ref = ledger[t][k].ref /\ ledger[s][j].ref # NoRef
            => s = t /\ j = k

\* A top-up entry stands for money the provider really took for that tenant,
\* in that amount (the verification in each rail's handler).
CreditsAreBacked ==
    \A t \in Tenant : \A k \in DOMAIN ledger[t] :
        LET e == ledger[t][k]
        IN  /\ e.ref \in Payment =>
                  /\ PaymentTenant[e.ref] = t
                  /\ PaymentCents[e.ref] = e.cents
                  /\ provider[e.ref] = "paid"
            /\ e.ref \in Intent => intent[e.ref] = t
            /\ e.kind = "topup" => e.ref # NoRef

\* An attempt is completed exactly when its tenant's ledger holds its credit:
\* no crash separates the two (complete).
CompletedIffCredited ==
    \A p \in Payment :
        payment[p] = "completed" <=> p \in Refs(ledger[PaymentTenant[p]])

\* Service is suspended only while the balance is negative; whatever brings
\* it back to zero also lifts the pause in the same commit (credit).
PausedOnlyInDebt ==
    \A t \in Tenant : account[t].paused => account[t].balance < 0

\* A completed attempt never becomes anything else, not even when a poll
\* decided from an old read that it had expired (poll_pending).
CompletedIsFinal ==
    [][\A p \in Payment : payment[p] = "completed" => payment'[p] = "completed"]_vars

\* What the row locks guarantee between a read and the commit that follows it,
\* in named parts: it strengthens BooksBalance and PausedOnlyInDebt so that
\* every step preserves it.
Exclusive == \A v, w \in Worker : v # w => held[v] \intersect held[w] = {}

HeldFine(w) ==
    \A t \in Tenant :
        /\ t \in held[w] =>
              /\ row[w][t].exists
              /\ account[t].exists \/ (job[w].born /\ job[w].tenant = t)
              /\ Chained(SeenLedger(w, t))
              /\ row[w][t].balance = Closing(SeenLedger(w, t))
              /\ row[w][t].paused => row[w][t].balance < 0
        /\ t \notin held[w] => new[w][t] = <<>>

StageFine(w) ==
    LET t == job[w].tenant
    IN  /\ pc[w] \in {"idle", "create"} => held[w] = {}
        /\ job[w].born => /\ job[w].parent
                          /\ t \in held[w]
                          /\ job[w].op # "poll"
                          /\ ~account[t].exists
        /\ pc[w] = "wait" => account[t].exists
        /\ pc[w] = "work" => account[t].exists \/ t \in held[w]
        /\ pc[w] \in {"work", "card"} /\ job[w].op # "topup" => t \in held[w]
        /\ pc[w] = "work" /\ t \in held[w] /\ row[w][t].metered
              => account[t].exists
        /\ pc[w] = "card" => account[t].exists
        /\ pc[w] = "work" /\ job[w].op = "poll" =>
              /\ job[w].base \subseteq held[w]
              /\ \A u \in held[w] \ job[w].base : new[w][u] = <<>>
        /\ \A p \in job[w].todo : payment[p] # "absent"

FlushFine(w) ==
    \A p \in Payment : status[w][p] # "same" =>
        /\ status[w][p] # "absent"
        /\ account[PaymentTenant[p]].exists \/ PaymentTenant[p] \in held[w]

KnownAccounts ==
    /\ \A p \in Payment : payment[p] # "absent" => account[PaymentTenant[p]].exists
    /\ \A i \in Intent : intent[i] # NoTenant => account[intent[i]].exists
    /\ \A t \in Tenant : ~account[t].exists => ledger[t] = <<>>

\* Under the row locks each session's copy continues the committed ledger.
LockInv ==
    /\ BooksBalance
    /\ PausedOnlyInDebt
    /\ Exclusive
    /\ KnownAccounts
    /\ \A w \in Worker : HeldFine(w) /\ StageFine(w) /\ FlushFine(w)

\* When a metering transaction after the first commits, the account is paused
\* exactly if it is in debt, reload included (meter_account's tail).
MeterSettlesPause ==
    [][\A w \in Worker :
         (/\ pc[w] = "done" /\ pc'[w] = "idle"
          /\ job[w].op = "meter"
          /\ account[job[w].tenant].metered
          /\ account' # account)
         => (account'[job[w].tenant].paused
                <=> account'[job[w].tenant].balance < 0)]_vars

-----------------------------------------------------------------------------
(* Liveness.  A session that is not stuck behind a row lock keeps running  *)
(* and lock waits are granted in turn; Stripe and PayPal repeat an event   *)
(* until it is acknowledged and the metering loop calls every tenant       *)
(* again.  Nobody repeats a browser's return or a status check.            *)

Running ==
    \A w \in Worker : /\ WF_vars(Advance(w) \/ Commit(w))
                      /\ SF_vars(TakeTenant(w) \/ LockAccount(w))

\* The attempts whose provider tells the server itself that it was paid.
Webhooked == {p \in Payment : PaymentRail[p] # "crypto"}

Redelivery ==
    /\ \A p \in Webhooked : SF_vars(\E w \in Worker : BeginSettle(w, p))
    /\ \A i \in Intent : SF_vars(\E w \in Worker : BeginReload(w, i))
    /\ \A t \in Tenant : SF_vars(\E w \in Worker : BeginMeter(w, t))

RunningSpec == Spec /\ Running
FairSpec == RunningSpec /\ Redelivery

\* Aborts that undo something do not go on for ever (the end of a session
\* that changed nothing may be either).
Calm == <>[][\A w \in Worker : Abort(w) => Commit(w)]_vars

\* Money Stripe or PayPal took for a recorded attempt is credited in the end,
\* even if the answer to the capture, the browser's return and the first
\* transactions were lost (handle_webhook).  An order that is only approved
\* is not money taken: no one but the browser captures it.
PaidIsCredited ==
    Calm => \A p \in Webhooked :
        (provider[p] = "paid" /\ payment[p] # "absent")
            ~> (payment[p] = "completed")

\* A card charge Stripe accepted reaches the ledger, although the transaction
\* that asked for it recorded a failure or never committed (_handle_event).
ReloadIsCredited ==
    Calm => \A i \in Intent :
        (intent[i] # NoTenant)
            ~> (\E t \in Tenant : i \in Refs(ledger[t]))

\* Debt is noticed: the account is paused or paid up again (meter_account).
DebtIsPaused ==
    Calm => \A t \in Tenant :
        (account[t].balance < 0) ~> (account[t].paused \/ account[t].balance >= 0)

\* Every poll comes to an end, also when two of them lock the same accounts
\* in opposite orders (poll_pending's savepoints).
PollEnds == Calm => \A w \in Worker : (job[w].op = "poll") ~> (pc[w] = "idle")

=============================================================================
