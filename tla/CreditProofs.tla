---------------------------- MODULE CreditProofs ----------------------------
(***************************************************************************)
(* What the row locks of Billing are worth to the money: a reference is    *)
(* credited once, for money the provider took, exactly when its attempt is *)
(* completed, and a metering pass leaves the account paused exactly when   *)
(* it is in debt, for any number of sessions, tenants and payments.        *)
(***************************************************************************)
EXTENDS BillingProofs

\* An entry stands for money of its tenant.
Backed(e, t) ==
    /\ e.ref \in Payment => /\ PaymentTenant[e.ref] = t
                            /\ PaymentCents[e.ref] = e.cents
                            /\ provider[e.ref] = "paid"
    /\ e.ref \in Intent => intent[e.ref] = t
    /\ e.kind = "topup" => e.ref # NoRef

AllBacked ==
    \A t \in Tenant :
       /\ \A k \in DOMAIN ledger[t] : Backed(ledger[t][k], t)
       /\ \A w \in Worker : \A k \in DOMAIN new[w][t] : Backed(new[w][t][k], t)

\* No two entries carry one reference.
Once(entries) ==
    \A j, k \in DOMAIN entries :
        entries[j].ref = entries[k].ref /\ entries[j].ref # NoRef => j = k

AllOnce ==
    \A t \in Tenant : Once(ledger[t]) /\ \A w \in Worker : Once(SeenLedger(w, t))

\* What each session sees of an attempt agrees with what it sees of its ledger.
Agrees(w, p) ==
    SeenStatus(w, p) = "completed" <=> p \in Refs(SeenLedger(w, PaymentTenant[p]))

InStep ==
    \A p \in Payment :
       /\ payment[p] = "completed" <=> p \in Refs(ledger[PaymentTenant[p]])
       /\ \A w \in Worker : Agrees(w, p)

\* Before its lock a session knows an attempt the provider has, or a charge of
\* the tenant's card.
Verified(w) ==
    pc[w] \in {"wait", "work"} =>
       /\ job[w].op \in {"settle", "capture", "poll"} => payment[job[w].payment] # "absent"
       /\ job[w].op = "settle" /\ PaymentRail[job[w].payment] # "crypto"
             => provider[job[w].payment] = "paid"
       /\ job[w].op = "reload" => intent[job[w].intent] = job[w].tenant

\* An attempt is recorded by the session that created it, and closed by one
\* that holds its account (in a poll, since before the current savepoint).
Closes(w, p) ==
    /\ status[w][p] = "pending" => payment[p] = "absent" /\ provider[p] # "none"
    /\ status[w][p] \in {"completed", "expired"} =>
          /\ payment[p] # "absent"
          /\ PaymentTenant[p] \in held[w]
          /\ pc[w] = "work" /\ job[w].op = "poll" => PaymentTenant[p] \in job[w].base

Attempts ==
    /\ \A p \in Payment : payment[p] # "absent" => provider[p] # "none"
    /\ \A w \in Worker : Verified(w) /\ \A p \in Payment : Closes(w, p)
    /\ \A v, w \in Worker : \A p \in Payment :
          status[v][p] = "pending" /\ status[w][p] = "pending" => v = w

CreditInv == AllBacked /\ AllOnce /\ InStep /\ Attempts

\* What every step's lemma assumes.
Ground == Typing /\ LockInv /\ CreditInv

-----------------------------------------------------------------------------
(* Ledgers.                                                                *)

LEMMA AppendRefs ==
  ASSUME NEW s \in Seq(Entry), NEW e \in Entry
  PROVE  /\ Refs(Append(s, e)) = Refs(s) \union ({e.ref} \ {NoRef})
         /\ Once(s) /\ (e.ref # NoRef => e.ref \notin Refs(s)) => Once(Append(s, e))
  <1> DEFINE u == Append(s, e)
             n == Len(s)
  <1>1. /\ n \in Nat /\ DOMAIN s = 1..n /\ DOMAIN u = 1..(n + 1)
        /\ u[n + 1] = e /\ \A k \in 1..n : u[k] = s[k]
    OBVIOUS
  <1> HIDE DEF u, n
  <1>2. \A k \in DOMAIN u : k = n + 1 \/ k \in DOMAIN s
    BY <1>1
  <1>3. DOMAIN s \subseteq DOMAIN u /\ n + 1 \in DOMAIN u
    BY <1>1
  <1>4. Refs(u) = Refs(s) \union ({e.ref} \ {NoRef})
    <2>1. ASSUME NEW r, r \in Refs(u) PROVE r \in Refs(s) \union ({e.ref} \ {NoRef})
      BY <1>1, <1>2, <2>1 DEF Refs
    <2>2. ASSUME NEW r, r \in Refs(s) \union ({e.ref} \ {NoRef}) PROVE r \in Refs(u)
      BY <1>1, <1>3, <2>2 DEF Refs
    <2> QED
      BY <2>1, <2>2
  <1>5. ASSUME Once(s), e.ref # NoRef => e.ref \notin Refs(s) PROVE Once(u)
    <2> SUFFICES ASSUME NEW j \in DOMAIN u, NEW k \in DOMAIN u,
                        u[j].ref = u[k].ref, u[j].ref # NoRef
                 PROVE  j = k
      BY DEF Once
    <2>1. ASSUME NEW i \in DOMAIN s, s[i].ref # NoRef PROVE s[i].ref \in Refs(s)
      BY <2>1 DEF Refs
    <2>2. CASE j \in DOMAIN s /\ k \in DOMAIN s
      BY <1>1, <1>5, <2>2 DEF Once
    <2>3. CASE j = n + 1 \/ k = n + 1
      BY <1>1, <1>2, <1>5, <2>1, <2>3
    <2> QED
      BY <1>2, <2>2, <2>3
  <1> QED
    BY <1>4, <1>5 DEF u

\* The provider does not take money back, and forgets nothing.
Later ==
    /\ \A p \in Payment : /\ provider[p] = "paid" => provider'[p] = "paid"
                          /\ provider[p] # "none" => provider'[p] # "none"
    /\ \A i \in Intent : intent[i] # NoTenant => intent'[i] = intent[i]

LEMMA NextLater == Typing /\ [Next]_vars => Later
  <1> SUFFICES ASSUME Typing, [Next]_vars PROVE Later
    OBVIOUS
  <1>1. ASSUME UNCHANGED world PROVE Later
    BY <1>1 DEF world, Later
  <1>2. ASSUME NEW w \in Worker, Start(w) PROVE UNCHANGED world
    BY <1>2 DEF Start, BeginTopup, BeginSettle, BeginReturn, BeginReload, BeginMeter, BeginAdjust,
                BeginPoll, Begin
  <1>3. ASSUME NEW w \in Worker,
               \/ TakeTenant(w) \/ LockAccount(w) \/ \E p \in Payment : PollNext(w, p)
               \/ PollEnd(w) \/ PollSkip(w) \/ StripeSettle(w) \/ PaypalWebhook(w)
               \/ CryptoConfirm(w) \/ CryptoExpire(w) \/ ReloadWebhook(w) \/ Adjust(w)
               \/ MeterFirst(w) \/ MeterUsage(w) \/ MeterNoReload(w) \/ Commit(w) \/ Abort(w)
        PROVE  UNCHANGED world
    BY <1>3 DEF TakeTenant, LockAccount, PollNext, PollEnd, PollSkip, StripeSettle, PaypalWebhook,
                CryptoConfirm, CryptoExpire, ReloadWebhook, Adjust, MeterFirst, MeterUsage,
                MeterNoReload, Commit, Abort
  <1>4. ASSUME NEW w \in Worker, CreateTopup(w) \/ PaypalCapture(w) PROVE Later
    <2>1. UNCHANGED intent
      BY <1>4 DEF CreateTopup, PaypalCapture
    <2>2. \A p \in Payment : \/ provider'[p] = provider[p]
                             \/ provider'[p] = "paid"
                             \/ provider[p] = "none" /\ provider'[p] = "open"
      BY <1>4 DEF CreateTopup, PaypalCapture, Typing, TypeOK
    <2> QED
      BY <2>1, <2>2 DEF Later
  <1>5. ASSUME NEW w \in Worker, MeterReload(w) \/ MeterReloadFails(w) PROVE Later
    BY <1>5 DEF MeterReload, MeterReloadFails, Later, Typing, TypeOK
  <1>6. ASSUME NEW p \in Payment, CustomerPays(p) \/ CryptoLapses(p) PROVE Later
    BY <1>6 DEF CustomerPays, CryptoLapses, Later, Typing, TypeOK
  <1>7. ASSUME NEW t \in Tenant, DayPasses(t) PROVE UNCHANGED world
    BY <1>7 DEF DayPasses
  <1>8. CASE UNCHANGED vars
    BY <1>1, <1>8 DEF vars, world
  <1> QED
    BY <1>1, <1>2, <1>3, <1>4, <1>5, <1>6, <1>7, <1>8 DEF Next, Advance, Outside

LEMMA StaysBacked ==
  ASSUME NEW e, NEW t \in Tenant, Backed(e, t), Later
  PROVE  Backed(e, t)'
  BY NullsAssumption DEF Backed, Later

\* A session adds the entry e to the ledger of t.
LEMMA AppendCredits ==
  ASSUME Typing, AllBacked, AllOnce, Later, UNCHANGED ledger, NEW w \in Worker,
         NEW t \in Tenant, NEW e \in Entry,
         new' = [new EXCEPT ![w][t] = Append(@, e)],
         Backed(e, t)', e.ref # NoRef => e.ref \notin Refs(SeenLedger(w, t))
  PROVE  /\ AllBacked' /\ AllOnce'
         /\ Refs(SeenLedger(w, t))' = Refs(SeenLedger(w, t)) \union ({e.ref} \ {NoRef})
         /\ \A v \in Worker : \A u \in Tenant :
               v # w \/ u # t => SeenLedger(v, u)' = SeenLedger(v, u)
  <1> DEFINE old == new[w][t]
  <1>1. /\ new'[w][t] = Append(old, e)
        /\ \A v \in Worker : \A u \in Tenant : v # w \/ u # t => new'[v][u] = new[v][u]
        /\ old \in Seq(Entry) /\ ledger[t] \in Seq(Entry)
    BY DEF Typing, TypeOK
  <1> HIDE DEF old
  <1>2. SeenLedger(w, t)' = Append(SeenLedger(w, t), e) /\ SeenLedger(w, t) \in Seq(Entry)
    <2>1. ledger[t] \o Append(old, e) = Append(ledger[t] \o old, e)
      BY <1>1, ConcatAppend
    <2>2. ledger[t] \o old \in Seq(Entry)
      BY <1>1
    <2> QED
      BY <1>1, <2>1, <2>2 DEF SeenLedger, old
  <1>3. Refs(SeenLedger(w, t))' = Refs(SeenLedger(w, t)) \union ({e.ref} \ {NoRef})
    <2>1. Refs(SeenLedger(w, t))' = Refs(Append(SeenLedger(w, t), e))
      BY <1>2 DEF Refs
    <2> QED
      BY <1>2, <2>1, AppendRefs
  <1>4. \A v \in Worker : \A u \in Tenant :
           v # w \/ u # t => SeenLedger(v, u)' = SeenLedger(v, u)
    BY <1>1 DEF SeenLedger
  <1>5. AllBacked'
    <2>1. ASSUME NEW u \in Tenant, NEW k \in DOMAIN ledger[u] PROVE Backed(ledger[u][k], u)'
      BY StaysBacked DEF AllBacked
    <2>2. ASSUME NEW v \in Worker, NEW u \in Tenant, v # w \/ u # t,
                 NEW k \in DOMAIN new[v][u]
          PROVE  Backed(new[v][u][k], u)'
      BY <1>1, <2>2, StaysBacked DEF AllBacked
    <2>3. ASSUME NEW k \in DOMAIN Append(old, e), NEW x, x = Append(old, e)[k]
          PROVE  Backed(x, t)'
      <3>1. x = e \/ (k \in DOMAIN old /\ x = old[k])
        <4>1. DOMAIN old = 1..Len(old) /\ Len(old) \in Nat
          BY <1>1
        <4>2. DOMAIN Append(old, e) = 1..(Len(old) + 1)
          BY <1>1, <4>1
        <4>3. \/ k = Len(old) + 1 /\ Append(old, e)[k] = e
              \/ k \in 1..Len(old) /\ Append(old, e)[k] = old[k]
          BY <1>1, <4>1, <4>2
        <4> QED
          BY <2>3, <4>1, <4>3
      <3>2. CASE k \in DOMAIN old /\ x = old[k]
        <4>1. Backed(x, t)
          BY <3>2 DEF AllBacked, old
        <4> QED
          BY <4>1, StaysBacked
      <3> QED
        BY <3>1, <3>2
    <2>4. ASSUME NEW k \in DOMAIN new'[w][t] PROVE Backed(new[w][t][k], t)'
      <3>1. \A x : x = new'[w][t][k] => Backed(x, t)'
        BY <1>1, <2>3
      <3> QED
        BY <3>1 DEF Backed
    <2> QED
      BY <2>1, <2>2, <2>4, <1>1 DEF AllBacked
  <1>6. AllOnce'
    <2>1. Once(SeenLedger(w, t))'
      <3>1. Once(Append(SeenLedger(w, t), e))
        BY <1>2, AppendRefs DEF AllOnce
      <3> QED
        BY <1>2, <3>1 DEF Once
    <2>2. ASSUME NEW v \in Worker, NEW u \in Tenant, v # w \/ u # t
          PROVE  Once(SeenLedger(v, u))'
      BY <1>4, <2>2 DEF AllOnce, Once
    <2> QED
      BY <2>1, <2>2 DEF AllOnce, Once
  <1> QED
    BY <1>3, <1>4, <1>5, <1>6

LEMMA SameCredits ==
  ASSUME AllBacked, AllOnce, Later, UNCHANGED <<ledger, new>>
  PROVE  AllBacked' /\ AllOnce'
  <1>1. AllBacked'
    BY StaysBacked DEF AllBacked
  <1>2. AllOnce'
    BY DEF AllOnce, Once, SeenLedger
  <1> QED
    BY <1>1, <1>2

\* Only the ledger of its own tenant can carry a payment, and no ledger an
\* intent that was never charged.
LEMMA RefsBacked ==
  ASSUME Typing, AllBacked, NEW w \in Worker, NEW t \in Tenant
  PROVE  /\ \A p \in Payment : p \in Refs(SeenLedger(w, t)) => PaymentTenant[p] = t
         /\ \A i \in Intent : intent[i] = NoTenant => i \notin Refs(SeenLedger(w, t))
  <1> DEFINE s == ledger[t]
             u == new[w][t]
  <1>1. s \in Seq(Entry) /\ u \in Seq(Entry)
    BY DEF Typing, TypeOK
  <1>2. ASSUME NEW k \in DOMAIN (s \o u)
        PROVE  Backed((s \o u)[k], t)
    <2>1. \/ k \in DOMAIN s /\ (s \o u)[k] = s[k]
          \/ k - Len(s) \in DOMAIN u /\ (s \o u)[k] = u[k - Len(s)]
      <3>1. /\ DOMAIN s = 1..Len(s) /\ DOMAIN u = 1..Len(u)
            /\ Len(s) \in Nat /\ Len(u) \in Nat
            /\ DOMAIN (s \o u) = 1..(Len(s) + Len(u))
        BY <1>1
      <3>2. (s \o u)[k] = IF k <= Len(s) THEN s[k] ELSE u[k - Len(s)]
        BY <1>1, <3>1
      <3> HIDE DEF s, u
      <3> QED
        BY <3>1, <3>2
    <2> QED
      BY <2>1 DEF AllBacked
  <1> DEFINE z == s \o u
  <1>3. SeenLedger(w, t) = z
    BY DEF SeenLedger
  <1>4. \A k \in DOMAIN z : Backed(z[k], t)
    BY <1>2
  <1> HIDE DEF z
  <1>5. ASSUME NEW r \in Refs(z) PROVE \E k \in DOMAIN z : z[k].ref = r
    BY DEF Refs
  <1> QED
    BY <1>3, <1>4, <1>5, NullsAssumption DEF Backed

-----------------------------------------------------------------------------
(* Entries and attempts together.                                          *)

\* What a step of one session has to show about the attempts.
LEMMA OneSessionAttempts ==
  ASSUME Typing, Attempts, Later, NEW w \in Worker, UNCHANGED payment,
         \A v \in Worker \ {w} :
            pc'[v] = pc[v] /\ job'[v] = job[v] /\ held'[v] = held[v] /\ status'[v] = status[v],
         Verified(w)', \A p \in Payment : Closes(w, p)',
         \A p \in Payment : \/ status'[w][p] = status[w][p]
                            \/ status'[w][p] # "pending"
                            \/ \A v \in Worker : status[v][p] # "pending"
  PROVE  Attempts'
  <1>1. \A p \in Payment : payment'[p] # "absent" => provider'[p] # "none"
    BY DEF Attempts, Later
  <1>2. ASSUME NEW v \in Worker, v # w PROVE Verified(v)' /\ \A p \in Payment : Closes(v, p)'
    <2>1. Verified(v) /\ \A p \in Payment : Closes(v, p)
      BY DEF Attempts
    <2>2. pc'[v] = pc[v] /\ job'[v] = job[v] /\ held'[v] = held[v] /\ status'[v] = status[v]
      BY <1>2
    <2>3. /\ pc[v] \in {"wait", "work"} => job[v].tenant \in Tenant
          /\ pc[v] \in {"wait", "work"} /\ job[v].op = "reload" => job[v].intent \in Intent
          /\ pc[v] \in {"wait", "work"} /\ job[v].op = "settle" => job[v].payment \in Payment
      BY DEF Typing, JobOK, JobFine
    <2>4. Verified(v)'
      BY <2>1, <2>2, <2>3, NullsAssumption DEF Verified, Later
    <2>5. \A p \in Payment : Closes(v, p)'
      BY <2>1, <2>2 DEF Closes, Later
    <2> QED
      BY <2>4, <2>5
  <1>3. \A u, v \in Worker : \A p \in Payment :
           status'[u][p] = "pending" /\ status'[v][p] = "pending" => u = v
    <2> SUFFICES ASSUME NEW u \in Worker, NEW v \in Worker, NEW p \in Payment,
                        status'[u][p] = "pending", status'[v][p] = "pending", u # v
                 PROVE  FALSE
      OBVIOUS
    <2>1. \A x \in Worker : x # w => status'[x] = status[x]
      OBVIOUS
    <2>2. CASE u = w
      BY <2>1, <2>2 DEF Attempts
    <2>3. CASE v = w
      BY <2>1, <2>3 DEF Attempts
    <2>4. CASE u # w /\ v # w
      BY <2>1, <2>4 DEF Attempts
    <2> QED
      BY <2>2, <2>3, <2>4
  <1> QED
    BY <1>1, <1>2, <1>3 DEF Attempts

\* The end of a unit of work: an attempt is closed only under its account's lock.
LEMMA WorkEnds ==
  ASSUME Typing, Attempts, Later, NEW w \in Worker, UNCHANGED <<payment, job, held>>,
         NEW next \in {"next", "done", "card"}, pc' = [pc EXCEPT ![w] = next],
         \A v \in Worker \ {w} : status'[v] = status[v],
         \A p \in Payment : \/ status'[w][p] = status[w][p]
                            \/ /\ status'[w][p] \in {"completed", "expired"}
                               /\ payment[p] # "absent" /\ PaymentTenant[p] \in held[w]
  PROVE  Attempts'
  <1>1. pc'[w] = next /\ \A v \in Worker \ {w} : pc'[v] = pc[v]
    BY DEF Typing, TypeOK
  <1>2. Verified(w)'
    BY <1>1 DEF Verified
  <1>3. ASSUME NEW p \in Payment PROVE Closes(w, p)'
    <2>1. /\ Closes(w, p) /\ held'[w] = held[w] /\ payment'[p] = payment[p]
          /\ pc'[w] # "work"
          /\ provider[p] # "none" => provider'[p] # "none"
      BY <1>1 DEF Attempts, Later
    <2>2. CASE status'[w][p] = status[w][p]
      BY <2>1, <2>2 DEF Closes
    <2>3. CASE /\ status'[w][p] \in {"completed", "expired"}
               /\ payment[p] # "absent" /\ PaymentTenant[p] \in held[w]
      BY <2>1, <2>3 DEF Closes
    <2> QED
      BY <2>2, <2>3
  <1> QED
    BY <1>1, <1>2, <1>3, OneSessionAttempts

LEMMA SameInStep ==
  ASSUME InStep, UNCHANGED <<ledger, new, payment, status>>
  PROVE  InStep'
  <1>1. ASSUME NEW p \in Payment
        PROVE  payment'[p] = "completed" <=> p \in Refs(ledger[PaymentTenant[p]])'
    BY DEF InStep, Refs
  <1>2. ASSUME NEW p \in Payment, NEW v \in Worker
        PROVE  Agrees(v, p)'
    <2>1. Agrees(v, p)
      BY DEF InStep
    <2>2. SeenStatus(v, p)' = SeenStatus(v, p)
      BY DEF SeenStatus
    <2>3. Refs(SeenLedger(v, PaymentTenant[p]))' = Refs(SeenLedger(v, PaymentTenant[p]))
      BY DEF Refs, SeenLedger
    <2> QED
      BY <2>1, <2>2, <2>3 DEF Agrees
  <1> QED
    BY <1>1, <1>2 DEF InStep

\* An entry without a reference or for a card charge says nothing of the
\* attempts; one for an attempt comes with its completion.
LEMMA PostInStep ==
  ASSUME Typing, InStep, UNCHANGED <<ledger, payment>>, NEW w \in Worker,
         NEW t \in Tenant, NEW r \in Ref \union {NoRef},
         Refs(SeenLedger(w, t))' = Refs(SeenLedger(w, t)) \union ({r} \ {NoRef}),
         \A v \in Worker : \A u \in Tenant :
            v # w \/ u # t => SeenLedger(v, u)' = SeenLedger(v, u),
         \/ r \notin Payment /\ UNCHANGED status
         \/ /\ r \in Payment /\ PaymentTenant[r] = t
            /\ status' = [status EXCEPT ![w][r] = "completed"]
  PROVE  InStep'
  <1>1. ASSUME NEW p \in Payment
        PROVE  payment'[p] = "completed" <=> p \in Refs(ledger[PaymentTenant[p]])'
    BY DEF InStep, Refs
  <1>2. ASSUME NEW p \in Payment, NEW v \in Worker
        PROVE  Agrees(v, p)'
    <2> DEFINE u == PaymentTenant[p]
    <2>0. u \in Tenant /\ Agrees(v, p)
      BY RoutingAssumption DEF InStep
    <2>1. CASE v = w /\ p = r
      <3>1. status'[v][p] = "completed" /\ u = t
        BY <2>1 DEF Typing, TypeOK
      <3>2. p \in Refs(SeenLedger(w, t))'
        BY <2>1, NullsAssumption
      <3>3. SeenStatus(v, p)' = "completed"
        BY <3>1 DEF SeenStatus
      <3> QED
        BY <2>1, <3>1, <3>2, <3>3 DEF Agrees
    <2>2. CASE v # w \/ p # r
      <3>1. status'[v][p] = status[v][p]
        BY <2>2 DEF Typing, TypeOK
      <3>2. SeenStatus(v, p)' = SeenStatus(v, p)
        BY <3>1 DEF SeenStatus
      <3>3. p \in Refs(SeenLedger(v, u))' <=> p \in Refs(SeenLedger(v, u))
        <4>1. CASE v = w /\ u = t
          BY <2>2, <4>1
        <4>2. CASE v # w \/ u # t
          <5>1. SeenLedger(v, u)' = SeenLedger(v, u)
            BY <2>0, <4>2
          <5> QED
            BY <5>1 DEF Refs
        <4> QED
          BY <4>1, <4>2
      <3> QED
        BY <2>0, <3>2, <3>3 DEF Agrees
    <2> QED
      BY <2>1, <2>2
  <1> QED
    BY <1>1, <1>2 DEF InStep

\* Flushing one entry: what it takes to keep the credits right.
LEMMA PostKeepsCredits ==
  ASSUME Typing, AllBacked, AllOnce, InStep, Later, UNCHANGED <<ledger, payment>>,
         NEW w \in Worker, NEW t \in Tenant, NEW r \in Row,
         NEW kind \in {"grant", "topup", "charge", "adjustment"},
         NEW n \in Int, NEW ref \in Ref \union {NoRef},
         Post(w, t, r, kind, n, ref),
         kind = "topup" => ref # NoRef,
         ref # NoRef => ref \notin Refs(SeenLedger(w, t)),
         ref \in Payment => /\ PaymentTenant[ref] = t /\ PaymentCents[ref] = n
                            /\ provider'[ref] = "paid",
         ref \in Intent => intent'[ref] = t,
         \/ ref \notin Payment /\ UNCHANGED status
         \/ ref \in Payment /\ status' = [status EXCEPT ![w][ref] = "completed"]
  PROVE  AllBacked' /\ AllOnce' /\ InStep'
  <1> DEFINE e == [kind |-> kind, cents |-> n, after |-> r.balance, ref |-> ref]
  <1>1. e \in Entry
    BY DEF Entry, Row
  <1>2. new' = [new EXCEPT ![w][t] = Append(@, e)]
    BY DEF Post
  <1>3. e.ref = ref /\ e.cents = n /\ e.kind = kind
    OBVIOUS
  <1>4. ASSUME NEW x, x = e PROVE Backed(x, t)'
    BY <1>3, <1>4, NullsAssumption DEF Backed
  <1>5. PICK x \in Entry : x = e
    BY <1>1
  <1>6. /\ x.ref = ref /\ Backed(x, t)'
        /\ new' = [new EXCEPT ![w][t] = Append(@, x)]
    BY <1>2, <1>3, <1>4, <1>5
  <1> HIDE DEF e
  <1>7. /\ AllBacked' /\ AllOnce'
        /\ Refs(SeenLedger(w, t))' = Refs(SeenLedger(w, t)) \union ({ref} \ {NoRef})
        /\ \A v \in Worker : \A u \in Tenant :
              v # w \/ u # t => SeenLedger(v, u)' = SeenLedger(v, u)
    <2>1. x.ref # NoRef => x.ref \notin Refs(SeenLedger(w, t))
      BY <1>6
    <2>2. Backed(x, t)' /\ new' = [new EXCEPT ![w][t] = Append(@, x)]
      BY <1>6
    <2>3. /\ AllBacked' /\ AllOnce'
          /\ Refs(SeenLedger(w, t))' = Refs(SeenLedger(w, t)) \union ({x.ref} \ {NoRef})
          /\ \A v \in Worker : \A u \in Tenant :
                v # w \/ u # t => SeenLedger(v, u)' = SeenLedger(v, u)
      BY <2>1, <2>2, AppendCredits
    <2> QED
      BY <1>6, <2>3
  <1>8. InStep'
    BY <1>7, PostInStep
  <1> QED
    BY <1>7, <1>8

-----------------------------------------------------------------------------
(* One lemma for each group of actions.                                    *)

LEMMA QuietStep ==
  ASSUME Ground, Later, UNCHANGED <<ledger, new, payment, status>>, Attempts'
  PROVE  CreditInv'
  BY SameCredits, SameInStep DEF Ground, CreditInv

LEMMA BeginCredits ==
  ASSUME Ground, NEW w \in Worker, NEW j \in Job, NEW next \in PCs, Begin(w, j, next),
         next # "work" \/ j.op # "poll",
         next \in {"wait", "work"} /\ j.op \in {"settle", "capture", "poll"}
            => payment[j.payment] # "absent",
         next \in {"wait", "work"} /\ j.op = "settle" =>
            (PaymentRail[j.payment] # "crypto" => provider[j.payment] = "paid"),
         next \in {"wait", "work"} /\ j.op = "reload" => intent[j.intent] = j.tenant
  PROVE  CreditInv'
  <1>1. UNCHANGED <<ledger, payment, provider, intent, held, new, status>>
    BY DEF Begin, db, world
  <1>2. pc'[w] = next /\ job'[w] = j
    BY DEF Ground, Typing, TypeOK, Begin
  <1>3. \A v \in Worker \ {w} : pc'[v] = pc[v] /\ job'[v] = job[v]
    BY DEF Ground, Typing, TypeOK, Begin
  <1>4. Later
    BY <1>1 DEF Later
  <1>5. Verified(w)'
    BY <1>1, <1>2 DEF Verified
  <1>6. ASSUME NEW p \in Payment PROVE Closes(w, p)'
    BY <1>1, <1>2 DEF Closes, Ground, CreditInv, Attempts
  <1>7. Attempts'
    BY <1>1, <1>3, <1>4, <1>5, <1>6, OneSessionAttempts DEF Ground, CreditInv
  <1> QED
    BY <1>1, <1>4, <1>7, QuietStep

LEMMA StartCredits ==
  ASSUME Ground, NEW w \in Worker, Start(w)
  PROVE  CreditInv'
  <1>1. ASSUME NEW p \in Payment, BeginTopup(w, p) \/ BeginSettle(w, p) \/ BeginReturn(w, p)
        PROVE  CreditInv'
    <2>1. PICK op \in {"topup", "settle", "capture"}, next \in {"create", "wait", "work"} :
            /\ Begin(w, NewJob(op, PaymentTenant[p], p, NoIntent, {}), next)
            /\ op # "topup" => payment[p] # "absent"
            /\ op = "settle" => (PaymentRail[p] # "crypto" => provider[p] = "paid")
      BY <1>1 DEF BeginTopup, BeginSettle, BeginReturn, FindAccount, TopupStart
    <2> DEFINE j == NewJob(op, PaymentTenant[p], p, NoIntent, {})
    <2>2. j \in Job
      BY NewJobType, RoutingAssumption DEF OpNames
    <2>3. j.op = op /\ j.payment = p
      BY DEF NewJob
    <2>4. Begin(w, j, next)
      BY <2>1
    <2> HIDE DEF j
    <2> QED
      BY <2>1, <2>2, <2>3, <2>4, BeginCredits DEF PCs
  <1>2. ASSUME NEW i \in Intent, BeginReload(w, i)
        PROVE  CreditInv'
    <2> DEFINE j == NewJob("reload", intent[i], NoPayment, i, {})
    <2>1. intent[i] \in Tenant
      BY <1>2 DEF BeginReload, Ground, Typing, TypeOK
    <2>2. j \in Job
      BY <2>1, NewJobType DEF OpNames
    <2>3. j.op = "reload" /\ j.tenant = intent[i] /\ j.intent = i
      BY DEF NewJob
    <2>4. Begin(w, j, "wait")
      BY <1>2 DEF BeginReload
    <2> HIDE DEF j
    <2> QED
      BY <2>2, <2>3, <2>4, BeginCredits DEF PCs
  <1>3. ASSUME NEW t \in Tenant, BeginMeter(w, t) \/ BeginAdjust(w, t)
        PROVE  CreditInv'
    <2>1. PICK op \in {"meter", "adjust"}, next \in {"create", "wait"} :
             Begin(w, NewJob(op, t, NoPayment, NoIntent, {}), next)
      BY <1>3 DEF BeginMeter, BeginAdjust, FindAccount
    <2> DEFINE j == NewJob(op, t, NoPayment, NoIntent, {})
    <2>2. j \in Job
      BY NewJobType DEF OpNames
    <2>3. j.op = op
      BY DEF NewJob
    <2>4. Begin(w, j, next)
      BY <2>1
    <2> HIDE DEF j
    <2> QED
      BY <2>1, <2>2, <2>3, <2>4, BeginCredits DEF PCs
  <1>4. ASSUME BeginPoll(w)
        PROVE  CreditInv'
    <2> DEFINE j == NewJob("poll", NoTenant, NoPayment, NoIntent,
                           {p \in Payment : PaymentRail[p] = "crypto"
                                               /\ payment[p] = "pending"})
    <2>1. j \in Job
      BY NewJobType DEF OpNames
    <2>2. Begin(w, j, "next")
      BY <1>4 DEF BeginPoll
    <2> HIDE DEF j
    <2> QED
      BY <2>1, <2>2, BeginCredits DEF PCs
  <1> QED
    BY <1>1, <1>2, <1>3, <1>4 DEF Start

\* The first entry of an account: its welcome grant.
LEMMA TakeTenantCredits ==
  ASSUME Ground, NEW w \in Worker, TakeTenant(w)
  PROVE  CreditInv'
  <1> DEFINE t == job[w].tenant
             granted == [exists |-> TRUE, balance |-> WelcomeCents, paused |-> FALSE,
                         metered |-> FALSE, reloadFailed |-> FALSE]
  <1>1. /\ pc[w] = "create" /\ UNCHANGED <<ledger, payment, provider, intent, status>>
        /\ t \in Tenant /\ job[w] \in Job /\ job[w].op \in {"topup", "meter", "adjust"}
    BY DEF TakeTenant, Ground, Typing, TypeOK, JobOK, JobFine, db, world
  <1>2. Later
    BY <1>1 DEF Later
  <1>3. /\ job'[w].op = job[w].op /\ pc'[w] \in {"wait", "work"}
        /\ \A v \in Worker \ {w} : pc'[v] = pc[v] /\ job'[v] = job[v] /\ held'[v] = held[v]
        /\ held[w] \subseteq held'[w]
    BY <1>1 DEF TakeTenant, Ground, Typing, TypeOK, Job, TopupStart
  <1>4. Verified(w)'
    BY <1>1, <1>3 DEF Verified
  <1>5. ASSUME NEW p \in Payment PROVE Closes(w, p)'
    BY <1>1, <1>3 DEF Closes, Ground, CreditInv, Attempts
  <1>6. Attempts'
    BY <1>1, <1>2, <1>3, <1>4, <1>5, OneSessionAttempts DEF Ground, CreditInv
  <1>7. CASE UNCHANGED new
    BY <1>1, <1>2, <1>6, <1>7, QuietStep
  <1>8. CASE Post(w, t, granted, "grant", WelcomeCents, NoRef)
    <2>1. granted \in Row /\ WelcomeCents \in Int /\ NoRef \notin Payment \union Intent
      BY AmountsAssumption, NullsAssumption DEF Row
    <2> HIDE DEF granted, t
    <2>2. AllBacked' /\ AllOnce' /\ InStep'
      BY <1>1, <1>2, <1>8, <2>1, PostKeepsCredits DEF Ground, CreditInv
    <2> QED
      BY <1>6, <2>2 DEF CreditInv
  <1> QED
    BY <1>7, <1>8 DEF TakeTenant

\* Taking the row lock, and everything a poll does between its payments.
LEMMA LockCredits ==
  ASSUME Ground, NEW w \in Worker,
         \/ LockAccount(w) \/ \E p \in Payment : PollNext(w, p)
         \/ PollEnd(w) \/ PollSkip(w)
  PROVE  CreditInv'
  <1>1. UNCHANGED <<ledger, payment, provider, intent, new, status>>
    BY DEF LockAccount, PollNext, PollEnd, PollSkip, db, world
  <1>2. Later
    BY <1>1 DEF Later
  <1>3. \A v \in Worker \ {w} : pc'[v] = pc[v] /\ job'[v] = job[v] /\ held'[v] = held[v]
    BY DEF LockAccount, PollNext, PollEnd, PollSkip, Ground, Typing, TypeOK
  <1>4. Verified(w) /\ \A p \in Payment : Closes(w, p)
    BY DEF Ground, CreditInv, Attempts
  <1>5. job[w] \in Job /\ StageFine(w) /\ JobFine(w)
    BY DEF Ground, Typing, TypeOK, LockInv, JobOK
  <1>6. Verified(w)' /\ \A p \in Payment : Closes(w, p)'
    <2>1. CASE LockAccount(w)
      <3>1. /\ pc[w] = "wait" /\ pc'[w] = "work"
            /\ job'[w].op = job[w].op /\ job'[w].payment = job[w].payment
            /\ job'[w].intent = job[w].intent /\ job'[w].tenant = job[w].tenant
            /\ job'[w].base = held[w] /\ held[w] \subseteq held'[w]
        BY <1>5, <2>1 DEF LockAccount, Ground, Typing, TypeOK, Job
      <3> QED
        BY <1>1, <1>4, <3>1 DEF Verified, Closes
    <2>2. ASSUME NEW q \in Payment, PollNext(w, q)
          PROVE  Verified(w)' /\ \A p \in Payment : Closes(w, p)'
      <3>1. /\ pc[w] = "next" /\ pc'[w] = "wait" /\ held' = held
            /\ job'[w].op = job[w].op /\ job'[w].payment = q /\ q \in job[w].todo
        BY <1>5, <2>2 DEF PollNext, Ground, Typing, TypeOK, Job
      <3>2. job[w].op = "poll" /\ payment[q] # "absent"
        BY <1>5, <3>1 DEF JobFine, StageFine
      <3> QED
        BY <1>1, <1>4, <3>1, <3>2 DEF Verified, Closes
    <2>3. CASE PollEnd(w)
      <3>1. pc'[w] = "done" /\ held' = held
        BY <2>3 DEF PollEnd, Ground, Typing, TypeOK
      <3> QED
        BY <1>1, <1>4, <3>1 DEF Verified, Closes
    <2>4. CASE PollSkip(w)
      <3>1. /\ pc'[w] = "next" /\ job[w].op = "poll"
            /\ held'[w] = held[w] \/ (pc[w] = "work" /\ held'[w] = job[w].base)
        BY <2>4 DEF PollSkip, Ground, Typing, TypeOK
      <3> QED
        BY <1>1, <1>4, <3>1 DEF Verified, Closes
    <2> QED
      BY <2>1, <2>2, <2>3, <2>4
  <1>7. Attempts'
    BY <1>1, <1>2, <1>3, <1>6, OneSessionAttempts DEF Ground, CreditInv
  <1> QED
    BY <1>1, <1>2, <1>7, QuietStep

\* complete: whoever asked the provider, the credit and the end of the attempt
\* are flushed together.
LEMMA CompleteCredits ==
  ASSUME Ground, Later, NEW w \in Worker, NEW p \in Payment,
         UNCHANGED <<ledger, payment, intent, job, held>>, pc' = Resume(w),
         pc[w] = "work", job[w].op \in {"settle", "capture", "poll"}, p = job[w].payment,
         provider'[p] = "paid", Complete(w, p)
  PROVE  CreditInv'
  <1> DEFINE t == PaymentTenant[p]
  <1>1. /\ payment[p] # "absent" /\ t \in held[w] /\ t \in Tenant /\ t = job[w].tenant
        /\ p \in Ref /\ PaymentCents[p] \in Int
    BY AmountsAssumption, RoutingAssumption
       DEF Ground, Typing, JobOK, JobFine, LockInv, StageFine, CreditInv, Attempts, Verified, Ref
  <1>2. PICK next \in {"next", "done"} : pc' = [pc EXCEPT ![w] = next]
    BY ResumeNext
  <1>3. CASE SeenStatus(w, p) = "completed"
    <2>1. UNCHANGED <<row, new, status>>
      BY <1>3 DEF Complete
    <2>2. Attempts'
      BY <1>2, <2>1, WorkEnds DEF Ground, CreditInv
    <2> QED
      BY <2>1, <2>2, QuietStep
  <1>4. CASE SeenStatus(w, p) # "completed"
    <2>1. /\ CreditOnce(w, t, PaymentCents[p], p)
          /\ status' = [status EXCEPT ![w][p] = "completed"]
      BY <1>4 DEF Complete
    <2>2. Agrees(w, p)
      BY DEF Ground, CreditInv, InStep
    <2>3. \A u \in Tenant : p \notin Refs(SeenLedger(w, u))
      BY <1>4, <2>2, RefsBacked DEF Ground, CreditInv, Agrees
    <2>4. Post(w, t, Credited(row[w][t], PaymentCents[p]), "topup", PaymentCents[p], p)
      BY <2>1, <2>3 DEF CreditOnce, SeenRef
    <2> DEFINE r == Credited(row[w][t], PaymentCents[p])
    <2>5. r \in Row
      BY <1>1, RowFields DEF Ground, Typing, TypeOK
    <2>6. Post(w, t, r, "topup", PaymentCents[p], p)
      BY <2>4
    <2>7. p # NoRef /\ p \notin Intent
      BY NullsAssumption
    <2> HIDE DEF r, t
    <2>8. PaymentTenant[p] = t
      BY DEF t
    <2>9. AllBacked' /\ AllOnce' /\ InStep'
      BY <1>1, <2>1, <2>3, <2>5, <2>6, <2>7, <2>8, PostKeepsCredits DEF Ground, CreditInv
    <2>10. \A v \in Worker \ {w} : status'[v] = status[v]
      BY <2>1 DEF Ground, Typing, TypeOK
    <2>11. \A q \in Payment : \/ status'[w][q] = status[w][q]
                              \/ status'[w][q] = "completed" /\ q = p
      BY <2>1 DEF Ground, Typing, TypeOK
    <2>12. Attempts'
      BY <1>1, <1>2, <2>8, <2>10, <2>11, WorkEnds DEF Ground, CreditInv
    <2> QED
      BY <2>9, <2>12 DEF CreditInv
  <1> QED
    BY <1>3, <1>4

\* Statuses that change without a credit: an attempt is recorded or expires.
LEMMA StatusCredits ==
  ASSUME Ground, NEW w \in Worker, NEW p \in Payment,
         UNCHANGED <<ledger, payment, new>>,
         SeenStatus(w, p) # "completed",
         NEW s \in {"pending", "expired"},
         status' = [status EXCEPT ![w][p] = s]
  PROVE  InStep'
  <1>1. ASSUME NEW q \in Payment
        PROVE  payment'[q] = "completed" <=> q \in Refs(ledger[PaymentTenant[q]])'
    BY DEF Ground, CreditInv, InStep, Refs
  <1>2. ASSUME NEW q \in Payment, NEW v \in Worker
        PROVE  Agrees(v, q)'
    <2>1. Agrees(v, q)
      BY DEF Ground, CreditInv, InStep
    <2>2. SeenStatus(v, q)' = "completed" <=> SeenStatus(v, q) = "completed"
      <3>1. CASE v = w /\ q = p
        <4>1. status'[v][q] = s
          BY <3>1 DEF Ground, Typing, TypeOK
        <4> QED
          BY <3>1, <4>1 DEF SeenStatus
      <3>2. CASE v # w \/ q # p
        <4>1. status'[v][q] = status[v][q]
          BY <3>2 DEF Ground, Typing, TypeOK
        <4> QED
          BY <4>1 DEF SeenStatus
      <3> QED
        BY <3>1, <3>2
    <2>3. Refs(SeenLedger(v, PaymentTenant[q]))' = Refs(SeenLedger(v, PaymentTenant[q]))
      BY DEF Refs, SeenLedger
    <2> QED
      BY <2>1, <2>2, <2>3 DEF Agrees
  <1> QED
    BY <1>1, <1>2 DEF InStep

LEMMA CreateCredits ==
  ASSUME Ground, Later, NEW w \in Worker, CreateTopup(w)
  PROVE  CreditInv'
  <1> DEFINE p == job[w].payment
  <1>1. /\ pc[w] = "work" /\ job[w].op = "topup" /\ p \in Payment
        /\ provider[p] = "none" /\ provider'[p] = "open" /\ pc' = Resume(w)
        /\ status' = [status EXCEPT ![w][p] = "pending"]
        /\ UNCHANGED <<ledger, payment, intent, job, held, row, new>>
    BY DEF CreateTopup, Working, Ground, Typing, TypeOK, JobOK, JobFine, db
  <1> HIDE DEF p
  <1>2. payment[p] = "absent" /\ \A v \in Worker : status[v][p] \in {"same", "absent"}
    <2>1. payment[p] = "absent"
      BY <1>1 DEF Ground, CreditInv, Attempts
    <2>2. ASSUME NEW v \in Worker PROVE status[v][p] \in {"same", "absent"}
      <3>1. Closes(v, p) /\ status[v][p] \in PaymentStatus \union {"same"}
        BY <1>1 DEF Ground, CreditInv, Attempts, Typing, TypeOK
      <3> QED
        BY <1>1, <2>1, <3>1 DEF Closes, PaymentStatus
    <2> QED
      BY <2>1, <2>2
  <1>3. SeenStatus(w, p) # "completed"
    BY <1>2 DEF SeenStatus
  <1>4. InStep'
    BY <1>1, <1>3, StatusCredits
  <1>5. AllBacked' /\ AllOnce'
    BY <1>1, SameCredits DEF Ground, CreditInv
  <1>6. pc'[w] \in {"next", "done"}
        /\ \A v \in Worker \ {w} : pc'[v] = pc[v] /\ status'[v] = status[v]
    BY <1>1 DEF Resume, Ground, Typing, TypeOK
  <1>7. Verified(w)'
    BY <1>6 DEF Verified
  <1>8. ASSUME NEW q \in Payment
        PROVE  /\ Closes(w, q)'
               /\ status'[w][q] = status[w][q] \/ \A v \in Worker : status[v][q] # "pending"
    <2>1. CASE q = p
      <3>1. status'[w][p] = "pending"
        BY <1>1 DEF Ground, Typing, TypeOK
      <3> QED
        BY <1>1, <1>2, <2>1, <3>1 DEF Closes
    <2>2. CASE q # p
      <3>1. status'[w][q] = status[w][q]
        BY <1>1, <2>2 DEF Ground, Typing, TypeOK
      <3>2. Closes(w, q)
        BY DEF Ground, CreditInv, Attempts
      <3> QED
        BY <1>1, <1>6, <3>1, <3>2 DEF Closes, Later
    <2> QED
      BY <2>1, <2>2
  <1>9. Attempts'
    BY <1>1, <1>6, <1>7, <1>8, OneSessionAttempts DEF Ground, CreditInv
  <1> QED
    BY <1>4, <1>5, <1>9 DEF CreditInv

\* An attempt that is not completed may expire under its account's lock.
LEMMA ExpireCredits ==
  ASSUME Ground, Later, NEW w \in Worker, NEW p \in Payment,
         UNCHANGED <<ledger, payment, intent, job, held, new>>, pc' = Resume(w),
         pc[w] = "work", job[w].op \in {"settle", "capture", "poll"}, p = job[w].payment,
         SeenStatus(w, p) # "completed",
         status' = [status EXCEPT ![w][p] = "expired"]
  PROVE  CreditInv'
  <1>1. payment[p] # "absent" /\ PaymentTenant[p] \in held[w]
    BY DEF Ground, Typing, JobOK, JobFine, LockInv, StageFine, CreditInv, Attempts, Verified
  <1>2. PICK next \in {"next", "done"} : pc' = [pc EXCEPT ![w] = next]
    BY ResumeNext
  <1>3. \A v \in Worker \ {w} : status'[v] = status[v]
    BY DEF Ground, Typing, TypeOK
  <1>4. \A q \in Payment : \/ status'[w][q] = status[w][q]
                           \/ status'[w][q] = "expired" /\ q = p
    BY DEF Ground, Typing, TypeOK
  <1>5. Attempts'
    BY <1>1, <1>2, <1>3, <1>4, WorkEnds DEF Ground, CreditInv
  <1>6. InStep'
    BY StatusCredits
  <1>7. AllBacked' /\ AllOnce'
    BY SameCredits DEF Ground, CreditInv
  <1> QED
    BY <1>5, <1>6, <1>7 DEF CreditInv

\* The rails: each completes an attempt only on the provider's word.
LEMMA TopupCredits ==
  ASSUME Ground, Later, NEW w \in Worker,
         \/ StripeSettle(w) \/ PaypalCapture(w) \/ PaypalWebhook(w)
         \/ CryptoConfirm(w) \/ CryptoExpire(w)
  PROVE  CreditInv'
  <1> DEFINE p == job[w].payment
  <1>1. /\ pc[w] = "work" /\ job[w].op \in {"settle", "capture", "poll"} /\ pc' = Resume(w)
        /\ UNCHANGED <<ledger, payment, intent, job, held>>
    BY DEF StripeSettle, PaypalCapture, PaypalWebhook, CryptoConfirm, CryptoExpire,
           Working, db, world
  <1>2. p \in Payment
    BY <1>1 DEF Ground, Typing, JobOK, JobFine
  <1>3. PICK next \in {"next", "done"} : pc' = [pc EXCEPT ![w] = next]
    BY <1>1, ResumeNext
  <1>4. CASE UNCHANGED <<new, status>>
    <2>1. Attempts'
      BY <1>1, <1>3, <1>4, WorkEnds DEF Ground, CreditInv
    <2> QED
      BY <1>1, <1>4, <2>1, QuietStep
  <1>5. CASE Complete(w, p) /\ provider'[p] = "paid"
    BY <1>1, <1>2, <1>5, CompleteCredits
  <1>6. CASE /\ SeenStatus(w, p) # "completed" /\ UNCHANGED new
             /\ status' = [status EXCEPT ![w][p] = "expired"]
    BY <1>1, <1>2, <1>6, ExpireCredits
  <1>7. CASE StripeSettle(w)
    <2>1. Verified(w)
      BY DEF Ground, CreditInv, Attempts
    <2>2. Complete(w, p) /\ provider' = provider /\ provider[p] = "paid"
      BY <1>1, <1>7, <2>1 DEF StripeSettle, Working, Verified, world
    <2> QED
      BY <1>5, <2>2
  <1>11. CASE PaypalWebhook(w)
    <2>1. Verified(w)
      BY DEF Ground, CreditInv, Attempts
    <2>2. Complete(w, p) /\ provider' = provider /\ provider[p] = "paid"
      BY <1>1, <1>11, <2>1 DEF PaypalWebhook, Working, Verified, world
    <2> QED
      BY <1>5, <2>2
  <1>8. CASE PaypalCapture(w)
    <2>1. \/ UNCHANGED <<new, status>>
          \/ provider' = [provider EXCEPT ![p] = "paid"] /\ Complete(w, p)
      BY <1>8 DEF PaypalCapture
    <2> QED
      BY <1>2, <1>4, <1>5, <2>1 DEF Ground, Typing, TypeOK
  <1>9. CASE CryptoConfirm(w)
    <2>1. provider' = provider
      BY <1>9 DEF CryptoConfirm, world
    <2>2. \/ UNCHANGED <<new, status>>
          \/ provider[p] = "paid" /\ Complete(w, p)
          \/ /\ SeenStatus(w, p) # "completed" /\ UNCHANGED new
             /\ status' = [status EXCEPT ![w][p] = "expired"]
      BY <1>9 DEF CryptoConfirm
    <2> QED
      BY <1>4, <1>5, <1>6, <2>1, <2>2
  <1>10. CASE CryptoExpire(w)
    <2>1. UNCHANGED new
      BY <1>10 DEF CryptoExpire
    <2>2. \/ UNCHANGED status
          \/ /\ SeenStatus(w, p) = "pending"
             /\ status' = [status EXCEPT ![w][p] = "expired"]
      BY <1>10 DEF CryptoExpire
    <2> QED
      BY <1>4, <1>6, <2>1, <2>2
  <1> QED
    BY <1>7, <1>8, <1>9, <1>10, <1>11

\* Corrections and usage carry no reference; a reload's event is credited once.
LEMMA MoneyCredits ==
  ASSUME Ground, Later, NEW w \in Worker,
         ReloadWebhook(w) \/ Adjust(w) \/ MeterFirst(w) \/ MeterUsage(w)
  PROVE  CreditInv'
  <1> DEFINE t == job[w].tenant
  <1>1. /\ pc[w] = "work" /\ UNCHANGED <<ledger, payment, provider, intent, job, held, status>>
        /\ t \in Tenant /\ row[w][t] \in Row
    BY DEF ReloadWebhook, Adjust, MeterFirst, MeterUsage, Working, db, world,
           Ground, Typing, TypeOK, JobOK, JobFine
  <1>2. PICK next \in {"next", "done", "card"} : pc' = [pc EXCEPT ![w] = next]
    BY ResumeNext DEF ReloadWebhook, Adjust, MeterFirst, MeterUsage
  <1>3. Attempts'
    BY <1>1, <1>2, WorkEnds DEF Ground, CreditInv
  <1>4. CASE UNCHANGED new
    BY <1>1, <1>3, <1>4, QuietStep
  <1> HIDE DEF t
  <1>5. ASSUME NEW r \in Row, NEW kind \in {"charge", "adjustment"}, NEW n \in Int,
               Post(w, t, r, kind, n, NoRef)
        PROVE  CreditInv'
    <2>1. AllBacked' /\ AllOnce' /\ InStep'
      BY <1>1, <1>5, NullsAssumption, PostKeepsCredits DEF Ground, CreditInv
    <2> QED
      BY <1>3, <2>1 DEF CreditInv
  <1>6. CASE ReloadWebhook(w)
    <2> DEFINE i == job[w].intent
    <2>1. job[w].op = "reload" /\ CreditOnce(w, t, ReloadCents, i)
      BY <1>6 DEF ReloadWebhook, Working, t
    <2>2. i \in Intent /\ intent[i] = t
      BY <1>1, <2>1 DEF t, Ground, Typing, JobOK, JobFine, CreditInv, Attempts, Verified
    <2> DEFINE r == Credited(row[w][t], ReloadCents)
    <2>0. ReloadCents \in Int
      BY AmountsAssumption
    <2>3. r \in Row
      BY <1>1, <2>0, RowFields
    <2> HIDE DEF i
    <2>4. i \in Ref \union {NoRef} /\ i # NoRef /\ i \notin Payment
      BY <2>2, NullsAssumption DEF Ref
    <2>5. CASE i \notin Refs(SeenLedger(w, t)) /\ Post(w, t, r, "topup", ReloadCents, i)
      <3> HIDE DEF r
      <3>1. AllBacked' /\ AllOnce' /\ InStep'
        BY <1>1, <2>0, <2>2, <2>3, <2>4, <2>5, PostKeepsCredits DEF Ground, CreditInv
      <3> QED
        BY <1>3, <3>1 DEF CreditInv
    <2> QED
      BY <1>1, <1>4, <2>1, <2>5 DEF CreditOnce, SeenRef
  <1>7. CASE Adjust(w)
    <2>1. PICK n \in AdjustCents \ {0} :
             Post(w, t, IF n > 0 THEN Credited(row[w][t], n) ELSE Charged(row[w][t], -n),
                  "adjustment", n, NoRef)
      BY <1>7 DEF Adjust, t
    <2>2. n \in Int /\ -n \in Int
      BY AmountsAssumption
    <2> DEFINE r == IF n > 0 THEN Credited(row[w][t], n) ELSE Charged(row[w][t], -n)
    <2>3. r \in Row
      BY <1>1, <2>2, RowFields
    <2> HIDE DEF r
    <2> QED
      BY <1>5, <2>1, <2>2, <2>3 DEF r
  <1>8. CASE MeterFirst(w)
    BY <1>4, <1>8 DEF MeterFirst
  <1>9. CASE MeterUsage(w)
    <2>1. CASE UNCHANGED new
      BY <1>4, <2>1
    <2>2. CASE ~UNCHANGED new
      <3>1. PICK n \in UsageCents : Post(w, t, Charged(row[w][t], n), "charge", -n, NoRef)
        BY <1>9, <2>2 DEF MeterUsage, t
      <3>2. n \in Int /\ -n \in Int
        BY AmountsAssumption
      <3> DEFINE r == Charged(row[w][t], n)
      <3>3. r \in Row
        BY <1>1, <3>2, RowFields
      <3> HIDE DEF r
      <3> QED
        BY <1>5, <3>1, <3>2, <3>3 DEF r
    <2> QED
      BY <2>1, <2>2
  <1> QED
    BY <1>6, <1>7, <1>8, <1>9

\* The end of a metering call: a card charge gets an intent no ledger carries.
LEMMA CardCredits ==
  ASSUME Ground, Later, NEW w \in Worker,
         MeterNoReload(w) \/ MeterReload(w) \/ MeterReloadFails(w)
  PROVE  CreditInv'
  <1> DEFINE t == job[w].tenant
  <1>1. /\ pc[w] = "card" /\ UNCHANGED <<ledger, payment, provider, job, held, status>>
        /\ t \in Tenant /\ row[w][t] \in Row
    BY DEF MeterNoReload, MeterReload, MeterReloadFails, db, world,
           Ground, Typing, TypeOK, JobOK, JobFine
  <1>2. PICK next \in {"next", "done"} : pc' = [pc EXCEPT ![w] = next]
    BY ResumeNext DEF MeterNoReload, MeterReload, MeterReloadFails
  <1>3. Attempts'
    BY <1>1, <1>2, WorkEnds DEF Ground, CreditInv
  <1>4. CASE UNCHANGED new
    BY <1>1, <1>3, <1>4, QuietStep
  <1>5. CASE MeterReload(w)
    <2>1. PICK i \in Intent :
             /\ intent[i] = NoTenant
             /\ intent' = [intent EXCEPT ![i] = t]
             /\ Post(w, t, Settled(Credited(row[w][t], ReloadCents)), "topup", ReloadCents, i)
      BY <1>5 DEF MeterReload
    <2> DEFINE r == Settled(Credited(row[w][t], ReloadCents))
    <2>2. r \in Row /\ ReloadCents \in Int
      BY <1>1, AmountsAssumption, RowFields
    <2>3. i \in Ref \union {NoRef} /\ i # NoRef /\ i \notin Payment
      BY NullsAssumption DEF Ref
    <2>4. i \notin Refs(SeenLedger(w, t))
      BY <1>1, <2>1, RefsBacked DEF Ground, CreditInv
    <2>5. intent'[i] = t
      BY <2>1 DEF Ground, Typing, TypeOK
    <2> HIDE DEF r, t
    <2>6. Post(w, t, r, "topup", ReloadCents, i)
      BY <2>1 DEF r
    <2>7. AllBacked' /\ AllOnce' /\ InStep'
      BY <1>1, <2>2, <2>3, <2>4, <2>5, <2>6, PostKeepsCredits DEF Ground, CreditInv
    <2> QED
      BY <1>3, <2>7 DEF CreditInv
  <1>6. CASE MeterNoReload(w) \/ MeterReloadFails(w)
    BY <1>4, <1>6 DEF MeterNoReload, MeterReloadFails
  <1> QED
    BY <1>5, <1>6

LEMMA AbortCredits ==
  ASSUME Ground, Later, NEW w \in Worker, Abort(w)
  PROVE  CreditInv'
  <1>1. EndSession(w) /\ UNCHANGED <<ledger, payment, provider, intent>>
    BY DEF Abort, db, world
  <1>2. /\ pc'[w] = "idle" /\ \A t \in Tenant : new'[w][t] = <<>>
        /\ \A p \in Payment : status'[w][p] = "same"
    BY <1>1 DEF EndSession, Ground, Typing, TypeOK
  <1>3. \A v \in Worker \ {w} :
           /\ pc'[v] = pc[v] /\ job'[v] = job[v] /\ held'[v] = held[v]
           /\ new'[v] = new[v] /\ status'[v] = status[v]
    BY <1>1, EndedFine DEF Ground
  <1>4. \A t \in Tenant : SeenLedger(w, t)' = ledger[t]
    BY <1>1, <1>2, ConcatEmptySeq DEF SeenLedger, Ground, Typing, TypeOK
  <1>5. \A v \in Worker \ {w} : \A t \in Tenant : SeenLedger(v, t)' = SeenLedger(v, t)
    BY <1>1, <1>3 DEF SeenLedger
  <1>6. AllBacked'
    <2>1. ASSUME NEW t \in Tenant, NEW v \in Worker, NEW k \in DOMAIN new'[v][t]
          PROVE  v # w
      <3>1. DOMAIN << >> = {}
        OBVIOUS
      <3> QED
        BY <1>2, <2>1, <3>1
    <2>2. ASSUME NEW t \in Tenant, NEW v \in Worker, NEW k \in DOMAIN new'[v][t]
          PROVE  Backed(new[v][t][k], t)'
      <3>1. new'[v] = new[v]
        BY <1>3, <2>1
      <3> QED
        BY <3>1, StaysBacked DEF AllBacked, Ground, CreditInv
    <2>3. ASSUME NEW t \in Tenant, NEW k \in DOMAIN ledger'[t]
          PROVE  Backed(ledger[t][k], t)'
      BY <1>1, StaysBacked DEF AllBacked, Ground, CreditInv
    <2> QED
      BY <2>2, <2>3 DEF AllBacked
  <1>7. AllOnce'
    <2>1. ASSUME NEW t \in Tenant PROVE Once(ledger[t])'
      BY <1>1 DEF AllOnce, Once, Ground, CreditInv
    <2>2. ASSUME NEW t \in Tenant, NEW v \in Worker PROVE Once(SeenLedger(v, t))'
      <3>1. SeenLedger(v, t)' = SeenLedger(v, t) \/ SeenLedger(v, t)' = ledger[t]
        BY <1>4, <1>5
      <3>2. Once(SeenLedger(v, t)) /\ Once(ledger[t])
        BY DEF AllOnce, Ground, CreditInv
      <3> QED
        BY <3>1, <3>2 DEF Once
    <2> QED
      BY <2>1, <2>2 DEF AllOnce
  <1>8. InStep'
    <2>1. ASSUME NEW p \in Payment
          PROVE  payment'[p] = "completed" <=> p \in Refs(ledger[PaymentTenant[p]])'
      BY <1>1 DEF Ground, CreditInv, InStep, Refs
    <2>2. ASSUME NEW p \in Payment, NEW v \in Worker PROVE Agrees(v, p)'
      <3>1. CASE v = w
        <4>1. SeenStatus(v, p)' = payment[p]
          BY <1>1, <1>2, <3>1 DEF SeenStatus
        <4>2. SeenLedger(v, PaymentTenant[p])' = ledger[PaymentTenant[p]]
          BY <1>4, <3>1, RoutingAssumption
        <4> QED
          BY <4>1, <4>2 DEF Agrees, Refs, Ground, CreditInv, InStep
      <3>2. CASE v # w
        <4>1. SeenStatus(v, p)' = SeenStatus(v, p)
          BY <1>1, <1>3, <3>2 DEF SeenStatus
        <4>2. SeenLedger(v, PaymentTenant[p])' = SeenLedger(v, PaymentTenant[p])
          BY <1>5, <3>2, RoutingAssumption
        <4> QED
          BY <4>1, <4>2 DEF Agrees, Refs, Ground, CreditInv, InStep
      <3> QED
        BY <3>1, <3>2
    <2> QED
      BY <2>1, <2>2 DEF InStep
  <1>9. Attempts'
    <2>1. Verified(w)'
      BY <1>2 DEF Verified
    <2>2. \A p \in Payment : Closes(w, p)'
      BY <1>2 DEF Closes
    <2> QED
      BY <1>1, <1>2, <1>3, <2>1, <2>2, OneSessionAttempts DEF Ground, CreditInv
  <1> QED
    BY <1>6, <1>7, <1>8, <1>9 DEF CreditInv

LEMMA OutsideCredits ==
  ASSUME Ground, Later, Outside
  PROVE  CreditInv'
  <1>1. UNCHANGED <<ledger, payment, intent, session>>
    BY DEF Outside, CustomerPays, CryptoLapses, DayPasses, db, world
  <1>2. Attempts'
    <2>1. /\ \A p \in Payment : payment'[p] # "absent" => provider'[p] # "none"
          /\ \A v, w \in Worker : \A p \in Payment :
                status'[v][p] = "pending" /\ status'[w][p] = "pending" => v = w
      BY <1>1 DEF Ground, CreditInv, Attempts, Later, session
    <2>2. ASSUME NEW w \in Worker PROVE Verified(w)' /\ \A p \in Payment : Closes(w, p)'
      <3>1. Verified(w) /\ \A p \in Payment : Closes(w, p)
        BY DEF Ground, CreditInv, Attempts
      <3>2. pc[w] \in {"wait", "work"} /\ job[w].op = "settle" => job[w].payment \in Payment
        BY DEF Ground, Typing, JobOK, JobFine
      <3>3. Verified(w)'
        BY <1>1, <3>1, <3>2 DEF Verified, Later, session
      <3>4. \A p \in Payment : Closes(w, p)'
        BY <1>1, <3>1 DEF Closes, Later, session
      <3> QED
        BY <3>3, <3>4
    <2> QED
      BY <2>1, <2>2 DEF Attempts
  <1> QED
    BY <1>1, <1>2, QuietStep DEF session

-----------------------------------------------------------------------------
(* The commit publishes what the session saw.                              *)

\* A tenant's ledger as it is seen after w's commit.
LEMMA CommitSees ==
  ASSUME Ground, NEW w \in Worker, Commit(w), NEW t \in Tenant
  PROVE  /\ ledger'[t] = SeenLedger(w, t) /\ ledger'[t] \in Seq(Entry)
         /\ t \notin held[w] => SeenLedger(w, t) = ledger[t]
         /\ \A v \in Worker :
               \/ SeenLedger(v, t)' = SeenLedger(w, t)
               \/ /\ v # w /\ t \in held[v] /\ ledger'[t] = ledger[t]
                  /\ SeenLedger(v, t)' = SeenLedger(v, t)
  <1>1. ledger' = [u \in Tenant |-> SeenLedger(w, u)] /\ EndSession(w)
    BY DEF Commit
  <1>2. /\ ledger[t] \in Seq(Entry) /\ new[w][t] \in Seq(Entry)
        /\ new'[w][t] = <<>>
    BY <1>1 DEF Ground, Typing, TypeOK, EndSession
  <1>3. ledger'[t] = SeenLedger(w, t) /\ ledger'[t] \in Seq(Entry)
    <2>1. ledger[t] \o new[w][t] \in Seq(Entry)
      BY <1>2
    <2> QED
      BY <1>1, <2>1 DEF SeenLedger
  <1>4. ASSUME NEW v \in Worker, new[v][t] = <<>> PROVE SeenLedger(v, t) = ledger[t]
    BY <1>2, <1>4, ConcatEmptySeq DEF SeenLedger
  <1>5. ASSUME NEW v \in Worker, t \notin held[v] PROVE new[v][t] = <<>>
    BY <1>5 DEF Ground, LockInv, HeldFine
  <1>6. ASSUME NEW v \in Worker, new'[v][t] = <<>> PROVE SeenLedger(v, t)' = SeenLedger(w, t)
    <2>1. SeenLedger(v, t)' = ledger'[t] \o <<>>
      BY <1>6 DEF SeenLedger
    <2> QED
      BY <1>3, <2>1, ConcatEmptySeq
  <1>7. ASSUME NEW v \in Worker, v # w, t \in held[v]
        PROVE  ledger'[t] = ledger[t] /\ SeenLedger(v, t)' = SeenLedger(v, t)
    <2>1. t \notin held[w]
      BY <1>7 DEF Ground, LockInv, Exclusive
    <2>2. ledger'[t] = ledger[t]
      BY <1>3, <1>4, <1>5, <2>1
    <2>3. new'[v] = new[v]
      BY <1>1, <1>7, EndedFine DEF Ground
    <2> QED
      BY <2>2, <2>3 DEF SeenLedger
  <1>8. ASSUME NEW v \in Worker
        PROVE  \/ SeenLedger(v, t)' = SeenLedger(w, t)
               \/ /\ v # w /\ t \in held[v] /\ ledger'[t] = ledger[t]
                  /\ SeenLedger(v, t)' = SeenLedger(v, t)
    <2>1. CASE v = w
      BY <1>2, <1>6, <2>1
    <2>2. CASE v # w /\ t \in held[v]
      BY <1>7, <2>2
    <2>3. CASE v # w /\ t \notin held[v]
      <3>1. new'[v] = new[v]
        BY <1>1, <2>3, EndedFine DEF Ground
      <3> QED
        BY <1>5, <1>6, <2>3, <3>1
    <2> QED
      BY <2>1, <2>2, <2>3
  <1> QED
    BY <1>3, <1>4, <1>5, <1>8

LEMMA CommitCredits ==
  ASSUME Ground, Later, NEW w \in Worker, Commit(w)
  PROVE  CreditInv'
  <1>1. /\ EndSession(w) /\ UNCHANGED <<provider, intent>>
        /\ payment' = [p \in Payment |-> SeenStatus(w, p)]
    BY DEF Commit, world
  <1>2. /\ pc'[w] = "idle" /\ \A t \in Tenant : new'[w][t] = <<>>
        /\ \A p \in Payment : status'[w][p] = "same"
    BY <1>1 DEF EndSession, Ground, Typing, TypeOK
  <1>3. \A v \in Worker \ {w} :
           /\ pc'[v] = pc[v] /\ job'[v] = job[v] /\ held'[v] = held[v]
           /\ new'[v] = new[v] /\ status'[v] = status[v]
    BY <1>1, EndedFine DEF Ground
  <1>4. ASSUME NEW p \in Payment
        PROVE  /\ payment'[p] = SeenStatus(w, p)
               /\ PaymentTenant[p] \in Tenant
               /\ \A v \in Worker : Closes(v, p) /\ status[v][p] # "absent"
               /\ \A v \in Worker : status[v][p] \in PaymentStatus \union {"same"}
    BY <1>1, RoutingAssumption
       DEF Ground, CreditInv, Attempts, LockInv, FlushFine, Typing, TypeOK
  <1>5. ASSUME NEW p \in Payment, payment[p] # "absent" PROVE payment'[p] # "absent"
    BY <1>4, <1>5 DEF SeenStatus
  <1>6. AllBacked'
    <2>1. ASSUME NEW t \in Tenant, NEW k \in DOMAIN ledger'[t] PROVE Backed(ledger[t][k], t)'
      <3>1. ledger'[t] = ledger[t] \o new[w][t] /\ ledger[t] \in Seq(Entry) /\ new[w][t] \in Seq(Entry)
        BY CommitSees DEF SeenLedger, Ground, Typing, TypeOK
      <3> DEFINE s == ledger[t]
                 u == new[w][t]
      <3>2. /\ s \in Seq(Entry) /\ u \in Seq(Entry) /\ k \in DOMAIN (s \o u)
            /\ ledger'[t] = s \o u
        BY <2>1, <3>1
      <3>3. /\ \A j \in DOMAIN s : Backed(s[j], t)
            /\ \A j \in DOMAIN u : Backed(u[j], t)
        BY DEF Ground, CreditInv, AllBacked
      <3> HIDE DEF s, u
      <3>4. /\ DOMAIN s = 1..Len(s) /\ DOMAIN u = 1..Len(u)
            /\ Len(s) \in Nat /\ Len(u) \in Nat
            /\ DOMAIN (s \o u) = 1..(Len(s) + Len(u))
        BY <3>2
      <3>5. (s \o u)[k] = IF k <= Len(s) THEN s[k] ELSE u[k - Len(s)]
        BY <3>2, <3>4
      <3>6. \/ k \in DOMAIN s /\ (s \o u)[k] = s[k]
            \/ k - Len(s) \in DOMAIN u /\ (s \o u)[k] = u[k - Len(s)]
        BY <3>2, <3>4, <3>5
      <3>7. ASSUME NEW x, x = (s \o u)[k] PROVE Backed(x, t)'
        <4>1. Backed(x, t)
          BY <3>3, <3>6, <3>7
        <4> QED
          BY <4>1, StaysBacked
      <3>8. \A x : x = ledger'[t][k] => Backed(x, t)'
        BY <3>2, <3>7
      <3> QED
        BY <3>8 DEF Backed
    <2>2. ASSUME NEW t \in Tenant, NEW v \in Worker, NEW k \in DOMAIN new'[v][t]
          PROVE  Backed(new[v][t][k], t)'
      <3>0. DOMAIN << >> = {}
        OBVIOUS
      <3>1. v # w
        BY <1>2, <2>2, <3>0
      <3>2. new'[v] = new[v]
        BY <1>3, <3>1
      <3> QED
        BY <3>2, StaysBacked DEF AllBacked, Ground, CreditInv
    <2> QED
      BY <2>1, <2>2 DEF AllBacked
  <1>7. AllOnce'
    <2>1. ASSUME NEW t \in Tenant PROVE Once(ledger[t])'
      <3>1. ledger'[t] = SeenLedger(w, t) /\ Once(SeenLedger(w, t))
        BY CommitSees DEF AllOnce, Ground, CreditInv
      <3> QED
        BY <3>1 DEF Once
    <2>2. ASSUME NEW t \in Tenant, NEW v \in Worker PROVE Once(SeenLedger(v, t))'
      <3>1. SeenLedger(v, t)' = SeenLedger(w, t) \/ SeenLedger(v, t)' = SeenLedger(v, t)
        BY CommitSees
      <3>2. Once(SeenLedger(w, t)) /\ Once(SeenLedger(v, t))
        BY DEF AllOnce, Ground, CreditInv
      <3> QED
        BY <3>1, <3>2 DEF Once
    <2> QED
      BY <2>1, <2>2 DEF AllOnce
  <1>8. InStep'
    <2>1. ASSUME NEW p \in Payment
          PROVE  payment'[p] = "completed" <=> p \in Refs(ledger[PaymentTenant[p]])'
      <3>1. Agrees(w, p) /\ ledger'[PaymentTenant[p]] = SeenLedger(w, PaymentTenant[p])
        BY <1>4, CommitSees DEF Ground, CreditInv, InStep
      <3> QED
        BY <1>4, <3>1 DEF Agrees, Refs
    <2>2. ASSUME NEW p \in Payment, NEW v \in Worker PROVE Agrees(v, p)'
      <3> DEFINE t == PaymentTenant[p]
      <3>0. /\ t \in Tenant /\ Agrees(w, p) /\ Agrees(v, p)
            /\ payment[p] = "completed" <=> p \in Refs(ledger[t])
        BY <1>4 DEF Ground, CreditInv, InStep
      <3>1. CASE v = w
        <4>1. SeenStatus(v, p)' = SeenStatus(w, p)
          BY <1>2, <1>4, <3>1 DEF SeenStatus
        <4>2. SeenLedger(v, t)' = SeenLedger(w, t)
          BY <3>0, <3>1, CommitSees
        <4> QED
          BY <3>0, <4>1, <4>2 DEF Agrees, Refs
      <3>2. CASE v # w /\ t \in held[v]
        <4>1. t \notin held[w]
          BY <3>0, <3>2 DEF Ground, LockInv, Exclusive
        <4>2. SeenLedger(w, t) = ledger[t]
          BY <3>0, <4>1, CommitSees
        <4>3. SeenStatus(w, p) = "completed" <=> payment[p] = "completed"
          BY <3>0, <4>2 DEF Agrees
        <4>4. SeenStatus(v, p)' = "completed" <=> SeenStatus(v, p) = "completed"
          BY <1>3, <1>4, <3>2, <4>3 DEF SeenStatus
        <4>5. SeenLedger(v, t)' = SeenLedger(v, t)
          <5>1. ledger'[t] = ledger[t] /\ new'[v] = new[v]
            BY <1>3, <3>0, <3>2, <4>2, CommitSees
          <5> QED
            BY <5>1 DEF SeenLedger
        <4> QED
          BY <3>0, <4>4, <4>5 DEF Agrees, Refs
      <3>3. CASE v # w /\ t \notin held[v]
        <4>1. status[v][p] \in {"same", "pending"}
          BY <1>4, <3>3 DEF Closes, PaymentStatus
        <4>2. status[v][p] = "pending" => SeenStatus(w, p) # "completed"
          BY <1>4 DEF Closes, SeenStatus
        <4>3. SeenStatus(v, p)' = "completed" <=> SeenStatus(w, p) = "completed"
          BY <1>3, <1>4, <3>3, <4>1, <4>2 DEF SeenStatus
        <4>4. SeenLedger(v, t)' = SeenLedger(w, t)
          BY <3>0, <3>3, CommitSees
        <4> QED
          BY <3>0, <4>3, <4>4 DEF Agrees, Refs
      <3> QED
        BY <3>1, <3>2, <3>3
    <2> QED
      BY <2>1, <2>2 DEF InStep
  <1>9. Attempts'
    <2>1. ASSUME NEW p \in Payment, payment'[p] # "absent" PROVE provider'[p] # "none"
      BY <1>1, <1>4, <2>1 DEF SeenStatus, Closes, Ground, CreditInv, Attempts, PaymentStatus
    <2>2. ASSUME NEW v \in Worker PROVE Verified(v)' /\ \A p \in Payment : Closes(v, p)'
      <3>1. CASE v = w
        BY <1>2, <3>1 DEF Verified, Closes
      <3>2. CASE v # w
        <4>1. Verified(v) /\ \A p \in Payment : Closes(v, p)
          BY DEF Ground, CreditInv, Attempts
        <4>2. pc[v] \in {"wait", "work"} /\ job[v].op \in {"settle", "capture", "poll"}
                 => job[v].payment \in Payment
          BY DEF Ground, Typing, JobOK, JobFine
        <4>3. Verified(v)'
          BY <1>1, <1>3, <1>5, <3>2, <4>1, <4>2 DEF Verified
        <4>4. ASSUME NEW p \in Payment, status[v][p] = "pending" PROVE payment'[p] = "absent"
          <5>1. status[w][p] # "pending"
            BY <3>2, <4>4 DEF Ground, CreditInv, Attempts
          <5>2. payment[p] = "absent"
            BY <4>1, <4>4 DEF Closes
          <5> QED
            BY <1>4, <5>1, <5>2 DEF SeenStatus, Closes, PaymentStatus
        <4>5. \A p \in Payment : Closes(v, p)'
          BY <1>1, <1>3, <1>5, <3>2, <4>1, <4>4 DEF Closes
        <4> QED
          BY <4>3, <4>5
      <3> QED
        BY <3>1, <3>2
    <2>3. \A u, v \in Worker : \A p \in Payment :
             status'[u][p] = "pending" /\ status'[v][p] = "pending" => u = v
      BY <1>2, <1>3 DEF Ground, CreditInv, Attempts
    <2> QED
      BY <2>1, <2>2, <2>3 DEF Attempts
  <1> QED
    BY <1>6, <1>7, <1>8, <1>9 DEF CreditInv

-----------------------------------------------------------------------------
LEMMA CreditInit == Init => CreditInv
  <1> SUFFICES ASSUME Init PROVE CreditInv
    OBVIOUS
  <1>1. /\ \A t \in Tenant : ledger[t] = <<>> /\ \A w \in Worker : new[w][t] = <<>>
        /\ \A w \in Worker : /\ pc[w] = "idle" /\ \A p \in Payment : status[w][p] = "same"
        /\ \A p \in Payment : payment[p] = "absent"
    BY DEF Init
  <1>2. DOMAIN << >> = {}
    OBVIOUS
  <1>3. \A w \in Worker : \A t \in Tenant : SeenLedger(w, t) = <<>>
    <2>1. << >> \in Seq(Entry)
      OBVIOUS
    <2>2. << >> \o << >> = << >>
      BY <2>1, ConcatEmptySeq
    <2> QED
      BY <1>1, <2>2 DEF SeenLedger
  <1>4. Refs(<<>>) = {} /\ Once(<<>>)
    BY <1>2 DEF Refs, Once
  <1>5. AllBacked
    <2>1. ASSUME NEW t \in Tenant PROVE DOMAIN ledger[t] = {}
      <3>1. ledger[t] = << >>
        BY <1>1
      <3> QED
        BY <1>2, <3>1
    <2>2. ASSUME NEW t \in Tenant, NEW w \in Worker PROVE DOMAIN new[w][t] = {}
      <3>1. new[w][t] = << >>
        BY <1>1
      <3> QED
        BY <1>2, <3>1
    <2> QED
      BY <2>1, <2>2 DEF AllBacked
  <1>6. AllOnce
    <2>1. ASSUME NEW s, s = << >> PROVE Once(s)
      <3>1. DOMAIN s = {}
        BY <1>2, <2>1
      <3> QED
        BY <3>1 DEF Once
    <2>2. ASSUME NEW t \in Tenant PROVE Once(ledger[t])
      BY <1>1, <2>1
    <2>3. ASSUME NEW t \in Tenant, NEW w \in Worker PROVE Once(SeenLedger(w, t))
      BY <1>3, <2>1
    <2> QED
      BY <2>2, <2>3 DEF AllOnce
  <1>7. InStep
    BY <1>1, <1>3, <1>4, RoutingAssumption DEF InStep, Agrees, SeenStatus
  <1>8. Attempts
    BY <1>1 DEF Attempts, Verified, Closes
  <1> QED
    BY <1>5, <1>6, <1>7, <1>8 DEF CreditInv

LEMMA CreditNext == Ground /\ [Next]_vars => CreditInv'
  <1> SUFFICES ASSUME Ground, [Next]_vars PROVE CreditInv'
    OBVIOUS
  <1>1. Later
    BY NextLater DEF Ground
  <1>2. ASSUME NEW w \in Worker, Start(w) PROVE CreditInv'
    BY <1>2, StartCredits
  <1>3. ASSUME NEW w \in Worker, Advance(w) PROVE CreditInv'
    BY <1>1, <1>3, TakeTenantCredits, LockCredits, CreateCredits, TopupCredits,
       MoneyCredits, CardCredits DEF Advance
  <1>4. ASSUME NEW w \in Worker, Commit(w) \/ Abort(w) PROVE CreditInv'
    BY <1>1, <1>4, CommitCredits, AbortCredits
  <1>5. CASE Outside
    BY <1>1, <1>5, OutsideCredits
  <1>6. CASE UNCHANGED vars
    <2>1. Attempts'
      BY <1>6 DEF vars, Ground, CreditInv, Attempts, Verified, Closes
    <2> QED
      BY <1>1, <1>6, <2>1, QuietStep DEF vars
  <1> QED
    BY <1>2, <1>3, <1>4, <1>5, <1>6 DEF Next

\* No attempt and no account changes before a commit.
LEMMA OnlyCommitPublishes ==
  ASSUME [Next]_vars
  PROVE  \/ UNCHANGED <<account, payment>>
         \/ \E w \in Worker : Commit(w)
         \/ UNCHANGED payment /\ \E t \in Tenant : DayPasses(t)
  <1>1. ASSUME NEW w \in Worker, Start(w) PROVE UNCHANGED <<account, payment>>
    BY <1>1 DEF Start, BeginTopup, BeginSettle, BeginReturn, BeginReload, BeginMeter, BeginAdjust,
                BeginPoll, Begin, db
  <1>2. ASSUME NEW w \in Worker, Advance(w) PROVE UNCHANGED <<account, payment>>
    <2>1. CASE TakeTenant(w) \/ LockAccount(w) \/ (\E p \in Payment : PollNext(w, p))
                  \/ PollEnd(w) \/ PollSkip(w) \/ CreateTopup(w)
      BY <2>1 DEF TakeTenant, LockAccount, PollNext, PollEnd, PollSkip, CreateTopup, db
    <2>2. CASE \/ StripeSettle(w) \/ PaypalCapture(w) \/ PaypalWebhook(w)
               \/ CryptoConfirm(w) \/ CryptoExpire(w)
      BY <2>2 DEF StripeSettle, PaypalCapture, PaypalWebhook, CryptoConfirm, CryptoExpire, db
    <2>3. CASE \/ ReloadWebhook(w) \/ Adjust(w) \/ MeterFirst(w) \/ MeterUsage(w)
               \/ MeterNoReload(w) \/ MeterReload(w) \/ MeterReloadFails(w)
      BY <2>3 DEF ReloadWebhook, Adjust, MeterFirst, MeterUsage, MeterNoReload,
                  MeterReload, MeterReloadFails, db
    <2> QED
      BY <1>2, <2>1, <2>2, <2>3 DEF Advance
  <1>3. ASSUME NEW w \in Worker, Abort(w) PROVE UNCHANGED <<account, payment>>
    BY <1>3 DEF Abort, db
  <1>4. CASE Outside
    BY <1>4 DEF Outside, CustomerPays, CryptoLapses, DayPasses, db
  <1>5. CASE UNCHANGED vars
    BY <1>5 DEF vars
  <1> QED
    BY <1>1, <1>2, <1>3, <1>4, <1>5 DEF Next

\* The locks, the ledgers and the attempts agree in every state.
THEOREM CreditsHold == Spec => []Ground
  <1>1. Init => Ground
    BY TypingInit, LockInvInit, CreditInit DEF Ground
  <1>2. Ground /\ [Next]_vars => Ground'
    BY TypingNext, LockInvNext, CreditNext DEF Ground
  <1> QED
    BY <1>1, <1>2, PTL DEF Spec

\* However many webhooks, returns, polls and metering passes report a payment
\* or a card charge, one entry of one ledger carries it (credit's precheck).
THEOREM NothingCreditedTwice == Spec => []CreditedOnce
  <1>1. Ground => CreditedOnce
    <2> SUFFICES ASSUME Ground, NEW s \in Tenant, NEW t \in Tenant,
                        NEW j \in DOMAIN ledger[s], NEW k \in DOMAIN ledger[t],
                        ledger[s][j].ref = ledger[t][k].ref, ledger[s][j].ref # NoRef
                 PROVE  s = t /\ j = k
      BY DEF CreditedOnce
    <2>1. Backed(ledger[s][j], s) /\ Backed(ledger[t][k], t) /\ Once(ledger[t])
      BY DEF Ground, CreditInv, AllBacked, AllOnce
    <2>2. ledger[s][j].ref \in Payment \union Intent
      <3>1. ledger[s] \in Seq(Entry)
        BY DEF Ground, Typing, TypeOK
      <3>2. ledger[s][j] \in Entry
        BY <3>1
      <3> QED
        BY <3>2 DEF Entry, Ref
    <2>3. s = t
      BY <2>1, <2>2 DEF Backed
    <2> QED
      BY <2>1, <2>3 DEF Once
  <1> QED
    BY <1>1, CreditsHold, PTL

\* Nobody is credited what no provider took for them: the verification in
\* each rail's handler is kept until the entry is committed.
THEOREM MoneyIsBacked == Spec => []CreditsAreBacked
  <1>1. Ground => CreditsAreBacked
    BY DEF Ground, CreditInv, AllBacked, Backed, CreditsAreBacked
  <1> QED
    BY <1>1, CreditsHold, PTL

\* An attempt is completed exactly when its credit is in the ledger, whatever
\* was aborted in between (complete).
THEOREM CompletedMeansCredited == Spec => []CompletedIffCredited
  <1>1. Ground => CompletedIffCredited
    BY DEF Ground, CreditInv, InStep, CompletedIffCredited
  <1> QED
    BY <1>1, CreditsHold, PTL

\* A completed attempt stays completed, although a poll or a webhook may have
\* read it before it was (poll_pending, _lock_payment).
THEOREM CompletedStays == Spec => CompletedIsFinal
  <1>1. Ground /\ [Next]_vars =>
           [\A p \in Payment : payment[p] = "completed" => payment'[p] = "completed"]_vars
    <2> SUFFICES ASSUME Ground, [Next]_vars, NEW p \in Payment, payment[p] = "completed"
                 PROVE  payment'[p] = "completed"
      OBVIOUS
    <2>1. CASE UNCHANGED payment
      BY <2>1
    <2>2. ASSUME NEW w \in Worker, Commit(w) PROVE payment'[p] = "completed"
      <3> DEFINE t == PaymentTenant[p]
      <3>1. t \in Tenant /\ payment'[p] = SeenStatus(w, p)
        BY <2>2, RoutingAssumption DEF Commit
      <3>2. p \in Refs(ledger[t]) /\ Agrees(w, p)
        BY DEF Ground, CreditInv, InStep
      <3>3. ledger[t] \in Seq(Entry) /\ new[w][t] \in Seq(Entry)
        BY <3>1 DEF Ground, Typing, TypeOK
      <3>4. p \in Refs(SeenLedger(w, t))
        <4> DEFINE s == ledger[t]
                   u == new[w][t]
                   z == s \o u
        <4>1. s \in Seq(Entry) /\ u \in Seq(Entry) /\ p \in Refs(s)
          BY <3>2, <3>3
        <4> HIDE DEF s, u
        <4>2. \A k \in DOMAIN s : k \in DOMAIN z /\ z[k] = s[k]
          BY <4>1
        <4>3. PICK k \in DOMAIN s : s[k].ref = p
          BY <4>1 DEF Refs
        <4>4. k \in DOMAIN z /\ z[k].ref = p
          BY <4>2, <4>3
        <4> HIDE DEF z
        <4>5. p \in Refs(z)
          BY <4>1, <4>4 DEF Refs
        <4> QED
          BY <4>5 DEF SeenLedger, z, s, u
      <3> QED
        BY <3>1, <3>2, <3>4 DEF Agrees
    <2>3. \/ UNCHANGED payment
          \/ \E w \in Worker : Commit(w)
      BY OnlyCommitPublishes
    <2> QED
      BY <2>1, <2>2, <2>3
  <1> QED
    BY <1>1, CreditsHold, PTL DEF Spec, CompletedIsFinal

-----------------------------------------------------------------------------
(* The metering pass and the pause.                                        *)

\* A metering call reads its row under the lock, and is done with the pause
\* that the balance asks for, unless it only started the clock.
MeterFine(w) ==
    LET t == job[w].tenant
    IN  job[w].op = "meter" =>
           /\ pc[w] = "wait" => held[w] = {}
           /\ pc[w] = "work" => row[w][t].metered = account[t].metered
           /\ pc[w] = "done" => /\ t \in held[w]
                                /\ account[t].metered =>
                                      (row[w][t].paused <=> row[w][t].balance < 0)

MeterInv ==
    /\ \A t \in Tenant : ~account[t].exists => ~account[t].metered
    /\ \A w \in Worker : MeterFine(w)

LEMMA OneSessionMeters ==
  ASSUME MeterInv, UNCHANGED account, NEW w \in Worker, MeterFine(w)',
         \A v \in Worker \ {w} :
            pc'[v] = pc[v] /\ job'[v] = job[v] /\ held'[v] = held[v] /\ row'[v] = row[v]
  PROVE  MeterInv'
  BY DEF MeterInv, MeterFine

\* How far a session gets before its lock.
LEMMA StartStage ==
  ASSUME Typing, NEW w \in Worker, Start(w)
  PROVE  /\ pc[w] = "idle" /\ pc'[w] # "done" /\ (pc'[w] = "work" => job'[w].op # "meter")
         /\ UNCHANGED <<account, held, row>>
         /\ \A v \in Worker \ {w} : pc'[v] = pc[v] /\ job'[v] = job[v]
  <1>1. ASSUME NEW j, NEW next, Begin(w, j, next), next # "done", next = "work" => j.op # "meter"
        PROVE  /\ pc[w] = "idle" /\ pc'[w] # "done" /\ (pc'[w] = "work" => job'[w].op # "meter")
               /\ UNCHANGED <<account, held, row>>
               /\ \A v \in Worker \ {w} : pc'[v] = pc[v] /\ job'[v] = job[v]
    BY <1>1 DEF Begin, db, Typing, TypeOK
  <1>2. ASSUME NEW p \in Payment, BeginTopup(w, p)
        PROVE  \E j, next : Begin(w, j, next) /\ next # "done" /\ (next = "work" => j.op # "meter")
    <2> DEFINE j == NewJob("topup", PaymentTenant[p], p, NoIntent, {})
               next == FindAccount(PaymentTenant[p], TopupStart(p))
    <2>1. j.op # "meter" /\ next # "done" /\ Begin(w, j, next)
      BY <1>2 DEF BeginTopup, NewJob, FindAccount, TopupStart
    <2> HIDE DEF j, next
    <2> QED
      BY <2>1
  <1>3. ASSUME NEW p \in Payment, BeginSettle(w, p) \/ BeginReturn(w, p)
        PROVE  \E j, next : Begin(w, j, next) /\ next # "done" /\ (next = "work" => j.op # "meter")
    BY <1>3 DEF BeginSettle, BeginReturn
  <1>4. ASSUME NEW i \in Intent, BeginReload(w, i)
        PROVE  \E j, next : Begin(w, j, next) /\ next # "done" /\ (next = "work" => j.op # "meter")
    BY <1>4 DEF BeginReload
  <1>5. ASSUME NEW t \in Tenant, BeginMeter(w, t) \/ BeginAdjust(w, t)
        PROVE  \E j, next : Begin(w, j, next) /\ next # "done" /\ (next = "work" => j.op # "meter")
    <2>1. FindAccount(t, "wait") \in {"wait", "create"}
      BY DEF FindAccount
    <2> QED
      BY <1>5, <2>1 DEF BeginMeter, BeginAdjust
  <1>6. ASSUME BeginPoll(w)
        PROVE  \E j, next : Begin(w, j, next) /\ next # "done" /\ (next = "work" => j.op # "meter")
    BY <1>6 DEF BeginPoll
  <1>7. \E j, next : Begin(w, j, next) /\ next # "done" /\ (next = "work" => j.op # "meter")
    BY <1>2, <1>3, <1>4, <1>5, <1>6 DEF Start
  <1> QED
    BY <1>1, <1>7

LEMMA StartMeters ==
  ASSUME Typing, LockInv, MeterInv, NEW w \in Worker, Start(w)
  PROVE  MeterInv'
  <1>1. held[w] = {}
    BY StartStage DEF LockInv, StageFine
  <1>2. MeterFine(w)'
    BY <1>1, StartStage DEF MeterFine
  <1> QED
    BY <1>2, StartStage, OneSessionMeters

LEMMA AdvanceMeters ==
  ASSUME Typing, LockInv, MeterInv, NEW w \in Worker, Advance(w)
  PROVE  MeterInv'
  <1> DEFINE t == job[w].tenant
  <1>0. /\ MeterFine(w) /\ HeldFine(w) /\ StageFine(w) /\ JobFine(w) /\ job[w] \in Job
        /\ row[w] \in [Tenant -> Row] /\ account \in [Tenant -> Row]
    BY DEF MeterInv, LockInv, Typing, TypeOK, JobOK
  <1>1. ASSUME NEW r \in Row, NEW next, t \in Tenant, job[w].op = "meter",
               UNCHANGED <<account, job, held>>, pc' = [pc EXCEPT ![w] = next],
               row' = [row EXCEPT ![w][t] = r], next \in {"card", "done"},
               next = "done" => /\ t \in held[w]
                                /\ account[t].metered => (r.paused <=> r.balance < 0)
        PROVE  MeterInv'
    <2>1. /\ pc'[w] = next /\ row'[w][t] = r
          /\ \A v \in Worker \ {w} : pc'[v] = pc[v] /\ row'[v] = row[v]
      BY <1>1 DEF Typing, TypeOK
    <2>2. MeterFine(w)'
      BY <1>1, <2>1 DEF MeterFine
    <2> QED
      BY <1>1, <2>1, <2>2, OneSessionMeters
  <1>2. ASSUME job'[w].op = job[w].op, job[w].op # "meter", UNCHANGED account,
               \A v \in Worker \ {w} :
                  pc'[v] = pc[v] /\ job'[v] = job[v] /\ held'[v] = held[v] /\ row'[v] = row[v]
        PROVE  MeterInv'
    BY <1>2, OneSessionMeters DEF MeterFine
  <1>3. CASE TakeTenant(w)
    <2>1. /\ pc[w] = "create" /\ held[w] = {} /\ UNCHANGED account /\ t \in Tenant
          /\ job[w].op \in {"topup", "meter", "adjust"}
      BY <1>0, <1>3 DEF TakeTenant, StageFine, JobFine, db
    <2>2. /\ job'[w].op = job[w].op /\ job'[w].tenant = t
          /\ \A v \in Worker \ {w} : /\ pc'[v] = pc[v] /\ job'[v] = job[v]
                                     /\ held'[v] = held[v] /\ row'[v] = row[v]
      BY <1>0, <1>3 DEF TakeTenant, Post, Typing, TypeOK, Job
    <2>3. CASE job[w].op # "meter"
      BY <1>2, <2>1, <2>2, <2>3
    <2>4. CASE job[w].op = "meter" /\ account[t].exists
      <3>1. pc'[w] = "wait" /\ held'[w] = {}
        BY <1>3, <2>1, <2>4 DEF TakeTenant, Typing, TypeOK
      <3>2. MeterFine(w)'
        BY <3>1 DEF MeterFine
      <3> QED
        BY <2>1, <2>2, <3>2, OneSessionMeters
    <2>5. CASE job[w].op = "meter" /\ ~account[t].exists
      <3>1. pc'[w] = "work" /\ ~row'[w][t].metered
        BY <1>3, <2>1, <2>5 DEF TakeTenant, Post, Typing, TypeOK
      <3>2. ~account[t].metered /\ account[t].metered \in BOOLEAN /\ row'[w][t].metered = FALSE
        BY <1>0, <1>3, <2>1, <2>5 DEF MeterInv, Row, TakeTenant, Post, Typing, TypeOK
      <3>3. MeterFine(w)'
        BY <2>1, <2>2, <3>1, <3>2 DEF MeterFine
      <3> QED
        BY <2>1, <2>2, <3>3, OneSessionMeters
    <2> QED
      BY <2>3, <2>4, <2>5
  <1>4. CASE LockAccount(w)
    <2>1. /\ pc[w] = "wait" /\ UNCHANGED account /\ t \in Tenant /\ pc'[w] = "work"
          /\ row' = [row EXCEPT ![w][t] = IF t \in held[w] THEN row[w][t] ELSE account[t]]
      BY <1>0, <1>4 DEF LockAccount, JobFine, db, Typing, TypeOK
    <2>2. /\ job'[w].op = job[w].op /\ job'[w].tenant = t
          /\ \A v \in Worker \ {w} : /\ pc'[v] = pc[v] /\ job'[v] = job[v]
                                     /\ held'[v] = held[v] /\ row'[v] = row[v]
      BY <1>0, <1>4 DEF LockAccount, Typing, TypeOK, Job
    <2>3. CASE job[w].op # "meter"
      BY <1>2, <2>1, <2>2, <2>3
    <2>4. CASE job[w].op = "meter"
      <3>1. held[w] = {}
        BY <1>0, <2>1, <2>4 DEF MeterFine
      <3>2. row'[w][t] = account[t]
        BY <2>1, <3>1 DEF Typing, TypeOK
      <3>3. MeterFine(w)'
        BY <2>1, <2>2, <3>2 DEF MeterFine
      <3> QED
        BY <2>1, <2>2, <3>3, OneSessionMeters
    <2> QED
      BY <2>3, <2>4
  <1>5. CASE (\E p \in Payment : PollNext(w, p)) \/ PollEnd(w) \/ PollSkip(w)
    <2>1. job[w].op = "poll"
      BY <1>0, <1>5 DEF PollNext, PollEnd, PollSkip, JobFine
    <2>2. job'[w].op = job[w].op
      <3>1. ASSUME NEW p \in Payment, PollNext(w, p) PROVE job'[w].op = job[w].op
        BY <1>0, <3>1 DEF PollNext, Job, Typing, TypeOK
      <3>2. CASE PollEnd(w) \/ PollSkip(w)
        BY <3>2 DEF PollEnd, PollSkip
      <3> QED
        BY <1>5, <3>1, <3>2
    <2>3. \A v \in Worker \ {w} : /\ pc'[v] = pc[v] /\ job'[v] = job[v]
                                  /\ held'[v] = held[v] /\ row'[v] = row[v]
      BY <1>5 DEF PollNext, PollEnd, PollSkip, Typing, TypeOK
    <2>4. UNCHANGED account
      BY <1>5 DEF PollNext, PollEnd, PollSkip, db
    <2> QED
      BY <1>2, <2>1, <2>2, <2>3, <2>4
  <1>6. CASE \/ CreateTopup(w) \/ StripeSettle(w) \/ PaypalCapture(w) \/ PaypalWebhook(w)
             \/ CryptoConfirm(w) \/ CryptoExpire(w) \/ ReloadWebhook(w) \/ Adjust(w)
    <2>1. /\ job[w].op # "meter" /\ pc' = Resume(w) /\ UNCHANGED <<account, job, held>>
      BY <1>6 DEF CreateTopup, StripeSettle, PaypalCapture, PaypalWebhook, CryptoConfirm,
                  CryptoExpire, ReloadWebhook, Adjust, Working, db
    <2>2. \A v \in Worker \ {w} : row'[v] = row[v]
      BY <1>6 DEF CreateTopup, StripeSettle, PaypalCapture, PaypalWebhook, CryptoConfirm,
                  CryptoExpire, ReloadWebhook, Adjust, Complete, CreditOnce, Post, Typing, TypeOK
    <2>3. \A v \in Worker \ {w} : pc'[v] = pc[v]
      BY <2>1 DEF Resume, Typing, TypeOK
    <2> QED
      BY <1>2, <2>1, <2>2, <2>3
  <1>7. CASE MeterFirst(w)
    <2>1. /\ pc[w] = "work" /\ job[w].op = "meter" /\ ~row[w][t].metered /\ t \in Tenant
          /\ UNCHANGED <<account, job, held>> /\ pc' = [pc EXCEPT ![w] = "done"]
          /\ row' = [row EXCEPT ![w][t].metered = TRUE]
      BY <1>0, <1>7 DEF MeterFirst, Working, Resume, db, JobFine
    <2> DEFINE r == [row[w][t] EXCEPT !.metered = TRUE]
    <2>2. row' = [row EXCEPT ![w][t] = r] /\ r \in Row
      <3>1. row[w][t] \in Row
        BY <1>0, <2>1
      <3>2. r \in Row
        BY <3>1 DEF Row
      <3>3. row' = [row EXCEPT ![w][t] = r]
        BY <2>1
      <3> QED
        BY <3>2, <3>3
    <2>3. ~account[t].metered /\ t \in held[w]
      BY <1>0, <2>1 DEF MeterFine, StageFine
    <2> HIDE DEF r
    <2> QED
      BY <1>1, <2>1, <2>2, <2>3
  <1>8. CASE MeterUsage(w)
    <2>1. /\ pc[w] = "work" /\ job[w].op = "meter" /\ t \in Tenant
          /\ UNCHANGED <<account, job, held>> /\ pc' = [pc EXCEPT ![w] = "card"]
      BY <1>0, <1>8 DEF MeterUsage, Working, db, JobFine
    <2>2. /\ pc'[w] = "card"
          /\ \A v \in Worker \ {w} : pc'[v] = pc[v] /\ row'[v] = row[v]
      BY <1>8, <2>1 DEF MeterUsage, Post, Typing, TypeOK
    <2>3. MeterFine(w)'
      BY <2>2 DEF MeterFine
    <2> QED
      BY <2>1, <2>2, <2>3, OneSessionMeters
  <1>9. CASE MeterNoReload(w) \/ MeterReload(w) \/ MeterReloadFails(w)
    <2>1. /\ pc[w] = "card" /\ UNCHANGED <<account, job, held>>
          /\ pc' = Resume(w)
      BY <1>9 DEF MeterNoReload, MeterReload, MeterReloadFails, db
    <2>2. job[w].op = "meter" /\ t \in held[w] /\ t \in Tenant /\ row[w][t] \in Row
      BY <1>0, <2>1 DEF JobFine, StageFine
    <2>3. pc' = [pc EXCEPT ![w] = "done"]
      BY <2>1, <2>2 DEF Resume
    <2>4. row[w][t].exists /\ (row[w][t].paused => row[w][t].balance < 0)
      BY <1>0, <2>2 DEF HeldFine
    <2>5. PICK q \in Row : /\ q.exists /\ (q.paused => q.balance < 0)
                           /\ row' = [row EXCEPT ![w][t] = Settled(q)]
      <3>1. CASE MeterNoReload(w)
        BY <2>2, <2>4, <3>1 DEF MeterNoReload, Typing, TypeOK
      <3>2. CASE MeterReload(w)
        <4>1. ReloadCents \in Int
          BY AmountsAssumption
        <4> DEFINE q == Credited(row[w][t], ReloadCents)
        <4>2. q \in Row /\ q.exists /\ (q.paused => q.balance < 0)
          BY <2>2, <2>4, <4>1, CreditedRow
        <4>3. row' = [row EXCEPT ![w][t] = Settled(q)]
          BY <3>2 DEF MeterReload, Post
        <4> HIDE DEF q
        <4> QED
          BY <4>2, <4>3
      <3>3. CASE MeterReloadFails(w)
        <4> DEFINE q == [row[w][t] EXCEPT !.reloadFailed = TRUE]
        <4>1. q \in Row /\ q.exists /\ (q.paused => q.balance < 0)
          BY <2>2, <2>4 DEF Row
        <4>2. row' = [row EXCEPT ![w][t] = Settled(q)]
          BY <2>2, <3>3 DEF MeterReloadFails, Typing, TypeOK
        <4> HIDE DEF q
        <4> QED
          BY <4>1, <4>2
      <3> QED
        BY <1>9, <3>1, <3>2, <3>3
    <2> DEFINE r == Settled(q)
    <2>6. r \in Row /\ (r.paused <=> r.balance < 0)
      <3>1. r \in Row /\ r.balance = q.balance
        BY <2>5, SettledRow
      <3>2. r.paused = (q.paused \/ q.balance < 0)
        BY DEF Settled, Row
      <3> QED
        BY <2>5, <3>1, <3>2
    <2> HIDE DEF r
    <2>7. row' = [row EXCEPT ![w][t] = r]
      BY <2>5 DEF r
    <2> QED
      BY <1>1, <2>1, <2>2, <2>3, <2>6, <2>7
  <1> QED
    BY <1>3, <1>4, <1>5, <1>6, <1>7, <1>8, <1>9 DEF Advance

\* The rows a session does not hold may change under it; those it holds do not.
LEMMA EndMeters ==
  ASSUME Typing, LockInv, MeterInv, NEW w \in Worker, EndSession(w),
         \A t \in Tenant : \/ account'[t] = account[t]
                           \/ t \in held[w] /\ account'[t] = row[w][t]
  PROVE  MeterInv'
  <1>1. pc'[w] = "idle"
    BY DEF EndSession, Typing, TypeOK
  <1>2. \A t \in Tenant : ~account'[t].exists => ~account'[t].metered
    BY DEF MeterInv, LockInv, HeldFine
  <1>3. ASSUME NEW v \in Worker PROVE MeterFine(v)'
    <2>1. CASE v = w
      BY <1>1, <2>1 DEF MeterFine
    <2>2. CASE v # w
      <3>1. /\ MeterFine(v) /\ StageFine(v) /\ JobFine(v)
            /\ pc'[v] = pc[v] /\ job'[v] = job[v] /\ held'[v] = held[v] /\ row'[v] = row[v]
        BY <2>2, EndedFine DEF MeterInv, LockInv, Typing, JobOK
      <3>2. \A t \in held[v] : t \in Tenant /\ t \notin held[w]
        BY <2>2 DEF LockInv, Exclusive, Typing, TypeOK
      <3>3. \A t \in held[v] : account'[t] = account[t]
        BY <3>2
      <3>4. pc[v] = "work" /\ job[v].op = "meter" => job[v].tenant \in held[v]
        BY <3>1 DEF StageFine
      <3> QED
        BY <3>1, <3>3, <3>4 DEF MeterFine
    <2> QED
      BY <2>1, <2>2
  <1> QED
    BY <1>2, <1>3 DEF MeterInv

LEMMA DayMeters ==
  ASSUME Typing, LockInv, MeterInv, NEW u \in Tenant, DayPasses(u)
  PROVE  MeterInv'
  <1>1. /\ \A t \in Tenant : /\ account'[t].metered = account[t].metered
                             /\ account'[t].exists = account[t].exists
        /\ UNCHANGED session
    BY DEF DayPasses, Typing, TypeOK, Row
  <1>2. ASSUME NEW v \in Worker PROVE MeterFine(v)'
    <2>1. MeterFine(v) /\ StageFine(v) /\ held[v] \subseteq Tenant
      BY DEF MeterInv, LockInv, Typing, TypeOK
    <2>2. pc[v] = "work" /\ job[v].op = "meter" => job[v].tenant \in held[v]
      BY <2>1 DEF StageFine
    <2> QED
      BY <1>1, <2>1, <2>2 DEF MeterFine, session
  <1> QED
    BY <1>1, <1>2 DEF MeterInv

LEMMA MeterNext == Typing /\ LockInv /\ MeterInv /\ [Next]_vars => MeterInv'
  <1> SUFFICES ASSUME Typing, LockInv, MeterInv, [Next]_vars PROVE MeterInv'
    OBVIOUS
  <1>1. ASSUME NEW w \in Worker, Start(w) \/ Advance(w) PROVE MeterInv'
    BY <1>1, StartMeters, AdvanceMeters
  <1>2. ASSUME NEW w \in Worker, Commit(w) PROVE MeterInv'
    <2>1. EndSession(w) /\ \A t \in Tenant : \/ account'[t] = account[t]
                                             \/ t \in held[w] /\ account'[t] = row[w][t]
      BY <1>2 DEF Commit
    <2> QED
      BY <2>1, EndMeters
  <1>3. ASSUME NEW w \in Worker, Abort(w) PROVE MeterInv'
    BY <1>3, EndMeters DEF Abort, db
  <1>4. ASSUME NEW t \in Tenant, DayPasses(t) PROVE MeterInv'
    BY <1>4, DayMeters
  <1>5. CASE UNCHANGED <<account, session>>
    BY <1>5 DEF session, MeterInv, MeterFine
  <1> QED
    BY <1>1, <1>2, <1>3, <1>4, <1>5
       DEF Next, Outside, CustomerPays, CryptoLapses, db, session, vars

LEMMA MeterInit == Init => MeterInv
  BY DEF Init, MeterInv, MeterFine, NoRow, NoJob, NewJob

\* A metering pass that commits leaves its account paused exactly if it is in
\* debt, reload included, whatever other sessions committed meanwhile
\* (meter_account's tail).
THEOREM MeteringSettlesPause == Spec => MeterSettlesPause
  <1> DEFINE Metered(w) ==
               /\ pc[w] = "done" /\ pc'[w] = "idle"
               /\ job[w].op = "meter"
               /\ account[job[w].tenant].metered
               /\ account' # account
  <1>1. Ground /\ MeterInv /\ [Next]_vars =>
           [\A w \in Worker :
              Metered(w) => (account'[job[w].tenant].paused
                                <=> account'[job[w].tenant].balance < 0)]_vars
    <2> SUFFICES ASSUME Ground, MeterInv, [Next]_vars, NEW w \in Worker, Metered(w)
                 PROVE  account'[job[w].tenant].paused <=> account'[job[w].tenant].balance < 0
      OBVIOUS
    <2> DEFINE t == job[w].tenant
    <2>1. /\ t \in held[w] /\ t \in Tenant
          /\ row[w][t].paused <=> row[w][t].balance < 0
      BY DEF MeterInv, MeterFine, Ground, Typing, TypeOK
    <2>2. Commit(w)
      <3>1. ASSUME NEW v \in Worker, Commit(v) PROVE v = w
        BY <3>1 DEF Commit, EndSession, Ground, Typing, TypeOK
      <3>2. \/ \E v \in Worker : Commit(v)
            \/ \E u \in Tenant : DayPasses(u)
            \/ UNCHANGED account
        BY OnlyCommitPublishes
      <3>3. ASSUME NEW u \in Tenant, DayPasses(u) PROVE pc'[w] = pc[w]
        BY <3>3 DEF DayPasses, session
      <3> QED
        BY <3>1, <3>2, <3>3
    <2>3. account'[t] = row[w][t]
      BY <2>1, <2>2 DEF Commit
    <2> QED
      BY <2>1, <2>3
  <1>2. Init => MeterInv
    BY MeterInit
  <1>3. Ground /\ MeterInv /\ [Next]_vars => MeterInv'
    BY MeterNext DEF Ground
  <1> QED
    BY <1>1, <1>2, <1>3, CreditsHold, PTL DEF Spec, MeterSettlesPause
=============================================================================
