---------------------------- MODULE BillingProofs ----------------------------
EXTENDS Billing, SequenceTheorems, TLAPS

\* What a transaction is about is known whenever a step uses it.
JobFine(w) ==
    /\ pc[w] \in {"create", "wait", "work", "card"} => job[w].tenant \in Tenant
    /\ pc[w] \in {"create", "wait", "work"}
          /\ job[w].op \in {"topup", "settle", "capture", "poll"}
          => /\ job[w].payment \in Payment
             /\ job[w].tenant = PaymentTenant[job[w].payment]
    /\ pc[w] \in {"wait", "work"} /\ job[w].op = "reload"
          => job[w].intent \in Intent
    /\ pc[w] = "create" => job[w].op \in {"topup", "meter", "adjust"}
    /\ pc[w] = "card" => job[w].op = "meter"
    /\ pc[w] = "next" => job[w].op = "poll"

JobOK == \A w \in Worker : JobFine(w)

Typing == TypeOK /\ JobOK

LEMMA RowFields ==
    ASSUME NEW r \in Row, NEW n \in Int
    PROVE  /\ Credited(r, n) \in Row
           /\ Charged(r, n) \in Row
           /\ Settled(r) \in Row
           /\ NoRow \in Row
  <1>1. Credited(r, n) \in Row
    BY DEF Row, Credited
  <1>2. Charged(r, n) \in Row
    BY DEF Row, Charged
  <1>3. Settled(r) \in Row
    <2>1. (r.paused \/ r.balance < 0) \in BOOLEAN
      OBVIOUS
    <2>2. \A b \in BOOLEAN : [r EXCEPT !.paused = b] \in Row
      BY DEF Row
    <2> QED
      BY <2>1, <2>2 DEF Settled
  <1>4. NoRow \in Row
    BY DEF Row, NoRow
  <1> QED
    BY <1>1, <1>2, <1>3, <1>4

LEMMA NoJobType == NoJob \in Job
  BY DEF NoJob, NewJob, Job

LEMMA TypingInit == Init => Typing
  <1> SUFFICES ASSUME Init PROVE Typing
    OBVIOUS
  <1>1. NoRow \in Row
    BY DEF Row, NoRow
  <1>2. <<>> \in Seq(Entry)
    OBVIOUS
  <1>3. TypeOK
    BY <1>1, <1>2, NoJobType
       DEF Init, TypeOK, PCs, PaymentStatus, ProviderStatus
  <1>4. JobOK
    BY DEF Init, JobOK, JobFine, NoJob, NewJob
  <1> QED
    BY <1>3, <1>4 DEF Typing

\* A step of one session says nothing about what the others are doing.
LEMMA OneSessionMoves ==
    ASSUME Typing, NEW w \in Worker,
           \A v \in Worker \ {w} : pc'[v] = pc[v] /\ job'[v] = job[v],
           JobFine(w)'
    PROVE  JobOK'
  <1> SUFFICES ASSUME NEW v \in Worker PROVE JobFine(v)'
    BY DEF JobOK
  <1> CASE v = w
    OBVIOUS
  <1> CASE v # w
    BY DEF Typing, JobOK, JobFine
  <1> QED
    OBVIOUS

LEMMA TypingBegin ==
    ASSUME Typing, NEW w \in Worker, NEW j \in Job, NEW next \in PCs,
           Begin(w, j, next),
           next \in {"create", "wait", "work"} => j.tenant \in Tenant,
           next # "card",
           next \in {"create", "wait", "work"}
               /\ j.op \in {"topup", "settle", "capture", "poll"}
               => j.payment \in Payment /\ j.tenant = PaymentTenant[j.payment],
           next \in {"wait", "work"} /\ j.op = "reload" => j.intent \in Intent,
           next = "create" => j.op \in {"topup", "meter", "adjust"},
           next = "next" => j.op = "poll"
    PROVE  Typing'
  <1>1. TypeOK'
    BY DEF Typing, TypeOK, Begin, db, world
  <1>2. pc'[w] = next /\ job'[w] = j
    BY DEF Typing, TypeOK, Begin
  <1>3. \A v \in Worker \ {w} : pc'[v] = pc[v] /\ job'[v] = job[v]
    BY DEF Typing, TypeOK, Begin
  <1>4. JobFine(w)'
    BY <1>2 DEF JobFine
  <1> QED
    BY <1>1, <1>3, <1>4, OneSessionMoves DEF Typing

LEMMA NewJobType ==
    ASSUME NEW op \in OpNames, NEW t \in Tenant \union {NoTenant},
           NEW p \in Payment \union {NoPayment},
           NEW i \in Intent \union {NoIntent}, NEW todo \in SUBSET Payment
    PROVE  NewJob(op, t, p, i, todo) \in Job
  BY DEF NewJob, Job

LEMMA TypingStart ==
    ASSUME Typing, NEW w \in Worker, Start(w)
    PROVE  Typing'
  <1>1. ASSUME NEW p \in Payment, BeginTopup(w, p)
        PROVE  Typing'
    <2> DEFINE j == NewJob("topup", PaymentTenant[p], p, NoIntent, {})
               next == FindAccount(PaymentTenant[p], TopupStart(p))
    <2>1. PaymentTenant[p] \in Tenant
      BY RoutingAssumption
    <2>2. j \in Job
      BY <2>1, NewJobType DEF OpNames
    <2>3. next \in {"create", "wait", "work"}
      BY DEF FindAccount, TopupStart
    <2>4. /\ j.op = "topup" /\ j.tenant = PaymentTenant[p] /\ j.payment = p
      BY DEF NewJob
    <2>5. Begin(w, j, next)
      BY <1>1 DEF BeginTopup
    <2> HIDE DEF j, next
    <2> QED
      BY <2>1, <2>2, <2>3, <2>4, <2>5, TypingBegin DEF PCs
  <1>2. ASSUME NEW p \in Payment, BeginSettle(w, p) \/ BeginReturn(w, p)
        PROVE  Typing'
    <2> DEFINE j(op) == NewJob(op, PaymentTenant[p], p, NoIntent, {})
    <2>1. PaymentTenant[p] \in Tenant
      BY RoutingAssumption
    <2>2. PICK op \in {"settle", "capture"} : Begin(w, j(op), "wait")
      BY <1>2 DEF BeginSettle, BeginReturn
    <2>3. j(op) \in Job
      BY <2>1, NewJobType DEF OpNames
    <2>4. j(op).op = op /\ j(op).tenant = PaymentTenant[p] /\ j(op).payment = p
      BY DEF NewJob
    <2> HIDE DEF j
    <2> QED
      BY <2>1, <2>2, <2>3, <2>4, TypingBegin DEF PCs
  <1>3. ASSUME NEW i \in Intent, BeginReload(w, i)
        PROVE  Typing'
    <2> DEFINE j == NewJob("reload", intent[i], NoPayment, i, {})
    <2>1. intent[i] \in Tenant
      BY <1>3 DEF BeginReload, Typing, TypeOK
    <2>2. j \in Job
      BY <2>1, NewJobType DEF OpNames
    <2>3. j.op = "reload" /\ j.tenant = intent[i] /\ j.intent = i
      BY DEF NewJob
    <2>4. Begin(w, j, "wait")
      BY <1>3 DEF BeginReload
    <2> HIDE DEF j
    <2> QED
      BY <2>1, <2>2, <2>3, <2>4, TypingBegin DEF PCs
  <1>4. ASSUME NEW t \in Tenant, BeginMeter(w, t) \/ BeginAdjust(w, t)
        PROVE  Typing'
    <2> DEFINE j(op) == NewJob(op, t, NoPayment, NoIntent, {})
               next == FindAccount(t, "wait")
    <2>1. PICK op \in {"meter", "adjust"} : Begin(w, j(op), next)
      BY <1>4 DEF BeginMeter, BeginAdjust
    <2>2. j(op) \in Job
      BY NewJobType DEF OpNames
    <2>3. j(op).op = op /\ j(op).tenant = t
      BY DEF NewJob
    <2>4. next \in {"create", "wait"}
      BY DEF FindAccount
    <2> HIDE DEF j, next
    <2> QED
      BY <2>1, <2>2, <2>3, <2>4, TypingBegin DEF PCs
  <1>5. ASSUME BeginPoll(w)
        PROVE  Typing'
    <2> DEFINE j == NewJob("poll", NoTenant, NoPayment, NoIntent,
                           {p \in Payment : PaymentRail[p] = "crypto"
                                               /\ payment[p] = "pending"})
    <2>1. j \in Job
      BY NewJobType DEF OpNames
    <2>2. Begin(w, j, "next") /\ j.op = "poll"
      BY <1>5 DEF BeginPoll, NewJob
    <2> HIDE DEF j
    <2> QED
      BY <2>1, <2>2, TypingBegin DEF PCs
  <1> QED
    BY <1>1, <1>2, <1>3, <1>4, <1>5 DEF Start

LEMMA TypingPost ==
    ASSUME Typing, NEW w \in Worker, NEW t \in Tenant, NEW r \in Row,
           NEW k \in {"grant", "topup", "charge", "adjustment"},
           NEW n \in Int, NEW ref \in Ref \union {NoRef},
           Post(w, t, r, k, n, ref)
    PROVE  /\ row' \in [Worker -> [Tenant -> Row]]
           /\ new' \in [Worker -> [Tenant -> Seq(Entry)]]
  <1> DEFINE e == [kind |-> k, cents |-> n, after |-> r.balance, ref |-> ref]
  <1>1. e \in Entry
    BY DEF Entry, Row
  <1>2. Append(new[w][t], e) \in Seq(Entry)
    BY <1>1 DEF Typing, TypeOK
  <1>3. row' \in [Worker -> [Tenant -> Row]]
    BY DEF Post, Typing, TypeOK
  <1>4. new' = [new EXCEPT ![w][t] = Append(@, e)]
    BY DEF Post
  <1>5. new \in [Worker -> [Tenant -> Seq(Entry)]]
    BY DEF Typing, TypeOK
  <1> HIDE DEF e
  <1>6. new' \in [Worker -> [Tenant -> Seq(Entry)]]
    BY <1>2, <1>4, <1>5
  <1> QED
    BY <1>3, <1>6

\* A step that ends a unit of work leaves the jobs alone.
LEMMA ResumeKeepsJobs ==
    ASSUME Typing, NEW w \in Worker, pc' = Resume(w), UNCHANGED job
    PROVE  /\ pc' \in [Worker -> PCs]
           /\ JobOK'
  <1>1. pc'[w] \in {"next", "done"} /\ (pc'[w] = "next" => job[w].op = "poll")
    BY DEF Typing, TypeOK, Resume
  <1>2. \A v \in Worker \ {w} : pc'[v] = pc[v] /\ job'[v] = job[v]
    BY DEF Typing, TypeOK, Resume
  <1>3. JobFine(w)'
    BY <1>1 DEF JobFine
  <1>4. pc' \in [Worker -> PCs]
    BY DEF Typing, TypeOK, Resume, PCs
  <1> QED
    BY <1>2, <1>3, <1>4, OneSessionMoves

LEMMA TypingCreditOnce ==
    ASSUME Typing, NEW w \in Worker, NEW t \in Tenant, NEW n \in Int,
           NEW ref \in Ref, CreditOnce(w, t, n, ref)
    PROVE  /\ row' \in [Worker -> [Tenant -> Row]]
           /\ new' \in [Worker -> [Tenant -> Seq(Entry)]]
  <1>1. CASE UNCHANGED <<row, new>>
    BY <1>1 DEF Typing, TypeOK
  <1>2. CASE Post(w, t, Credited(row[w][t], n), "topup", n, ref)
    <2>1. row[w][t] \in Row
      BY DEF Typing, TypeOK
    <2>2. Credited(row[w][t], n) \in Row
      BY <2>1, RowFields
    <2> QED
      BY <1>2, <2>2, TypingPost
  <1> QED
    BY <1>1, <1>2 DEF CreditOnce

LEMMA TypingComplete ==
    ASSUME Typing, NEW w \in Worker, NEW p \in Payment, Complete(w, p)
    PROVE  /\ row' \in [Worker -> [Tenant -> Row]]
           /\ new' \in [Worker -> [Tenant -> Seq(Entry)]]
           /\ status' \in [Worker -> [Payment -> PaymentStatus \union {"same"}]]
  <1>1. CASE UNCHANGED <<row, new, status>>
    BY <1>1 DEF Typing, TypeOK
  <1>2. CASE /\ CreditOnce(w, PaymentTenant[p], PaymentCents[p], p)
             /\ status' = [status EXCEPT ![w][p] = "completed"]
    <2>1. /\ PaymentTenant[p] \in Tenant
          /\ PaymentCents[p] \in Int
          /\ p \in Ref
      BY AmountsAssumption, RoutingAssumption DEF Ref
    <2>2. status' \in [Worker -> [Payment -> PaymentStatus \union {"same"}]]
      BY <1>2 DEF Typing, TypeOK, PaymentStatus
    <2> QED
      BY <1>2, <2>1, <2>2, TypingCreditOnce
  <1> QED
    BY <1>1, <1>2 DEF Complete

LEMMA TypingLocks ==
    ASSUME Typing, NEW w \in Worker, TakeTenant(w) \/ LockAccount(w)
    PROVE  Typing'
  <1> DEFINE t == job[w].tenant
  <1>1. ASSUME TakeTenant(w)
        PROVE  Typing'
    <2>1. /\ t \in Tenant
          /\ job[w].op \in {"topup", "meter", "adjust"}
          /\ job[w].op = "topup" => /\ job[w].payment \in Payment
                                    /\ t = PaymentTenant[job[w].payment]
          /\ job[w] \in Job
      BY <1>1 DEF TakeTenant, Typing, TypeOK, JobOK, JobFine
    <2>2. CASE account[t].exists
      <3> DEFINE next == IF job[w].op = "topup"
                           THEN TopupStart(job[w].payment) ELSE "wait"
      <3>1. /\ job' = [job EXCEPT ![w].parent = TRUE]
            /\ pc' = [pc EXCEPT ![w] = next]
            /\ UNCHANGED <<db, world, held, row, new, status>>
        BY <1>1, <2>2 DEF TakeTenant
      <3>2. next \in {"wait", "work"}
        BY DEF TopupStart
      <3> HIDE DEF next
      <3>3. [job[w] EXCEPT !.parent = TRUE] \in Job
        BY <2>1 DEF Job
      <3>4. job' \in [Worker -> Job]
        BY <3>1, <3>3 DEF Typing, TypeOK
      <3>5. TypeOK'
        BY <3>1, <3>2, <3>4 DEF Typing, TypeOK, PCs, db, world
      <3>6. job'[w].tenant = t /\ job'[w].op = job[w].op
              /\ job'[w].payment = job[w].payment /\ pc'[w] = next
        BY <2>1, <3>1 DEF Typing, TypeOK, Job
      <3>7. JobFine(w)'
        BY <2>1, <3>2, <3>6 DEF JobFine
      <3>8. \A v \in Worker \ {w} : pc'[v] = pc[v] /\ job'[v] = job[v]
        BY <3>1 DEF Typing, TypeOK
      <3> QED
        BY <3>5, <3>7, <3>8, OneSessionMoves DEF Typing
    <2>3. CASE ~account[t].exists
      <3> DEFINE granted == [exists |-> TRUE, balance |-> WelcomeCents,
                             paused |-> FALSE, metered |-> FALSE,
                             reloadFailed |-> FALSE]
                 j1 == [job[w] EXCEPT !.parent = TRUE]
                 j2 == [j1 EXCEPT !.born = TRUE]
      <3>1. /\ job' = [job EXCEPT ![w].parent = TRUE, ![w].born = TRUE]
            /\ pc' = [pc EXCEPT ![w] = "work"]
            /\ held' = [held EXCEPT ![w] = @ \union {t}]
            /\ Post(w, t, granted, "grant", WelcomeCents, NoRef)
            /\ UNCHANGED <<db, world, status>>
        BY <1>1, <2>3 DEF TakeTenant
      <3>2. granted \in Row /\ WelcomeCents \in Int
        BY AmountsAssumption DEF Row
      <3> HIDE DEF granted
      <3>3. /\ row' \in [Worker -> [Tenant -> Row]]
            /\ new' \in [Worker -> [Tenant -> Seq(Entry)]]
        BY <2>1, <3>1, <3>2, TypingPost
      <3>4. j1 \in Job
        BY <2>1 DEF Job
      <3>5. j2 \in Job
        BY <3>4 DEF Job
      <3>6. job' = [job EXCEPT ![w] = j2]
        BY <3>1 DEF Typing, TypeOK
      <3>7. j2.tenant = t /\ j2.op = job[w].op /\ j2.payment = job[w].payment
        BY <2>1 DEF Job
      <3> HIDE DEF j1, j2
      <3>8. TypeOK'
        <4>1. job' \in [Worker -> Job]
          BY <3>5, <3>6 DEF Typing, TypeOK
        <4>2. pc' \in [Worker -> PCs] /\ held' \in [Worker -> SUBSET Tenant]
          BY <2>1, <3>1 DEF Typing, TypeOK, PCs
        <4> QED
          BY <3>1, <3>3, <4>1, <4>2 DEF Typing, TypeOK, db, world
      <3>9. job'[w] = j2 /\ pc'[w] = "work"
        BY <3>1, <3>6 DEF Typing, TypeOK
      <3>10. JobFine(w)'
        BY <2>1, <3>7, <3>9 DEF JobFine
      <3>11. \A v \in Worker \ {w} : pc'[v] = pc[v] /\ job'[v] = job[v]
        BY <3>1, <3>6 DEF Typing, TypeOK
      <3> QED
        BY <3>8, <3>10, <3>11, OneSessionMoves DEF Typing
    <2> QED
      BY <2>2, <2>3
  <1>2. ASSUME LockAccount(w)
        PROVE  Typing'
    <2>1. t \in Tenant /\ job[w] \in Job /\ held[w] \in SUBSET Tenant
            /\ JobFine(w) /\ pc[w] = "wait"
      BY <1>2 DEF LockAccount, Typing, TypeOK, JobOK, JobFine
    <2> DEFINE j == [job[w] EXCEPT !.base = held[w]]
    <2>2. j \in Job
      BY <2>1 DEF Job
    <2>3. /\ job' = [job EXCEPT ![w] = j]
          /\ pc' = [pc EXCEPT ![w] = "work"]
          /\ held' = [held EXCEPT ![w] = @ \union {t}]
          /\ row' = [row EXCEPT ![w][t] = IF t \in held[w] THEN row[w][t]
                                                         ELSE account[t]]
          /\ UNCHANGED <<db, world, new, status>>
      BY <1>2 DEF LockAccount, Typing, TypeOK
    <2>4. /\ j.tenant = t /\ j.op = job[w].op /\ j.payment = job[w].payment
          /\ j.intent = job[w].intent
      BY <2>1 DEF Job
    <2> HIDE DEF j
    <2>5. row' \in [Worker -> [Tenant -> Row]]
      BY <2>1, <2>3 DEF Typing, TypeOK
    <2>6. TypeOK'
      BY <2>1, <2>2, <2>3, <2>5 DEF Typing, TypeOK, PCs, db, world
    <2>7. job'[w] = j /\ pc'[w] = "work"
      BY <2>3 DEF Typing, TypeOK
    <2>8. JobFine(w)'
      BY <2>1, <2>4, <2>7 DEF JobFine
    <2>9. \A v \in Worker \ {w} : pc'[v] = pc[v] /\ job'[v] = job[v]
      BY <2>3 DEF Typing, TypeOK
    <2> QED
      BY <2>6, <2>8, <2>9, OneSessionMoves DEF Typing
  <1> QED
    BY <1>1, <1>2

LEMMA TypingPoll ==
    ASSUME Typing, NEW w \in Worker,
           (\E p \in Payment : PollNext(w, p)) \/ PollEnd(w) \/ PollSkip(w)
    PROVE  Typing'
  <1>1. ASSUME NEW p \in Payment, PollNext(w, p)
        PROVE  Typing'
    <2> DEFINE j1 == [job[w] EXCEPT !.payment = p]
               j2 == [j1 EXCEPT !.tenant = PaymentTenant[p]]
               j3 == [j2 EXCEPT !.todo = job[w].todo \ {p}]
    <2>1. job[w] \in Job /\ PaymentTenant[p] \in Tenant
      BY RoutingAssumption DEF Typing, TypeOK
    <2>2. j1 \in Job /\ j1.payment = p /\ j1.op = job[w].op
            /\ j1.todo = job[w].todo
      BY <2>1 DEF Job
    <2>3. j2 \in Job /\ j2.payment = p /\ j2.op = job[w].op
            /\ j2.tenant = PaymentTenant[p] /\ j2.todo = job[w].todo
      BY <2>1, <2>2 DEF Job
    <2>4. j3 \in Job /\ j3.payment = p /\ j3.op = job[w].op
            /\ j3.tenant = PaymentTenant[p]
      BY <2>1, <2>3 DEF Job
    <2>5. job' = [job EXCEPT ![w] = j3]
      BY <1>1, <2>2, <2>3 DEF PollNext, Typing, TypeOK
    <2>6. /\ pc' = [pc EXCEPT ![w] = "wait"]
          /\ UNCHANGED <<db, world, held, row, new, status>>
      BY <1>1 DEF PollNext
    <2>7. job[w].op = "poll"
      BY <1>1 DEF PollNext, Typing, JobOK, JobFine
    <2> HIDE DEF j1, j2, j3
    <2>8. TypeOK'
      BY <2>4, <2>5, <2>6 DEF Typing, TypeOK, PCs, db, world
    <2>9. job'[w] = j3 /\ pc'[w] = "wait"
      BY <2>5, <2>6 DEF Typing, TypeOK
    <2>10. JobFine(w)'
      BY <2>1, <2>4, <2>7, <2>9 DEF JobFine
    <2>11. \A v \in Worker \ {w} : pc'[v] = pc[v] /\ job'[v] = job[v]
      BY <2>5, <2>6 DEF Typing, TypeOK
    <2> QED
      BY <2>8, <2>10, <2>11, OneSessionMoves DEF Typing
  <1>2. ASSUME PollEnd(w)
        PROVE  Typing'
    <2>1. TypeOK'
      BY <1>2 DEF PollEnd, Typing, TypeOK, PCs, db, world
    <2>2. JobFine(w)'
      BY <1>2 DEF PollEnd, Typing, TypeOK, JobFine
    <2>3. \A v \in Worker \ {w} : pc'[v] = pc[v] /\ job'[v] = job[v]
      BY <1>2 DEF PollEnd, Typing, TypeOK
    <2> QED
      BY <2>1, <2>2, <2>3, OneSessionMoves DEF Typing
  <1>3. ASSUME PollSkip(w)
        PROVE  Typing'
    <2>1. job[w] \in Job /\ job[w].op = "poll"
      BY <1>3 DEF PollSkip, Typing, TypeOK
    <2>2. job[w].base \in SUBSET Tenant
      BY <2>1 DEF Job
    <2>3. held' \in [Worker -> SUBSET Tenant]
      BY <1>3, <2>2 DEF PollSkip, Typing, TypeOK
    <2>4. row' \in [Worker -> [Tenant -> Row]]
      <3>1. NoRow \in Row
        BY DEF Row, NoRow
      <3> QED
        BY <1>3, <3>1 DEF PollSkip, Typing, TypeOK
    <2>5. TypeOK'
      BY <1>3, <2>3, <2>4 DEF PollSkip, Typing, TypeOK, PCs, db, world
    <2>6. JobFine(w)'
      BY <1>3, <2>1 DEF PollSkip, Typing, TypeOK, JobFine
    <2>7. \A v \in Worker \ {w} : pc'[v] = pc[v] /\ job'[v] = job[v]
      BY <1>3 DEF PollSkip, Typing, TypeOK
    <2> QED
      BY <2>5, <2>6, <2>7, OneSessionMoves DEF Typing
  <1> QED
    BY <1>1, <1>2, <1>3

LEMMA TypingTopups ==
    ASSUME Typing, NEW w \in Worker,
           \/ CreateTopup(w) \/ StripeSettle(w) \/ PaypalCapture(w) \/ PaypalWebhook(w)
           \/ CryptoConfirm(w) \/ CryptoExpire(w)
    PROVE  Typing'
  <1> DEFINE p == job[w].payment
  <1>1. ASSUME CreateTopup(w)
        PROVE  Typing'
    BY <1>1, ResumeKeepsJobs
       DEF CreateTopup, Typing, TypeOK, PaymentStatus, ProviderStatus, db
  <1>2. ASSUME StripeSettle(w)
        PROVE  Typing'
    <2>1. p \in Payment
      BY <1>2 DEF StripeSettle, Working, Typing, JobOK, JobFine
    <2> QED
      BY <1>2, <2>1, ResumeKeepsJobs, TypingComplete
         DEF StripeSettle, Typing, TypeOK, db, world
  <1>3. ASSUME PaypalCapture(w)
        PROVE  Typing'
    <2>1. p \in Payment
      BY <1>3 DEF PaypalCapture, Working, Typing, JobOK, JobFine
    <2>2. /\ row' \in [Worker -> [Tenant -> Row]]
          /\ new' \in [Worker -> [Tenant -> Seq(Entry)]]
          /\ status' \in [Worker -> [Payment -> PaymentStatus \union {"same"}]]
          /\ provider' \in [Payment -> ProviderStatus]
      <3>1. CASE UNCHANGED <<provider, row, new, status>>
        BY <3>1 DEF Typing, TypeOK
      <3>2. CASE /\ provider' = [provider EXCEPT ![p] = "paid"]
                 /\ Complete(w, p)
        BY <2>1, <3>2, TypingComplete DEF Typing, TypeOK, ProviderStatus
      <3> QED
        BY <1>3, <3>1, <3>2 DEF PaypalCapture
    <2> QED
      BY <1>3, <2>2, ResumeKeepsJobs DEF PaypalCapture, Typing, TypeOK, db
  <1>4. ASSUME CryptoConfirm(w)
        PROVE  Typing'
    <2>1. p \in Payment
      BY <1>4 DEF CryptoConfirm, Working, Typing, JobOK, JobFine
    <2>2. /\ row' \in [Worker -> [Tenant -> Row]]
          /\ new' \in [Worker -> [Tenant -> Seq(Entry)]]
          /\ status' \in [Worker -> [Payment -> PaymentStatus \union {"same"}]]
      <3>1. CASE UNCHANGED <<row, new, status>>
        BY <3>1 DEF Typing, TypeOK
      <3>2. CASE Complete(w, p)
        BY <2>1, <3>2, TypingComplete
      <3>3. CASE /\ status' = [status EXCEPT ![w][p] = "expired"]
                 /\ UNCHANGED <<row, new>>
        BY <3>3 DEF Typing, TypeOK, PaymentStatus
      <3> QED
        BY <1>4, <3>1, <3>2, <3>3 DEF CryptoConfirm
    <2> QED
      BY <1>4, <2>2, ResumeKeepsJobs DEF CryptoConfirm, Typing, TypeOK, db, world
  <1>5. ASSUME CryptoExpire(w)
        PROVE  Typing'
    BY <1>5, ResumeKeepsJobs
       DEF CryptoExpire, Typing, TypeOK, PaymentStatus, db, world
  <1>6. ASSUME PaypalWebhook(w)
        PROVE  Typing'
    <2>1. p \in Payment
      BY <1>6 DEF PaypalWebhook, Working, Typing, JobOK, JobFine
    <2> QED
      BY <1>6, <2>1, ResumeKeepsJobs, TypingComplete
         DEF PaypalWebhook, Typing, TypeOK, db, world
  <1> QED
    BY <1>1, <1>2, <1>3, <1>4, <1>5, <1>6

LEMMA TypingMoney ==
    ASSUME Typing, NEW w \in Worker,
           \/ ReloadWebhook(w) \/ Adjust(w) \/ MeterFirst(w) \/ MeterUsage(w)
           \/ MeterNoReload(w) \/ MeterReload(w) \/ MeterReloadFails(w)
    PROVE  Typing'
  <1> DEFINE t == job[w].tenant
             r == row[w][t]
  <1>0. t \in Tenant /\ r \in Row
    BY DEF ReloadWebhook, Adjust, MeterFirst, MeterUsage, MeterNoReload,
           MeterReload, MeterReloadFails, Working, Typing, TypeOK, JobOK, JobFine
  <1>1. ASSUME ReloadWebhook(w)
        PROVE  Typing'
    <2>1. job[w].intent \in Ref /\ ReloadCents \in Int
      BY <1>1, AmountsAssumption
         DEF ReloadWebhook, Working, Typing, JobOK, JobFine, Ref
    <2>2. CreditOnce(w, t, ReloadCents, job[w].intent)
      BY <1>1 DEF ReloadWebhook
    <2>3. /\ row' \in [Worker -> [Tenant -> Row]]
          /\ new' \in [Worker -> [Tenant -> Seq(Entry)]]
      BY <1>0, <2>1, <2>2, TypingCreditOnce
    <2> QED
      BY <1>1, <2>3, ResumeKeepsJobs DEF ReloadWebhook, Typing, TypeOK, db, world
  <1>2. ASSUME Adjust(w)
        PROVE  Typing'
    <2>1. PICK n \in AdjustCents :
             Post(w, t, IF n > 0 THEN Credited(r, n) ELSE Charged(r, -n),
                  "adjustment", n, NoRef)
      BY <1>2 DEF Adjust
    <2>2. n \in Int
      BY AmountsAssumption
    <2>3. Credited(r, n) \in Row /\ Charged(r, -n) \in Row
      BY <1>0, <2>2, RowFields
    <2>4. /\ row' \in [Worker -> [Tenant -> Row]]
          /\ new' \in [Worker -> [Tenant -> Seq(Entry)]]
      BY <1>0, <2>1, <2>2, <2>3, TypingPost
    <2> QED
      BY <1>2, <2>4, ResumeKeepsJobs DEF Adjust, Typing, TypeOK, db, world
  <1>3. ASSUME MeterFirst(w)
        PROVE  Typing'
    <2>1. [r EXCEPT !.metered = TRUE] \in Row
      BY <1>0 DEF Row
    <2>2. row' = [row EXCEPT ![w][t] = [r EXCEPT !.metered = TRUE]]
      BY <1>3, <1>0 DEF MeterFirst, Typing, TypeOK
    <2>3. row' \in [Worker -> [Tenant -> Row]]
      BY <2>1, <2>2 DEF Typing, TypeOK
    <2> QED
      BY <1>3, <2>3, ResumeKeepsJobs DEF MeterFirst, Typing, TypeOK, db, world
  <1>4. ASSUME MeterUsage(w)
        PROVE  Typing'
    <2>1. /\ row' \in [Worker -> [Tenant -> Row]]
          /\ new' \in [Worker -> [Tenant -> Seq(Entry)]]
      <3>1. CASE UNCHANGED <<row, new>>
        BY <3>1 DEF Typing, TypeOK
      <3>2. ASSUME NEW n \in UsageCents,
                   Post(w, t, Charged(r, n), "charge", -n, NoRef)
            PROVE  /\ row' \in [Worker -> [Tenant -> Row]]
                   /\ new' \in [Worker -> [Tenant -> Seq(Entry)]]
        <4>1. n \in Int /\ -n \in Int
          BY AmountsAssumption
        <4>2. Charged(r, n) \in Row
          BY <1>0, <4>1, RowFields
        <4> QED
          BY <1>0, <3>2, <4>1, <4>2, TypingPost
      <3> QED
        BY <1>4, <3>1, <3>2 DEF MeterUsage
    <2>2. TypeOK'
      BY <1>4, <2>1 DEF MeterUsage, Typing, TypeOK, PCs, db, world
    <2>3. JobFine(w)'
      BY <1>0, <1>4 DEF MeterUsage, Working, Typing, TypeOK, JobFine
    <2>4. \A v \in Worker \ {w} : pc'[v] = pc[v] /\ job'[v] = job[v]
      BY <1>4 DEF MeterUsage, Typing, TypeOK
    <2> QED
      BY <2>2, <2>3, <2>4, OneSessionMoves DEF Typing
  <1>5. ASSUME MeterNoReload(w)
        PROVE  Typing'
    <2>1. Settled(r) \in Row
      BY <1>0, RowFields
    <2>2. row' = [row EXCEPT ![w][t] = Settled(r)]
      BY <1>0, <1>5 DEF MeterNoReload, Typing, TypeOK
    <2>3. row' \in [Worker -> [Tenant -> Row]]
      BY <2>1, <2>2 DEF Typing, TypeOK
    <2> QED
      BY <1>5, <2>3, ResumeKeepsJobs DEF MeterNoReload, Typing, TypeOK, db, world
  <1>6. ASSUME MeterReload(w)
        PROVE  Typing'
    <2>1. PICK i \in Intent :
             /\ intent' = [intent EXCEPT ![i] = t]
             /\ Post(w, t, Settled(Credited(r, ReloadCents)), "topup",
                     ReloadCents, i)
      BY <1>6 DEF MeterReload
    <2>2. ReloadCents \in Int /\ i \in Ref
      BY AmountsAssumption DEF Ref
    <2>3. Settled(Credited(r, ReloadCents)) \in Row
      BY <1>0, <2>2, RowFields
    <2>4. /\ row' \in [Worker -> [Tenant -> Row]]
          /\ new' \in [Worker -> [Tenant -> Seq(Entry)]]
      BY <1>0, <2>1, <2>2, <2>3, TypingPost
    <2> QED
      BY <1>0, <1>6, <2>1, <2>4, ResumeKeepsJobs
         DEF MeterReload, Typing, TypeOK, db
  <1>7. ASSUME MeterReloadFails(w)
        PROVE  Typing'
    <2> DEFINE f == [r EXCEPT !.reloadFailed = TRUE]
    <2>1. f \in Row
      BY <1>0 DEF Row
    <2>2. row' = [row EXCEPT ![w][t] = Settled(f)]
      BY <1>0, <1>7 DEF MeterReloadFails, Typing, TypeOK
    <2> HIDE DEF f
    <2>3. Settled(f) \in Row
      BY <2>1, RowFields
    <2>4. row' \in [Worker -> [Tenant -> Row]]
      BY <2>2, <2>3 DEF Typing, TypeOK
    <2>5. intent' \in [Intent -> Tenant \union {NoTenant}]
      BY <1>0, <1>7 DEF MeterReloadFails, Typing, TypeOK
    <2> QED
      BY <1>7, <2>4, <2>5, ResumeKeepsJobs
         DEF MeterReloadFails, Typing, TypeOK, db
  <1> QED
    BY <1>1, <1>2, <1>3, <1>4, <1>5, <1>6, <1>7

LEMMA TypingEnd ==
    ASSUME Typing, NEW w \in Worker, Commit(w) \/ Abort(w)
    PROVE  Typing'
  <1>1. EndSession(w)
    BY DEF Commit, Abort
  <1>2. /\ pc' \in [Worker -> PCs]
        /\ job' \in [Worker -> Job]
        /\ held' \in [Worker -> SUBSET Tenant]
        /\ status' \in [Worker -> [Payment -> PaymentStatus \union {"same"}]]
    BY <1>1, NoJobType DEF EndSession, Typing, TypeOK, PCs
  <1>3. row' \in [Worker -> [Tenant -> Row]]
    <2>1. NoRow \in Row
      BY DEF Row, NoRow
    <2> QED
      BY <1>1, <2>1 DEF EndSession, Typing, TypeOK
  <1>4. new' \in [Worker -> [Tenant -> Seq(Entry)]]
    <2>1. <<>> \in Seq(Entry)
      OBVIOUS
    <2> QED
      BY <1>1, <2>1 DEF EndSession, Typing, TypeOK
  <1>5. /\ account' \in [Tenant -> Row]
        /\ ledger' \in [Tenant -> Seq(Entry)]
        /\ payment' \in [Payment -> PaymentStatus]
        /\ UNCHANGED world
    <2>1. CASE Abort(w)
      BY <2>1 DEF Abort, Typing, TypeOK, db
    <2>2. CASE Commit(w)
      <3>1. \A t \in Tenant : SeenLedger(w, t) \in Seq(Entry)
        BY DEF SeenLedger, Typing, TypeOK
      <3>2. \A p \in Payment : SeenStatus(w, p) \in PaymentStatus
        BY DEF SeenStatus, Typing, TypeOK, PaymentStatus
      <3> QED
        BY <2>2, <3>1, <3>2 DEF Commit, Typing, TypeOK
    <2> QED
      BY <2>1, <2>2
  <1>6. TypeOK'
    BY <1>2, <1>3, <1>4, <1>5 DEF Typing, TypeOK, world
  <1>7. pc'[w] = "idle"
    BY <1>1 DEF EndSession, Typing, TypeOK
  <1>8. JobFine(w)'
    BY <1>7 DEF JobFine
  <1>9. \A v \in Worker \ {w} : pc'[v] = pc[v] /\ job'[v] = job[v]
    BY <1>1 DEF EndSession, Typing, TypeOK
  <1> QED
    BY <1>6, <1>8, <1>9, OneSessionMoves DEF Typing

LEMMA TypingOutside == Typing /\ Outside => Typing'
  <1> SUFFICES ASSUME Typing, Outside PROVE Typing'
    OBVIOUS
  <1>0. ASSUME UNCHANGED session PROVE JobOK'
    BY <1>0 DEF session, Typing, JobOK, JobFine
  <1>1. ASSUME NEW p \in Payment, CustomerPays(p) \/ CryptoLapses(p)
        PROVE  Typing'
    <2>1. UNCHANGED <<db, intent, session>>
      BY <1>1 DEF CustomerPays, CryptoLapses
    <2>2. \E s \in ProviderStatus : provider' = [provider EXCEPT ![p] = s]
      BY <1>1 DEF CustomerPays, CryptoLapses, ProviderStatus
    <2>3. provider' \in [Payment -> ProviderStatus]
      BY <2>2 DEF Typing, TypeOK
    <2>4. TypeOK'
      BY <2>1, <2>3 DEF Typing, TypeOK, db, session
    <2> QED
      BY <1>0, <2>1, <2>4 DEF Typing
  <1>2. ASSUME NEW t \in Tenant, DayPasses(t)
        PROVE  Typing'
    <2> DEFINE r == [account[t] EXCEPT !.reloadFailed = FALSE]
    <2>1. account[t] \in Row /\ account \in [Tenant -> Row]
      BY DEF Typing, TypeOK
    <2>2. r \in Row
      BY <2>1 DEF Row
    <2>3. account' = [account EXCEPT ![t] = r]
      BY <1>2, <2>1 DEF DayPasses
    <2> HIDE DEF r
    <2>4. account' \in [Tenant -> Row]
      BY <2>1, <2>2, <2>3
    <2>5. UNCHANGED <<ledger, payment, world, session>>
      BY <1>2 DEF DayPasses
    <2>6. TypeOK'
      BY <2>4, <2>5 DEF Typing, TypeOK, world, session
    <2> QED
      BY <1>0, <2>5, <2>6 DEF Typing
  <1> QED
    BY <1>1, <1>2 DEF Outside

LEMMA TypingNext == Typing /\ [Next]_vars => Typing'
  <1> SUFFICES ASSUME Typing, [Next]_vars PROVE Typing'
    OBVIOUS
  <1>1. ASSUME NEW w \in Worker, Start(w) PROVE Typing'
    BY <1>1, TypingStart
  <1>2. ASSUME NEW w \in Worker, Advance(w) PROVE Typing'
    BY <1>2, TypingLocks, TypingPoll, TypingTopups, TypingMoney DEF Advance
  <1>3. ASSUME NEW w \in Worker, Commit(w) \/ Abort(w) PROVE Typing'
    BY <1>3, TypingEnd
  <1>4. CASE Outside
    BY <1>4, TypingOutside
  <1>5. CASE UNCHANGED vars
    BY <1>5 DEF vars, Typing, TypeOK, JobOK, JobFine
  <1> QED
    BY <1>1, <1>2, <1>3, <1>4, <1>5 DEF Next

\* Type correctness, and every step knows which tenant, payment and intent it
\* works for, in every behaviour of the billing sessions.
THEOREM TypingHolds == Spec => []Typing
  <1>1. Init => Typing
    BY TypingInit
  <1>2. Typing /\ [Next]_vars => Typing'
    BY TypingNext
  <1> QED
    BY <1>1, <1>2, PTL DEF Spec

\* Every variable keeps its type, for any number of sessions.
THEOREM TypeCorrect == Spec => []TypeOK
  <1>1. Typing => TypeOK
    BY DEF Typing
  <1> QED
    BY <1>1, TypingHolds, PTL

-----------------------------------------------------------------------------
(* The books: what the row locks are for.                                  *)

LEMMA ChainAppend ==
    ASSUME NEW s \in Seq(Entry), NEW e \in Entry, Chained(s),
           e.after = Closing(s) + e.cents
    PROVE  /\ Chained(Append(s, e))
           /\ Closing(Append(s, e)) = e.after
  <1> DEFINE u == Append(s, e)
  <1>1. /\ Len(u) = Len(s) + 1
        /\ Len(s) \in Nat
        /\ u[Len(s) + 1] = e
        /\ \A k \in 1..Len(s) : u[k] = s[k]
        /\ u # <<>>
    OBVIOUS
  <1>2. \A k \in 1..Len(s) : s[k] \in Entry
    BY ElementOfSeq
  <1>3. Closing(u) = e.after
    BY <1>1 DEF Closing
  <1>4. ASSUME NEW k \in 1..Len(u)
        PROVE  u[k].after = u[k].cents + (IF k = 1 THEN 0 ELSE u[k - 1].after)
    <2>1. CASE k \in 1..Len(s)
      <3>1. k = 1 \/ k - 1 \in 1..Len(s)
        BY <2>1, <1>1
      <3>2. s[k].after = s[k].cents + (IF k = 1 THEN 0 ELSE s[k - 1].after)
        BY <2>1 DEF Chained
      <3> QED
        BY <1>1, <2>1, <3>1, <3>2
    <2>2. CASE k = Len(s) + 1
      <3>1. CASE Len(s) = 0
        <4>1. s = <<>>
          BY <3>1, EmptySeq
        <4> QED
          BY <1>1, <2>2, <3>1, <4>1 DEF Closing, Entry
      <3>2. CASE Len(s) # 0
        <4>1. s # <<>> /\ k # 1 /\ k - 1 = Len(s) /\ Len(s) \in 1..Len(s)
          BY <1>1, <2>2, <3>2, EmptySeq
        <4>2. Closing(s) = s[Len(s)].after /\ s[Len(s)].after \in Int
          BY <1>2, <4>1 DEF Closing, Entry
        <4>3. u[k] = e /\ u[k - 1] = s[Len(s)]
          BY <1>1, <2>2, <4>1
        <4> QED
          BY <4>1, <4>2, <4>3 DEF Entry
      <3> QED
        BY <3>1, <3>2
    <2> QED
      BY <1>1, <2>1, <2>2
  <1> HIDE DEF u
  <1>5. Chained(u)
    BY <1>4 DEF Chained
  <1> QED
    BY <1>3, <1>5 DEF u

LEMMA ConcatAppend ==
    ASSUME NEW s \in Seq(Entry), NEW u \in Seq(Entry), NEW e \in Entry
    PROVE  s \o Append(u, e) = Append(s \o u, e)
  <1>1. s \o u \in Seq(Entry) /\ Append(u, e) \in Seq(Entry)
    OBVIOUS
  <1>2. Append(u, e) = u \o <<e>> /\ Append(s \o u, e) = (s \o u) \o <<e>>
    BY <1>1, AppendIsConcat
  <1>3. <<e>> \in Seq(Entry)
    OBVIOUS
  <1>4. (s \o u) \o <<e>> = s \o (u \o <<e>>)
    BY <1>3, ConcatAssociative
  <1> QED
    BY <1>2, <1>4

\* The sessions a step leaves alone stay as they were.
LEMMA OthersFine ==
    ASSUME Typing, LockInv, NEW v \in Worker, UNCHANGED db,
           /\ pc'[v] = pc[v] /\ job'[v] = job[v] /\ held'[v] = held[v]
           /\ row'[v] = row[v] /\ new'[v] = new[v] /\ status'[v] = status[v]
    PROVE  HeldFine(v)' /\ StageFine(v)' /\ FlushFine(v)'
  <1>1. HeldFine(v) /\ StageFine(v) /\ FlushFine(v)
    BY DEF LockInv
  <1>2. HeldFine(v)'
    BY <1>1 DEF HeldFine, SeenLedger, db
  <1>3. StageFine(v)'
    BY <1>1 DEF StageFine, db
  <1>4. FlushFine(v)'
    BY <1>1 DEF FlushFine, db
  <1> QED
    BY <1>2, <1>3, <1>4

\* An uncommitted step of one session keeps the invariant if it keeps that
\* session's part of it and takes no row another session holds.
LEMMA OneSessionKeeps ==
    ASSUME Typing, LockInv, NEW w \in Worker, UNCHANGED db,
           \A v \in Worker \ {w} :
               /\ pc'[v] = pc[v] /\ job'[v] = job[v] /\ held'[v] = held[v]
               /\ row'[v] = row[v] /\ new'[v] = new[v] /\ status'[v] = status[v],
           HeldFine(w)', StageFine(w)', FlushFine(w)', KnownAccounts',
           \A v \in Worker \ {w} : held'[w] \intersect held[v] = {}
    PROVE  LockInv'
  <1>1. BooksBalance' /\ PausedOnlyInDebt'
    BY DEF LockInv, BooksBalance, PausedOnlyInDebt, db
  <1>2. Exclusive'
    BY DEF LockInv, Exclusive
  <1>3. \A v \in Worker : HeldFine(v)' /\ StageFine(v)' /\ FlushFine(v)'
    BY OthersFine
  <1> QED
    BY <1>1, <1>2, <1>3 DEF LockInv

\* A flushed change with its ledger entry keeps the copy in step with the
\* ledger it continues.
LEMMA PostKeepsRow ==
    ASSUME Typing, LockInv, NEW w \in Worker, NEW t \in held[w], NEW r \in Row,
           NEW k \in {"grant", "topup", "charge", "adjustment"},
           NEW n \in Int, NEW ref \in Ref \union {NoRef},
           Post(w, t, r, k, n, ref), UNCHANGED <<db, held, job>>,
           r.exists, r.balance = row[w][t].balance + n, r.paused => r.balance < 0
    PROVE  HeldFine(w)'
  <1> DEFINE e == [kind |-> k, cents |-> n, after |-> r.balance, ref |-> ref]
  <1>1. t \in Tenant
    BY DEF Typing, TypeOK
  <1>2. e \in Entry /\ e.after = r.balance /\ e.cents = n
    BY DEF Entry, Row
  <1>3. new' = [new EXCEPT ![w][t] = Append(@, e)] /\ row' = [row EXCEPT ![w][t] = r]
    BY DEF Post
  <1> HIDE DEF e
  <1>4. new'[w][t] = Append(new[w][t], e) /\ row'[w][t] = r
    BY <1>1, <1>3 DEF Typing, TypeOK
  <1>5. \A u \in Tenant \ {t} : new'[w][u] = new[w][u] /\ row'[w][u] = row[w][u]
    BY <1>1, <1>3 DEF Typing, TypeOK
  <1>6. ledger[t] \in Seq(Entry) /\ new[w][t] \in Seq(Entry)
    BY <1>1 DEF Typing, TypeOK
  <1>7. HeldFine(w)
    BY DEF LockInv
  <1>8. SeenLedger(w, t)' = Append(SeenLedger(w, t), e)
    <2>1. ledger[t] \o Append(new[w][t], e) = Append(ledger[t] \o new[w][t], e)
      BY <1>2, <1>6, ConcatAppend
    <2>2. ledger' = ledger
      BY DEF db
    <2> QED
      BY <1>4, <2>1, <2>2 DEF SeenLedger
  <1>9. SeenLedger(w, t) \in Seq(Entry) /\ Chained(SeenLedger(w, t))
          /\ row[w][t].balance = Closing(SeenLedger(w, t))
    BY <1>1, <1>6, <1>7 DEF SeenLedger, HeldFine
  <1>10. Chained(Append(SeenLedger(w, t), e))
           /\ Closing(Append(SeenLedger(w, t), e)) = r.balance
    BY <1>2, <1>9, ChainAppend
  <1>11. Chained(SeenLedger(w, t)') /\ Closing(SeenLedger(w, t)') = r.balance
    BY <1>8, <1>10
  <1>12. account' = account /\ ledger' = ledger /\ held' = held /\ job' = job
    BY DEF db
  <1>13. \A u \in Tenant \ {t} : SeenLedger(w, u)' = SeenLedger(w, u)
    BY <1>5, <1>12 DEF SeenLedger
  <1>14. Chained(SeenLedger(w, t))' /\ Closing(SeenLedger(w, t))' = r.balance
    BY <1>11 DEF Chained, Closing
  <1>15. \A u \in Tenant \ {t} :
            /\ Chained(SeenLedger(w, u))' <=> Chained(SeenLedger(w, u))
            /\ Closing(SeenLedger(w, u))' = Closing(SeenLedger(w, u))
    BY <1>13 DEF Chained, Closing
  <1> QED
    BY <1>1, <1>4, <1>5, <1>7, <1>12, <1>14, <1>15 DEF HeldFine

\* A changed row without a ledger entry must leave the balance alone.
LEMMA RowKeepsRow ==
    ASSUME Typing, LockInv, NEW w \in Worker, NEW t \in held[w], NEW r \in Row,
           row' = [row EXCEPT ![w][t] = r], UNCHANGED <<db, held, job, new>>,
           r.exists, r.balance = row[w][t].balance, r.paused => r.balance < 0
    PROVE  HeldFine(w)'
  <1>1. t \in Tenant
    BY DEF Typing, TypeOK
  <1>2. row'[w][t] = r /\ \A u \in Tenant \ {t} : row'[w][u] = row[w][u]
    BY <1>1 DEF Typing, TypeOK
  <1>3. HeldFine(w)
    BY DEF LockInv
  <1>4. \A u \in Tenant : SeenLedger(w, u)' = SeenLedger(w, u)
    BY DEF SeenLedger, db
  <1>5. \A u \in Tenant :
            /\ Chained(SeenLedger(w, u))' <=> Chained(SeenLedger(w, u))
            /\ Closing(SeenLedger(w, u))' = Closing(SeenLedger(w, u))
    BY <1>4 DEF Chained, Closing
  <1> QED
    BY <1>1, <1>2, <1>3, <1>5 DEF HeldFine, db

\* What the balance helpers do to the fields the invariant speaks of.
LEMMA CreditedRow ==
    ASSUME NEW r \in Row, NEW n \in Int, r.exists
    PROVE  /\ Credited(r, n) \in Row
           /\ Credited(r, n).exists
           /\ Credited(r, n).balance = r.balance + n
           /\ Credited(r, n).paused => Credited(r, n).balance < 0
           /\ Credited(r, n).metered = r.metered
  <1>1. Credited(r, n) \in Row
    BY RowFields
  <1> QED
    BY <1>1 DEF Credited, Row

LEMMA ChargedRow ==
    ASSUME NEW r \in Row, NEW n \in Nat, r.exists, r.paused => r.balance < 0
    PROVE  /\ Charged(r, n) \in Row
           /\ Charged(r, n).exists
           /\ Charged(r, n).balance = r.balance - n
           /\ Charged(r, n).paused => Charged(r, n).balance < 0
           /\ Charged(r, n).metered = r.metered
  BY DEF Charged, Row

LEMMA SettledRow ==
    ASSUME NEW r \in Row, r.exists, r.paused => r.balance < 0
    PROVE  /\ Settled(r) \in Row
           /\ Settled(r).exists
           /\ Settled(r).balance = r.balance
           /\ Settled(r).paused => Settled(r).balance < 0
           /\ Settled(r).metered = r.metered
  <1>1. Settled(r) \in Row
    BY RowFields
  <1>2. /\ Settled(r).exists = r.exists
        /\ Settled(r).balance = r.balance
        /\ Settled(r).metered = r.metered
    BY DEF Settled, Row
  <1>3. Settled(r).paused = (r.paused \/ r.balance < 0)
    BY DEF Settled, Row
  <1> QED
    BY <1>1, <1>2, <1>3

\* Beginning a transaction: nothing is held yet, so only its stage matters.
LEMMA BeginKeeps ==
    ASSUME Typing, LockInv, NEW w \in Worker, NEW j \in Job, NEW next \in PCs,
           Begin(w, j, next),
           ~j.born,
           next \in {"wait", "work", "create", "next"},
           next \in {"wait", "work"} => account[j.tenant].exists,
           next = "work" => j.op = "topup",
           \A p \in j.todo : payment[p] # "absent"
    PROVE  LockInv'
  <1>1. /\ pc[w] = "idle"
        /\ pc' = [pc EXCEPT ![w] = next] /\ job' = [job EXCEPT ![w] = j]
        /\ UNCHANGED <<account, ledger, payment, intent, held, row, new, status>>
    BY DEF Begin, db, world
  <1>2. pc'[w] = next /\ job'[w] = j
    BY <1>1 DEF Typing, TypeOK
  <1>3. HeldFine(w) /\ StageFine(w) /\ FlushFine(w)
    BY DEF LockInv
  <1>4. held[w] = {}
    BY <1>1, <1>3 DEF StageFine
  <1>5. HeldFine(w)'
    BY <1>1, <1>3, <1>4 DEF HeldFine
  <1>6. StageFine(w)'
    BY <1>1, <1>2, <1>4 DEF StageFine
  <1>7. FlushFine(w)'
    BY <1>1, <1>3 DEF FlushFine
  <1>8. KnownAccounts'
    BY <1>1 DEF LockInv, KnownAccounts
  <1>9. \A v \in Worker \ {w} :
           /\ pc'[v] = pc[v] /\ job'[v] = job[v] /\ held'[v] = held[v]
           /\ row'[v] = row[v] /\ new'[v] = new[v] /\ status'[v] = status[v]
    BY <1>1 DEF Typing, TypeOK
  <1>10. UNCHANGED db
    BY <1>1 DEF db
  <1>11. \A v \in Worker \ {w} : held'[w] \intersect held[v] = {}
    BY <1>1, <1>4
  <1> QED
    BY <1>5, <1>6, <1>7, <1>8, <1>9, <1>10, <1>11, OneSessionKeeps

LEMMA StartKeeps ==
    ASSUME Typing, LockInv, NEW w \in Worker, Start(w)
    PROVE  LockInv'
  <1>0. KnownAccounts
    BY DEF LockInv
  <1>1. ASSUME NEW p \in Payment, BeginTopup(w, p)
        PROVE  LockInv'
    <2> DEFINE j == NewJob("topup", PaymentTenant[p], p, NoIntent, {})
               next == FindAccount(PaymentTenant[p], TopupStart(p))
    <2>1. j \in Job
      BY RoutingAssumption, NewJobType DEF OpNames
    <2>2. next \in {"create", "wait", "work"}
            /\ (next # "create" => account[PaymentTenant[p]].exists)
      BY DEF FindAccount, TopupStart
    <2>3. j.op = "topup" /\ j.tenant = PaymentTenant[p] /\ ~j.born /\ j.todo = {}
      BY DEF NewJob
    <2>4. Begin(w, j, next)
      BY <1>1 DEF BeginTopup
    <2> HIDE DEF j, next
    <2> QED
      BY <2>1, <2>2, <2>3, <2>4, BeginKeeps DEF PCs
  <1>2. ASSUME NEW p \in Payment, BeginSettle(w, p) \/ BeginReturn(w, p)
        PROVE  LockInv'
    <2> DEFINE j(op) == NewJob(op, PaymentTenant[p], p, NoIntent, {})
    <2>1. PICK op \in {"settle", "capture"} : Begin(w, j(op), "wait")
      BY <1>2 DEF BeginSettle, BeginReturn
    <2>2. j(op) \in Job
      BY RoutingAssumption, NewJobType DEF OpNames
    <2>3. account[PaymentTenant[p]].exists
      BY <1>0, <1>2 DEF KnownAccounts, BeginSettle, BeginReturn
    <2>4. j(op).tenant = PaymentTenant[p] /\ ~j(op).born /\ j(op).todo = {}
      BY DEF NewJob
    <2> HIDE DEF j
    <2> QED
      BY <2>1, <2>2, <2>3, <2>4, BeginKeeps DEF PCs
  <1>3. ASSUME NEW i \in Intent, BeginReload(w, i)
        PROVE  LockInv'
    <2> DEFINE j == NewJob("reload", intent[i], NoPayment, i, {})
    <2>1. intent[i] \in Tenant /\ account[intent[i]].exists
      BY <1>0, <1>3 DEF BeginReload, KnownAccounts, Typing, TypeOK
    <2>2. j \in Job
      BY <2>1, NewJobType DEF OpNames
    <2>3. j.tenant = intent[i] /\ ~j.born /\ j.todo = {}
      BY DEF NewJob
    <2>4. Begin(w, j, "wait")
      BY <1>3 DEF BeginReload
    <2> HIDE DEF j
    <2> QED
      BY <2>1, <2>2, <2>3, <2>4, BeginKeeps DEF PCs
  <1>4. ASSUME NEW t \in Tenant, BeginMeter(w, t) \/ BeginAdjust(w, t)
        PROVE  LockInv'
    <2> DEFINE j(op) == NewJob(op, t, NoPayment, NoIntent, {})
               next == FindAccount(t, "wait")
    <2>1. PICK op \in {"meter", "adjust"} : Begin(w, j(op), next)
      BY <1>4 DEF BeginMeter, BeginAdjust
    <2>2. j(op) \in Job
      BY NewJobType DEF OpNames
    <2>3. j(op).tenant = t /\ ~j(op).born /\ j(op).todo = {}
      BY DEF NewJob
    <2>4. next = "create" \/ (next = "wait" /\ account[t].exists)
      BY DEF FindAccount
    <2> HIDE DEF j, next
    <2> QED
      BY <2>1, <2>2, <2>3, <2>4, BeginKeeps DEF PCs
  <1>5. ASSUME BeginPoll(w)
        PROVE  LockInv'
    <2> DEFINE pending == {p \in Payment : PaymentRail[p] = "crypto"
                                              /\ payment[p] = "pending"}
               j == NewJob("poll", NoTenant, NoPayment, NoIntent, pending)
    <2>1. j \in Job
      BY NewJobType DEF OpNames
    <2>2. ~j.born /\ \A p \in j.todo : payment[p] # "absent"
      BY DEF NewJob
    <2>3. Begin(w, j, "next")
      BY <1>5 DEF BeginPoll
    <2> HIDE DEF j
    <2> QED
      BY <2>1, <2>2, <2>3, BeginKeeps DEF PCs
  <1> QED
    BY <1>1, <1>2, <1>3, <1>4, <1>5 DEF Start

LEMMA TakeTenantKeeps ==
    ASSUME Typing, LockInv, NEW w \in Worker, TakeTenant(w)
    PROVE  LockInv'
  <1> DEFINE t == job[w].tenant
  <1>1. /\ t \in Tenant /\ pc[w] = "create"
        /\ job[w] \in Job
        /\ job[w].op \in {"topup", "meter", "adjust"}
        /\ HeldFine(w) /\ StageFine(w) /\ FlushFine(w) /\ KnownAccounts
        /\ UNCHANGED <<db, world, status>>
    BY DEF TakeTenant, Typing, TypeOK, JobOK, JobFine, LockInv
  <1>2. held[w] = {}
    BY <1>1 DEF StageFine
  <1>3. KnownAccounts'
    BY <1>1 DEF KnownAccounts, db, world
  <1>4. CASE account[t].exists
    <2> DEFINE next == IF job[w].op = "topup"
                         THEN TopupStart(job[w].payment) ELSE "wait"
               j == [job[w] EXCEPT !.parent = TRUE]
    <2>1. /\ job' = [job EXCEPT ![w] = j]
          /\ pc' = [pc EXCEPT ![w] = next]
          /\ UNCHANGED <<held, row, new>>
      BY <1>4 DEF TakeTenant, Typing, TypeOK
    <2>2. next \in {"wait", "work"} /\ (next = "work" => job[w].op = "topup")
      BY DEF TopupStart
    <2>3. /\ j.tenant = t /\ j.op = job[w].op /\ j.born = job[w].born
          /\ j.todo = job[w].todo
      BY <1>1 DEF Job
    <2> HIDE DEF next, j
    <2>4. pc'[w] = next /\ job'[w] = j
      BY <2>1 DEF Typing, TypeOK
    <2>5. ~job[w].born
      BY <1>1, <1>2 DEF StageFine
    <2>6. HeldFine(w)'
      BY <1>1, <1>2, <2>1 DEF HeldFine
    <2>7. StageFine(w)'
      BY <1>1, <1>2, <1>4, <2>1, <2>2, <2>3, <2>4, <2>5 DEF StageFine, db
    <2>8. FlushFine(w)'
      BY <1>1, <2>1 DEF FlushFine, db
    <2>9. \A v \in Worker \ {w} :
             /\ pc'[v] = pc[v] /\ job'[v] = job[v] /\ held'[v] = held[v]
             /\ row'[v] = row[v] /\ new'[v] = new[v] /\ status'[v] = status[v]
      BY <1>1, <2>1 DEF Typing, TypeOK
    <2>10. \A v \in Worker \ {w} : held'[w] \intersect held[v] = {}
      BY <1>2, <2>1
    <2> QED
      BY <1>1, <1>3, <2>6, <2>7, <2>8, <2>9, <2>10, OneSessionKeeps
  <1>5. CASE ~account[t].exists
    <2> DEFINE granted == [exists |-> TRUE, balance |-> WelcomeCents,
                           paused |-> FALSE, metered |-> FALSE,
                           reloadFailed |-> FALSE]
               e == [kind |-> "grant", cents |-> WelcomeCents,
                     after |-> granted.balance, ref |-> NoRef]
    <2>1. /\ job' = [job EXCEPT ![w].parent = TRUE, ![w].born = TRUE]
          /\ pc' = [pc EXCEPT ![w] = "work"]
          /\ held' = [held EXCEPT ![w] = @ \union {t}]
          /\ row' = [row EXCEPT ![w][t] = granted]
          /\ new' = [new EXCEPT ![w][t] = Append(@, e)]
      BY <1>5 DEF TakeTenant, Post
    <2>2. /\ granted \in Row /\ granted.exists /\ ~granted.paused
          /\ ~granted.metered
          /\ granted.balance = WelcomeCents /\ WelcomeCents \in Int
      BY AmountsAssumption DEF Row
    <2>3. e \in Entry /\ e.after = WelcomeCents /\ e.cents = WelcomeCents
      BY <2>2 DEF Entry
    <2> HIDE DEF granted, e
    <2>4. /\ job'[w].tenant = t /\ job'[w].op = job[w].op
          /\ job'[w].todo = job[w].todo
          /\ job'[w].born /\ job'[w].parent
      BY <1>1, <2>1 DEF Typing, TypeOK, Job
    <2>5. pc'[w] = "work" /\ held'[w] = {t} /\ row'[w][t] = granted
      BY <1>1, <1>2, <2>1 DEF Typing, TypeOK
    <2>6. ledger[t] = <<>> /\ new[w][t] = <<>>
      BY <1>1, <1>2, <1>5 DEF KnownAccounts, HeldFine
    <2>7. new'[w][t] = Append(<<>>, e)
      BY <1>1, <2>1, <2>6 DEF Typing, TypeOK
    <2>8. \A u \in Tenant \ {t} : new'[w][u] = <<>>
      BY <1>1, <1>2, <2>1 DEF HeldFine, Typing, TypeOK
    <2>9. ledger'[t] = <<>>
      BY <1>1, <2>6 DEF db
    <2>10. SeenLedger(w, t)' = Append(<<>>, e)
      <3>1. Append(<<>>, e) \in Seq(Entry)
        BY <2>3
      <3>2. <<>> \o Append(<<>>, e) = Append(<<>>, e)
        BY <3>1, ConcatEmptySeq
      <3> QED
        BY <2>4, <2>7, <2>9, <3>2 DEF SeenLedger
    <2>11. <<>> \in Seq(Entry) /\ Chained(<<>>) /\ Closing(<<>>) = 0
      BY DEF Chained, Closing
    <2>12. Chained(Append(<<>>, e)) /\ Closing(Append(<<>>, e)) = WelcomeCents
      <3>1. e.after = Closing(<<>>) + e.cents
        BY <2>2, <2>3, <2>11
      <3> QED
        BY <2>3, <2>11, <3>1, ChainAppend
    <2>13. Chained(SeenLedger(w, t))' /\ Closing(SeenLedger(w, t))' = WelcomeCents
      BY <2>10, <2>12 DEF Chained, Closing
    <2>14. HeldFine(w)'
      BY <1>1, <2>2, <2>4, <2>5, <2>8, <2>13 DEF HeldFine
    <2>15. ~account'[t].exists /\ \A p \in job[w].todo : payment'[p] # "absent"
      BY <1>1, <1>5 DEF db, StageFine
    <2>16. StageFine(w)'
      BY <1>1, <2>2, <2>4, <2>5, <2>15 DEF StageFine
    <2>17. FlushFine(w)'
      BY <1>1, <1>2, <2>5 DEF FlushFine, db
    <2>18. \A v \in Worker \ {w} :
             /\ pc'[v] = pc[v] /\ job'[v] = job[v] /\ held'[v] = held[v]
             /\ row'[v] = row[v] /\ new'[v] = new[v] /\ status'[v] = status[v]
      BY <1>1, <2>1 DEF Typing, TypeOK
    <2>19. ASSUME NEW v \in Worker \ {w} PROVE t \notin held[v]
      <3>1. HeldFine(v) /\ StageFine(v)
        BY DEF LockInv
      <3>2. ~(job[v].parent /\ job[v].tenant = t)
        BY DEF TakeTenant, TenantFree
      <3> QED
        BY <1>1, <1>5, <3>1, <3>2 DEF HeldFine, StageFine
    <2> QED
      BY <1>1, <1>3, <2>5, <2>14, <2>16, <2>17, <2>18, <2>19, OneSessionKeeps
  <1> QED
    BY <1>4, <1>5

LEMMA LockAccountKeeps ==
    ASSUME Typing, LockInv, NEW w \in Worker, LockAccount(w)
    PROVE  LockInv'
  <1> DEFINE t == job[w].tenant
             j == [job[w] EXCEPT !.base = held[w]]
  <1>1. /\ t \in Tenant /\ pc[w] = "wait" /\ AccountFree(w, t)
        /\ job[w] \in Job
        /\ HeldFine(w) /\ StageFine(w) /\ FlushFine(w) /\ KnownAccounts
        /\ UNCHANGED <<db, world, new, status>>
    BY DEF LockAccount, Typing, TypeOK, JobOK, JobFine, LockInv
  <1>2. /\ job' = [job EXCEPT ![w] = j]
        /\ pc' = [pc EXCEPT ![w] = "work"]
        /\ held' = [held EXCEPT ![w] = @ \union {t}]
        /\ row' = [row EXCEPT ![w][t] = IF t \in held[w] THEN row[w][t]
                                                       ELSE account[t]]
    BY DEF LockAccount, Typing, TypeOK
  <1>3. /\ j.tenant = t /\ j.op = job[w].op /\ j.born = job[w].born
        /\ j.parent = job[w].parent /\ j.todo = job[w].todo /\ j.base = held[w]
    BY <1>1 DEF Job, Typing, TypeOK
  <1> HIDE DEF j
  <1>4. /\ pc'[w] = "work" /\ job'[w] = j /\ held'[w] = held[w] \union {t}
        /\ row'[w][t] = IF t \in held[w] THEN row[w][t] ELSE account[t]
        /\ \A u \in Tenant \ {t} : row'[w][u] = row[w][u]
    BY <1>1, <1>2 DEF Typing, TypeOK
  <1>5. account[t].exists
    BY <1>1 DEF StageFine
  <1>6. \A u \in Tenant :
           /\ Chained(SeenLedger(w, u))' <=> Chained(SeenLedger(w, u))
           /\ Closing(SeenLedger(w, u))' = Closing(SeenLedger(w, u))
    BY <1>1 DEF SeenLedger, Chained, Closing, db
  <1>7. t \notin held[w] => /\ Chained(SeenLedger(w, t))
                            /\ account[t].balance = Closing(SeenLedger(w, t))
                            /\ account[t].paused => account[t].balance < 0
    <2>1. t \notin held[w] => SeenLedger(w, t) = ledger[t]
      <3>1. ledger[t] \in Seq(Entry)
        BY <1>1 DEF Typing, TypeOK
      <3>2. ledger[t] \o <<>> = ledger[t]
        BY <3>1, ConcatEmptySeq
      <3> QED
        BY <1>1, <3>2 DEF HeldFine, SeenLedger
    <2> QED
      BY <1>1, <2>1 DEF LockInv, BooksBalance, PausedOnlyInDebt
  <1>8. HeldFine(w)'
    BY <1>1, <1>3, <1>4, <1>5, <1>6, <1>7 DEF HeldFine, db
  <1>9. StageFine(w)'
    BY <1>1, <1>3, <1>4, <1>5 DEF StageFine, HeldFine, db
  <1>10. FlushFine(w)'
    BY <1>1, <1>4 DEF FlushFine, db
  <1>11. KnownAccounts'
    BY <1>1 DEF KnownAccounts, db, world
  <1>12. \A v \in Worker \ {w} :
           /\ pc'[v] = pc[v] /\ job'[v] = job[v] /\ held'[v] = held[v]
           /\ row'[v] = row[v] /\ new'[v] = new[v] /\ status'[v] = status[v]
    BY <1>1, <1>2 DEF Typing, TypeOK
  <1>13. \A v \in Worker \ {w} : held'[w] \intersect held[v] = {}
    BY <1>1, <1>4 DEF AccountFree, LockInv, Exclusive
  <1> QED
    BY <1>1, <1>8, <1>9, <1>10, <1>11, <1>12, <1>13, OneSessionKeeps

\* The end of a handler: its session keeps its locks and moves on.
LEMMA HandlerKeeps ==
    ASSUME Typing, LockInv, NEW w \in Worker, NEW next \in {"next", "done", "card"},
           pc' = [pc EXCEPT ![w] = next], UNCHANGED <<db, job, held>>,
           next = "card" => /\ job[w].tenant \in held[w]
                            /\ account[job[w].tenant].exists,
           \A v \in Worker \ {w} :
               row'[v] = row[v] /\ new'[v] = new[v] /\ status'[v] = status[v],
           HeldFine(w)', FlushFine(w)', KnownAccounts'
    PROVE  LockInv'
  <1>1. StageFine(w)
    BY DEF LockInv
  <1>2. pc'[w] = next /\ \A v \in Worker \ {w} : pc'[v] = pc[v]
    BY DEF Typing, TypeOK
  <1>3. StageFine(w)'
    BY <1>1, <1>2 DEF StageFine, db
  <1>4. \A v \in Worker \ {w} : held'[w] \intersect held[v] = {}
    BY DEF LockInv, Exclusive
  <1> QED
    BY <1>2, <1>3, <1>4, OneSessionKeeps DEF db

\* A poll goes on, anything else is finished.
LEMMA ResumeNext ==
    ASSUME NEW w \in Worker, pc' = Resume(w)
    PROVE  \E next \in {"next", "done"} : pc' = [pc EXCEPT ![w] = next]
  BY DEF Resume

\* Crediting a reference once keeps the copy in step with its ledger.
LEMMA CreditOnceKeeps ==
    ASSUME Typing, LockInv, NEW w \in Worker, NEW t \in held[w], NEW n \in Int,
           NEW ref \in Ref, CreditOnce(w, t, n, ref), UNCHANGED <<db, held, job>>
    PROVE  /\ HeldFine(w)'
           /\ \A v \in Worker \ {w} : row'[v] = row[v] /\ new'[v] = new[v]
  <1>1. t \in Tenant /\ row[w][t] \in Row /\ HeldFine(w)
    BY DEF Typing, TypeOK, LockInv
  <1>2. row[w][t].exists
    BY <1>1 DEF HeldFine
  <1>3. CASE UNCHANGED <<row, new>>
    <2>1. \A u \in Tenant : SeenLedger(w, u)' = SeenLedger(w, u)
      BY <1>3 DEF SeenLedger, db
    <2>2. \A u \in Tenant :
             /\ Chained(SeenLedger(w, u))' <=> Chained(SeenLedger(w, u))
             /\ Closing(SeenLedger(w, u))' = Closing(SeenLedger(w, u))
      BY <2>1 DEF Chained, Closing
    <2>3. HeldFine(w)'
      BY <1>1, <1>3, <2>2 DEF HeldFine, db
    <2> QED
      BY <1>3, <2>3
  <1>4. CASE Post(w, t, Credited(row[w][t], n), "topup", n, ref)
    <2> DEFINE r == Credited(row[w][t], n)
    <2>1. /\ r \in Row /\ r.exists /\ r.balance = row[w][t].balance + n
          /\ r.paused => r.balance < 0
      BY <1>1, <1>2, CreditedRow
    <2> HIDE DEF r
    <2>2. HeldFine(w)'
      BY <1>4, <2>1, PostKeepsRow DEF r
    <2>3. \A v \in Worker \ {w} : row'[v] = row[v] /\ new'[v] = new[v]
      BY <1>4 DEF Post, Typing, TypeOK
    <2> QED
      BY <2>2, <2>3
  <1> QED
    BY <1>3, <1>4 DEF CreditOnce

\* Closing an attempt whose account the session has locked.
LEMMA CompleteKeeps ==
    ASSUME Typing, LockInv, NEW w \in Worker, NEW p \in Payment,
           PaymentTenant[p] \in held[w], Complete(w, p), UNCHANGED <<db, held, job>>
    PROVE  /\ HeldFine(w)' /\ FlushFine(w)'
           /\ \A v \in Worker \ {w} :
                 row'[v] = row[v] /\ new'[v] = new[v] /\ status'[v] = status[v]
  <1>1. HeldFine(w) /\ FlushFine(w)
    BY DEF LockInv
  <1>2. CASE UNCHANGED <<row, new, status>>
    <2>1. \A u \in Tenant : SeenLedger(w, u)' = SeenLedger(w, u)
      BY <1>2 DEF SeenLedger, db
    <2>2. \A u \in Tenant :
             /\ Chained(SeenLedger(w, u))' <=> Chained(SeenLedger(w, u))
             /\ Closing(SeenLedger(w, u))' = Closing(SeenLedger(w, u))
      BY <2>1 DEF Chained, Closing
    <2>3. HeldFine(w)'
      BY <1>1, <1>2, <2>2 DEF HeldFine, db
    <2>4. FlushFine(w)'
      BY <1>1, <1>2 DEF FlushFine, db
    <2> QED
      BY <1>2, <2>3, <2>4
  <1>3. CASE /\ CreditOnce(w, PaymentTenant[p], PaymentCents[p], p)
             /\ status' = [status EXCEPT ![w][p] = "completed"]
    <2>1. PaymentCents[p] \in Int /\ p \in Ref
      BY AmountsAssumption DEF Ref
    <2>2. /\ HeldFine(w)'
          /\ \A v \in Worker \ {w} : row'[v] = row[v] /\ new'[v] = new[v]
      BY <1>3, <2>1, CreditOnceKeeps
    <2>3. /\ \A v \in Worker \ {w} : status'[v] = status[v]
          /\ status'[w][p] = "completed"
          /\ \A q \in Payment \ {p} : status'[w][q] = status[w][q]
      BY <1>3 DEF Typing, TypeOK
    <2>4. FlushFine(w)'
      BY <1>1, <2>3 DEF FlushFine, db
    <2> QED
      BY <2>2, <2>3, <2>4
  <1> QED
    BY <1>2, <1>3 DEF Complete

LEMMA PollKeeps ==
    ASSUME Typing, LockInv, NEW w \in Worker,
           (\E p \in Payment : PollNext(w, p)) \/ PollEnd(w) \/ PollSkip(w)
    PROVE  LockInv'
  <1>0. HeldFine(w) /\ StageFine(w) /\ FlushFine(w) /\ KnownAccounts
    BY DEF LockInv
  <1>1. ASSUME NEW p \in Payment, PollNext(w, p)
        PROVE  LockInv'
    <2> DEFINE j1 == [job[w] EXCEPT !.payment = p]
               j2 == [j1 EXCEPT !.tenant = PaymentTenant[p]]
               j3 == [j2 EXCEPT !.todo = job[w].todo \ {p}]
    <2>1. job[w] \in Job /\ PaymentTenant[p] \in Tenant
      BY RoutingAssumption DEF Typing, TypeOK
    <2>2. j1 \in Job /\ j1.op = job[w].op /\ j1.todo = job[w].todo
            /\ j1.born = job[w].born
      BY <2>1 DEF Job
    <2>3. j2 \in Job /\ j2.op = job[w].op /\ j2.todo = job[w].todo
            /\ j2.born = job[w].born /\ j2.tenant = PaymentTenant[p]
      BY <2>1, <2>2 DEF Job
    <2>4. /\ j3.op = job[w].op /\ j3.tenant = PaymentTenant[p]
          /\ j3.born = job[w].born /\ j3.todo = job[w].todo \ {p}
      BY <2>1, <2>3 DEF Job
    <2>5. job' = [job EXCEPT ![w] = j3]
      BY <1>1, <2>2, <2>3 DEF PollNext, Typing, TypeOK
    <2>6. /\ pc' = [pc EXCEPT ![w] = "wait"] /\ p \in job[w].todo
          /\ UNCHANGED <<db, world, held, row, new, status>>
      BY <1>1 DEF PollNext
    <2>7. job[w].op = "poll" /\ ~job[w].born
      BY <1>0, <1>1 DEF PollNext, Typing, JobOK, JobFine, StageFine
    <2> HIDE DEF j1, j2, j3
    <2>8. job'[w] = j3 /\ pc'[w] = "wait"
      BY <2>5, <2>6 DEF Typing, TypeOK
    <2>9. \A u \in Tenant :
             /\ Chained(SeenLedger(w, u))' <=> Chained(SeenLedger(w, u))
             /\ Closing(SeenLedger(w, u))' = Closing(SeenLedger(w, u))
      BY <2>6 DEF SeenLedger, Chained, Closing, db
    <2>10. HeldFine(w)'
      BY <1>0, <2>4, <2>6, <2>7, <2>8, <2>9 DEF HeldFine, db
    <2>11. account[PaymentTenant[p]].exists
      BY <1>0, <2>6 DEF StageFine, KnownAccounts
    <2>12. StageFine(w)'
      BY <1>0, <2>4, <2>6, <2>7, <2>8, <2>11 DEF StageFine, db
    <2>13. FlushFine(w)' /\ KnownAccounts'
      BY <1>0, <2>6 DEF FlushFine, KnownAccounts, db, world
    <2>14. \A v \in Worker \ {w} :
              /\ pc'[v] = pc[v] /\ job'[v] = job[v] /\ held'[v] = held[v]
              /\ row'[v] = row[v] /\ new'[v] = new[v] /\ status'[v] = status[v]
      BY <2>5, <2>6 DEF Typing, TypeOK
    <2>15. \A v \in Worker \ {w} : held'[w] \intersect held[v] = {}
      BY <2>6 DEF LockInv, Exclusive
    <2> QED
      BY <2>6, <2>10, <2>12, <2>13, <2>14, <2>15, OneSessionKeeps
  <1>2. ASSUME PollEnd(w)
        PROVE  LockInv'
    <2>1. /\ pc' = [pc EXCEPT ![w] = "done"]
          /\ UNCHANGED <<db, world, job, held, row, new, status>>
      BY <1>2 DEF PollEnd
    <2>2. \A u \in Tenant :
             /\ Chained(SeenLedger(w, u))' <=> Chained(SeenLedger(w, u))
             /\ Closing(SeenLedger(w, u))' = Closing(SeenLedger(w, u))
      BY <2>1 DEF SeenLedger, Chained, Closing, db
    <2>3. HeldFine(w)'
      BY <1>0, <2>1, <2>2 DEF HeldFine, db
    <2>4. FlushFine(w)' /\ KnownAccounts'
      BY <1>0, <2>1 DEF FlushFine, KnownAccounts, db, world
    <2> QED
      BY <2>1, <2>3, <2>4, HandlerKeeps
  <1>3. ASSUME PollSkip(w)
        PROVE  LockInv'
    <2>1. /\ job[w].op = "poll" /\ ~job[w].born
          /\ pc' = [pc EXCEPT ![w] = "next"]
          /\ UNCHANGED <<db, world, job, new, status>>
      BY <1>0, <1>3 DEF PollSkip, StageFine
    <2>2. /\ held'[w] \subseteq held[w]
          /\ \A u \in held[w] \ held'[w] : new[w][u] = <<>>
          /\ \A v \in Worker \ {w} : held'[v] = held[v]
      BY <1>0, <1>3 DEF PollSkip, StageFine, Typing, TypeOK
    <2>3. /\ \A u \in held'[w] : row'[w][u] = row[w][u]
          /\ \A v \in Worker \ {w} : row'[v] = row[v]
      <3>1. held[w] \subseteq Tenant
        BY DEF Typing, TypeOK
      <3> QED
        BY <1>3, <2>2, <3>1 DEF PollSkip, Typing, TypeOK
    <2>4. \A u \in Tenant :
             /\ Chained(SeenLedger(w, u))' <=> Chained(SeenLedger(w, u))
             /\ Closing(SeenLedger(w, u))' = Closing(SeenLedger(w, u))
      BY <2>1 DEF SeenLedger, Chained, Closing, db
    <2>5. HeldFine(w)'
      BY <1>0, <2>1, <2>2, <2>3, <2>4 DEF HeldFine, db
    <2>6. pc'[w] = "next" /\ \A v \in Worker \ {w} : pc'[v] = pc[v]
      BY <2>1 DEF Typing, TypeOK
    <2>7. StageFine(w)'
      BY <1>0, <2>1, <2>6 DEF StageFine, db
    <2>8. FlushFine(w)'
      <3>1. \A u \in held[w] : account[u].exists
        BY <1>0, <2>1 DEF HeldFine, Typing, TypeOK
      <3> QED
        BY <1>0, <2>1, <3>1 DEF FlushFine, db
    <2>9. KnownAccounts'
      BY <1>0, <2>1 DEF KnownAccounts, db, world
    <2>10. \A v \in Worker \ {w} : held'[w] \intersect held[v] = {}
      BY <2>2 DEF LockInv, Exclusive
    <2> QED
      BY <2>1, <2>2, <2>3, <2>5, <2>6, <2>7, <2>8, <2>9, <2>10, OneSessionKeeps
  <1> QED
    BY <1>1, <1>2, <1>3

\* A handler that touches neither rows nor ledger entries.
LEMMA RowsKept ==
    ASSUME Typing, LockInv, NEW w \in Worker, UNCHANGED <<db, held, job, row, new>>
    PROVE  HeldFine(w)'
  <1>1. HeldFine(w)
    BY DEF LockInv
  <1>2. \A u \in Tenant :
           /\ Chained(SeenLedger(w, u))' <=> Chained(SeenLedger(w, u))
           /\ Closing(SeenLedger(w, u))' = Closing(SeenLedger(w, u))
    BY DEF SeenLedger, Chained, Closing, db
  <1> QED
    BY <1>1, <1>2 DEF HeldFine, db

\* Flushing the status of an attempt whose account is locked or exists.
LEMMA StatusKept ==
    ASSUME Typing, LockInv, NEW w \in Worker, NEW p \in Payment,
           NEW s \in PaymentStatus \ {"absent"},
           account[PaymentTenant[p]].exists \/ PaymentTenant[p] \in held[w],
           status' = [status EXCEPT ![w][p] = s], UNCHANGED <<db, held>>
    PROVE  /\ FlushFine(w)'
           /\ \A v \in Worker \ {w} : status'[v] = status[v]
  <1>1. FlushFine(w)
    BY DEF LockInv
  <1>2. /\ \A v \in Worker \ {w} : status'[v] = status[v]
        /\ status'[w][p] = s
        /\ \A q \in Payment \ {p} : status'[w][q] = status[w][q]
    BY DEF Typing, TypeOK
  <1> QED
    BY <1>1, <1>2 DEF FlushFine, db

LEMMA TopupsKeep ==
    ASSUME Typing, LockInv, NEW w \in Worker,
           \/ CreateTopup(w) \/ StripeSettle(w) \/ PaypalCapture(w) \/ PaypalWebhook(w)
           \/ CryptoConfirm(w) \/ CryptoExpire(w)
    PROVE  LockInv'
  <1> DEFINE p == job[w].payment
  <1>0. HeldFine(w) /\ StageFine(w) /\ FlushFine(w) /\ KnownAccounts
    BY DEF LockInv
  <1>1. /\ p \in Payment
        /\ account[PaymentTenant[p]].exists \/ PaymentTenant[p] \in held[w]
        /\ ~CreateTopup(w) => PaymentTenant[p] \in held[w]
    <2>1. pc[w] = "work" /\ job[w].op \in {"topup", "settle", "capture", "poll"}
      BY DEF CreateTopup, StripeSettle, PaypalCapture, PaypalWebhook, CryptoConfirm,
             CryptoExpire, Working
    <2>2. p \in Payment /\ job[w].tenant = PaymentTenant[p]
      BY <2>1 DEF Typing, JobOK, JobFine
    <2>3. ~CreateTopup(w) => job[w].op # "topup"
      BY DEF StripeSettle, PaypalCapture, PaypalWebhook, CryptoConfirm, CryptoExpire, Working
    <2> QED
      BY <1>0, <2>1, <2>2, <2>3 DEF StageFine
  <1>2. UNCHANGED <<db, job, held>> /\ pc' = Resume(w) /\ KnownAccounts'
    BY <1>0 DEF CreateTopup, StripeSettle, PaypalCapture, PaypalWebhook, CryptoConfirm,
                CryptoExpire, KnownAccounts, db, world
  <1>3. PICK next \in {"next", "done"} : pc' = [pc EXCEPT ![w] = next]
    BY <1>2, ResumeNext
  <1> HIDE DEF p
  <1>4. SUFFICES /\ HeldFine(w)' /\ FlushFine(w)'
                 /\ \A v \in Worker \ {w} : /\ row'[v] = row[v]
                                            /\ new'[v] = new[v]
                                            /\ status'[v] = status[v]
    BY <1>2, <1>3, HandlerKeeps
  <1>5. CASE UNCHANGED <<row, new, status>>
    BY <1>0, <1>2, <1>5, RowsKept DEF FlushFine, db
  <1>6. CASE ~CreateTopup(w) /\ Complete(w, p)
    BY <1>1, <1>2, <1>6, CompleteKeeps
  <1>7. ASSUME NEW s \in PaymentStatus \ {"absent"},
               status' = [status EXCEPT ![w][p] = s], UNCHANGED <<row, new>>
        PROVE  /\ HeldFine(w)' /\ FlushFine(w)'
               /\ \A v \in Worker \ {w} : /\ row'[v] = row[v]
                                          /\ new'[v] = new[v]
                                          /\ status'[v] = status[v]
    BY <1>1, <1>2, <1>7, RowsKept, StatusKept
  <1>8. CASE CreateTopup(w)
    <2>1. "pending" \in PaymentStatus \ {"absent"}
      BY DEF PaymentStatus
    <2>2. status' = [status EXCEPT ![w][p] = "pending"] /\ UNCHANGED <<row, new>>
      BY <1>8 DEF CreateTopup, p
    <2> QED
      BY <1>7, <2>1, <2>2
  <1>9. CASE ~CreateTopup(w) /\ (StripeSettle(w) \/ PaypalCapture(w) \/ PaypalWebhook(w))
    BY <1>5, <1>6, <1>9 DEF StripeSettle, PaypalCapture, PaypalWebhook, p
  <1>10. CASE ~CreateTopup(w) /\ CryptoConfirm(w)
    BY <1>5, <1>6, <1>7, <1>10 DEF CryptoConfirm, PaymentStatus, p
  <1>11. CASE CryptoExpire(w)
    BY <1>5, <1>7, <1>11 DEF CryptoExpire, PaymentStatus, p
  <1> QED
    BY <1>8, <1>9, <1>10, <1>11

LEMMA MoneyKeeps ==
    ASSUME Typing, LockInv, NEW w \in Worker,
           ReloadWebhook(w) \/ Adjust(w) \/ MeterFirst(w) \/ MeterUsage(w)
    PROVE  LockInv'
  <1> DEFINE t == job[w].tenant
  <1>0. HeldFine(w) /\ StageFine(w) /\ FlushFine(w) /\ KnownAccounts
    BY DEF LockInv
  <1>1. t \in held[w] /\ t \in Tenant /\ row[w][t] \in Row
    BY <1>0 DEF ReloadWebhook, Adjust, MeterFirst, MeterUsage, Working,
                StageFine, Typing, TypeOK, JobOK, JobFine
  <1>2. row[w][t].exists /\ (row[w][t].paused => row[w][t].balance < 0)
    BY <1>0, <1>1 DEF HeldFine
  <1>3. UNCHANGED <<db, job, held, status>> /\ FlushFine(w)' /\ KnownAccounts'
    BY <1>0 DEF ReloadWebhook, Adjust, MeterFirst, MeterUsage, FlushFine,
                KnownAccounts, db, world
  <1>4. ASSUME HeldFine(w)',
               \A v \in Worker \ {w} : row'[v] = row[v] /\ new'[v] = new[v],
               NEW next \in {"next", "done", "card"},
               pc' = [pc EXCEPT ![w] = next], next = "card" => account[t].exists
        PROVE  LockInv'
    BY <1>1, <1>3, <1>4, HandlerKeeps
  <1>5. ASSUME NEW r \in Row, NEW n \in Int, NEW ref \in Ref \union {NoRef},
               NEW k \in {"grant", "topup", "charge", "adjustment"},
               Post(w, t, r, k, n, ref), r.exists,
               r.balance = row[w][t].balance + n, r.paused => r.balance < 0
        PROVE  /\ HeldFine(w)'
               /\ \A v \in Worker \ {w} : row'[v] = row[v] /\ new'[v] = new[v]
    <2>1. HeldFine(w)'
      BY <1>1, <1>3, <1>5, PostKeepsRow
    <2>2. \A v \in Worker \ {w} : row'[v] = row[v] /\ new'[v] = new[v]
      BY <1>5 DEF Post, Typing, TypeOK
    <2> QED
      BY <2>1, <2>2
  <1> HIDE DEF t
  <1>6. CASE ReloadWebhook(w)
    <2>1. job[w].intent \in Ref /\ ReloadCents \in Int
      BY <1>6, AmountsAssumption
         DEF ReloadWebhook, Working, Typing, JobOK, JobFine, Ref
    <2>2. CreditOnce(w, t, ReloadCents, job[w].intent) /\ pc' = Resume(w)
      BY <1>6 DEF ReloadWebhook, t
    <2>3. /\ HeldFine(w)'
          /\ \A v \in Worker \ {w} : row'[v] = row[v] /\ new'[v] = new[v]
      BY <1>1, <1>3, <2>1, <2>2, CreditOnceKeeps
    <2> QED
      BY <1>4, <2>2, <2>3, ResumeNext
  <1>7. CASE Adjust(w)
    <2>1. pc' = Resume(w)
      BY <1>7 DEF Adjust
    <2>2. PICK n \in AdjustCents \ {0} :
              Post(w, t, IF n > 0 THEN Credited(row[w][t], n)
                                  ELSE Charged(row[w][t], -n),
                   "adjustment", n, NoRef)
      BY <1>7 DEF Adjust, t
    <2> DEFINE r == IF n > 0 THEN Credited(row[w][t], n)
                             ELSE Charged(row[w][t], -n)
    <2>3. n \in Int
      BY AmountsAssumption
    <2>4. /\ r \in Row /\ r.exists /\ r.balance = row[w][t].balance + n
          /\ r.paused => r.balance < 0
      <3>1. CASE n > 0
        BY <1>1, <1>2, <2>3, <3>1, CreditedRow
      <3>2. CASE ~(n > 0)
        <4>1. -n \in Nat
          BY <2>3, <3>2
        <4>2. row[w][t].balance - (-n) = row[w][t].balance + n
          BY <1>1, <2>3 DEF Row
        <4> QED
          BY <1>1, <1>2, <3>2, <4>1, <4>2, ChargedRow
      <3> QED
        BY <3>1, <3>2
    <2> HIDE DEF r
    <2>5. Post(w, t, r, "adjustment", n, NoRef)
      BY <2>2 DEF r
    <2>6. /\ HeldFine(w)'
          /\ \A v \in Worker \ {w} : row'[v] = row[v] /\ new'[v] = new[v]
      BY <1>5, <2>3, <2>4, <2>5
    <2> QED
      BY <1>4, <2>1, <2>6, ResumeNext
  <1>8. CASE MeterFirst(w)
    <2> DEFINE r == [row[w][t] EXCEPT !.metered = TRUE]
    <2>1. /\ r \in Row /\ r.exists /\ r.balance = row[w][t].balance
          /\ r.paused => r.balance < 0
      BY <1>1, <1>2 DEF Row
    <2>2. row' = [row EXCEPT ![w][t] = r] /\ new' = new /\ pc' = Resume(w)
      BY <1>1, <1>8 DEF MeterFirst, t, Typing, TypeOK
    <2> HIDE DEF r
    <2>3. HeldFine(w)'
      BY <1>1, <1>3, <2>1, <2>2, RowKeepsRow
    <2>4. \A v \in Worker \ {w} : row'[v] = row[v] /\ new'[v] = new[v]
      BY <2>2 DEF Typing, TypeOK
    <2> QED
      BY <1>4, <2>2, <2>3, <2>4, ResumeNext
  <1>9. CASE MeterUsage(w)
    <2>1. row[w][t].metered /\ pc[w] = "work" /\ pc' = [pc EXCEPT ![w] = "card"]
      BY <1>9 DEF MeterUsage, Working, t
    <2>2. account[t].exists
      BY <1>0, <1>1, <2>1 DEF StageFine, t
    <2>3. CASE UNCHANGED <<row, new>>
      BY <1>3, <1>4, <2>1, <2>2, <2>3, RowsKept
    <2>4. ASSUME NEW n \in UsageCents, n > 0,
                 Post(w, t, Charged(row[w][t], n), "charge", -n, NoRef)
          PROVE  LockInv'
      <3> DEFINE r == Charged(row[w][t], n)
      <3>1. n \in Nat /\ -n \in Int
        BY AmountsAssumption
      <3>2. /\ r \in Row /\ r.exists /\ r.balance = row[w][t].balance - n
            /\ r.paused => r.balance < 0
        BY <1>1, <1>2, <3>1, ChargedRow
      <3>3. r.balance = row[w][t].balance + (-n)
        BY <1>1, <3>1, <3>2 DEF Row
      <3> HIDE DEF r
      <3>4. Post(w, t, r, "charge", -n, NoRef)
        BY <2>4 DEF r
      <3>5. /\ HeldFine(w)'
            /\ \A v \in Worker \ {w} : row'[v] = row[v] /\ new'[v] = new[v]
        BY <1>5, <3>1, <3>2, <3>3, <3>4
      <3> QED
        BY <1>4, <2>1, <2>2, <3>5
    <2> QED
      BY <1>9, <2>3, <2>4 DEF MeterUsage, t
  <1> QED
    BY <1>6, <1>7, <1>8, <1>9

LEMMA CardKeeps ==
    ASSUME Typing, LockInv, NEW w \in Worker,
           MeterNoReload(w) \/ MeterReload(w) \/ MeterReloadFails(w)
    PROVE  LockInv'
  <1> DEFINE t == job[w].tenant
  <1>0. HeldFine(w) /\ StageFine(w) /\ FlushFine(w) /\ KnownAccounts
    BY DEF LockInv
  <1>1. /\ pc[w] = "card" /\ pc' = Resume(w)
        /\ UNCHANGED <<db, job, held, status>>
    BY DEF MeterNoReload, MeterReload, MeterReloadFails
  <1>2. t \in held[w] /\ t \in Tenant /\ row[w][t] \in Row /\ account[t].exists
    BY <1>0, <1>1 DEF StageFine, Typing, TypeOK, JobOK, JobFine
  <1>3. row[w][t].exists /\ (row[w][t].paused => row[w][t].balance < 0)
    BY <1>0, <1>2 DEF HeldFine
  <1>4. FlushFine(w)'
    BY <1>0, <1>1 DEF FlushFine, db
  <1>5. KnownAccounts'
    <2>1. \A i \in Intent : intent'[i] = intent[i] \/ intent'[i] = t
      BY DEF MeterNoReload, MeterReload, MeterReloadFails, world, Typing, TypeOK
    <2> QED
      BY <1>0, <1>1, <1>2, <2>1 DEF KnownAccounts, db
  <1> HIDE DEF t
  <1>6. ASSUME HeldFine(w)',
               \A v \in Worker \ {w} : row'[v] = row[v] /\ new'[v] = new[v]
        PROVE  LockInv'
    BY <1>1, <1>4, <1>5, <1>6, ResumeNext, HandlerKeeps
  <1>7. ASSUME NEW r \in Row, row' = [row EXCEPT ![w][t] = r], new' = new,
               r.exists, r.balance = row[w][t].balance, r.paused => r.balance < 0
        PROVE  LockInv'
    <2>1. HeldFine(w)'
      BY <1>1, <1>2, <1>7, RowKeepsRow
    <2>2. \A v \in Worker \ {w} : row'[v] = row[v] /\ new'[v] = new[v]
      BY <1>7 DEF Typing, TypeOK
    <2> QED
      BY <1>6, <2>1, <2>2
  <1>8. CASE MeterNoReload(w)
    <2>1. row' = [row EXCEPT ![w][t] = Settled(row[w][t])] /\ new' = new
      BY <1>2, <1>8 DEF MeterNoReload, t, Typing, TypeOK
    <2> QED
      BY <1>2, <1>3, <1>7, <2>1, SettledRow
  <1>9. CASE MeterReloadFails(w)
    <2> DEFINE r == [row[w][t] EXCEPT !.reloadFailed = TRUE]
    <2>1. /\ r \in Row /\ r.exists /\ r.balance = row[w][t].balance
          /\ r.paused => r.balance < 0
      BY <1>2, <1>3 DEF Row
    <2>2. row' = [row EXCEPT ![w][t] = Settled(r)] /\ new' = new
      BY <1>2, <1>9 DEF MeterReloadFails, t, Typing, TypeOK
    <2> HIDE DEF r
    <2> QED
      BY <1>7, <2>1, <2>2, SettledRow
  <1>10. CASE MeterReload(w)
    <2> DEFINE r == Credited(row[w][t], ReloadCents)
    <2>1. PICK i \in Intent :
             Post(w, t, Settled(r), "topup", ReloadCents, i)
      BY <1>10 DEF MeterReload, t
    <2>2. ReloadCents \in Int /\ i \in Ref \union {NoRef}
      BY AmountsAssumption DEF Ref
    <2>3. /\ r \in Row /\ r.exists /\ r.balance = row[w][t].balance + ReloadCents
          /\ r.paused => r.balance < 0
      BY <1>2, <1>3, <2>2, CreditedRow
    <2> HIDE DEF r
    <2>4. /\ Settled(r) \in Row /\ Settled(r).exists
          /\ Settled(r).balance = row[w][t].balance + ReloadCents
          /\ Settled(r).paused => Settled(r).balance < 0
      BY <2>3, SettledRow
    <2> DEFINE q == Settled(r)
    <2> HIDE DEF q
    <2>5. HeldFine(w)'
      BY <1>1, <1>2, <2>1, <2>2, <2>4, PostKeepsRow
    <2>6. \A v \in Worker \ {w} : row'[v] = row[v] /\ new'[v] = new[v]
      BY <2>1 DEF Post, Typing, TypeOK
    <2> QED
      BY <1>6, <2>5, <2>6
  <1> QED
    BY <1>8, <1>9, <1>10

\* An ended session holds nothing.
LEMMA EndedFine ==
    ASSUME Typing, NEW w \in Worker, EndSession(w)
    PROVE  /\ HeldFine(w)' /\ StageFine(w)' /\ FlushFine(w)' /\ held'[w] = {}
           /\ \A v \in Worker \ {w} :
                 /\ pc'[v] = pc[v] /\ job'[v] = job[v] /\ held'[v] = held[v]
                 /\ row'[v] = row[v] /\ new'[v] = new[v] /\ status'[v] = status[v]
  <1>1. \A v \in Worker \ {w} :
           /\ pc'[v] = pc[v] /\ job'[v] = job[v] /\ held'[v] = held[v]
           /\ row'[v] = row[v] /\ new'[v] = new[v] /\ status'[v] = status[v]
    BY DEF EndSession, Typing, TypeOK
  <1>2. /\ pc'[w] = "idle" /\ job'[w] = NoJob /\ held'[w] = {}
        /\ \A t \in Tenant : new'[w][t] = <<>>
        /\ \A p \in Payment : status'[w][p] = "same"
    BY DEF EndSession, Typing, TypeOK
  <1>3. ~NoJob.born /\ NoJob.todo = {}
    BY DEF NoJob, NewJob
  <1>4. HeldFine(w)'
    BY <1>2 DEF HeldFine
  <1>5. StageFine(w)'
    BY <1>2, <1>3 DEF StageFine
  <1>6. FlushFine(w)'
    BY <1>2 DEF FlushFine
  <1> QED
    BY <1>1, <1>2, <1>4, <1>5, <1>6

\* What a commit may do to the sessions still open: accounts and attempts
\* appear, and the rows they hold stay as they are.
LEMMA OpenSessionsFine ==
    ASSUME Typing, LockInv, NEW v \in Worker,
           /\ pc'[v] = pc[v] /\ job'[v] = job[v] /\ held'[v] = held[v]
           /\ row'[v] = row[v] /\ new'[v] = new[v] /\ status'[v] = status[v],
           \A t \in Tenant : account[t].exists => account'[t].exists,
           \A t \in held[v] : /\ account'[t].exists = account[t].exists
                              /\ ledger'[t] = ledger[t],
           \A p \in Payment : payment[p] # "absent" => payment'[p] # "absent"
    PROVE  HeldFine(v)' /\ StageFine(v)' /\ FlushFine(v)'
  <1>1. HeldFine(v) /\ StageFine(v) /\ FlushFine(v)
    BY DEF LockInv
  <1>2. job[v].todo \subseteq Payment /\ held[v] \subseteq Tenant
    BY DEF Typing, TypeOK, Job
  <1>3. \A t \in held[v] :
           /\ Chained(SeenLedger(v, t))' <=> Chained(SeenLedger(v, t))
           /\ Closing(SeenLedger(v, t))' = Closing(SeenLedger(v, t))
    <2>1. \A t \in held[v] : SeenLedger(v, t)' = SeenLedger(v, t)
      BY DEF SeenLedger
    <2> QED
      BY <2>1 DEF Chained, Closing
  <1>4. HeldFine(v)'
    BY <1>1, <1>3 DEF HeldFine
  <1>5. StageFine(v)'
    <2>1. \A t \in Tenant : account[t].exists => account'[t].exists
      OBVIOUS
    <2>2. pc[v] \in {"wait", "work", "card"} => job[v].tenant \in Tenant
      BY DEF Typing, JobOK, JobFine
    <2>3. job[v].born => ~account'[job[v].tenant].exists
      BY <1>1 DEF StageFine
    <2>4. \A q \in job[v].todo : payment'[q] # "absent"
      BY <1>1, <1>2 DEF StageFine
    <2> QED
      BY <1>1, <1>2, <2>1, <2>2, <2>3, <2>4 DEF StageFine
  <1>6. FlushFine(v)'
    BY <1>1, RoutingAssumption DEF FlushFine
  <1> QED
    BY <1>4, <1>5, <1>6

LEMMA CommitKeeps ==
    ASSUME Typing, LockInv, NEW w \in Worker, Commit(w)
    PROVE  LockInv'
  <1>0. HeldFine(w) /\ StageFine(w) /\ FlushFine(w) /\ KnownAccounts
    BY DEF LockInv
  <1>1. /\ account' = [t \in Tenant |->
                         IF t \in held[w] THEN row[w][t] ELSE account[t]]
        /\ ledger' = [t \in Tenant |-> SeenLedger(w, t)]
        /\ payment' = [p \in Payment |-> SeenStatus(w, p)]
        /\ EndSession(w)
        /\ UNCHANGED world
    BY DEF Commit
  <1>2. /\ HeldFine(w)' /\ StageFine(w)' /\ FlushFine(w)' /\ held'[w] = {}
        /\ \A v \in Worker \ {w} :
              /\ pc'[v] = pc[v] /\ job'[v] = job[v] /\ held'[v] = held[v]
              /\ row'[v] = row[v] /\ new'[v] = new[v] /\ status'[v] = status[v]
    BY <1>1, EndedFine
  <1>3. ASSUME NEW t \in Tenant, t \notin held[w]
        PROVE  account'[t] = account[t] /\ ledger'[t] = ledger[t]
    <2>1. new[w][t] = <<>> /\ ledger[t] \in Seq(Entry)
      BY <1>0, <1>3 DEF HeldFine, Typing, TypeOK
    <2>2. ledger[t] \o <<>> = ledger[t]
      BY <2>1, ConcatEmptySeq
    <2> QED
      BY <1>1, <1>3, <2>1, <2>2 DEF SeenLedger
  <1>4. ASSUME NEW t \in held[w]
        PROVE  /\ account'[t].exists
               /\ Chained(ledger'[t]) /\ account'[t].balance = Closing(ledger'[t])
               /\ account'[t].paused => account'[t].balance < 0
    <2>1. t \in Tenant
      BY DEF Typing, TypeOK
    <2>2. account'[t] = row[w][t] /\ ledger'[t] = SeenLedger(w, t)
      BY <1>1, <2>1
    <2> QED
      BY <1>0, <2>1, <2>2 DEF HeldFine
  <1>5. \A t \in Tenant : account[t].exists => account'[t].exists
    BY <1>3, <1>4
  <1>6. \A p \in Payment : payment[p] # "absent" => payment'[p] # "absent"
    BY <1>0, <1>1 DEF SeenStatus, FlushFine
  <1>7. BooksBalance'
    <2>1. \A t \in Tenant :
             /\ Chained(ledger'[t]) /\ account'[t].balance = Closing(ledger'[t])
      BY <1>3, <1>4 DEF LockInv, BooksBalance
    <2> QED
      BY <2>1 DEF BooksBalance, Chained, Closing
  <1>8. PausedOnlyInDebt'
    BY <1>3, <1>4 DEF LockInv, PausedOnlyInDebt
  <1>9. Exclusive'
    BY <1>2 DEF LockInv, Exclusive
  <1>10. KnownAccounts'
    <2>1. ASSUME NEW p \in Payment, payment'[p] # "absent"
          PROVE  account'[PaymentTenant[p]].exists
      <3>1. PaymentTenant[p] \in Tenant
        BY RoutingAssumption
      <3>2. account[PaymentTenant[p]].exists \/ PaymentTenant[p] \in held[w]
        BY <1>0, <1>1, <2>1 DEF SeenStatus, FlushFine, KnownAccounts
      <3> QED
        BY <1>4, <1>5, <3>1, <3>2
    <2>2. \A i \in Intent : intent'[i] # NoTenant => account'[intent'[i]].exists
      BY <1>0, <1>1, <1>5 DEF KnownAccounts, world, Typing, TypeOK
    <2>3. \A t \in Tenant : ~account'[t].exists => ledger'[t] = <<>>
      BY <1>0, <1>3, <1>4 DEF KnownAccounts
    <2> QED
      BY <2>1, <2>2, <2>3 DEF KnownAccounts
  <1>11. ASSUME NEW v \in Worker \ {w}
         PROVE  HeldFine(v)' /\ StageFine(v)' /\ FlushFine(v)'
    <2>1. \A t \in held[v] : t \in Tenant /\ t \notin held[w]
      BY DEF LockInv, Exclusive, Typing, TypeOK
    <2>2. \A t \in held[v] : /\ account'[t].exists = account[t].exists
                             /\ ledger'[t] = ledger[t]
      BY <1>3, <2>1
    <2> QED
      BY <1>2, <1>5, <1>6, <2>2, OpenSessionsFine
  <1> QED
    BY <1>2, <1>7, <1>8, <1>9, <1>10, <1>11 DEF LockInv

LEMMA AbortKeeps ==
    ASSUME Typing, LockInv, NEW w \in Worker, Abort(w)
    PROVE  LockInv'
  <1>1. EndSession(w) /\ UNCHANGED <<db, world>>
    BY DEF Abort
  <1>2. KnownAccounts'
    BY <1>1 DEF LockInv, KnownAccounts, db, world
  <1> QED
    BY <1>1, <1>2, EndedFine, OneSessionKeeps

LEMMA OutsideKeeps ==
    ASSUME Typing, LockInv, Outside
    PROVE  LockInv'
  <1>1. UNCHANGED <<ledger, payment, intent, session>>
    BY DEF Outside, CustomerPays, CryptoLapses, DayPasses, db, world
  <1>2. \A t \in Tenant : /\ account'[t].exists = account[t].exists
                          /\ account'[t].balance = account[t].balance
                          /\ account'[t].paused = account[t].paused
    <2>1. CASE UNCHANGED account
      BY <2>1
    <2>2. ASSUME NEW t \in Tenant, DayPasses(t)
          PROVE  \A u \in Tenant : /\ account'[u].exists = account[u].exists
                                   /\ account'[u].balance = account[u].balance
                                   /\ account'[u].paused = account[u].paused
      BY <2>2 DEF DayPasses, Typing, TypeOK, Row
    <2> QED
      BY <2>1, <2>2 DEF Outside, CustomerPays, CryptoLapses, db
  <1>3. BooksBalance' /\ PausedOnlyInDebt'
    <2>1. BooksBalance /\ PausedOnlyInDebt
      BY DEF LockInv
    <2>2. \A t \in Tenant : /\ Chained(ledger[t])' <=> Chained(ledger[t])
                            /\ Closing(ledger[t])' = Closing(ledger[t])
      BY <1>1 DEF Chained, Closing
    <2>3. BooksBalance'
      BY <1>2, <2>1, <2>2 DEF BooksBalance
    <2> QED
      BY <1>2, <2>1, <2>3 DEF PausedOnlyInDebt
  <1>4. KnownAccounts'
    <2>1. KnownAccounts
      BY DEF LockInv
    <2>2. /\ \A p \in Payment : PaymentTenant[p] \in Tenant
          /\ \A i \in Intent : intent[i] # NoTenant => intent[i] \in Tenant
      BY RoutingAssumption DEF Typing, TypeOK
    <2>3. /\ \A p \in Payment :
                payment'[p] # "absent" => account'[PaymentTenant[p]].exists
          /\ \A i \in Intent : intent'[i] # NoTenant => account'[intent'[i]].exists
      BY <1>1, <1>2, <2>1, <2>2 DEF KnownAccounts
    <2>4. \A t \in Tenant : ~account'[t].exists => ledger'[t] = <<>>
      BY <1>1, <1>2, <2>1 DEF KnownAccounts
    <2> QED
      BY <2>3, <2>4 DEF KnownAccounts
  <1>5. Exclusive'
    BY <1>1 DEF LockInv, Exclusive, session
  <1>6. ASSUME NEW v \in Worker
        PROVE  HeldFine(v)' /\ StageFine(v)' /\ FlushFine(v)'
    <2>1. held[v] \subseteq Tenant
      BY DEF Typing, TypeOK
    <2> QED
      BY <1>1, <1>2, <2>1, OpenSessionsFine DEF session
  <1> QED
    BY <1>3, <1>4, <1>5, <1>6 DEF LockInv

LEMMA LockInvInit == Init => LockInv
  <1> SUFFICES ASSUME Init PROVE LockInv
    OBVIOUS
  <1>1. BooksBalance /\ PausedOnlyInDebt
    BY DEF Init, BooksBalance, PausedOnlyInDebt, Chained, Closing, NoRow
  <1>2. Exclusive /\ KnownAccounts
    BY DEF Init, Exclusive, KnownAccounts
  <1>3. ASSUME NEW w \in Worker
        PROVE  HeldFine(w) /\ StageFine(w) /\ FlushFine(w)
    BY DEF Init, HeldFine, StageFine, FlushFine, NoJob, NewJob
  <1> QED
    BY <1>1, <1>2, <1>3 DEF LockInv

LEMMA LockInvNext == Typing /\ LockInv /\ [Next]_vars => LockInv'
  <1> SUFFICES ASSUME Typing, LockInv, [Next]_vars PROVE LockInv'
    OBVIOUS
  <1>1. ASSUME NEW w \in Worker, Start(w) PROVE LockInv'
    BY <1>1, StartKeeps
  <1>2. ASSUME NEW w \in Worker, Advance(w) PROVE LockInv'
    BY <1>2, TakeTenantKeeps, LockAccountKeeps, PollKeeps, TopupsKeep,
       MoneyKeeps, CardKeeps DEF Advance
  <1>3. ASSUME NEW w \in Worker, Commit(w) \/ Abort(w) PROVE LockInv'
    BY <1>3, CommitKeeps, AbortKeeps
  <1>4. CASE Outside
    BY <1>4, OutsideKeeps
  <1>5. CASE UNCHANGED vars
    <2>1. BooksBalance' /\ PausedOnlyInDebt' /\ Exclusive' /\ KnownAccounts'
      BY <1>5 DEF vars, LockInv, BooksBalance, PausedOnlyInDebt, Exclusive,
                  KnownAccounts, Chained, Closing
    <2>2. ASSUME NEW w \in Worker
          PROVE  HeldFine(w)' /\ StageFine(w)' /\ FlushFine(w)'
      BY <1>5, OthersFine DEF vars, db
    <2> QED
      BY <2>1, <2>2 DEF LockInv
  <1> QED
    BY <1>1, <1>2, <1>3, <1>4, <1>5 DEF Next

\* The row locks work: in every behaviour each open session holds its rows
\* alone and its copy of a row continues the committed ledger of that row.
THEOREM LocksHold == Spec => []LockInv
  <1>1. Init => Typing /\ LockInv
    BY TypingInit, LockInvInit
  <1>2. Typing /\ LockInv /\ [Next]_vars => Typing' /\ LockInv'
    BY TypingNext, LockInvNext
  <1> QED
    BY <1>1, <1>2, PTL DEF Spec

\* No charge, credit or grant is ever lost, for any number of tenants,
\* sessions, top-ups and card charges.
THEOREM BooksAlwaysBalance == Spec => []BooksBalance
  <1>1. LockInv => BooksBalance
    BY DEF LockInv
  <1> QED
    BY <1>1, LocksHold, PTL

\* Service is suspended only in debt.
THEOREM PauseNeedsDebt == Spec => []PausedOnlyInDebt
  <1>1. LockInv => PausedOnlyInDebt
    BY DEF LockInv
  <1> QED
    BY <1>1, LocksHold, PTL

=============================================================================
