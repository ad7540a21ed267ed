------------------------------ MODULE Metering ------------------------------
(***************************************************************************)
(* The metering loops of several processes: the lease that lets one of     *)
(* them make a pass, and what a pass adds to the accounts for the time     *)
(* since they were last metered.  A pass reads the time before it waits    *)
(* for an account, so two passes (the earlier has outlasted its lease, or  *)
(* Redis has lost it) reach an account with times out of order.            *)
(*                                                                         *)
(* An account's usage costs rate parts of a cent per unit of time.  What   *)
(* else happens to accounts is in Billing.                                 *)
(***************************************************************************)
EXTENDS Integers, FiniteSets

CONSTANTS
    Process, Tenant,
    Interval,      \* settings.billing_metering_interval_seconds
    MaxElapsed,    \* the 31 days a pass charges for at most
    Cent,          \* parts of a cent
    MaxRate,       \* bound: the cost of a unit of time
    MaxTime,       \* bound: the last time
    NoTenant, NoTime, NoCopy

VARIABLES
    clock,
    lease,         \* when billing:lock expires
    rate,          \* what each tenant's usage costs at present
    account,       \* committed accrual of each billing account
    hours,         \* times each unit of time has been charged, of each account
    owed,          \* what the charged units cost
    since,         \* when each account was first metered
    lapsed,        \* accounts left for longer than a pass charges for
    pc, wake,      \* of each process: where it is, when its sleep ends
    until,         \* the end of the lease its pass was given
    todo, at, now, \* its pass: tenants left, the present one, the time it read
    copy           \* what it has flushed

world == <<clock, lease, rate>>
books == <<account, hours, owed, since, lapsed>>
process == <<pc, wake, until, todo, at, now, copy>>
vars == <<clock, lease, rate, account, hours, owed, since, lapsed,
          pc, wake, until, todo, at, now, copy>>

Time == 0..MaxTime
Account == [last: Time \union {NoTime}, accrued: 0..Cent - 1, charged: Nat]

Init ==
    /\ clock = 0 /\ lease = 0
    /\ rate = [t \in Tenant |-> 1]
    /\ account = [t \in Tenant |-> [last |-> NoTime, accrued |-> 0, charged |-> 0]]
    /\ hours = [t \in Tenant |-> [u \in Time |-> 0]]
    /\ owed = [t \in Tenant |-> 0]
    /\ since = [t \in Tenant |-> NoTime] /\ lapsed = {}
    /\ pc = [p \in Process |-> "sleep"]
    /\ wake = [p \in Process |-> Interval]
    /\ until = [p \in Process |-> 0]
    /\ todo = [p \in Process |-> {}]
    /\ at = [p \in Process |-> NoTenant]
    /\ now = [p \in Process |-> NoTime]
    /\ copy = [p \in Process |-> NoCopy]

Go(p, stage) == pc' = [pc EXCEPT ![p] = stage]

\* The pass of p leaves its tenant.
Leave(p) ==
    /\ Go(p, "pass")
    /\ at' = [at EXCEPT ![p] = NoTenant]
    /\ now' = [now EXCEPT ![p] = NoTime]
    /\ copy' = [copy EXCEPT ![p] = NoCopy]

\* metering_loop: sleep for the interval, whatever came of the pass.
Sleep(p) ==
    /\ Go(p, "sleep")
    /\ wake' = [wake EXCEPT ![p] = clock + Interval]
    /\ until' = [until EXCEPT ![p] = 0]
    /\ todo' = [todo EXCEPT ![p] = {}]
    /\ at' = [at EXCEPT ![p] = NoTenant]
    /\ now' = [now EXCEPT ![p] = NoTime]
    /\ copy' = [copy EXCEPT ![p] = NoCopy]

-----------------------------------------------------------------------------
(* The lease.                                                              *)

\* (fault) SET without NX.
LeaseUnchecked == TRUE

LeaseFree == clock >= lease

\* SET NX EX, then the list of tenants.
TakeLease(p) ==
    LET end == clock + (IF Interval > 1 THEN Interval - 1 ELSE 1)
    IN  /\ pc[p] = "sleep" /\ clock >= wake[p]
        /\ LeaseFree
        /\ lease' = end
        /\ until' = [until EXCEPT ![p] = end]
        /\ todo' = [todo EXCEPT ![p] = Tenant]
        /\ Go(p, "pass")
        /\ UNCHANGED <<clock, rate, books, wake, at, now, copy>>

\* Another process holds it, or Redis cannot be reached.
SkipPass(p) ==
    /\ pc[p] = "sleep" /\ clock >= wake[p]
    /\ Sleep(p)
    /\ UNCHANGED <<world, books>>

-----------------------------------------------------------------------------
(* One tenant of a pass, in a transaction of its own.                      *)

MeterTenant(p, t) ==
    /\ pc[p] = "pass" /\ t \in todo[p]
    /\ at' = [at EXCEPT ![p] = t]
    /\ todo' = [todo EXCEPT ![p] = @ \ {t}]
    /\ now' = [now EXCEPT ![p] = clock]
    /\ Go(p, "lock")
    /\ UNCHANGED <<world, books, wake, until, copy>>

Clamp(n, hi) == IF n < 0 THEN 0 ELSE IF n > hi THEN hi ELSE n

Later(last, time) == IF last > time THEN last ELSE time

\* meter_account, up to the reload: the first pass only notes the time; usage
\* accrues in parts of a cent and is charged in whole cents.
Metered(a, time, cost) ==
    IF a.last = NoTime THEN [a EXCEPT !.last = time]
      ELSE LET total == a.accrued + cost * Clamp(time - a.last, MaxElapsed)
           IN  [last |-> Later(a.last, time), accrued |-> total % Cent,
                charged |-> a.charged + total \div Cent]

\* (fault) the account is read without a lock.
Unlocked(p, t) == FALSE

LockedBy(p, t) == at[p] = t /\ pc[p] = "written"

\* _lock_account re-reads the row; the usage is counted after that.
Meter(p) ==
    LET t == at[p]
    IN  /\ pc[p] = "lock"
        /\ \A q \in Process \ {p} : ~LockedBy(q, t)
        /\ copy' = [copy EXCEPT ![p] = [row |-> Metered(account[t], now[p], rate[t]),
                                        cost |-> rate[t]]]
        /\ Go(p, "written")
        /\ UNCHANGED <<world, books, wake, until, todo, at, now>>

\* The units of time a metering at this time charges for.
Units(a, time) ==
    IF a.last = NoTime THEN {}
      ELSE {u \in Time : u >= a.last /\ u < a.last + Clamp(time - a.last, MaxElapsed)}

Commit(p) ==
    LET t == at[p]
        first == account[t].last = NoTime
        units == Units(account[t], now[p])
    IN  /\ pc[p] = "written"
        /\ account' = [account EXCEPT ![t] = copy[p].row]
        /\ hours' = [hours EXCEPT ![t] =
              [u \in Time |-> IF u \in units THEN @[u] + 1 ELSE @[u]]]
        /\ owed' = [owed EXCEPT ![t] = @ + copy[p].cost * Cardinality(units)]
        /\ since' = IF first THEN [since EXCEPT ![t] = now[p]] ELSE since
        /\ lapsed' = IF ~first /\ now[p] > account[t].last + MaxElapsed
                       THEN lapsed \union {t} ELSE lapsed
        /\ Leave(p)
        /\ UNCHANGED <<world, wake, until, todo>>

\* Any failure ends this tenant's transaction; the pass goes on.
FailTenant(p) ==
    /\ pc[p] \in {"lock", "written"}
    /\ Leave(p)
    /\ UNCHANGED <<world, books, wake, until, todo>>

\* The pass ends with a poll of the crypto payments (see Billing).
EndPass(p) ==
    /\ pc[p] = "pass" /\ todo[p] = {}
    /\ Sleep(p)
    /\ UNCHANGED <<world, books>>

\* The process dies or is cancelled, and is started again.
Restart(p) ==
    /\ pc[p] # "sleep"
    /\ Sleep(p)
    /\ UNCHANGED <<world, books>>

-----------------------------------------------------------------------------
Tick ==
    /\ clock < MaxTime
    /\ clock' = clock + 1
    /\ UNCHANGED <<lease, rate, books, process>>

\* Redis is restarted without its data.
LoseLease ==
    /\ clock < lease
    /\ lease' = clock
    /\ until' = [p \in Process |-> IF until[p] > clock THEN clock ELSE until[p]]
    /\ UNCHANGED <<clock, rate, books, pc, wake, todo, at, now, copy>>

UsageChanges(t, r) ==
    /\ rate[t] # r
    /\ rate' = [rate EXCEPT ![t] = r]
    /\ UNCHANGED <<clock, lease, books, process>>

Next ==
    \/ \E p \in Process :
          \/ TakeLease(p) \/ SkipPass(p)
          \/ \E t \in Tenant : MeterTenant(p, t)
          \/ Meter(p) \/ Commit(p) \/ FailTenant(p) \/ EndPass(p) \/ Restart(p)
    \/ Tick \/ LoseLease
    \/ \E t \in Tenant, r \in 0..MaxRate : UsageChanges(t, r)

Spec == Init /\ [][Next]_vars

-----------------------------------------------------------------------------
\* Every variable has its type.
TypeOK ==
    /\ clock \in Time /\ lease \in Nat
    /\ rate \in [Tenant -> 0..MaxRate] /\ account \in [Tenant -> Account]
    /\ hours \in [Tenant -> [Time -> Nat]] /\ owed \in [Tenant -> Nat]
    /\ since \in [Tenant -> Time \union {NoTime}] /\ lapsed \subseteq Tenant
    /\ pc \in [Process -> {"sleep", "pass", "lock", "written"}]
    /\ wake \in [Process -> Nat] /\ until \in [Process -> Nat]
    /\ todo \in [Process -> SUBSET Tenant]
    /\ at \in [Process -> Tenant \union {NoTenant}]
    /\ now \in [Process -> Time \union {NoTime}]
    /\ \A p \in Process : copy[p] # NoCopy =>
          copy[p].row \in Account /\ copy[p].cost \in 0..MaxRate

\* meter_account charges for the time since last_metered_at, in whole cents,
\* and keeps the rest: however passes overlap, fail or arrive late, every unit of
\* time from the first metering to the last is charged once (none twice, and
\* none left out unless the account lapsed), no other unit is charged, and what
\* was charged and what is still accrued add up to what the units cost.
ChargedOnce ==
    \A t \in Tenant :
        LET a == account[t]
            due == IF a.last = NoTime THEN {} ELSE since[t]..a.last - 1
        IN  /\ \A u \in Time : hours[t][u] <= (IF u \in due THEN 1 ELSE 0)
            /\ t \notin lapsed => \A u \in due : hours[t][u] = 1
            /\ a.charged * Cent + a.accrued = owed[t]

\* cleanup.py, of the lease of either loop: "whichever worker gets it does the
\* work and the rest skip the round": two passes are under way at once only
\* when one has outlasted the lease it was given or Redis has lost it.
OnePassAtATime ==
    \A p, q \in Process :
        p # q /\ pc[p] # "sleep" /\ pc[q] # "sleep" =>
            clock >= until[p] \/ clock >= until[q]
=============================================================================
