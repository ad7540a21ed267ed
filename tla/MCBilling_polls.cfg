\* Two tenants with a crypto top-up each, polled by overlapping metering passes.
CONSTANTS
    t1 = t1
    t2 = t2
    p1 = p1
    p2 = p2
    p3 = p3
    Tenant = {t1, t2}
    Worker = {w1, w2}
    Payment = {p1, p2}
    Intent = {}
    PaymentTenant <- TwoTenants
    PaymentRail <- AllCrypto
    PaymentCents <- Cents
    ReloadCents = 2
    ReloadBelow = 1
    WelcomeCents = 1
    UsageCents <- Usage
    AdjustCents <- Corrections
    Ops = {"topup", "settle", "poll"}
    MaxLedger = 3
    NoTenant = NoTenant
    NoPayment = NoPayment
    NoIntent = NoIntent
    NoRef = NoRef
SPECIFICATION RunningSpec
INVARIANTS LockInv
PROPERTIES PollEnds CompletedIsFinal
