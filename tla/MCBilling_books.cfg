\* One tenant, all operations that move its balance.
CONSTANTS
    t1 = t1
    t2 = t2
    p1 = p1
    p2 = p2
    p3 = p3
    Tenant = {t1}
    Worker = {w1, w2}
    Payment = {p1, p2}
    Intent = {i1}
    PaymentTenant <- OneTenant
    PaymentRail <- ThreeRails
    PaymentCents <- Cents
    ReloadCents = 2
    ReloadBelow = 1
    WelcomeCents = 1
    UsageCents <- Usage
    AdjustCents <- Corrections
    Ops = {"topup", "settle", "capture", "reload", "meter", "adjust"}
    MaxLedger = 3
    NoTenant = NoTenant
    NoPayment = NoPayment
    NoIntent = NoIntent
    NoRef = NoRef
SPECIFICATION Spec
SYMMETRY Sessions
INVARIANTS BooksBalance CreditedOnce CreditsAreBacked CompletedIffCredited PausedOnlyInDebt
PROPERTY MeterSettlesPause
