\* Two requests, or two processes, at a time in each part; one in the last.
CONSTANTS
    Worker = {w1, w2}
    Visitor = {v1}
    Process = {q1, q2}
    App = {p1, p2}
    Tenant = {t1}
    Session = {s1}
    Browser = {b1, b2}
    Puzzle = {z1}
    Donation = {d1, d2}
    PublicKey = {k1, k2}
    Flow = {f1, f2}
    Provider = {google}
    Sub = {u1, u2}
    ProviderOf <- OneProvider
    Address = {e1}
    MaxGuesses = 2
    MaxIssues = 2
    MaxRows = 2
    MaxUsers = 2
    Interval = 2
    MaxElapsed = 2
    Cent = 2
    MaxRate = 1
    MaxTime = 5
    NoApp = NoApp
    NoDonation = NoDonation
    NoKey = NoKey
    NoPuzzle = NoPuzzle
    NoTenant = NoTenant
    NoTime = NoTime
    NoCopy = NoCopy
    NoBrowser = NoBrowser
    NoFlow = NoFlow
    NoProvider = NoProvider
    NoSub = NoSub
    NoAddress = NoAddress
    AdminToken = {x1}
    SessionToken = {x2}
    AppOf <- OfFirstApp
    Lifetime = 1
    MaxKey = 2
    MaxSecond = 2
    MaxEvents = 2
    NoToken = NoToken
    Secret = Secret
SPECIFICATION Spec
SYMMETRY Alike
CONSTRAINT OthersKept
CHECK_DEADLOCK FALSE
INVARIANTS BurntWhenSpent VerifiedByHolder OneBotEach ProofAdmitsOnce ChargedOnce OnePassAtATime SameAccount NothingHalfMade FlowOnce PasswordProved AdmittedInForce
