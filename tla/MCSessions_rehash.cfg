\* A sign-in that upgrades the hash overlaps a password change.
CONSTANTS
    p1 = p1
    App = {p1}
    User = {u1}
    Home <- AtHome
    Worker = {w1, w2}
    Session = {s1, s2}
    Token = {t1, t2}
    Ticket = {k1}
    Outdated = {u1}
    MaxChanges = 1
    Ops = {"signin", "change"}
    NoApp = NoApp
    NoUser = NoUser
    NoSession = NoSession
    NoToken = NoToken
    NoTicket = NoTicket
    NoGrant = NoGrant
    Unwritten = Unwritten
SPECIFICATION Spec
INVARIANTS LastPasswordHolds
