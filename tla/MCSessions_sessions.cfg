\* One user, its application and another of the tenant: every operation.
CONSTANTS
    p1 = p1
    App = {p1, p2}
    User = {u1}
    Home <- AtHome
    Worker = {w1, w2}
    Session = {s1, s2, s3}
    Token = {t1, t2, t3}
    Ticket = {k1}
    Outdated = {u1}
    MaxChanges = 1
    Ops = {"signin", "refresh", "logout", "change", "bridge", "exchange"}
    NoApp = NoApp
    NoUser = NoUser
    NoSession = NoSession
    NoToken = NoToken
    NoTicket = NoTicket
    NoGrant = NoGrant
    Unwritten = Unwritten
SPECIFICATION Spec
SYMMETRY Fresh
CONSTRAINT ThirdByTicket
INVARIANTS RedeemedIsDead TicketOpensOne
PROPERTIES RevokedIsFinal ChangeEndsOthers
