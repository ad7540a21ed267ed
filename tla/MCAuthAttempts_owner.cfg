\* An owner of two applications logs in by code; users of the second by link.
CONSTANTS
    App = {p1, p2}
    UsesCode = {p1}
    Email = {e1}
    Lower <- AsTyped
    Worker = {w1, w2}
    Issuers = {w1}
    Attempt = {a1, a2, a3}
    Code = {c1}
    MaxGuesses = 2
    Routes = {"json", "hosted"}
    Ops = {"admin", "dashboard", "adminguess", "signup", "signin", "link"}
    NoApp = NoApp
    NoEmail = NoEmail
    NoCode = NoCode
    NoToken = NoToken
SPECIFICATION Spec
SYMMETRY Rows
PROPERTIES OwnerCodeSpent NewestOwnerCode
