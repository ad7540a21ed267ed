\* Codes guessed through the JSON routes.
CONSTANTS
    App = {p1}
    UsesCode = {p1}
    Email = {e1}
    Lower <- AsTyped
    Worker = {w1, w2}
    Issuers = {w1}
    Attempt = {a1}
    Code = {c1, c2}
    MaxGuesses = 2
    Routes = {"json"}
    Ops = {"signup", "guess"}
    NoApp = NoApp
    NoEmail = NoEmail
    NoCode = NoCode
    NoToken = NoToken
SPECIFICATION Spec
INVARIANTS GuessesBounded
