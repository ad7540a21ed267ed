\* Codes of one application, guessed through the hosted pages.
CONSTANTS
    App = {p1}
    UsesCode = {p1}
    Email = {e1}
    Lower <- AsTyped
    Worker = {w1, w2}
    Issuers = {w1, w2}
    Attempt = {a1, a2, a3}
    Code = {c1, c2}
    MaxGuesses = 2
    Routes = {"hosted"}
    Ops = {"signup", "guess"}
    NoApp = NoApp
    NoEmail = NoEmail
    NoCode = NoCode
    NoToken = NoToken
SPECIFICATION Spec
SYMMETRY Anything
CONSTRAINT Narrow
INVARIANTS GuessesBounded 
PROPERTIES NewestReplaces ImplementsOneTime
