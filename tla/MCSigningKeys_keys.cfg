\* Two rotations, drops and adoptions overlap.
CONSTANTS
    Key = {k1, k2, k3, k4}
    FirstKey = k1
    Token = {x1, x2}
    Worker = {w1, w2}
    Rotators = {w1, w2}
    Awaited = {"access", "admin"}
    NoKey = NoKey
SPECIFICATION Spec
SYMMETRY Fresh
INVARIANTS InlineIsActive TokensVerify
PROPERTIES RetiredIsFinal
