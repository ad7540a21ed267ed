---------------------------- MODULE OneTimeSecret ----------------------------
(***************************************************************************)
(* What a one-time secret promises, whatever carries it: it is issued, and *)
(* then either used, once, or made void.  A step may concern several       *)
(* secrets (a new one voids an old one, a code is used for every           *)
(* application at once).                                                   *)
(***************************************************************************)
EXTENDS Naturals

CONSTANT Secret

VARIABLES
    state,     \* of each secret: unissued, live, used or void
    uses       \* what each secret has opened so far

vars == <<state, uses>>

Init ==
    /\ state = [s \in Secret |-> "unissued"]
    /\ uses = [s \in Secret |-> 0]

Stays(s) == state'[s] = state[s] /\ uses'[s] = uses[s]

Issue(s) == state[s] = "unissued" /\ state'[s] = "live" /\ uses'[s] = uses[s]

Use(s) == state[s] = "live" /\ state'[s] = "used" /\ uses'[s] = uses[s] + 1

Void(s) == state[s] = "live" /\ state'[s] = "void" /\ uses'[s] = uses[s]

Next ==
    /\ state' \in [Secret -> {"unissued", "live", "used", "void"}]
    /\ uses' \in [Secret -> Nat]
    /\ \A s \in Secret : Stays(s) \/ Issue(s) \/ Use(s) \/ Void(s)

Spec == Init /\ [][Next]_vars

-----------------------------------------------------------------------------
\* A secret opens one thing when it is used, and nothing otherwise.
UsedOnce == \A s \in Secret : uses[s] = IF state[s] = "used" THEN 1 ELSE 0
=============================================================================
