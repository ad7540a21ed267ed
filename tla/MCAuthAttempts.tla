--------------------------- MODULE MCAuthAttempts ---------------------------
(***************************************************************************)
(* Small instances of AuthAttempts for TLC: two requests at a time, one of *)
(* them issuing credentials except where the run says otherwise.           *)
(***************************************************************************)
EXTENDS AuthAttempts, TLC

\* bound: one attempt expires.
Narrow == Cardinality(expired) <= 1

AsTyped == [e \in Email |-> e]

Rows == Permutations(Attempt)
\* With every worker an issuer, the workers are alike too.
Anything == {r @@ c @@ w : r \in Rows, c \in Permutations(Code), w \in Permutations(Worker)}
=============================================================================
