------------------------------ MODULE MCTables ------------------------------
(***************************************************************************)
(* Small instances of Tables for TLC: a table of one column, a second name *)
(* and column for it, and payloads of one value.                           *)
(***************************************************************************)
EXTENDS Tables, TLC, FiniteSetsExt, Functions

CONSTANTS c1, a, b

FirstColumn == [c \in Column |-> IF c = c1 THEN a ELSE Unused]

\* The JSON text of a row; the name b is longer.  A row with the value 2 takes
\* more to store, one that has only 1 less (it is compressed).
Estimates == [d \in Data |-> 1 + MapThenSumSet(LAMBDA n : IF n = b THEN 3 ELSE 2, DOMAIN d)]
StoredSizes ==
    [d \in Data |-> CASE 2 \in Range(d)   -> Estimates[d] + 1
                      [] Range(d) = {1}  -> Estimates[d] - 1
                      [] OTHER           -> Estimates[d]]

Payloads == {<<>>} \union [{a} -> Value]

Workers == Permutations(Worker)

\* One excuse is enough for each property that has one, and a listing is made
\* while rows are written only, by requests that need none.
Bounds ==
    /\ Cardinality(excused) < 2
    /\ listing.stage # "none" =>
          /\ excused = {}
          /\ column = First
          /\ \A w \in Worker : req[w].op \in RowOps \union {"none"}
=============================================================================
