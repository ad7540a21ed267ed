----------------------------- MODULE MCSessions -----------------------------
(***************************************************************************)
(* Small instances of Sessions for TLC: one user and two requests at a     *)
(* time.                                                                   *)
(***************************************************************************)
EXTENDS Sessions, TLC

CONSTANT p1

AtHome == [u \in User |-> p1]

Fresh == {s @@ t : s \in Permutations(Session), t \in Permutations(Token)}

\* The third session is for single sign-on.
ThirdByTicket ==
    LET home == {s \in Session : \/ row[s].app = p1
                                \/ \E w \in Worker : s \in DOMAIN copy[w] /\ copy[w][s].app = p1}
        used == {s \in Session : \/ row[s].state # "absent"
                                \/ \E w \in Worker : s \in DOMAIN copy[w]}
    IN  Cardinality(used) > 2 => Cardinality(home) = 1
=============================================================================
