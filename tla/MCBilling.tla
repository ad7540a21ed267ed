------------------------------ MODULE MCBilling ------------------------------
(***************************************************************************)
(* Small instances of Billing for TLC: one or two tenants, up to three     *)
(* top-ups over the three rails, one card intent and two sessions.         *)
(***************************************************************************)
EXTENDS Billing, TLC

CONSTANTS t1, t2, p1, p2, p3

\* All top-ups belong to one tenant, one per rail.
OneTenant == [p \in Payment |-> t1]
ThreeRails == [p \in Payment |->
                  CASE p = p1 -> "stripe" [] p = p2 -> "paypal" [] OTHER -> "crypto"]

\* Two tenants with a crypto top-up each.
TwoTenants == [p \in Payment |-> IF p = p1 THEN t1 ELSE t2]
AllCrypto == [p \in Payment |-> "crypto"]

Cents == [p \in Payment |-> 2]

Usage == {0, 2}
Corrections == {-2, 1}

Sessions == Permutations(Worker)
=============================================================================
