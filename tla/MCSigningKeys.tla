--------------------------- MODULE MCSigningKeys ---------------------------
(***************************************************************************)
(* Small instances of SigningKeys for TLC.                                 *)
(***************************************************************************)
EXTENDS SigningKeys, TLC

Fresh == {k @@ t : k \in Permutations(Key \ {FirstKey}), t \in Permutations(Token)}
=============================================================================
