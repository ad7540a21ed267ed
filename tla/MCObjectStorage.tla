--------------------------- MODULE MCObjectStorage ---------------------------
(***************************************************************************)
(* A small instance of ObjectStorage for TLC: two objects of two users in  *)
(* one bucket and one object in another.                                   *)
(***************************************************************************)
EXTENDS ObjectStorage

CONSTANTS s1, s2, s3, b1, b2, u1, u2, w1, w2

Buckets == [s \in Slot |-> IF s = s3 THEN b2 ELSE b1]
Users == [s \in Slot |-> IF s = s2 THEN u2 ELSE u1]

Sizes == [s \in Slot |-> IF s = s1 THEN {1, 2} ELSE {1}]

\* The first bucket is limited as a whole or by user, the second is not.
LimitsOf == [b \in Bucket |->
    IF b = b1 THEN {[max |-> 1, user |-> NoLimit], [max |-> NoLimit, user |-> 1]}
    ELSE {[max |-> NoLimit, user |-> NoLimit]}]

\* One uploads and deletes objects, the other does everything.
Roles == [w \in Worker |-> IF w = w1 THEN {"put", "delete"} ELSE AllOps]
=============================================================================
