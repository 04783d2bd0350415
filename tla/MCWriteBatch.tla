---------------------------- MODULE MCWriteBatch ----------------------------
(* Instances of WriteBatch for TLC. *)
EXTENDS WriteBatch, TLC

CONSTANTS r1, r2, r3, r4, g1, g2, g3, g4, k1, k2

OneKey  == [r \in Requests |-> k1]
TwoKeys == [r \in Requests |-> IF r = r3 THEN k2 ELSE k1]

\* Sound for one key, where requests differ in nothing.
Symmetric == Permutations(Requests)

\* Sound for TwoKeys, if both or neither can be cancelled.
Interchangeable == Permutations({r1, r2})
=============================================================================
