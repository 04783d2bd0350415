---------------------------- MODULE MCQueryCache ----------------------------
(* Instances of QueryCache for TLC. *)
EXTENDS QueryCache, TLC

CONSTANTS q1, q2, q3, q4, k1, k2

OneKey == [q \in Queries |-> k1]
TwoKeys == [q \in Queries |-> IF q = q4 THEN k2 ELSE k1]

\* Sound for one key, where queries differ in nothing.
Symmetric == Permutations(Queries)
=============================================================================
