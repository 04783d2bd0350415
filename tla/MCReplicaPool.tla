--------------------------- MODULE MCReplicaPool ---------------------------
(* Instances of ReplicaPool for TLC. *)
EXTENDS ReplicaPool

CONSTANTS p, r1, r2

\* No replicas; one; three, after a failover that made it the primary too.
Files ==
  {[primary |-> p, replicas |-> <<>>], [primary |-> p, replicas |-> <<r1>>],
   [primary |-> r1, replicas |-> <<r2, p, r1>>]}
=============================================================================
