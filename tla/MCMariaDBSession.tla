-------------------------- MODULE MCMariaDBSession --------------------------
(* Instances of MariaDBSession for TLC: two shards, the first with a replica. *)
EXTENDS MariaDBSession

CONSTANTS db1, db2, main, shard1, p, r, q

TwoShards == [db \in Dbs \cup {NoDb} |-> IF db = db2 THEN shard1 ELSE main]
Of(primary, replicas) == [primary |-> primary, replicas |-> replicas]

\* The first shard's replica becomes its primary; or there is no reload.
Failover == [shard \in Shards |-> IF shard = main THEN {Of(p, {r}), Of(r, {})} ELSE {Of(q, {})}]
NoReload == [shard \in Shards |-> IF shard = main THEN {Of(p, {r})} ELSE {Of(q, {})}]
=============================================================================
