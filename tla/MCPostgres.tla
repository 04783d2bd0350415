----------------------------- MODULE MCPostgres -----------------------------
(* Instances of PostgresSession for TLC. *)
EXTENDS PostgresSession

CONSTANTS p1, p2, p3, r1

Backend1(addr, replicas) ==
  [name |-> "main", primary |-> addr, replicas |-> replicas, databases |-> {}]
Backend2(addr) ==
  [name |-> "shard1", primary |-> addr, replicas |-> << >>, databases |-> {"billing"}]

File(sections) == [default |-> "main", sections |-> sections]

\* Both backends; the first moved and with a replica, the second gone; the
\* second moved, the first a section without a primary.
SomeFiles ==
  {[mariadb |-> File(<<Backend1(p1, << >>)>>), postgres |-> File(<<Backend1(p1, <<r1>>), Backend2(p2)>>)],
   [mariadb |-> File(<<Backend1(p2, << >>)>>), postgres |-> File(<<Backend1(p3, << >>)>>)],
   [mariadb |-> File(<< >>), postgres |-> File(<<Backend1(NoAddr, << >>), Backend2(p3)>>)]}

Text(comment, words) == [comment |-> comment, words |-> words]

Cached == Text(<<"ttl", "line">>, <<"SELECT", "x">>)
Batched == Text(<<"file", "batch">>, <<"INSERT", "x">>)

Misordered == Text(<<"batch", "file">>, <<"INSERT", "x">>)
Transactions ==
  {Text(<< >>, words) : words \in {<<"BEGIN">>, <<"BEGIN;">>, <<"START", "TRANSACTION">>, <<"COMMIT">>}}

\* ("1", "23") and ("12", "3"), which read the same one after the other.
SomeParams == {<<<<1>>, <<2, 3>>>>, <<<<1, 2>>, <<3>>>>}

\* Simple queries during reloads; transactions on connections that are lost;
\* prepared statements; and a cache that other sessions fill.
SomeClients ==
  {[sends |-> {"query", "terminate", "reload"}, queries |-> {Cached, Batched},
    prepares |-> {}, dbs |-> Dbs],
   [sends |-> {"query", "parse", "bind", "execute", "drop", "status", "sync", "unhandled"},
    queries |-> {Cached, Batched} \cup Transactions, prepares |-> {"s"}, dbs |-> {"app"}],
   [sends |-> {"query", "parse", "bind", "describe", "execute", "close"},
    queries |-> {Cached, Misordered}, prepares |-> {"", "s"}, dbs |-> {"app"}],
   [sends |-> {"query", "parse", "bind", "execute", "others"},
    queries |-> {Cached}, prepares |-> {"s"}, dbs |-> {"app"}]}
=============================================================================
