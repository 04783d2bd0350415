--------------------------- MODULE MariaDBSession ---------------------------
(***************************************************************************)
(* One MariaDB client session (clientConn in mariadb/mariadb.go): which    *)
(* backend connection its commands use, how it switches between shards and *)
(* between primary and replicas, and what it tracks of the transaction,    *)
(* the current database and the prepared statements.                       *)
(*                                                                         *)
(* A command is handled under c.mu and is one step; within it the outcome  *)
(* of each dial and of each exchange with the server is open: it works,    *)
(* the server answers with an ERR packet, or the connection is lost, which *)
(* resets the backend.  Operators that stand for methods return the set of *)
(* their outcomes [c, r], where c is the state of clientConn.  A reload    *)
(* changes the pools that the session holds between two commands.          *)
(*                                                                         *)
(* External: the server keeps per connection its database, whether a       *)
(* transaction is open, and the statements prepared on it, numbered from   *)
(* one.  GetReplica is ReplicaPool, the cache QueryCache, the batches      *)
(* WriteBatch; here each may answer anything it can.                       *)
(***************************************************************************)
EXTENDS Naturals, Sequences, FiniteSets

CONSTANTS
  Dbs, NoDb,          \* databases; no database selected
  Shards, Default,    \* config.DBMap and config.Default ...
  ShardOf,            \* ... as the shard of each database
  Backends,           \* what configurations give each shard: a primary and replicas
  NoAddr, NoConn,
  Commands,           \* what this client sends
  Prepares,           \* the statements among Stmts that it prepares
  MaxStmts            \* bound: statements prepared per connection

ASSUME ConfigAssumption ==
  /\ NoDb \notin Dbs
  /\ Default \in Shards
  /\ ShardOf \in [Dbs \cup {NoDb} -> Shards]
  /\ ShardOf[NoDb] = Default
  /\ \A shard \in Shards : Backends[shard] # {}
  /\ MaxStmts \in Nat

VARIABLES
  c,        \* the fields of clientConn
  pools,    \* the primary and the replicas of each shard's pool
  want,     \* what the client may rely on: the database it selected with those it
            \* named since, its transaction and where it was begun, and the shard it
            \* was routed to
  handles,  \* statements it prepared: [id, stmt]
  last      \* the last command, the answer, and who executed which statement

vars == <<c, pools, want, handles, last>>

Stmts == {"select", "write", "batched"}
NoStmt == "none"

ASSUME PreparesAssumption == Prepares \subseteq Stmts

\* pool.go: GetPrimary, and what GetReplica may answer.
GetPrimary(shard) == pools[shard].primary
GetReplica(shard) == {pools[shard].primary} \cup pools[shard].replicas

\* The pools that configurations give.
Pools == {f \in [Shards -> UNION {Backends[shard] : shard \in Shards}] :
            \A shard \in Shards : f[shard] \in Backends[shard]}

\* Every address that some configuration gives to a shard.
Pool(shard) == UNION {{b.primary} \cup b.replicas : b \in Backends[shard]}
Addrs == UNION {Pool(shard) : shard \in Shards}

ConnWithoutDb(addr, db) == [addr |-> addr, db |-> NoDb, tx |-> "no", stmts |-> << >>]

\* tx: no transaction, one opened by BEGIN, or one opened by another statement.
Conn(addr, db) == [addr |-> addr, db |-> db, tx |-> "no", stmts |-> << >>]

Conns == [addr : Addrs, db : Dbs \cup {NoDb}, tx : {"no", "begun", "other"},
          stmts : Seq(Stmts \cup {NoStmt})]

\* A nil connection is not a connection.
ASSUME NoConnAssumption == NoConn \notin Conns

Seen(cmd, reply, by, ran) == [cmd |-> cmd, reply |-> reply, by |-> by, ran |-> ran]
Told(cmd, reply) == Seen(cmd, reply, "proxy", NoStmt)

\* A client is accepted.
Init ==
  /\ c = [backend |-> NoConn, addr |-> NoAddr, pool |-> Default, db |-> NoDb,
          inTransaction |-> FALSE, prepared |-> [id \in 1..MaxStmts |-> NoStmt]]
  /\ pools \in Pools
  /\ want = [dbs |-> {NoDb}, tx |-> "no", shard |-> Default]
  /\ handles = {}
  /\ last = Told("none", "ok")

-----------------------------------------------------------------------------
(* Backend connections *)

Out(s, r) == [c |-> s, r |-> r]

\* ensureBackendConn, with dialAndAuth.
EnsureBackendConn(s, addr, pool) ==
  IF addr = s.addr /\ s.backend # NoConn THEN {Out(s, "ok")}
  ELSE {Out(s, "lost"),
        Out([s EXCEPT !.backend = Conn(addr, s.db), !.pool = pool, !.addr = addr], "ok")}

EnsureBackendAnyPool(s, db) ==
  IF s.backend # NoConn THEN {Out(s, "ok")}
  ELSE EnsureBackendConn(s, GetPrimary(ShardOf[db]), ShardOf[db])

EnsureBackendNilBlind(s, db) ==
  IF ShardOf[db] = s.pool THEN {Out(s, "ok")}
  ELSE EnsureBackendConn(s, GetPrimary(ShardOf[db]), ShardOf[db])

EnsureBackend(s, db) ==
  IF ShardOf[db] = s.pool /\ s.backend # NoConn THEN {Out(s, "ok")}
  ELSE EnsureBackendConn(s, GetPrimary(ShardOf[db]), ShardOf[db])

ResetConnOnly(s) == [s EXCEPT !.backend = NoConn]

ResetBackend(s) == [s EXCEPT !.backend = NoConn, !.addr = NoAddr]

\* writeBackendPacket and reading the response: the server goes to state `ok`
\* or, when it answers with an error, to state `err`.  Without a backend
\* c.backend is a nil interface.
Exec(s, ok, err) ==
  IF s.backend = NoConn THEN {Out(s, "panic")}
  ELSE {Out([s EXCEPT !.backend = ok], "ok"), Out([s EXCEPT !.backend = err], "err"),
        Out(ResetBackend(s), "lost")}

\* The handlers below that write an OK packet do not look at the response.
Ack(r) == IF r = "err" THEN "ok" ELSE r

\* The transaction the client may rely on once it was told r and the session is
\* in state s: a lost connection ends it, and a switch of shards leaves it behind.
TxAfter(s, r) ==
  IF r = "lost" THEN "no"
  ELSE IF want.tx = "primary" /\ s.pool # c.pool THEN "elsewhere" ELSE want.tx

\* handleConnection: the backend is the default shard's primary, whatever the
\* handshake asks for; USE selects its database, if the server can.
Connect(db) ==
  LET s == [c EXCEPT !.backend = Conn(GetPrimary(Default), NoDb), !.addr = GetPrimary(Default), !.db = db] IN
  /\ last.cmd = "none"
  /\ \/ /\ db = NoDb
        /\ c' = s
        /\ UNCHANGED want
     \/ /\ db # NoDb
        /\ \E x \in Exec(s, [s.backend EXCEPT !.db = db], s.backend) :
             /\ c' = x.c
             /\ want' = [want EXCEPT !.dbs = IF x.r = "err" THEN {NoDb, db} ELSE {db}]
  /\ last' = Told("connect", "ok")
  /\ UNCHANGED handles

Alive == last.cmd # "none" /\ last.reply # "panic"

-----------------------------------------------------------------------------
(* USE and COM_INIT_DB *)

Use(db) ==
  /\ Alive /\ "use" \in Commands
  /\ \E e \in EnsureBackend(c, db) :
       \/ /\ e.r # "ok"
          /\ c' = e.c
          /\ last' = Told("use", e.r)
          /\ UNCHANGED want
       \/ /\ e.r = "ok"
          /\ LET s == [e.c EXCEPT !.db = db] IN
             \E x \in Exec(s, [s.backend EXCEPT !.db = db], s.backend) :
               /\ c' = x.c
               /\ last' = Told("use", Ack(x.r))
               /\ want' = [dbs |-> IF x.r = "ok" THEN {db} ELSE want.dbs \cup {db},
                           tx |-> TxAfter(x.c, x.r), shard |-> ShardOf[db]]
  /\ UNCHANGED handles

-----------------------------------------------------------------------------
(* BEGIN, COMMIT and ROLLBACK *)

Begin ==
  /\ Alive /\ "begin" \in Commands
  /\ \E x \in Exec(c, [c.backend EXCEPT !.tx = "begun"], c.backend) :
       /\ c' = [x.c EXCEPT !.inTransaction = @ \/ Ack(x.r) = "ok"]
       /\ last' = Told("begin", Ack(x.r))
       /\ want' = [want EXCEPT !.tx =
                     IF x.r # "ok" THEN TxAfter(x.c, x.r)
                     ELSE IF c.addr = GetPrimary(c.pool) THEN "primary" ELSE "elsewhere"]
  /\ UNCHANGED handles

\* A COMMIT that fails ends the transaction too.
End(cmd) ==
  LET closed == [c.backend EXCEPT !.tx = "no"] IN
  /\ Alive /\ cmd \in Commands
  /\ \E x \in Exec(c, closed, closed) :
       /\ c' = [x.c EXCEPT !.inTransaction = @ /\ Ack(x.r) # "ok"]
       /\ last' = Told(cmd, Ack(x.r))
       /\ want' = [want EXCEPT !.tx = "no"]
  /\ UNCHANGED handles

-----------------------------------------------------------------------------
(* COM_QUERY *)

\* FQN-based sharding: a query that names another database switches to it.
Qualify(s, fq) ==
  IF fq \in {NoDb, s.db} THEN {Out(s, "ok")}
  ELSE {IF e.r = "ok" THEN Out([e.c EXCEPT !.db = fq], "ok") ELSE e : e \in EnsureBackend(s, fq)}

\* What the client relies on after its query led from c to s by way of e: the
\* database of a qualified name may be the selected one from now on.
Relies(s, e, r) ==
  [dbs |-> want.dbs \cup {e.db}, tx |-> TxAfter(s, r),
   shard |-> IF e.db # c.db THEN ShardOf[e.db] ELSE want.shard]

\* The query cannot reach its shard.
Unreachable(cmd, e) ==
  /\ e.r # "ok"
  /\ c' = e.c
  /\ last' = Told(cmd, e.r)
  /\ UNCHANGED want

\* A statement that opens a transaction, unless one is open.
Opened(b) == [b EXCEPT !.tx = IF @ = "no" THEN "other" ELSE @]

\* Execute a query in session s on the connection to addr, and forward the
\* response.
Forward(cmd, s, addr) ==
  \E f \in EnsureBackendConn(s, addr, s.pool) :
    \/ /\ f.r # "ok"
       /\ c' = f.c
       /\ last' = Told(cmd, f.r)
       /\ want' = Relies(f.c, s, "ok")
    \/ /\ f.r = "ok"
       /\ \E x \in Exec(f.c, IF cmd = "beginOther" THEN Opened(f.c.backend) ELSE f.c.backend, f.c.backend) :
            /\ c' = x.c
            /\ last' = Seen(cmd, x.r, "server", cmd)
            /\ want' = Relies(x.c, s, x.r)

AnyReplica(s) == GetReplica(s.pool)

\* Where a cacheable query goes: what GetReplica picks, or in a transaction the
\* primary.
ReadFrom(s) == IF s.inTransaction THEN {GetPrimary(s.pool)} ELSE GetReplica(s.pool)

\* A cacheable SELECT: from the cache or from a server.
Select(fq) ==
  /\ Alive /\ "select" \in Commands
  /\ \E e \in Qualify(c, fq) :
       \/ Unreachable("select", e)
       \/ /\ e.r = "ok"
          /\ c' = e.c
          /\ last' = Seen("select", "ok", "cache", "select")
          /\ want' = Relies(e.c, e.c, "ok")
       \/ e.r = "ok" /\ \E addr \in ReadFrom(e.c) : Forward("select", e.c, addr)
  /\ UNCHANGED handles

\* Any other query that is not batched.
Write(fq) ==
  /\ Alive /\ "write" \in Commands
  /\ \E e \in Qualify(c, fq) :
       \/ Unreachable("write", e)
       \/ e.r = "ok" /\ Forward("write", e.c, GetPrimary(e.c.pool))
  /\ UNCHANGED handles

\* A statement that opens a transaction and is not BEGIN or START TRANSACTION.
BeginOther ==
  /\ Alive /\ "beginOther" \in Commands
  /\ Forward("beginOther", c, GetPrimary(c.pool))
  /\ UNCHANGED handles

AnyTransaction == TRUE
NotInTransaction == ~c.inTransaction

\* handleBatchedWrite: the manager executes it; if it is closed, so do we.
BatchedWrite(fq) ==
  /\ Alive /\ "batched" \in Commands
  /\ NotInTransaction
  /\ \E e \in Qualify(c, fq) :
       \/ Unreachable("batched", e)
       \/ /\ e.r = "ok"
          /\ c' = e.c
          /\ \E reply \in {"ok", "err"} : last' = Seen("batched", reply, "batch", "batched")
          /\ want' = Relies(e.c, e.c, "ok")
       \/ e.r = "ok" /\ Forward("write", e.c, GetPrimary(e.c.pool))
  /\ UNCHANGED handles

\* SHOW TQDB STATUS: ensureBackend(""), then a synthetic query.
ShowStatus ==
  /\ Alive /\ "show" \in Commands
  /\ \E e \in EnsureBackend(c, NoDb) :
       \/ Unreachable("show", e)
       \/ /\ e.r = "ok"
          /\ \E x \in Exec(e.c, e.c.backend, e.c.backend) :
               /\ c' = x.c
               /\ last' = Told("show", x.r)
               /\ want' = [want EXCEPT !.tx = TxAfter(x.c, x.r), !.shard = Default]
  /\ UNCHANGED handles

-----------------------------------------------------------------------------
(* Prepared statements: always on the connection there is *)

Prepared(b) == IF b = NoConn THEN 0 ELSE Len(b.stmts)

\* The statement is stored before the rest of the response is read, so the
\* connection may be lost before or after.
StmtPrepare(stmt) ==
  LET id == Prepared(c.backend) + 1 IN
  /\ Alive /\ "prepare" \in Commands
  /\ id <= MaxStmts
  /\ \E x \in Exec(c, [c.backend EXCEPT !.stmts = Append(@, stmt)], c.backend) :
       /\ \/ x.r # "err" /\ c' = [x.c EXCEPT !.prepared[id] = stmt]
          \/ x.r # "ok" /\ c' = x.c
       /\ handles' = IF x.r = "ok" THEN handles \cup {[id |-> id, stmt |-> stmt]} ELSE handles
       /\ last' = Told("prepare", x.r)
       /\ want' = [want EXCEPT !.tx = TxAfter(x.c, x.r)]

\* The server's statement with this id on the present connection.
OnServer(id) == IF id <= Prepared(c.backend) THEN c.backend.stmts[id] ELSE NoStmt

StmtExecute(h) ==
  LET stmt == c.prepared[h.id] IN
  /\ Alive /\ "execute" \in Commands
  /\ \/ /\ stmt = NoStmt
        /\ last' = Told("execute", "err")
        /\ UNCHANGED <<c, want>>
     \/ /\ stmt = "batched" /\ NotInTransaction
        /\ \E reply \in {"ok", "err"} : last' = Seen("execute", reply, "batch", stmt)
        /\ UNCHANGED <<c, want>>
     \/ /\ stmt = "select"
        /\ last' = Seen("execute", "ok", "cache", stmt)
        /\ UNCHANGED <<c, want>>
     \/ /\ stmt # NoStmt
        /\ \E x \in Exec(c, c.backend, c.backend) :
             /\ x.r = "ok" => OnServer(h.id) # NoStmt
             /\ c' = x.c
             /\ last' = Seen("execute", x.r, "server", IF x.r = "ok" THEN OnServer(h.id) ELSE NoStmt)
             /\ want' = [want EXCEPT !.tx = TxAfter(x.c, x.r)]
  /\ UNCHANGED handles

\* COM_STMT_CLOSE has no response, so no error either.
StmtClose(h) ==
  LET s == [c EXCEPT !.prepared[h.id] = NoStmt]
      b == IF h.id <= Prepared(c.backend) THEN [c.backend EXCEPT !.stmts[h.id] = NoStmt] ELSE c.backend
  IN
  /\ Alive /\ "close" \in Commands
  /\ \E x \in {y \in Exec(s, b, b) : y.r # "err"} :
       /\ c' = x.c
       /\ last' = Told("close", x.r)
       /\ want' = [want EXCEPT !.tx = TxAfter(x.c, x.r)]
  /\ handles' = handles \ {h}

StmtReset ==
  /\ Alive /\ "reset" \in Commands
  /\ \E x \in Exec(c, c.backend, c.backend) :
       /\ c' = x.c
       /\ last' = Told("reset", x.r)
       /\ want' = [want EXCEPT !.tx = TxAfter(x.c, x.r)]
  /\ UNCHANGED handles

-----------------------------------------------------------------------------
\* SIGHUP: UpdateReplicas changes a pool that the session holds.  The next query
\* goes to its new primary, and leaves a transaction on the old one behind.
UpdateReplicas(shard, b) ==
  /\ b \in Backends[shard] \ {pools[shard]}
  /\ pools' = [pools EXCEPT ![shard] = b]
  /\ want' = [want EXCEPT !.tx =
                IF @ = "primary" /\ shard = c.pool /\ b.primary # GetPrimary(shard) THEN "elsewhere" ELSE @]
  /\ UNCHANGED <<c, handles, last>>

Dispatch ==
  \/ \E db \in Dbs \cup {NoDb} : Connect(db)
  \/ \E db \in Dbs : Use(db)
  \/ Begin \/ End("commit") \/ End("rollback") \/ BeginOther
  \/ \E fq \in Dbs \cup {NoDb} : Select(fq) \/ Write(fq) \/ BatchedWrite(fq)
  \/ ShowStatus \/ StmtReset
  \/ \E stmt \in Prepares : StmtPrepare(stmt)
  \/ \E h \in handles : StmtExecute(h) \/ StmtClose(h)

Next ==
  \/ Dispatch /\ UNCHANGED pools
  \/ \E shard \in Shards : \E b \in Backends[shard] : UpdateReplicas(shard, b)

Spec == Init /\ [][Next]_vars
-----------------------------------------------------------------------------
(* Properties *)

Sessions ==
  [backend : Conns \cup {NoConn}, addr : Addrs \cup {NoAddr}, pool : Shards, db : Dbs \cup {NoDb},
   inTransaction : BOOLEAN, prepared : [1..MaxStmts -> Stmts \cup {NoStmt}]]

\* The fields of clientConn keep their types, and backendAddr is the address of
\* the backend there is, one that backendPool has or had before a reload, so that
\* ensureBackendConn never mistakes one for another.
IsSession(s) ==
  /\ s \in Sessions
  /\ s.addr = IF s.backend = NoConn THEN NoAddr ELSE s.backend.addr
  /\ s.backend # NoConn => s.addr \in Pool(s.pool) /\ Len(s.backend.stmts) <= MaxStmts

\* The session is well formed, and so is what its client relies on.
TypeOK ==
  /\ IsSession(c)
  /\ pools \in Pools
  /\ want \in [dbs : SUBSET (Dbs \cup {NoDb}), tx : {"no", "primary", "elsewhere"}, shard : Shards]
  /\ handles \subseteq [id : 1..MaxStmts, stmt : Stmts]

\* A transaction that BEGIN opened is open on this connection.
Begun(b) == b # NoConn /\ b.tx = "begun"

\* docs/components/writebatch: batching is disabled inside transactions.  A
\* batched write never runs while a transaction that BEGIN opened is open on
\* the session's connection, through lost connections, failing statements and
\* switches of shards.
BatchedOutsideTransaction ==
  last.by = "batch" => ~Begun(c.backend)

\* Reading from replicas never costs the client its transaction: one begun on
\* the primary is still open on the session's connection until COMMIT,
\* ROLLBACK, a lost connection, a switch of shards, or a reload that gives the
\* pool another primary, after which the next query closes the connection
\* (mariadb.go:731, ensureBackendConn) and with it the transaction.
TransactionKept ==
  want.tx = "primary" => Begun(c.backend)

\* The session's connection is to the shard it was last routed to, by USE, by
\* a qualified name or to the default, whatever dials and statements failed
\* before: to an address that the shard has, or had before a reload.
RoutedToShard ==
  c.backend # NoConn => c.addr \in Pool(want.shard)

\* On every connection that a switch between primary and replicas or a reconnect
\* dials, statements run in the database that the client selected, or in one that
\* it named since in a qualified name or a USE that failed.  That it need not be
\* the selected one is mariadb.go:647: a qualified name becomes c.db, in which
\* later connections start.
SelectedDatabaseKept ==
  c.backend # NoConn => c.backend.db \in want.dbs

\* Queries and USE survive the loss of the backend connection: they dial again
\* before they use it.
QueriesReconnect ==
  last.reply = "panic" => last.cmd \notin {"use", "select", "write", "batched", "show", "beginOther"}

\* docs/components/mariadb: full BEGIN, COMMIT and ROLLBACK support.  A client
\* whose BEGIN the server executed, and that was told of no lost connection,
\* is connected to a server with its transaction open.
TransactionIsOpen ==
  want.tx # "no" => Begun(c.backend)

\* docs/components/mariadb: prepared statements are tracked by their ids; what
\* COM_STMT_EXECUTE runs is what the client prepared under that id.
ExecutesWhatWasPrepared ==
  [][\A h \in handles : StmtExecute(h) /\ last'.reply = "ok" => last'.ran = h.stmt]_vars
-----------------------------------------------------------------------------
(* The inductive invariants behind the properties of the session *)

\* inTransaction is set while a transaction of BEGIN is open; new connections
\* are given a database the client selected or named; a transaction that the client
\* may rely on is on the primary, so that no query leaves its connection.
SessionInv ==
  /\ TypeOK
  /\ Begun(c.backend) => c.inTransaction
  /\ c.db \in want.dbs
  /\ want.tx = "primary" => c.addr = GetPrimary(c.pool)
  /\ last.cmd = "none" => c.pool = Default /\ c.db = NoDb /\ want.tx = "no" /\ want.dbs = {NoDb}
  /\ BatchedOutsideTransaction /\ TransactionKept /\ SelectedDatabaseKept /\ QueriesReconnect

\* No address serves two shards.  Otherwise ensureBackendConn, which finds itself
\* on the right address, would leave backendPool at the shard before.
NoSharedAddress == \A x, y \in Shards : \A b \in Backends[x] : b.primary \in Pool(y) => x = y

\* The session is in the pool of the shard it was routed to.
ShardInv == SessionInv /\ want.shard = c.pool
=============================================================================
