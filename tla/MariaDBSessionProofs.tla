------------------------ MODULE MariaDBSessionProofs ------------------------
(***************************************************************************)
(* Proofs about MariaDBSession for any databases, shards, replicas and     *)
(* statements: one lemma per command, after the facts about the calls that *)
(* the commands share.                                                     *)
(***************************************************************************)
EXTENDS MariaDBSession, TLAPS

\* A state of the session in the course of a command, after which the client is
\* told r: the transaction it may rely on then is open, and on the primary.
InCommand(s, r) ==
  /\ IsSession(s)
  /\ s.inTransaction = c.inTransaction
  /\ Begun(s.backend) => s.inTransaction
  /\ TxAfter(s, r) = "primary" => Begun(s.backend) /\ s.addr = GetPrimary(s.pool)

\* The connection is in a database the client selected or named before, or in the
\* one the command names.
DbKept(s) == s.backend # NoConn => s.backend.db \in want.dbs \cup {s.db}

Wants == [dbs : SUBSET (Dbs \cup {NoDb}), tx : {"no", "primary", "elsewhere"}, shard : Shards]

\* A new connection.
LEMMA ConnFacts ==
  ASSUME NEW a \in Addrs, NEW db \in Dbs \cup {NoDb}
  PROVE  /\ Conn(a, db) \in Conns
         /\ Conn(a, db) # NoConn
         /\ Conn(a, db).addr = a /\ Conn(a, db).db = db
         /\ Conn(a, db).tx = "no" /\ Len(Conn(a, db).stmts) = 0
<1>1. << >> \in Seq(Stmts \cup {NoStmt}) /\ Len(<< >>) = 0
  OBVIOUS
<1>2. Conn(a, db) \in Conns
  BY <1>1 DEF Conn, Conns
<1> QED
  BY <1>1, <1>2, NoConnAssumption DEF Conn

\* ensureBackendConn keeps the session as it is, or dials a new connection.
LEMMA EnsureBackendConnFacts ==
  ASSUME NEW s, IsSession(s), NEW shard \in Shards, NEW a \in Pool(shard),
         NEW e \in EnsureBackendConn(s, a, shard)
  PROVE  /\ IsSession(e.c)
         /\ e.c.db = s.db /\ e.c.inTransaction = s.inTransaction
         /\ \/ e.r = "lost" /\ e.c = s
            \/ e.r = "ok" /\ e.c = s /\ s.backend # NoConn /\ s.addr = a
            \/ /\ e.r = "ok" /\ (s.backend = NoConn \/ s.addr # a)
               /\ e.c.backend = Conn(a, s.db) /\ e.c.backend # NoConn
               /\ e.c.addr = a /\ e.c.pool = shard
<1> DEFINE t == [s EXCEPT !.backend = Conn(a, s.db), !.pool = shard, !.addr = a]
<1>1. \/ e = Out(s, "lost")
      \/ e = Out(s, "ok") /\ s.backend # NoConn /\ s.addr = a
      \/ e = Out(t, "ok") /\ (s.backend = NoConn \/ s.addr # a)
  BY DEF EnsureBackendConn
<1>2. a \in Addrs /\ s.db \in Dbs \cup {NoDb}
  BY DEF Addrs, IsSession, Sessions
<1>3. /\ Conn(a, s.db) \in Conns /\ Conn(a, s.db) # NoConn
      /\ Conn(a, s.db).addr = a /\ Len(Conn(a, s.db).stmts) = 0
  BY <1>2, ConnFacts
<1>4. /\ t.backend = Conn(a, s.db) /\ t.addr = a /\ t.pool = shard
      /\ t.db = s.db /\ t.inTransaction = s.inTransaction
  BY DEF IsSession, Sessions
<1>5. IsSession(t)
  <2>1. t \in Sessions
    BY <1>2, <1>3, Zenon DEF IsSession, Sessions
  <2>2. 0 <= MaxStmts
    BY ConfigAssumption
  <2> QED
    BY <1>3, <1>4, <2>1, <2>2 DEF IsSession, Sessions
<1> HIDE DEF t
<1>6. \/ e.c = s /\ e.r = "lost"
      \/ e.c = s /\ e.r = "ok" /\ s.backend # NoConn /\ s.addr = a
      \/ e.c = t /\ e.r = "ok" /\ (s.backend = NoConn \/ s.addr # a)
  BY <1>1 DEF Out
<1> QED
  BY <1>3, <1>4, <1>5, <1>6

\* What GetPrimary and GetReplica answer, some configuration gives to the shard.
LEMMA PoolFacts ==
  ASSUME SessionInv, NEW shard \in Shards
  PROVE  /\ GetPrimary(shard) \in GetReplica(shard)
         /\ GetReplica(shard) \subseteq Pool(shard)
         /\ \E b \in Backends[shard] : b.primary = GetPrimary(shard)
BY ZenonT(60) DEF SessionInv, TypeOK, Pools, GetPrimary, GetReplica, Pool

\* A command starts where the last one ended.
LEMMA AtStart ==
  ASSUME SessionInv
  PROVE  InCommand(c, "ok") /\ DbKept(c)
BY DEF SessionInv, TypeOK, InCommand, DbKept, TxAfter, TransactionKept, SelectedDatabaseKept

\* ensureBackend ends on a connection, or leaves the session as it was.
LEMMA EnsureBackendFacts ==
  ASSUME SessionInv, NEW db \in Dbs \cup {NoDb}, NEW e \in EnsureBackend(c, db)
  PROVE  /\ InCommand(e.c, "ok") /\ DbKept(e.c) /\ e.c.db = c.db
         /\ \/ e.r = "lost" /\ e.c = c
            \/ e.r = "ok" /\ e.c.backend # NoConn
         /\ NoSharedAddress /\ e.r = "ok" => e.c.pool = ShardOf[db]
<1> DEFINE shard == ShardOf[db]
<1>1. shard \in Shards /\ GetPrimary(shard) \in Pool(shard) /\ IsSession(c)
  BY ConfigAssumption, PoolFacts DEF SessionInv, TypeOK
<1>2. InCommand(c, "ok") /\ DbKept(c)
  BY AtStart
<1>3. CASE shard = c.pool /\ c.backend # NoConn
  BY <1>2, <1>3 DEF EnsureBackend, Out
<1>4. CASE ~(shard = c.pool /\ c.backend # NoConn)
  <2>1. e \in EnsureBackendConn(c, GetPrimary(shard), shard)
    BY <1>4 DEF EnsureBackend
  <2>2. /\ IsSession(e.c)
        /\ e.c.db = c.db /\ e.c.inTransaction = c.inTransaction
        /\ \/ e.r = "lost" /\ e.c = c
           \/ e.r = "ok" /\ e.c = c /\ c.backend # NoConn /\ c.addr = GetPrimary(shard)
           \/ /\ e.r = "ok"
              /\ e.c.backend = Conn(GetPrimary(shard), c.db) /\ e.c.backend # NoConn
              /\ e.c.addr = GetPrimary(shard) /\ e.c.pool = shard
    BY <1>1, <2>1, EnsureBackendConnFacts
  <2>3. CASE e.c = c
    <3>1. e.r = "ok" => c.addr \in Pool(c.pool) /\ c.addr = GetPrimary(shard) /\ c.backend # NoConn
      BY <1>1, <1>4, <2>2, <2>3 DEF IsSession, Sessions
    <3>2. NoSharedAddress /\ e.r = "ok" => c.pool = shard
      BY <1>1, <3>1, PoolFacts DEF NoSharedAddress, IsSession, Sessions
    <3> QED
      BY <1>2, <2>2, <2>3, <3>2
  <2>4. CASE e.c # c
    <3>1. GetPrimary(shard) \in Addrs /\ c.db \in Dbs \cup {NoDb}
      BY <1>1 DEF Addrs, IsSession, Sessions
    <3>2. e.c.backend.tx = "no" /\ e.c.backend.db = c.db /\ e.r = "ok"
      BY <2>2, <2>4, <3>1, ConnFacts
    <3>3. TxAfter(e.c, "ok") # "primary"
      BY <1>4, <2>2, <2>4 DEF TxAfter, SessionInv, TransactionKept, Begun
    <3>4. DbKept(e.c)
      BY <3>2 DEF DbKept, SessionInv
    <3> QED
      BY <2>2, <2>4, <3>2, <3>3, <3>4 DEF InCommand, Begun
  <2> QED
    BY <2>3, <2>4
<1> QED
  BY <1>3, <1>4

\* A query that names a database ends on a connection to its shard, or leaves the
\* session as it was.
LEMMA QualifyFacts ==
  ASSUME SessionInv, NEW fq \in Dbs \cup {NoDb}, NEW e \in Qualify(c, fq)
  PROVE  /\ InCommand(e.c, "ok") /\ DbKept(e.c)
         /\ (e.r = "lost" /\ e.c = c) \/ e.r = "ok"
         /\ e.c.db # c.db => e.r = "ok" /\ e.c.backend # NoConn
         /\ NoSharedAddress /\ e.r = "ok" =>
              e.c.pool = IF e.c.db # c.db THEN ShardOf[e.c.db] ELSE c.pool
<1>1. CASE fq \in {NoDb, c.db}
  BY <1>1, AtStart DEF Qualify, Out
<1>2. CASE fq \notin {NoDb, c.db}
  <2>1. PICK f \in EnsureBackend(c, fq) :
          e = IF f.r = "ok" THEN Out([f.c EXCEPT !.db = fq], "ok") ELSE f
    BY <1>2 DEF Qualify
  <2>2. /\ InCommand(f.c, "ok") /\ DbKept(f.c) /\ f.c.db = c.db
        /\ \/ f.r = "lost" /\ f.c = c
           \/ f.r = "ok" /\ f.c.backend # NoConn
        /\ NoSharedAddress /\ f.r = "ok" => f.c.pool = ShardOf[fq]
    BY EnsureBackendFacts
  <2>3. CASE f.r # "ok"
    BY <2>1, <2>2, <2>3
  <2>4. CASE f.r = "ok"
    <3> DEFINE t == [f.c EXCEPT !.db = fq]
    <3>1. e.c = t /\ e.r = "ok"
      BY <2>1, <2>4 DEF Out
    <3>2. /\ t.backend = f.c.backend /\ t.addr = f.c.addr /\ t.pool = f.c.pool /\ t.db = fq
          /\ t.inTransaction = f.c.inTransaction /\ IsSession(t)
      BY <2>2 DEF InCommand, IsSession, Sessions
    <3> HIDE DEF t
    <3>3. TxAfter(t, "ok") = TxAfter(f.c, "ok")
      BY <3>2 DEF TxAfter
    <3>4. DbKept(t)
      BY <2>2, <3>2 DEF DbKept, SessionInv
    <3> QED
      BY <1>2, <2>2, <2>4, <3>1, <3>2, <3>3, <3>4 DEF InCommand
  <2> QED
    BY <2>3, <2>4
<1> QED
  BY <1>1, <1>2

\* An exchange with the server that changes neither the database nor whether a
\* transaction of BEGIN is open.
LEMMA ExecFacts ==
  ASSUME SessionInv, NEW s, NEW ok, NEW err, InCommand(s, "ok"), DbKept(s),
         s.backend # NoConn => \A b \in {ok, err} :
           /\ b \in Conns /\ b.addr = s.backend.addr /\ b.db = s.backend.db
           /\ Begun(b) <=> Begun(s.backend)
           /\ Len(b.stmts) <= MaxStmts,
         NEW x \in Exec(s, ok, err)
  PROVE  /\ InCommand(x.c, x.r) /\ DbKept(x.c)
         /\ x.c.pool = s.pool /\ x.c.db = s.db /\ x.c.prepared = s.prepared
         /\ x.r \in {"ok", "err", "lost", "panic"}
         /\ x.r = "panic" <=> s.backend = NoConn
         /\ x.r = "lost" => x.c.backend = NoConn
<1>1. CASE s.backend = NoConn
  <2>1. x.c = s /\ x.r = "panic"
    BY <1>1 DEF Exec, Out
  <2>2. TxAfter(s, "panic") = TxAfter(s, "ok")
    BY DEF TxAfter
  <2> QED
    BY <1>1, <2>1, <2>2 DEF InCommand
<1>2. CASE s.backend # NoConn
  <2>1. \/ x.c = [s EXCEPT !.backend = ok] /\ x.r = "ok"
        \/ x.c = [s EXCEPT !.backend = err] /\ x.r = "err"
        \/ x.c = ResetBackend(s) /\ x.r = "lost"
    BY <1>2 DEF Exec, Out
  <2>2. CASE x.r = "lost"
    <3>1. x.c = [s EXCEPT !.backend = NoConn, !.addr = NoAddr]
      BY <2>1, <2>2 DEF ResetBackend
    <3>2. /\ x.c.backend = NoConn /\ x.c.addr = NoAddr /\ x.c.pool = s.pool /\ x.c.db = s.db
          /\ x.c.inTransaction = s.inTransaction /\ x.c.prepared = s.prepared /\ IsSession(x.c)
      BY <3>1, Zenon DEF InCommand, IsSession, Sessions
    <3>3. TxAfter(x.c, x.r) = "no"
      BY <2>2 DEF TxAfter
    <3> QED
      BY <1>2, <2>2, <3>2, <3>3 DEF InCommand, DbKept, Begun
  <2>3. ASSUME NEW b \in {ok, err}, x.c = [s EXCEPT !.backend = b], x.r \in {"ok", "err"}
        PROVE  /\ InCommand(x.c, x.r) /\ DbKept(x.c)
               /\ x.c.pool = s.pool /\ x.c.db = s.db /\ x.c.prepared = s.prepared
    <3>1. /\ x.c.backend = b /\ x.c.addr = s.addr /\ x.c.pool = s.pool /\ x.c.db = s.db
          /\ x.c.inTransaction = s.inTransaction /\ x.c.prepared = s.prepared
      BY <2>3 DEF InCommand, IsSession, Sessions
    <3>2. b \in Conns /\ b # NoConn /\ b.addr = s.addr
      BY <1>2, NoConnAssumption DEF InCommand, IsSession, Sessions
    <3>3. IsSession(x.c)
      BY <1>2, <2>3, <3>1, <3>2 DEF InCommand, IsSession, Sessions
    <3>4. TxAfter(x.c, x.r) = TxAfter(s, "ok")
      BY <2>3, <3>1 DEF TxAfter
    <3> QED
      BY <1>2, <3>1, <3>2, <3>3, <3>4 DEF InCommand, DbKept
  <2> QED
    BY <1>2, <2>1, <2>2, <2>3
<1> QED
  BY <1>1, <1>2

\* The transaction the client may rely on.
LEMMA TxAfterType ==
  ASSUME SessionInv, NEW s, NEW r
  PROVE  TxAfter(s, r) \in {"no", "primary", "elsewhere"}
BY DEF SessionInv, TypeOK, TxAfter

\* A command that leaves inTransaction alone ends in a state that satisfies the
\* invariant.
LEMMA AtEnd ==
  ASSUME SessionInv, NEW r, InCommand(c', r),
         want' \in Wants, want'.tx = TxAfter(c', r), pools' = pools,
         c'.db \in want'.dbs /\ (c'.backend # NoConn => c'.backend.db \in want'.dbs),
         last'.cmd # "none",
         last'.by = "batch" => ~c.inTransaction,
         QueriesReconnect',
         handles' \subseteq [id : 1..MaxStmts, stmt : Stmts]
  PROVE  SessionInv'
BY DEF SessionInv, TypeOK, Wants, InCommand, Begun, BatchedOutsideTransaction, TransactionKept,
       SelectedDatabaseKept, GetPrimary

\* A step that preserves the invariants.
Preserves ==
  /\ SessionInv'
  /\ NoSharedAddress /\ want.shard = c.pool => want'.shard = c'.pool

\* A query that went by way of e and ended with r.
LEMMA QueryEnds ==
  ASSUME SessionInv, NEW e, NEW r, InCommand(c', r), DbKept(c'), c'.db = e.db, c'.pool = e.pool,
         NoSharedAddress => e.pool = (IF e.db # c.db THEN ShardOf[e.db] ELSE c.pool),
         want' = Relies(c', e, r), pools' = pools,
         last'.cmd # "none",
         last'.by = "batch" => ~c.inTransaction,
         QueriesReconnect',
         handles' = handles
  PROVE  Preserves
<1>1. e.db \in Dbs \cup {NoDb} /\ ShardOf[e.db] \in Shards
  BY ConfigAssumption DEF InCommand, IsSession, Sessions
<1>2. /\ want'.dbs = want.dbs \cup {e.db}
      /\ want'.tx = TxAfter(c', r)
      /\ want'.shard = (IF e.db # c.db THEN ShardOf[e.db] ELSE want.shard)
  BY DEF Relies
<1>3. want' \in Wants
  BY <1>1, TxAfterType DEF Relies, Wants, SessionInv, TypeOK
<1>4. c'.db \in want'.dbs /\ (c'.backend # NoConn => c'.backend.db \in want'.dbs)
  BY <1>2 DEF DbKept, SessionInv
<1>5. SessionInv'
  BY <1>2, <1>3, <1>4, AtEnd, SMTT(60) DEF SessionInv, TypeOK
<1> QED
  BY <1>2, <1>5 DEF Preserves

\* A query that cannot reach its shard.
LEMMA UnreachableStep ==
  ASSUME SessionInv, NEW k, k # "none", NEW e, Unreachable(k, e), e.c = c, e.r = "lost",
         handles' = handles, pools' = pools
  PROVE  Preserves
<1>1. c' = c /\ want' = want /\ last' = Told(k, "lost")
  BY DEF Unreachable
<1>2. last'.cmd = k /\ last'.by = "proxy" /\ last'.reply = "lost"
  BY <1>1 DEF Told, Seen
<1> QED
  BY <1>1, <1>2 DEF Preserves, SessionInv, TypeOK, BatchedOutsideTransaction, TransactionKept,
     SelectedDatabaseKept, QueriesReconnect, GetPrimary

\* A query on the connection to an address that it may go to: reads of a session
\* in a transaction, and everything else, go to the primary.
LEMMA ForwardStep ==
  ASSUME SessionInv, NEW k \in {"select", "write", "beginOther"},
         NEW s, InCommand(s, "ok"), DbKept(s),
         NoSharedAddress => s.pool = (IF s.db # c.db THEN ShardOf[s.db] ELSE c.pool),
         NEW a \in ReadFrom(s), Forward(k, s, a), handles' = handles, pools' = pools
  PROVE  Preserves
<1>1. IsSession(s) /\ s.pool \in Shards /\ a \in Pool(s.pool)
  BY PoolFacts DEF InCommand, IsSession, Sessions, ReadFrom
<1>2. PICK f \in EnsureBackendConn(s, a, s.pool) :
        \/ /\ f.r # "ok"
           /\ c' = f.c
           /\ last' = Told(k, f.r)
           /\ want' = Relies(f.c, s, "ok")
        \/ /\ f.r = "ok"
           /\ \E x \in Exec(f.c, IF k = "beginOther" THEN Opened(f.c.backend) ELSE f.c.backend, f.c.backend) :
                /\ c' = x.c
                /\ last' = Seen(k, x.r, "server", k)
                /\ want' = Relies(x.c, s, x.r)
  BY DEF Forward
<1>3. /\ IsSession(f.c)
      /\ f.c.db = s.db /\ f.c.inTransaction = s.inTransaction
      /\ \/ f.r = "lost" /\ f.c = s
         \/ f.r = "ok" /\ f.c = s /\ s.backend # NoConn /\ s.addr = a
         \/ /\ f.r = "ok" /\ (s.backend = NoConn \/ s.addr # a)
            /\ f.c.backend = Conn(a, s.db) /\ f.c.backend # NoConn
            /\ f.c.addr = a /\ f.c.pool = s.pool
  BY <1>1, EnsureBackendConnFacts
<1>4. InCommand(f.c, "ok") /\ DbKept(f.c) /\ f.c.pool = s.pool
  <2>1. CASE f.c = s
    BY <2>1
  <2>2. CASE f.c # s
    <3>1. a \in Addrs /\ s.db \in Dbs \cup {NoDb}
      BY <1>1 DEF Addrs, IsSession, Sessions
    <3>2. f.c.backend.tx = "no" /\ f.c.backend.db = s.db
      BY <1>3, <2>2, <3>1, ConnFacts, SMTT(60)
    <3>3. TxAfter(f.c, "ok") = TxAfter(s, "ok")
      BY <1>3, <2>2, SMTT(60) DEF TxAfter
    <3>4. TxAfter(s, "ok") # "primary"
      BY <1>3, <2>2, SMTT(60) DEF InCommand, ReadFrom, Begun
    <3>5. DbKept(f.c)
      BY <1>3, <3>2 DEF DbKept, SessionInv
    <3> QED
      BY <1>3, <2>2, <3>2, <3>3, <3>4, <3>5, SMTT(60) DEF InCommand, Begun
  <2> QED
    BY <2>1, <2>2
<1>5. CASE f.r # "ok"
  <2>1. c' = f.c /\ last' = Told(k, f.r) /\ want' = Relies(c', s, "ok") /\ f.r = "lost"
    BY <1>2, <1>3, <1>5, SMTT(60)
  <2>2. last'.cmd # "none" /\ last'.by # "batch" /\ QueriesReconnect'
    BY <2>1, SMTT(60) DEF Told, Seen, QueriesReconnect
  <2> QED
    BY <1>3, <1>4, <2>1, <2>2, QueryEnds, SMTT(60)
<1>6. CASE f.r = "ok"
  <2> DEFINE ok == IF k = "beginOther" THEN Opened(f.c.backend) ELSE f.c.backend
  <2>1. PICK x \in Exec(f.c, ok, f.c.backend) :
          /\ c' = x.c
          /\ last' = Seen(k, x.r, "server", k)
          /\ want' = Relies(x.c, s, x.r)
    BY <1>2, <1>6, SMTT(60)
  <2>2. f.c.backend \in Conns /\ f.c.backend # NoConn /\ Len(f.c.backend.stmts) <= MaxStmts
    BY <1>3, <1>6, SMTT(60) DEF IsSession, Sessions
  <2>3. \A b \in {ok, f.c.backend} :
          /\ b \in Conns /\ b.addr = f.c.backend.addr /\ b.db = f.c.backend.db
          /\ Begun(b) <=> Begun(f.c.backend)
          /\ Len(b.stmts) <= MaxStmts
    BY <2>2, NoConnAssumption DEF Opened, Conns, Begun
  <2> HIDE DEF ok
  <2>4. /\ InCommand(x.c, x.r) /\ DbKept(x.c)
        /\ x.c.pool = f.c.pool /\ x.c.db = f.c.db
        /\ x.r = "panic" <=> f.c.backend = NoConn
    BY <1>4, <2>3, ExecFacts, SMTT(60)
  <2>5. last'.cmd = k /\ last'.by = "server" /\ last'.reply # "panic"
    BY <2>1, <2>2, <2>4, SMTT(60) DEF Seen
  <2> QED
    BY <1>3, <1>4, <2>1, <2>4, <2>5, QueryEnds, SMTT(60) DEF QueriesReconnect
<1> QED
  BY <1>5, <1>6

\* SELECT, from the cache or a server, preserves the invariants.
LEMMA SelectStep ==
  ASSUME SessionInv, NEW fq \in Dbs \cup {NoDb}, Select(fq), pools' = pools
  PROVE  Preserves
<1>1. PICK e \in Qualify(c, fq) :
        \/ Unreachable("select", e)
        \/ /\ e.r = "ok"
           /\ c' = e.c
           /\ last' = Seen("select", "ok", "cache", "select")
           /\ want' = Relies(e.c, e.c, "ok")
        \/ e.r = "ok" /\ \E addr \in ReadFrom(e.c) : Forward("select", e.c, addr)
  BY DEF Select
<1>2. handles' = handles
  BY DEF Select
<1>3. /\ InCommand(e.c, "ok") /\ DbKept(e.c)
      /\ (e.r = "lost" /\ e.c = c) \/ e.r = "ok"
      /\ NoSharedAddress /\ e.r = "ok" =>
           e.c.pool = IF e.c.db # c.db THEN ShardOf[e.c.db] ELSE c.pool
  BY QualifyFacts
<1>4. CASE Unreachable("select", e)
  BY <1>2, <1>3, <1>4, UnreachableStep, SMTT(60) DEF Unreachable
<1>5. CASE /\ e.r = "ok" /\ c' = e.c
           /\ last' = Seen("select", "ok", "cache", "select")
           /\ want' = Relies(e.c, e.c, "ok")
  <2>1. last'.cmd # "none" /\ last'.by # "batch" /\ QueriesReconnect'
    BY <1>5 DEF Seen, QueriesReconnect
  <2> QED
    BY <1>2, <1>3, <1>5, <2>1, QueryEnds, SMTT(60)
<1>6. CASE e.r = "ok" /\ \E addr \in ReadFrom(e.c) : Forward("select", e.c, addr)
  BY <1>2, <1>3, <1>6, ForwardStep, SMTT(60)
<1> QED
  BY <1>1, <1>4, <1>5, <1>6

\* A write that is not batched preserves the invariants.
LEMMA WriteStep ==
  ASSUME SessionInv, NEW fq \in Dbs \cup {NoDb}, Write(fq), pools' = pools
  PROVE  Preserves
<1>1. PICK e \in Qualify(c, fq) :
        \/ Unreachable("write", e)
        \/ e.r = "ok" /\ Forward("write", e.c, GetPrimary(e.c.pool))
  BY DEF Write
<1>2. handles' = handles
  BY DEF Write
<1>3. /\ InCommand(e.c, "ok") /\ DbKept(e.c)
      /\ (e.r = "lost" /\ e.c = c) \/ e.r = "ok"
      /\ NoSharedAddress /\ e.r = "ok" =>
           e.c.pool = IF e.c.db # c.db THEN ShardOf[e.c.db] ELSE c.pool
  BY QualifyFacts
<1>4. GetPrimary(e.c.pool) \in ReadFrom(e.c)
  BY DEF ReadFrom, GetPrimary, GetReplica
<1> QED
  BY <1>1, <1>2, <1>3, <1>4, UnreachableStep, ForwardStep, SMTT(60) DEF Unreachable

\* A batched write, executed by the manager or by the session, preserves the
\* invariants.
LEMMA BatchedWriteStep ==
  ASSUME SessionInv, NEW fq \in Dbs \cup {NoDb}, BatchedWrite(fq), pools' = pools
  PROVE  Preserves
<1>1. PICK e \in Qualify(c, fq) :
        \/ Unreachable("batched", e)
        \/ /\ e.r = "ok"
           /\ c' = e.c
           /\ \E reply \in {"ok", "err"} : last' = Seen("batched", reply, "batch", "batched")
           /\ want' = Relies(e.c, e.c, "ok")
        \/ e.r = "ok" /\ Forward("write", e.c, GetPrimary(e.c.pool))
  BY DEF BatchedWrite
<1>2. handles' = handles /\ ~c.inTransaction
  BY DEF BatchedWrite, NotInTransaction
<1>3. /\ InCommand(e.c, "ok") /\ DbKept(e.c)
      /\ (e.r = "lost" /\ e.c = c) \/ e.r = "ok"
      /\ NoSharedAddress /\ e.r = "ok" =>
           e.c.pool = IF e.c.db # c.db THEN ShardOf[e.c.db] ELSE c.pool
  BY QualifyFacts
<1>4. CASE Unreachable("batched", e)
  BY <1>2, <1>3, <1>4, UnreachableStep DEF Unreachable
<1>5. CASE /\ e.r = "ok" /\ c' = e.c
           /\ \E reply \in {"ok", "err"} : last' = Seen("batched", reply, "batch", "batched")
           /\ want' = Relies(e.c, e.c, "ok")
  <2>1. last'.cmd # "none" /\ QueriesReconnect'
    BY <1>5 DEF Seen, QueriesReconnect
  <2> QED
    BY <1>2, <1>3, <1>5, <2>1, QueryEnds, SMTT(60)
<1>6. CASE e.r = "ok" /\ Forward("write", e.c, GetPrimary(e.c.pool))
  <2>1. GetPrimary(e.c.pool) \in ReadFrom(e.c)
    BY DEF ReadFrom, GetPrimary, GetReplica
  <2> QED
    BY <1>2, <1>3, <1>6, <2>1, ForwardStep, SMTT(60)
<1> QED
  BY <1>1, <1>4, <1>5, <1>6

\* A statement that opens a transaction without BEGIN preserves the invariants.
LEMMA BeginOtherStep ==
  ASSUME SessionInv, BeginOther, pools' = pools
  PROVE  Preserves
<1>1. GetPrimary(c.pool) \in ReadFrom(c)
  BY DEF ReadFrom, GetPrimary, GetReplica
<1> QED
  BY <1>1, AtStart, ForwardStep DEF BeginOther

\* An exchange on the session's connection that keeps it as it is, or changes
\* its prepared statements only.
LEMMA OnConnectionStep ==
  ASSUME SessionInv, NEW s, NEW ok, NEW err, InCommand(s, "ok"), DbKept(s),
         s.db = c.db,
         s.backend # NoConn => \A b \in {ok, err} :
           /\ b \in Conns /\ b.addr = s.backend.addr /\ b.db = s.backend.db
           /\ Begun(b) <=> Begun(s.backend)
           /\ Len(b.stmts) <= MaxStmts,
         NEW x \in Exec(s, ok, err),
         c'.backend = x.c.backend, c'.addr = x.c.addr, c'.pool = x.c.pool, c'.db = x.c.db,
         c'.inTransaction = x.c.inTransaction, IsSession(c'),
         want' \in Wants, want'.dbs = want.dbs, want'.tx = TxAfter(x.c, x.r), pools' = pools,
         last'.cmd # "none", last'.by # "batch", QueriesReconnect',
         handles' \subseteq [id : 1..MaxStmts, stmt : Stmts]
  PROVE  SessionInv'
<1>1. /\ InCommand(x.c, x.r) /\ DbKept(x.c)
      /\ x.c.pool = s.pool /\ x.c.db = s.db
  BY ExecFacts, SMTT(60)
<1>2. TxAfter(c', x.r) = TxAfter(x.c, x.r)
  BY SMTT(60) DEF TxAfter
<1>3. InCommand(c', x.r)
  BY <1>1, <1>2, SMTT(60) DEF InCommand
<1>4. c'.db \in want'.dbs /\ (c'.backend # NoConn => c'.backend.db \in want'.dbs)
  BY <1>1, SMTT(60) DEF DbKept, SessionInv
<1> QED
  BY <1>2, <1>3, <1>4, AtEnd, SMTT(60)

\* The connection as it is.
LEMMA SameConnection ==
  ASSUME NEW s, IsSession(s), s.backend # NoConn
  PROVE  \A b \in {s.backend, s.backend} :
           /\ b \in Conns /\ b.addr = s.backend.addr /\ b.db = s.backend.db
           /\ Begun(b) <=> Begun(s.backend)
           /\ Len(b.stmts) <= MaxStmts
BY DEF IsSession, Sessions

\* COM_STMT_RESET preserves the invariants.
LEMMA StmtResetStep ==
  ASSUME SessionInv, StmtReset, pools' = pools
  PROVE  Preserves
<1>1. PICK x \in Exec(c, c.backend, c.backend) :
        /\ c' = x.c
        /\ last' = Told("reset", x.r)
        /\ want' = [want EXCEPT !.tx = TxAfter(x.c, x.r)]
  BY DEF StmtReset
<1>2. handles' = handles
  BY DEF StmtReset
<1>3. InCommand(c, "ok") /\ DbKept(c) /\ IsSession(c)
  BY AtStart, SMTT(60) DEF InCommand
<1>4. InCommand(x.c, x.r) /\ x.c.pool = c.pool
  BY <1>3, SameConnection, ExecFacts
<1>5. want' \in Wants /\ want'.dbs = want.dbs /\ want'.shard = want.shard /\ want'.tx = TxAfter(x.c, x.r)
  BY <1>1, TxAfterType DEF Wants, SessionInv, TypeOK
<1>6. last'.cmd # "none" /\ last'.by # "batch" /\ QueriesReconnect'
  BY <1>1 DEF Told, Seen, QueriesReconnect
<1>7. SessionInv'
  <2>1. IsSession(c')
    BY <1>1, <1>4 DEF InCommand
  <2> QED
    BY <1>1, <1>2, <1>3, <1>5, <1>6, <2>1, SameConnection, OnConnectionStep, SMTT(60) DEF SessionInv, TypeOK
<1> QED
  BY <1>1, <1>4, <1>5, <1>7 DEF Preserves

\* SHOW TQDB STATUS goes to the default shard, and preserves the invariants.
LEMMA ShowStatusStep ==
  ASSUME SessionInv, ShowStatus, pools' = pools
  PROVE  Preserves
<1>1. PICK e \in EnsureBackend(c, NoDb) :
        \/ Unreachable("show", e)
        \/ /\ e.r = "ok"
           /\ \E x \in Exec(e.c, e.c.backend, e.c.backend) :
                /\ c' = x.c
                /\ last' = Told("show", x.r)
                /\ want' = [want EXCEPT !.tx = TxAfter(x.c, x.r), !.shard = Default]
  BY ZenonT(60) DEF ShowStatus
<1>2. handles' = handles
  BY Zenon DEF ShowStatus
<1>3. /\ InCommand(e.c, "ok") /\ DbKept(e.c) /\ e.c.db = c.db
      /\ \/ e.r = "lost" /\ e.c = c
         \/ e.r = "ok" /\ e.c.backend # NoConn
      /\ NoSharedAddress /\ e.r = "ok" => e.c.pool = ShardOf[NoDb]
  BY EnsureBackendFacts
<1>4. CASE Unreachable("show", e)
  BY <1>2, <1>3, <1>4, UnreachableStep DEF Unreachable
<1>5. CASE e.r = "ok" /\ ~Unreachable("show", e)
  <2>1. PICK x \in Exec(e.c, e.c.backend, e.c.backend) :
          /\ c' = x.c
          /\ last' = Told("show", x.r)
          /\ want' = [want EXCEPT !.tx = TxAfter(x.c, x.r), !.shard = Default]
    BY <1>1, <1>5, Zenon
  <2>2. IsSession(e.c) /\ e.c.backend # NoConn
    BY <1>3, <1>5, SMTT(60) DEF InCommand
  <2>3. InCommand(x.c, x.r) /\ x.c.pool = e.c.pool /\ x.r # "panic"
    BY <1>3, <2>2, SameConnection, ExecFacts, SMTT(60)
  <2>4. want' \in Wants /\ want'.dbs = want.dbs /\ want'.shard = Default /\ want'.tx = TxAfter(x.c, x.r)
    BY <2>1, TxAfterType, ConfigAssumption, Zenon DEF Wants, SessionInv, TypeOK
  <2>5. last'.cmd # "none" /\ last'.by # "batch" /\ QueriesReconnect'
    BY <2>1, <2>3 DEF Told, Seen, QueriesReconnect
  <2>6. SessionInv'
    <3>1. IsSession(c')
      BY <2>1, <2>3 DEF InCommand
    <3> QED
      BY <1>2, <1>3, <2>1, <2>2, <2>4, <2>5, <3>1, SameConnection, OnConnectionStep, SMTT(60) DEF SessionInv, TypeOK
  <2> QED
    BY <1>3, <1>5, <2>1, <2>3, <2>4, <2>6, ConfigAssumption DEF Preserves
<1> QED
  BY <1>1, <1>4, <1>5, ZenonT(60)

\* COM_STMT_PREPARE preserves the invariants.
LEMMA StmtPrepareStep ==
  ASSUME SessionInv, NEW q \in Stmts, StmtPrepare(q), pools' = pools
  PROVE  Preserves
<1> DEFINE id == Prepared(c.backend) + 1
           ok == [c.backend EXCEPT !.stmts = Append(@, q)]
<1>1. PICK x \in Exec(c, ok, c.backend) :
        /\ \/ x.r # "err" /\ c' = [x.c EXCEPT !.prepared[id] = q]
           \/ x.r # "ok" /\ c' = x.c
        /\ handles' = IF x.r = "ok" THEN handles \cup {[id |-> id, stmt |-> q]} ELSE handles
        /\ last' = Told("prepare", x.r)
        /\ want' = [want EXCEPT !.tx = TxAfter(x.c, x.r)]
  BY Zenon DEF StmtPrepare
<1>2. InCommand(c, "ok") /\ DbKept(c) /\ IsSession(c)
  BY AtStart DEF InCommand
<1>3. c.backend # NoConn => c.backend.stmts \in Seq(Stmts \cup {NoStmt})
  BY <1>2 DEF IsSession, Sessions, Conns
<1>4. id \in 1..MaxStmts
  BY <1>3, ConfigAssumption DEF StmtPrepare, Prepared
<1>5. c.backend # NoConn => \A b \in {ok, c.backend} :
        /\ b \in Conns /\ b.addr = c.backend.addr /\ b.db = c.backend.db
        /\ Begun(b) <=> Begun(c.backend)
        /\ Len(b.stmts) <= MaxStmts
  <2> SUFFICES ASSUME c.backend # NoConn
               PROVE  \A b \in {ok, c.backend} :
                        /\ b \in Conns /\ b.addr = c.backend.addr /\ b.db = c.backend.db
                        /\ Begun(b) <=> Begun(c.backend)
                        /\ Len(b.stmts) <= MaxStmts
    BY Zenon
  <2>1. /\ Append(c.backend.stmts, q) \in Seq(Stmts \cup {NoStmt})
        /\ Len(Append(c.backend.stmts, q)) <= MaxStmts
    BY <1>3, <1>4 DEF Prepared
  <2>2. c.backend \in Conns
    BY <1>2 DEF IsSession, Sessions
  <2>3. ok \in Conns /\ ok.addr = c.backend.addr /\ ok.db = c.backend.db /\ ok.tx = c.backend.tx
        /\ ok.stmts = Append(c.backend.stmts, q)
    BY <2>1, <2>2, SMTT(60) DEF Conns
  <2> QED
    BY <1>2, <2>1, <2>3, SameConnection, NoConnAssumption, Zenon DEF Begun
<1> HIDE DEF ok
<1>6. /\ InCommand(x.c, x.r) /\ x.c.pool = c.pool
  BY <1>2, <1>5, ExecFacts
<1>7. /\ c'.backend = x.c.backend /\ c'.addr = x.c.addr /\ c'.pool = x.c.pool /\ c'.db = x.c.db
      /\ c'.inTransaction = x.c.inTransaction /\ IsSession(c')
  <2> HIDE DEF id
  <2> QED
    BY <1>1, <1>4, <1>6, ZenonT(60) DEF InCommand, IsSession, Sessions
<1>8. want' \in Wants /\ want'.dbs = want.dbs /\ want'.shard = want.shard /\ want'.tx = TxAfter(x.c, x.r)
  BY <1>1, TxAfterType DEF Wants, SessionInv, TypeOK
<1>9. last'.cmd # "none" /\ last'.by # "batch" /\ QueriesReconnect'
  BY <1>1 DEF Told, Seen, QueriesReconnect
<1>10. handles' \subseteq [id : 1..MaxStmts, stmt : Stmts]
  BY <1>1, <1>4 DEF SessionInv, TypeOK
<1>11. SessionInv'
  BY <1>2, <1>5, <1>7, <1>8, <1>9, <1>10, OnConnectionStep, ZenonT(60)
<1> QED
  BY <1>6, <1>7, <1>8, <1>11 DEF Preserves

\* COM_STMT_EXECUTE preserves the invariants.
LEMMA StmtExecuteStep ==
  ASSUME SessionInv, NEW h \in handles, StmtExecute(h), pools' = pools
  PROVE  Preserves
<1>1. handles' = handles
  BY DEF StmtExecute
<1>2. CASE UNCHANGED <<c, want>> /\ last'.cmd = "execute" /\ (last'.by = "batch" => ~c.inTransaction)
  BY <1>1, <1>2, ZenonT(60) DEF Preserves, SessionInv, TypeOK, BatchedOutsideTransaction, TransactionKept,
     SelectedDatabaseKept, QueriesReconnect, GetPrimary
<1>3. CASE \E x \in Exec(c, c.backend, c.backend) :
             /\ c' = x.c
             /\ last'.cmd = "execute" /\ last'.by = "server"
             /\ want' = [want EXCEPT !.tx = TxAfter(x.c, x.r)]
  <2>1. PICK x \in Exec(c, c.backend, c.backend) :
          /\ c' = x.c
          /\ last'.cmd = "execute" /\ last'.by = "server"
          /\ want' = [want EXCEPT !.tx = TxAfter(x.c, x.r)]
    BY <1>3
  <2>2. InCommand(c, "ok") /\ DbKept(c) /\ IsSession(c)
    BY AtStart DEF InCommand
  <2>3. InCommand(x.c, x.r) /\ x.c.pool = c.pool
    BY <2>2, SameConnection, ExecFacts
  <2>4. want' \in Wants /\ want'.dbs = want.dbs /\ want'.shard = want.shard /\ want'.tx = TxAfter(x.c, x.r)
    BY <2>1, TxAfterType DEF Wants, SessionInv, TypeOK
  <2>5. IsSession(c') /\ QueriesReconnect'
    BY <2>1, <2>3 DEF InCommand, QueriesReconnect
  <2>6. SessionInv'
    BY <1>1, <2>1, <2>2, <2>4, <2>5, SameConnection, OnConnectionStep, SMTT(60) DEF SessionInv, TypeOK
  <2> QED
    BY <2>1, <2>3, <2>4, <2>6 DEF Preserves
<1> QED
  BY <1>2, <1>3 DEF StmtExecute, NotInTransaction, Told, Seen

\* An element of a sequence is replaced.
LEMMA Replaced ==
  ASSUME NEW S, NEW q \in Seq(S), NEW i \in 1..Len(q), NEW x \in S
  PROVE  [q EXCEPT ![i] = x] \in Seq(S) /\ Len([q EXCEPT ![i] = x]) = Len(q)
OBVIOUS

\* COM_STMT_CLOSE preserves the invariants.
LEMMA StmtCloseStep ==
  ASSUME SessionInv, NEW h \in handles, StmtClose(h), pools' = pools
  PROVE  Preserves
<1> DEFINE s == [c EXCEPT !.prepared[h.id] = NoStmt]
           b == IF h.id <= Prepared(c.backend) THEN [c.backend EXCEPT !.stmts[h.id] = NoStmt] ELSE c.backend
<1>1. PICK x \in Exec(s, b, b) :
        /\ c' = x.c
        /\ last' = Told("close", x.r)
        /\ want' = [want EXCEPT !.tx = TxAfter(x.c, x.r)]
  BY DEF StmtClose
<1>2. handles' \subseteq [id : 1..MaxStmts, stmt : Stmts] /\ h.id \in 1..MaxStmts
  BY DEF StmtClose, SessionInv, TypeOK
<1>3. InCommand(c, "ok") /\ DbKept(c) /\ IsSession(c)
  BY AtStart DEF InCommand
<1>4. /\ s.backend = c.backend /\ s.addr = c.addr /\ s.pool = c.pool /\ s.db = c.db
      /\ s.inTransaction = c.inTransaction /\ IsSession(s)
  BY <1>2, <1>3, Zenon DEF IsSession, Sessions
<1> HIDE DEF s
<1>5. InCommand(s, "ok") /\ DbKept(s)
  <2>1. TxAfter(s, "ok") = TxAfter(c, "ok")
    BY <1>4 DEF TxAfter
  <2> QED
    BY <1>3, <1>4, <2>1 DEF InCommand, DbKept
<1>6. c.backend # NoConn =>
        /\ b \in Conns /\ b.addr = c.backend.addr /\ b.db = c.backend.db
        /\ Begun(b) <=> Begun(c.backend)
        /\ Len(b.stmts) <= MaxStmts
  <2> SUFFICES ASSUME c.backend # NoConn
               PROVE  /\ b \in Conns /\ b.addr = c.backend.addr /\ b.db = c.backend.db
                      /\ Begun(b) <=> Begun(c.backend)
                      /\ Len(b.stmts) <= MaxStmts
    OBVIOUS
  <2>1. c.backend \in Conns /\ Len(c.backend.stmts) <= MaxStmts
    BY <1>3 DEF IsSession, Sessions
  <2>2. CASE b = c.backend
    BY <2>1, <2>2
  <2>3. CASE b # c.backend
    <3> DEFINE t == [c.backend.stmts EXCEPT ![h.id] = NoStmt]
    <3>1. b = [c.backend EXCEPT !.stmts = t]
      BY <2>3
    <3>2. t \in Seq(Stmts \cup {NoStmt}) /\ Len(t) = Len(c.backend.stmts)
      <4>1. c.backend.stmts \in Seq(Stmts \cup {NoStmt})
        BY <2>1 DEF Conns
      <4>2. h.id \in 1..Len(c.backend.stmts)
        BY <1>2, <2>3, <4>1 DEF Prepared
      <4> QED
        BY <4>1, <4>2, Replaced
    <3> HIDE DEF t, b
    <3>3. /\ b \in Conns /\ b.addr = c.backend.addr /\ b.db = c.backend.db /\ b.tx = c.backend.tx
          /\ b.stmts = t
      BY <2>1, <3>1, <3>2 DEF Conns
    <3> QED
      BY <2>1, <3>2, <3>3, NoConnAssumption DEF Begun
  <2> QED
    BY <2>2, <2>3
<1> HIDE DEF b
<1>7. InCommand(x.c, x.r) /\ x.c.pool = c.pool
  BY <1>4, <1>5, <1>6, ExecFacts, SMTT(60)
<1>8. want' \in Wants /\ want'.dbs = want.dbs /\ want'.shard = want.shard /\ want'.tx = TxAfter(x.c, x.r)
  BY <1>1, TxAfterType DEF Wants, SessionInv, TypeOK
<1>9. IsSession(c') /\ last'.cmd # "none" /\ last'.by # "batch" /\ QueriesReconnect'
  BY <1>1, <1>7 DEF InCommand, Told, Seen, QueriesReconnect
<1>10. SessionInv'
  <2>1. s.db = c.db
    BY <1>4
  <2>2. s.backend # NoConn => \A d \in {b, b} :
          /\ d \in Conns /\ d.addr = s.backend.addr /\ d.db = s.backend.db
          /\ Begun(d) <=> Begun(s.backend)
          /\ Len(d.stmts) <= MaxStmts
    BY <1>4, <1>6, SMTT(60)
  <2> QED
    BY <1>1, <1>2, <1>5, <1>8, <1>9, <2>1, <2>2, OnConnectionStep, SMTT(60)
<1> QED
  BY <1>1, <1>7, <1>8, <1>10 DEF Preserves

\* An accepted client is connected to the default shard, in its database.
LEMMA ConnectStep ==
  ASSUME SessionInv, NEW db \in Dbs \cup {NoDb}, Connect(db), pools' = pools
  PROVE  Preserves
<1> DEFINE b == Conn(GetPrimary(Default), NoDb)
           s == [c EXCEPT !.backend = b, !.addr = GetPrimary(Default), !.db = db]
<1>1. /\ want.tx = "no" /\ want.dbs = {NoDb} /\ c.pool = Default /\ c.db = NoDb
      /\ last' = Told("connect", "ok") /\ handles' = handles
  BY DEF Connect, SessionInv
<1>2. last'.cmd = "connect" /\ last'.by = "proxy" /\ last'.reply = "ok"
  BY <1>1 DEF Told, Seen
<1>3. GetPrimary(Default) \in Addrs /\ GetPrimary(Default) \in Pool(Default)
  BY ConfigAssumption, PoolFacts DEF Addrs
<1>4. b \in Conns /\ b # NoConn /\ b.addr = GetPrimary(Default) /\ b.db = NoDb /\ b.tx = "no" /\ Len(b.stmts) = 0
  BY <1>3, ConnFacts
<1> HIDE DEF b
<1>5. /\ s.backend = b /\ s.addr = GetPrimary(Default) /\ s.db = db
      /\ s.pool = Default /\ s.inTransaction = c.inTransaction
  BY <1>1 DEF SessionInv, TypeOK, IsSession, Sessions
<1>6. IsSession(s)
  <2>1. s \in Sessions
    BY <1>3, <1>4, ZenonT(60) DEF SessionInv, TypeOK, IsSession, Sessions
  <2>2. 0 <= MaxStmts
    BY ConfigAssumption
  <2> QED
    BY <1>3, <1>4, <1>5, <2>1, <2>2 DEF IsSession, Sessions
<1> HIDE DEF s
<1>7. \A t, r : TxAfter(t, r) = "no"
  BY <1>1 DEF TxAfter
<1>8. CASE db = NoDb /\ c' = s /\ want' = want
  <2>1. InCommand(c', "ok")
    BY <1>4, <1>5, <1>6, <1>7, <1>8, SMTT(60) DEF InCommand, Begun
  <2>2. c'.db \in want'.dbs /\ (c'.backend # NoConn => c'.backend.db \in want'.dbs)
    BY <1>1, <1>4, <1>5, <1>8, SMTT(60) DEF SessionInv
  <2> QED
    BY <1>1, <1>2, <1>5, <1>7, <1>8, <2>1, <2>2, AtEnd, ZenonT(60)
       DEF Preserves, SessionInv, TypeOK, Wants, QueriesReconnect
<1>9. ASSUME NEW x \in Exec(s, [b EXCEPT !.db = db], b),
             c' = x.c, want' = [want EXCEPT !.dbs = IF x.r = "err" THEN {NoDb, db} ELSE {db}]
      PROVE  Preserves
  <2> DEFINE d == [b EXCEPT !.db = db]
  <2>1. d \in Conns /\ d # NoConn /\ d.addr = b.addr /\ d.db = db /\ d.tx = "no" /\ d.stmts = b.stmts
    BY <1>4, NoConnAssumption DEF Conns
  <2>2. \/ x.c = [s EXCEPT !.backend = d] /\ x.r = "ok"
        \/ x.c = [s EXCEPT !.backend = b] /\ x.r = "err"
        \/ x.c = [s EXCEPT !.backend = NoConn, !.addr = NoAddr] /\ x.r = "lost"
    BY <1>4, <1>5 DEF Exec, Out, ResetBackend
  <2> HIDE DEF d
  <2>3. /\ x.c.db = db /\ x.c.pool = Default /\ x.c.inTransaction = c.inTransaction
        /\ \/ x.r = "ok" /\ x.c.backend = d /\ x.c.addr = GetPrimary(Default)
           \/ x.r = "err" /\ x.c.backend = b /\ x.c.addr = GetPrimary(Default)
           \/ x.r = "lost" /\ x.c.backend = NoConn /\ x.c.addr = NoAddr
    BY <1>5, <1>6, <2>2, ZenonT(60) DEF IsSession, Sessions
  <2>4. IsSession(x.c)
    <3>1. x.c \in Sessions
      BY <1>4, <1>6, <2>1, <2>2, ZenonT(60) DEF IsSession, Sessions
    <3>2. 0 <= MaxStmts
      BY ConfigAssumption
    <3> QED
      BY <1>3, <1>4, <2>1, <2>3, <3>1, <3>2 DEF IsSession
  <2>5. InCommand(c', "ok")
    BY <1>4, <1>7, <1>9, <2>1, <2>3, <2>4 DEF InCommand, Begun
  <2>6. /\ want' \in Wants /\ want'.tx = "no" /\ want'.shard = want.shard
        /\ want'.dbs = IF x.r = "err" THEN {NoDb, db} ELSE {db}
    BY <1>1, <1>9 DEF Wants, SessionInv, TypeOK
  <2>7. c'.db \in want'.dbs /\ (c'.backend # NoConn => c'.backend.db \in want'.dbs)
    BY <1>4, <1>9, <2>1, <2>3, <2>6
  <2>8. SessionInv'
    BY <1>1, <1>2, <1>7, <2>5, <2>6, <2>7, AtEnd, SMTT(60) DEF SessionInv, TypeOK, QueriesReconnect
  <2> QED
    BY <1>1, <1>9, <2>3, <2>6, <2>8 DEF Preserves
<1> QED
  BY <1>5, <1>8, <1>9 DEF Connect, s, b

\* USE and COM_INIT_DB preserve the invariants.
LEMMA UseStep ==
  ASSUME SessionInv, NEW db \in Dbs, Use(db), pools' = pools
  PROVE  Preserves
<1>1. PICK e \in EnsureBackend(c, db) :
       \/ /\ e.r # "ok"
          /\ c' = e.c
          /\ last' = Told("use", e.r)
          /\ UNCHANGED want
       \/ /\ e.r = "ok"
          /\ LET s == [e.c EXCEPT !.db = db] IN
             \E x \in Exec(s, [s.backend EXCEPT !.db = db], s.backend) :
               /\ c' = x.c
               /\ last' = Told("use", Ack(x.r))
               /\ want' = [dbs |-> IF x.r = "ok" THEN {db} ELSE want.dbs \cup {db},
                           tx |-> TxAfter(x.c, x.r), shard |-> ShardOf[db]]
  BY Zenon DEF Use
<1>2. handles' = handles
  BY DEF Use
<1>3. /\ InCommand(e.c, "ok") /\ DbKept(e.c) /\ e.c.db = c.db
      /\ \/ e.r = "lost" /\ e.c = c
         \/ e.r = "ok" /\ e.c.backend # NoConn
      /\ NoSharedAddress /\ e.r = "ok" => e.c.pool = ShardOf[db]
  BY EnsureBackendFacts, SMTT(60)
<1>4. CASE e.r # "ok"
  BY <1>1, <1>2, <1>3, <1>4, UnreachableStep, SMTT(60) DEF Unreachable
<1>5. CASE e.r = "ok"
  <2> DEFINE s == [e.c EXCEPT !.db = db]
             d == [s.backend EXCEPT !.db = db]
  <2>1. PICK x \in Exec(s, d, s.backend) :
          /\ c' = x.c
          /\ last' = Told("use", Ack(x.r))
          /\ want' = [dbs |-> IF x.r = "ok" THEN {db} ELSE want.dbs \cup {db},
                      tx |-> TxAfter(x.c, x.r), shard |-> ShardOf[db]]
    BY <1>1, <1>5
  <2>2. /\ s.backend = e.c.backend /\ s.addr = e.c.addr /\ s.pool = e.c.pool /\ s.db = db
        /\ s.inTransaction = c.inTransaction /\ IsSession(s) /\ s.backend # NoConn
    BY <1>3, <1>5 DEF InCommand, IsSession, Sessions
  <2> HIDE DEF s
  <2>3. s.backend \in Conns
    BY <2>2 DEF IsSession, Sessions
  <2>4. /\ d \in Conns /\ d # NoConn /\ d.addr = s.backend.addr /\ d.db = db
        /\ d.tx = s.backend.tx /\ d.stmts = s.backend.stmts
    BY <2>3, NoConnAssumption DEF Conns
  <2>5. \/ x.c = [s EXCEPT !.backend = d] /\ x.r = "ok"
        \/ x.c = [s EXCEPT !.backend = s.backend] /\ x.r = "err"
        \/ x.c = [s EXCEPT !.backend = NoConn, !.addr = NoAddr] /\ x.r = "lost"
    BY <2>2 DEF Exec, Out, ResetBackend
  <2> HIDE DEF d
  <2>6. /\ x.c.db = db /\ x.c.pool = s.pool /\ x.c.inTransaction = c.inTransaction
        /\ \/ x.r = "ok" /\ x.c.backend = d /\ x.c.addr = s.addr
           \/ x.r = "err" /\ x.c.backend = s.backend /\ x.c.addr = s.addr
           \/ x.r = "lost" /\ x.c.backend = NoConn /\ x.c.addr = NoAddr
    BY <2>2, <2>5, ZenonT(60) DEF IsSession, Sessions
  <2>7. IsSession(x.c)
    BY <2>2, <2>4, <2>5, <2>6, ZenonT(60) DEF IsSession, Sessions
  <2>8. x.r # "lost" => TxAfter(x.c, x.r) = TxAfter(e.c, "ok")
    BY <2>2, <2>6, SMTT(60) DEF TxAfter
  <2>9. x.r = "lost" => TxAfter(x.c, x.r) = "no"
    BY SMTT(60) DEF TxAfter
  <2>10. InCommand(c', x.r)
    BY <1>3, <2>1, <2>2, <2>4, <2>6, <2>7, <2>8, <2>9, SMTT(60) DEF InCommand, Begun
  <2>11. ShardOf[db] \in Shards
    BY ConfigAssumption, SMTT(60)
  <2>12. /\ want' \in Wants /\ want'.tx = TxAfter(c', x.r) /\ want'.shard = ShardOf[db]
         /\ want'.dbs = IF x.r = "ok" THEN {db} ELSE want.dbs \cup {db}
    <3>1. want.dbs \cup {db} \in SUBSET (Dbs \cup {NoDb}) /\ {db} \in SUBSET (Dbs \cup {NoDb})
      BY DEF SessionInv, TypeOK
    <3> QED
      BY <2>1, <2>11, <3>1, TxAfterType, SMTT(60) DEF Wants
  <2>13. c'.db \in want'.dbs /\ (c'.backend # NoConn => c'.backend.db \in want'.dbs)
    <3>1. c.db \in want.dbs
      BY Zenon DEF SessionInv
    <3>2. s.backend.db \in want.dbs
      BY <1>3, <2>2, <3>1, SMTT(60) DEF DbKept
    <3>3. db \in want'.dbs /\ (x.r # "ok" => want.dbs \subseteq want'.dbs)
      BY <2>12, SMTT(60)
    <3> QED
      BY <2>1, <2>4, <2>6, <3>2, <3>3, ZenonT(60)
  <2>14. last'.cmd # "none" /\ last'.by # "batch" /\ QueriesReconnect'
    BY <2>1, <2>6, SMTT(60) DEF Told, Seen, Ack, QueriesReconnect
  <2>15. SessionInv'
    <3>1. handles' \subseteq [id : 1..MaxStmts, stmt : Stmts]
      BY <1>2, Zenon DEF SessionInv, TypeOK
    <3> QED
      BY <2>10, <2>12, <2>13, <2>14, <3>1, AtEnd, ZenonT(60)
  <2> QED
    BY <1>3, <1>5, <2>1, <2>2, <2>6, <2>12, <2>15, SMTT(60) DEF Preserves
<1> QED
  BY <1>4, <1>5

\* BEGIN preserves the invariants, also one that the server refused or that was
\* sent to a replica.
LEMMA BeginStep ==
  ASSUME SessionInv, Begin, pools' = pools
  PROVE  Preserves
<1> DEFINE d == [c.backend EXCEPT !.tx = "begun"]
<1>1. PICK x \in Exec(c, d, c.backend) :
       /\ c' = [x.c EXCEPT !.inTransaction = @ \/ Ack(x.r) = "ok"]
       /\ last' = Told("begin", Ack(x.r))
       /\ want' = [want EXCEPT !.tx =
                     IF x.r # "ok" THEN TxAfter(x.c, x.r)
                     ELSE IF c.addr = GetPrimary(c.pool) THEN "primary" ELSE "elsewhere"]
  BY ZenonT(60) DEF Begin
<1>2. IsSession(c) /\ handles' = handles
  BY DEF SessionInv, TypeOK, Begin
<1>3. last'.cmd = "begin" /\ last'.by = "proxy"
  BY <1>1 DEF Told, Seen
<1>4. CASE c.backend = NoConn
  <2>1. x.c = c /\ x.r = "panic"
    BY <1>4 DEF Exec, Out
  <2>2. c' = c
    BY <1>1, <1>2, <2>1 DEF Ack, IsSession, Sessions
  <2>3. want' = want
    BY <1>1, <2>1 DEF TxAfter, SessionInv, TypeOK
  <2> QED
    BY <1>2, <1>3, <2>2, <2>3, SMTT(60) DEF Preserves, SessionInv, TypeOK, BatchedOutsideTransaction,
       TransactionKept, SelectedDatabaseKept, QueriesReconnect, GetPrimary
<1>5. CASE c.backend # NoConn
  <2>1. c.backend \in Conns
    BY <1>2, <1>5 DEF IsSession, Sessions
  <2>2. /\ d \in Conns /\ d # NoConn /\ d.addr = c.backend.addr /\ d.db = c.backend.db
        /\ d.tx = "begun" /\ d.stmts = c.backend.stmts
    BY <2>1, NoConnAssumption DEF Conns
  <2>3. \/ x.c = [c EXCEPT !.backend = d] /\ x.r = "ok"
        \/ x.c = [c EXCEPT !.backend = c.backend] /\ x.r = "err"
        \/ x.c = [c EXCEPT !.backend = NoConn, !.addr = NoAddr] /\ x.r = "lost"
    BY <1>5 DEF Exec, Out, ResetBackend
  <2> HIDE DEF d
  <2>4. /\ x.c \in Sessions /\ x.c.db = c.db /\ x.c.pool = c.pool /\ x.c.inTransaction = c.inTransaction
        /\ \/ x.r = "ok" /\ x.c.backend = d /\ x.c.addr = c.addr
           \/ x.r = "err" /\ x.c.backend = c.backend /\ x.c.addr = c.addr
           \/ x.r = "lost" /\ x.c.backend = NoConn /\ x.c.addr = NoAddr
    BY <1>2, <2>2, <2>3, ZenonT(60) DEF IsSession, Sessions
  <2>5. /\ c' \in Sessions /\ c'.db = c.db /\ c'.pool = c.pool
        /\ c'.backend = x.c.backend /\ c'.addr = x.c.addr
        /\ c'.inTransaction = (c.inTransaction \/ x.r # "lost")
    BY <1>1, <2>4, Zenon DEF Sessions, Ack
  <2>6. IsSession(c')
    BY <1>2, <1>5, <2>2, <2>4, <2>5, SMTT(60) DEF IsSession
  <2>7. TxAfter(x.c, x.r) = IF x.r = "lost" THEN "no" ELSE want.tx
    BY <2>4, SMTT(60) DEF TxAfter
  <2>8. /\ want'.dbs = want.dbs /\ want'.shard = want.shard /\ want' \in Wants
        /\ want'.tx = IF x.r = "lost" THEN "no"
                      ELSE IF x.r = "err" THEN want.tx
                      ELSE IF c.addr = GetPrimary(c.pool) THEN "primary" ELSE "elsewhere"
    BY <1>1, <2>4, <2>7 DEF SessionInv, TypeOK, Wants
  <2>9. Begun(c'.backend) => c'.inTransaction
    BY <2>2, <2>4, <2>5, ZenonT(60) DEF SessionInv, Begun
  <2>10. want'.tx = "primary" => Begun(c'.backend) /\ c'.addr = GetPrimary(c'.pool)
    BY <1>5, <2>2, <2>4, <2>5, <2>8, SMTT(60) DEF SessionInv, TransactionKept, Begun
  <2>11. c'.db \in want'.dbs /\ (c'.backend # NoConn => c'.backend.db \in want'.dbs)
    BY <1>5, <2>2, <2>4, <2>5, <2>8, SMTT(60) DEF SessionInv, SelectedDatabaseKept
  <2> QED
    BY <1>2, <1>3, <2>5, <2>6, <2>8, <2>9, <2>10, <2>11, ZenonT(60) DEF Preserves, SessionInv, TypeOK, Wants,
       BatchedOutsideTransaction, TransactionKept, SelectedDatabaseKept, QueriesReconnect, GetPrimary
<1> QED
  BY <1>4, <1>5

\* COMMIT and ROLLBACK preserve the invariants.
LEMMA EndStep ==
  ASSUME SessionInv, NEW k \in {"commit", "rollback"}, End(k), pools' = pools
  PROVE  Preserves
<1> DEFINE d == [c.backend EXCEPT !.tx = "no"]
<1>1. PICK x \in Exec(c, d, d) :
       /\ c' = [x.c EXCEPT !.inTransaction = @ /\ Ack(x.r) # "ok"]
       /\ last' = Told(k, Ack(x.r))
       /\ want' = [want EXCEPT !.tx = "no"]
  BY Zenon DEF End
<1>2. IsSession(c) /\ handles' = handles
  BY DEF SessionInv, TypeOK, End
<1>3. last'.cmd = k /\ last'.by = "proxy"
  BY <1>1 DEF Told, Seen
<1>4. want' \in Wants /\ want'.dbs = want.dbs /\ want'.shard = want.shard /\ want'.tx = "no"
  BY <1>1 DEF SessionInv, TypeOK, Wants
<1>5. /\ IsSession(c') /\ c'.db = c.db /\ c'.pool = c.pool
      /\ ~Begun(c'.backend)
      /\ c'.backend # NoConn => c.backend # NoConn /\ c'.backend.db = c.backend.db
  <2>1. CASE c.backend = NoConn
    <3>1. x.c = c /\ x.r = "panic"
      BY <2>1 DEF Exec, Out
    <3>2. c' = c
      BY <1>1, <1>2, <3>1 DEF Ack, IsSession, Sessions
    <3> QED
      BY <1>2, <2>1, <3>2 DEF Begun
  <2>2. CASE c.backend # NoConn
    <3>1. c.backend \in Conns
      BY <1>2, <2>2 DEF IsSession, Sessions
    <3>2. /\ d \in Conns /\ d # NoConn /\ d.addr = c.backend.addr /\ d.db = c.backend.db
          /\ d.tx = "no" /\ d.stmts = c.backend.stmts
      BY <3>1, NoConnAssumption DEF Conns
    <3>3. \/ x.c = [c EXCEPT !.backend = d]
          \/ x.c = [c EXCEPT !.backend = NoConn, !.addr = NoAddr]
      BY <2>2 DEF Exec, Out, ResetBackend
    <3> HIDE DEF d
    <3>4. /\ x.c \in Sessions /\ x.c.db = c.db /\ x.c.pool = c.pool
          /\ \/ x.c.backend = d /\ x.c.addr = c.addr
             \/ x.c.backend = NoConn /\ x.c.addr = NoAddr
      BY <1>2, <3>2, <3>3, ZenonT(60) DEF IsSession, Sessions
    <3>5. /\ c' \in Sessions /\ c'.db = c.db /\ c'.pool = c.pool
          /\ c'.backend = x.c.backend /\ c'.addr = x.c.addr
      BY <1>1, <3>4, Zenon DEF Sessions
    <3> QED
      BY <1>2, <2>2, <3>2, <3>4, <3>5, SMTT(60) DEF IsSession, Begun
  <2> QED
    BY <2>1, <2>2
<1> QED
  BY <1>2, <1>3, <1>4, <1>5, SMTT(60) DEF Preserves, SessionInv, TypeOK, Wants,
     BatchedOutsideTransaction, TransactionKept, SelectedDatabaseKept, QueriesReconnect

\* A reload preserves the invariants: the client no longer relies on a transaction
\* on a primary that it replaces.
LEMMA UpdateReplicasStep ==
  ASSUME SessionInv, NEW shard \in Shards, NEW b \in Backends[shard], UpdateReplicas(shard, b)
  PROVE  Preserves
<1>1. /\ c' = c /\ handles' = handles /\ last' = last
      /\ pools' = [pools EXCEPT ![shard] = b]
  BY DEF UpdateReplicas
<1> DEFINE moves == want.tx = "primary" /\ shard = c.pool /\ b.primary # GetPrimary(shard)
<1>2. /\ want' \in Wants /\ want'.dbs = want.dbs /\ want'.shard = want.shard
      /\ want'.tx = IF moves THEN "elsewhere" ELSE want.tx
  BY DEF UpdateReplicas, SessionInv, TypeOK, Wants
<1>3. pools' \in Pools /\ \A x \in Shards : pools'[x] = IF x = shard THEN b ELSE pools[x]
  BY <1>1, SMTT(60) DEF SessionInv, TypeOK, Pools
<1>4. want'.tx = "primary" => want.tx = "primary" /\ c.addr = pools'[c.pool].primary
  BY <1>2, <1>3, SMTT(60) DEF SessionInv, TypeOK, IsSession, Sessions, GetPrimary
<1> HIDE DEF moves
<1>5. want.tx = "no" => want'.tx = "no"
  BY <1>2, <1>4 DEF moves
<1> QED
  BY <1>1, <1>2, <1>3, <1>4, <1>5, SMTT(60) DEF Preserves, SessionInv, TypeOK, Wants, BatchedOutsideTransaction,
     TransactionKept, SelectedDatabaseKept, QueriesReconnect, GetPrimary

\* A session starts without a connection.
LEMMA InitSession == Init => ShardInv
<1> SUFFICES ASSUME Init PROVE ShardInv
  OBVIOUS
<1> USE ConfigAssumption DEF Init
<1>1. IsSession(c) /\ c.backend = NoConn /\ c.pool = Default /\ c.db = NoDb
  BY SMTT(60) DEF IsSession, Sessions
<1>2. want \in Wants /\ want.dbs = {NoDb} /\ want.tx = "no" /\ want.shard = Default
  BY SMTT(60) DEF Wants
<1>3. last.cmd = "none" /\ last.by = "proxy" /\ last.reply = "ok"
  BY SMTT(60) DEF Told, Seen
<1> QED
  BY <1>1, <1>2, <1>3, Zenon DEF ShardInv, SessionInv, TypeOK, Wants, Begun, BatchedOutsideTransaction,
     TransactionKept, SelectedDatabaseKept, QueriesReconnect

\* Every command preserves the invariants.
LEMMA NextSession ==
  ASSUME SessionInv, [Next]_vars
  PROVE  Preserves
<1>1. CASE UNCHANGED vars
  BY <1>1, SMTT(60) DEF vars, Preserves, SessionInv, TypeOK, BatchedOutsideTransaction, TransactionKept,
     SelectedDatabaseKept, QueriesReconnect, GetPrimary
<1>2. CASE Dispatch /\ UNCHANGED pools
  <2>0. pools' = pools
    BY <1>2
  <2>1. CASE \E db \in Dbs \cup {NoDb} : Connect(db)
    BY <2>0, <2>1, ConnectStep
  <2>2. CASE \E db \in Dbs : Use(db)
    BY <2>0, <2>2, UseStep
  <2>3. CASE Begin \/ End("commit") \/ End("rollback") \/ BeginOther
    BY <2>0, <2>3, BeginStep, EndStep, BeginOtherStep
  <2>4. CASE \E fq \in Dbs \cup {NoDb} : Select(fq) \/ Write(fq) \/ BatchedWrite(fq)
    BY <2>0, <2>4, SelectStep, WriteStep, BatchedWriteStep
  <2>5. CASE ShowStatus \/ StmtReset \/ \E q \in Prepares : StmtPrepare(q)
    BY <2>0, <2>5, ShowStatusStep, StmtResetStep, StmtPrepareStep, PreparesAssumption
  <2>6. CASE \E h \in handles : StmtExecute(h) \/ StmtClose(h)
    BY <2>0, <2>6, StmtExecuteStep, StmtCloseStep
  <2> QED
    BY <1>2, <2>1, <2>2, <2>3, <2>4, <2>5, <2>6, SMTT(60) DEF Dispatch
<1>3. CASE \E shard \in Shards : \E b \in Backends[shard] : UpdateReplicas(shard, b)
  BY <1>3, UpdateReplicasStep
<1> QED
  BY <1>1, <1>2, <1>3 DEF Next

\* The invariant holds in every reachable state of a session.
LEMMA SessionInvariance == Spec => []SessionInv
<1>1. Init => SessionInv
  BY InitSession DEF ShardInv
<1>2. SessionInv /\ [Next]_vars => SessionInv'
  BY NextSession DEF Preserves
<1> QED
  BY <1>1, <1>2, PTL DEF Spec

\* For any databases, shards and replicas, and after any commands: the fields of
\* a session keep their types, and backendAddr is the address of the backend
\* there is, one that backendPool has or had before a reload.
THEOREM AlwaysWellFormed == Spec => []TypeOK
<1>1. SessionInv => TypeOK
  BY DEF SessionInv
<1> QED
  BY <1>1, SessionInvariance, PTL

\* No write is batched while a transaction that BEGIN opened is open on the
\* session's connection, whatever connections were lost and shards switched.
THEOREM NeverBatchedInTransaction == Spec => []BatchedOutsideTransaction
<1>1. SessionInv => BatchedOutsideTransaction
  BY DEF SessionInv
<1> QED
  BY <1>1, SessionInvariance, PTL

\* A transaction begun on the primary stays open on the session's connection
\* until the client ends it or switches shards, the connection is lost, or a reload
\* gives the pool another primary: no query of the transaction is read from a
\* replica.
THEOREM TransactionAlwaysKept == Spec => []TransactionKept
<1>1. SessionInv => TransactionKept
  BY DEF SessionInv
<1> QED
  BY <1>1, SessionInvariance, PTL

\* Every connection that the session dials is in the database that the client
\* selected, or in one that it named since in a qualified name or a failed USE.
THEOREM AlwaysInSelectedDatabase == Spec => []SelectedDatabaseKept
<1>1. SessionInv => SelectedDatabaseKept
  BY DEF SessionInv
<1> QED
  BY <1>1, SessionInvariance, PTL

\* No query and no USE is written to a connection that is not there.
THEOREM QueriesAlwaysReconnect == Spec => []QueriesReconnect
<1>1. SessionInv => QueriesReconnect
  BY DEF SessionInv
<1> QED
  BY <1>1, SessionInvariance, PTL

\* If no address serves two shards, the session's connection is to the shard
\* that the client was last routed to, as some configuration gives it.
THEOREM AlwaysRoutedToShard ==
  ASSUME NoSharedAddress
  PROVE  Spec => []RoutedToShard
<1>1. ShardInv /\ [Next]_vars => ShardInv'
  BY NextSession DEF Preserves, ShardInv
<1>2. ShardInv => RoutedToShard
  BY SMTT(60) DEF ShardInv, SessionInv, TypeOK, IsSession, RoutedToShard
<1> QED
  BY <1>1, <1>2, InitSession, PTL DEF Spec
=============================================================================
