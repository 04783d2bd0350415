-------------------------- MODULE PostgresSession --------------------------
(***************************************************************************)
(* One PostgreSQL client session (handleConnection, handleMessages and the *)
(* handlers they call in postgres/postgres.go), while main reloads the     *)
(* configuration (Reload) and other sessions fill the cache they share.    *)
(*                                                                         *)
(* handleMessages handles one message at a time, so a message is a step.   *)
(* The cache, GetReplica and the batch manager are QueryCache, ReplicaPool *)
(* and WriteBatch; here each may answer whatever it can.  A replica's      *)
(* handle in replicaDBs is named by its address.  lastBackend,             *)
(* lastCacheHit and lastBatchSize, which only pg_tqdb_status reports, are  *)
(* left out.                                                               *)
(*                                                                         *)
(* External: database/sql and lib/pq.  The session runs one statement at a *)
(* time, so a *sql.DB holds one connection; one that the server closed is  *)
(* reported as an error or replaced unnoticed by a new one.  The server    *)
(* keeps per connection whether a transaction is open.                     *)
(***************************************************************************)
EXTENDS Reload, QueryParser

CONSTANTS
  BatchDb,       \* the database in the batch manager's DSN
  NoQuery,
  Stmts,         \* names of prepared statements; "" is one
  Portals,       \* names of portals
  Unbound,       \* a portal that is not in a map
  Params,        \* parameter lists, each parameter a sequence of characters
  Clients        \* what a client sends: its messages, queries, statement
                 \* names and databases

ASSUME SessionAssumption ==
  /\ "" \in Stmts
  /\ Unbound \notin Stmts \cup Params
  /\ \A c \in Clients : c.queries \cap {NoQuery} = {}

VARIABLES
  pc,                 \* the place of handleConnection
  route,              \* connState: shard, pool and database, and the pool's era
  primary,            \* connState: the address primaryDB leads to
  conn,               \* the connection of primaryDB, by its transaction
  inTransaction,      \* and the rest of connState
  preparedStatements, portalStatements, boundParams,
  client,             \* what this client sends
  tx,                 \* whether it may rely on an open transaction
  bound,              \* per portal, the statement and parameters it bound
  cache,              \* the cache, as entries [key, answer]
  last                \* the last message: replies, who served it, the answer

stmtVars == <<preparedStatements, portalStatements, boundParams, bound>>
txVars == <<conn, inTransaction, tx>>
sessionVars == <<pc, route, primary, txVars, stmtVars, client, cache, last>>
vars == <<reloadVars, sessionVars>>

NoAnswer == [db |-> "none", query |-> NoQuery, params |-> << >>, replies |-> << >>]

Seen(msg, replies, by, answer) ==
  [msg |-> msg, replies |-> replies, by |-> by, answer |-> answer]
Told(msg, replies) == Seen(msg, replies, "proxy", NoAnswer)

NoRoute == [shard |-> NoName, pool |-> NoPool, db |-> "none", era |-> 0]

AllUnbound == [w \in Portals |-> Unbound]
NoStatements == [n \in Stmts |-> NoQuery]

\* Start, which needs the default pool for the batch manager's handle; and a
\* client is accepted.
Init ==
  /\ ReloadInit
  /\ config["postgres"].Default \in Configured(config["postgres"])
  /\ pc = "startup"
  /\ route = NoRoute
  /\ primary = NoAddr
  /\ conn = "none"
  /\ inTransaction = FALSE
  /\ preparedStatements = NoStatements
  /\ portalStatements = AllUnbound
  /\ boundParams = AllUnbound
  /\ client \in Clients
  /\ tx = "no"
  /\ bound = AllUnbound
  /\ cache = {}
  /\ last = Told("none", << >>)

Ready(msg) == pc = "ready" /\ msg \in client.sends

-----------------------------------------------------------------------------
(* handleConnection *)

\* handleConnection returns, and the next client is accepted.
Hangup(msg, replies) ==
  /\ pc' = "startup"
  /\ route' = NoRoute
  /\ primary' = NoAddr
  /\ conn' = "none"
  /\ inTransaction' = FALSE
  /\ preparedStatements' = NoStatements
  /\ portalStatements' = AllUnbound
  /\ boundParams' = AllUnbound
  /\ tx' = "no"
  /\ bound' = AllUnbound
  /\ last' = Told(msg, replies)
  /\ UNCHANGED <<reloadVars, client, cache>>

\* The backend of a database: DBMap's, or the default.
ShardFor(db) ==
  LET cfg == config["postgres"] IN
  IF cfg.DBMap[db] = NoName THEN cfg.Default ELSE cfg.DBMap[db]

\* The startup and password messages; the pool is looked up under p.mu.
Startup(db) ==
  LET name  == ShardFor(db)
      found == name \in Names /\ pools["postgres"][name] # NoPool
  IN
  /\ pc = "startup"
  /\ \/ Hangup("startup", <<"error">>)
     \/ ~found /\ Hangup("startup", <<"fatal">>)
     \/ /\ found
        /\ pc' = "routed"
        /\ route' = [shard |-> name, pool |-> pools["postgres"][name], db |-> db,
                     era |-> era["postgres"][name]]
        /\ UNCHANGED <<reloadVars, primary, txVars, stmtVars, client, cache, last>>

\* pool.GetPrimary, connectToBackend and Ping.
Dial ==
  /\ pc = "routed"
  /\ \/ Hangup("startup", <<"error">>)
     \/ Hangup("startup", <<"fatal">>)
     \/ /\ pc' = "ready"
        /\ primary' = pool[route.pool].primary
        /\ conn' = "no"
        /\ last' = Told("startup", <<"ok", "Z">>)
        /\ UNCHANGED <<reloadVars, route, inTransaction, tx, stmtVars, client, cache>>

\* Terminate, or the client is gone.
Terminate == Ready("terminate") /\ Hangup("terminate", << >>)

-----------------------------------------------------------------------------
(* Statements on the backend *)

\* External: what a statement does to the transaction of its connection.
Begins(q) == Head(q.words) \in {"BEGIN", "BEGIN;", "START"}
Ends(q) == Head(q.words) \in {"COMMIT", "COMMIT;", "ROLLBACK"}

After(c, q) == IF Ends(q) THEN "no" ELSE IF Begins(q) THEN "open" ELSE c

\* What handleQuery takes for the beginning and the end of a transaction.
JustBegin(q) ==
  q.comment = << >> /\ (Head(q.words) = "BEGIN" \/ q.words = <<"START", "TRANSACTION">>)
JustEnd(q) == q.comment = << >> /\ q.words \in {<<"COMMIT">>, <<"ROLLBACK">>}

\* External: the outcomes of Query on primaryDB.  Without a usable connection
\* a new one is dialled.  A connection lost while rows are read ends them, and
\* the loop over rows does not tell.
OnPrimary(q) ==
  LET c == IF conn \in {"none", "broken"} THEN "no" ELSE conn IN
  {[conn |-> After(c, q), r |-> "ok"],
   [conn |-> IF Ends(q) THEN "no" ELSE c, r |-> "err"],
   [conn |-> "none", r |-> "err"],
   [conn |-> "none", r |-> "ok"]}

OnReplicaAsPrimary == {[conn |-> "no", r |-> "ok"], [conn |-> conn, r |-> "err"]}

\* Query on a replica's handle leaves the connection to the primary alone.
OnReplica == {[conn |-> conn, r |-> "ok"], [conn |-> conn, r |-> "err"]}

\* The server closes the session's connection.
Drop ==
  /\ Ready("drop")
  /\ conn \in {"no", "open"}
  /\ conn' = "broken"
  /\ tx' = "no"
  /\ UNCHANGED <<reloadVars, pc, route, primary, inTransaction, stmtVars, client, cache, last>>

\* What the client may rely on after its statement ended with x.
TxAfter(q, x) ==
  IF Ends(q) \/ x.conn = "none" THEN "no"
  ELSE IF Begins(q) /\ x.r = "ok" THEN "open" ELSE tx

-----------------------------------------------------------------------------
(* handleQuery and handleExecute, which differ in how a transaction is       *)
(* tracked, what is cached under which key, and in who sends ReadyForQuery.  *)

Reply(msg, what) == IF msg = "query" THEN <<what, "Z">> ELSE <<what>>

Answer(msg, db, p, ps) ==
  [db |-> db, query |-> p.Query, params |-> ps,
   replies |-> Reply(msg, IF p.Type = "SELECT" THEN "rows" ELSE "done")]

\* An Execute without parameters is not cached.
UsesCache(msg, p, ps) == IsCacheable(p) /\ (msg = "query" \/ ps # << >>)

\* What is hashed: the database, the text and the parameters, with nothing
\* between them.
Hashed(db, query, ps) ==
  LET upTo[i \in 0..Len(ps)] == IF i = 0 THEN <<db>> \o query.comment \o query.words
                                ELSE upTo[i - 1] \o ps[i]
  IN  upTo[Len(ps)]

KeyOfText(msg, db, query, ps) == <<"", query>>

\* The key of Query is its text, that of Execute a hash.
CacheKey(msg, db, query, ps) ==
  IF msg = "query" THEN <<"", query>> ELSE <<"ps:", Hashed(db, query, ps)>>

Store(key, answer) == {e \in cache : e.key # key} \cup {[key |-> key, answer |-> answer]}

\* A fresh or stale entry, or what another query has just fetched.
FromCache(msg, p, ps) ==
  \E e \in cache :
    /\ e.key = CacheKey(msg, route.db, p.Query, ps)
    /\ last' = Seen(msg, e.answer.replies, "cache", e.answer)
    /\ UNCHANGED <<conn, tx, cache>>

UsesBatch(p, inTx) == ~inTx /\ IsWritable(p) /\ IsBatchable(p)

\* writeBatch.Enqueue: the manager executes it on its own handle, or fails.  What
\* RETURNING returned is sent as rows.
InBatch(msg, p, ps) ==
  /\ \/ \E what \in {"done", "rows"} :
          last' = Seen(msg, Reply(msg, what), "batch", Answer(msg, BatchDb, p, ps))
     \/ last' = Seen(msg, Reply(msg, "error"), "batch", NoAnswer)
  /\ UNCHANGED <<conn, tx, cache>>

\* A cacheable query goes where GetReplica says, or to the primary if the
\* replica's handle cannot be opened.
Targets(p) ==
  IF IsCacheable(p) /\ pool[route.pool].replicas # << >> THEN {"primary", "replica"} ELSE {"primary"}

OnBackend(msg, q, p, ps) ==
  \E target \in Targets(p) :
    \E x \in IF target = "primary" THEN OnPrimary(q) ELSE OnReplica :
      LET answer == Answer(msg, route.db, p, ps) IN
      /\ conn' = x.conn
      /\ tx' = IF target = "primary" THEN TxAfter(q, x) ELSE tx
      /\ IF x.r = "err"
         THEN last' = Seen(msg, Reply(msg, "error"), target, NoAnswer) /\ UNCHANGED cache
         ELSE /\ last' = Seen(msg, answer.replies, target, answer)
              /\ cache' = IF UsesCache(msg, p, ps)
                          THEN Store(CacheKey(msg, route.db, p.Query, ps), answer) ELSE cache

\* The rest of both handlers, once inTransaction is what it will be.
Serve(msg, q, ps) ==
  LET p == Parse(q) IN
  /\ \/ UsesCache(msg, p, ps) /\ FromCache(msg, p, ps)
     \/ UsesBatch(p, inTransaction') /\ InBatch(msg, p, ps)
     \/ ~UsesBatch(p, inTransaction') /\ OnBackend(msg, q, p, ps)
  /\ UNCHANGED <<reloadVars, pc, route, primary, stmtVars, client>>

-----------------------------------------------------------------------------
(* Messages *)

\* handleQuery sets inTransaction by the text, before it is executed.
Query(q) ==
  /\ Ready("query")
  /\ inTransaction' = IF JustBegin(q) THEN TRUE ELSE IF JustEnd(q) THEN FALSE ELSE inTransaction
  /\ Serve("query", q, << >>)

\* A message that the proxy answers by itself.
Handled(msg, replies) ==
  /\ Ready(msg)
  /\ last' = Told(msg, replies)
  /\ UNCHANGED <<reloadVars, pc, route, primary, txVars, client, cache>>

\* Sync, and messages without a handler.
Sync == (Handled("sync", <<"Z">>) \/ Handled("unhandled", <<"Z">>)) /\ UNCHANGED stmtVars

\* handleShowTQDBStatus: a query with pg_tqdb_status in it.
Status == Handled("status", <<"rows", "Z">>) /\ UNCHANGED stmtVars

\* The portals bound to a statement other than n.
BoundWithout(n) ==
  [w \in Portals |-> IF bound[w] # Unbound /\ bound[w].stmt = n THEN Unbound ELSE bound[w]]

ParseStmt(n, q) ==
  /\ Handled("parse", <<"parsed">>)
  /\ preparedStatements' = [preparedStatements EXCEPT ![n] = q]
  /\ bound' = BoundWithout(n)
  /\ UNCHANGED <<portalStatements, boundParams>>

\* A malformed Parse.
ParseFails == Handled("parse", <<"error", "Z">>) /\ UNCHANGED stmtVars

BindKeepsParams(w, n, ps) ==
  /\ preparedStatements[n] # NoQuery
  /\ Handled("bind", <<"bound">>)
  /\ portalStatements' = [portalStatements EXCEPT ![w] = n]
  /\ boundParams' = IF boundParams[w] = Unbound THEN [boundParams EXCEPT ![w] = ps] ELSE boundParams
  /\ bound' = [bound EXCEPT ![w] = [stmt |-> n, query |-> preparedStatements[n], params |-> ps]]
  /\ UNCHANGED preparedStatements

Bind(w, n, ps) ==
  /\ preparedStatements[n] # NoQuery
  /\ Handled("bind", <<"bound">>)
  /\ portalStatements' = [portalStatements EXCEPT ![w] = n]
  /\ boundParams' = [boundParams EXCEPT ![w] = ps]
  /\ bound' = [bound EXCEPT ![w] = [stmt |-> n, query |-> preparedStatements[n], params |-> ps]]
  /\ UNCHANGED preparedStatements

\* Bind of a statement that does not exist, or a malformed one; or with a NULL,
\* whose length, read unsigned, is beyond the message.  The portal stays what it
\* was, which the client cannot rely on.
BindFails(w) ==
  /\ Handled("bind", <<"error", "Z">>)
  /\ bound' = [bound EXCEPT ![w] = Unbound]
  /\ UNCHANGED <<preparedStatements, portalStatements, boundParams>>

\* Of a statement, with a row description for RETURNING.
DescribeStmt(n) ==
  /\ \/ preparedStatements[n] = NoQuery /\ Handled("describe", <<"error">>)
     \/ /\ preparedStatements[n] # NoQuery
        /\ \E what \in {"nodata", "row"} : Handled("describe", <<"parameters", what>>)
  /\ UNCHANGED stmtVars

\* Of a portal, bound or not; or of neither.
DescribePortal ==
  (Handled("describe", <<"nodata">>) \/ Handled("describe", <<"error">>)) /\ UNCHANGED stmtVars

\* A portal that was never bound runs the unnamed statement; one that was
\* closed keeps its statement and runs it without parameters.
Execute(w) ==
  LET n  == IF portalStatements[w] = Unbound THEN "" ELSE portalStatements[w]
      ps == IF boundParams[w] = Unbound THEN << >> ELSE boundParams[w]
      q  == preparedStatements[n]
  IN
  \/ /\ q = NoQuery
     /\ Handled("execute", <<"error">>)
     /\ UNCHANGED stmtVars
  \/ /\ q # NoQuery
     /\ Ready("execute")
     /\ inTransaction' = inTransaction
     /\ Serve("execute", q, ps)

CloseStmt(n) ==
  /\ Handled("close", <<"closed">>)
  /\ preparedStatements' = [preparedStatements EXCEPT ![n] = NoQuery]
  /\ bound' = BoundWithout(n)
  /\ UNCHANGED <<portalStatements, boundParams>>

ClosePortal(w) ==
  /\ Handled("close", <<"closed">>)
  /\ boundParams' = [boundParams EXCEPT ![w] = Unbound]
  /\ bound' = [bound EXCEPT ![w] = Unbound]
  /\ UNCHANGED <<preparedStatements, portalStatements>>

\* Another session, in its own database, runs a query that is cached.
OtherSession(msg, db, q, ps) ==
  LET p == Parse(q) IN
  /\ "others" \in client.sends
  /\ msg = "query" => ps = << >>
  /\ UsesCache(msg, p, ps)
  /\ cache' = Store(CacheKey(msg, db, p.Query, ps), Answer(msg, db, p, ps))
  /\ UNCHANGED <<reloadVars, pc, route, primary, txVars, stmtVars, client, last>>

Messages ==
  \/ \E q \in client.queries : Query(q)
  \/ \E q \in client.queries, n \in client.prepares : ParseStmt(n, q)
  \/ \E w \in Portals, n \in Stmts, ps \in Params : Bind(w, n, ps)
  \/ \E w \in Portals : BindFails(w) \/ Execute(w) \/ ClosePortal(w)
  \/ \E n \in Stmts : DescribeStmt(n) \/ CloseStmt(n)
  \/ DescribePortal \/ ParseFails \/ Sync \/ Status

Connection == (\E db \in client.dbs : Startup(db)) \/ Dial \/ Terminate \/ Drop

Next ==
  \/ Connection
  \/ Messages
  \/ \E msg \in {"query", "execute"}, db \in Dbs, q \in client.queries, ps \in Params \cup {<< >>} :
       OtherSession(msg, db, q, ps)
  \/ "reload" \in client.sends /\ ReloadNext /\ UNCHANGED sessionVars

Spec == Init /\ [][Next]_vars
-----------------------------------------------------------------------------
(* Properties *)

\* A session whose backend stayed in the configuration reads from the replicas
\* configured now: reloads change the pool that the session got when it
\* connected, at whatever moment of a reload that was (updatePools and
\* UpdateReplicas against handleConnection).
SessionFollowsReload ==
  pc # "startup" /\ turn # "postgres" =>
    LET cfg == config["postgres"] IN
    route.shard \in Configured(cfg) /\ era["postgres"][route.shard] = route.era =>
      pool[route.pool] = cfg.Backends[route.shard]

\* Cached reads, which leave the primary also inside a transaction, never cost
\* the client its transaction: it stays open on the session's connection to the
\* primary until it is ended or that connection is lost (handleQuery and
\* handleExecute select targetDB per statement).
TransactionKept == tx = "open" => conn = "open"

\* Execute runs the statement and the parameters that its portal was last bound
\* to, as long as neither was closed or replaced since (handleBind,
\* handleExecute, handleClose).
ExecutesWhatWasBound ==
  [][\A w \in Portals :
       bound[w] # Unbound /\ last'.by # "cache" /\ last'.answer # NoAnswer /\ Execute(w) =>
         /\ last'.answer.query = Parse(bound[w].query).Query
         /\ last'.answer.params = bound[w].params]_vars

Readies(replies) == {i \in DOMAIN replies : replies[i] = "Z"}

\* The client stays in step: Query and Sync are answered with one ReadyForQuery,
\* which comes last, and Describe, Execute and Close with none, also when the
\* answer comes from the cache, where simple queries leave theirs with a
\* ReadyForQuery (handleMessages, and the keys of handleQuery and handleExecute).
\* Parse and Bind are answered with none if they succeed; if they fail, with one
\* that the client does not expect before its Sync (postgres.go:442 and 448).
ReadyInStep ==
  /\ last.msg \in {"query", "status", "sync"} => Readies(last.replies) = {Len(last.replies)}
  /\ last.msg \in {"describe", "execute", "close"} => Readies(last.replies) = {}
  /\ last.msg \in {"parse", "bind"} /\ last.replies[1] # "error" => Readies(last.replies) = {}

-----------------------------------------------------------------------------
(* The inductive invariant behind them *)

\* The session's pool is the one its backend has now, unless that left the
\* configuration since the session was routed.
SessionPool ==
  pc # "startup" =>
    /\ route.shard \in Names
    /\ route.era \in Nat /\ route.era <= era["postgres"][route.shard]
    /\ route.shard \in Configured(config["postgres"]) /\ era["postgres"][route.shard] = route.era =>
         pools["postgres"][route.shard] = route.pool

\* A session that is not ready has no connection, and so no transaction.
TxInv ==
  /\ pc # "ready" => conn = "none"
  /\ TransactionKept

\* What a portal is bound to is in all three maps.
PortalInv ==
  /\ preparedStatements = [n \in Stmts |-> preparedStatements[n]]
  /\ portalStatements \in [Portals -> Stmts \cup {Unbound}]
  /\ boundParams \in [Portals -> Params \cup {Unbound}]
  /\ bound = [w \in Portals |-> bound[w]]
  /\ \A w \in Portals : bound[w] # Unbound =>
       /\ portalStatements[w] = bound[w].stmt
       /\ boundParams[w] = bound[w].params
       /\ bound[w].stmt \in Stmts
       /\ bound[w].params \in Params
       /\ preparedStatements[bound[w].stmt] = bound[w].query

\* An entry has the key and the form of the message that stored it.
CacheInv ==
  \A e \in cache : \E msg \in {"query", "execute"} :
    /\ e.key = CacheKey(msg, e.answer.db, e.answer.query, e.answer.params)
    /\ e.answer.replies = Reply(msg, "rows")

\* The inductive invariant: of the reload, of the route and of the session.
IInv == ReloadInv /\ SessionPool /\ TxInv /\ PortalInv /\ CacheInv /\ ReadyInStep
=============================================================================
