--------------------------- MODULE PostgresProofs ---------------------------
(***************************************************************************)
(* Proofs about Reload, for any configuration files and any number of      *)
(* reloads, and about PostgresSession during them, for any queries,        *)
(* statements, portals and parameters.                                     *)
(***************************************************************************)
EXTENDS PostgresSession, TLAPS

-----------------------------------------------------------------------------
(* Reload *)

\* A pool is what it was made for.
LEMMA PoolFacts ==
  ASSUME NEW p \in Proxies, NEW n \in Names, NEW k \in 0..MaxReloads
  PROVE  /\ <<p, n, k>> \in Pools
         /\ <<p, n, k>> # NoPool
  BY ReloadAssumption, SMTT(60) DEF Pools

\* The pools main starts with.
LEMMA InitInv == ReloadInit => ReloadInv
<1> SUFFICES ASSUME ReloadInit PROVE ReloadInv
  OBVIOUS
<1> USE DEF ReloadInit
<1>0. 0 \in 0..MaxReloads
  BY ReloadAssumption
<1>1. \A p \in Proxies, n \in Names :
        pools[p][n] = IF n \in Configured(config[p]) THEN <<p, n, 0>> ELSE NoPool
  BY Zenon
<1>2. \A p \in Proxies, n \in Names : n \in Configured(config[p]) =>
        /\ pools[p][n] = <<p, n, 0>>
        /\ pools[p][n] \in Pools
        /\ pools[p][n] # NoPool
        /\ pool[pools[p][n]] = config[p].Backends[n]
        /\ config[p].Backends[n] # NoBackend
  BY <1>0, <1>1, PoolFacts, ZenonT(60) DEF Configured
<1>3. ReloadTypeOK
  <2>1. config = [p \in Proxies |-> config[p]]
    BY Zenon DEF Load
  <2>2. \A p \in Proxies : IsPools(pools[p])
    BY <1>0, PoolFacts, Zenon DEF IsPools
  <2>3. checkers \in [Pools -> Nat]
    BY Zenon
  <2>4. IsPools(made)
    BY Zenon DEF IsPools, NoPools
  <2>5. era \in [Proxies -> [Names -> Nat]]
    BY Zenon
  <2> QED
    BY <2>1, <2>2, <2>3, <2>4, <2>5, Zenon DEF ReloadTypeOK
<1>4. PoolsMatchConfig
  BY <1>1, <1>2, ZenonT(60) DEF PoolsMatchConfig
<1>5. \A p \in Proxies, n \in Names :
       /\ (pools[p][n] = NoPool) <=> (n \notin Configured(config[p]))
       /\ pools[p][n] # NoPool => MadeFor(pools[p][n], p, n) /\ pool[pools[p][n]] # NoBackend
  BY <1>1, <1>2, ZenonT(60) DEF MadeFor
<1>6. \A i \in Pools : pool[i] = NoBackend => checkers[i] = 0
  BY Zenon
<1> QED
  BY <1>3, <1>4, <1>5, <1>6, Zenon DEF ReloadInv

\* updatePools starts with nothing made.
LEMMA StartInv ==
  ASSUME NEW p \in Proxies, NEW cfg,
         turn' = p, todo' = Configured(cfg[p]), made' = NoPools, loaded' = cfg
  PROVE  UpdateInv' /\ IsPools(made)' /\ todo' \subseteq Names
<1>1. Configured(loaded'[turn']) = Configured(cfg[p])
  OBVIOUS
<1>2. \A n \in Names : made'[n] = NoPool
  BY DEF NoPools
<1> QED
  BY <1>1, <1>2, Zenon DEF UpdateInv, IsPools, NoPools, Configured

\* A signal changes nothing that sessions can see.
LEMMA SighupStep ==
  ASSUME ReloadInv, NEW file \in Files, Sighup(file)
  PROVE  ReloadInv'
<1> USE DEF ReloadInv
<1>1. UpdateInv' /\ IsPools(made)' /\ todo' \subseteq Names /\ turn' = "mariadb"
  BY StartInv, Zenon DEF Sighup, StartUpdate, Proxies
<1>2. UNCHANGED <<config, pools, pool, checkers, era>>
  BY Zenon DEF Sighup
<1>3. ReloadTypeOK'
  BY <1>1, <1>2 DEF ReloadTypeOK, IsPools, Proxies
<1>4. PoolsMatchConfig'
  BY <1>2 DEF PoolsMatchConfig, Sighup, Proxies, Configured
<1> QED
  BY <1>1, <1>2, <1>3, <1>4 DEF MadeFor, Configured

\* The pool object i of backend n takes its new settings and is checked once;
\* what was said of other names still holds.
LEMMA VisitStep ==
  ASSUME ReloadInv, NEW n \in todo, turn # "wait", NEW i \in Pools,
         i[1] = turn, i[2] = n,
         pools[turn][n] # NoPool => i = pools[turn][n],
         todo' = todo \ {n},
         pool' = [pool EXCEPT ![i] = Backend(n)],
         made' = [made EXCEPT ![n] = i],
         checkers' \in [Pools -> Nat],
         checkers'[i] = 1,
         \A j \in Pools \ {i} : checkers'[j] = checkers[j],
         UNCHANGED <<config, pools, turn, loaded, era, reloads>>
  PROVE  ReloadInv'
<1> USE DEF ReloadInv
<1>1. /\ turn \in Proxies
      /\ n \in Names
      /\ Backend(n) # NoBackend
      /\ Backend(n) = loaded[turn].Backends[n]
      /\ i # NoPool
  BY ReloadAssumption, Zenon DEF ReloadTypeOK, UpdateInv, Configured, Backend
<1>2. /\ pool'[i] = Backend(n)
      /\ made'[n] = i
      /\ \A j \in Pools \ {i} : pool'[j] = pool[j]
      /\ \A m \in Names \ {n} : made'[m] = made[m]
  BY <1>1 DEF ReloadTypeOK, IsPools
<1>3. ReloadTypeOK'
  BY <1>1, Zenon DEF ReloadTypeOK, IsPools
<1>4. \A p \in Proxies, m \in Names :
        pools[p][m] # NoPool =>
          /\ pools[p][m] \in Pools
          /\ (p # turn \/ m # n) => pools[p][m] # i
          /\ (p = turn /\ m = n) => pools[p][m] = i
  BY DEF ReloadTypeOK, IsPools, MadeFor
<1>5. PoolsMatchConfig'
  BY <1>2, <1>4, SMTT(60) DEF PoolsMatchConfig, Configured
<1>6. \A p \in Proxies, m \in Names :
        /\ (pools'[p][m] = NoPool) <=> (m \notin Configured(config'[p]))
        /\ pools'[p][m] # NoPool => MadeFor(pools[p][m], p, m)' /\ pool'[pools'[p][m]] # NoBackend
  BY <1>1, <1>2, <1>4, SMTT(60) DEF MadeFor, Configured
<1>7. \A j \in Pools : pool'[j] = NoBackend => checkers'[j] = 0
  BY <1>1, <1>2, SMTT(60)
<1>8. UpdateInv'
  <2>1. todo' \subseteq Configured(loaded'[turn'])
    BY Zenon DEF UpdateInv
  <2> SUFFICES ASSUME NEW m \in Names
               PROVE  IF m \in Configured(loaded[turn]) \ todo'
                      THEN /\ made'[m] # NoPool
                           /\ MadeFor(made[m], turn, m)'
                           /\ pool'[made'[m]] = loaded[turn].Backends[m]
                           /\ pools[turn][m] # NoPool => made'[m] = pools[turn][m]
                      ELSE made'[m] = NoPool
    BY <2>1, SMTT(60) DEF UpdateInv, Configured, MadeFor
  <2>2. CASE m = n
    BY <1>1, <1>2, <2>2, SMTT(60) DEF MadeFor, UpdateInv
  <2>3. CASE m # n
    <3>1. m \in todo <=> m \in todo'
      BY <2>3, Zenon
    <3>2. made'[m] = made[m]
      BY <1>2, <2>3, Zenon
    <3>3. CASE m \in Configured(loaded[turn]) \ todo
      <4>1. made[m] \in Pools \ {i}
        <5>1. made[m] # NoPool /\ made[m][2] = m
          BY <3>3, Zenon DEF UpdateInv, MadeFor
        <5>2. made[m] \in Pools
          BY <5>1 DEF ReloadTypeOK, IsPools
        <5> QED
          BY <2>3, <5>1, <5>2, Zenon
      <4>2. pool'[made[m]] = pool[made[m]] /\ checkers'[made[m]] = checkers[made[m]]
        BY <1>2, <4>1, Zenon
      <4> QED
        BY <3>1, <3>2, <3>3, <4>2, SMTT(60) DEF UpdateInv, MadeFor
    <3>4. CASE m \notin Configured(loaded[turn]) \ todo
      BY <3>1, <3>2, <3>4, Zenon DEF UpdateInv
    <3> QED
      BY <3>3, <3>4, Zenon
  <2> QED
    BY <2>2, <2>3, Zenon
<1> QED
  BY <1>3, <1>5, <1>6, <1>7, <1>8, Zenon DEF MadeFor

\* One iteration of the loop in updatePools.
LEMMA UpdatePoolStep ==
  ASSUME ReloadInv, NEW n \in Names, UpdatePool(n), turn # "wait"
  PROVE  ReloadInv'
<1> USE DEF ReloadInv
<1>1. /\ n \in todo
      /\ todo' = todo \ {n}
      /\ turn \in Proxies
      /\ UNCHANGED <<config, pools, turn, loaded, era, reloads>>
  BY Zenon DEF UpdatePool, ReloadTypeOK
<1>2. CASE pools[turn][n] # NoPool /\ UpdateReplicas(n)
  <2> DEFINE i == pools[turn][n]
  <2>1. i \in Pools /\ i[1] = turn /\ i[2] = n /\ checkers[i] = 1
    BY <1>1, <1>2 DEF ReloadTypeOK, IsPools, MadeFor
  <2>2. /\ pool' = [pool EXCEPT ![i] = Backend(n)]
        /\ made' = [made EXCEPT ![n] = i]
        /\ checkers' = checkers
        /\ checkers \in [Pools -> Nat]
    BY <1>2, Zenon DEF UpdateReplicas, ReloadTypeOK
  <2> HIDE DEF i
  <2> QED
    BY <1>1, <2>1, <2>2, VisitStep, Zenon DEF i
<1>3. CASE pools[turn][n] = NoPool /\ NewPool(n)
  <2>1. PICK i \in Unmade(turn, n) :
          /\ pool' = [pool EXCEPT ![i] = Backend(n)]
          /\ checkers' = [checkers EXCEPT ![i] = @ + 1]
          /\ made' = [made EXCEPT ![n] = i]
    BY <1>3, Zenon DEF NewPool
  <2>2. i \in Pools /\ i[1] = turn /\ i[2] = n /\ checkers[i] = 0
    BY Zenon DEF Unmade
  <2>3. /\ checkers' \in [Pools -> Nat]
        /\ checkers'[i] = 1
        /\ \A j \in Pools \ {i} : checkers'[j] = checkers[j]
    BY <2>1, <2>2 DEF ReloadTypeOK
  <2> QED
    BY <1>1, <1>3, <2>1, <2>2, <2>3, VisitStep, Zenon
<1> QED
  BY <1>2, <1>3, Zenon DEF UpdatePool

\* UpdateConfig installs what updatePools made.
LEMMA UpdateConfigStep ==
  ASSUME ReloadInv, UpdateConfig
  PROVE  ReloadInv'
<1> USE DEF ReloadInv
<1>1. /\ turn \in Proxies
      /\ todo = {}
      /\ UpdateInv
      /\ config' = [config EXCEPT ![turn] = loaded[turn]]
      /\ pools' = [pools EXCEPT ![turn] = made]
      /\ UNCHANGED <<pool, checkers, loaded, reloads>>
  BY Zenon DEF UpdateConfig, ReloadTypeOK
<1>2. /\ config'[turn] = loaded[turn]
      /\ pools'[turn] = made
      /\ \A p \in Proxies \ {turn} : config'[p] = config[p] /\ pools'[p] = pools[p]
  BY <1>1, Zenon DEF ReloadTypeOK
<1>3. /\ turn' \in Proxies \cup {"wait"}
      /\ turn' # turn
      /\ todo' \subseteq Names
      /\ IsPools(made)'
      /\ IF turn' = "wait" THEN todo' = {} ELSE UpdateInv'
  <2>1. CASE turn = "mariadb"
    <3>1. /\ turn' = "postgres"
          /\ todo' = Configured(loaded["postgres"])
          /\ made' = NoPools
          /\ loaded' = loaded
          /\ "postgres" \in Proxies
      BY <1>1, <2>1, Zenon DEF UpdateConfig, StartUpdate, Proxies
    <3>2. UpdateInv' /\ IsPools(made)' /\ todo' \subseteq Names
      BY <3>1, StartInv, Zenon
    <3> QED
      BY <2>1, <3>1, <3>2, Zenon
  <2>2. CASE turn # "mariadb"
    BY <1>1, <2>2, SMTT(60) DEF UpdateConfig, ReloadTypeOK, IsPools
  <2> QED
    BY <2>1, <2>2, Zenon
<1>4. era' \in [Proxies -> [Names -> Nat]]
  BY <1>1 DEF UpdateConfig, ReloadTypeOK
<1>5. ReloadTypeOK'
  BY <1>1, <1>2, <1>3, <1>4, Zenon DEF ReloadTypeOK, IsPools
<1>6. \A p \in Proxies, n \in Names :
        IF n \in Configured(config'[p])
        THEN /\ pools'[p][n] # NoPool
             /\ MadeFor(pools'[p][n], p, n)
             /\ pool[pools'[p][n]] # NoBackend
             /\ p # turn' => pool[pools'[p][n]] = config'[p].Backends[n]
        ELSE pools'[p][n] = NoPool
  <2> SUFFICES ASSUME NEW p \in Proxies, NEW n \in Names
               PROVE  IF n \in Configured(config'[p])
                      THEN /\ pools'[p][n] # NoPool
                           /\ MadeFor(pools'[p][n], p, n)
                           /\ pool[pools'[p][n]] # NoBackend
                           /\ p # turn' => pool[pools'[p][n]] = config'[p].Backends[n]
                      ELSE pools'[p][n] = NoPool
    BY Zenon
  <2>1. CASE p = turn
    BY <1>1, <1>2, <2>1, SMTT(60) DEF UpdateInv, Configured
  <2>2. CASE p # turn
    BY <1>2, <2>2 DEF PoolsMatchConfig
  <2> QED
    BY <2>1, <2>2, Zenon
<1>7. PoolsMatchConfig'
  BY <1>1, <1>6, SMTT(60) DEF PoolsMatchConfig, Configured
<1> QED
  BY <1>1, <1>3, <1>5, <1>6, <1>7, SMTT(60) DEF MadeFor, Configured

\* ReloadInv is inductive.
LEMMA ReloadStep ==
  ASSUME ReloadInv, [ReloadNext]_reloadVars
  PROVE  ReloadInv'
<1>1. ASSUME NEW file \in Files, Sighup(file)
      PROVE  ReloadInv'
  BY <1>1, SighupStep
<1>2. CASE SighupFails \/ UNCHANGED reloadVars
  <2>1. UNCHANGED <<config, pools, pool, checkers, turn, loaded, todo, made, era>>
    BY <1>2, Zenon DEF SighupFails, reloadVars, mainVars
  <2>2. ReloadTypeOK'
    BY <2>1, Zenon DEF ReloadInv, ReloadTypeOK, IsPools
  <2>3. PoolsMatchConfig'
    BY <2>1, SMTT(60) DEF ReloadInv, PoolsMatchConfig, Configured
  <2>4. IF turn' = "wait" THEN todo' = {} ELSE UpdateInv'
    BY <2>1, Zenon DEF ReloadInv, UpdateInv, MadeFor, Configured
  <2> QED
    BY <2>1, <2>2, <2>3, <2>4, SMTT(60) DEF ReloadInv, MadeFor, Configured
<1>3. ASSUME NEW n \in Names, UpdatePool(n)
      PROVE  ReloadInv'
  <2>1. turn # "wait"
    BY <1>3, Zenon DEF ReloadInv, ReloadTypeOK, UpdatePool
  <2> QED
    BY <1>3, <2>1, UpdatePoolStep, Zenon
<1>4. CASE UpdateConfig
  BY <1>4, UpdateConfigStep, Zenon
<1> QED
  BY <1>1, <1>2, <1>3, <1>4, Zenon DEF ReloadNext

\* The running pools are those of the configuration, for any files and any
\* number of reloads (updatePools, UpdateConfig).
THEOREM PoolsAlwaysMatch == ReloadSpec => []PoolsMatchConfig
<1>1. ReloadInv => PoolsMatchConfig
  BY Zenon DEF ReloadInv
<1> QED
  BY <1>1, InitInv, ReloadStep, PTL DEF ReloadSpec

\* Every pool in use is checked by one goroutine (initPools, updatePools).
THEOREM PoolsAlwaysChecked == ReloadSpec => []PoolsAreChecked
<1>1. ReloadInv => PoolsAreChecked
  BY SMTT(60) DEF ReloadInv, PoolsAreChecked, MadeFor
<1> QED
  BY <1>1, InitInv, ReloadStep, PTL DEF ReloadSpec

-----------------------------------------------------------------------------
(* PostgresSession *)

\* What the proxy answers by itself, whatever becomes of the statements.
ByProxy == \E msg \in {"sync", "status", "unhandled", "parse", "bind", "describe", "execute", "close"} :
             \E replies : Handled(msg, replies)

\* The steps of the messages, by what they may change.
LEMMA MessageKinds ==
  ASSUME Messages
  PROVE  \/ ByProxy
         \/ \E q \in client.queries : Query(q)
         \/ \E w \in Portals : Execute(w) /\ \E q, ps : Serve("execute", q, ps) /\ Ready("execute") /\ UNCHANGED inTransaction
<1>1. ASSUME NEW q \in client.queries, NEW n \in client.prepares, ParseStmt(n, q)
      PROVE  ByProxy
  BY <1>1, Zenon DEF ParseStmt, ByProxy
<1>2. ASSUME NEW w \in Portals, NEW n \in Stmts, NEW ps \in Params, Bind(w, n, ps)
      PROVE  ByProxy
  BY <1>2, Zenon DEF Bind, ByProxy
<1>3. ASSUME NEW w \in Portals, BindFails(w) \/ ClosePortal(w)
      PROVE  ByProxy
  BY <1>3 DEF BindFails, ClosePortal, ByProxy
<1>4. ASSUME NEW n \in Stmts, DescribeStmt(n) \/ CloseStmt(n)
      PROVE  ByProxy
  BY <1>4, Zenon DEF DescribeStmt, CloseStmt, ByProxy
<1>5. CASE DescribePortal \/ ParseFails \/ Sync \/ Status
  BY <1>5, Zenon DEF DescribePortal, ParseFails, Sync, Status, ByProxy
<1>6. ASSUME NEW w \in Portals, Execute(w)
      PROVE  \/ ByProxy
             \/ \E q, ps : Serve("execute", q, ps) /\ Ready("execute") /\ UNCHANGED inTransaction
  BY <1>6, Zenon DEF Execute, ByProxy
<1> QED
  BY <1>1, <1>2, <1>3, <1>4, <1>5, <1>6, Zenon DEF Messages

\* A message leaves the pools and the route as they are.
LEMMA MessageLeavesRoute ==
  ASSUME Messages
  PROVE  UNCHANGED <<reloadVars, pc, route, client>>
<1>1. CASE ByProxy
  BY <1>1, Zenon DEF ByProxy, Handled
<1>2. ASSUME NEW msg, NEW q, NEW ps, Serve(msg, q, ps)
      PROVE  UNCHANGED <<reloadVars, pc, route, client>>
  BY <1>2, Zenon DEF Serve
<1> QED
  BY <1>1, <1>2, MessageKinds, Zenon DEF Query

\* Only main changes the configuration and the pools.
LEMMA SessionLeavesPools ==
  ASSUME [Next]_vars
  PROVE  [ReloadNext]_reloadVars
<1>1. ASSUME NEW db, Startup(db) PROVE UNCHANGED reloadVars
  BY <1>1, Zenon DEF Startup, Hangup
<1>2. CASE Dial \/ Terminate \/ Drop
  BY <1>2, Zenon DEF Dial, Terminate, Drop, Hangup
<1>3. CASE Messages
  BY <1>3, MessageLeavesRoute, Zenon
<1>4. ASSUME NEW msg, NEW db, NEW q, NEW ps, OtherSession(msg, db, q, ps) PROVE UNCHANGED reloadVars
  BY <1>4, Zenon DEF OtherSession
<1> QED
  BY <1>1, <1>2, <1>3, <1>4, Zenon DEF Next, Connection, vars

-----------------------------------------------------------------------------
(* The route of the session *)

\* A kept backend keeps its pool through UpdateConfig; one that comes back
\* counts as another one.
LEMMA RouteOverReload ==
  ASSUME ReloadInv, SessionPool, ReloadNext, UNCHANGED sessionVars
  PROVE  SessionPool'
<1>1. UNCHANGED <<pc, route>>
  BY Zenon DEF sessionVars
<1>2. CASE UNCHANGED <<config, pools, era>>
  BY <1>1, <1>2, Zenon DEF SessionPool, Configured
<1>3. CASE UpdateConfig
  <2> SUFFICES ASSUME pc # "startup"
               PROVE  /\ route.era <= era'["postgres"][route.shard]
                      /\ route.shard \in Configured(config'["postgres"])
                         /\ era'["postgres"][route.shard] = route.era =>
                           pools'["postgres"][route.shard] = route.pool
    BY <1>1, Zenon DEF SessionPool
  <2> DEFINE n == route.shard
  <2>1. /\ n \in Names
        /\ route.era \in Nat
        /\ "postgres" \in Proxies
        /\ era["postgres"][n] \in Nat
        /\ turn \in Proxies
        /\ UpdateInv /\ todo = {}
    BY <1>3, ZenonT(60) DEF SessionPool, ReloadInv, ReloadTypeOK, UpdateConfig, Proxies
  <2>2. CASE turn # "postgres"
    BY <1>3, <2>1, <2>2, Zenon DEF UpdateConfig, SessionPool, ReloadInv, ReloadTypeOK, Configured
  <2>3. CASE turn = "postgres"
    <3>1. /\ config'["postgres"] = loaded["postgres"]
          /\ pools'["postgres"] = made
          /\ era'["postgres"][n] =
               IF n \in Configured(loaded["postgres"]) \ Configured(config["postgres"])
               THEN era["postgres"][n] + 1 ELSE era["postgres"][n]
      BY <1>3, <2>1, <2>3, Zenon DEF UpdateConfig, ReloadInv, ReloadTypeOK
    <3>2. Configured(config'["postgres"]) = Configured(loaded["postgres"])
      BY <3>1, Zenon DEF Configured
    <3>3. route.era <= era["postgres"][n]
      BY Zenon DEF SessionPool
    <3>4. ASSUME n \in Configured(loaded["postgres"]), era'["postgres"][n] = route.era
          PROVE  made[n] = route.pool
      <4>1. n \in Configured(config["postgres"]) /\ era["postgres"][n] = route.era
        BY <2>1, <3>1, <3>3, <3>4
      <4>2. pools["postgres"][n] = route.pool /\ pools["postgres"][n] # NoPool
        BY <2>1, <4>1, Zenon DEF SessionPool, ReloadInv
      <4> QED
        BY <2>1, <2>3, <3>4, <4>2, Zenon DEF UpdateInv
    <3> QED
      BY <2>1, <3>1, <3>2, <3>3, <3>4, SMTT(60)
  <2> QED
    BY <2>2, <2>3, Zenon
<1>4. ASSUME NEW file, Sighup(file) PROVE UNCHANGED <<config, pools, era>>
  BY <1>4, Zenon DEF Sighup
<1>5. ASSUME NEW n, UpdatePool(n) PROVE UNCHANGED <<config, pools, era>>
  BY <1>5, Zenon DEF UpdatePool
<1>6. CASE SighupFails
  BY <1>2, <1>6 DEF SighupFails
<1> QED
  BY <1>2, <1>3, <1>4, <1>5, <1>6, Zenon DEF ReloadNext

\* A session keeps its pool, or loses it with its backend.
LEMMA RouteStep ==
  ASSUME ReloadInv, SessionPool, [Next]_vars
  PROVE  SessionPool'
<1>1. ASSUME UNCHANGED <<pc, route, config, pools, era>> PROVE SessionPool'
  BY <1>1, Zenon DEF SessionPool, Configured
<1>2. ASSUME pc' = "startup" PROVE SessionPool'
  BY <1>2, Zenon DEF SessionPool
<1>3. ASSUME NEW db, Startup(db) PROVE SessionPool'
  <2>1. CASE pc' = "startup"
    BY <1>2, <2>1, Zenon
  <2>2. CASE pc' # "startup"
    <3>1. /\ ShardFor(db) \in Names
          /\ route' = [shard |-> ShardFor(db), pool |-> pools["postgres"][ShardFor(db)], db |-> db,
                       era |-> era["postgres"][ShardFor(db)]]
          /\ UNCHANGED reloadVars
      BY <1>3, <2>2, Zenon DEF Startup, Hangup
    <3>2. /\ route'.shard = ShardFor(db)
          /\ route'.pool = pools["postgres"][ShardFor(db)]
          /\ route'.era = era["postgres"][ShardFor(db)]
      BY <3>1, Zenon
    <3>3. era["postgres"][ShardFor(db)] \in Nat
      BY <3>1, Zenon DEF ReloadInv, ReloadTypeOK, Proxies
    <3>4. UNCHANGED <<config, pools, era>>
      BY <3>1, Zenon DEF reloadVars
    <3> QED
      BY <3>1, <3>2, <3>3, <3>4, SMTT(60) DEF SessionPool, Configured
  <2> QED
    BY <2>1, <2>2, Zenon
<1>4. CASE Dial
  <2>1. CASE pc' = "startup"
    BY <1>2, <2>1
  <2>2. CASE pc' # "startup"
    <3>1. pc = "routed" /\ UNCHANGED <<route, config, pools, era>>
      BY <1>4, <2>2, Zenon DEF Dial, Hangup, reloadVars
    <3> QED
      BY <3>1, Zenon DEF SessionPool, Configured
  <2> QED
    BY <2>1, <2>2
<1>5. CASE Terminate
  BY <1>2, <1>5, Zenon DEF Terminate, Hangup
<1>6. CASE Drop
  BY <1>1, <1>6, Zenon DEF Drop, reloadVars
<1>7. CASE Messages
  BY <1>1, <1>7, MessageLeavesRoute, Zenon DEF reloadVars
<1>8. ASSUME NEW msg, NEW db, NEW q, NEW ps, OtherSession(msg, db, q, ps) PROVE SessionPool'
  BY <1>1, <1>8, Zenon DEF OtherSession, reloadVars
<1>9. CASE ReloadNext /\ UNCHANGED sessionVars
  BY <1>9, RouteOverReload, Zenon
<1>10. CASE UNCHANGED vars
  BY <1>1, <1>10, Zenon DEF vars, sessionVars, reloadVars
<1> QED
  BY <1>3, <1>4, <1>5, <1>6, <1>7, <1>8, <1>9, <1>10, Zenon DEF Next, Connection

-----------------------------------------------------------------------------
(* Transactions *)

\* A statement on a backend, whichever it is.
LEMMA BackendTx ==
  ASSUME TxInv, NEW msg, NEW q, NEW p, NEW ps, OnBackend(msg, q, p, ps), pc' = pc, pc = "ready"
  PROVE  TxInv'
<1>1. PICK target \in Targets(p) :
        \E x \in IF target = "primary" THEN OnPrimary(q) ELSE OnReplica :
          /\ conn' = x.conn
          /\ tx' = IF target = "primary" THEN TxAfter(q, x) ELSE tx
  BY Zenon DEF OnBackend
<1>2. CASE target # "primary"
  <2>1. conn' = conn /\ tx' = tx
    BY <1>1, <1>2 DEF OnReplica
  <2> QED
    BY <2>1, Zenon DEF TxInv, TransactionKept
<1>3. CASE target = "primary"
  <2>1. PICK x \in OnPrimary(q) : conn' = x.conn /\ tx' = TxAfter(q, x)
    BY <1>1, <1>3, Zenon
  <2> DEFINE c == IF conn \in {"none", "broken"} THEN "no" ELSE conn
  <2>2. \/ x.conn = After(c, q) /\ x.r = "ok"
        \/ x.conn = (IF Ends(q) THEN "no" ELSE c) /\ x.r = "err"
        \/ x.conn = "none"
    BY DEF OnPrimary
  <2>3. tx = "open" => c = "open"
    BY Zenon DEF TxInv, TransactionKept
  <2> HIDE DEF c
  <2> QED
    BY <2>1, <2>2, <2>3, Zenon DEF After, TxAfter, TxInv, TransactionKept
<1> QED
  BY <1>2, <1>3, Zenon

\* A message that is served.
LEMMA ServeTx ==
  ASSUME TxInv, NEW msg, NEW q, NEW ps, Serve(msg, q, ps), pc = "ready"
  PROVE  TxInv'
<1>1. pc' = pc
  BY Zenon DEF Serve
<1>2. CASE conn' = conn /\ tx' = tx
  BY <1>1, <1>2, Zenon DEF TxInv, TransactionKept
<1>3. CASE OnBackend(msg, q, Parse(q), ps)
  BY <1>1, <1>3, BackendTx, Zenon
<1> QED
  BY <1>2, <1>3, Zenon DEF Serve, FromCache, InBatch

\* Every step keeps the transaction that the client relies on.
LEMMA TxStep ==
  ASSUME TxInv, [Next]_vars
  PROVE  TxInv'
<1> USE DEF TxInv
<1>1. CASE UNCHANGED <<pc, txVars>>
  BY <1>1, Zenon DEF txVars, TransactionKept
<1>2. ASSUME NEW msg, NEW replies, Hangup(msg, replies) PROVE TxInv'
  BY <1>2, Zenon DEF Hangup, TransactionKept
<1>3. ASSUME NEW db, Startup(db) PROVE TxInv'
  <2>1. CASE pc' = "routed" /\ pc = "startup" /\ UNCHANGED txVars
    BY <2>1, Zenon DEF txVars, TransactionKept
  <2> QED
    BY <1>2, <1>3, <2>1, Zenon DEF Startup
<1>4. CASE Dial
  <2>1. CASE pc = "routed" /\ pc' = "ready" /\ conn' = "no" /\ UNCHANGED tx
    BY <2>1, Zenon DEF TransactionKept
  <2> QED
    BY <1>2, <1>4, <2>1, Zenon DEF Dial
<1>5. CASE Terminate
  BY <1>2, <1>5, Zenon DEF Terminate
<1>6. CASE Drop
  BY <1>6, Zenon DEF Drop, Ready, TransactionKept
<1>7. CASE ByProxy
  BY <1>1, <1>7, Zenon DEF ByProxy, Handled
<1>8. ASSUME NEW q, Query(q) PROVE TxInv'
  BY <1>8, ServeTx, Zenon DEF Query, Ready
<1>9. ASSUME NEW q, NEW ps, Serve("execute", q, ps), Ready("execute"), UNCHANGED inTransaction
      PROVE  TxInv'
  BY <1>9, ServeTx, Zenon DEF Ready
<1>10. CASE Messages
  BY <1>7, <1>8, <1>9, <1>10, MessageKinds, Zenon
<1>11. ASSUME NEW msg, NEW db, NEW q, NEW ps, OtherSession(msg, db, q, ps) PROVE TxInv'
  BY <1>1, <1>11, Zenon DEF OtherSession
<1>12. CASE UNCHANGED sessionVars
  BY <1>1, <1>12, Zenon DEF sessionVars
<1> QED
  BY <1>3, <1>4, <1>5, <1>6, <1>10, <1>11, <1>12, Zenon DEF Next, Connection, vars

-----------------------------------------------------------------------------
(* The cache *)

\* The keys of the two messages differ.
LEMMA SameKey ==
  ASSUME NEW m \in {"query", "execute"}, NEW db, NEW query, NEW ps,
         NEW m2 \in {"query", "execute"}, NEW db2, NEW query2, NEW ps2,
         CacheKey(m, db, query, ps) = CacheKey(m2, db2, query2, ps2)
  PROVE  m = m2
<1> DEFINE h == Hashed(db, query, ps)
           h2 == Hashed(db2, query2, ps2)
<1>1. /\ CacheKey(m, db, query, ps) = IF m = "query" THEN <<"", query>> ELSE <<"ps:", h>>
      /\ CacheKey(m2, db2, query2, ps2) = IF m2 = "query" THEN <<"", query2>> ELSE <<"ps:", h2>>
  BY Zenon DEF CacheKey
<1> HIDE DEF h, h2
<1>2. <<"", query>> # <<"ps:", h2>> /\ <<"ps:", h>> # <<"", query2>>
  BY Zenon
<1>3. (m = "query") <=> (m2 = "query")
  BY <1>1, <1>2, Zenon
<1> QED
  BY <1>3, SMT

\* What a statement on the backend tells the client.
LEMMA BackendAnswer ==
  ASSUME NEW msg, NEW q, NEW p, NEW ps, OnBackend(msg, q, p, ps)
  PROVE  /\ last'.msg = msg
         /\ last'.by # "cache"
         /\ \/ last'.replies = Reply(msg, "error") /\ last'.answer = NoAnswer
            \/ /\ last'.replies = Answer(msg, route.db, p, ps).replies
               /\ last'.answer = Answer(msg, route.db, p, ps)
<1>1. PICK target \in Targets(p) :
        \/ last' = Seen(msg, Reply(msg, "error"), target, NoAnswer)
        \/ last' = Seen(msg, Answer(msg, route.db, p, ps).replies, target, Answer(msg, route.db, p, ps))
  BY Zenon DEF OnBackend
<1>2. target # "cache"
  BY Zenon DEF Targets
<1> QED
  BY <1>1, <1>2, SMTT(60) DEF Seen

\* Storing the answer of a cacheable query under its key.
LEMMA StoreInv ==
  ASSUME CacheInv, NEW msg \in {"query", "execute"}, NEW db, NEW q, NEW ps, IsCacheable(Parse(q)),
         cache' = Store(CacheKey(msg, db, Parse(q).Query, ps), Answer(msg, db, Parse(q), ps))
  PROVE  CacheInv'
<1> DEFINE a == Answer(msg, db, Parse(q), ps)
           k == CacheKey(msg, db, Parse(q).Query, ps)
<1>1. a.db = db /\ a.query = Parse(q).Query /\ a.params = ps /\ a.replies = Reply(msg, "rows")
  BY Zenon DEF Answer, IsCacheable
<1>2. k = CacheKey(msg, a.db, a.query, a.params)
  BY <1>1, Zenon
<1>3. \A e \in cache' : e \in cache \/ e = [key |-> k, answer |-> a]
  BY Zenon DEF Store
<1> HIDE DEF a, k
<1>4. ASSUME NEW e, e = [key |-> k, answer |-> a]
      PROVE  /\ e.key = CacheKey(msg, e.answer.db, e.answer.query, e.answer.params)
             /\ e.answer.replies = Reply(msg, "rows")
  BY <1>1, <1>2, <1>4, Zenon
<1> QED
  BY <1>3, <1>4, Zenon DEF CacheInv

\* A message that is served stores its answer or nothing.
LEMMA ServeCache ==
  ASSUME CacheInv, NEW msg \in {"query", "execute"}, NEW q, NEW ps, Serve(msg, q, ps)
  PROVE  CacheInv'
<1> DEFINE p == Parse(q)
<1>1. CASE UNCHANGED cache
  BY <1>1 DEF CacheInv
<1>2. CASE /\ UsesCache(msg, p, ps)
           /\ cache' = Store(CacheKey(msg, route.db, p.Query, ps), Answer(msg, route.db, p, ps))
  BY <1>2, StoreInv, Zenon DEF UsesCache
<1>3. CASE OnBackend(msg, q, p, ps)
  BY <1>1, <1>2, <1>3, Zenon DEF OnBackend
<1> QED
  BY <1>1, <1>3, Zenon DEF Serve, FromCache, InBatch

\* Entries keep their keys and forms.
LEMMA CacheStep ==
  ASSUME CacheInv, [Next]_vars
  PROVE  CacheInv'
<1>1. CASE UNCHANGED cache
  BY <1>1, SMTT(60) DEF CacheInv
<1>2. CASE Connection
  BY <1>1, <1>2, Zenon DEF Connection, Startup, Dial, Terminate, Drop, Hangup
<1>3. CASE Messages
  <2>1. CASE ByProxy
    BY <1>1, <2>1, Zenon DEF ByProxy, Handled
  <2> QED
    BY <1>3, <2>1, ServeCache, MessageKinds, Zenon DEF Query
<1>4. ASSUME NEW msg \in {"query", "execute"}, NEW db, NEW q, NEW ps, OtherSession(msg, db, q, ps)
      PROVE  CacheInv'
  BY <1>4, StoreInv, Zenon DEF OtherSession, UsesCache
<1>5. CASE UNCHANGED sessionVars
  BY <1>1, <1>5, Zenon DEF sessionVars
<1> QED
  BY <1>2, <1>3, <1>4, <1>5, Zenon DEF Next, vars

-----------------------------------------------------------------------------
(* Portals *)

\* Whatever makes a portal stale for the client also unbinds it.
LEMMA PortalStep ==
  ASSUME PortalInv, [Next]_vars
  PROVE  PortalInv'
<1> USE DEF PortalInv
<1>1. CASE UNCHANGED stmtVars
  BY <1>1, Zenon DEF stmtVars
<1>2. ASSUME NEW msg, NEW replies, Hangup(msg, replies) PROVE PortalInv'
  BY <1>2, SMTT(60) DEF Hangup, NoStatements, AllUnbound
<1>3. CASE Connection
  BY <1>1, <1>2, <1>3, ZenonT(60) DEF Connection, Startup, Dial, Terminate, Drop
<1>4. ASSUME NEW q, NEW n, ParseStmt(n, q) PROVE PortalInv'
  BY <1>4, SMTT(60) DEF ParseStmt, BoundWithout
<1>5. ASSUME NEW w \in Portals, NEW n \in Stmts, NEW ps \in Params, Bind(w, n, ps) PROVE PortalInv'
  <2> DEFINE b == [stmt |-> n, query |-> preparedStatements[n], params |-> ps]
  <2>1. b.stmt = n /\ b.query = preparedStatements[n] /\ b.params = ps
    BY Zenon
  <2> HIDE DEF b
  <2>2. /\ portalStatements' = [portalStatements EXCEPT ![w] = n]
        /\ boundParams' = [boundParams EXCEPT ![w] = ps]
        /\ bound' = [bound EXCEPT ![w] = b]
        /\ preparedStatements' = preparedStatements
    BY <1>5, Zenon DEF Bind, b
  <2> QED
    BY <2>1, <2>2, SMTT(60)
<1>6. ASSUME NEW w \in Portals, BindFails(w) PROVE PortalInv'
  BY <1>6, Zenon DEF BindFails
<1>7. ASSUME NEW w \in Portals, ClosePortal(w) PROVE PortalInv'
  BY <1>7, SMTT(60) DEF ClosePortal
<1>8. ASSUME NEW n, CloseStmt(n) PROVE PortalInv'
  BY <1>8, SMTT(60) DEF CloseStmt, BoundWithout
<1>9. ASSUME NEW w, Execute(w) PROVE PortalInv'
  BY <1>1, <1>9, ZenonT(60) DEF Execute, Serve
<1>10. CASE Messages
  <2>1. ASSUME NEW q, Query(q) PROVE PortalInv'
    BY <1>1, <2>1, Zenon DEF Query, Serve
  <2>2. ASSUME NEW n, DescribeStmt(n) PROVE PortalInv'
    BY <1>1, <2>2, Zenon DEF DescribeStmt
  <2>3. CASE DescribePortal \/ ParseFails \/ Sync \/ Status
    BY <1>1, <2>3, Zenon DEF DescribePortal, ParseFails, Sync, Status
  <2> QED
    BY <1>4, <1>5, <1>6, <1>7, <1>8, <1>9, <1>10, <2>1, <2>2, <2>3, ZenonT(60) DEF Messages
<1>11. ASSUME NEW msg, NEW db, NEW q, NEW ps, OtherSession(msg, db, q, ps) PROVE PortalInv'
  BY <1>1, <1>11, Zenon DEF OtherSession
<1>12. CASE UNCHANGED sessionVars
  BY <1>1, <1>12, Zenon DEF sessionVars
<1> QED
  BY <1>3, <1>10, <1>11, <1>12, ZenonT(60) DEF Next, vars

-----------------------------------------------------------------------------
(* ReadyForQuery *)

\* A reply has its ReadyForQuery at the end, if the message asks for one.
LEMMA ReplyFacts ==
  ASSUME NEW what, what # "Z"
  PROVE  /\ Readies(Reply("query", what)) = {Len(Reply("query", what))}
         /\ Readies(Reply("execute", what)) = {}
<1>1. Readies(<<what, "Z">>) = {Len(<<what, "Z">>)}
  BY DEF Readies
<1>2. Readies(<<what>>) = {}
  BY DEF Readies
<1> QED
  BY <1>1, <1>2, Zenon DEF Reply

\* A message that is served, from the cache too.
LEMMA ServeReady ==
  ASSUME CacheInv, NEW msg \in {"query", "execute"}, NEW q, NEW ps, Serve(msg, q, ps)
  PROVE  ReadyInStep'
<1> DEFINE p == Parse(q)
<1>1. ASSUME NEW what, what # "Z", last'.msg = msg, last'.replies = Reply(msg, what)
      PROVE  ReadyInStep'
  BY <1>1, ReplyFacts DEF ReadyInStep
<1>2. CASE FromCache(msg, p, ps)
  <2>1. PICK e \in cache :
          /\ e.key = CacheKey(msg, route.db, p.Query, ps)
          /\ last'.msg = msg
          /\ last'.replies = e.answer.replies
    BY <1>2 DEF FromCache, Seen
  <2>2. PICK m \in {"query", "execute"} :
          /\ e.key = CacheKey(m, e.answer.db, e.answer.query, e.answer.params)
          /\ e.answer.replies = Reply(m, "rows")
    BY Zenon DEF CacheInv
  <2>3. CacheKey(m, e.answer.db, e.answer.query, e.answer.params) = CacheKey(msg, route.db, p.Query, ps)
    BY <2>1, <2>2, SMTT(60)
  <2>4. m = msg
    BY <2>2, <2>3, SameKey, SMTT(60)
  <2> QED
    BY <1>1, <2>1, <2>2, <2>4, SMTT(60)
<1>3. CASE InBatch(msg, p, ps)
  <2>1. last'.msg = msg /\ \E what \in {"done", "rows", "error"} : last'.replies = Reply(msg, what)
    BY <1>3 DEF InBatch, Seen
  <2> QED
    BY <1>1, <2>1, SMTT(60)
<1>4. CASE OnBackend(msg, q, p, ps)
  <2>1. Answer(msg, route.db, p, ps).replies = Reply(msg, IF p.Type = "SELECT" THEN "rows" ELSE "done")
    BY Zenon DEF Answer
  <2>2. last'.msg = msg /\ \E what \in {"rows", "done", "error"} : last'.replies = Reply(msg, what)
    BY <1>4, <2>1, BackendAnswer, SMTT(60)
  <2> QED
    BY <1>1, <2>2, Zenon
<1> QED
  BY <1>2, <1>3, <1>4, Zenon DEF Serve

\* The proxy's own answers, each with its message.
LEMMA ProxyReady ==
  ASSUME NEW msg, NEW replies, last' = Told(msg, replies),
         \/ /\ msg \in {"sync", "status"}
            /\ replies \in {<<"Z">>, <<"rows", "Z">>}
         \/ /\ msg \in {"parse", "bind", "describe", "execute", "close"}
            /\ replies \in {<<"parsed">>, <<"bound">>, <<"error">>, <<"closed">>, <<"nodata">>,
                            <<"parameters", "nodata">>, <<"parameters", "row">>}
         \/ msg \in {"parse", "bind"} /\ replies = <<"error", "Z">>
         \/ msg \in {"none", "startup", "terminate", "unhandled"}
  PROVE  ReadyInStep'
<1>1. last'.msg = msg /\ last'.replies = replies
  BY Zenon DEF Told, Seen
<1>2. /\ Readies(<<"Z">>) = {1}
      /\ Readies(<<"rows", "Z">>) = {2}
      /\ Readies(<<"parsed">>) = {}
      /\ Readies(<<"bound">>) = {}
      /\ Readies(<<"error">>) = {}
      /\ Readies(<<"closed">>) = {}
      /\ Readies(<<"nodata">>) = {}
  BY DEF Readies
<1>3. Readies(<<"parameters", "nodata">>) = {} /\ Readies(<<"parameters", "row">>) = {}
  BY DEF Readies
<1>4. Len(<<"Z">>) = 1 /\ Len(<<"rows", "Z">>) = 2
  BY Zenon
<1>5. replies = <<"error", "Z">> => replies[1] = "error"
  OBVIOUS
<1> QED
  BY <1>1, <1>2, <1>3, <1>4, <1>5, ZenonT(60) DEF ReadyInStep

\* Every answer has its ReadyForQuery.
LEMMA ReadyStep ==
  ASSUME CacheInv, ReadyInStep, [Next]_vars
  PROVE  ReadyInStep'
<1>1. CASE UNCHANGED last
  BY <1>1, SMTT(60) DEF ReadyInStep
<1>2. CASE Connection
  BY <1>1, <1>2, ProxyReady, ZenonT(60) DEF Connection, Startup, Dial, Terminate, Drop, Hangup
<1>3. CASE Messages
  <2>1. ASSUME NEW q, Query(q) PROVE ReadyInStep'
    BY <2>1, ServeReady, Zenon DEF Query
  <2>2. ASSUME NEW w, Execute(w) PROVE ReadyInStep'
    <3>1. CASE Handled("execute", <<"error">>)
      BY <3>1, ProxyReady, Zenon DEF Handled
    <3> QED
      BY <2>2, <3>1, ServeReady, Zenon DEF Execute
  <2>3. ASSUME NEW q, NEW n, ParseStmt(n, q) PROVE ReadyInStep'
    BY <2>3, ProxyReady, Zenon DEF ParseStmt, Handled
  <2>4. ASSUME NEW w, NEW n, NEW ps, Bind(w, n, ps) \/ BindFails(w) PROVE ReadyInStep'
    BY <2>4, ProxyReady, Zenon DEF Bind, BindFails, Handled
  <2>5. ASSUME NEW n, CloseStmt(n) \/ ClosePortal(n) PROVE ReadyInStep'
    BY <2>5, ProxyReady, Zenon DEF CloseStmt, ClosePortal, Handled
  <2>6. ASSUME NEW n, DescribeStmt(n) PROVE ReadyInStep'
    BY <2>6, ProxyReady, Zenon DEF DescribeStmt, Handled
  <2>7. CASE DescribePortal \/ ParseFails
    BY <2>7, ProxyReady, Zenon DEF DescribePortal, ParseFails, Handled
  <2>8. CASE Sync \/ Status
    BY <2>8, ProxyReady, Zenon DEF Sync, Status, Handled
  <2> QED
    BY <1>3, <2>1, <2>2, <2>3, <2>4, <2>5, <2>6, <2>7, <2>8, Zenon DEF Messages
<1>4. ASSUME NEW msg, NEW db, NEW q, NEW ps, OtherSession(msg, db, q, ps) PROVE ReadyInStep'
  BY <1>1, <1>4, Zenon DEF OtherSession
<1>5. CASE UNCHANGED sessionVars
  BY <1>1, <1>5, Zenon DEF sessionVars
<1> QED
  BY <1>2, <1>3, <1>4, <1>5, Zenon DEF Next, vars

-----------------------------------------------------------------------------
(* The theorems *)

\* The first client finds everything in order.
LEMMA SessionInitInv == Init => IInv
<1> SUFFICES ASSUME Init PROVE IInv
  OBVIOUS
<1>1. ReloadInv
  BY InitInv, SMTT(60) DEF Init
<1>2. SessionPool /\ CacheInv
  BY Zenon DEF Init, SessionPool, CacheInv
<1>3. TxInv
  BY Zenon DEF Init, TxInv, TransactionKept
<1>4. PortalInv
  BY Zenon DEF Init, PortalInv, NoStatements, AllUnbound
<1>5. ReadyInStep
  BY Zenon DEF Init, ReadyInStep, Told, Seen
<1> QED
  BY <1>1, <1>2, <1>3, <1>4, <1>5 DEF IInv

\* IInv is inductive.
LEMMA SessionStep ==
  ASSUME IInv, [Next]_vars
  PROVE  IInv'
<1>1. ReloadInv'
  BY SessionLeavesPools, ReloadStep, Zenon DEF IInv
<1> QED
  BY <1>1, RouteStep, TxStep, PortalStep, CacheStep, ReadyStep, Zenon DEF IInv

\* So it always holds.
LEMMA SessionAlways == Spec => []IInv
  BY SessionInitInv, SessionStep, PTL DEF Spec

\* A session whose backend stays configured reads from the replicas configured
\* now, for any files and any number of reloads (updatePools, handleConnection).
THEOREM SessionsFollowReloads == Spec => []SessionFollowsReload
<1>1. IInv => SessionFollowsReload
  <2> SUFFICES ASSUME IInv, pc # "startup", turn # "postgres",
                      route.shard \in Configured(config["postgres"]),
                      era["postgres"][route.shard] = route.era
               PROVE  pool[route.pool] = config["postgres"].Backends[route.shard]
    BY Zenon DEF SessionFollowsReload
  <2>1. route.shard \in Names /\ pools["postgres"][route.shard] = route.pool
    BY Zenon DEF IInv, SessionPool
  <2>2. PoolsMatchConfig
    BY Zenon DEF IInv, ReloadInv
  <2> QED
    BY <2>1, <2>2, Zenon DEF PoolsMatchConfig, Proxies
<1> QED
  BY <1>1, SessionAlways, PTL

\* Reads on replicas and from the cache leave the transaction open on the
\* session's connection (handleQuery, handleExecute).
THEOREM TransactionsAreKept == Spec => []TransactionKept
<1>1. IInv => TransactionKept
  BY DEF IInv, TxInv
<1> QED
  BY <1>1, SessionAlways, PTL

\* Query and Sync are answered with one ReadyForQuery, Describe, Execute, Close and
\* a Parse or Bind that succeeds with none, whatever other sessions have cached
\* (handleMessages, and the cache's keys).
THEOREM AlwaysReadyInStep == Spec => []ReadyInStep
<1>1. IInv => ReadyInStep
  BY DEF IInv
<1> QED
  BY <1>1, SessionAlways, PTL

\* What Execute of a bound portal serves: its statement with its parameters.
LEMMA ExecutesBound ==
  ASSUME PortalInv, NEW w \in Portals, bound[w] # Unbound, Execute(w)
  PROVE  \/ last' = Told("execute", <<"error">>)
         \/ Serve("execute", bound[w].query, bound[w].params)
<1>1. /\ portalStatements[w] = bound[w].stmt /\ portalStatements[w] # Unbound
      /\ boundParams[w] = bound[w].params /\ boundParams[w] # Unbound
      /\ preparedStatements[portalStatements[w]] = bound[w].query
  BY SessionAssumption, ZenonT(60) DEF PortalInv
<1> QED
  BY <1>1, Zenon DEF Execute, Handled

\* Execute runs what its portal was last bound to (handleBind, handleExecute,
\* handleClose).
THEOREM AlwaysExecutesWhatWasBound == Spec => ExecutesWhatWasBound
<1>1. ASSUME IInv, NEW w \in Portals, bound[w] # Unbound, last'.by # "cache",
             last'.answer # NoAnswer, Execute(w)
      PROVE  /\ last'.answer.query = Parse(bound[w].query).Query
             /\ last'.answer.params = bound[w].params
  <2> DEFINE q == bound[w].query
             ps == bound[w].params
             p == Parse(q)
  <2>1. Serve("execute", q, ps)
    <3>1. Told("execute", <<"error">>).answer = NoAnswer
      BY DEF Told, Seen
    <3> QED
      BY <1>1, <3>1, ExecutesBound, Zenon DEF IInv
  <2>2. \E db : last'.answer = Answer("execute", db, p, ps)
    <3>1. ~FromCache("execute", p, ps)
      BY <1>1 DEF FromCache, Seen
    <3>2. CASE InBatch("execute", p, ps)
      BY <1>1, <3>2, SMTT(60) DEF InBatch, Seen
    <3>3. CASE OnBackend("execute", q, p, ps)
      BY <1>1, <3>3, BackendAnswer, SMTT(60)
    <3> QED
      BY <2>1, <3>1, <3>2, <3>3, Zenon DEF Serve
  <2> QED
    BY <2>2 DEF Answer
<1>2. IInv /\ [Next]_vars =>
        [\A w \in Portals :
           bound[w] # Unbound /\ last'.by # "cache" /\ last'.answer # NoAnswer /\ Execute(w) =>
             /\ last'.answer.query = Parse(bound[w].query).Query
             /\ last'.answer.params = bound[w].params]_vars
  BY <1>1, SMTT(60)
<1> QED
  BY <1>2, SessionAlways, PTL DEF Spec, ExecutesWhatWasBound
=============================================================================
