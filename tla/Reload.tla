------------------------------- MODULE Reload -------------------------------
(***************************************************************************)
(* Configuration reload: main (main.go) loads the file on SIGHUP           *)
(* (config/config.go) and, for the MariaDB and then the PostgreSQL proxy,  *)
(* updates the pools and hands them to UpdateConfig.                       *)
(*                                                                         *)
(* Pools are objects shared with the sessions that found them, so          *)
(* updatePools is a step per pool: UpdateReplicas takes effect under the   *)
(* sessions before the proxy has the new configuration.  What is inside a  *)
(* pool is ReplicaPool; here a pool is its primary and its replicas.       *)
(***************************************************************************)
EXTENDS Naturals, Sequences, Functions

CONSTANTS
  Files,             \* what the configuration file may hold, per proxy
  Names, NoName,     \* backend names
  Dbs,               \* databases
  NoAddr,            \* a section without a primary
  NoBackend, NoPool, \* a missing key of a map
  MaxReloads         \* bound: SIGHUPs

Proxies == {"mariadb", "postgres"}

\* The pools ever made: for a name at most one, and one more per reload.
Pools == Proxies \X Names \X (0..MaxReloads)

ASSUME ReloadAssumption ==
  /\ MaxReloads \in Nat
  /\ NoPool \notin Pools
  /\ NoName \notin Names

VARIABLES
  config,     \* each proxy's config
  pools,      \* each proxy's pools
  pool,       \* the pool objects: primary and replicas
  checkers,   \* how many goroutines run each pool's StartHealthChecks
  turn,       \* the proxy main is updating, or "wait"
  loaded,     \* newCfg
  todo, made, \* updatePools: names still to visit, and newPools
  era,        \* history: how often each name was brought in
  reloads

mainVars == <<turn, loaded, todo, made, reloads>>
reloadVars == <<config, pools, pool, checkers, mainVars, era>>

-----------------------------------------------------------------------------
(* Loading the file *)

\* A section without a primary is ignored.
Sections(file) == SelectSeq(file.sections, LAMBDA s : s.primary # NoAddr)

\* loadProxyConfig.  A database listed twice belongs to the later section.
LoadProxyConfig(file) ==
  LET sections == Sections(file) IN
  [Default  |-> file.default,
   Backends |-> [n \in Names |->
     IF \E s \in Range(sections) : s.name = n
     THEN LET s == CHOOSE s \in Range(sections) : s.name = n
          IN  [primary |-> s.primary, replicas |-> s.replicas]
     ELSE NoBackend],
   DBMap    |-> [d \in Dbs |->
     LET listed == {i \in DOMAIN sections : d \in sections[i].databases}
     IN  IF listed = {} THEN NoName
         ELSE sections[CHOOSE i \in listed : \A j \in listed : j <= i].name]]

Load(file) == [p \in Proxies |-> LoadProxyConfig(file[p])]

Configured(cfg) == {n \in Names : cfg.Backends[n] # NoBackend}

-----------------------------------------------------------------------------
NoPools == [n \in Names |-> NoPool]

\* initPools for both proxies, and go StartHealthChecks for each pool.
ReloadInit ==
  /\ \E file \in Files : config = Load(file)
  /\ pools = [p \in Proxies |-> [n \in Names |->
                IF n \in Configured(config[p]) THEN <<p, n, 0>> ELSE NoPool]]
  /\ pool = [i \in Pools |-> IF i[3] = 0 THEN config[i[1]].Backends[i[2]] ELSE NoBackend]
  /\ checkers = [i \in Pools |-> IF pool[i] = NoBackend THEN 0 ELSE 1]
  /\ turn = "wait"
  /\ loaded = config
  /\ todo = {}
  /\ made = NoPools
  /\ era = [p \in Proxies |-> [n \in Names |-> 0]]
  /\ reloads = 0

StartUpdate(p, cfg) ==
  /\ turn' = p
  /\ todo' = Configured(cfg[p])
  /\ made' = NoPools

\* SIGHUP: config.Load, and into updatePools for MariaDB.
Sighup(file) ==
  /\ turn = "wait"
  /\ reloads < MaxReloads
  /\ reloads' = reloads + 1
  /\ loaded' = Load(file)
  /\ StartUpdate("mariadb", loaded')
  /\ UNCHANGED <<config, pools, pool, checkers, era>>

\* The file cannot be loaded: the running configuration stays.
SighupFails ==
  /\ turn = "wait"
  /\ reloads < MaxReloads
  /\ reloads' = reloads + 1
  /\ UNCHANGED <<config, pools, pool, checkers, turn, loaded, todo, made, era>>

Backend(n) == loaded[turn].Backends[n]

KeepPool(n) ==
  /\ made' = [made EXCEPT ![n] = pools[turn][n]]
  /\ UNCHANGED <<pool, checkers>>

\* pool.UpdateReplicas, on the object the sessions have.
UpdateReplicas(n) ==
  /\ pool' = [pool EXCEPT ![pools[turn][n]] = Backend(n)]
  /\ made' = [made EXCEPT ![n] = pools[turn][n]]
  /\ UNCHANGED checkers

\* The pool of that name that NewPool makes next.
Unmade(p, n) == {i \in Pools : i[1] = p /\ i[2] = n /\ pool[i] = NoBackend}

NewPoolUnchecked(n) ==
  \E i \in Unmade(turn, n) :
    /\ \A j \in Unmade(turn, n) : i[3] <= j[3]
    /\ pool' = [pool EXCEPT ![i] = Backend(n)]
    /\ made' = [made EXCEPT ![n] = i]
    /\ UNCHANGED checkers

\* NewPool, and go StartHealthChecks.
NewPool(n) ==
  \E i \in Unmade(turn, n) :
    /\ \A j \in Unmade(turn, n) : i[3] <= j[3]
    /\ pool' = [pool EXCEPT ![i] = Backend(n)]
    /\ checkers' = [checkers EXCEPT ![i] = @ + 1]
    /\ made' = [made EXCEPT ![n] = i]

AlwaysNewPool(n) ==
  /\ n \in todo
  /\ todo' = todo \ {n}
  /\ NewPool(n)
  /\ UNCHANGED <<config, pools, turn, loaded, era, reloads>>

\* One iteration of the loop in updatePools; maps are visited in any order.
UpdatePool(n) ==
  /\ n \in todo
  /\ todo' = todo \ {n}
  /\ \/ pools[turn][n] # NoPool /\ UpdateReplicas(n)
     \/ pools[turn][n] = NoPool /\ NewPool(n)
  /\ UNCHANGED <<config, pools, turn, loaded, era, reloads>>

\* UpdateConfig, under p.mu; then main goes on to the next proxy.
UpdateConfig ==
  /\ turn # "wait"
  /\ todo = {}
  /\ config' = [config EXCEPT ![turn] = loaded[turn]]
  /\ pools' = [pools EXCEPT ![turn] = made]
  /\ era' = [era EXCEPT ![turn] = [n \in Names |->
       IF n \in Configured(loaded[turn]) \ Configured(config[turn]) THEN @[n] + 1 ELSE @[n]]]
  /\ IF turn = "mariadb"
     THEN StartUpdate("postgres", loaded)
     ELSE turn' = "wait" /\ UNCHANGED <<todo, made>>
  /\ UNCHANGED <<pool, checkers, loaded, reloads>>

ReloadNext ==
  \/ \E file \in Files : Sighup(file)
  \/ SighupFails
  \/ \E n \in Names : UpdatePool(n)
  \/ UpdateConfig

ReloadSpec == ReloadInit /\ [][ReloadNext]_reloadVars
-----------------------------------------------------------------------------
(* Properties *)

\* Whenever a proxy is not in the middle of its update, its pools are those of
\* its configuration, with the primary and the replicas configured there,
\* although a kept pool is the object that earlier sessions share and the
\* other proxy is being updated (updatePools, UpdateConfig).
PoolsMatchConfig ==
  \A p \in Proxies \ {turn} : \A n \in Names :
    IF n \in Configured(config[p])
    THEN pools[p][n] # NoPool /\ pool[pools[p][n]] = config[p].Backends[n]
    ELSE pools[p][n] = NoPool

\* Every pool that sessions can be routed to has one goroutine checking its
\* replicas, through reloads that keep, drop and bring back its name.
PoolsAreChecked ==
  \A p \in Proxies, n \in Names : pools[p][n] # NoPool => checkers[pools[p][n]] = 1

-----------------------------------------------------------------------------
(* The inductive invariant behind both *)

IsPools(m) == m \in [Names -> Pools \cup {NoPool}]

\* Types.
ReloadTypeOK ==
  /\ config = [p \in Proxies |-> config[p]]
  /\ pools = [p \in Proxies |-> pools[p]]
  /\ \A p \in Proxies : IsPools(pools[p])
  /\ pool = [i \in Pools |-> pool[i]]
  /\ checkers \in [Pools -> Nat]
  /\ turn \in Proxies \cup {"wait"}
  /\ todo \subseteq Names
  /\ IsPools(made)
  /\ era \in [Proxies -> [Names -> Nat]]

\* Pool i was made for backend n of proxy p, and is checked once.
MadeFor(i, p, n) == i[1] = p /\ i[2] = n /\ checkers[i] = 1

\* What updatePools has made so far of the configuration it was given: a kept
\* name has its old pool, and the pools visited have their new settings.
UpdateInv ==
  /\ todo \subseteq Configured(loaded[turn])
  /\ \A n \in Names :
       IF n \in Configured(loaded[turn]) \ todo
       THEN /\ made[n] # NoPool
            /\ MadeFor(made[n], turn, n)
            /\ pool[made[n]] = loaded[turn].Backends[n]
            /\ pools[turn][n] # NoPool => made[n] = pools[turn][n]
       ELSE made[n] = NoPool

\* The inductive invariant: no pool has two names, so that updating one leaves
\* the others as they are.
ReloadInv ==
  /\ ReloadTypeOK
  /\ PoolsMatchConfig
  /\ \A p \in Proxies, n \in Names :
       /\ (pools[p][n] = NoPool) <=> (n \notin Configured(config[p]))
       /\ pools[p][n] # NoPool => MadeFor(pools[p][n], p, n) /\ pool[pools[p][n]] # NoBackend
  /\ \A i \in Pools : pool[i] = NoBackend => checkers[i] = 0
  /\ IF turn = "wait" THEN todo = {} ELSE UpdateInv
=============================================================================
