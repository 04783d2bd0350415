CONSTANTS
  p1 = p1  p2 = p2  p3 = p3  r1 = r1
  NoAddr = NoAddr  NoName = NoName  NoBackend = NoBackend  NoPool = NoPool
  NoQuery = NoQuery  Unbound = Unbound
  Names = {"main", "shard1"}
  Dbs = {"app", "billing"}
  BatchDb = "tqdbproxy"
  Files <- SomeFiles
  MaxReloads = 2
  Stmts = {"", "s"}
  Portals = {"w"}
  Params <- SomeParams
  Clients <- SomeClients
SPECIFICATION Spec
INVARIANTS PoolsMatchConfig PoolsAreChecked SessionFollowsReload TransactionKept ReadyInStep
PROPERTIES ExecutesWhatWasBound
