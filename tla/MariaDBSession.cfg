CONSTANTS
  db1 = db1  db2 = db2  main = main  shard1 = shard1  p = p  r = r  q = q
  NoDb = NoDb  NoAddr = NoAddr  NoConn = NoConn
  Dbs = {db1, db2}
  Shards = {main, shard1}
  Default = main
  ShardOf <- TwoShards
  Backends <- Failover
  Commands = {"use", "begin", "beginOther", "commit", "rollback", "select", "write", "batched", "show", "prepare", "execute", "close", "reset"}
  Prepares = {"select", "batched"}
  MaxStmts = 1
  MaxStatements = 2  MaxResults = 2  MaxRows = 1  SeqModulus = 4
SPECIFICATION ProxySpec
CHECK_DEADLOCK FALSE
INVARIANTS TypeOK BatchedOutsideTransaction TransactionKept RoutedToShard SelectedDatabaseKept QueriesReconnect ServerInStep ClientInStep
