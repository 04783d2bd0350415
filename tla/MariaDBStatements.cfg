CONSTANTS
  db1 = db1  db2 = db2  main = main  shard1 = shard1  p = p  r = r  q = q
  NoDb = NoDb  NoAddr = NoAddr  NoConn = NoConn
  Dbs = {db1, db2}
  Shards = {main, shard1}
  Default = main
  ShardOf <- TwoShards
  Backends <- NoReload
  Commands = {"select", "prepare", "execute"}
  Prepares = {"select", "write", "batched"}
  MaxStmts = 1
SPECIFICATION Spec
CHECK_DEADLOCK FALSE
PROPERTIES ExecutesWhatWasPrepared
