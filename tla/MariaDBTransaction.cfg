CONSTANTS
  db1 = db1  db2 = db2  main = main  shard1 = shard1  p = p  r = r  q = q
  NoDb = NoDb  NoAddr = NoAddr  NoConn = NoConn
  Dbs = {db1}
  Shards = {main}
  Default = main
  ShardOf <- TwoShards
  Backends <- NoReload
  Commands = {"begin", "commit", "select", "write"}
  Prepares = {}
  MaxStmts = 1
SPECIFICATION Spec
CHECK_DEADLOCK FALSE
INVARIANTS TransactionIsOpen
