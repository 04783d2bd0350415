CONSTANTS
  r1 = r1  r2 = r2  r3 = r3  r4 = r4
  g1 = g1  g2 = g2  g3 = g3  g4 = g4
  k1 = k1  k2 = k2
  NoGroup = NoGroup
  Requests = {r1, r2, r3}
  Groups = {g1, g2, g3}
  Keys = {k1}
  KeyOf <- OneKey
  Immediate = {}
  Cancellable = {r1}
  MaxBatchSize = 2
SPECIFICATION FairOpenSpec
CHECK_DEADLOCK FALSE
INVARIANTS NobodyStranded SendNeverBlocks
PROPERTIES ImplementsService ServiceLive
