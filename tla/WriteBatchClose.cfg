CONSTANTS
  r1 = r1  r2 = r2  r3 = r3  r4 = r4
  g1 = g1  g2 = g2  g3 = g3  g4 = g4
  k1 = k1  k2 = k2
  NoGroup = NoGroup
  Requests = {r1, r2, r3, r4}
  Groups = {g1, g2, g3}
  Keys = {k1, k2}
  KeyOf <- TwoKeys
  Immediate = {r4}
  Cancellable = {r3}
  MaxBatchSize = 2
SPECIFICATION Spec
SYMMETRY Interchangeable
CHECK_DEADLOCK FALSE
INVARIANTS BatchesDisjoint OneKeyPerBatch AnswerIsOwn IInv
