CONSTANTS
  q1 = q1  q2 = q2  q3 = q3  q4 = q4
  k1 = k1  k2 = k2
  NoFlight = NoFlight
  Queries = {q1, q2, q3, q4}
  Keys = {k1, k2}
  KeyOf <- TwoKeys
SPECIFICATION FairSpec
CHECK_DEADLOCK FALSE
INVARIANTS ClosedOnce WaitersAreReleased IInv
PROPERTIES AllAnswered
