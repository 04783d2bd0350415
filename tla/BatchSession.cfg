CONSTANTS
  Sessions = {s1, s2, s3}
  MaxWrites = 4
  Nobody = Nobody
SPECIFICATION FairSpec
CHECK_DEADLOCK FALSE
INVARIANTS WaitsForLaterBatch IInv
PROPERTIES EveryWriteAnswered
