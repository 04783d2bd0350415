CONSTANTS
  Sizes = {2}
  MaxRows = 1
  MaxId = 1
SPECIFICATION ExecSpec
CHECK_DEADLOCK FALSE
INVARIANTS RolledBackIsNotAcked
