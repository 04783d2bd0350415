CONSTANTS
  Sizes = {1, 2, 3}
  MaxRows = 2
  MaxId = 2
  Chars = {"bs", "tab", "nl", "cr", "N", "t", "n"}
  MaxLen = 2
  MaxParams = 2
  MaxPayload = 7
SPECIFICATION BatchSpec
CHECK_DEADLOCK FALSE
INVARIANTS AppliedAllOrNone AckedIsApplied InsertIdIsOwn NotifiedIffAllSucceed LoadsWhatWasWritten
