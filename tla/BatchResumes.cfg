SPECIFICATION Spec

CONSTANTS
  N = 2
  NoLimit = NoLimit
  PageLimit = 3
  FailuresAllowed = TRUE
  MaxTries = 4
  MaxRows = 4

CHECK_DEADLOCK FALSE

INVARIANTS
  BatchTypeOK
  JobReturnedOnce
  DeclinedLeavesNoRow
  CountExact
