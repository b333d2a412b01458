CONSTANTS
  RecordUnits = 3
  Capacity = 5
  MaxSeq = 10
  Uses <- RetryUses
SPECIFICATION Spec
INVARIANTS
  RetryIsSafe
CHECK_DEADLOCK FALSE
