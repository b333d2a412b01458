CONSTANTS
  RecordUnits = 3
  Capacity = 5
  MaxSeq = 10
  Uses <- AllUses
SPECIFICATION FairSpec
INVARIANTS
  StreamFramed
  NoDecryptFailure
  OrderedOnce
PROPERTIES
  AllDelivered
CHECK_DEADLOCK FALSE
