CONSTANTS
  Msgs <- MCMsgs
  FragmentSize = 2
  Half = 4
  MaxSeq = 18
SPECIFICATION RecordsSpec
INVARIANTS
  BufferIsCurrent
  RemainingIsMissing
  InOrderExactlyOnce
  NumbersUnique
  NearRecordsOpen
  EarlyRecordsOpen
PROPERTIES
  ImplementsInOrderDelivery
  EveryMessageProcessed
  WindowMovesForward
CHECK_DEADLOCK FALSE
