CONSTANTS
  PendingRounds = 2
  MaxApp = 0
  Environments <- LastFlightEnvironments
SPECIFICATION FairSpec
PROPERTIES
  BothComplete
CHECK_DEADLOCK FALSE
