CONSTANTS
  PendingRounds = 2
  MaxApp = 0
  Environments <- OvertakingEnvironments
SPECIFICATION FairSpec
PROPERTIES
  FinisherCompletes
CHECK_DEADLOCK FALSE
