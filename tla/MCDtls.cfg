CONSTANTS
  PendingRounds = 2
  MaxApp = 2
  Environments <- MCEnvironments
SPECIFICATION FairSpec
INVARIANTS
  KeysAgree
  NoHonestFailure
  UnauthenticatedNeverCompletes
  NonceUnique
PROPERTIES
  ImplementsSecureChannel
  FinisherCompletes
  Terminates
CHECK_DEADLOCK FALSE
