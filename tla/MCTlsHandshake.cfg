SPECIFICATION Spec
CONSTANTS
  None = None
  Configurations <- MCConfigurations
INVARIANTS
  KeysAgree
  NegotiatedByBoth
  ServerAuthenticated
PROPERTIES
  CompatibleCompletes
  HandshakeEnds
