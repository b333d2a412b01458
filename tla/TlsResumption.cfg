SPECIFICATION Spec
CONSTANTS
  kTls12SessionCacheMax = 2
  kTls12SessionTtlSec = 3
  MaxSessions = 4
  MaxTime = 5
  Second = 2
  AgeModulus = 8
  Tolerance = 2
  AgeAdds = {5}
  Loads = {"all"}
  MaxTickets = 2
  MaxData = 2
  MaxClock = 5
  Methods = {"session id", "ticket"}
INVARIANTS
  ResumesOwnSession
  RecentSessionKept
  AcceptedExactlyWhenFresh
  EarlyDataOpens
CHECK_DEADLOCK FALSE
