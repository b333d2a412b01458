CONSTANTS
  Connections = {c1, c2}
  listener = listener
  app = app
  nobody = nobody
  MaxFd = 3
SPECIFICATION Spec
INVARIANTS
  ClosedByOwner
  NothingLeaks
  NoForeignIo
