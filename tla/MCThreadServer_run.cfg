SPECIFICATION ServerSpec
CONSTANTS
  c1 = c1
  c2 = c2
  Conns = {c1, c2}
  Methods = {"GET", "POST"}
  Paths = {"/", "/users/x"}
  Patterns = {"/*", "/users/*"}
  Covered <- CoveredPaths
  HashSize = 4
  MaxRoutes = 3
  None = None
  Malformed = Malformed
  Requests <- SomeRequests
  Servers <- Blocks
  Required <- RequiredRoles
  Capturing <- CapturingRoutes
  Rooted <- RootedRoutes
  DefaultTable <- Defaults
  Buffering = {FALSE}
  MaxRequests = 2
  MaxSent = 2
  Modes = {"thread", "tcp"}
  ServedKey <- Key
  ServedTables <- Tables
INVARIANTS  AnswerIsOwn
PROPERTIES InterruptStops
