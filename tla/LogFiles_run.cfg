SPECIFICATION Spec
CONSTANTS
  Main = main
  Workers = {w1}
  MaxLines = 1
  MaxRoll = 2
  Absent = Absent
  Null = Null
  Closed = Closed
  Unlinked = Unlinked
  Deployments = {"own", "shared", "none"}
  MaxWritten = 4
  MaxFaults = 1
INVARIANTS
  OrderIsKept
  KeptIsRecent
  StreamsAreOpen
CHECK_DEADLOCK FALSE
