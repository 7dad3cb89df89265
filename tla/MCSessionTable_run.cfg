SPECIFICATION TableSpec
CONSTANTS
  Ids = {i1, i2, i3, i4}
  MaxSessions = 4
  HashSize = 3
  TTL = 1
  MaxTime = 3
  Homes <- AnyHash
  Initialised = TRUE
  None = None
SYMMETRY IdSymmetry
INVARIANTS LiveIsIndexed CallsReturn
PROPERTIES CreatedIsFound ImplementsStore
CHECK_DEADLOCK FALSE
