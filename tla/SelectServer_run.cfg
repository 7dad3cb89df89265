SPECIFICATION Spec
CONSTANTS
  Conns = {c1, c2, c3}
  ListenFd = 3
  NoFile = 7
  FdSetSize = 8
  MaxConns = 2
  MaxRequests = 2
  None = None
INVARIANTS SetsAgree ReadSetIsFresh
PROPERTY ServerProgresses
