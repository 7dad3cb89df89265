SPECIFICATION ServerSpec
CONSTANTS
  CoreSize = 1
  MaxSize = 2
  Capacity = 2
  Threads = {t1, t2}
  Callers = {owner}
  Owner = owner
  Conns = {f1, f2, f3}
  None = None
INVARIANTS
  ReportIsExact
PROPERTIES
  InterruptStops
  ImplementsContract
  BlockedCallerReturns
