SPECIFICATION Safety
CONSTANTS
  CoreSize = 2
  MaxSize = 3
  Capacity = 2
  Threads = {t1, t2, t3, t4}
  Callers = {owner, c1}
  Owner = owner
  Conns = {f1, f2, f3}
  None = None
SYMMETRY Symmetry
INVARIANTS
  SlotsMatchWorkers
  OneHolder
  DrainedBeforeFree
  CoreWorkersStay
