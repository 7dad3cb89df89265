SPECIFICATION Spec
CONSTANTS
  Files = {f1, f2, f3, f4}
  QueueSize = 3
  NumWorkers = 3
  None = None
INVARIANTS NoWorkerBlocks ReportIsComplete
PROPERTIES Returns
