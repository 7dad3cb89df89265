SPECIFICATION Spec
CONSTANTS
  NumWorkers = 3
  MaxInterrupts = 2
INVARIANTS UnreapedIsRecorded NoWorkerSurvives NobodyKilledEarly
PROPERTIES ShutdownEnds
