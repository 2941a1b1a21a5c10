SPECIFICATION Spec
CONSTANTS
  Sizes = {2, 4}
  FirstInnerId = 10
  MayPanic = TRUE
  MaxBatches = 1
  MaxRequests = 2
  MaxResponses = 4
CHECK_DEADLOCK FALSE
INVARIANT DropIgnoresDeadWorker
