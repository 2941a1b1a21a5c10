SPECIFICATION FairSpec
CONSTANTS
  Sizes = {2}
  FirstInnerId = 10
  MayPanic = TRUE
  MaxBatches = 3
  MaxRequests = 3
  MaxResponses = 4
CHECK_DEADLOCK FALSE
INVARIANTS
  TypeOK
  OuterSizeIsInFlight
  NothingPendingMeansDone
PROPERTIES
  KeepsContract
  EveryBatchAnswered
  DropReturns
