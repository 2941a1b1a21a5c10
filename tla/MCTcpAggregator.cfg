SPECIFICATION FairSpec
CONSTANTS
  Sizes = {2}
  FirstInnerId = 10
  RequestWindow = 4
  ResponseWindow = 2
  MaxClients = 2
  MaxBatches = 1
  MaxBacklog = 0
CHECK_DEADLOCK FALSE
INVARIANTS
  TypeOK
  FramesWhole
  OuterSizeIsInFlight
PROPERTIES
  KeepsContract
  EveryBatchAnswered
  ServerLeavesDeadClient
