SPECIFICATION Spec
CONSTANTS
  Sizes = {2}
  FirstInnerId = 10
  RequestWindow = 4
  ResponseWindow = 3
  MaxClients = 2
  MaxBatches = 1
  MaxBacklog = 1
CHECK_DEADLOCK FALSE
INVARIANT ConnectedClientIsServed
