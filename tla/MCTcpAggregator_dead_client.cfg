SPECIFICATION FairSpec
CONSTANTS
  Sizes = {2}
  FirstInnerId = 10
  RequestWindow = 4
  ResponseWindow = 2
  MaxClients = 1
  MaxBatches = 1
  MaxBacklog = 0
CHECK_DEADLOCK FALSE
PROPERTY ServerAcceptsAgain
