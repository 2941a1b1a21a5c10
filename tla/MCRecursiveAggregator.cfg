SPECIFICATION FairSpec
CONSTANTS
  Sizes = {2, 4, 8}
  Throughputs <- TwoOne
  MayRemove = TRUE
  MaxBatches = 2
  MaxProofs = 12
INVARIANTS TypeOK Bookkeeping LegalPushes LeastLoadedChosen EveryLeafOnce
PROPERTIES KeepsContract EveryBatchAnswered
