CONSTANTS
  transfersSvc = transfersSvc
  settlementsSvc1 = settlementsSvc1
  settlementsSvc2 = settlementsSvc2
  Processes = {transfersSvc, settlementsSvc1, settlementsSvc2}
  Ensuring = {transfersSvc}
  Collections = {"transfers", "batches", "matrices"}
  Needs <- MCNeeds
  MaxCrashes = 3
SPECIFICATION FairCollectionsSpec
INVARIANTS CollectionsIInv MissingIndexIsInterrupted InterruptedStaysUnindexed
PROPERTIES EveryServiceComesUp
CHECK_DEADLOCK FALSE
