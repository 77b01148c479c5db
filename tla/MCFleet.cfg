SPECIFICATION FairSpec
CONSTANTS
  Programs = {"load", "consume", "validate"}
  Topics = {0, 1, 2}
  Wanted = 2
  SetUpWanted = 1
  Cpus = {1, 3}
  Requested = {0, 2, 3}
  Workers = 2
  LogEnd <- OneAndTwo
  Unfit <- OneUnfit
  Damaged <- OneDamaged
  MaxBatch = 2
  MaxFaults = 1
INVARIANTS TypeOK CommittedWasCounted DrainedUnlessBlind
PROPERTIES RunReturns
CHECK_DEADLOCK FALSE
