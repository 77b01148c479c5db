SPECIFICATION FairRunSpec
CONSTANTS
  t1 = t1
  t2 = t2
  Worker = {t1, t2}
  Feeder = t1
  Batch = 2
  MaxInFlight = 1
  QueueMax = 5
  Attempts = 2
  Burst = 2
  Rate = 2
  MaxBatches = 3
  MaxFailures = 1
INVARIANTS InFlightIsQueue RateKept
PROPERTIES LedgerKept RunEnds
\* the run ends
CHECK_DEADLOCK FALSE
