SPECIFICATION FairSpec
CONSTANTS
  i = i
  j = j
  p = p
  NoProcess = NoProcess
  Process = {i, j}
  Partition = {p}
  LogEnd <- MixedLogEnd
  Verdict <- MixedVerdict
  MaxBatch = 2
  MaxFaults = 3
  MaxOutages = 1
INVARIANTS TypeOK AtLeastOnce
PROPERTIES OffsetsNeverRegress EveryMessageRouted
\* every process ends in an idle poll when the logs run out
CHECK_DEADLOCK FALSE
