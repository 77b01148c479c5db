SPECIFICATION FairSpec
CONSTANTS
  i = i
  j = j
  p = p
  a = a
  b = b
  NoProcess = NoProcess
  Process = {i, j}
  Partition = {p}
  LogEnd <- MixedLogEnd
  Verdict <- MixedVerdict
  IdOf <- MixedIdOf
  MaxRows = 2
  MaxPoll = 2
  Attempts = 2
  MaxFaults = 2
INVARIANTS TypeOK BooksBalance
PROPERTIES EffectivelyOnce EveryEventStored
\* every process ends in an idle poll when the logs run out
CHECK_DEADLOCK FALSE
