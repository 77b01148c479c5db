SPECIFICATION FairSpec
CONSTANTS
  a1 = a1
  a2 = a2
  b1 = b1
  a = a
  b = b
  p = p
  q = q
  NoProcess = NoProcess
  Partition = {p}
  Process = {a1, b1}
  TxnId = {a, b}
  IdOf <- GroupIdOf
  LogEnd <- GroupLogEnd
  Verdict <- GroupVerdict
  MaxBatch = 2
  MaxEpoch = 3
  MaxFaults = 1
  MaxRebalance = 2
INVARIANTS NoSilentLoss
PROPERTIES OffsetsRegressOnlyIfRaced EveryMessageSettled
\* a finite log runs out
CHECK_DEADLOCK FALSE
