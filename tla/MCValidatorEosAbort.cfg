SPECIFICATION Spec
CONSTANTS
  a1 = a1
  a2 = a2
  b1 = b1
  a = a
  b = b
  p = p
  q = q
  NoProcess = NoProcess
  Partition = {p}
  Process = {a1}
  TxnId = {a}
  IdOf <- SingleIdOf
  LogEnd <- GroupLogEnd
  Verdict <- GroupVerdict
  MaxBatch = 2
  MaxEpoch = 3
  MaxFaults = 2
  MaxRebalance = 0
INVARIANTS AbortedBatchReplays
\* a finite log runs out and the process idles
CHECK_DEADLOCK FALSE
