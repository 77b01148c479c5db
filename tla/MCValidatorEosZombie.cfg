SPECIFICATION Spec
CONSTANTS
  a1 = a1
  a2 = a2
  b1 = b1
  a = a
  b = b
  p = p
  q = q
  NoProcess = NoProcess
  Partition = {p, q}
  Process = {a1, a2}
  TxnId = {a}
  IdOf <- ZombieIdOf
  LogEnd <- ZombieLogEnd
  Verdict <- ZombieVerdict
  MaxBatch = 2
  MaxEpoch = 3
  MaxFaults = 2
  MaxRebalance = 0
INVARIANTS TypeOK AtMostOnce
PROPERTIES AtomicallyRelayed
\* the supervisor stops restarting at MaxEpoch, and a finite log runs out
CHECK_DEADLOCK FALSE
