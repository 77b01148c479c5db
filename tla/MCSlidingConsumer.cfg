SPECIFICATION FairSpec
CONSTANTS
  c1 = c1
  c2 = c2
  p = p
  None = None
  Proc = {c1, c2}
  Partition = {p}
  FirstOwner <- ToFirst
  MaxLength = 2
  MaxBatch = 2
  MaxFaults = 1
  MaxMoves = 1
INVARIANTS TypeOK PanesRebuilt FoldedOnce RedisShowsTopic
PROPERTIES OutputWithOffsets EveryMessageRead
\* a finite topic runs out
CHECK_DEADLOCK FALSE
