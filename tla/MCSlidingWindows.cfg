SPECIFICATION FairSpec
CONSTANTS
  e1 = e1
  e2 = e2
  e3 = e3
  u = u
  p = p
  short = short
  long = long
  None = None
  Event = {e1, e2, e3}
  User = {u}
  Partition = {p}
  Resolution = {short, long}
  UserOf <- OneUser
  PartitionOf <- OnePartition
  TsOf <- EventTimes
  Slide <- SlideTicks
  Size <- SizeTicks
  Skew = 1
  Lateness = 3
  Idleness = 3
  MaxBatch = 1
  MaxNow = 11
  Ahead = 0
  MaxOffset = 3
  MaxLife = 1
INVARIANTS DirtyLive EmittedFresh SeqOrdersContents
PROPERTIES EventuallyEmitted
\* the clock stops at MaxNow and a finite topic runs out
CHECK_DEADLOCK FALSE
