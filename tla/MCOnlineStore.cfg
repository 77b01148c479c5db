SPECIFICATION Spec
CONSTANTS
  m5 = m5
  h1 = h1
  h24 = h24
  None = None
  Order <- Resolutions
  RefireOrder <- ByValue
  Slide <- Slides
  Size <- Sizes
  Skew = 1
  Lateness = 2
  MaxLag = 1
  MaxDelay = 3
  MaxEvents = 2
  LastEvent = 4
  MaxNow = 38
INVARIANTS TypeOK KeepsOwnTtl FreshestServed GoneInTime
\* the clock stops at MaxNow
CHECK_DEADLOCK FALSE
