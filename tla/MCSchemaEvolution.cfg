SPECIFICATION DriverSpec
CONSTANTS
  MaxRuns = 3
  MaxFaults = 1
INVARIANTS DrillsAccepted TopicStaysReadable
\* the driver is run a bounded number of times
CHECK_DEADLOCK FALSE
