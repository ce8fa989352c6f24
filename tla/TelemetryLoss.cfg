SPECIFICATION Spec
CONSTANTS
  Feed <- MCGood
  Cap = 4
  BatchSize = 2
  MaxEntries = 3
  MaxFaults = 1
INVARIANT FailedBatchRedelivered
CHECK_DEADLOCK FALSE
