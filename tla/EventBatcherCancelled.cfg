SPECIFICATION BatcherSpec
CONSTANTS
  MaxBatchSize = 3
  MaxEvents = 4
INVARIANT NoneCancelled
CHECK_DEADLOCK FALSE
