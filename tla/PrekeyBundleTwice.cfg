SPECIFICATION PrekeySpec
CONSTANTS
  Nothing = Nothing
  Onion = {o1}
  Request = {r1, r2}
  Worker = {w1, w2}
  Low = 1
  LowWatermark = 1
  RefillBatch = 2
  MaxPublish = 2
  MaxKeys = 4
  MaxHanded = 3
INVARIANT OPKOnce
CHECK_DEADLOCK FALSE
