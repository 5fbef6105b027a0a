SPECIFICATION Spec
CONSTANTS
  None = None
  MaxSkip = 2
  MaxSkipped = 2
  MaxSent = 2
  MaxKeys = 3
  MaxResults = 3
PROPERTY RatchetOnlyOnNewKey
CHECK_DEADLOCK FALSE
