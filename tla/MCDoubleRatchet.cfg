SPECIFICATION Spec
CONSTANTS
  None = None
  MaxSkip = 2
  MaxSkipped = 1
  MaxSent = 4
  MaxKeys = 3
  MaxResults = 3
INVARIANTS
  KeyAgreement
  NoKeyLost
  ForwardSecrecy
  KeysOnce
  SkippedBounded
PROPERTY RatchetForward
CHECK_DEADLOCK FALSE
