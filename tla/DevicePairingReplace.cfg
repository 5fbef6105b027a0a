SPECIFICATION Spec
CONSTANTS
  None = None
  Client = {c1}
  MaxFailuresLong = 1
  ShortWindow = 1
  LongWindow = 1
  Cooldown = 1
  MaxClock = 1
  MaxSessions = 1
  MaxDatabases = 3
INVARIANT AtomicReplace
CHECK_DEADLOCK FALSE
