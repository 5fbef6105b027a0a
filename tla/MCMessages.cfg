SPECIFICATION MCSpec
CONSTANTS
  \* P2PDelivery
  None = None
  MaxMsg = 2
  Sealed = {2}
  Retries = 3
  \* Contacts
  Sites = {s1, s2}
  MaxContactAdds = 1
  MaxRows = 2
  MaxAgrees = 1
  \* MessageHistory
  HistoryRows = {r1, r2, r3}
  Times = {1, 2, 3}
  PageLimit = 2
  MaxPages = 3
  Requests = {q1}
  \* EventBatcher
  MaxBatchSize = 3
  MaxEvents = 6
  \* LegacyMessages
  Ttls = {0, 1}
  SeqNumbers = {1}
  MaxTime = 2
  MaxMessages = 2
  MaxJobs = 2
  MaxErrors = 1
INVARIANTS
  TypesOK
  TransmittedIsStored
  NoHalfOpen
  PagesComplete
  FlushPending
PROPERTIES
  TaskEnds
  Disappear
CHECK_DEADLOCK FALSE
