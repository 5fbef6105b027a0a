SPECIFICATION MCSpec
CONSTANTS
  \* RelayQueue
  recv = recv
  send = send
  r1 = r1
  r2 = r2
  s1 = s1
  None = None
  Client <- MCClient
  Sid <- MCSid
  ClientOf <- MCClientOf
  Cap = 2
  MaxAccepted = 3
  \* NodeDirectory
  Onions = {o1, o2}
  MaxSkew = 1
  StaleAfter = 2
  MaxRelayClock = 5
  ClockErrors = {0, 3}
  MaxSigned = 3
  \* Presence
  Streams = {p1, p2}
  PresenceStates = {"online", "offline"}
  QueueLimit = 2
  MaxUpdates = 5
  Unknown = Unknown
  \* RelayChunks
  ChunkIds = {c1}
  Downloads = {d1, d2, d3}
  HasRedis = TRUE
  ChunkTTL = 1
  MaxPuts = 2
  MaxHours = 3
  \* PrekeyBundle
  Nothing = Nothing
  Onion = {o1, o2}
  Request = {q1, q2}
  Worker = {w1, w2}
  Low = 1
  LowWatermark = 2
  RefillBatch = 2
  MaxPublish = 1
  MaxKeys = 4
  MaxHanded = 2
  \* ChunkStore
  NoFile = NoFile
  Local = local
  Uploader = {u1}
  ChunkId = {i1}
  Saver = {v1, v2}
  Loader = {l1}
  StorageCap = 1
  Ttl = 1
  Window = 1
  MaxUploads = 1
  MaxClock = 3
  MaxData = 3
  MaxSecrets = 1
INVARIANTS
  TypesOK
  NoneStranded
  StaysReachable
  ListedRecentlySigned
  StreamCurrent
  DeliveredOnce
  PoolBounded
  PoolKeysUnoffered
  LoadedIsUploaded
PROPERTY MailboxSpec
SYMMETRY Symmetry
CHECK_DEADLOCK FALSE
