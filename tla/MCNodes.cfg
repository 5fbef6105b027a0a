SPECIFICATION MCSpec
CONSTANTS
  \* SyncManager
  here = here
  phone = phone
  laptop = laptop
  Device <- MCDevice
  Self = here
  Offset <- MCOffset
  MaxItems = 2
  MaxSkew = 1
  MaxTime = 1
  MaxSeq = 3
  MaxApplied = 4
  \* DevicePairing
  None = None
  Client = {c1}
  MaxFailuresLong = 2
  ShortWindow = 1
  LongWindow = 2
  Cooldown = 2
  MaxClock = 4
  MaxSessions = 2
  MaxDatabases = 3
  \* Accounts
  Clients = {a1}
  Names = {n1}
  Passwords = {p1, p2}
  Calls = {k1, k2}
  HiddenProfiles = {"h"}
  OpenProfiles = {"o"}
  MaxFailures = 2
  LoginWindow = 1
  Lockout = 2
  MaxAuthTime = 3
  MaxOlderTests = 1
  NoUser = NoUser
  \* MLSGroups
  Devices = {d1, d2, d3}
  Creator = d1
  MaxEpoch = 4
  \* LegacyContacts
  Nodes = {a, b}
  MaxAdds = 1
  MaxAccepts = 1
  MaxRestarts = 1
  MaxFaults = 1
  NoRow = NoRow
  \* LegacyEdits
  RowIds = {r1, r2}
  Editors = {e1, e2, e3}
  Idle = Idle
  \* LegacyPool
  Threads = {t1, t2}
  MaxConnections = 2
  MaxCloses = 1
  MaxPoolFaults = 1
  \* LegacyKeys
  Browsers = {b1, b2}
  LockAfter = 2
  LockMore = 3
  LockTime = 1
  LockTimeMore = 2
  KeyLifetime = 1
  MaxMoments = 3
  MaxLogins = 1
  MaxTests = 4
  \* LegacyGroups
  Members = {a, b}
  Invites = {i1}
  Requests = {q1, q2}
  Nobody = Nobody
  \* TorProcess and Launcher
  Launches = {l1, l2}
  Services = {s1}
  Ports = {1, 2, 3, 4, 5, 6}
  TakenPorts = {}
  MaxTors = 2
  \* TorDownload and ModeSwitch
  Downloaders = {x1, x2}
  MaxDownloads = 3
  MaxKills = 2
  SwitchRequests = {w1, w2, w3}
INVARIANTS
  TypesOK
  WindowIsLatest
  ReplayDistance
  BlockedAfterFailures
  DatabaseKept
  LockoutBound
  RemovedLockedOut
  SessionsSound
  OriginalKept
  ConnectionsAccounted
  LockedAfterFailures
  OnlyFounderPosts
  TorTracked
  RunningIsServed
  ExecutableVerified
  ModeServed
CHECK_DEADLOCK FALSE
