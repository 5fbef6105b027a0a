SPECIFICATION SpecRedis
CONSTANTS
  recv = recv
  send = send
  r1 = r1
  r2 = r2
  s1 = s1
  None = None
  Client <- MCClient
  Sid <- MCSid
  ClientOf <- MCClientOf
  Cap = 2
  MaxAccepted = 3
INVARIANT NoSilentLossRedis
CHECK_DEADLOCK FALSE
