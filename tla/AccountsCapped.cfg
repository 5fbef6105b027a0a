SPECIFICATION AccountsSpec
CONSTANTS
  Clients = {a1}
  Names = {n1}
  Passwords = {p1, p2}
  Calls = {k1, k2}
  HiddenProfiles = {"h"}
  OpenProfiles = {"o"}
  MaxFailures = 2
  LoginWindow = 1
  Lockout = 2
  MaxAuthTime = 4
  MaxOlderTests = 1
  NoUser = NoUser
INVARIANT AttemptsCapped
CHECK_DEADLOCK FALSE
