------------------------------ MODULE LegacyKeys ------------------------------
(***************************************************************************)
(* Login at a legacy node and the database key it derives: register, login,  *)
(* logout, cache_db_key and get_db_key_hex of transports/p2p/server.py,      *)
(* register_local_user, login_local_user and update_contact_secret of        *)
(* database.py.  There is one local user.  Flask serves requests in threads  *)
(* and every get_config and set_config is a transaction of its own.          *)
(***************************************************************************)
EXTENDS Naturals, FiniteSets

CONSTANTS
    Browsers,       \* sessions: each makes one request at a time
    LockAfter,      \* failures that lock the account (5)
    LockMore,       \* failures that lock it for longer (10, 20)
    LockTime,       \* 60 s
    LockTimeMore,   \* 300 s, 1800 s
    KeyLifetime,    \* lifetime_seconds of a cached key
    MaxMoments,     \* bound: the clock
    MaxLogins,      \* bound: keys cached
    MaxTests        \* bound: wrong passwords tested

ASSUME LegacyKeysAssumption ==
    /\ IsFiniteSet(Browsers) /\ LockAfter \in Nat \ {0} /\ LockMore \in Nat /\ LockMore > LockAfter
    /\ LockTime \in Nat \ {0} /\ LockTimeMore \in Nat /\ LockTimeMore >= LockTime
    /\ KeyLifetime \in Nat /\ MaxMoments \in Nat \ {0} /\ MaxLogins \in Nat /\ MaxTests \in Nat

VARIABLES
    registered,     \* config has password_hash
    attempts,       \* config failed_login_attempts
    lockout,        \* config lockout_until; 0 when empty
    keyCache,       \* _DB_KEY_CACHE: entries [id, expiry]
    cookie,         \* browser -> db_key_id of its session; 0: not logged in
    request,        \* browser -> [pc, seen]: the login in progress
    storedSecret,   \* shared_secret of a contact: "none", "encrypted", "plain"
    moment,         \* time.time()
    logins,         \* key ids given out
    wrongs          \* history: wrong passwords since the last login

keyVars == <<registered, attempts, lockout, keyCache, cookie, request, storedSecret, moment, logins, wrongs>>

NoRequest == [pc |-> "none", seen |-> 0]

KeysTypeOK ==
    /\ registered \in BOOLEAN /\ attempts \in Nat /\ lockout \in Nat
    /\ keyCache \subseteq [id : 1..MaxLogins, expiry : Nat]
    /\ cookie \in [Browsers -> 0..MaxLogins]
    /\ request \in [Browsers -> [pc : {"none", "verify", "read", "write", "lock", "reset", "session"},
                                 seen : Nat]]
    /\ storedSecret \in {"none", "encrypted", "plain"}
    /\ moment \in 1..MaxMoments /\ logins \in 0..MaxLogins /\ wrongs \in 0..MaxTests

KeysInit ==
    /\ registered = FALSE /\ attempts = 0 /\ lockout = 0 /\ keyCache = {}
    /\ cookie = [b \in Browsers |-> 0] /\ request = [b \in Browsers |-> NoRequest]
    /\ storedSecret = "none" /\ moment = 1 /\ logins = 0 /\ wrongs = 0

Goto(b, pc, seen) == request' = [request EXCEPT ![b] = [pc |-> pc, seen |-> seen]]

\* register_local_user: refused once there is a password
RegisterUser ==
    /\ ~registered
    /\ registered' = TRUE
    /\ UNCHANGED <<attempts, lockout, keyCache, cookie, request, storedSecret, moment, logins, wrongs>>

(***************************************************************************)
(* login_local_user.                                                        *)
(***************************************************************************)
\* the lockout is tested first
CheckLockout(b) ==
    /\ registered /\ request[b] = NoRequest
    /\ lockout <= moment
    /\ Goto(b, "verify", 0)
    /\ UNCHANGED <<registered, attempts, lockout, keyCache, cookie, storedSecret, moment, logins, wrongs>>

\* bcrypt.checkpw: right or wrong
VerifyRight(b) ==
    /\ request[b].pc = "verify" /\ logins < MaxLogins
    /\ Goto(b, "reset", 0)
    /\ UNCHANGED <<registered, attempts, lockout, keyCache, cookie, storedSecret, moment, logins, wrongs>>

VerifyWrong(b) ==
    /\ request[b].pc = "verify" /\ wrongs < MaxTests
    /\ Goto(b, "read", 0)
    /\ wrongs' = wrongs + 1
    /\ UNCHANGED <<registered, attempts, lockout, keyCache, cookie, storedSecret, moment, logins>>

\* register_failed_attempt reads the counter
ReadAttempts(b) ==
    /\ request[b].pc = "read"
    /\ Goto(b, "write", attempts + 1)
    /\ UNCHANGED <<registered, attempts, lockout, keyCache, cookie, storedSecret, moment, logins, wrongs>>

\* ... writes it
WriteAttempts(b) ==
    /\ request[b].pc = "write"
    /\ attempts' = request[b].seen
    /\ Goto(b, "lock", request[b].seen)
    /\ UNCHANGED <<registered, lockout, keyCache, cookie, storedSecret, moment, logins, wrongs>>

LockDuration(n) ==
    CASE n >= LockMore  -> LockTimeMore
      [] n >= LockAfter -> LockTime
      [] OTHER          -> 0

\* Mutant of SetLockout: the threshold is compared with the wrong bound.
SetLockoutLate(b) ==
    /\ request[b].pc = "lock"
    /\ lockout' = IF request[b].seen > LockAfter * Cardinality(Browsers)
                  THEN moment + LockTime ELSE lockout
    /\ Goto(b, "none", 0)
    /\ UNCHANGED <<registered, attempts, keyCache, cookie, storedSecret, moment, logins, wrongs>>

\* ... and sets lockout_until by the value it wrote
SetLockout(b) ==
    /\ request[b].pc = "lock"
    /\ lockout' = IF LockDuration(request[b].seen) > 0
                  THEN moment + LockDuration(request[b].seen) ELSE lockout
    /\ Goto(b, "none", 0)
    /\ UNCHANGED <<registered, attempts, keyCache, cookie, storedSecret, moment, logins, wrongs>>

\* success: the counter is reset first
ResetAttempts(b) ==
    /\ request[b].pc = "reset"
    /\ attempts' = 0
    /\ wrongs' = 0
    /\ Goto(b, "session", 0)
    /\ UNCHANGED <<registered, lockout, keyCache, cookie, storedSecret, moment, logins>>

\* cache_db_key: the expired keys are pruned
CacheDbKey(id) ==
    keyCache' = {k \in keyCache : k.expiry >= moment} \cup {[id |-> id, expiry |-> moment + KeyLifetime]}

\* ... then the lockout; login starts a session and caches the derived key
StartSession(b) ==
    /\ request[b].pc = "session" /\ logins < MaxLogins
    /\ lockout' = 0
    /\ logins' = logins + 1
    /\ cookie' = [cookie EXCEPT ![b] = logins + 1]
    /\ CacheDbKey(logins + 1)
    /\ Goto(b, "none", 0)
    /\ wrongs' = 0
    /\ UNCHANGED <<registered, attempts, storedSecret, moment>>

\* logout forgets the key
EndSession(b) ==
    /\ cookie[b] # 0 /\ request[b] = NoRequest
    /\ keyCache' = {k \in keyCache : k.id # cookie[b]}
    /\ cookie' = [cookie EXCEPT ![b] = 0]
    /\ UNCHANGED <<registered, attempts, lockout, request, storedSecret, moment, logins, wrongs>>

\* get_db_key_hex: None once the entry expired, or is gone
HasKey(b) == \E k \in keyCache : k.id = cookie[b] /\ moment < k.expiry

\* save_secret, accept_contact: update_contact_secret encrypts with the key of
\* the session, and stores the secret as it is when there is none.  The
\* session is renewed by every request, the key is not.
SaveSecret(b) ==
    /\ cookie[b] # 0 /\ request[b] = NoRequest
    /\ storedSecret' = IF HasKey(b) THEN "encrypted" ELSE "plain"
    /\ keyCache' = {k \in keyCache : k.id # cookie[b] \/ moment < k.expiry}
    /\ UNCHANGED <<registered, attempts, lockout, cookie, request, moment, logins, wrongs>>

\* browsers whose failure is being counted
Counting == {b \in Browsers : request[b].pc \in {"read", "write", "lock"}}

\* the node is restarted: the cache is empty, the cookies are still valid
\* (FLASK_SECRET_KEY is set).  A failure whose counting is cut off is not in wrongs.
RestartNode ==
    /\ keyCache # {}
    /\ keyCache' = {}
    /\ request' = [b \in Browsers |-> NoRequest]
    /\ wrongs' = IF wrongs > Cardinality(Counting) THEN wrongs - Cardinality(Counting) ELSE 0
    /\ UNCHANGED <<registered, attempts, lockout, cookie, storedSecret, moment, logins>>

KeysTick ==
    /\ moment < MaxMoments
    /\ moment' = moment + 1
    /\ UNCHANGED <<registered, attempts, lockout, keyCache, cookie, request, storedSecret, logins, wrongs>>

KeysNext ==
    \/ RegisterUser \/ RestartNode \/ KeysTick
    \/ \E b \in Browsers :
         \/ CheckLockout(b) \/ VerifyRight(b) \/ VerifyWrong(b) \/ ReadAttempts(b)
         \/ WriteAttempts(b) \/ SetLockout(b) \/ ResetAttempts(b) \/ StartSession(b)
         \/ EndSession(b) \/ SaveSecret(b)

KeysSpec == KeysInit /\ [][KeysNext]_keyVars

(***************************************************************************)
(* Properties.                                                              *)
(***************************************************************************)
\* What the count may still go back to, for every session, while it is below
\* LockAfter: d[x] sessions may take it below x.
Configurations ==
    {d \in [1..(LockAfter - 1) -> 0..Cardinality(Browsers)] :
        \A x, y \in 1..(LockAfter - 1) : x <= y => d[x] <= d[y]}

\* The wrong passwords that lock the account, whatever the interleaving: a thread
\* between its read and its write takes the count back to what it read, and can
\* do so once, so every password counted leads to a later configuration.
FailuresToLock == Cardinality(Configurations)

\* Failures of threads that overlap overwrite each other's count, but only so
\* often: after FailuresToLock wrong passwords the account has been locked.
LockedAfterFailures ==
    (wrongs >= FailuresToLock /\ Counting = {}) => lockout # 0
=============================================================================
