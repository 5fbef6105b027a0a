------------------------------ MODULE Accounts ------------------------------
(***************************************************************************)
(* Accounts, sessions and profiles of a v3 node (routers/auth.py,           *)
(* routers/profiles.py and their /login, /api/profiles counterparts in     *)
(* routers/compat.py).  A handler is cut at the awaits after which it uses   *)
(* what it read before: the SELECT of the user, and bcrypt in a worker      *)
(* thread.  A client is an address with one session cookie.                *)
(***************************************************************************)
EXTENDS Naturals, Sequences, FiniteSets

CONSTANTS
    Clients,            \* client addresses, one session each
    Names, Passwords,   \* usernames; passwords and passphrases
    Calls,              \* requests that may be in progress together
    HiddenProfiles,     \* profiles created with hidden=True
    OpenProfiles,       \* profiles created with hidden=False
    MaxFailures,        \* _LoginRateLimiter.MAX_FAILURES_SHORT
    LoginWindow,        \* _LoginRateLimiter.SHORT_WINDOW
    Lockout,            \* _LoginRateLimiter.LOCKOUT_DURATION
    MaxAuthTime,        \* bound: time
    MaxOlderTests,      \* bound: failed tests of the older route that are recorded
    NoUser

ASSUME AccountsAssumption ==
    /\ MaxFailures \in Nat \ {0} /\ LoginWindow \in Nat /\ MaxAuthTime \in Nat \ {0}
    /\ MaxOlderTests \in Nat
    /\ Lockout \in Nat /\ Lockout > LoginWindow
    /\ "default" \notin HiddenProfiles \cup OpenProfiles
    /\ HiddenProfiles \cap OpenProfiles = {}
    /\ IsFiniteSet(Calls)

VARIABLES
    users,          \* the users table: name -> password, or NoUser
    profiles,       \* the profiles table: profile -> passphrase, or NoUser;
                    \* its domain is the set of rows
    loginSession,   \* client -> [user, profile], the session cookie
    loginFailures,  \* _failures: client -> times of failed logins
    lockedUntil,    \* _locked_until: client -> time, 0 when there is no entry
    calls,          \* requests in progress
    authClock,      \* time.monotonic(), from 1
    tests,          \* history: client -> times of the tests that failed on
                    \* POST /v3/auth/login since its last success there
    olderTests      \* history: client -> times of those that failed on POST /login

accountVars == <<users, profiles, loginSession, loginFailures, lockedUntil, calls, authClock, tests, olderTests>>

Profiles == {"default"} \cup HiddenProfiles \cup OpenProfiles
NoSession == [user |-> NoUser, profile |-> "default"]
NoCall == [op |-> "idle", client |-> NoUser, name |-> NoUser, pw |-> NoUser]

AccountsTypeOK ==
    /\ users \in [Names -> Passwords \cup {NoUser}]
    /\ DOMAIN profiles \subseteq Profiles
    /\ \A p \in DOMAIN profiles : profiles[p] \in Passwords \cup {NoUser}
    /\ loginSession \in [Clients -> [user : Names \cup {NoUser}, profile : Profiles]]
    /\ \A a \in Clients : /\ loginFailures[a] \in Seq(1..MaxAuthTime) /\ tests[a] \in Seq(1..MaxAuthTime)
                          /\ olderTests[a] \in Seq(1..MaxAuthTime)
    /\ lockedUntil \in [Clients -> 0..(MaxAuthTime + Lockout)]
    /\ calls \in [Calls -> [op : {"idle", "register", "lookup", "verify"},
                            client : Clients \cup {NoUser}, name : Names \cup {NoUser},
                            pw : Passwords \cup {NoUser}]]
    /\ authClock \in 1..MaxAuthTime

AccountsInit ==
    /\ users = [n \in Names |-> NoUser]
    /\ profiles = [p \in {} |-> NoUser]
    /\ loginSession = [a \in Clients |-> NoSession]
    /\ loginFailures = [a \in Clients |-> <<>>]
    /\ lockedUntil = [a \in Clients |-> 0]
    /\ calls = [c \in Calls |-> NoCall]
    /\ authClock = 1
    /\ tests = [a \in Clients |-> <<>>]
    /\ olderTests = [a \in Clients |-> <<>>]

limiterVars == <<loginFailures, lockedUntil, tests>>

-----------------------------------------------------------------------------
(* register: the name is looked up, the hash computed in a thread, and the  *)
(* row inserted; the unique index refuses the second row of a name.         *)
RegisterCheck(c, n, p) ==
    /\ calls[c] = NoCall
    /\ users[n] = NoUser
    /\ calls' = [calls EXCEPT ![c] = [op |-> "register", client |-> NoUser, name |-> n, pw |-> p]]
    /\ UNCHANGED <<users, loginSession, authClock, limiterVars, profiles, olderTests>>

RegisterInsert(c) ==
    /\ calls[c].op = "register"
    /\ users' = [users EXCEPT ![calls[c].name] = IF @ = NoUser THEN calls[c].pw ELSE @]
    /\ calls' = [calls EXCEPT ![c] = NoCall]
    /\ UNCHANGED <<loginSession, authClock, limiterVars, profiles, olderTests>>

(* is_locked, when it answers False: an expired lock takes the failures    *)
(* with it.                                                                 *)
NotLocked(a) ==
    /\ authClock >= lockedUntil[a]
    /\ IF lockedUntil[a] = 0
       THEN UNCHANGED <<loginFailures, lockedUntil>>
       ELSE /\ lockedUntil' = [lockedUntil EXCEPT ![a] = 0]
            /\ loginFailures' = [loginFailures EXCEPT ![a] = <<>>]

(* The loop of record_failure: old entries are popped from the left of the   *)
(* deque, up to the first that is not old.                                  *)
PopOld(q) ==
    LET old == CHOOSE n \in 0..Len(q) : /\ \A i \in 1..n : authClock - q[i] > LoginWindow
                                        /\ n = Len(q) \/ authClock - q[n + 1] <= LoginWindow
    IN  SubSeq(q, old + 1, Len(q))

\* Mutant: the failures are counted before the new one is added.
RecordLoginFailureLate(a) ==
    LET recent == PopOld(loginFailures[a])
    IN  /\ loginFailures' = [loginFailures EXCEPT ![a] = Append(recent, authClock)]
        /\ lockedUntil' = IF Len(recent) >= MaxFailures
                          THEN [lockedUntil EXCEPT ![a] = authClock + Lockout]
                          ELSE lockedUntil
        /\ tests' = [tests EXCEPT ![a] = Append(@, authClock)]

(* record_failure.                                                          *)
RecordLoginFailure(a) ==
    LET recent == PopOld(Append(loginFailures[a], authClock))
    IN  /\ loginFailures' = [loginFailures EXCEPT ![a] = recent]
        /\ lockedUntil' = IF Len(recent) >= MaxFailures
                          THEN [lockedUntil EXCEPT ![a] = authClock + Lockout]
                          ELSE lockedUntil
        /\ tests' = [tests EXCEPT ![a] = Append(@, authClock)]

RecordLoginSuccess(a) ==
    /\ loginFailures' = [loginFailures EXCEPT ![a] = <<>>]
    /\ lockedUntil' = [lockedUntil EXCEPT ![a] = 0]
    /\ tests' = [tests EXCEPT ![a] = <<>>]

(* login: the lock is tested when the request arrives.                     *)
LoginCheck(c, a, n, p) ==
    /\ calls[c] = NoCall
    /\ NotLocked(a)
    /\ calls' = [calls EXCEPT ![c] = [op |-> "lookup", client |-> a, name |-> n, pw |-> p]]
    /\ UNCHANGED <<users, loginSession, authClock, tests, profiles, olderTests>>

LoginLookup(c) ==
    /\ calls[c].op = "lookup"
    /\ IF users[calls[c].name] = NoUser
       THEN RecordLoginFailure(calls[c].client) /\ calls' = [calls EXCEPT ![c] = NoCall]
       ELSE calls' = [calls EXCEPT ![c].op = "verify"] /\ UNCHANGED limiterVars
    /\ UNCHANGED <<users, loginSession, authClock, profiles, olderTests>>

(* bcrypt has answered.  Only the username of the cookie is set.            *)
LoginVerify(c) ==
    LET a == calls[c].client
        n == calls[c].name
    IN  /\ calls[c].op = "verify"
        /\ calls' = [calls EXCEPT ![c] = NoCall]
        /\ IF users[n] = calls[c].pw
           THEN RecordLoginSuccess(a) /\ loginSession' = [loginSession EXCEPT ![a].user = n]
           ELSE RecordLoginFailure(a) /\ UNCHANGED loginSession
        /\ UNCHANGED <<users, authClock, profiles, olderTests>>

(* legacy_login neither asks nor tells the limiter, whether the name is     *)
(* unknown, the password wrong or both are right; then it enters the        *)
(* default profile.                                                         *)
LegacyLogin(a, n, p) ==
    /\ users[n] = p
    /\ loginSession' = [loginSession EXCEPT ![a] = [user |-> n, profile |-> "default"]]
    /\ UNCHANGED <<users, calls, authClock, limiterVars, olderTests, profiles>>

LegacyLoginFails(a, n, p) ==
    /\ users[n] # p
    /\ Len(olderTests[a]) < MaxOlderTests
    /\ olderTests' = [olderTests EXCEPT ![a] = Append(@, authClock)]
    /\ UNCHANGED <<users, loginSession, calls, authClock, limiterVars, profiles>>

Logout(a) ==
    /\ loginSession' = [loginSession EXCEPT ![a] = NoSession]
    /\ UNCHANGED <<users, profiles, calls, authClock, limiterVars, olderTests>>

-----------------------------------------------------------------------------
(* create_profile: a passphrase is kept only for hidden profiles, and a     *)
(* hidden profile may be created without one.                               *)
CreateProfile(a, p, w) ==
    /\ loginSession[a].user # NoUser
    /\ p \in (HiddenProfiles \cup OpenProfiles) \ DOMAIN profiles
    /\ profiles' = [q \in DOMAIN profiles \cup {p} |->
                       IF q # p THEN profiles[q]
                       ELSE IF p \in HiddenProfiles THEN w ELSE NoUser]
    /\ UNCHANGED <<users, loginSession, calls, authClock, limiterVars, olderTests>>

(* unlock_profile: the first hidden profile whose hash matches.             *)
UnlockProfile(a, w) ==
    /\ loginSession[a].user # NoUser
    /\ \E p \in DOMAIN profiles \cap HiddenProfiles :
          /\ profiles[p] = w
          /\ loginSession' = [loginSession EXCEPT ![a].profile = p]
    /\ UNCHANGED <<users, profiles, calls, authClock, limiterVars, olderTests>>

SwitchProfile(a, p) ==
    /\ loginSession[a].user # NoUser
    /\ p \in DOMAIN profiles
    /\ p \notin HiddenProfiles
    /\ loginSession' = [loginSession EXCEPT ![a].profile = p]
    /\ UNCHANGED <<users, calls, authClock, limiterVars, profiles, olderTests>>

(* active_profile creates the default profile when there is no row for the  *)
(* one the session names, nor for the default.                              *)
ActiveProfile(a) ==
    /\ loginSession[a].user # NoUser
    /\ {loginSession[a].profile, "default"} \cap DOMAIN profiles = {}
    /\ profiles' = [q \in DOMAIN profiles \cup {"default"} |->
                       IF q = "default" THEN NoUser ELSE profiles[q]]
    /\ UNCHANGED <<users, loginSession, calls, authClock, limiterVars, olderTests>>

(* The older routes make the same tests and writes.                        *)
LegacyCreateProfile(a, p, w) == CreateProfile(a, p, w)
LegacyUnlockProfile(a, w) == UnlockProfile(a, w)
LegacySwitchProfile(a, p) == SwitchProfile(a, p)

(* legacy_active_profile does not look for the default profile before it   *)
(* inserts it; the primary key would refuse a second row.                   *)
LegacyActiveProfile(a) ==
    /\ loginSession[a].user # NoUser
    /\ loginSession[a].profile \notin DOMAIN profiles
    /\ "default" \notin DOMAIN profiles
    /\ profiles' = [q \in DOMAIN profiles \cup {"default"} |->
                       IF q = "default" THEN NoUser ELSE profiles[q]]
    /\ UNCHANGED <<users, loginSession, calls, authClock, limiterVars, olderTests>>

AccountsTick ==
    /\ authClock < MaxAuthTime
    /\ authClock' = authClock + 1
    /\ UNCHANGED <<users, loginSession, calls, limiterVars, profiles, olderTests>>

AccountsNext ==
    \/ \E c \in Calls, n \in Names, p \in Passwords : RegisterCheck(c, n, p)
    \/ \E c \in Calls : RegisterInsert(c)
    \/ \E c \in Calls, a \in Clients, n \in Names, p \in Passwords : LoginCheck(c, a, n, p)
    \/ \E c \in Calls : LoginLookup(c)
    \/ \E c \in Calls : LoginVerify(c)
    \/ \E a \in Clients, n \in Names, p \in Passwords : LegacyLogin(a, n, p)
    \/ \E a \in Clients, n \in Names, p \in Passwords : LegacyLoginFails(a, n, p)
    \/ \E a \in Clients : Logout(a)
    \/ \E a \in Clients, p \in Profiles, w \in Passwords \cup {NoUser} : CreateProfile(a, p, w)
    \/ \E a \in Clients, w \in Passwords : UnlockProfile(a, w)
    \/ \E a \in Clients, p \in Profiles : SwitchProfile(a, p)
    \/ \E a \in Clients : ActiveProfile(a) \/ LegacyActiveProfile(a)
    \/ \E a \in Clients, p \in Profiles, w \in Passwords \cup {NoUser} : LegacyCreateProfile(a, p, w)
    \/ \E a \in Clients, w \in Passwords : LegacyUnlockProfile(a, w)
    \/ \E a \in Clients, p \in Profiles : LegacySwitchProfile(a, p)
    \/ AccountsTick

AccountsSpec == AccountsInit /\ [][AccountsNext]_accountVars

-----------------------------------------------------------------------------
\* Those of a sequence of times that are in the window that ends at t.
InWindow(times, t) == {i \in DOMAIN times : t <= times[i] + LoginWindow /\ times[i] <= t}

(* POST /v3/auth/login is the only route that asks the limiter.  It tests   *)
(* the lock before two awaits and counts the failure after them, so         *)
(* requests that overlap pass the test together; and a lock that has        *)
(* expired takes with it the failures that were counted after its end.      *)
(* Its failures of a client in any window, until a success clears the       *)
(* record, are more than the MaxFailures of the policy but bounded:         *)
(* MaxFailures - 1 before the expired lock is cleared, as many after it,    *)
(* and those of the requests in progress.                                   *)
LockoutBound ==
    \A a \in Clients : \A t \in 1..authClock :
        Cardinality(InWindow(tests[a], t)) <= 2 * (MaxFailures - 1) + Cardinality(Calls)

(* auth.py:9-11: from one address failed attempts are capped at MaxFailures *)
(* in a window.  Those that overlap are not, nor those of POST /login.      *)
AttemptsCapped ==
    \A a \in Clients : \A t \in 1..authClock :
        Cardinality(InWindow(tests[a], t)) + Cardinality(InWindow(olderTests[a], t)) <= MaxFailures
=============================================================================
