---------------------------- MODULE DevicePairing ----------------------------
(***************************************************************************)
(* The pairing broker of transports/p2p/routers/sync.py: an HTTP server in *)
(* a thread of its own that receives a database from a paired device and   *)
(* puts it in the place of the node's, with _PairingRateLimiter in front.  *)
(*                                                                         *)
(* The broker handles one request at a time, but do_POST is many steps:    *)
(* time passes, the node works on its database and the process may die     *)
(* between any two of them.  The node's connections use a write-ahead log  *)
(* (core/db/engine.py): a commit goes to the -wal file beside the database *)
(* and into the database with a later checkpoint, while the pairing copies *)
(* and replaces the database file alone.  Databases and commits are        *)
(* numbered together; a file is the database it is of and the numbers it   *)
(* has.  Keys, PIN and salt of a pairing session are one number, a new one *)
(* for every session.                                                      *)
(***************************************************************************)
EXTENDS Integers, Sequences, FiniteSets

CONSTANTS Client,           \* client addresses
          MaxFailuresLong,  \* MAX_FAILURES_LONG (10)
          ShortWindow,      \* SHORT_WINDOW (60 s)
          LongWindow,       \* LONG_WINDOW (30 min)
          Cooldown,         \* COOLDOWN (30 min)
          MaxClock,         \* bound on the clock
          MaxSessions,      \* bound on the pairing sessions opened
          MaxDatabases,     \* bound on the databases and commits
          None

ASSUME PairingAssumption ==
  /\ MaxFailuresLong \in Nat \ {0}
  /\ ShortWindow \in Nat /\ LongWindow \in Nat /\ Cooldown \in Nat
  /\ LongWindow <= Cooldown
  /\ MaxClock \in Nat /\ MaxSessions \in Nat /\ MaxDatabases \in Nat

Absent == [of |-> 0, has |-> {}]
Torn == [of |-> -1, has |-> {}]    \* written in part
Mixed == [of |-> -2, has |-> {}]   \* pages of two databases

VARIABLES
  clock,         \* time.monotonic()
  long,          \* _long: the failures of each client in the long window
  short,         \* _short, which is kept and never consulted
  blockedUntil,  \* _blocked_until, 0 without an entry
  session,       \* pairing_private_key, active_pairing_pin, pairing_hkdf_salt; 0 is None
  sessions,      \* number of pairing sessions opened so far
  starting,      \* threads started by sync_pair that have not bound the port yet
  running,       \* active_pairing_broker is not None
  post,          \* the do_POST call the broker is in
  file,          \* the database, its -wal, its backup and the staged file
  open,          \* databases the pool's connections have open; one that was
                 \* replaced is an unlinked file
  versions,      \* number of databases and commits made so far
  posix,         \* os.replace works on a database that is open
  failures,      \* the times of all failures of a client since its last success
  late,          \* what a checkpoint wrote while a pairing was being stored; all
                 \* the file has, when the backup was being copied
  unsaved        \* what a replaced database had and the backup has not

limiter == <<long, short, blockedUntil, failures>>
broker == <<session, sessions, starting, running>>
storage == <<file, open, versions, posix, late, unsaved>>
vars == <<clock, long, short, blockedUntil, session, sessions, starting, running, post,
          file, open, versions, posix, failures, late, unsaved>>

Init ==
  /\ clock = 1
  /\ long = [c \in Client |-> <<>>]
  /\ short = [c \in Client |-> <<>>]
  /\ blockedUntil = [c \in Client |-> 0]
  /\ session = 0
  /\ sessions = 0
  /\ starting = 0
  /\ running = FALSE
  /\ post = None
  /\ file = [db |-> [of |-> 1, has |-> {1}], wal |-> Absent, bak |-> Absent,
             staged |-> Absent]
  /\ open = {1}
  /\ versions = 1
  /\ posix \in BOOLEAN
  /\ failures = [c \in Client |-> <<>>]
  /\ late = {}
  /\ unsaved = {}

Tick ==
  /\ clock < MaxClock
  /\ clock' = clock + 1
  /\ UNCHANGED <<limiter, broker, post, storage>>

-----------------------------------------------------------------------------
(* _PairingRateLimiter *)

IsBlocked(c) == clock < blockedUntil[c]

\* _prune pops the old entries at the head of a deque, up to the first that is not.
Prune(q, window) ==
  LET old == CHOOSE n \in 0..Len(q) : /\ \A i \in 1..n : clock - q[i] > window
                                      /\ n = Len(q) \/ clock - q[n + 1] <= window
  IN  SubSeq(q, old + 1, Len(q))

\* Mutant: one failure more is allowed.
TooMany_OffByOne(q) == Len(q) > MaxFailuresLong

TooMany(q) == Len(q) >= MaxFailuresLong

RecordFailure(c) ==
  LET l == Prune(Append(long[c], clock), LongWindow)
  IN  /\ long' = [long EXCEPT ![c] = l]
      /\ short' = [short EXCEPT ![c] = Prune(Append(@, clock), ShortWindow)]
      /\ blockedUntil' = IF TooMany(l) THEN [blockedUntil EXCEPT ![c] = clock + Cooldown]
                         ELSE blockedUntil
      /\ failures' = [failures EXCEPT ![c] = Append(@, clock)]

RecordSuccess(c) ==
  /\ long' = [long EXCEPT ![c] = <<>>]
  /\ short' = [short EXCEPT ![c] = <<>>]
  /\ blockedUntil' = [blockedUntil EXCEPT ![c] = 0]
  /\ failures' = [failures EXCEPT ![c] = <<>>]

-----------------------------------------------------------------------------
(* sync_pair *)

\* sync_pair.  A session whose broker runs is returned as it is and changes
\* nothing; otherwise a new session, and a thread to serve it.
SyncPair ==
  /\ ~(running /\ session # 0)
  /\ sessions < MaxSessions
  /\ sessions' = sessions + 1
  /\ session' = sessions + 1
  /\ starting' = starting + 1
  /\ UNCHANGED <<clock, limiter, running, post, storage>>

\* run_server: a thread binds the port, or fails to because another one has.
RunServer ==
  /\ starting > 0
  /\ starting' = starting - 1
  /\ running' \in {running, TRUE}
  /\ UNCHANGED <<clock, limiter, session, sessions, post, storage>>

-----------------------------------------------------------------------------
(* PairingHandler.do_POST *)

\* A request with the token of session s (0: not a token) arrives; a blocked
\* client is turned away.
BeginPost(c, s) ==
  /\ running
  /\ post = None
  /\ ~IsBlocked(c)
  /\ post' = [client |-> c, token |-> s, at |-> "token", read |-> None]
  /\ UNCHANGED <<clock, limiter, broker, storage>>

At(a) == post # None /\ post.at = a

\* The token is not that of the current session; the answer may still fail.
RejectToken ==
  /\ At("token")
  /\ post.token # session
  /\ RecordFailure(post.client)
  /\ post' = [post EXCEPT !.at = "answer"]
  /\ UNCHANGED <<clock, broker, storage>>

\* An exception in any step up to the answer: a failure is recorded, for a
\* rejected token (or a success whose answer cannot be written) one more.
FailPost ==
  /\ post # None
  /\ post.at # "installed"
  /\ RecordFailure(post.client)
  /\ post' = None
  /\ UNCHANGED <<clock, broker, storage>>

NeedsBackup(f) == f.db # Absent

\* The token is right, the payload opens and looks like a database; shutil.copyfile
\* of the backup begins.  It reads the database file and not its -wal.
BeginBackup ==
  /\ At("token")
  /\ post.token = session
  /\ versions < MaxDatabases
  /\ IF NeedsBackup(file)
     THEN /\ post' = [post EXCEPT !.at = "backup", !.read = file.db]
          /\ file' = [file EXCEPT !.bak = Torn]
     ELSE post' = [post EXCEPT !.at = "stage"] /\ UNCHANGED file
  /\ UNCHANGED <<clock, limiter, broker, open, versions, posix, late, unsaved>>

\* The copy is complete; what it is when a checkpoint wrote to the file meanwhile is
\* a matter of chance.
EndBackup ==
  /\ At("backup")
  /\ \E copy \in {post.read, file.db, Torn} :
       /\ file.db = post.read => copy = post.read
       /\ file' = [file EXCEPT !.bak = copy]
  /\ post' = [post EXCEPT !.at = "stage"]
  /\ UNCHANGED <<clock, limiter, broker, open, versions, posix, late, unsaved>>

\* Mutant: the payload is written over the database itself.
StagedFile_Direct == "db"

\* The name of the file the payload is written to.
StagedFile == "staged"

BeginStage ==
  /\ At("stage")
  /\ file' = [file EXCEPT ![StagedFile] = Torn]
  /\ post' = [post EXCEPT !.at = "staging"]
  /\ UNCHANGED <<clock, limiter, broker, open, versions, posix, late, unsaved>>

EndStage ==
  /\ At("staging")
  /\ versions < MaxDatabases
  /\ versions' = versions + 1
  /\ file' = [file EXCEPT ![StagedFile] = [of |-> versions + 1, has |-> {versions + 1}]]
  /\ post' = [post EXCEPT !.at = "replace"]
  /\ UNCHANGED <<clock, limiter, broker, open, posix, late, unsaved>>

\* The database file is about to be overwritten: what the backup has not is lost.
Overwrite == unsaved' = unsaved \cup (file.db.has \ file.bak.has)

\* os.replace.  The -wal stays, and the pool's connections keep the file that is
\* unlinked now.
Replace ==
  /\ At("replace")
  /\ file' = [file EXCEPT !.db = file.staged, !.staged = Absent]
  /\ post' = [post EXCEPT !.at = "installed"]
  /\ Overwrite
  /\ UNCHANGED <<clock, limiter, broker, open, versions, posix, late>>

\* os.replace raises: the staged file is copied over the database instead.
BeginCopy ==
  /\ ~posix
  /\ At("replace")
  /\ file' = [file EXCEPT !.db = Torn]
  /\ post' = [post EXCEPT !.at = "copying"]
  /\ open' = open \ {file.db.of}
  /\ Overwrite
  /\ UNCHANGED <<clock, limiter, broker, versions, posix, late>>

\* The copy is complete; the staged file is removed, if that works.
EndCopy ==
  /\ At("copying")
  /\ \E left \in {file.staged, Absent} :
       file' = [file EXCEPT !.db = file.staged, !.staged = left]
  /\ post' = [post EXCEPT !.at = "installed"]
  /\ UNCHANGED <<clock, limiter, broker, open, versions, posix, late, unsaved>>

\* The database is in place.
Succeed ==
  /\ At("installed")
  /\ RecordSuccess(post.client)
  /\ post' = [post EXCEPT !.at = "answer"]
  /\ UNCHANGED <<clock, broker, storage>>

EndPost ==
  /\ At("answer")
  /\ post' = None
  /\ UNCHANGED <<clock, limiter, broker, storage>>

-----------------------------------------------------------------------------
(* The node's connections: WAL mode and checkpoints (SQLite, external) *)

\* What a connection finds that opens the database d with the log w beside it: the
\* pages of the log go before those of the file, whichever database they are of.
Seen(d, w) == IF w = Absent \/ w.of = d.of THEN d ELSE Mixed

\* The pool opens a connection, the first one also recovers the log.
OpenConnection ==
  /\ file.db.of > 0 /\ file.db.of \notin open
  /\ LET seen == Seen(file.db, file.wal) IN
       /\ file' = [file EXCEPT !.db = seen]
       /\ open' = IF seen = Mixed THEN open ELSE open \cup {seen.of}
  /\ UNCHANGED <<clock, limiter, broker, post, versions, posix, late, unsaved>>

\* A connection of database d commits, into the log that all connections share.
NodeCommit(d) ==
  LET before == IF file.wal.of = d THEN file.wal.has ELSE {}
      log == [of |-> d, has |-> before \cup {versions + 1}]
  IN  /\ versions < MaxDatabases
      /\ versions' = versions + 1
      /\ file' = [file EXCEPT !.wal = log,
                              !.db = IF @.of \in open THEN Seen(@, log) ELSE @]
      /\ open' = IF file.db.of \in open \ {d} THEN {d} ELSE open
      /\ UNCHANGED <<clock, limiter, broker, post, posix, late, unsaved>>

\* A checkpoint writes the log to the file its connection has open, which may be an
\* unlinked one, and starts the log anew unless a reader still needs it.
Checkpoint ==
  /\ file.wal.of \in open
  /\ LET db == IF file.db.of = file.wal.of
               THEN [of |-> file.db.of, has |-> file.db.has \cup file.wal.has] ELSE file.db
     IN  /\ \E log \in {file.wal, Absent} : file' = [file EXCEPT !.db = db, !.wal = log]
         /\ late' = IF post = None \/ db = file.db THEN late
                    ELSE late \cup IF post.at = "backup" THEN db.has ELSE file.wal.has
  /\ UNCHANGED <<clock, limiter, broker, open, post, versions, posix, unsaved>>

\* The process dies and is started again: only the files are left, and of those not
\* the unlinked ones.
Restart ==
  /\ session # 0
  /\ session' = 0
  /\ long' = [c \in Client |-> <<>>]
  /\ short' = [c \in Client |-> <<>>]
  /\ blockedUntil' = [c \in Client |-> 0]
  /\ failures' = [c \in Client |-> <<>>]
  /\ starting' = 0
  /\ running' = FALSE
  /\ post' = None
  /\ open' = {}
  /\ UNCHANGED <<clock, sessions, file, versions, posix, late, unsaved>>

Next ==
  \/ Tick \/ SyncPair \/ RunServer
  \/ \E c \in Client, s \in 0..sessions : BeginPost(c, s)
  \/ RejectToken \/ FailPost
  \/ BeginBackup \/ EndBackup \/ BeginStage \/ EndStage
  \/ Replace \/ BeginCopy \/ EndCopy
  \/ Succeed \/ EndPost
  \/ OpenConnection \/ (\E d \in open : NodeCommit(d)) \/ Checkpoint \/ Restart

Spec == Init /\ [][Next]_vars

-----------------------------------------------------------------------------
(* Properties *)

Contents == [of : Int, has : SUBSET Nat]
Files == [db : Contents, wal : Contents, bak : Contents, staged : Contents]
Post == [client : Client, token : Nat, read : Contents \cup {None},
         at : {"token", "backup", "stage", "staging", "replace", "copying",
               "installed", "answer"}]

\* Every variable has its type.
TypeOK ==
  /\ clock \in Nat
  /\ long \in [Client -> Seq(Nat)]
  /\ short \in [Client -> Seq(Nat)]
  /\ blockedUntil \in [Client -> Nat]
  /\ session \in 0..sessions
  /\ sessions \in Nat
  /\ starting \in Nat
  /\ running \in BOOLEAN
  /\ post \in Post \cup {None}
  /\ file \in Files
  /\ open \subseteq Nat \ {0}
  /\ versions \in Nat
  /\ posix \in BOOLEAN
  /\ failures \in [Client -> Seq(Nat)]
  /\ late \subseteq Nat
  /\ unsaved \subseteq Nat

\* The failures of a client within the last w time units.
Recent(c, w) == {i \in DOMAIN failures[c] : clock - failures[c][i] < w}

\* "After 10 failed attempts in 30 minutes, block the IP for 30 minutes": as long
\* as the window holds that many failures the client is blocked, whatever was
\* pruned, recorded twice or forgotten on success.
BlockedAfterFailures ==
  \A c \in Client : Cardinality(Recent(c, LongWindow)) >= MaxFailuresLong => IsBlocked(c)

\* On POSIX no step of a pairing leaves a half-written database file, also when it is
\* the last one before a crash, and what the replaced file had is in the backup, but
\* for what a checkpoint wrote to the file while the pairing was being stored.  (Says
\* nothing of commits that are in the -wal only, see AtomicReplace.)
DatabaseKept == posix => file.db # Torn /\ unsaved \subseteq late

\* "Atomic replace on POSIX" and "sync_pairing_db_successfully_restored" (sync.py:316,
\* 334): the node works on its own database or on the received one.  Violated: the
\* -wal of the old database stays beside the new file, and who opens the two finds
\* pages of both.
AtomicReplace == posix => file.db # Mixed
=============================================================================
