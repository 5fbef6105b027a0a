------------------------------ MODULE LegacyPool ------------------------------
(***************************************************************************)
(* The SQLite connection pool of the legacy database module (database.py:    *)
(* BoundedSQLitePool, PooledConnection, get_connection, close_pool) and how  *)
(* the functions of that module use it: take a connection, run statements,   *)
(* close() it.  Most have no try/finally, so an exception keeps the          *)
(* connection; update_message_text takes a second connection, in             *)
(* add_message_edit, while it holds the first.  get_connection reads the     *)
(* global _pool three times, and close_pool takes no lock: a connection of   *)
(* one pool may be given to the next.  (DB_FILE changes in tests only.)      *)
(***************************************************************************)
EXTENDS Integers, Sequences, SequencesExt, FiniteSets

CONSTANTS
    Threads,            \* request threads
    MaxConnections,     \* max_connections
    MaxCloses,          \* bound: close_pool calls, one at a time
    MaxPoolFaults       \* bound: statements that fail

ASSUME LegacyPoolAssumption ==
    /\ MaxConnections \in Nat \ {0} /\ MaxCloses \in Nat /\ MaxPoolFaults \in Nat
    /\ IsFiniteSet(Threads)

\* pools in the order they are made
Pools == 1..(MaxCloses + 1)

VARIABLES
    current,        \* _pool, 0 for None
    poolNo,         \* number of pools made
    closing,        \* close_pool has closed the connections and not yet
                    \* forgotten the pool
    ownIdle,        \* pool -> connections in its queue that it made
    foreignIdle,    \* pool -> connections in its queue that it did not make,
                    \* or that are closed
    opened,         \* pool -> its counter, created
    thread,         \* thread -> [pc, kind, pool, held]: pool is the one that it
                    \* read; a connection is held with the pool that made it
                    \* (0 when it is closed) and the pool it is put into
    lost,           \* connections of the newest pool nobody will put back
    refused,        \* history: connections of others that the full queue of the
                    \* newest pool refused
    poolFaults

poolVars == <<current, poolNo, closing, ownIdle, foreignIdle, opened, thread, lost, refused, poolFaults>>

\* plain: one connection, no finally; safe: one, with finally; edit: two
Kinds == {"plain", "safe", "edit"}
Resting == [pc |-> "rest", kind |-> "plain", pool |-> 0, held |-> <<>>]

\* a connection between get and PooledConnection(conn, _pool)
Unwrapped == -1

\* connections of the newest pool held by threads
Held == {h \in Threads \X (1..2) :
            h[2] <= Len(thread[h[1]].held) /\ thread[h[1]].held[h[2]].home = poolNo}

PoolTypeOK ==
    /\ ownIdle \in [Pools -> Nat] /\ foreignIdle \in [Pools -> Nat] /\ opened \in [Pools -> Int]
    /\ poolNo \in {0} \cup Pools /\ current \in {0, poolNo} /\ closing \in BOOLEAN
    /\ lost \in Nat /\ refused \in Nat /\ poolFaults \in 0..MaxPoolFaults
    /\ \A t \in Threads : /\ thread[t].pc \in {"rest", "read", "take", "wait", "wrap", "run", "finish"}
                          /\ thread[t].kind \in Kinds /\ thread[t].pool \in {0} \cup Pools
                          /\ Len(thread[t].held) \in 0..2

PoolInit ==
    /\ current = 0 /\ poolNo = 0 /\ closing = FALSE
    /\ ownIdle = [p \in Pools |-> 0] /\ foreignIdle = [p \in Pools |-> 0]
    /\ opened = [p \in Pools |-> 0]
    /\ lost = 0 /\ refused = 0 /\ poolFaults = 0
    /\ thread = [t \in Threads |-> Resting]

\* how many of the connections held by t are of the newest pool
OfPool(t) == Cardinality({i \in DOMAIN thread[t].held : thread[t].held[i].home = poolNo})

\* t gives up: what it holds is never put back
GiveUp(t) ==
    /\ thread' = [thread EXCEPT ![t] = Resting]
    /\ lost' = lost + OfPool(t)
    /\ UNCHANGED <<ownIdle, foreignIdle, opened, refused>>

\* PooledConnection.close, put: into the queue, unless it is full: then the
\* connection is closed and the counter of that pool goes down, whoever made it.
\* With the pool None close() raises.
Put(c) ==
    LET full == ownIdle[c.into] + foreignIdle[c.into] >= MaxConnections IN
    \/ /\ c.into = 0
       /\ lost' = IF c.home = poolNo THEN lost + 1 ELSE lost
       /\ UNCHANGED <<ownIdle, foreignIdle, opened, refused>>
    \/ /\ c.into # 0 /\ ~full
       /\ IF c.home = c.into
          THEN ownIdle' = [ownIdle EXCEPT ![c.into] = @ + 1] /\ UNCHANGED foreignIdle
          ELSE foreignIdle' = [foreignIdle EXCEPT ![c.into] = @ + 1] /\ UNCHANGED ownIdle
       /\ UNCHANGED <<opened, refused, lost>>
    \/ /\ c.into # 0 /\ full
       /\ opened' = [opened EXCEPT ![c.into] = @ - 1]
       /\ refused' = IF c.home # c.into /\ c.into = poolNo THEN refused + 1 ELSE refused
       /\ UNCHANGED <<ownIdle, foreignIdle, lost>>

(***************************************************************************)
(* get_connection.                                                          *)
(***************************************************************************)
\* under _pool_lock: a pool is made when there is none
CheckPool ==
    IF current # 0 THEN UNCHANGED <<current, poolNo, lost, refused>>
    ELSE /\ poolNo' = poolNo + 1 /\ current' = poolNo + 1
         /\ lost' = 0 /\ refused' = 0

Begin(t, kind) ==
    /\ thread[t].pc = "rest"
    /\ CheckPool
    /\ thread' = [thread EXCEPT ![t] = [Resting EXCEPT !.pc = "read", !.kind = kind]]
    /\ UNCHANGED <<closing, ownIdle, foreignIdle, opened, poolFaults>>

\* _pool.get(): the global is read again, and may be None
ReadPool(t) ==
    /\ thread[t].pc = "read"
    /\ IF current = 0 THEN GiveUp(t)
       ELSE /\ thread' = [thread EXCEPT ![t].pc = "take", ![t].pool = current]
            /\ UNCHANGED <<ownIdle, foreignIdle, opened, lost, refused>>
    /\ UNCHANGED <<current, poolNo, closing, poolFaults>>

\* t has a connection that pool p made (0: closed), not yet wrapped
Taken(t, p) ==
    thread' = [thread EXCEPT ![t].pc = "wrap", ![t].held = Append(@, [home |-> p, into |-> Unwrapped])]

\* an idle connection of pool p: its own, or one that an earlier pool made
TakeIdle(t, p) ==
    \/ /\ ownIdle[p] > 0
       /\ ownIdle' = [ownIdle EXCEPT ![p] = @ - 1]
       /\ Taken(t, p) /\ UNCHANGED foreignIdle
    \/ /\ foreignIdle[p] > 0
       /\ foreignIdle' = [foreignIdle EXCEPT ![p] = @ - 1]
       /\ \E home \in 0..(p - 1) : Taken(t, home)
       /\ UNCHANGED ownIdle

\* Mutant of GetConnection: a new connection is not counted.
GetUncounted(t) ==
    LET p == thread[t].pool IN
    /\ thread[t].pc = "take"
    /\ \/ TakeIdle(t, p)
       \/ opened[p] < MaxConnections /\ Taken(t, p) /\ UNCHANGED <<ownIdle, foreignIdle>>
    /\ UNCHANGED <<current, poolNo, closing, opened, lost, refused, poolFaults>>

\* BoundedSQLitePool.get: an idle connection, else a new one, else wait.  The
\* queue may fill between get_nowait and the lock.
GetConnection(t) ==
    LET p == thread[t].pool IN
    /\ thread[t].pc = "take"
    /\ \/ TakeIdle(t, p) /\ UNCHANGED opened
       \/ /\ opened[p] < MaxConnections
          /\ opened' = [opened EXCEPT ![p] = @ + 1]
          /\ Taken(t, p) /\ UNCHANGED <<ownIdle, foreignIdle>>
       \/ /\ opened[p] >= MaxConnections
          /\ thread' = [thread EXCEPT ![t].pc = "wait"]
          /\ UNCHANGED <<ownIdle, foreignIdle, opened>>
    /\ UNCHANGED <<current, poolNo, closing, lost, refused, poolFaults>>

\* Mutant of GetWaiting: two waiting threads wake up for one connection.
GetWaitingTwice(t) ==
    /\ thread[t].pc = "wait"
    /\ ownIdle' = [ownIdle EXCEPT ![thread[t].pool] = @ - 1]
    /\ Taken(t, thread[t].pool)
    /\ UNCHANGED <<current, poolNo, closing, foreignIdle, opened, lost, refused, poolFaults>>

\* queue.get(timeout=10) gets a connection that was put back, if only into the
\* queue of a pool that is forgotten by now
GetWaiting(t) ==
    /\ thread[t].pc = "wait"
    /\ TakeIdle(t, thread[t].pool)
    /\ UNCHANGED <<current, poolNo, closing, opened, lost, refused, poolFaults>>

\* ... or raises Empty.  add_message_edit waits while update_message_text
\* holds a connection, which is then never closed.
TimeOut(t) ==
    /\ thread[t].pc = "wait"
    /\ GiveUp(t)
    /\ UNCHANGED <<current, poolNo, closing, poolFaults>>

\* PooledConnection(conn, _pool): whatever pool is current by then, or None
WrapConnection(t) ==
    /\ thread[t].pc = "wrap"
    /\ thread' = [thread EXCEPT ![t].pc = "run", ![t].held[Len(thread[t].held)].into = current]
    /\ UNCHANGED <<current, poolNo, closing, ownIdle, foreignIdle, opened, lost, refused, poolFaults>>

(***************************************************************************)
(* The functions that use connections.                                      *)
(***************************************************************************)
\* the statements succeed: close().  update_message_text goes on to
\* add_message_edit, whose close() returns the second connection.
Run(t) ==
    LET held == thread[t].held IN
    /\ thread[t].pc = "run"
    /\ \A i \in DOMAIN held : held[i].home # 0
    /\ \/ /\ thread[t].kind = "edit" /\ Len(held) = 1
          /\ thread' = [thread EXCEPT ![t].pc = "read"]
          /\ CheckPool
          /\ UNCHANGED <<ownIdle, foreignIdle, opened>>
       \/ /\ thread[t].kind = "edit" /\ Len(held) = 2 /\ held[2].into # 0
          /\ thread' = [thread EXCEPT ![t].pc = "finish", ![t].held = Front(@)]
          /\ Put(held[2]) /\ UNCHANGED <<current, poolNo>>
       \/ /\ thread[t].kind = "edit" /\ Len(held) = 2 /\ held[2].into = 0
          /\ GiveUp(t) /\ UNCHANGED <<current, poolNo>>
       \/ /\ thread[t].kind # "edit"
          /\ thread' = [thread EXCEPT ![t] = Resting]
          /\ Put(held[1]) /\ UNCHANGED <<current, poolNo>>
    /\ UNCHANGED <<closing, poolFaults>>

\* the UPDATE of update_message_text, and close()
FinishEdit(t) ==
    /\ thread[t].pc = "finish" /\ thread[t].held[1].home # 0
    /\ thread' = [thread EXCEPT ![t] = Resting]
    /\ Put(thread[t].held[1])
    /\ UNCHANGED <<current, poolNo, closing, poolFaults>>

\* a statement raises (always on a connection that close_pool closed): only
\* the functions with try/finally put the connection back
Fail(t) ==
    /\ thread[t].pc \in {"run", "finish"}
    /\ IF \E i \in DOMAIN thread[t].held : thread[t].held[i].home = 0
       THEN poolFaults' = poolFaults
       ELSE poolFaults < MaxPoolFaults /\ poolFaults' = poolFaults + 1
    /\ IF thread[t].kind = "safe"
       THEN Put(thread[t].held[1]) /\ thread' = [thread EXCEPT ![t] = Resting]
       ELSE GiveUp(t)
    /\ UNCHANGED <<current, poolNo, closing>>

(***************************************************************************)
(* close_pool.                                                              *)
(***************************************************************************)
\* every connection of the pool is closed, in use or not, and its queue drained
ClosePool ==
    /\ current # 0 /\ ~closing /\ poolNo <= MaxCloses
    /\ closing' = TRUE
    /\ ownIdle' = [ownIdle EXCEPT ![current] = 0]
    /\ foreignIdle' = [foreignIdle EXCEPT ![current] = 0]
    /\ thread' = [t \in Threads |-> [thread[t] EXCEPT !.held =
                    [i \in DOMAIN @ |-> IF @[i].home = current THEN [@[i] EXCEPT !.home = 0] ELSE @[i]]]]
    /\ UNCHANGED <<current, poolNo, opened, lost, refused, poolFaults>>

\* ... and the pool forgotten; the next get_connection makes a new one
ForgetPool ==
    /\ closing
    /\ closing' = FALSE /\ current' = 0
    /\ UNCHANGED <<poolNo, ownIdle, foreignIdle, opened, thread, lost, refused, poolFaults>>

PoolNext ==
    \/ \E t \in Threads : \/ \E k \in Kinds : Begin(t, k)
                          \/ ReadPool(t) \/ GetConnection(t) \/ GetWaiting(t) \/ TimeOut(t)
                          \/ WrapConnection(t) \/ Run(t) \/ FinishEdit(t) \/ Fail(t)
    \/ ClosePool \/ ForgetPool

PoolSpec == PoolInit /\ [][PoolNext]_poolVars

\* No pool ever counts more connections than its limit.  Whatever is closed, leaked
\* or put back late, the counter of the pool in use is the number of connections
\* that it made and that are idle, held or leaked: none is counted twice or
\* forgotten.  Connections that overlapping calls bring from a closed pool are not
\* counted, and it undercounts by one for each of them its full queue refuses.
ConnectionsAccounted ==
    /\ \A p \in Pools : opened[p] <= MaxConnections
    /\ (current # 0 /\ ~closing) =>
         opened[current] + refused = ownIdle[current] + Cardinality(Held) + lost
=============================================================================
