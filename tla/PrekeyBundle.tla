---------------------------- MODULE PrekeyBundle -----------------------------
(***************************************************************************)
(* One-time pre-keys: the PreKeyBundle row of the database with the        *)
(* handlers of transports/p2p/routers/keys.py, and the in-memory pool of   *)
(* core/prekey_pool.py that refills it.                                    *)
(*                                                                         *)
(* fetch_bundle is cut at its awaits (the SELECT, the two commits); what   *)
(* it does between them is one step, except that a worker thread of the    *)
(* pool may extend the pool between two takes.  A commit writes the list   *)
(* the request holds, whatever the row has become.  Key pairs are numbered *)
(* in the order they are generated.                                        *)
(***************************************************************************)
EXTENDS Integers, Sequences, FiniteSets

CONSTANTS Onion,         \* onion addresses that publish bundles
          Request,       \* fetch_bundle calls that may be running
          Worker,        \* threads that may run fill_pool
          Low,           \* fetch_bundle tops the row up to this many (20)
          LowWatermark,  \* ANONYMUS_PREKEY_POOL_LOW_WATERMARK (20)
          RefillBatch,   \* ANONYMUS_PREKEY_POOL_REFILL_BATCH (40)
          MaxPublish,    \* bound on the keys a client publishes at once
          MaxKeys,       \* bound on the key pairs ever generated
          MaxHanded,     \* bound on the bundles handed out
          Nothing

ASSUME PrekeyAssumption ==
  /\ Low \in Nat /\ LowWatermark \in Nat /\ RefillBatch \in Nat
  /\ MaxPublish \in Nat /\ MaxKeys \in Nat /\ MaxHanded \in Nat
  /\ Nothing \notin Nat

VARIABLES
  row,      \* one_time_prekeys of the PreKeyBundle row, Nothing without a row
  pool,     \* _PREKEY_POOL
  refill,   \* the fill_pool call each worker is in; _REFILL_TASK is done when none is
  req,      \* the fetch_bundle call each request is in
  keys,     \* number of key pairs generated so far
  handed    \* the one-time keys returned by fetch_bundle, in order

prekeyVars == <<row, pool, refill, req, keys, handed>>

PrekeyInit ==
  /\ row = [o \in Onion |-> Nothing]
  /\ pool = [o \in Onion |-> <<>>]
  /\ refill = [w \in Worker |-> Nothing]
  /\ req = [r \in Request |-> Nothing]
  /\ keys = 0
  /\ handed = <<>>

Front(s) == SubSeq(s, 1, Len(s) - 1)
Fresh(n) == [i \in 1..n |-> keys + i]

-----------------------------------------------------------------------------
(* prekey_pool.py *)

\* Mutant: a running refill is not looked at.
InFlight_Ignored(o) == FALSE

\* "_REFILL_TASK is not Nothing and not done()": one variable for all onions.
InFlight(o) == \E w \in Worker : refill[w] # Nothing

\* schedule_refill_if_low, called when the pool of o holds size keys
ScheduleRefillIfLow(o, size) ==
  IF size >= LowWatermark \/ InFlight(o) THEN UNCHANGED refill
  ELSE \E w \in Worker :
         /\ refill[w] = Nothing
         /\ refill' = [refill EXCEPT ![w] = [at |-> "count", onion |-> o, deficit |-> 0]]

\* Mutant: the deficit is negated.
Deficit_Negated(size) == size - RefillBatch

Deficit(size) == IF size >= RefillBatch THEN 0 ELSE RefillBatch - size

\* fill_pool, first critical section
CountDeficit(w) ==
  /\ refill[w] # Nothing
  /\ refill[w].at = "count"
  /\ refill' = [refill EXCEPT ![w].at = "extend",
                              ![w].deficit = Deficit(Len(pool[refill[w].onion]))]
  /\ UNCHANGED <<row, pool, req, keys, handed>>

\* fill_pool: generation, which may fail part way, and the second critical section
ExtendPool(w) ==
  /\ refill[w] # Nothing
  /\ refill[w].at = "extend"
  /\ \E n \in 0..refill[w].deficit :
       /\ keys + n <= MaxKeys
       /\ keys' = keys + n
       /\ pool' = [pool EXCEPT ![refill[w].onion] = @ \o Fresh(n)]
  /\ refill' = [refill EXCEPT ![w] = Nothing]
  /\ UNCHANGED <<row, req, handed>>

-----------------------------------------------------------------------------
(* routers/keys.py *)

\* publish_bundle, by the client that generated the n keys
Publish(o, n) ==
  /\ keys + n <= MaxKeys
  /\ keys' = keys + n
  /\ row' = [row EXCEPT ![o] = Fresh(n)]
  /\ UNCHANGED <<pool, refill, req, handed>>

\* What opk_list.pop(0) leaves.
Rest(s) == IF s = <<>> THEN <<>> ELSE Tail(s)

\* fetch_bundle, the SELECT and the pop
FetchRead(r, o) ==
  /\ req[r] = Nothing
  /\ row[o] # Nothing
  /\ Len(handed) < MaxHanded
  /\ req' = [req EXCEPT ![r] =
               [at |-> "commit", onion |-> o, list |-> Rest(row[o]), added |-> FALSE,
                opk |-> IF row[o] = <<>> THEN Nothing ELSE Head(row[o])]]
  /\ UNCHANGED <<row, pool, refill, keys, handed>>

\* The response.
Respond(r) ==
  /\ handed' = IF req[r].opk = Nothing THEN handed ELSE Append(handed, req[r].opk)
  /\ req' = [req EXCEPT ![r] = Nothing]

\* The end of fetch_bundle: a last look at the pool, then the response.
Finish(r) ==
  /\ ScheduleRefillIfLow(req[r].onion, Len(pool[req[r].onion]))
  /\ Respond(r)

\* The first commit.  A list that did not change is not written.
FetchCommit(r) ==
  /\ req[r] # Nothing
  /\ req[r].at = "commit"
  /\ row' = IF req[r].opk = Nothing THEN row ELSE [row EXCEPT ![req[r].onion] = req[r].list]
  /\ IF Len(req[r].list) < Low
     THEN req' = [req EXCEPT ![r].at = "take"] /\ UNCHANGED handed
     ELSE Respond(r)
  /\ UNCHANGED <<pool, refill, keys>>

\* The first commit fails: the request ends with an error.
FetchFails(r) ==
  /\ req[r] # Nothing
  /\ req[r].at = "commit"
  /\ req' = [req EXCEPT ![r] = Nothing]
  /\ UNCHANGED <<row, pool, refill, keys, handed>>

\* Mutant: the key is read and left in the pool.
AfterTake_Kept(s) == s

\* pool.pop()
AfterTake(s) == Front(s)

\* One take_one_time_prekey of the refill loop.
FetchTake(r) ==
  LET o == req[r].onion
      s == pool[o]
  IN  /\ req[r] # Nothing
      /\ req[r].at = "take"
      /\ Len(req[r].list) < Low
      /\ s # <<>>
      /\ pool' = [pool EXCEPT ![o] = AfterTake(s)]
      /\ req' = [req EXCEPT ![r].list = Append(@, s[Len(s)]), ![r].added = TRUE]
      /\ ScheduleRefillIfLow(o, Len(s) - 1)
      /\ UNCHANGED <<row, keys, handed>>

LoopDone(r) == Len(req[r].list) >= Low \/ pool[req[r].onion] = <<>>

\* The loop ends with nothing added.
FetchNoneAdded(r) ==
  /\ req[r] # Nothing
  /\ req[r].at = "take"
  /\ LoopDone(r)
  /\ ~req[r].added
  /\ Finish(r)
  /\ UNCHANGED <<row, pool, keys>>

\* The loop ends and the second commit writes the list.
FetchCommitAdded(r) ==
  /\ req[r] # Nothing
  /\ req[r].at = "take"
  /\ LoopDone(r)
  /\ req[r].added
  /\ req' = [req EXCEPT ![r].at = "commitAdded"]
  /\ UNCHANGED <<row, pool, refill, keys, handed>>

FetchAddedDone(r) ==
  /\ req[r] # Nothing
  /\ req[r].at = "commitAdded"
  /\ row' = [row EXCEPT ![req[r].onion] = req[r].list]
  /\ Finish(r)
  /\ UNCHANGED <<pool, keys>>

\* The second commit fails: a warning, and the response all the same.
FetchAddedFails(r) ==
  /\ req[r] # Nothing
  /\ req[r].at = "commitAdded"
  /\ Respond(r)
  /\ UNCHANGED <<row, pool, refill, keys>>

PrekeyNext ==
  \/ \E w \in Worker : CountDeficit(w) \/ ExtendPool(w)
  \/ \E o \in Onion, n \in 1..MaxPublish : Publish(o, n)
  \/ \E r \in Request :
       \/ \E o \in Onion : FetchRead(r, o)
       \/ FetchCommit(r) \/ FetchFails(r)
       \/ FetchTake(r) \/ FetchNoneAdded(r) \/ FetchCommitAdded(r)
       \/ FetchAddedDone(r) \/ FetchAddedFails(r)

PrekeySpec == PrekeyInit /\ [][PrekeyNext]_prekeyVars

-----------------------------------------------------------------------------
(* Properties *)

Key == Nat
Refill == [at : {"count", "extend"}, onion : Onion, deficit : Nat]
Fetch == [at : {"commit", "take", "commitAdded"}, onion : Onion, list : Seq(Key),
          added : BOOLEAN, opk : Key \cup {Nothing}]

\* Every variable has its type.
PrekeyTypeOK ==
  /\ row \in [Onion -> Seq(Key) \cup {Nothing}]
  /\ pool \in [Onion -> Seq(Key)]
  /\ refill \in [Worker -> Refill \cup {Nothing}]
  /\ req \in [Request -> Fetch \cup {Nothing}]
  /\ keys \in Nat
  /\ handed \in Seq(Key)

\* fill_pool fills "up to target_size": the pool never holds more, although the
\* lock is released between the count and the extension, because one refill runs
\* at a time.
PoolBounded == \A o \in Onion : Len(pool[o]) <= RefillBatch

\* One refill at a time, and the pool it was counted on has room for what it will
\* add: what PoolBounded rests on.
OneRefill ==
  /\ \A v, w \in Worker : refill[v] # Nothing /\ refill[w] # Nothing => v = w
  /\ \A w \in Worker : refill[w] # Nothing /\ refill[w].at = "extend" =>
       Len(pool[refill[w].onion]) + refill[w].deficit <= RefillBatch

Elements(s) == {s[i] : i \in DOMAIN s}

\* take_one_time_prekey "atomically pops one pre-key": a key that is still in the
\* pool has not been offered to a peer, and no key is in the pool twice.
PoolKeysUnoffered ==
  \A o \in Onion :
    /\ Cardinality(Elements(pool[o])) = Len(pool[o])
    /\ Elements(pool[o]) \cap Elements(handed) = {}
    /\ \A p \in Onion : row[p] # Nothing => Elements(pool[o]) \cap Elements(row[p]) = {}

\* fetch_bundle "consumes one OPK atomically": no one-time key is handed out twice.
OPKOnce == \A i, j \in DOMAIN handed : handed[i] = handed[j] => i = j
=============================================================================
