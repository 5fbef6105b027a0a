---------------------------- MODULE EventBatcher ----------------------------
(***************************************************************************)
(* The batching of Socket.IO events for the local clients of a v3 node     *)
(* (transports/p2p/socket_v3.py, class _OutgoingBatcher).  Events are       *)
(* numbered in the order of their enqueue() calls.  The critical sections   *)
(* under _lock contain no await, so each is one step.  At least one client  *)
(* is connected: sio.emit() then suspends its task until the packets are    *)
(* handed on.                                                               *)
(***************************************************************************)
EXTENDS Naturals, Sequences, SequencesExt

CONSTANTS
    MaxBatchSize,       \* _OutgoingBatcher.MAX_BATCH_SIZE
    MaxEvents           \* bound: events of a behaviour

ASSUME BatcherAssumption == MaxBatchSize \in Nat \ {0} /\ MaxEvents \in Nat

VARIABLES
    queue,      \* _queue
    timer,      \* _flush_task is a task that sleeps in _flush_after_latency
    flushes,    \* _flush tasks of full batches that have not begun
    emitting,   \* batches being emitted: a sequence of sequences of events
    enqueued,   \* number of enqueue() calls so far
    emitted,    \* events handed to sio.emit, in that order
    failed,     \* events whose emit raised; logged and passed over
    cancelled   \* events of a batch whose task was cancelled before their turn

batcherVars == <<queue, timer, flushes, emitting, enqueued, emitted, failed, cancelled>>

BatcherTypeOK ==
    /\ queue \in Seq(1..MaxEvents)
    /\ timer \in BOOLEAN
    /\ flushes \in Nat
    /\ emitting \in Seq(Seq(1..MaxEvents))
    /\ enqueued \in 0..MaxEvents
    /\ emitted \in Seq(1..MaxEvents)
    /\ failed \subseteq 1..MaxEvents
    /\ cancelled \subseteq 1..MaxEvents

BatcherInit ==
    /\ queue = <<>>
    /\ timer = FALSE
    /\ flushes = 0
    /\ emitting = <<>>
    /\ enqueued = 0
    /\ emitted = <<>>
    /\ failed = {}
    /\ cancelled = {}

-----------------------------------------------------------------------------
\* Mutant: a timer is started for the first event only.
EnqueueTimerOnlyOnce ==
    /\ enqueued < MaxEvents
    /\ enqueued' = enqueued + 1
    /\ queue' = Append(queue, enqueued + 1)
    /\ flushes' = IF Len(queue') = MaxBatchSize THEN flushes + 1 ELSE flushes
    /\ timer' = (timer \/ enqueued = 0)
    /\ UNCHANGED <<emitting, emitted, failed, cancelled>>

(* emit_socket -> enqueue: a full batch spawns a flush; the first event of  *)
(* a partial one starts the timer.                                          *)
Enqueue ==
    /\ enqueued < MaxEvents
    /\ enqueued' = enqueued + 1
    /\ queue' = Append(queue, enqueued + 1)
    /\ LET full == Len(queue') >= MaxBatchSize
       IN  /\ flushes' = IF full THEN flushes + 1 ELSE flushes
           /\ timer' = (timer \/ ~full)
    /\ UNCHANGED <<emitting, emitted, failed, cancelled>>

(* The critical section of _flush for a task other than the timer: the      *)
(* batch is taken, and a sleeping timer is cancelled and forgotten.         *)
TakeBatch ==
    IF queue = <<>>
    THEN UNCHANGED <<queue, timer, emitting>>
    ELSE /\ emitting' = Append(emitting, queue)
         /\ queue' = <<>>
         /\ timer' = FALSE

FlushFull ==
    /\ flushes > 0
    /\ flushes' = flushes - 1
    /\ TakeBatch
    /\ UNCHANGED <<enqueued, emitted, failed, cancelled>>

(* flush_socket -> flush_now -> _flush                                      *)
FlushNow ==
    /\ queue # <<>>
    /\ TakeBatch
    /\ UNCHANGED <<flushes, enqueued, emitted, failed, cancelled>>

(* _flush_after_latency wakes up and calls _flush, which cancels            *)
(* _flush_task: the very task it runs in.  The cancellation is delivered    *)
(* where an emit first suspends.  That emit has handed its packets to tasks *)
(* of their own by then and its event is out; the k events before it raised *)
(* before they suspended.  The rest of the batch is never reached, since    *)
(* CancelledError is not an Exception and the loop does not catch it.       *)
FlushAfterLatency ==
    /\ timer
    /\ timer' = FALSE
    /\ queue' = <<>>
    /\ \E k \in 0..Len(queue) :
          /\ failed' = failed \cup {queue[j] : j \in 1..k}
          /\ emitted' = IF k < Len(queue) THEN Append(emitted, queue[k + 1]) ELSE emitted
          /\ cancelled' = cancelled \cup {queue[j] : j \in (k + 2)..Len(queue)}
    /\ UNCHANGED <<flushes, emitting, enqueued>>

(* The loop of _flush: one event, emitted or failed.                        *)
EmitOne(i) ==
    LET batch == emitting[i]
        rest  == IF Len(batch) = 1 THEN RemoveAt(emitting, i)
                                   ELSE [emitting EXCEPT ![i] = Tail(batch)]
    IN  /\ emitting' = rest
        /\ \/ emitted' = Append(emitted, Head(batch)) /\ UNCHANGED failed
           \/ failed' = failed \cup {Head(batch)} /\ UNCHANGED emitted
        /\ UNCHANGED <<queue, timer, flushes, enqueued, cancelled>>

Emit == \E i \in DOMAIN emitting : EmitOne(i)

BatcherNext ==
    \/ Enqueue
    \/ FlushFull
    \/ FlushNow
    \/ FlushAfterLatency
    \/ Emit

BatcherSpec == BatcherInit /\ [][BatcherNext]_batcherVars

-----------------------------------------------------------------------------
(* The timer is started outside the lock and forgotten inside it, in        *)
(* another task: an event in the queue always has a flush that will come    *)
(* for it, and _flush_task never names a timer with nothing to flush (its   *)
(* early return would leave it set, and no timer would start again).        *)
FlushPending ==
    /\ queue # <<>> => timer \/ flushes > 0
    /\ timer => queue # <<>>

(* "messages will still be delivered (just delayed)": every event is        *)
(* emitted unless its emit fails.                                           *)
NoneCancelled == cancelled = {}
=============================================================================
