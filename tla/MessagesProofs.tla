--------------------------- MODULE MessagesProofs ---------------------------
(***************************************************************************)
(* Proofs about messages on their way between nodes and to the clients:    *)
(* delivery to the other node, the batches of the socket bridge, reading   *)
(* the history, the contact handshake, the messages of a legacy node, and  *)
(* the composition that the runs check.                                    *)
(***************************************************************************)
EXTENDS MCMessages, FiniteSetTheorems, SequenceTheorems, WellFoundedInduction, TLAPS

(***************************************************************************)
(* A queued event always has a flush to come, for every batch size and any *)
(* number of events (EventBatcher).  The invariant carries the type facts   *)
(* of the queue and of the two counters.  That both halves are kept by a    *)
(* flush rests on the timer being forgotten in the same critical section   *)
(* in which the queue is emptied.                                           *)
(***************************************************************************)

Counts == queue \in Seq(Nat) /\ timer \in BOOLEAN /\ flushes \in Nat /\ enqueued \in Nat

BatcherInv == Counts /\ FlushPending

\* Taking the batch leaves neither an event nor a timer behind.
LEMMA TakeBatchKeeps ==
    ASSUME BatcherInv, TakeBatch
    PROVE  queue' = <<>> /\ timer' = FALSE
<1>1. CASE queue = <<>>
    BY <1>1 DEF TakeBatch, BatcherInv, Counts, FlushPending
<1>2. CASE queue # <<>>
    BY <1>2 DEF TakeBatch
<1>3. QED
    BY <1>1, <1>2

\* With the queue empty and no timer there is nothing left to promise.
LEMMA EmptyKeeps ==
    ASSUME queue' = <<>>, timer' = FALSE, flushes' \in Nat, enqueued' \in Nat
    PROVE  BatcherInv'
<1>1. queue' \in Seq(Nat)
    BY SMT
<1>2. timer' \in BOOLEAN
    BY Zenon
<1>3. FlushPending'
    BY Zenon DEF FlushPending
<1>4. QED
    BY <1>1, <1>2, <1>3, Zenon DEF BatcherInv, Counts

\* An event is appended: its batch is full and a flush is spawned, or the
\* timer runs.
LEMMA EnqueueKeeps ==
    ASSUME BatcherInv, Enqueue
    PROVE  BatcherInv'
<1> DEFINE full == Len(queue') >= MaxBatchSize
<1>1. queue' \in Seq(Nat) /\ queue' # <<>>
    BY SMT DEF Enqueue, BatcherInv, Counts
<1>2. timer' \in BOOLEAN
    BY Zenon DEF Enqueue
<1>3. flushes' \in Nat /\ enqueued' \in Nat
    BY DEF Enqueue, BatcherInv, Counts
<1>4. CASE full
    <2>1. flushes' > 0
        BY <1>4 DEF Enqueue, BatcherInv, Counts
    <2>2. QED
        BY <1>1, <1>2, <1>3, <2>1 DEF BatcherInv, Counts, FlushPending
<1>5. CASE ~full
    <2>1. timer'
        BY <1>5, Zenon DEF Enqueue
    <2>2. QED
        BY <1>1, <1>2, <1>3, <2>1 DEF BatcherInv, Counts, FlushPending
<1>6. QED
    BY <1>4, <1>5

\* Every step of the batcher keeps the invariant.
LEMMA BatcherStep ==
    ASSUME BatcherInv, [BatcherNext]_batcherVars
    PROVE  BatcherInv'
<1>1. CASE Enqueue
    BY <1>1, EnqueueKeeps
<1>2. CASE FlushFull
    <2>1. queue' = <<>> /\ timer' = FALSE
        BY <1>2, TakeBatchKeeps DEF FlushFull
    <2>2. flushes' \in Nat /\ enqueued' \in Nat
        BY <1>2 DEF FlushFull, BatcherInv, Counts
    <2>3. QED
        BY <2>1, <2>2, EmptyKeeps
<1>3. CASE FlushNow
    <2>1. queue' = <<>> /\ timer' = FALSE
        BY <1>3, TakeBatchKeeps DEF FlushNow
    <2>2. flushes' \in Nat /\ enqueued' \in Nat
        BY <1>3 DEF FlushNow, BatcherInv, Counts
    <2>3. QED
        BY <2>1, <2>2, EmptyKeeps
<1>4. CASE FlushAfterLatency
    <2>1. queue' = <<>> /\ timer' = FALSE /\ flushes' = flushes /\ enqueued' = enqueued
        BY <1>4 DEF FlushAfterLatency
    <2>2. QED
        BY <2>1, EmptyKeeps DEF BatcherInv, Counts
<1>5. CASE Emit
    BY <1>5 DEF Emit, EmitOne, BatcherInv, Counts, FlushPending
<1>6. CASE UNCHANGED batcherVars
    BY <1>6 DEF batcherVars, BatcherInv, Counts, FlushPending
<1>7. QED
    BY <1>1, <1>2, <1>3, <1>4, <1>5, <1>6 DEF BatcherNext

\* A queued event always has a timer or a spawned flush that will take it, and
\* a timer that runs always has something to flush, whatever the interleaving
\* of emit_socket, flush_socket and the tasks of _OutgoingBatcher.
THEOREM BatcherFlushPending == BatcherSpec => []FlushPending
<1>1. BatcherInit => BatcherInv
    <2> SUFFICES ASSUME BatcherInit
                 PROVE  BatcherInv
        OBVIOUS
    <2>1. queue \in Seq(Nat) /\ flushes \in Nat /\ enqueued \in Nat
        BY SMT DEF BatcherInit
    <2>2. timer \in BOOLEAN /\ FlushPending
        BY Zenon DEF BatcherInit, FlushPending
    <2>3. QED
        BY <2>1, <2>2, Zenon DEF BatcherInv, Counts
<1>2. BatcherInv /\ [BatcherNext]_batcherVars => BatcherInv'
    BY BatcherStep
<1>3. BatcherInv => FlushPending
    BY DEF BatcherInv
<1>4. QED
    BY <1>1, <1>2, <1>3, PTL DEF BatcherSpec

(***************************************************************************)
(* The types of the batcher.  A batch that is being emitted is never       *)
(* empty, nor is the queue when the timer wakes up.                        *)
(***************************************************************************)
Batch == {b \in Seq(1..MaxEvents) : b # <<>>}
BatcherTyping == BatcherTypeOK /\ FlushPending /\ emitting \in Seq(Batch)

\* A sequence that is not empty has a head and a tail.
LEMMA HeadTyped ==
    ASSUME NEW S, NEW s \in Seq(S), s # <<>>
    PROVE  /\ s[1] \in S /\ Head(s) \in S /\ Tail(s) \in Seq(S)
           /\ Len(s) \in Nat /\ Len(s) # 0 /\ Len(Tail(s)) = Len(s) - 1
<1>1. Len(s) \in Nat /\ Len(s) # 0
    BY EmptySeq
<1>2. 1 \in 1..Len(s)
    BY <1>1
<1>3. s[1] \in S /\ Head(s) = s[1]
    BY <1>2
<1> QED BY <1>1, <1>3, HeadTailProperties

\* The elements of a sequence over a set are in it.
LEMMA ElementsTyped ==
    ASSUME NEW S, NEW s \in Seq(S)
    PROVE  Len(s) \in Nat /\ \A j \in 1..Len(s) : s[j] \in S
OBVIOUS

\* Taking a batch keeps the types.
LEMMA TakeBatchTyped ==
    ASSUME BatcherTyping, TakeBatch
    PROVE  queue' \in Seq(1..MaxEvents) /\ timer' \in BOOLEAN /\ emitting' \in Seq(Batch)
<1>1. CASE queue = <<>>
    BY <1>1 DEF TakeBatch, BatcherTyping, BatcherTypeOK
<1>2. CASE queue # <<>>
    <2>1. queue \in Batch
        BY <1>2 DEF BatcherTyping, BatcherTypeOK, Batch
    <2>2. Append(emitting, queue) \in Seq(Batch)
        BY <2>1 DEF BatcherTyping
    <2>3. timer' = FALSE /\ queue' = <<>> /\ emitting' = Append(emitting, queue)
        BY <1>2, Zenon DEF TakeBatch
    <2>4. timer' \in BOOLEAN
        BY <2>3, Zenon
    <2>5. queue' \in Seq(1..MaxEvents) /\ emitting' \in Seq(Batch)
        BY <2>2, <2>3
    <2> QED BY <2>4, <2>5
<1> QED BY <1>1, <1>2

\* So does emitting an event of one.
LEMMA EmitTyped ==
    ASSUME NEW e \in Seq(Batch), NEW i \in DOMAIN e
    PROVE  /\ Head(e[i]) \in 1..MaxEvents
           /\ Len(e[i]) = 1 => RemoveAt(e, i) \in Seq(Batch)
           /\ Len(e[i]) # 1 => [e EXCEPT ![i] = Tail(e[i])] \in Seq(Batch)
<1>1. e[i] \in Seq(1..MaxEvents) /\ e[i] # <<>> /\ i \in 1..Len(e)
    BY DEF Batch
<1>2. Head(e[i]) \in 1..MaxEvents /\ Tail(e[i]) \in Seq(1..MaxEvents)
      /\ Len(e[i]) \in Nat /\ Len(e[i]) # 0 /\ Len(Tail(e[i])) = Len(e[i]) - 1
    BY <1>1, HeadTyped
<1>3. RemoveAt(e, i) \in Seq(Batch)
    BY <1>1 DEF RemoveAt
<1>4. ASSUME Len(e[i]) # 1 PROVE [e EXCEPT ![i] = Tail(e[i])] \in Seq(Batch)
    <2>1. Len(Tail(e[i])) # 0
        BY <1>2, <1>4
    <2>2. Tail(e[i]) # <<>>
        BY <1>2, <2>1, EmptySeq
    <2>3. Tail(e[i]) \in Batch
        BY <1>2, <2>2 DEF Batch
    <2> QED BY <1>1, <2>3
<1> QED BY <1>2, <1>3, <1>4

\* Every variable of the batcher keeps its type.
THEOREM BatcherTyped == BatcherSpec => []BatcherTypeOK
<1>1. BatcherInit => BatcherTyping
    <2> SUFFICES ASSUME BatcherInit PROVE BatcherTyping
        OBVIOUS
    <2>1. timer \in BOOLEAN /\ FlushPending
        BY Zenon DEF BatcherInit, FlushPending
    <2>2. /\ queue \in Seq(1..MaxEvents) /\ flushes \in Nat /\ emitted \in Seq(1..MaxEvents)
          /\ emitting \in Seq(Seq(1..MaxEvents)) /\ emitting \in Seq(Batch)
        BY SMT DEF BatcherInit
    <2>3. enqueued \in 0..MaxEvents /\ failed \subseteq 1..MaxEvents /\ cancelled \subseteq 1..MaxEvents
        BY BatcherAssumption, SMT DEF BatcherInit
    <2> QED BY <2>1, <2>2, <2>3, Zenon DEF BatcherTyping, BatcherTypeOK
<1>2. BatcherTyping /\ [BatcherNext]_batcherVars /\ FlushPending' => BatcherTyping'
    <2> SUFFICES ASSUME BatcherTyping, [BatcherNext]_batcherVars, FlushPending'
                 PROVE  BatcherTyping'
        OBVIOUS
    <2>0. BatcherTypeOK /\ emitting \in Seq(Batch) /\ (timer => queue # <<>>)
        BY DEF BatcherTyping, FlushPending
    <2>e. emitting' \in Seq(Batch) => emitting' \in Seq(Seq(1..MaxEvents))
        BY DEF Batch
    <2>1. CASE Enqueue
        <3>1. enqueued + 1 \in 1..MaxEvents /\ enqueued + 1 \in 0..MaxEvents
            BY <2>0, <2>1, BatcherAssumption DEF Enqueue, BatcherTypeOK
        <3>2. Append(queue, enqueued + 1) \in Seq(1..MaxEvents)
            BY <2>0, <3>1 DEF BatcherTypeOK
        <3>3. timer' \in BOOLEAN
            BY <2>1, Zenon DEF Enqueue
        <3>4. flushes' \in Nat
            BY <2>0, <2>1 DEF Enqueue, BatcherTypeOK
        <3>5. /\ queue' = Append(queue, enqueued + 1) /\ enqueued' = enqueued + 1
              /\ UNCHANGED <<emitting, emitted, failed, cancelled>>
            BY <2>1 DEF Enqueue
        <3> QED BY <2>0, <3>1, <3>2, <3>3, <3>4, <3>5 DEF BatcherTyping, BatcherTypeOK
    <2>2. CASE FlushFull
        <3>1. flushes' \in Nat
            BY <2>0, <2>2 DEF FlushFull, BatcherTypeOK
        <3> QED BY <2>0, <2>2, <2>e, <3>1, TakeBatchTyped DEF FlushFull, BatcherTyping, BatcherTypeOK
    <2>3. CASE FlushNow
        BY <2>0, <2>3, <2>e, TakeBatchTyped DEF FlushNow, BatcherTyping, BatcherTypeOK
    <2>4. CASE FlushAfterLatency
        <3>1. queue \in Seq(1..MaxEvents) /\ queue # <<>>
            BY <2>0, <2>4, Zenon DEF FlushAfterLatency, BatcherTypeOK
        <3>2. Len(queue) \in Nat /\ \A j \in 1..Len(queue) : queue[j] \in 1..MaxEvents
            BY <3>1, ElementsTyped
        <3>3. PICK k \in 0..Len(queue) :
                 /\ failed' = failed \cup {queue[j] : j \in 1..k}
                 /\ emitted' = IF k < Len(queue) THEN Append(emitted, queue[k + 1]) ELSE emitted
                 /\ cancelled' = cancelled \cup {queue[j] : j \in (k + 2)..Len(queue)}
            BY <2>4, Zenon DEF FlushAfterLatency
        <3>4. ASSUME k < Len(queue) PROVE emitted' \in Seq(1..MaxEvents)
            <4>1. queue[k + 1] \in 1..MaxEvents
                BY <3>2, <3>4
            <4>2. Append(emitted, queue[k + 1]) \in Seq(1..MaxEvents)
                BY <2>0, <4>1 DEF BatcherTypeOK
            <4> QED BY <3>3, <3>4, <4>2
        <3>5. emitted' \in Seq(1..MaxEvents)
            BY <2>0, <3>3, <3>4 DEF BatcherTypeOK
        <3>6. failed' \subseteq 1..MaxEvents /\ cancelled' \subseteq 1..MaxEvents
            <4>1. {queue[j] : j \in 1..k} \subseteq 1..MaxEvents
                BY <3>2
            <4>2. {queue[j] : j \in (k + 2)..Len(queue)} \subseteq 1..MaxEvents
                BY <3>2
            <4> QED BY <2>0, <3>3, <4>1, <4>2 DEF BatcherTypeOK
        <3>7. timer' = FALSE /\ queue' = <<>> /\ UNCHANGED <<flushes, emitting, enqueued>>
            BY <2>4, Zenon DEF FlushAfterLatency
        <3>8. timer' \in BOOLEAN
            BY <3>7, Zenon
        <3>9. queue' \in Seq(1..MaxEvents)
            BY <3>7, SMT
        <3> QED BY <2>0, <3>5, <3>6, <3>7, <3>8, <3>9 DEF BatcherTyping, BatcherTypeOK
    <2>5. CASE Emit
        <3>1. PICK i \in DOMAIN emitting : EmitOne(i)
            BY <2>5, Zenon DEF Emit
        <3>2. emitting' = IF Len(emitting[i]) = 1 THEN RemoveAt(emitting, i)
                          ELSE [emitting EXCEPT ![i] = Tail(emitting[i])]
            BY <3>1 DEF EmitOne
        <3>3. emitting' \in Seq(Batch) /\ Head(emitting[i]) \in 1..MaxEvents
            BY <2>0, <3>2, EmitTyped
        <3>4. emitted' \in Seq(1..MaxEvents) /\ failed' \subseteq 1..MaxEvents
            <4>1. \A n \in 1..MaxEvents : Append(emitted, n) \in Seq(1..MaxEvents)
                BY <2>0 DEF BatcherTypeOK
            <4>2. \/ emitted' = Append(emitted, Head(emitting[i])) /\ failed' = failed
                  \/ failed' = failed \cup {Head(emitting[i])} /\ emitted' = emitted
                BY <3>1 DEF EmitOne
            <4> QED BY <2>0, <3>3, <4>1, <4>2 DEF BatcherTypeOK
        <3>5. UNCHANGED <<queue, timer, flushes, enqueued, cancelled>>
            BY <3>1 DEF EmitOne
        <3> QED BY <2>0, <2>e, <3>3, <3>4, <3>5 DEF BatcherTyping, BatcherTypeOK
    <2>6. CASE UNCHANGED batcherVars
        BY <2>0, <2>6 DEF batcherVars, BatcherTyping, BatcherTypeOK
    <2> QED BY <2>1, <2>2, <2>3, <2>4, <2>5, <2>6 DEF BatcherNext
<1>3. BatcherTyping => BatcherTypeOK
    BY DEF BatcherTyping
<1> QED BY <1>1, <1>2, <1>3, BatcherFlushPending, PTL DEF BatcherSpec

(***************************************************************************)
(* A task that reports success has a row at the receiver, for any number   *)
(* of messages and attempts, whatever is lost, late or answered for an     *)
(* earlier attempt.  The invariant adds the types and that an answer 200   *)
(* on its way is about a row that was committed; rows are never removed.   *)
(***************************************************************************)

AnsweredIsStored == \A a \in answers : a.code = 200 => a.post.msg \in Rows

DeliveryInv == TypeOK /\ AnsweredIsStored /\ TransmittedIsStored

\* A task stays a task when its attempt fails, and a failed attempt is no success.
LEMMA AfterFailureFacts ==
  ASSUME NEW t \in Task
  PROVE  AfterFailure(t) \in Task /\ AfterFailure(t).at # "done"
BY DeliveryAssumption DEF AfterFailure, Task

\* The request of a running task is a request.
LEMMA CurrentPostType ==
  ASSUME TypeOK, NEW m \in Msg, task[m] # None
  PROVE  task[m] \in Task /\ CurrentPost(m) \in Post /\ CurrentPost(m).msg = m
BY DEF TypeOK, CurrentPost, Task, Post

\* A commit adds the row of its message and removes none.
LEMMA CommitRows ==
  ASSUME stored \in Seq(Msg), NEW m \in Msg, stored' = Append(stored, m)
  PROVE  stored' \in Seq(Msg) /\ Rows \subseteq Rows' /\ m \in Rows'
<1>1. stored' \in Seq(Msg) /\ Len(stored') = Len(stored) + 1
  OBVIOUS
<1>2. \A i \in 1..Len(stored) : stored'[i] = stored[i]
  OBVIOUS
<1>3. stored'[Len(stored) + 1] = m
  OBVIOUS
<1>4. Rows \subseteq Rows'
  <2> SUFFICES ASSUME NEW i \in DOMAIN stored PROVE stored[i] \in Rows'
    BY DEF Rows
  <2>1. i \in DOMAIN stored' /\ stored'[i] = stored[i]
    BY <1>1, <1>2
  <2> QED BY <2>1 DEF Rows
<1>5. m \in Rows'
  <2>1. Len(stored) + 1 \in DOMAIN stored'
    BY <1>1
  <2> QED BY <1>3, <2>1 DEF Rows
<1> QED BY <1>1, <1>4, <1>5

\* Every step keeps the types, and successful answers and tasks stored.
THEOREM DeliveryInvariant == Spec => []DeliveryInv
<1>1. Init => DeliveryInv
  BY DeliveryAssumption DEF Init, DeliveryInv, TypeOK, AnsweredIsStored, TransmittedIsStored, At
<1>2. DeliveryInv /\ [Next]_vars => DeliveryInv'
  <2> SUFFICES ASSUME DeliveryInv, [Next]_vars PROVE DeliveryInv'
    OBVIOUS
  <2>0. TypeOK /\ AnsweredIsStored /\ TransmittedIsStored
    BY DEF DeliveryInv
  <2>1. CASE SendMessage
    <3>1. sent + 1 \in Msg /\ sent' \in 0..MaxMsg
      BY <2>0, <2>1, DeliveryAssumption DEF SendMessage, TypeOK, Msg
    <3>2. [at |-> "post", attempt |-> 1] \in Task
      BY DeliveryAssumption DEF Task
    <3>3. TypeOK'
      BY <2>0, <2>1, <3>1, <3>2 DEF SendMessage, TypeOK
    <3>4. TransmittedIsStored' /\ AnsweredIsStored'
      BY <2>0, <2>1, <3>1, <3>2 DEF SendMessage, TypeOK, TransmittedIsStored, AnsweredIsStored, At, Rows
    <3> QED BY <3>3, <3>4 DEF DeliveryInv
  <2>2. ASSUME NEW m \in Msg, PostRequest(m) PROVE DeliveryInv'
    <3>1. task[m] \in Task /\ CurrentPost(m) \in Post
      BY <2>0, <2>2, CurrentPostType DEF PostRequest, At
    <3>2. TypeOK'
      BY <2>0, <2>2, <3>1 DEF PostRequest, TypeOK, Task
    <3>3. TransmittedIsStored' /\ AnsweredIsStored'
      BY <2>0, <2>2, <3>1 DEF PostRequest, TypeOK, TransmittedIsStored, AnsweredIsStored, At, Rows, Task
    <3> QED BY <3>2, <3>3 DEF DeliveryInv
  <2>3. ASSUME NEW m \in Msg, GetAnswer(m) PROVE DeliveryInv'
    <3>1. task[m] \in Task /\ CurrentPost(m).msg = m /\ task[m] # None
      BY <2>0, <2>3, CurrentPostType DEF GetAnswer, At
    <3>2. PICK a \in answers :
            /\ a.post = CurrentPost(m)
            /\ answers' = answers \ {a}
            /\ task' = [task EXCEPT ![m] = IF Success(a.code) THEN [@ EXCEPT !.at = "done"]
                                           ELSE AfterFailure(@)]
      BY <2>3 DEF GetAnswer
    <3>3. AfterFailure(task[m]) \in Task /\ AfterFailure(task[m]).at # "done"
      BY <3>1, AfterFailureFacts
    <3>4. [task[m] EXCEPT !.at = "done"] \in Task
      BY <3>1 DEF Task
    <3>5. TypeOK'
      BY <2>0, <2>3, <3>2, <3>3, <3>4 DEF GetAnswer, TypeOK
    <3>6. Success(a.code) => m \in Rows
      BY <2>0, <3>1, <3>2 DEF AnsweredIsStored, Success
    <3>7. TransmittedIsStored'
      <4> SUFFICES ASSUME NEW n \in Msg, At(n, "done")' PROVE n \in Rows'
        BY DEF TransmittedIsStored
      <4>1. Rows' = Rows
        BY <2>3 DEF GetAnswer, Rows
      <4>2. CASE n = m
        BY <2>0, <3>2, <3>3, <3>6, <4>1, <4>2 DEF At, TypeOK
      <4>3. CASE n # m
        BY <2>0, <3>2, <4>1, <4>3 DEF At, TypeOK, TransmittedIsStored
      <4> QED BY <4>2, <4>3
    <3>8. AnsweredIsStored'
      BY <2>0, <2>3, <3>2 DEF GetAnswer, AnsweredIsStored, Rows
    <3> QED BY <3>5, <3>7, <3>8 DEF DeliveryInv
  <2>4. ASSUME NEW m \in Msg, TimeOut(m) \/ ClientFails(m) PROVE DeliveryInv'
    <3>0. task' = [task EXCEPT ![m] = AfterFailure(@)]
          /\ UNCHANGED <<sent, network, handler, answers, stored>>
      BY <2>4 DEF TimeOut, ClientFails
    <3>1. task[m] \in Task
      BY <2>0, <2>4, CurrentPostType DEF TimeOut, ClientFails, At
    <3>2. AfterFailure(task[m]) \in Task /\ AfterFailure(task[m]).at # "done"
      BY <3>1, AfterFailureFacts
    <3>3. TypeOK'
      BY <2>0, <3>0, <3>2 DEF TypeOK
    <3>4. TransmittedIsStored' /\ AnsweredIsStored'
      BY <2>0, <3>0, <3>2 DEF TypeOK, TransmittedIsStored, AnsweredIsStored, At, Rows
    <3> QED BY <3>3, <3>4 DEF DeliveryInv
  <2>5. ASSUME NEW q \in network, LoseRequest(q) PROVE DeliveryInv'
    BY <2>0, <2>5 DEF LoseRequest, DeliveryInv, TypeOK, TransmittedIsStored, AnsweredIsStored, At, Rows
  <2>6. ASSUME NEW q \in network, Refuse(q) PROVE DeliveryInv'
    <3>1. [post |-> q, code |-> 400] \in Answer
      BY <2>0 DEF TypeOK, Answer
    <3>2. TypeOK'
      BY <2>0, <2>6, <3>1 DEF Refuse, TypeOK
    <3>3. TransmittedIsStored' /\ AnsweredIsStored'
      BY <2>0, <2>6 DEF Refuse, TransmittedIsStored, AnsweredIsStored, At, Rows
    <3> QED BY <3>2, <3>3 DEF DeliveryInv
  <2>7. ASSUME NEW q \in network, Accept(q) PROVE DeliveryInv'
    BY <2>0, <2>7 DEF Accept, DeliveryInv, TypeOK, TransmittedIsStored, AnsweredIsStored, At, Rows
  <2>8. ASSUME NEW q \in handler, Commit(q) PROVE DeliveryInv'
    <3>1. q \in Post /\ q.msg \in Msg
      BY <2>0 DEF TypeOK, Post
    <3>2. [post |-> q, code |-> 200] \in Answer
      BY <3>1 DEF Answer
    <3>3. stored' \in Seq(Msg) /\ Rows \subseteq Rows' /\ q.msg \in Rows'
      BY <2>0, <2>8, <3>1, CommitRows DEF Commit, TypeOK
    <3>4. TypeOK'
      BY <2>0, <2>8, <3>2, <3>3 DEF Commit, TypeOK
    <3>5. TransmittedIsStored' /\ AnsweredIsStored'
      BY <2>0, <2>8, <3>3 DEF Commit, TransmittedIsStored, AnsweredIsStored, At
    <3> QED BY <3>4, <3>5 DEF DeliveryInv
  <2>9. ASSUME NEW q \in handler, CommitFails(q) PROVE DeliveryInv'
    <3>1. [post |-> q, code |-> 500] \in Answer
      BY <2>0 DEF TypeOK, Answer
    <3>2. TypeOK'
      BY <2>0, <2>9, <3>1 DEF CommitFails, TypeOK
    <3>3. TransmittedIsStored' /\ AnsweredIsStored'
      BY <2>0, <2>9 DEF CommitFails, TransmittedIsStored, AnsweredIsStored, At, Rows
    <3> QED BY <3>2, <3>3 DEF DeliveryInv
  <2>10. CASE UNCHANGED vars
    BY <2>0, <2>10 DEF vars, DeliveryInv, TypeOK, TransmittedIsStored, AnsweredIsStored, At, Rows
  <2> QED
    BY <2>1, <2>2, <2>3, <2>4, <2>5, <2>6, <2>7, <2>8, <2>9, <2>10 DEF Next
<1> QED BY <1>1, <1>2, PTL DEF Spec

\* A task that ended with success has a row at the receiver.
THEOREM DeliveryTransmittedIsStored == Spec => []TransmittedIsStored
<1>1. DeliveryInv => TransmittedIsStored
  BY DEF DeliveryInv
<1> QED BY <1>1, DeliveryInvariant, PTL

(***************************************************************************)
(* Reading the history.                                                    *)
(***************************************************************************)
RowsTimed ==
  \A r \in DOMAIN row : DOMAIN row[r] = {"at", "seq", "sender", "deleted"} /\ row[r].at \in Times

PageFields == {"cursor", "looked", "got", "pages", "start", "done", "again"}

Reading ==
  /\ DOMAIN page = PageFields
  /\ page.pages \in Nat /\ page.cursor \in Nat
  /\ page.got \in Seq(DOMAIN row)
  /\ page.pages = 0 => page.got = <<>> /\ page.start = {} /\ page.cursor = NoCursor
  /\ page.got = <<>> => page.looked
  /\ \A r \in page.start : r \in DOMAIN row /\ row[r].sender # "sealed"

Unique(r) == \A s \in DOMAIN row : s # r => row[s].at # row[r].at
Got(r) == \E i \in DOMAIN page.got : page.got[i] = r

\* Where the reading is: at the cursor that was looked up, or at the last row
\* that the client was given.
Reached == IF page.looked THEN page.cursor ELSE row[page.got[Len(page.got)]].at

\* What was read is not older than that, and each once, unless the reading began
\* again; of the rows that were visible at the beginning and are still, those
\* not read are older, and when the reading is done there are none.
ReadToCursor ==
  /\ ~page.again => \A i \in DOMAIN page.got : row[page.got[i]].at >= Reached
  /\ ~page.again => \A i, j \in DOMAIN page.got : i # j => page.got[i] # page.got[j]
  /\ \A r \in page.start \cap Visible : Unique(r) => Got(r) \/ (row[r].at < Reached /\ ~page.done)

HistoryInv == RowsTimed /\ Reading /\ ReadToCursor

\* What no operation on rows does: change a sent_at, bring a row back, or seal a
\* row again.
RowsKept ==
  /\ DOMAIN row \subseteq DOMAIN row'
  /\ \A r \in DOMAIN row : /\ row'[r].at = row[r].at
                           /\ row[r].sender # "sealed" => row'[r].sender # "sealed"
                           /\ row[r].sender = "dropped" => row'[r].sender = "dropped"
                           /\ row[r].deleted => row'[r].deleted

LEMMA LastTime == NoCursor \in Nat /\ \A t \in Times : t < NoCursor
<1>1. PICK m \in Times : \A u \in Times : u <= m
  BY HistoryAssumption
<1> DEFINE latest == CHOOSE t \in Times : \A u \in Times : u <= t
<1>2. latest \in Times /\ \A u \in Times : u <= latest
  BY <1>1
<1>3. NoCursor = 1 + latest
  BY DEF NoCursor
<1> HIDE DEF latest
<1>4. latest \in Nat /\ \A t \in Times : t \in Nat
  BY <1>2, HistoryAssumption
<1>5. \A t \in Nat : t <= latest => t < 1 + latest
  BY <1>4
<1> QED BY <1>2, <1>3, <1>4, <1>5

LEMMA RowsKeptReading ==
  ASSUME HistoryInv, RowsTimed', RowsKept, page' = page
  PROVE  HistoryInv'
<1>1. page.got \in Seq(DOMAIN row) /\ DOMAIN page.got = 1..Len(page.got)
      /\ \A i \in DOMAIN page.got : page.got[i] \in DOMAIN row
  BY DEF HistoryInv, Reading
<1>2. Reading'
  <2>1. page.got \in Seq(DOMAIN row')
    BY <1>1 DEF RowsKept
  <2> QED BY <2>1 DEF HistoryInv, Reading, RowsKept
<1>r. Reached' = Reached
  <2>1. CASE page.looked
    BY <2>1 DEF Reached
  <2>2. CASE ~page.looked
    <3>1. page.got # <<>>
      BY <2>2 DEF HistoryInv, Reading
    <3>2. Len(page.got) \in DOMAIN page.got
      BY <1>1, <3>1
    <3> QED BY <1>1, <2>2, <3>2 DEF Reached, RowsKept
  <2> QED BY <2>1, <2>2
<1>3. ~page'.again => \A i \in DOMAIN page'.got : row'[page'.got[i]].at >= Reached'
  BY <1>1, <1>r DEF HistoryInv, ReadToCursor, RowsKept
<1>4. ASSUME NEW r \in page.start, r \in Visible', Unique(r)'
      PROVE  Got(r)' \/ (row'[r].at < Reached' /\ ~page'.done)
  <2>1. r \in DOMAIN row /\ row[r].sender # "sealed"
    BY DEF HistoryInv, Reading
  <2>2. r \in Visible
    BY <1>4, <2>1 DEF Visible, Stored, RowsKept
  <2>3. Unique(r)
    BY <1>4, <2>1 DEF Unique, RowsKept
  <2>4. Got(r) \/ (row[r].at < Reached /\ ~page.done)
    BY <2>2, <2>3 DEF HistoryInv, ReadToCursor
  <2> QED BY <1>r, <2>1, <2>4 DEF Got, RowsKept
<1>5. ReadToCursor'
  BY <1>3, <1>4 DEF HistoryInv, ReadToCursor
<1> QED BY <1>2, <1>5 DEF HistoryInv

\* The look-up: the reading is where it was, or begins again.
LEMMA LookedUp ==
  ASSUME HistoryInv, MessageHistoryLookUp
  PROVE  HistoryInv'
<1> DEFINE oldest == page.got[Len(page.got)]
           cursor == IF oldest \in Stored THEN row[oldest].at ELSE NoCursor
           again == page.again \/ oldest \notin Stored
<1>1. page' = [page EXCEPT !.looked = TRUE, !.cursor = cursor, !.again = again]
      /\ UNCHANGED row /\ ~page.looked
  BY DEF MessageHistoryLookUp
<1>2. page.got \in Seq(DOMAIN row) /\ page.got # <<>> /\ Len(page.got) \in DOMAIN page.got
      /\ page.pages \in Nat /\ page.pages # 0 /\ DOMAIN page = PageFields
  BY <1>1 DEF HistoryInv, Reading
<1>3. oldest \in DOMAIN row
  BY <1>2
<1>4. row[oldest].at \in Times /\ \A r \in DOMAIN row : row[r].at \in Times
  BY <1>3 DEF HistoryInv, RowsTimed
<1>5. Reached = row[oldest].at
  BY <1>1 DEF Reached
<1> HIDE DEF oldest
<1>6. cursor \in Nat /\ (oldest \in Stored => cursor = Reached) /\ (oldest \notin Stored => cursor = NoCursor)
  BY <1>4, <1>5, LastTime, HistoryAssumption
<1>7. again => page.again \/ oldest \notin Stored
  OBVIOUS
<1>8. ~again => ~page.again /\ oldest \in Stored
  OBVIOUS
<1> HIDE DEF cursor, again
<1>9. /\ DOMAIN page' = PageFields /\ page'.cursor = cursor /\ page'.looked = TRUE /\ page'.got = page.got
      /\ page'.pages = page.pages /\ page'.start = page.start /\ page'.done = page.done
      /\ page'.again = again
  BY <1>1, <1>2 DEF PageFields
<1>10. RowsTimed' /\ Reading' /\ Reached' = cursor
  BY <1>1, <1>2, <1>6, <1>9 DEF HistoryInv, RowsTimed, Reading, Reached
<1>11. Visible' = Visible /\ \A r : (Unique(r)' <=> Unique(r)) /\ (Got(r)' <=> Got(r))
  BY <1>1, <1>9 DEF Visible, Stored, Unique, Got
<1>12. ASSUME NEW r \in page.start, r \in Visible, Unique(r), row[r].at < Reached
       PROVE  row[r].at < cursor
  <2>1. row[r].at < NoCursor
    BY <1>4, <1>12, LastTime DEF Visible, Stored
  <2> QED BY <1>6, <1>12, <2>1
<1>13. ReadToCursor'
  <2>1. ~page'.again => \A i \in DOMAIN page'.got : row'[page'.got[i]].at >= Reached'
    BY <1>1, <1>6, <1>8, <1>9, <1>10 DEF HistoryInv, ReadToCursor
  <2>2. ~page'.again => \A i, j \in DOMAIN page'.got : i # j => page'.got[i] # page'.got[j]
    BY <1>8, <1>9 DEF HistoryInv, ReadToCursor
  <2>3. ASSUME NEW r \in page'.start, r \in Visible', Unique(r)'
        PROVE  Got(r)' \/ (row'[r].at < Reached' /\ ~page'.done)
    BY <1>1, <1>9, <1>10, <1>11, <1>12, <2>3 DEF HistoryInv, ReadToCursor
  <2> QED BY <2>1, <2>2, <2>3 DEF ReadToCursor
<1> QED BY <1>10, <1>13 DEF HistoryInv

\* A page of the query: newest first, none twice, all older than the cursor and
\* none left out that is newer than its last.
LEMMA PageRead ==
  ASSUME HistoryInv, NEW p, PageOf(p), UNCHANGED row, ~page.done, page.looked
  PROVE  HistoryInv'
<1> DEFINE older == {r \in Visible : row[r].at < page.cursor}
           n == Len(p)
           start == IF page.pages = 0 THEN Visible ELSE page.start
<1>1. p \in Seq(older) /\ n \in Nat /\ n >= 1 /\ DOMAIN p = 1..n
  BY HistoryAssumption DEF PageOf, OlderThan
<1>2. \A i, j \in 1..n : p[i] = p[j] => i = j
  BY <1>1 DEF PageOf, IsInjective
<1>3. \A i \in 1..n : p[i] \in Newest(older \ {p[j] : j \in 1..(i - 1)})
  BY <1>1 DEF PageOf, OlderThan
<1>4. page' = [page EXCEPT !.looked = FALSE, !.got = @ \o p, !.pages = @ + 1,
                           !.start = IF page.pages = 0 THEN Visible ELSE @]
  BY DEF PageOf
<1>5. \A i \in 1..n : p[i] \in older /\ p[i] \in DOMAIN row /\ row[p[i]].at \in Nat /\ row[p[i]].at < page.cursor
  <2>1. \A i \in 1..n : p[i] \in older
    BY <1>1
  <2>2. \A r \in older : r \in DOMAIN row /\ row[r].at \in Nat /\ row[r].at < page.cursor
    BY HistoryAssumption DEF Visible, Stored, HistoryInv, RowsTimed
  <2> HIDE DEF older
  <2> QED BY <2>1, <2>2
<1>6. \A i \in 1..n : row[p[n]].at <= row[p[i]].at
  <2> SUFFICES ASSUME NEW i \in 1..n PROVE row[p[n]].at <= row[p[i]].at
    OBVIOUS
  <2>1. n \in 1..n
    BY <1>1
  <2>2. p[n] \in older \ {p[j] : j \in 1..(i - 1)}
    BY <1>1, <1>2, <1>5, <2>1
  <2> QED BY <1>3, <2>2 DEF Newest
<1>7. ASSUME NEW r \in older, r \notin {p[i] : i \in 1..n}, Unique(r) PROVE row[r].at < row[p[n]].at
  <2>1. n \in 1..n
    BY <1>1
  <2>2. r \in older \ {p[j] : j \in 1..(n - 1)}
    BY <1>1, <1>7
  <2>3. row[r].at <= row[p[n]].at
    BY <1>3, <2>1, <2>2 DEF Newest
  <2>4. row[r].at # row[p[n]].at
    BY <1>5, <1>7, <2>1 DEF Unique
  <2>5. row[r].at \in Nat /\ row[p[n]].at \in Nat
    BY <1>5, <2>1, HistoryAssumption DEF Visible, Stored, HistoryInv, RowsTimed
  <2> QED BY <2>3, <2>4, <2>5
<1>8. /\ DOMAIN page' = PageFields /\ page'.cursor = page.cursor /\ page'.looked = FALSE
      /\ page'.got = page.got \o p /\ page'.pages = page.pages + 1
      /\ page'.start = start /\ page'.done = page.done /\ page'.again = page.again
  BY <1>4 DEF HistoryInv, Reading, PageFields
<1> DEFINE g == page.got
           L == Len(g)
<1>9. g \in Seq(DOMAIN row) /\ L \in Nat /\ DOMAIN g = 1..L /\ \A i \in 1..L : g[i] \in DOMAIN row
  BY DEF HistoryInv, Reading
<1>10. p \in Seq(DOMAIN row)
  BY <1>1, <1>5
<1>11. /\ g \o p \in Seq(DOMAIN row) /\ DOMAIN (g \o p) = 1..(L + n)
       /\ \A i \in 1..L : (g \o p)[i] = g[i]
       /\ \A i \in 1..n : (g \o p)[L + i] = p[i]
  BY <1>1, <1>9, <1>10
<1>12. \A k \in 1..(L + n) : (k \in 1..L /\ (g \o p)[k] = g[k])
                              \/ (\E i \in 1..n : k = L + i /\ (g \o p)[k] = p[i])
  <2> SUFFICES ASSUME NEW k \in 1..(L + n), k \notin 1..L
               PROVE  \E i \in 1..n : k = L + i /\ (g \o p)[k] = p[i]
    BY <1>11
  <2>1. k - L \in 1..n /\ k = L + (k - L)
    BY <1>1, <1>9
  <2> QED BY <1>11, <2>1
<1> DEFINE h == g \o p
<1> HIDE DEF n, L, g, h, start
<1>a. Reached = page.cursor
  BY DEF Reached
<1>b. h # <<>> /\ h[Len(h)] = p[n]
  <2>1. Len(h) = L + n /\ n \in 1..n
    BY <1>1, <1>9, <1>10 DEF h, g, L
  <2> QED BY <1>1, <1>9, <1>11, <2>1 DEF h
<1>13. ASSUME ~page.again
       PROVE  \A i \in 1..L : row[g[i]].at >= page.cursor /\ row[g[i]].at \in Nat
  BY <1>9, <1>13, <1>a, HistoryAssumption DEF HistoryInv, ReadToCursor, RowsTimed, g
<1>14. page.cursor \in Nat /\ row[p[n]].at \in Nat /\ row[p[n]].at < page.cursor
  BY <1>1, <1>5 DEF HistoryInv, Reading
<1>15. ASSUME ~page.again PROVE \A k \in 1..(L + n) : row[h[k]].at >= row[p[n]].at
  <2> SUFFICES ASSUME NEW k \in 1..(L + n) PROVE row[h[k]].at >= row[p[n]].at
    OBVIOUS
  <2>1. CASE k \in 1..L /\ h[k] = g[k]
    BY <1>13, <1>14, <1>15, <2>1
  <2>2. ASSUME NEW i \in 1..n, h[k] = p[i] PROVE row[h[k]].at >= row[p[n]].at
    BY <1>5, <1>6, <1>14, <2>2
  <2> QED BY <1>12, <2>1, <2>2 DEF h
<1>16. ASSUME ~page.again, NEW k \in 1..(L + n), NEW m \in 1..(L + n), h[k] = h[m] PROVE k = m
  <2>1. \A i \in 1..L, j \in 1..n : g[i] # p[j]
    BY <1>5, <1>13, <1>14, <1>16
  <2>2. \A i, j \in 1..L : g[i] = g[j] => i = j
    BY <1>9, <1>16 DEF HistoryInv, ReadToCursor, g
  <2>3. CASE k \in 1..L /\ h[k] = g[k]
    BY <1>12, <1>16, <2>1, <2>2, <2>3 DEF h
  <2>4. ASSUME NEW i \in 1..n, k = L + i, h[k] = p[i] PROVE k = m
    <3>1. ~(m \in 1..L /\ h[m] = g[m])
      BY <1>16, <2>1, <2>4
    <3>2. PICK j \in 1..n : m = L + j /\ h[m] = p[j]
      BY <1>12, <3>1 DEF h
    <3> QED BY <1>2, <1>16, <2>4, <3>2
  <2> QED BY <1>12, <2>3, <2>4 DEF h
<1>17. \A r \in start : r \in DOMAIN row /\ row[r].sender # "sealed"
  BY DEF start, Visible, Stored, HistoryInv, Reading
<1>18. RowsTimed' /\ Reading'
  <2>1. h \in Seq(DOMAIN row) /\ page.pages \in Nat
    BY <1>11 DEF h, HistoryInv, Reading
  <2>2. page'.got = h /\ page'.pages # 0 /\ page'.pages \in Nat
    BY <1>8, <2>1 DEF h, g
  <2> QED BY <1>8, <1>14, <1>17, <1>b, <2>1, <2>2 DEF HistoryInv, RowsTimed, Reading
<1>19. ASSUME NEW r \in start, r \in Visible, Unique(r)
       PROVE  (\E k \in 1..(L + n) : h[k] = r) \/ row[r].at < row[p[n]].at
  <2>1. (\E k \in 1..L : g[k] = r) \/ row[r].at < page.cursor
    <3>1. CASE page.pages = 0
      <4>1. row[r].at \in Times
        BY <1>19 DEF Visible, Stored, HistoryInv, RowsTimed
      <4> QED BY <3>1, <4>1, LastTime DEF HistoryInv, Reading
    <3>2. CASE page.pages # 0
      BY <1>9, <1>19, <1>a, <3>2 DEF start, HistoryInv, ReadToCursor, Got, g
    <3> QED BY <3>1, <3>2
  <2>2. ASSUME NEW k \in 1..L, g[k] = r PROVE \E x \in 1..(L + n) : h[x] = r
    <3>1. k \in 1..(L + n)
      BY <1>1, <1>9 DEF n
    <3> QED BY <1>11, <2>2, <3>1 DEF h
  <2>3. ASSUME NEW i \in 1..n, p[i] = r PROVE \E x \in 1..(L + n) : h[x] = r
    <3>1. L + i \in 1..(L + n)
      BY <1>1, <1>9 DEF n
    <3> QED BY <1>11, <2>3, <3>1 DEF h
  <2>4. CASE row[r].at < page.cursor
    BY <1>7, <1>19, <2>3, <2>4
  <2> QED BY <2>1, <2>2, <2>4
<1>20. ReadToCursor'
  <2>1. page'.got = h /\ DOMAIN h = 1..(L + n) /\ ~page'.looked /\ ~page'.done
        /\ page'.again = page.again /\ page'.start = start /\ row' = row /\ Visible' = Visible
    BY <1>8, <1>11 DEF h, g, Visible, Stored
  <2>r. Reached' = row[p[n]].at
    BY <1>b, <2>1 DEF Reached
  <2>2. \A r : Unique(r)' <=> Unique(r)
    BY <2>1 DEF Unique
  <2> QED BY <1>15, <1>16, <1>19, <2>1, <2>2, <2>r DEF ReadToCursor, Got
<1> QED BY <1>18, <1>20 DEF HistoryInv

\* A client that pages to the end got every message that was there throughout,
\* with a sent_at of its own, for any page size, whatever is stored, deleted,
\* resolved and dropped between two pages, and none twice unless a message it
\* named was dropped.
THEOREM HistoryPagesComplete == MessageHistorySpec => []PagesComplete
<1>1. MessageHistoryInit => HistoryInv
  <2> SUFFICES ASSUME MessageHistoryInit PROVE HistoryInv
    OBVIOUS
  <2>1. DOMAIN row = {} /\ page.got = <<>> /\ page.start = {} /\ page.pages = 0 /\ page.cursor = NoCursor
        /\ DOMAIN page = PageFields /\ page.looked = TRUE
    BY DEF MessageHistoryInit, PageFields
  <2>2. <<>> \in Seq(DOMAIN row) /\ DOMAIN <<>> = {}
    OBVIOUS
  <2> QED BY <2>1, <2>2, LastTime DEF HistoryInv, RowsTimed, Reading, ReadToCursor
<1>2. HistoryInv /\ [MessageHistoryNext]_historyVars => HistoryInv'
  <2> SUFFICES ASSUME HistoryInv, [MessageHistoryNext]_historyVars PROVE HistoryInv'
    OBVIOUS
  <2>0. RowsTimed
    BY DEF HistoryInv
  <2>1. ASSUME NEW r \in HistoryRows, NEW t \in Times, NEW sender, Store(r, t, sender) PROVE HistoryInv'
    <3>1. RowsTimed' /\ RowsKept /\ page' = page
      BY <2>0, <2>1 DEF Store, Put, RowsTimed, RowsKept
    <3> QED BY <3>1, RowsKeptReading
  <2>2. ASSUME NEW r \in HistoryRows, NEW sender, DeleteMessage(r, sender) PROVE HistoryInv'
    <3>1. RowsTimed' /\ RowsKept /\ page' = page
      BY <2>0, <2>2 DEF DeleteMessage, Stored, RowsTimed, RowsKept
    <3> QED BY <3>1, RowsKeptReading
  <2>3. ASSUME NEW r \in HistoryRows, NEW q \in Requests, ResolveCheck(q, r) PROVE HistoryInv'
    <3>1. page' = page /\ r \in DOMAIN row /\ (row' = row \/ row' = [row EXCEPT ![r] = Dropped(row[r])])
      BY <2>3 DEF ResolveCheck, Drop, Stored
    <3>2. DOMAIN row[r] = {"at", "seq", "sender", "deleted"}
      BY <2>0, <3>1 DEF RowsTimed
    <3>3. /\ Dropped(row[r]).at = row[r].at /\ Dropped(row[r]).sender = "dropped" /\ Dropped(row[r]).deleted
          /\ DOMAIN Dropped(row[r]) = DOMAIN row[r]
      BY <3>2 DEF Dropped
    <3>4. RowsTimed' /\ RowsKept
      BY <2>0, <3>1, <3>3 DEF RowsTimed, RowsKept
    <3> QED BY <3>1, <3>4, RowsKeptReading
  <2>4. ASSUME NEW q \in Requests, ResolveCommit(q) PROVE HistoryInv'
    <3>1. RowsTimed' /\ RowsKept /\ page' = page
      BY <2>0, <2>4 DEF ResolveCommit, Stored, RowsTimed, RowsKept
    <3> QED BY <3>1, RowsKeptReading
  <2>5. CASE MessageHistoryPage
    <3>1. row' = row /\ ~page.done /\ page.looked
      BY <2>5 DEF MessageHistoryPage
    <3>2. ASSUME NEW p, PageOf(p) PROVE HistoryInv'
      BY <3>1, <3>2, PageRead
    <3>3. CASE OlderThan(page.cursor) = {} /\ page' = [page EXCEPT !.done = TRUE]
      <4>1. /\ DOMAIN page' = PageFields /\ page'.again = page.again /\ page'.looked = page.looked
            /\ page'.cursor = page.cursor /\ page'.got = page.got /\ page'.pages = page.pages
            /\ page'.start = page.start
        BY <3>3 DEF HistoryInv, Reading, PageFields
      <4>2. RowsTimed' /\ Reading' /\ Reached' = Reached /\ Reached = page.cursor
        BY <3>1, <4>1 DEF HistoryInv, RowsTimed, Reading, Reached
      <4>3. ASSUME NEW r \in page.start, r \in Visible, Unique(r) PROVE Got(r)
        <5>1. ~(row[r].at < page.cursor)
          BY <3>3, <4>3 DEF OlderThan
        <5> QED BY <4>2, <4>3, <5>1 DEF HistoryInv, ReadToCursor
      <4>4. Visible' = Visible /\ \A r : (Unique(r)' <=> Unique(r)) /\ (Got(r)' <=> Got(r))
        BY <3>1, <4>1 DEF Visible, Stored, Unique, Got
      <4>5. ReadToCursor'
        BY <3>1, <4>1, <4>2, <4>3, <4>4 DEF HistoryInv, ReadToCursor
      <4> QED BY <4>2, <4>5 DEF HistoryInv
    <3> QED BY <2>5, <3>2, <3>3 DEF MessageHistoryPage
  <2>7. CASE ResetMessages
    <3>1. RowsTimed' /\ RowsKept /\ page' = page
      BY <2>0, <2>7 DEF ResetMessages, Dropped, Stored, RowsTimed, RowsKept
    <3> QED BY <3>1, RowsKeptReading
  <2>8. CASE MessageHistoryLookUp
    BY <2>8, LookedUp
  <2>6. CASE UNCHANGED historyVars
    <3>1. RowsTimed' /\ RowsKept /\ page' = page
      BY <2>0, <2>6 DEF historyVars, RowsTimed, RowsKept
    <3> QED BY <3>1, RowsKeptReading
  <2> QED BY <2>1, <2>2, <2>3, <2>4, <2>5, <2>6, <2>7, <2>8
          DEF MessageHistoryNext, CompatSendMessage, P2PDelete
<1>3. HistoryInv => PagesComplete
  BY DEF HistoryInv, ReadToCursor, PagesComplete, Unique, Got
<1> QED BY <1>1, <1>2, <1>3, PTL DEF MessageHistorySpec

(***************************************************************************)
(* The types of the history and of the delivery.                           *)
(***************************************************************************)
HistoryRow == [at : Times, seq : Times, deleted : BOOLEAN,
               sender : {"me", "peer", "sealed", "dropped"}]
RowsTyped == DOMAIN row \subseteq HistoryRows /\ row \in [DOMAIN row -> HistoryRow]
ReadingTyped ==
  /\ DOMAIN page = PageFields
  /\ page.cursor \in Times \cup {NoCursor} /\ page.pages \in 0..MaxPages
ResolvingTyped == resolving \in [Requests -> HistoryRows \cup {"idle"}]
HistoryTyping == RowsTyped /\ ReadingTyped /\ ResolvingTyped

\* A row that is stored, flagged, resolved or dropped stays a row.
LEMMA RowUpdates ==
  ASSUME RowsTyped, NEW r \in DOMAIN row
  PROVE  /\ [row EXCEPT ![r].deleted = TRUE] \in [DOMAIN row -> HistoryRow]
         /\ [row EXCEPT ![r] = Dropped(row[r])] \in [DOMAIN row -> HistoryRow]
         /\ [row EXCEPT ![r].sender = "peer"] \in [DOMAIN row -> HistoryRow]
<1>1. row[r] \in HistoryRow
  BY DEF RowsTyped
<1>2. /\ [row[r] EXCEPT !.deleted = TRUE] \in HistoryRow
      /\ Dropped(row[r]) \in HistoryRow
      /\ [row[r] EXCEPT !.sender = "peer"] \in HistoryRow
  BY <1>1 DEF HistoryRow, Dropped
<1>3. \A v \in HistoryRow : [row EXCEPT ![r] = v] \in [DOMAIN row -> HistoryRow]
  BY DEF RowsTyped
<1> QED BY <1>2, <1>3

\* Every variable of the history keeps its type.
THEOREM HistoryTyped == MessageHistorySpec => []MessageHistoryTypeOK
<1>1. MessageHistoryInit => HistoryTyping
  <2> SUFFICES ASSUME MessageHistoryInit PROVE HistoryTyping
    OBVIOUS
  <2>1. DOMAIN row = {} /\ row \in [DOMAIN row -> HistoryRow]
    BY DEF MessageHistoryInit
  <2>2. ReadingTyped
    BY HistoryAssumption DEF MessageHistoryInit, ReadingTyped, PageFields
  <2>4. ResolvingTyped
    BY DEF MessageHistoryInit, ResolvingTyped
  <2> QED BY <2>1, <2>2, <2>4 DEF HistoryTyping, RowsTyped
<1>2. HistoryTyping /\ [MessageHistoryNext]_historyVars => HistoryTyping'
  <2> SUFFICES ASSUME HistoryTyping, [MessageHistoryNext]_historyVars PROVE HistoryTyping'
    OBVIOUS
  <2>0. RowsTyped /\ ReadingTyped /\ ResolvingTyped
    BY DEF HistoryTyping
  <2>r. ASSUME RowsTyped', UNCHANGED <<page, resolving>> PROVE HistoryTyping'
    BY <2>0, <2>r DEF HistoryTyping, ReadingTyped, ResolvingTyped
  <2>s. ASSUME RowsTyped', ResolvingTyped', UNCHANGED page PROVE HistoryTyping'
    BY <2>0, <2>s DEF HistoryTyping, ReadingTyped
  <2>1. ASSUME NEW r \in HistoryRows, NEW t \in Times, NEW sender \in {"me", "peer", "sealed"},
               Store(r, t, sender)
        PROVE  HistoryTyping'
    <3> DEFINE v == [at |-> t, seq |-> t, sender |-> sender, deleted |-> FALSE]
    <3>1. v \in HistoryRow
      BY DEF HistoryRow
    <3>2. row' = [x \in DOMAIN row \cup {r} |-> IF x = r THEN v ELSE row[x]]
      BY <2>1 DEF Store, Put
    <3> HIDE DEF v
    <3>3. RowsTyped'
      BY <2>0, <3>1, <3>2 DEF RowsTyped
    <3> QED BY <2>1, <2>r, <3>3 DEF Store
  <2>2. ASSUME NEW r \in HistoryRows, NEW sender, DeleteMessage(r, sender) PROVE HistoryTyping'
    <3>1. r \in DOMAIN row /\ row' = [row EXCEPT ![r].deleted = TRUE]
      BY <2>2 DEF DeleteMessage, Stored
    <3>2. RowsTyped'
      BY <2>0, <3>1, RowUpdates DEF RowsTyped
    <3> QED BY <2>2, <2>r, <3>2 DEF DeleteMessage
  <2>3. ASSUME NEW r \in HistoryRows, NEW q \in Requests, ResolveCheck(q, r) PROVE HistoryTyping'
    <3>1. r \in DOMAIN row
      BY <2>3 DEF ResolveCheck, Stored
    <3>2. CASE resolving' = [resolving EXCEPT ![q] = r] /\ UNCHANGED row
      <4>1. RowsTyped' /\ ResolvingTyped'
        BY <2>0, <3>2 DEF RowsTyped, ResolvingTyped
      <4> QED BY <2>3, <2>s, <4>1 DEF ResolveCheck
    <3>3. CASE Drop(r) /\ UNCHANGED resolving
      <4>1. RowsTyped'
        BY <2>0, <3>1, <3>3, RowUpdates DEF RowsTyped, Drop
      <4> QED BY <2>3, <2>r, <3>3, <4>1 DEF ResolveCheck
    <3> QED BY <2>3, <3>2, <3>3 DEF ResolveCheck
  <2>4. ASSUME NEW q \in Requests, ResolveCommit(q) PROVE HistoryTyping'
    <3>1. ResolvingTyped'
      BY <2>0, <2>4 DEF ResolveCommit, ResolvingTyped
    <3>2. CASE resolving[q] \in Stored
      <4>1. resolving[q] \in DOMAIN row /\ row' = [row EXCEPT ![resolving[q]].sender = "peer"]
        BY <2>4, <3>2 DEF ResolveCommit, Stored
      <4>2. RowsTyped'
        BY <2>0, <4>1, RowUpdates DEF RowsTyped
      <4> QED BY <2>4, <2>s, <3>1, <4>2 DEF ResolveCommit
    <3>3. CASE resolving[q] \notin Stored
      <4>1. RowsTyped'
        BY <2>0, <2>4, <3>3 DEF ResolveCommit, RowsTyped
      <4> QED BY <2>4, <2>s, <3>1, <4>1 DEF ResolveCommit
    <3> QED BY <3>2, <3>3
  <2>5. CASE MessageHistoryPage
    <3>1. row' = row /\ resolving' = resolving /\ page.pages < MaxPages
      BY <2>5 DEF MessageHistoryPage
    <3>2. ASSUME NEW p, PageOf(p) PROVE ReadingTyped'
      <4> DEFINE g == page.got \o p
                 start == IF page.pages = 0 THEN Visible ELSE page.start
      <4>1. page' = [page EXCEPT !.looked = FALSE, !.got = g, !.pages = page.pages + 1, !.start = start]
        BY <3>2 DEF PageOf
      <4>2. page.pages + 1 \in 0..MaxPages
        BY <2>0, <3>1, HistoryAssumption DEF ReadingTyped
      <4> HIDE DEF g, start
      <4>3. DOMAIN page' = DOMAIN page /\ page'.cursor = page.cursor /\ page'.pages = page.pages + 1
        BY <2>0, <4>1 DEF ReadingTyped, PageFields
      <4>4. (Times \cup {NoCursor})' = Times \cup {NoCursor}
        BY DEF NoCursor
      <4> QED BY <2>0, <4>2, <4>3, <4>4 DEF ReadingTyped
    <3>3. ASSUME page' = [page EXCEPT !.done = TRUE] PROVE ReadingTyped'
      BY <2>0, <3>3 DEF ReadingTyped, NoCursor, PageFields
    <3>4. ReadingTyped'
      BY <2>5, <3>2, <3>3 DEF MessageHistoryPage
    <3> QED BY <2>0, <3>1, <3>4 DEF HistoryTyping, RowsTyped, ResolvingTyped
  <2>8. CASE MessageHistoryLookUp
    <3> DEFINE oldest == page.got[Len(page.got)]
               cursor == IF oldest \in Stored THEN row[oldest].at ELSE NoCursor
               again == page.again \/ oldest \notin Stored
    <3>1. page' = [page EXCEPT !.looked = TRUE, !.cursor = cursor, !.again = again]
          /\ UNCHANGED <<row, resolving>>
      BY <2>8 DEF MessageHistoryLookUp
    <3>2. cursor \in Times \cup {NoCursor}
      BY <2>0 DEF Stored, RowsTyped, HistoryRow
    <3> HIDE DEF cursor, again
    <3>3. DOMAIN page' = PageFields /\ page'.cursor = cursor /\ page'.pages = page.pages
      BY <2>0, <3>1 DEF ReadingTyped, PageFields
    <3>4. ReadingTyped'
      BY <2>0, <3>2, <3>3 DEF ReadingTyped, NoCursor
    <3> QED BY <2>0, <3>1, <3>4 DEF HistoryTyping, RowsTyped, ResolvingTyped
  <2>9. CASE ResetMessages
    <3>1. \A r \in DOMAIN row : Dropped(row[r]) \in HistoryRow
      BY <2>0 DEF RowsTyped, HistoryRow, Dropped
    <3>2. RowsTyped'
      BY <2>0, <2>9, <3>1 DEF ResetMessages, RowsTyped
    <3> QED BY <2>9, <2>r, <3>2 DEF ResetMessages
  <2>7. CASE UNCHANGED historyVars
    BY <2>0, <2>7 DEF historyVars, HistoryTyping, RowsTyped, ReadingTyped, NoCursor, ResolvingTyped
  <2> QED BY <2>1, <2>2, <2>3, <2>4, <2>5, <2>7, <2>8, <2>9
          DEF MessageHistoryNext, CompatSendMessage, P2PDelete
<1>3. HistoryTyping => MessageHistoryTypeOK
  BY DEF HistoryTyping, RowsTyped, ReadingTyped, ResolvingTyped, MessageHistoryTypeOK, HistoryRow
<1> QED BY <1>1, <1>2, <1>3, PTL DEF MessageHistorySpec

\* Every variable of the delivery keeps its type.
THEOREM DeliveryTyped == Spec => []TypeOK
<1>1. DeliveryInv => TypeOK
  BY DEF DeliveryInv
<1> QED BY <1>1, DeliveryInvariant, PTL

(***************************************************************************)
(* The contact handshake.                                                  *)
(***************************************************************************)
LEMMA OtherOfOther ==
  ASSUME NEW n \in Sites
  PROVE  /\ OtherSite(n) \in Sites /\ OtherSite(n) # n /\ OtherSite(OtherSite(n)) = n
         /\ \A m \in Sites : m = n \/ m = OtherSite(n)
<1>1. PICK a \in Sites, b \in Sites : a # b /\ Sites = {a, b}
  BY ContactsAssumption
<1>2. OtherSite(n) \in Sites /\ OtherSite(n) # n
  BY <1>1 DEF OtherSite
<1>3. OtherSite(OtherSite(n)) \in Sites /\ OtherSite(OtherSite(n)) # OtherSite(n)
  BY <1>1, <1>2 DEF OtherSite
<1> QED BY <1>1, <1>2, <1>3

\* Without deletions the first row of a table is the one with id 1.
RowsInOrder ==
  /\ DOMAIN contact = Sites /\ DOMAIN nextId = Sites
  /\ \A n \in Sites :
       /\ nextId[n] \in Nat /\ nextId[n] >= 1
       /\ \A r \in contact[n] : /\ DOMAIN r = {"id", "status", "key", "secret"}
                                /\ r.id \in Nat /\ r.id >= 1 /\ r.id < nextId[n]
                                /\ r.status \in Statuses
       /\ \A r, s \in contact[n] : r.id = 1 /\ s.id = 1 => r = s
       /\ contact[n] # {} => \E r \in contact[n] : r.id = 1
       /\ contact[n] = {} => nextId[n] = 1

\* The first row has left pending_outgoing, where rows start and never return.
Settled(n) == \E r \in contact[n] : r.id = 1 /\ r.status # "pending_outgoing"
AcceptedFirst(n) == \E r \in contact[n] : r.id = 1 /\ r.status = "accepted"

\* What a handler found at its SELECT is the first row, and if that had left
\* pending_outgoing it still has.
HandlersFound ==
  \A h \in coroutine :
    /\ DOMAIN h = {"node", "kind", "found", "no", "seen"}
    /\ h.node \in Sites /\ h.found \in {0, 1}
    /\ h.kind \in {"agree", "accept", "secret"} => h.found = 1
    /\ h.found = 1 => contact[h.node] # {} /\ (h.seen # "pending_outgoing" => Settled(h.node))

\* Node n has a row of the other, or an add whose handshake went out.
Known(n) == contact[n] # {} \/ AddUnsettled(n)

\* A node that knows the other's key, or is about to be told, is known to it; an
\* acceptance was sent by a node whose own row is settled.
PeerKnows ==
  /\ \A n \in Sites : (\E r \in contact[n] : r.key) => Known(OtherSite(n))
  /\ \A p \in posts : /\ p.to \in Sites /\ p.path \in {"handshake", "accept"}
                      /\ Known(OtherSite(p.to))
                      /\ p.path = "accept" => Settled(OtherSite(p.to)) /\ Known(p.to)
  /\ \A h \in coroutine :
       /\ h.kind \in {"handshake", "agree"} => Known(OtherSite(h.node))
       /\ h.kind \in {"accept", "secret"} => Settled(OtherSite(h.node))
  /\ DOMAIN socketEvents = Sites
  /\ \A n \in Sites : socketEvents[n] \in Nat /\ (socketEvents[n] > 0 => Settled(OtherSite(n)))

AcceptComing(m) ==
  \/ \E p \in posts : p.to = m /\ p.path = "accept"
  \/ \E h \in coroutine : h.node = m /\ h.kind = "accept"

\* An accepted contact is settled on the other node, or its acceptance is coming.
AcceptanceKnown ==
  \A n \in Sites : AcceptedFirst(n) => Settled(OtherSite(n)) \/ AcceptComing(OtherSite(n))

ContactsSafe == RowsInOrder /\ HandlersFound /\ PeerKnows /\ AcceptanceKnown

LEMMA FirstIsOne ==
  ASSUME RowsInOrder, NEW n \in Sites, contact[n] # {}
  PROVE  FirstId(n) = 1 /\ FirstRow(n) \in contact[n] /\ FirstRow(n).id = 1
<1>1. PICK r \in contact[n] : r.id = 1
  BY DEF RowsInOrder
<1>2. \A s \in contact[n] : s.id \in Nat /\ 1 <= s.id
  BY DEF RowsInOrder
<1> DEFINE Least == CHOOSE i \in {s.id : s \in contact[n]} : \A s \in contact[n] : i <= s.id
<1>3. Least \in {s.id : s \in contact[n]} /\ \A s \in contact[n] : Least <= s.id
  <2>1. 1 \in {s.id : s \in contact[n]} /\ \A s \in contact[n] : 1 <= s.id
    BY <1>1, <1>2
  <2> QED BY <2>1
<1> HIDE DEF Least
<1>4. Least = 1
  BY <1>1, <1>2, <1>3
<1>5. FirstId(n) = 1
  BY <1>4 DEF FirstId, Least
<1> QED BY <1>1, <1>5 DEF FirstRow

\* Rows are only added and updated: what is there and what is settled stays.
Grown(n) ==
  /\ RowsInOrder' /\ contact'[n] # {}
  /\ Settled(n) => Settled(n)'
  /\ \A m \in Sites \ {n} : contact'[m] = contact[m]

LEMMA InsertGrows ==
  ASSUME RowsInOrder, NEW n \in Sites, NEW status \in Statuses, NEW key, InsertRow(n, status, key)
  PROVE  Grown(n) /\ (status # "accepted" /\ AcceptedFirst(n)' => AcceptedFirst(n))
<1> DEFINE new == [id |-> nextId[n], status |-> status, key |-> key, secret |-> FALSE]
<1>1. /\ DOMAIN new = {"id", "status", "key", "secret"} /\ new.id = nextId[n] /\ new.status = status
  OBVIOUS
<1> HIDE DEF new
<1>2. /\ DOMAIN contact' = Sites /\ DOMAIN nextId' = Sites
      /\ contact'[n] = contact[n] \cup {new} /\ nextId'[n] = nextId[n] + 1
      /\ \A m \in Sites \ {n} : contact'[m] = contact[m] /\ nextId'[m] = nextId[m]
  BY DEF InsertRow, RowsInOrder, new
<1>3. RowsInOrder'
  <2>1. nextId[n] \in Nat /\ nextId[n] >= 1
    BY DEF RowsInOrder
  <2>2. \A r \in contact'[n] : /\ DOMAIN r = {"id", "status", "key", "secret"}
                               /\ r.id \in Nat /\ r.id >= 1 /\ r.id < nextId'[n]
                               /\ r.status \in Statuses
    BY <1>1, <1>2, <2>1 DEF RowsInOrder
  <2>3. \A r, s \in contact'[n] : r.id = 1 /\ s.id = 1 => r = s
    BY <1>1, <1>2, <2>1 DEF RowsInOrder
  <2>4. \E r \in contact'[n] : r.id = 1
    BY <1>1, <1>2 DEF RowsInOrder
  <2>5. nextId'[n] \in Nat /\ nextId'[n] >= 1 /\ contact'[n] # {}
    BY <1>2, <2>1
  <2> QED BY <1>2, <2>2, <2>3, <2>4, <2>5 DEF RowsInOrder
<1>4. Settled(n) => Settled(n)'
  BY <1>2 DEF Settled
<1>5. status # "accepted" /\ AcceptedFirst(n)' => AcceptedFirst(n)
  BY <1>1, <1>2 DEF AcceptedFirst
<1> QED BY <1>2, <1>3, <1>4, <1>5 DEF Grown

LEMMA UpdateGrows ==
  ASSUME RowsInOrder, HandlersFound, NEW h \in coroutine, h.found = 1,
         NEW status \in {"pending_incoming", "accepted"}, NEW key, NEW secret,
         UpdateRow(h, status, key, secret), UNCHANGED nextId
  PROVE  h.node \in Sites /\ Grown(h.node) /\ Settled(h.node)'
<1> DEFINE n == h.node
           f(r) == IF r.id = h.found
                   THEN [r EXCEPT !.status = IF h.seen = status THEN @ ELSE status,
                                  !.key = @ \/ key, !.secret = @ \/ secret]
                   ELSE r
<1>1. n \in Sites /\ contact[n] # {} /\ (h.seen # "pending_outgoing" => Settled(n))
  BY DEF HandlersFound
<1>2. \A r \in contact[n] : /\ DOMAIN f(r) = {"id", "status", "key", "secret"} /\ f(r).id = r.id
                            /\ r.id = 1 => f(r).status = IF h.seen = status THEN r.status ELSE status
                            /\ f(r).status \in Statuses
  BY <1>1 DEF RowsInOrder, Statuses
<1>3. contact' = [contact EXCEPT ![n] = {f(r) : r \in contact[n]}]
  BY DEF UpdateRow
<1> HIDE DEF n, f
<1>4. /\ DOMAIN contact' = Sites /\ contact'[n] = {f(r) : r \in contact[n]}
      /\ \A m \in Sites \ {n} : contact'[m] = contact[m]
  BY <1>1, <1>3 DEF RowsInOrder
<1>5. PICK r \in contact[n] : r.id = 1
  BY <1>1 DEF RowsInOrder
<1>6. f(r) \in contact'[n] /\ f(r).id = 1 /\ \A s \in contact[n] : s.id = 1 => s = r
  BY <1>1, <1>2, <1>4, <1>5 DEF RowsInOrder
<1>7. f(r).status # "pending_outgoing"
  <2>1. CASE h.seen = status
    BY <1>1, <1>2, <1>5, <1>6, <2>1 DEF Settled
  <2>2. CASE h.seen # status
    BY <1>2, <1>5, <2>2
  <2> QED BY <2>1, <2>2
<1>8. Settled(n)'
  BY <1>6, <1>7 DEF Settled, n
<1>9. RowsInOrder'
  <2>1. \A x \in contact'[n] : /\ DOMAIN x = {"id", "status", "key", "secret"}
                               /\ x.id \in Nat /\ x.id >= 1 /\ x.id < nextId[n]
                               /\ x.status \in Statuses
    BY <1>1, <1>2, <1>4 DEF RowsInOrder
  <2>2. \A x \in contact'[n] : x.id = 1 => x = f(r)
    BY <1>2, <1>4, <1>6
  <2>3. \A x, y \in contact'[n] : x.id = 1 /\ y.id = 1 => x = y
    BY <2>2
  <2> QED BY <1>1, <1>4, <1>6, <2>1, <2>3 DEF RowsInOrder
<1> QED BY <1>1, <1>4, <1>6, <1>8, <1>9 DEF Grown, n

\* Who is known stays known, when no row goes and no task is forgotten.
LEMMA KnownStays ==
  ASSUME NEW m, contact[m] # {} => contact'[m] # {}, unstored \subseteq unstored',
         \A h \in coroutine : h.node = m /\ h.kind = "told" => h \in coroutine' \/ contact'[m] # {},
         Known(m)
  PROVE  Known(m)'
BY DEF Known, AddUnsettled

\* The SELECT of a handler at node n.
LEMMA BeginFound ==
  ASSUME ContactsSafe, NEW n \in Sites, NEW kind, NEW no, Begin(n, kind, no),
         kind \in {"agree", "accept", "secret"} => contact[n] # {},
         kind \in {"handshake", "agree"} => Known(OtherSite(n)),
         kind \in {"accept", "secret"} => Settled(OtherSite(n)),
         UNCHANGED <<contact, nextId>>
  PROVE  /\ RowsInOrder' /\ HandlersFound' /\ coroutine \subseteq coroutine'
         /\ \A h \in coroutine' :
               /\ h.kind \in {"handshake", "agree"} => Known(OtherSite(h.node))
               /\ h.kind \in {"accept", "secret"} => Settled(OtherSite(h.node))
         /\ \E h \in coroutine' : h.node = n /\ h.kind = kind
<1> DEFINE seen == IF contact[n] = {} THEN "none" ELSE FirstRow(n).status
           b == [node |-> n, kind |-> kind, found |-> FirstId(n), no |-> no, seen |-> seen]
<1>1. /\ coroutine' = coroutine \cup {b} /\ b.node = n /\ b.kind = kind /\ b.found = FirstId(n)
      /\ b.seen = seen /\ DOMAIN b = {"node", "kind", "found", "no", "seen"}
  BY DEF Begin
<1>2. contact[n] = {} => FirstId(n) = 0
  BY DEF FirstId
<1>3. contact[n] # {} => FirstId(n) = 1 /\ (seen # "pending_outgoing" => Settled(n))
  BY FirstIsOne DEF ContactsSafe, Settled
<1> HIDE DEF b, seen
<1>4. RowsInOrder' /\ \A m : Settled(m)' <=> Settled(m)
  BY DEF ContactsSafe, RowsInOrder, Settled
<1>5. HandlersFound'
  BY <1>1, <1>2, <1>3, <1>4 DEF ContactsSafe, HandlersFound
<1> QED BY <1>1, <1>4, <1>5 DEF ContactsSafe, PeerKnows

\* Where rows were only added or updated, what the others know stays true.
LEMMA GrownKnows ==
  ASSUME ContactsSafe, NEW n \in Sites, Grown(n)
  PROVE  /\ \A m \in Sites : contact[m] # {} => contact'[m] # {}
         /\ \A m \in Sites : Settled(m) => Settled(m)'
         /\ \A m \in Sites \ {n} : AcceptedFirst(m)' <=> AcceptedFirst(m)
         /\ \A m \in Sites \ {n} : contact'[m] = contact[m]
         /\ RowsInOrder'
         /\ \A h \in coroutine : h.node \in Sites /\ OtherSite(h.node) \in Sites
         /\ \A p \in posts : p.to \in Sites /\ OtherSite(p.to) \in Sites
BY OtherOfOther DEF Grown, Settled, AcceptedFirst, ContactsSafe, HandlersFound, PeerKnows

\* A handler that ends keeps what holds of the others.
LEMMA HandlersLeft ==
  ASSUME ContactsSafe, NEW n \in Sites, Grown(n), coroutine' \subseteq coroutine,
         \A m \in Sites : Known(m) => Known(m)'
  PROVE  /\ HandlersFound'
         /\ \A h \in coroutine' :
               /\ h.kind \in {"handshake", "agree"} => Known(OtherSite(h.node))'
               /\ h.kind \in {"accept", "secret"} => Settled(OtherSite(h.node))'
<1>1. \A m \in Sites : (contact[m] # {} => contact'[m] # {}) /\ (Settled(m) => Settled(m)')
  BY GrownKnows
<1>2. \A h \in coroutine : h.node \in Sites /\ OtherSite(h.node) \in Sites
  BY GrownKnows
<1>3. HandlersFound'
  BY <1>1, <1>2 DEF ContactsSafe, HandlersFound
<1>4. ASSUME NEW h \in coroutine', h.kind \in {"accept", "secret"} PROVE Settled(OtherSite(h.node))'
  <2>1. Settled(OtherSite(h.node)) /\ OtherSite(h.node) \in Sites
    BY <1>2, <1>4 DEF ContactsSafe, PeerKnows
  <2> QED BY <1>1, <2>1
<1>5. ASSUME NEW h \in coroutine', h.kind \in {"handshake", "agree"} PROVE Known(OtherSite(h.node))'
  BY <1>2, <1>5 DEF ContactsSafe, PeerKnows
<1> QED BY <1>3, <1>4, <1>5

\* The SELECTs keep the invariant.
LEMMA BeginSafe ==
  ASSUME ContactsSafe, NEW n \in Sites, NEW kind,
         BeginAdd(n, kind) \/ BeginAgree(n) \/ BeginSaveSecret(n)
  PROVE  ContactsSafe'
<1>1. UNCHANGED <<contact, nextId, posts, unstored>> /\ DOMAIN socketEvents' = Sites
  BY DEF BeginAdd, BeginAgree, BeginSaveSecret, ContactsSafe, PeerKnows
<1>2. \A m \in Sites : /\ socketEvents[m] \in Nat /\ socketEvents'[m] \in Nat
                       /\ socketEvents'[m] > 0 => socketEvents[m] > 0
  BY DEF BeginAdd, BeginAgree, BeginSaveSecret, ContactsSafe, PeerKnows
<1>3. /\ RowsInOrder' /\ HandlersFound' /\ coroutine \subseteq coroutine'
      /\ \A h \in coroutine' :
            /\ h.kind \in {"handshake", "agree"} => Known(OtherSite(h.node))
            /\ h.kind \in {"accept", "secret"} => Settled(OtherSite(h.node))
  <2>1. CASE BeginAdd(n, kind)
    BY <2>1, BeginFound DEF BeginAdd
  <2>2. CASE BeginAgree(n)
    <3>1. contact[n] # {} /\ Known(OtherSite(n))
      BY <2>2, FirstIsOne DEF BeginAgree, ContactsSafe, PeerKnows
    <3>2. Begin(n, "agree", agreed[n]) /\ UNCHANGED <<contact, nextId>>
      BY <2>2 DEF BeginAgree
    <3> QED BY <3>1, <3>2, BeginFound
  <2>3. CASE BeginSaveSecret(n)
    <3>1. contact[n] # {} /\ Settled(OtherSite(n))
      BY <2>3 DEF BeginSaveSecret, ContactsSafe, PeerKnows
    <3>2. Begin(n, "secret", socketEvents[n]) /\ UNCHANGED <<contact, nextId>>
      BY <2>3 DEF BeginSaveSecret
    <3> QED BY <3>1, <3>2, BeginFound
  <2> QED BY <2>1, <2>2, <2>3
<1>4. \A m : (Settled(m)' <=> Settled(m)) /\ (AcceptedFirst(m)' <=> AcceptedFirst(m))
             /\ (AcceptComing(m) => AcceptComing(m)') /\ (Known(m) => Known(m)')
  BY <1>1, <1>3, KnownStays DEF Settled, AcceptedFirst, AcceptComing
<1>5. PeerKnows'
  BY <1>1, <1>2, <1>3, <1>4 DEF ContactsSafe, PeerKnows
<1>6. AcceptanceKnown'
  BY <1>4 DEF ContactsSafe, AcceptanceKnown
<1> QED BY <1>3, <1>5, <1>6 DEF ContactsSafe

LEMMA ArriveSafe ==
  ASSUME ContactsSafe, NEW p \in posts, Arrive(p), ~broken'
  PROVE  ContactsSafe'
<1>1. /\ p.to \in Sites /\ p.path \in {"handshake", "accept"} /\ Known(OtherSite(p.to))
      /\ p.path = "accept" => Settled(OtherSite(p.to)) /\ contact[p.to] # {}
  BY DEF ContactsSafe, PeerKnows, Known, Arrive
<1>2. UNCHANGED <<contact, nextId, unstored, socketEvents>> /\ posts' = posts \ {p} /\ Begin(p.to, p.path, p.no)
  BY <1>1 DEF Arrive
<1>3. /\ RowsInOrder' /\ HandlersFound' /\ coroutine \subseteq coroutine'
      /\ \A h \in coroutine' :
            /\ h.kind \in {"handshake", "agree"} => Known(OtherSite(h.node))
            /\ h.kind \in {"accept", "secret"} => Settled(OtherSite(h.node))
      /\ \E h \in coroutine' : h.node = p.to /\ h.kind = p.path
  BY <1>1, <1>2, BeginFound
<1>4. \A m : (Settled(m)' <=> Settled(m)) /\ (AcceptedFirst(m)' <=> AcceptedFirst(m))
             /\ (AcceptComing(m) => AcceptComing(m)') /\ (Known(m) => Known(m)')
  BY <1>2, <1>3, KnownStays DEF Settled, AcceptedFirst, AcceptComing
<1>5. PeerKnows'
  BY <1>2, <1>3, <1>4 DEF ContactsSafe, PeerKnows
<1>6. AcceptanceKnown'
  BY <1>4 DEF ContactsSafe, AcceptanceKnown
<1> QED BY <1>3, <1>5, <1>6 DEF ContactsSafe

\* A handler that inserts a row: an add, or a handshake that found none.
LEMMA InsertSafe ==
  ASSUME ContactsSafe, NEW h \in coroutine, NEW status \in {"pending_outgoing", "pending_incoming"},
         NEW key \in BOOLEAN, InsertRow(h.node, status, key), key => Known(OtherSite(h.node)),
         h.kind # "accept", Done(h), UNCHANGED <<posts, unstored, socketEvents>>
  PROVE  ContactsSafe'
<1> DEFINE n == h.node
<1>0. n \in Sites /\ OtherSite(n) \in Sites /\ OtherSite(n) # n /\ OtherSite(OtherSite(n)) = n
      /\ \A m \in Sites : m = n \/ m = OtherSite(n)
  BY OtherOfOther DEF ContactsSafe, HandlersFound
<1>1. Grown(n) /\ (AcceptedFirst(n)' => AcceptedFirst(n))
  <2>1. RowsInOrder /\ status \in Statuses /\ status # "accepted"
    BY DEF ContactsSafe, Statuses
  <2> QED BY <1>0, <2>1, InsertGrows
<1>2. coroutine' = coroutine \ {h}
  BY DEF Done
<1> HIDE DEF n
<1>5. /\ \A m \in Sites : contact[m] # {} => contact'[m] # {}
      /\ \A m \in Sites : Settled(m) => Settled(m)'
      /\ \A m \in Sites : AcceptedFirst(m)' => AcceptedFirst(m)
      /\ RowsInOrder' /\ contact'[n] # {} /\ contact'[OtherSite(n)] = contact[OtherSite(n)]
      /\ \A q \in posts : q.to \in Sites /\ OtherSite(q.to) \in Sites
  BY <1>0, <1>1, GrownKnows DEF Grown
<1>3. ASSUME NEW m \in Sites, Known(m) PROVE Known(m)'
  <2>1. \A x \in coroutine : x.node = m /\ x.kind = "told" => x \in coroutine' \/ contact'[m] # {}
    BY <1>2, <1>5 DEF n
  <2> QED BY <1>3, <1>5, <2>1, KnownStays
<1>6. HandlersFound' /\ \A x \in coroutine' :
               /\ x.kind \in {"handshake", "agree"} => Known(OtherSite(x.node))'
               /\ x.kind \in {"accept", "secret"} => Settled(OtherSite(x.node))'
  BY <1>0, <1>1, <1>2, <1>3, HandlersLeft
<1>7. PeerKnows'
  <2>1. ASSUME NEW m \in Sites, NEW r \in contact'[m], r.key PROVE Known(OtherSite(m))'
    <3>1. CASE r \in contact[m]
      BY <1>0, <1>3, <2>1, <3>1 DEF ContactsSafe, PeerKnows
    <3>2. CASE r \notin contact[m]
      <4>1. m = n
        BY <1>0, <1>5, <3>2
      <4>2. contact'[n] = contact[n] \cup {[id |-> nextId[n], status |-> status, key |-> key, secret |-> FALSE]}
        BY <1>0 DEF InsertRow, ContactsSafe, RowsInOrder, n
      <4>3. key
        BY <2>1, <3>2, <4>1, <4>2
      <4> QED BY <1>0, <1>3, <4>1, <4>3 DEF n
    <3> QED BY <3>1, <3>2
  <2>2. ASSUME NEW q \in posts'
        PROVE  /\ q.to \in Sites /\ q.path \in {"handshake", "accept"}
               /\ Known(OtherSite(q.to))'
               /\ q.path = "accept" => Settled(OtherSite(q.to))' /\ Known(q.to)'
    BY <1>3, <1>5 DEF ContactsSafe, PeerKnows
  <2>3. ASSUME NEW m \in Sites
        PROVE  socketEvents'[m] \in Nat /\ (socketEvents'[m] > 0 => Settled(OtherSite(m))')
    <3>1. OtherSite(m) \in Sites /\ (socketEvents[m] > 0 => Settled(OtherSite(m)))
      BY OtherOfOther DEF ContactsSafe, PeerKnows
    <3> QED BY <1>5, <3>1 DEF ContactsSafe, PeerKnows
  <2>4. DOMAIN socketEvents' = Sites
    BY DEF ContactsSafe, PeerKnows
  <2> QED BY <1>6, <2>1, <2>2, <2>3, <2>4 DEF PeerKnows
<1>8. AcceptanceKnown'
  <2>1. \A m : AcceptComing(m) => AcceptComing(m)'
    BY <1>2 DEF AcceptComing
  <2>2. ASSUME NEW m \in Sites, AcceptedFirst(m)'
        PROVE  Settled(OtherSite(m))' \/ AcceptComing(OtherSite(m))'
    <3>1. OtherSite(m) \in Sites /\ (Settled(OtherSite(m)) \/ AcceptComing(OtherSite(m)))
      BY <1>5, <2>2, OtherOfOther DEF ContactsSafe, AcceptanceKnown
    <3> QED BY <1>5, <2>1, <3>1
  <2> QED BY <2>2 DEF AcceptanceKnown
<1> QED BY <1>5, <1>6, <1>7, <1>8 DEF ContactsSafe

\* A handler that goes on to its next stage, or ends, and leaves the rows alone.
LEMMA StageSafe ==
  ASSUME ContactsSafe, NEW h \in coroutine, NEW g,
         DOMAIN g = DOMAIN h /\ g.node = h.node /\ g.found = h.found /\ g.seen = h.seen,
         g.kind \in {"flushed", "told"}, coroutine \ {h} \subseteq coroutine', h.kind # "accept",
         coroutine' \subseteq (coroutine \ {h}) \cup {g},
         UNCHANGED <<contact, nextId, socketEvents>>, unstored \subseteq unstored',
         h.kind = "told" => h.node \in unstored',
         posts' = posts \/ \E q : /\ q.to = OtherSite(h.node) /\ q.path = "handshake"
                                /\ posts' = posts \cup {q} /\ AddUnsettled(h.node)'
  PROVE  ContactsSafe'
<1>0. h.node \in Sites /\ OtherSite(h.node) \in Sites /\ OtherSite(OtherSite(h.node)) = h.node
  BY OtherOfOther DEF ContactsSafe, HandlersFound
<1>1. \A m : (Settled(m)' <=> Settled(m)) /\ (AcceptedFirst(m)' <=> AcceptedFirst(m))
  BY DEF Settled, AcceptedFirst
<1>2. ASSUME NEW m, Known(m) PROVE Known(m)'
  BY <1>2 DEF Known, AddUnsettled
<1>3. \A m : AcceptComing(m) => AcceptComing(m)'
  BY DEF AcceptComing
<1>4. RowsInOrder'
  BY DEF ContactsSafe, RowsInOrder
<1>5. HandlersFound'
  <2>1. \A x \in coroutine' : x \in coroutine \/ x = g
    OBVIOUS
  <2> QED BY <1>1, <2>1 DEF ContactsSafe, HandlersFound
<1>6. ASSUME NEW q \in posts'
      PROVE  /\ q.to \in Sites /\ q.path \in {"handshake", "accept"}
             /\ Known(OtherSite(q.to))'
             /\ q.path = "accept" => Settled(OtherSite(q.to))' /\ Known(q.to)'
  <2>1. CASE q \in posts
    BY <1>1, <1>2, <2>1 DEF ContactsSafe, PeerKnows
  <2>2. CASE q \notin posts
    <3>1. q.to = OtherSite(h.node) /\ q.path = "handshake" /\ AddUnsettled(h.node)'
      BY <2>2
    <3> QED BY <1>0, <3>1 DEF Known
  <2> QED BY <2>1, <2>2
<1>7. PeerKnows'
  <2>1. \A x \in coroutine' : x \in coroutine \/ x.kind \in {"flushed", "told"}
    OBVIOUS
  <2>2. ASSUME NEW m \in Sites, NEW r \in contact'[m], r.key PROVE Known(OtherSite(m))'
    BY <1>2, <2>2 DEF ContactsSafe, PeerKnows
  <2>3. \A x \in coroutine' : /\ x.kind \in {"handshake", "agree"} => Known(OtherSite(x.node))'
                              /\ x.kind \in {"accept", "secret"} => Settled(OtherSite(x.node))'
    BY <1>1, <1>2, <2>1 DEF ContactsSafe, PeerKnows
  <2>4. ASSUME NEW m \in Sites
        PROVE  socketEvents'[m] \in Nat /\ (socketEvents'[m] > 0 => Settled(OtherSite(m))')
    BY <1>1 DEF ContactsSafe, PeerKnows
  <2>5. DOMAIN socketEvents' = Sites
    BY DEF ContactsSafe, PeerKnows
  <2> QED BY <1>6, <2>2, <2>3, <2>4, <2>5 DEF PeerKnows
<1>8. AcceptanceKnown'
  BY <1>1, <1>3 DEF ContactsSafe, AcceptanceKnown
<1> QED BY <1>4, <1>5, <1>7, <1>8 DEF ContactsSafe

\* A handler that updates the first row leaves it settled.
LEMMA UpdateSafe ==
  ASSUME ContactsSafe, NEW h \in coroutine,
         (P2PHandshake(h) /\ h.found = 1) \/ P2PAcceptV3(h) \/ AgreeContact(h) \/ SaveSecretV3(h)
  PROVE  ContactsSafe'
<1> DEFINE n == h.node
<1>0. n \in Sites /\ OtherSite(n) \in Sites /\ OtherSite(n) # n /\ OtherSite(OtherSite(n)) = n
      /\ \A m \in Sites : m = n \/ m = OtherSite(n)
  BY OtherOfOther DEF ContactsSafe, HandlersFound
<1>1. h.found = 1 /\ h.kind \in {"handshake", "accept", "agree", "secret"} /\ contact[n] # {}
  BY DEF P2PHandshake, P2PAcceptV3, AgreeContact, SaveSecretV3, ContactsSafe, HandlersFound
<1>2. Grown(n) /\ Settled(n)'
  <2>0. RowsInOrder /\ HandlersFound /\ h.found = 1
    BY <1>1 DEF ContactsSafe
  <2> HIDE DEF n
  <2>1. CASE P2PHandshake(h) /\ h.found = 1
    <3>0. h.found # 0
      BY <2>1
    <3>1. UpdateRow(h, "pending_incoming", TRUE, FALSE) /\ UNCHANGED nextId
      BY <2>1, <3>0, Zenon DEF P2PHandshake
    <3> QED BY <2>0, <3>1, UpdateGrows DEF n
  <2>2. CASE P2PAcceptV3(h)
    <3>1. UpdateRow(h, "accepted", TRUE, FALSE) /\ UNCHANGED nextId
      BY <2>2 DEF P2PAcceptV3
    <3> QED BY <2>0, <3>1, UpdateGrows DEF n
  <2>3. CASE AgreeContact(h)
    <3>1. UpdateRow(h, "accepted", FALSE, TRUE) /\ UNCHANGED nextId
      BY <2>3 DEF AgreeContact
    <3> QED BY <2>0, <3>1, UpdateGrows DEF n
  <2>4. CASE SaveSecretV3(h)
    <3>1. UpdateRow(h, "accepted", TRUE, TRUE) /\ UNCHANGED nextId
      BY <2>4 DEF SaveSecretV3
    <3> QED BY <2>0, <3>1, UpdateGrows DEF n
  <2> QED BY <2>1, <2>2, <2>3, <2>4
<1>3. Known(OtherSite(n)) /\ (h.kind \in {"accept", "secret"} => Settled(OtherSite(n)))
  BY <1>1 DEF ContactsSafe, PeerKnows, Settled, Known
<1>4. coroutine' = coroutine \ {h} /\ DOMAIN socketEvents' = Sites /\ unstored' = unstored
  BY DEF P2PHandshake, P2PAcceptV3, AgreeContact, SaveSecretV3, Done, ContactsSafe, PeerKnows
<1>5. \A m \in Sites : /\ socketEvents'[m] \in Nat
                       /\ socketEvents'[m] > 0 => socketEvents[m] > 0 \/ (m = n /\ h.kind = "accept")
  <2>1. CASE P2PHandshake(h) \/ AgreeContact(h) \/ SaveSecretV3(h)
    BY <2>1 DEF P2PHandshake, AgreeContact, SaveSecretV3, ContactsSafe, PeerKnows
  <2>2. CASE P2PAcceptV3(h)
    <3>1. h.kind = "accept"
          /\ socketEvents' = [socketEvents EXCEPT ![n] = IF RowExists(h) THEN @ + 1 ELSE @]
      BY <2>2 DEF P2PAcceptV3
    <3>2. /\ \A m \in Sites \ {n} : socketEvents'[m] = socketEvents[m]
          /\ socketEvents'[n] \in {socketEvents[n], socketEvents[n] + 1}
      BY <1>0, <3>1 DEF ContactsSafe, PeerKnows
    <3> QED BY <3>1, <3>2 DEF ContactsSafe, PeerKnows
  <2> QED BY <2>1, <2>2
<1>6. RowExists(h)
  BY <1>0, <1>1 DEF RowExists, ContactsSafe, RowsInOrder
<1>7. /\ posts \subseteq posts'
      /\ \A q \in posts' : q \in posts \/ (q.to = OtherSite(n) /\ q.path = "accept")
      /\ h.kind = "agree" => \E q \in posts' : q.to = OtherSite(n) /\ q.path = "accept"
  <2>1. CASE AgreeContact(h)
    <3>1. posts' = posts \cup {[to |-> OtherSite(n), path |-> "accept", no |-> h.no]}
      BY <1>6, <2>1 DEF AgreeContact, PostTo
    <3> DEFINE q == [to |-> OtherSite(n), path |-> "accept", no |-> h.no]
    <3>2. q.to = OtherSite(n) /\ q.path = "accept"
      OBVIOUS
    <3>3. posts' = posts \cup {q}
      BY <3>1
    <3> HIDE DEF q
    <3> QED BY <3>2, <3>3
  <2>2. CASE P2PHandshake(h) \/ P2PAcceptV3(h) \/ SaveSecretV3(h)
    BY <2>2 DEF P2PHandshake, P2PAcceptV3, SaveSecretV3
  <2> QED BY <2>1, <2>2
<1> HIDE DEF n
<1>8. /\ \A m \in Sites : contact[m] # {} => contact'[m] # {}
      /\ \A m \in Sites : Settled(m) => Settled(m)'
      /\ AcceptedFirst(OtherSite(n))' => AcceptedFirst(OtherSite(n))
      /\ RowsInOrder' /\ contact'[n] # {} /\ contact'[OtherSite(n)] = contact[OtherSite(n)]
      /\ \A q \in posts : q.to \in Sites /\ OtherSite(q.to) \in Sites
  BY <1>0, <1>2, GrownKnows DEF Grown
<1>12. ASSUME NEW m \in Sites, Known(m) PROVE Known(m)'
  <2>1. \A x \in coroutine : x.kind = "told" => x \in coroutine'
    BY <1>1, <1>4
  <2> QED BY <1>4, <1>8, <1>12, <2>1, KnownStays
<1>9. HandlersFound' /\ \A x \in coroutine' :
               /\ x.kind \in {"handshake", "agree"} => Known(OtherSite(x.node))'
               /\ x.kind \in {"accept", "secret"} => Settled(OtherSite(x.node))'
  BY <1>0, <1>2, <1>4, <1>12, HandlersLeft
<1>10. PeerKnows'
  <2>1. \A m \in Sites : Known(m)'
    BY <1>0, <1>3, <1>8, <1>12 DEF Known
  <2>2. ASSUME NEW q \in posts'
        PROVE  /\ q.to \in Sites /\ q.path \in {"handshake", "accept"}
               /\ Known(OtherSite(q.to))'
               /\ q.path = "accept" => Settled(OtherSite(q.to))' /\ Known(q.to)'
    <3>1. CASE q \in posts
      <4>1. q.path = "accept" => Settled(OtherSite(q.to))
        BY <3>1 DEF ContactsSafe, PeerKnows
      <4>2. q.path = "accept" => Settled(OtherSite(q.to))'
        BY <1>8, <3>1, <4>1
      <4> QED BY <1>8, <2>1, <3>1, <4>2 DEF ContactsSafe, PeerKnows
    <3>2. CASE q.to = OtherSite(n) /\ q.path = "accept"
      BY <1>0, <1>2, <2>1, <3>2
    <3> QED BY <1>7, <3>1, <3>2
  <2>3. ASSUME NEW m \in Sites, socketEvents'[m] > 0 PROVE Settled(OtherSite(m))'
    <3>1. OtherSite(m) \in Sites /\ Settled(OtherSite(m))
      BY <1>3, <1>5, <2>3, OtherOfOther DEF ContactsSafe, PeerKnows
    <3> QED BY <1>8, <3>1
  <2>4. \A m \in Sites : Known(OtherSite(m))'
    BY <2>1, OtherOfOther
  <2> QED BY <1>4, <1>5, <1>9, <2>2, <2>3, <2>4 DEF PeerKnows
<1>11. AcceptanceKnown'
  <2>1. ASSUME AcceptComing(OtherSite(n)) PROVE AcceptComing(OtherSite(n))'
    BY <1>0, <1>4, <1>7, <2>1 DEF AcceptComing, n
  <2>2. Settled(OtherSite(n))' \/ AcceptComing(OtherSite(n))' \/ ~AcceptedFirst(n)'
    <3>1. CASE h.kind = "agree"
      BY <1>7, <3>1 DEF AcceptComing
    <3>2. CASE h.kind \in {"accept", "secret"}
      BY <1>0, <1>3, <1>8, <3>2
    <3>3. CASE h.kind = "handshake"
      <4>1. SUFFICES ASSUME AcceptedFirst(n)' PROVE AcceptedFirst(n)
        BY <1>0, <1>8, <2>1 DEF ContactsSafe, AcceptanceKnown
      <4>2. UpdateRow(h, "pending_incoming", TRUE, FALSE)
        <5>1. P2PHandshake(h)
          BY <3>3 DEF P2PAcceptV3, AgreeContact, SaveSecretV3
        <5>2. h.found # 0
          BY <1>1
        <5> QED BY <5>1, <5>2, Zenon DEF P2PHandshake
      <4> DEFINE f(r) == IF r.id = h.found
                   THEN [r EXCEPT !.status = IF h.seen = "pending_incoming" THEN @ ELSE "pending_incoming",
                                  !.key = @ \/ TRUE, !.secret = @ \/ FALSE]
                   ELSE r
      <4>3. contact'[n] = {f(r) : r \in contact[n]}
        BY <1>0, <4>2 DEF UpdateRow, ContactsSafe, RowsInOrder, n
      <4>4. \A r \in contact[n] : f(r).id = r.id /\ (r.id = 1 => f(r).status \in {r.status, "pending_incoming"})
        BY <1>0, <1>1 DEF ContactsSafe, RowsInOrder
      <4> HIDE DEF f
      <4> QED BY <4>1, <4>3, <4>4 DEF AcceptedFirst
    <3> QED BY <1>1, <3>1, <3>2, <3>3
  <2> QED BY <1>0, <1>2, <2>2 DEF AcceptanceKnown
<1> QED BY <1>8, <1>9, <1>10, <1>11 DEF ContactsSafe

\* No contact is left half open: with nothing deleted and no acceptance failed, what
\* is accepted on one node is accepted or waits for its user on the other, for any
\* number of adds, accepts, lost handshakes and overlapping handlers.
THEOREM ContactsNotHalfOpen == ContactsSpec => []NoHalfOpen
<1> DEFINE Inv == broken \/ ContactsSafe
<1>1. ContactsInit => Inv
  BY OtherOfOther
     DEF ContactsInit, ContactsSafe, RowsInOrder, HandlersFound, PeerKnows, AcceptanceKnown, AcceptedFirst
<1>2. Inv /\ [ContactsNext]_contactVars => Inv'
  <2> SUFFICES ASSUME ContactsSafe, ~broken', [ContactsNext]_contactVars PROVE ContactsSafe'
    <3>1. ASSUME broken, [ContactsNext]_contactVars PROVE broken'
      BY <3>1 DEF ContactsNext, contactVars, BeginAdd, BeginAgree, BeginSaveSecret, RemoveContact,
         LegacyDeleteContact, ResetContacts, Arrive, PostLost, AddContactV3, TransmitHandshake,
         CommitAdd, LockTimeout, CompatAdd, P2PHandshake,
         P2PAcceptV3, AgreeContact, SaveSecretV3
    <3> QED BY <3>1
  <2>1. ASSUME NEW n \in Sites, NEW kind, BeginAdd(n, kind) \/ BeginAgree(n) \/ BeginSaveSecret(n)
        PROVE  ContactsSafe'
    BY <2>1, BeginSafe
  <2>2. ASSUME NEW n \in Sites, RemoveContact(n) \/ LegacyDeleteContact(n) \/ ResetContacts(n) PROVE FALSE
    BY <2>2 DEF RemoveContact, LegacyDeleteContact, ResetContacts
  <2>3. ASSUME NEW p \in posts, PostLost(p) PROVE ContactsSafe'
    <3>1. p.path # "accept" /\ posts' = posts \ {p}
          /\ UNCHANGED <<contact, nextId, coroutine, unstored, socketEvents>>
      BY <2>3 DEF PostLost
    <3>2. \A m : AcceptComing(m) => AcceptComing(m)'
      BY <3>1 DEF AcceptComing
    <3>3. \A m : /\ (Settled(m)' <=> Settled(m)) /\ (AcceptedFirst(m)' <=> AcceptedFirst(m))
                /\ (Known(m)' <=> Known(m))
      BY <3>1 DEF Settled, AcceptedFirst, Known, AddUnsettled
    <3>4. RowsInOrder' /\ HandlersFound'
      BY <3>1, <3>3 DEF ContactsSafe, RowsInOrder, HandlersFound
    <3>5. PeerKnows'
      BY <3>1, <3>3 DEF ContactsSafe, PeerKnows
    <3>6. AcceptanceKnown'
      BY <3>2, <3>3 DEF ContactsSafe, AcceptanceKnown
    <3> QED BY <3>4, <3>5, <3>6 DEF ContactsSafe
  <2>4. ASSUME NEW p \in posts, Arrive(p) PROVE ContactsSafe'
    BY <2>4, ArriveSafe
  <2>8. ASSUME NEW h \in coroutine, NEW g, NEW kind \in {"flushed", "told"}, g = [h EXCEPT !.kind = kind]
        PROVE  /\ DOMAIN g = DOMAIN h /\ g.node = h.node /\ g.found = h.found /\ g.seen = h.seen
               /\ g.kind = kind
    BY <2>8 DEF ContactsSafe, HandlersFound
  <2>9. ASSUME NEW h \in coroutine, AddContactV3(h) PROVE ContactsSafe'
    <3>1. PICK g : g = [h EXCEPT !.kind = "flushed"]
      OBVIOUS
    <3>2. DOMAIN g = DOMAIN h /\ g.node = h.node /\ g.found = h.found /\ g.seen = h.seen /\ g.kind = "flushed"
      BY <2>8, <3>1
    <3>3. /\ coroutine' = (coroutine \ {h}) \cup {g} /\ h.kind = "add"
          /\ UNCHANGED <<contact, nextId, posts, unstored, socketEvents>>
      BY <2>9, <3>1 DEF AddContactV3
    <3> QED BY <3>2, <3>3, StageSafe
  <2>10. ASSUME NEW h \in coroutine, TransmitHandshake(h) PROVE ContactsSafe'
    <3>1. PICK g : g = [h EXCEPT !.kind = "told"]
      OBVIOUS
    <3>2. DOMAIN g = DOMAIN h /\ g.node = h.node /\ g.found = h.found /\ g.seen = h.seen /\ g.kind = "told"
      BY <2>8, <3>1
    <3>3. /\ coroutine' = (coroutine \ {h}) \cup {g} /\ h.kind = "flushed"
          /\ UNCHANGED <<contact, nextId, unstored, socketEvents>>
      BY <2>10, <3>1 DEF TransmitHandshake
    <3>4. AddUnsettled(h.node)'
      BY <3>2, <3>3 DEF AddUnsettled
    <3>5. posts' = posts \/ \E q : /\ q.to = OtherSite(h.node) /\ q.path = "handshake"
                                   /\ posts' = posts \cup {q} /\ AddUnsettled(h.node)'
      <4>1. CASE PostTo(h, "handshake")
        <5>1. PICK q : q = [to |-> OtherSite(h.node), path |-> "handshake", no |-> h.no]
          OBVIOUS
        <5>2. q.to = OtherSite(h.node) /\ q.path = "handshake"
          BY <5>1
        <5>3. posts' = posts \cup {q}
          BY <4>1, <5>1 DEF PostTo
        <5> QED BY <3>4, <5>2, <5>3
      <4>2. CASE UNCHANGED posts
        BY <4>2
      <4> QED BY <2>10, <4>1, <4>2 DEF TransmitHandshake
    <3> QED BY <3>2, <3>3, <3>5, StageSafe
  <2>11. ASSUME NEW h \in coroutine, CommitAdd(h) PROVE ContactsSafe'
    <3>0. h.kind = "told" /\ Done(h) /\ UNCHANGED <<posts, socketEvents>>
      BY <2>11 DEF CommitAdd
    <3>1. CASE InsertRow(h.node, "pending_outgoing", FALSE) /\ UNCHANGED unstored
      BY <3>0, <3>1, InsertSafe
    <3>2. CASE unstored' = unstored \cup {h.node} /\ UNCHANGED <<contact, nextId>>
      <4>1. PICK g : g = [h EXCEPT !.kind = "told"]
        OBVIOUS
      <4>2. DOMAIN g = DOMAIN h /\ g.node = h.node /\ g.found = h.found /\ g.seen = h.seen /\ g.kind = "told"
        BY <2>8, <4>1
      <4>3. coroutine' = coroutine \ {h}
        BY <3>0 DEF Done
      <4> QED BY <3>0, <3>2, <4>2, <4>3, StageSafe
    <3> QED BY <2>11, <3>1, <3>2 DEF CommitAdd
  <2>12. ASSUME NEW h \in coroutine, LockTimeout(h) PROVE ContactsSafe'
    <3>1. PICK g : g = [h EXCEPT !.kind = "told"]
      OBVIOUS
    <3>2. DOMAIN g = DOMAIN h /\ g.node = h.node /\ g.found = h.found /\ g.seen = h.seen /\ g.kind = "told"
      BY <2>8, <3>1
    <3>3. /\ coroutine' = coroutine \ {h} /\ h.kind # "told" /\ h.kind # "accept"
          /\ UNCHANGED <<contact, nextId, posts, unstored, socketEvents>>
      BY <2>12 DEF LockTimeout, Done
    <3> QED BY <3>2, <3>3, StageSafe
  <2>5. ASSUME NEW h \in coroutine, CompatAdd(h) \/ P2PHandshake(h) PROVE ContactsSafe'
    <3>1. h.found \in {0, 1}
      BY DEF ContactsSafe, HandlersFound
    <3>2. CASE CompatAdd(h)
      <4>1. /\ InsertRow(h.node, "pending_outgoing", FALSE) /\ Done(h) /\ h.kind # "accept"
            /\ UNCHANGED <<posts, unstored, socketEvents>>
        BY <3>2 DEF CompatAdd
      <4> QED BY <4>1, InsertSafe
    <3>3. CASE P2PHandshake(h) /\ h.found = 0
      <4>1. /\ InsertRow(h.node, "pending_incoming", TRUE) /\ Done(h) /\ h.kind = "handshake"
            /\ UNCHANGED <<posts, unstored, socketEvents>>
        BY <3>3 DEF P2PHandshake
      <4>2. Known(OtherSite(h.node))
        BY <4>1 DEF ContactsSafe, PeerKnows
      <4> QED BY <4>1, <4>2, InsertSafe
    <3>4. CASE P2PHandshake(h) /\ h.found = 1
      BY <3>4, UpdateSafe
    <3> QED BY <2>5, <3>1, <3>2, <3>3, <3>4
  <2>6. ASSUME NEW h \in coroutine, P2PAcceptV3(h) \/ AgreeContact(h) \/ SaveSecretV3(h) PROVE ContactsSafe'
    BY <2>6, UpdateSafe
  <2>7. CASE UNCHANGED contactVars
    BY <2>7 DEF contactVars, ContactsSafe, RowsInOrder, HandlersFound, PeerKnows, AcceptanceKnown,
                AcceptedFirst, AcceptComing, Settled, Known, AddUnsettled
  <2> QED BY <2>1, <2>2, <2>3, <2>4, <2>5, <2>6, <2>7, <2>9, <2>10, <2>11, <2>12 DEF ContactsNext
<1>3. Inv => NoHalfOpen
  <2> SUFFICES ASSUME ContactsSafe, posts = {}, coroutine = {}, NEW n \in Sites, contact[n] # {},
                      FirstRow(n).status = "accepted"
               PROVE  /\ contact[OtherSite(n)] # {}
                      /\ FirstRow(OtherSite(n)).status \in {"accepted", "pending_incoming"}
    BY DEF NoHalfOpen
  <2> DEFINE m == OtherSite(n)
  <2>1. m \in Sites
    BY OtherOfOther
  <2>2. AcceptedFirst(n)
    BY FirstIsOne DEF ContactsSafe, AcceptedFirst
  <2>3. Settled(m)
    BY <2>2 DEF ContactsSafe, AcceptanceKnown, AcceptComing
  <2> HIDE DEF m
  <2>4. contact[m] # {} /\ FirstRow(m) \in contact[m] /\ FirstRow(m).id = 1
    BY <2>1, <2>3, FirstIsOne DEF ContactsSafe, Settled
  <2>5. FirstRow(m).status \in Statuses /\ FirstRow(m).status # "pending_outgoing"
    BY <2>1, <2>3, <2>4 DEF ContactsSafe, RowsInOrder, Settled
  <2> QED BY <2>4, <2>5 DEF Statuses, m
<1> QED BY <1>1, <1>2, <1>3, PTL DEF ContactsSpec

(***************************************************************************)
(* The types of the contact handshake, with deletions.                     *)
(***************************************************************************)
\* The least of a set of natural numbers.
LEMMA LeastOf ==
  ASSUME NEW T \in SUBSET Nat, T # {}
  PROVE  \E n \in T : \A m \in T : n <= m
<1> DEFINE R == OpToRel(<, Nat)
<1>1. IsWellFoundedOn(R, Nat)
  BY NatLessThanWellFounded, Zenon
<1>2. \A x, y \in Nat : y < x => <<y, x>> \in R
  BY DEF OpToRel
<1> HIDE DEF R
<1>3. PICK n \in T : \A m \in T : ~(<<m, n>> \in R)
  BY <1>1, WFMin
<1>4. \A m \in T : n \in Nat /\ m \in Nat /\ ~(m < n)
  BY <1>2, <1>3
<1>5. \A x, y \in Nat : ~(y < x) => x <= y
  OBVIOUS
<1> QED BY <1>4, <1>5

ContactRow(r, n) ==
  /\ DOMAIN r = {"id", "status", "key", "secret"}
  /\ r.id \in Nat /\ 1 <= r.id /\ r.id < n
  /\ r.status \in Statuses /\ r.key \in BOOLEAN /\ r.secret \in BOOLEAN

ContactTables ==
  /\ DOMAIN contact = Sites /\ nextId \in [Sites -> 1..(MaxRows + 1)]
  /\ \A n \in Sites : \A r \in contact[n] : ContactRow(r, nextId[n])

HandlerTyped(h) ==
  /\ DOMAIN h = {"node", "kind", "found", "no", "seen"}
  /\ h.node \in Sites /\ h.found \in 0..MaxRows /\ h.seen \in Statuses \cup {"none"}

PostTyped(p) == p.to \in Sites /\ p.path \in {"handshake", "accept"}

ContactsTyping ==
  /\ ContactTables
  /\ \A h \in coroutine : HandlerTyped(h)
  /\ \A p \in posts : PostTyped(p)
  /\ unstored \subseteq Sites
  /\ socketEvents \in [Sites -> Nat] /\ broken \in BOOLEAN

\* The first row of a table that has one.
LEMMA FirstOfTable ==
  ASSUME ContactTables, NEW n \in Sites, contact[n] # {}
  PROVE  FirstId(n) \in 1..MaxRows /\ FirstRow(n) \in contact[n]
<1> DEFINE ids == {r.id : r \in contact[n]}
           least == CHOOSE i \in ids : \A r \in contact[n] : i <= r.id
<1>1. \A r \in contact[n] : r.id \in Nat /\ 1 <= r.id /\ r.id < nextId[n]
  BY DEF ContactTables, ContactRow
<1>2. nextId[n] \in Nat /\ nextId[n] <= MaxRows + 1 /\ MaxRows \in Nat
  BY ContactsAssumption DEF ContactTables
<1>3. ids \in SUBSET Nat /\ ids # {} /\ \A r \in contact[n] : r.id \in ids
  BY <1>1
<1>4. PICK i \in ids : \A m \in ids : i <= m
  BY <1>3, LeastOf
<1>5. least \in ids
  BY <1>3, <1>4
<1>6. PICK r \in contact[n] : r.id = least
  BY <1>5
<1>7. FirstId(n) = least
  BY DEF FirstId
<1> HIDE DEF least
<1>8. least \in 1..MaxRows
  BY <1>1, <1>2, <1>6
<1> QED BY <1>6, <1>7, <1>8 DEF FirstRow

\* A handler that begins has read the first row or none.
LEMMA BeginTyped ==
  ASSUME ContactsTyping, NEW n \in Sites, NEW kind, NEW no, Begin(n, kind, no)
  PROVE  \A h \in coroutine' : HandlerTyped(h)
<1> DEFINE found == FirstId(n)
           seen == IF contact[n] = {} THEN "none" ELSE FirstRow(n).status
           k == [node |-> n, kind |-> kind, found |-> found, no |-> no, seen |-> seen]
<1>1. found \in 0..MaxRows /\ seen \in Statuses \cup {"none"}
  <2>1. CASE contact[n] = {}
    BY <2>1, ContactsAssumption DEF FirstId
  <2>2. CASE contact[n] # {}
    <3>1. found \in 1..MaxRows /\ FirstRow(n) \in contact[n]
      BY <2>2, FirstOfTable DEF ContactsTyping
    <3>2. FirstRow(n).status \in Statuses
      BY <3>1 DEF ContactsTyping, ContactTables, ContactRow
    <3> QED BY <2>2, <3>1, <3>2, ContactsAssumption
  <2> QED BY <2>1, <2>2
<1>2. coroutine' = coroutine \cup {k}
  BY DEF Begin
<1> HIDE DEF found, seen
<1>3. HandlerTyped(k)
  BY <1>1 DEF HandlerTyped
<1> QED BY <1>2, <1>3 DEF ContactsTyping

\* A new row has the next id.
LEMMA InsertTyped ==
  ASSUME ContactTables, NEW n \in Sites, NEW status \in Statuses, NEW key \in BOOLEAN,
         InsertRow(n, status, key)
  PROVE  ContactTables'
<1> DEFINE new == [id |-> nextId[n], status |-> status, key |-> key, secret |-> FALSE]
<1>1. /\ nextId[n] <= MaxRows /\ nextId' = [nextId EXCEPT ![n] = @ + 1]
      /\ contact' = [contact EXCEPT ![n] = @ \cup {new}]
  BY DEF InsertRow
<1>2. nextId[n] \in Nat /\ 1 <= nextId[n] /\ MaxRows \in Nat
  BY ContactsAssumption DEF ContactTables
<1>3. nextId' \in [Sites -> 1..(MaxRows + 1)] /\ nextId'[n] = nextId[n] + 1
      /\ \A m \in Sites \ {n} : nextId'[m] = nextId[m]
  BY <1>1, <1>2 DEF ContactTables
<1>4. ContactRow(new, nextId[n] + 1)
  BY <1>2 DEF ContactRow
<1> HIDE DEF new
<1>5. DOMAIN contact' = Sites /\ contact'[n] = contact[n] \cup {new}
      /\ \A m \in Sites \ {n} : contact'[m] = contact[m]
  BY <1>1 DEF ContactTables
<1>6. \A r \in contact[n] : ContactRow(r, nextId[n] + 1)
  BY <1>2 DEF ContactTables, ContactRow
<1>7. \A m \in Sites : \A r \in contact'[m] : ContactRow(r, nextId'[m])
  BY <1>3, <1>4, <1>5, <1>6 DEF ContactTables
<1> QED BY <1>3, <1>5, <1>7 DEF ContactTables

\* An updated row keeps its id.
LEMMA UpdateTyped ==
  ASSUME ContactTables, NEW h, h.node \in Sites, NEW status \in Statuses, NEW key \in BOOLEAN,
         NEW secret \in BOOLEAN, UpdateRow(h, status, key, secret), UNCHANGED nextId
  PROVE  ContactTables'
<1> DEFINE up(r) == IF r.id = h.found
                    THEN [r EXCEPT !.status = IF h.seen = status THEN @ ELSE status,
                                   !.key = @ \/ key, !.secret = @ \/ secret]
                    ELSE r
           n == h.node
<1>1. contact' = [contact EXCEPT ![n] = {up(r) : r \in @}]
  BY DEF UpdateRow
<1>2. ASSUME NEW r, NEW i, ContactRow(r, i) PROVE ContactRow(up(r), i)
  <2>1. CASE r.id = h.found
    <3>1. (r.key \/ key) \in BOOLEAN /\ (r.secret \/ secret) \in BOOLEAN
      BY Zenon
    <3>2. \A a \in Statuses, b, c \in BOOLEAN :
             ContactRow([r EXCEPT !.status = a, !.key = b, !.secret = c], i)
      BY <1>2 DEF ContactRow
    <3>3. (IF h.seen = status THEN r.status ELSE status) \in Statuses
      BY <1>2 DEF ContactRow
    <3> QED BY <2>1, <3>1, <3>2, <3>3
  <2> QED BY <1>2, <2>1
<1> HIDE DEF up
<1>3. DOMAIN contact' = Sites /\ contact'[n] = {up(r) : r \in contact[n]}
      /\ \A m \in Sites \ {n} : contact'[m] = contact[m]
  BY <1>1 DEF ContactTables
<1>4. \A m \in Sites : \A r \in contact'[m] : ContactRow(r, nextId[m])
  BY <1>2, <1>3 DEF ContactTables
<1> QED BY <1>3, <1>4 DEF ContactTables

\* Fewer rows.
LEMMA DeleteTyped ==
  ASSUME ContactTables, NEW n \in Sites, NEW T, T \subseteq contact[n],
         contact' = [contact EXCEPT ![n] = T], UNCHANGED nextId
  PROVE  ContactTables'
BY DEF ContactTables

\* Every variable of the handshake keeps its type, contacts deleted or not.
THEOREM ContactsTyped == ContactsSpec => []ContactsTypeOK
<1>1. ContactsInit => ContactsTyping
  <2> SUFFICES ASSUME ContactsInit PROVE ContactsTyping
    OBVIOUS
  <2>1. broken \in BOOLEAN
    BY Zenon DEF ContactsInit
  <2>2. ContactTables /\ socketEvents \in [Sites -> Nat] /\ unstored \subseteq Sites
    BY ContactsAssumption DEF ContactsInit, ContactTables
  <2> QED BY <2>1, <2>2 DEF ContactsInit, ContactsTyping
<1>2. ContactsTyping /\ [ContactsNext]_contactVars => ContactsTyping'
  <2> SUFFICES ASSUME ContactsTyping, [ContactsNext]_contactVars PROVE ContactsTyping'
    OBVIOUS
  <2>0. /\ ContactTables /\ socketEvents \in [Sites -> Nat] /\ broken \in BOOLEAN
        /\ unstored \subseteq Sites
        /\ \A h \in coroutine : HandlerTyped(h)
        /\ \A p \in posts : PostTyped(p)
    BY DEF ContactsTyping
  <2>c. UNCHANGED <<contact, nextId>> => ContactTables'
    BY <2>0 DEF ContactTables
  <2>1. ASSUME NEW n \in Sites, NEW kind \in {"add", "compat_add"}, BeginAdd(n, kind)
        PROVE  ContactsTyping'
    <3>1. \A h \in coroutine' : HandlerTyped(h)
      BY <2>1, BeginTyped DEF BeginAdd
    <3> QED BY <2>0, <2>1, <2>c, <3>1 DEF BeginAdd, ContactsTyping
  <2>2. ASSUME NEW n \in Sites, BeginAgree(n) PROVE ContactsTyping'
    <3>1. \A h \in coroutine' : HandlerTyped(h)
      BY <2>2, BeginTyped DEF BeginAgree
    <3> QED BY <2>0, <2>2, <2>c, <3>1 DEF BeginAgree, ContactsTyping
  <2>3. ASSUME NEW n \in Sites, BeginSaveSecret(n) PROVE ContactsTyping'
    <3>1. \A h \in coroutine' : HandlerTyped(h)
      BY <2>3, BeginTyped DEF BeginSaveSecret
    <3>2. socketEvents[n] \in Nat /\ socketEvents[n] > 0
          /\ socketEvents' = [socketEvents EXCEPT ![n] = socketEvents[n] - 1]
      BY <2>0, <2>3 DEF BeginSaveSecret
    <3>3. socketEvents' \in [Sites -> Nat]
      BY <2>0, <3>2
    <3> QED BY <2>0, <2>3, <2>c, <3>1, <3>3 DEF BeginSaveSecret, ContactsTyping
  <2>4. ASSUME NEW n \in Sites, RemoveContact(n) \/ LegacyDeleteContact(n) \/ ResetContacts(n)
        PROVE  ContactsTyping'
    <3>1. PICK T : T \subseteq contact[n] /\ contact' = [contact EXCEPT ![n] = T]
      BY <2>4 DEF RemoveContact, LegacyDeleteContact, ResetContacts
    <3>2. UNCHANGED <<nextId, coroutine, posts, unstored, socketEvents>> /\ broken' = TRUE
      BY <2>4 DEF RemoveContact, LegacyDeleteContact, ResetContacts
    <3>3. ContactTables'
      BY <2>0, <3>1, <3>2, DeleteTyped
    <3>4. broken' \in BOOLEAN
      BY <3>2, Zenon
    <3> QED BY <2>0, <3>2, <3>3, <3>4 DEF ContactsTyping
  <2>5. ASSUME NEW p \in posts, Arrive(p) PROVE ContactsTyping'
    <3>1. p.to \in Sites
      BY <2>0 DEF PostTyped
    <3>2. \A h \in coroutine' : HandlerTyped(h)
      BY <2>0, <2>5, <3>1, BeginTyped DEF Arrive
    <3>3. broken' = broken \/ broken' = (broken \/ AddUnsettled(p.to))
      BY <2>5 DEF Arrive
    <3>4. broken' \in BOOLEAN
      BY <2>0, <3>3, Zenon
    <3>5. UNCHANGED <<contact, nextId, unstored, socketEvents>> /\ posts' = posts \ {p}
      BY <2>5 DEF Arrive
    <3> QED BY <2>0, <2>c, <3>2, <3>4, <3>5 DEF ContactsTyping
  <2>6. ASSUME NEW p \in posts, PostLost(p) PROVE ContactsTyping'
    <3>1. broken' \in BOOLEAN
      BY <2>6, Zenon DEF PostLost
    <3>2. UNCHANGED <<contact, nextId, coroutine, unstored, socketEvents>> /\ posts' = posts \ {p}
      BY <2>6 DEF PostLost
    <3> QED BY <2>0, <2>c, <3>1, <3>2 DEF ContactsTyping
  <2>7. ASSUME NEW h \in coroutine, NEW path \in {"handshake", "accept"}, PostTo(h, path)
        PROVE  \A p \in posts' : PostTyped(p)
    <3>1. h.node \in Sites /\ OtherSite(h.node) \in Sites
      BY <2>0, OtherOfOther DEF HandlerTyped
    <3> QED BY <2>0, <2>7, <3>1 DEF PostTo, PostTyped
  <2>8. ASSUME NEW h \in coroutine, CompatAdd(h) \/ CommitAdd(h) PROVE ContactsTyping'
    <3>1. h.node \in Sites
      BY <2>0 DEF HandlerTyped
    <3>2. /\ Done(h) /\ UNCHANGED <<posts, socketEvents, broken>>
          /\ \/ InsertRow(h.node, "pending_outgoing", FALSE) /\ UNCHANGED unstored
             \/ unstored' = unstored \cup {h.node} /\ UNCHANGED <<contact, nextId>>
      BY <2>8 DEF CompatAdd, CommitAdd
    <3>3. ContactTables' /\ unstored' \subseteq Sites
      BY <2>0, <2>c, <3>1, <3>2, InsertTyped DEF Statuses
    <3> QED BY <2>0, <3>2, <3>3 DEF Done, ContactsTyping
  <2>14. ASSUME NEW h \in coroutine, AddContactV3(h) \/ TransmitHandshake(h) PROVE ContactsTyping'
    <3>1. PICK kind : coroutine' = (coroutine \ {h}) \cup {[h EXCEPT !.kind = kind]}
      BY <2>14 DEF AddContactV3, TransmitHandshake
    <3>2. HandlerTyped([h EXCEPT !.kind = kind])
      BY <2>0 DEF HandlerTyped
    <3>3. \A k \in coroutine' : HandlerTyped(k)
      BY <2>0, <3>1, <3>2
    <3>4. /\ UNCHANGED <<contact, nextId, unstored, socketEvents, broken>>
          /\ PostTo(h, "handshake") \/ UNCHANGED posts
      BY <2>14 DEF AddContactV3, TransmitHandshake
    <3>5. \A p \in posts' : PostTyped(p)
      BY <2>0, <2>7, <3>4
    <3> QED BY <2>0, <2>c, <3>3, <3>4, <3>5 DEF ContactsTyping
  <2>15. ASSUME NEW h \in coroutine, LockTimeout(h) PROVE ContactsTyping'
    <3>1. broken' \in BOOLEAN
      BY <2>15, Zenon DEF LockTimeout
    <3>2. UNCHANGED <<contact, nextId, posts, unstored, socketEvents>> /\ Done(h)
      BY <2>15 DEF LockTimeout
    <3> QED BY <2>0, <2>c, <3>1, <3>2 DEF Done, ContactsTyping
  <2>9. ASSUME NEW h \in coroutine, P2PHandshake(h) PROVE ContactsTyping'
    <3>1. h.node \in Sites
      BY <2>0 DEF HandlerTyped
    <3>2. ContactTables'
      BY <2>0, <2>9, <3>1, InsertTyped, UpdateTyped DEF P2PHandshake, Statuses
    <3> QED BY <2>0, <2>9, <3>2 DEF P2PHandshake, Done, ContactsTyping
  <2>10. ASSUME NEW h \in coroutine, P2PAcceptV3(h) PROVE ContactsTyping'
    <3>1. h.node \in Sites
      BY <2>0 DEF HandlerTyped
    <3>2. ContactTables'
      BY <2>0, <2>10, <3>1, UpdateTyped DEF P2PAcceptV3, Statuses
    <3>3. socketEvents' \in [Sites -> Nat]
      BY <2>0, <2>10, <3>1 DEF P2PAcceptV3
    <3> QED BY <2>0, <2>10, <3>2, <3>3 DEF P2PAcceptV3, Done, ContactsTyping
  <2>11. ASSUME NEW h \in coroutine, AgreeContact(h) PROVE ContactsTyping'
    <3>1. h.node \in Sites
      BY <2>0 DEF HandlerTyped
    <3>2. ContactTables'
      BY <2>0, <2>11, <3>1, UpdateTyped DEF AgreeContact, Statuses
    <3>3. \A p \in posts' : PostTyped(p)
      BY <2>0, <2>7, <2>11 DEF AgreeContact
    <3> QED BY <2>0, <2>11, <3>2, <3>3 DEF AgreeContact, Done, ContactsTyping
  <2>12. ASSUME NEW h \in coroutine, SaveSecretV3(h) PROVE ContactsTyping'
    <3>1. h.node \in Sites
      BY <2>0 DEF HandlerTyped
    <3>2. ContactTables'
      BY <2>0, <2>12, <3>1, UpdateTyped DEF SaveSecretV3, Statuses
    <3> QED BY <2>0, <2>12, <3>2 DEF SaveSecretV3, Done, ContactsTyping
  <2>13. CASE UNCHANGED contactVars
    BY <2>0, <2>13, <2>c DEF contactVars, ContactsTyping
  <2> QED BY <2>1, <2>2, <2>3, <2>4, <2>5, <2>6, <2>8, <2>9, <2>10, <2>11, <2>12, <2>13,
             <2>14, <2>15
          DEF ContactsNext
<1>3. ContactsTyping => ContactsTypeOK
  <2> SUFFICES ASSUME ContactsTyping PROVE ContactsTypeOK
    OBVIOUS
  <2>1. \A n \in Sites : \A r \in contact[n] :
           r.id \in 1..MaxRows /\ r.status \in Statuses /\ r.key \in BOOLEAN /\ r.secret \in BOOLEAN
    BY ContactsAssumption DEF ContactsTyping, ContactTables, ContactRow
  <2> QED BY <2>1 DEF ContactsTyping, ContactTables, HandlerTyped, PostTyped, ContactsTypeOK
<1> QED BY <1>1, <1>2, <1>3, PTL DEF ContactsSpec

(***************************************************************************)
(* The messages of a legacy node.                                          *)
(***************************************************************************)
\* Rows are numbered as they are stored, so a number names one row for good.
LegacyRow(m, n) ==
  /\ m.id \in Nat /\ 1 <= m.id /\ m.id < n
  /\ m.from \in {"me", "peer"} /\ m.seq \in SeqNumbers /\ m.ts \in 0..MaxTime /\ m.exp \in Nat

LegacyRows ==
  /\ \A m \in messages : LegacyRow(m, nextRow)
  /\ \A m1, m2 \in messages : m1.id = m2.id => m1 = m2

JobFields == {"no", "op", "from", "seq", "ts", "exp", "left", "ids", "stale"}

\* A request in progress; what it has saved so far are rows of the table.
LegacyJob(j, n) ==
  /\ DOMAIN j = JobFields /\ j.op \in {"send", "receive"} /\ j.from \in {"me", "peer"}
  /\ j.seq \in SeqNumbers /\ j.ts \in 0..MaxTime /\ j.exp \in Nat /\ j.left \in Nat
  /\ j.stale \in BOOLEAN
  /\ \A i \in j.ids : i \in Nat /\ i < n
  /\ j.op = "receive" => j.ids = {}

LegacyJobs ==
  /\ \A j \in jobs : LegacyJob(j, nextRow)
  /\ IsFiniteSet(jobs) /\ Cardinality(jobs) <= MaxJobs

LegacyRest ==
  /\ ttl \in Ttls /\ now \in 1..MaxTime /\ sweeper \in {"list", "delete", "stopped"}
  /\ errors \in 0..MaxErrors /\ nextRow \in 1..(MaxMessages + 1)

LegacyMessagesTyping == LegacyRows /\ LegacyJobs /\ LegacyRest

LEMMA LegacyNumbers ==
  /\ MaxTime \in Nat /\ 1 <= MaxTime /\ MaxMessages \in Nat /\ MaxJobs \in Nat /\ MaxErrors \in Nat
  /\ Ttls \subseteq Nat /\ 0 \in Ttls
BY LegacyMessagesAssumption

\* One request more, while there is room.
LEMMA StartJob ==
  ASSUME LegacyJobs, NEW j, Start(j), LegacyJob(j, nextRow), UNCHANGED nextRow
  PROVE  LegacyJobs'
<1>1. IsFiniteSet(jobs) /\ Cardinality(jobs) < MaxJobs /\ jobs' = jobs \cup {j}
  BY DEF LegacyJobs, Start
<1>2. IsFiniteSet(jobs') /\ Cardinality(jobs) \in Nat
      /\ Cardinality(jobs') = IF j \in jobs THEN Cardinality(jobs) ELSE Cardinality(jobs) + 1
  BY <1>1, FS_AddElement, FS_CardinalityType
<1>3. Cardinality(jobs') <= MaxJobs
  BY <1>1, <1>2, LegacyNumbers
<1>4. \A k \in jobs' : LegacyJob(k, nextRow')
  BY <1>1 DEF LegacyJobs, LegacyJob
<1> QED BY <1>2, <1>3, <1>4 DEF LegacyJobs

\* One less.
LEMMA EndJob ==
  ASSUME LegacyJobs, NEW j \in jobs
  PROVE  /\ IsFiniteSet(jobs \ {j}) /\ Cardinality(jobs \ {j}) \in Nat
         /\ Cardinality(jobs \ {j}) + 1 <= MaxJobs
<1>1. IsFiniteSet(jobs) /\ Cardinality(jobs) <= MaxJobs
  BY DEF LegacyJobs
<1>2. IsFiniteSet(jobs \ {j}) /\ Cardinality(jobs \ {j}) = Cardinality(jobs) - 1
      /\ Cardinality(jobs) \in Nat
  BY <1>1, FS_RemoveElement, FS_CardinalityType
<1>3. Cardinality(jobs \ {j}) \in Nat
  BY <1>2, FS_CardinalityType
<1> QED BY <1>1, <1>2, <1>3, LegacyNumbers

\* A time and a ttl give an expiry.
LEMMA ExpiryType ==
  ASSUME LegacyRest, NEW ts \in Nat
  PROVE  Expiry(ts) \in Nat /\ (ts >= 1 /\ Expiry(ts) = 0 => ttl = 0)
BY LegacyNumbers DEF LegacyRest, Expiry

\* A new row gets the next number.
LEMMA SaveRow ==
  ASSUME LegacyMessagesTyping, NEW j \in jobs, SaveMessage(j), nextRow \in Ids
  PROVE  LegacyRows' /\ nextRow' \in 1..(MaxMessages + 1) /\ nextRow' = nextRow + 1
<1> DEFINE e == IF j.exp # 0 THEN j.exp ELSE Expiry(j.ts)
           m == [id |-> nextRow, from |-> j.from, seq |-> j.seq, ts |-> j.ts, exp |-> e]
<1>1. LegacyJob(j, nextRow) /\ nextRow \in Nat /\ 1 <= nextRow /\ nextRow <= MaxMessages
  BY LegacyNumbers DEF LegacyMessagesTyping, LegacyJobs, LegacyRest, Ids
<1>2. e \in Nat
  <2>1. j.ts \in Nat /\ j.exp \in Nat
    BY <1>1, LegacyNumbers DEF LegacyJob
  <2> QED BY <2>1, ExpiryType DEF LegacyMessagesTyping
<1>3. messages' = messages \cup {m} /\ nextRow' = nextRow + 1
  BY DEF SaveMessage
<1> HIDE DEF e
<1>4. m.id = nextRow /\ m.from = j.from /\ m.seq = j.seq /\ m.ts = j.ts /\ m.exp = e
  OBVIOUS
<1> HIDE DEF m
<1>5. LegacyRow(m, nextRow')
  BY <1>1, <1>2, <1>3, <1>4 DEF LegacyRow, LegacyJob
<1>6. \A r \in messages : LegacyRow(r, nextRow') /\ r.id # nextRow
  BY <1>1, <1>3 DEF LegacyMessagesTyping, LegacyRows, LegacyRow
<1>7. \A m1, m2 \in messages' : m1.id = m2.id => m1 = m2
  BY <1>3, <1>4, <1>6 DEF LegacyMessagesTyping, LegacyRows
<1>8. nextRow' \in 1..(MaxMessages + 1)
  BY <1>1, <1>3, LegacyNumbers
<1> QED BY <1>3, <1>5, <1>6, <1>7, <1>8 DEF LegacyRows

\* The request that saved it has it among its rows.
LEMMA SavedJob ==
  ASSUME NEW j, LegacyJob(j, nextRow), j.op = "send", j.left > 0, nextRow \in Nat, nextRow' = nextRow + 1
  PROVE  LET k == [j EXCEPT !.left = j.left - 1, !.ids = j.ids \cup {nextRow}]
         IN  /\ LegacyJob(k, nextRow') /\ k.op = j.op /\ k.ts = j.ts /\ k.exp = j.exp /\ k.stale = j.stale
             /\ k.ids = j.ids \cup {nextRow}
BY DEF LegacyJob, JobFields

LEMMA LegacyMessagesStep ==
  LegacyMessagesTyping /\ [LegacyMessagesNext]_messageVars => LegacyMessagesTyping'
<1> SUFFICES ASSUME LegacyMessagesTyping, [LegacyMessagesNext]_messageVars
             PROVE  LegacyMessagesTyping'
  OBVIOUS
<1>0. LegacyRows /\ LegacyJobs /\ LegacyRest
  BY DEF LegacyMessagesTyping
<1>r. UNCHANGED <<messages, nextRow>> => LegacyRows'
  BY <1>0 DEF LegacyRows, LegacyRow
<1>j. UNCHANGED <<jobs, nextRow>> => LegacyJobs'
  BY <1>0 DEF LegacyJobs, LegacyJob
<1>n. now \in Nat /\ now \in 0..MaxTime /\ 1 <= now
  BY <1>0, LegacyNumbers DEF LegacyRest
<1>1. ASSUME NEW seq \in SeqNumbers, NEW n \in Nat, Start(Job("send", "me", seq, Expiry(now), n)),
             UNCHANGED <<messages, ttl, outbox, now, sweeper, errors, nextRow>>
      PROVE  LegacyMessagesTyping'
  <2>1. Expiry(now) \in Nat
    BY <1>0, <1>n, ExpiryType
  <2>2. LegacyJob(Job("send", "me", seq, Expiry(now), n), nextRow)
    BY <1>n, <2>1, Zenon, SMT DEF LegacyJob, Job, JobFields
  <2>3. LegacyJobs'
    BY <1>0, <1>1, <2>2, StartJob
  <2> QED BY <1>0, <1>1, <1>r, <2>3 DEF LegacyMessagesTyping, LegacyRest
<1>2. ASSUME NEW seq \in SeqNumbers, NEW t \in Ttls, NEW ts \in 1..now,
             P2PMessage(seq, ts, IF t = 0 THEN 0 ELSE ts + t)
      PROVE  LegacyMessagesTyping'
  <2> DEFINE exp == IF t = 0 THEN 0 ELSE ts + t
             e == IF exp # 0 THEN exp ELSE Expiry(ts)
             k == [Job("receive", "peer", seq, e, 1) EXCEPT !.ts = ts]
  <2>1. ts \in Nat /\ ts \in 0..MaxTime /\ exp \in Nat /\ Expiry(ts) \in Nat
    BY <1>0, <1>n, LegacyNumbers, ExpiryType DEF LegacyRest
  <2>2. e \in Nat
    BY <2>1
  <2>3. Start(k) /\ UNCHANGED <<messages, ttl, outbox, now, sweeper, errors, nextRow>>
    BY <1>2 DEF P2PMessage
  <2> HIDE DEF e, exp
  <2>4. LegacyJob(k, nextRow)
    BY <1>n, <2>1, <2>2 DEF LegacyJob, Job, JobFields
  <2>5. LegacyJobs'
    BY <1>0, <2>3, <2>4, StartJob
  <2> QED BY <1>0, <1>r, <2>3, <2>5 DEF LegacyMessagesTyping, LegacyRest
<1>3. ASSUME NEW j \in jobs, SaveSent(j) PROVE LegacyMessagesTyping'
  <2> DEFINE k == [j EXCEPT !.left = j.left - 1, !.ids = j.ids \cup {nextRow}]
             others == jobs \ {j}
  <2>1. /\ j.op = "send" /\ j.left > 0 /\ nextRow \in Ids /\ SaveMessage(j)
        /\ jobs' = others \cup {k} /\ UNCHANGED <<ttl, outbox, now, sweeper, errors>>
    BY <1>3 DEF SaveSent
  <2>2. LegacyRows' /\ nextRow' \in 1..(MaxMessages + 1) /\ nextRow' = nextRow + 1
    BY <2>1, SaveRow
  <2>3. LegacyJob(j, nextRow) /\ nextRow \in Nat
    BY <1>0, LegacyNumbers DEF LegacyJobs, LegacyRest
  <2>4. LegacyJob(k, nextRow')
    BY <2>1, <2>2, <2>3, SavedJob
  <2>5. \A i \in others : LegacyJob(i, nextRow')
    BY <1>0, <2>2, <2>3 DEF LegacyJobs, LegacyJob
  <2> HIDE DEF k, others
  <2>6. IsFiniteSet(others) /\ Cardinality(others) \in Nat /\ Cardinality(others) + 1 <= MaxJobs
    BY <1>0, EndJob DEF others
  <2>7. IsFiniteSet(jobs') /\ Cardinality(jobs') <= MaxJobs
    <3>1. IsFiniteSet(others \cup {k})
          /\ Cardinality(others \cup {k}) = IF k \in others THEN Cardinality(others)
                                            ELSE Cardinality(others) + 1
      BY <2>6, FS_AddElement
    <3> QED BY <2>1, <2>6, <3>1, LegacyNumbers
  <2>8. LegacyJobs'
    BY <2>1, <2>4, <2>5, <2>7 DEF LegacyJobs
  <2> QED BY <1>0, <2>1, <2>2, <2>8 DEF LegacyMessagesTyping, LegacyRest
<1>4. ASSUME NEW j \in jobs, jobs' = jobs \ {j}, \A i \in jobs : LegacyJob(i, nextRow') PROVE LegacyJobs'
  <2>1. IsFiniteSet(jobs') /\ Cardinality(jobs') <= MaxJobs
    BY <1>0, <1>4, EndJob, LegacyNumbers
  <2> QED BY <1>4, <2>1 DEF LegacyJobs
<1>5. ASSUME NEW j \in jobs, Transmit(j) PROVE LegacyMessagesTyping'
  <2>1. \A i \in jobs : LegacyJob(i, nextRow')
    BY <1>0, <1>5 DEF Transmit, LegacyJobs, LegacyJob
  <2>2. LegacyJobs'
    BY <1>4, <1>5, <2>1 DEF Transmit
  <2> QED BY <1>0, <1>5, <1>r, <2>2 DEF Transmit, LegacyMessagesTyping, LegacyRest
<1>6. ASSUME NEW j \in jobs, SaveReceived(j) PROVE LegacyMessagesTyping'
  <2>1. LegacyRows' /\ nextRow' \in 1..(MaxMessages + 1) /\ nextRow' = nextRow + 1
    BY <1>6, SaveRow DEF SaveReceived
  <2>2. nextRow \in Nat
    BY <1>0, LegacyNumbers DEF LegacyRest
  <2>3. \A i \in jobs : LegacyJob(i, nextRow')
    BY <1>0, <2>1, <2>2 DEF LegacyJobs, LegacyJob
  <2>4. LegacyJobs'
    BY <1>4, <1>6, <2>3 DEF SaveReceived
  <2> QED BY <1>0, <1>6, <2>1, <2>4 DEF SaveReceived, LegacyMessagesTyping, LegacyRest
<1>7. ASSUME NEW t \in Ttls, SetMessageTtl(t) PROVE LegacyMessagesTyping'
  <2> DEFINE Mark(j) == [j EXCEPT !.stale = (j.op = "send")]
  <2>1. jobs' = {Mark(j) : j \in jobs} /\ ttl' = t
        /\ UNCHANGED <<messages, outbox, now, sweeper, errors, nextRow>>
    BY <1>7 DEF SetMessageTtl
  <2>2. \A j \in jobs : LegacyJob(Mark(j), nextRow')
    <3>1. ASSUME NEW j \in jobs, NEW b \in BOOLEAN PROVE LegacyJob([j EXCEPT !.stale = b], nextRow)
      BY <1>0 DEF LegacyJobs, LegacyJob, JobFields
    <3>2. \A j : (j.op = "send") \in BOOLEAN
      BY Zenon
    <3>3. \A j : LegacyJob(j, nextRow) => LegacyJob(j, nextRow')
      BY <2>1 DEF LegacyJob
    <3> QED BY <3>1, <3>2, <3>3
  <2> HIDE DEF Mark
  <2>3. IsFiniteSet(jobs) /\ Cardinality(jobs) <= MaxJobs /\ Cardinality(jobs) \in Nat
    BY <1>0, FS_CardinalityType DEF LegacyJobs
  <2>4. IsFiniteSet(jobs') /\ Cardinality(jobs') <= Cardinality(jobs) /\ Cardinality(jobs') \in Nat
    <3> DEFINE f == [j \in jobs |-> Mark(j)]
    <3>1. f \in Surjection(jobs, jobs')
      BY <2>1 DEF Surjection
    <3> HIDE DEF f
    <3> QED BY <2>3, <3>1, FS_Surjection, FS_CardinalityType
  <2>5. LegacyJobs'
    BY <2>1, <2>2, <2>3, <2>4, LegacyNumbers DEF LegacyJobs
  <2> QED BY <1>0, <1>r, <2>1, <2>5 DEF LegacyMessagesTyping, LegacyRest
<1>8. ASSUME messages' \subseteq messages, UNCHANGED <<jobs, nextRow>>, LegacyRest'
      PROVE  LegacyMessagesTyping'
  <2>1. LegacyRows'
    BY <1>0, <1>8 DEF LegacyRows, LegacyRow
  <2> QED BY <1>8, <1>j, <2>1 DEF LegacyMessagesTyping
<1>9. ASSUME NEW ts, LegacyDeleteMessage(ts) PROVE LegacyMessagesTyping'
  BY <1>0, <1>8, <1>9 DEF LegacyDeleteMessage, LegacyRest
<1>10. ASSUME SweepList \/ SweepDelete PROVE LegacyMessagesTyping'
  BY <1>0, <1>8, <1>10 DEF SweepList, SweepDelete, LegacyRest
<1>11. ASSUME SweepFails PROVE LegacyMessagesTyping'
  <2>1. LegacyRest'
    BY <1>0, <1>11, LegacyNumbers DEF SweepFails, LegacyRest
  <2> QED BY <1>8, <1>11, <2>1 DEF SweepFails
<1>12. ASSUME MessageTick PROVE LegacyMessagesTyping'
  <2>1. LegacyRest'
    BY <1>0, <1>12, LegacyNumbers DEF MessageTick, LegacyRest
  <2> QED BY <1>8, <1>12, <2>1 DEF MessageTick
<1>13. ASSUME UNCHANGED messageVars PROVE LegacyMessagesTyping'
  BY <1>0, <1>8, <1>13 DEF messageVars, LegacyRest
<1>14. ASSUME NEW seq \in SeqNumbers, LegacySendMessage(seq) \/ SendMessageBatch(seq, 2)
       PROVE  LegacyMessagesTyping'
  BY <1>1, <1>14 DEF LegacySendMessage, SendMessageBatch
<1> QED BY <1>2, <1>3, <1>5, <1>6, <1>7, <1>9, <1>10, <1>11, <1>12, <1>13, <1>14
        DEF LegacyMessagesNext

\* The specification without the fairness of the sweeper.
LegacyMessagesSteps == LegacyMessagesInit /\ [][LegacyMessagesNext]_messageVars

\* Types: rows, requests and their number.
THEOREM LegacyMessagesTypes == LegacyMessagesSteps => []LegacyMessagesTyping
<1>1. LegacyMessagesInit => LegacyMessagesTyping
  <2> SUFFICES ASSUME LegacyMessagesInit PROVE LegacyMessagesTyping
    OBVIOUS
  <2>1. IsFiniteSet(jobs) /\ Cardinality(jobs) = 0 /\ jobs = {}
    BY FS_EmptySet DEF LegacyMessagesInit
  <2> QED BY <2>1, LegacyNumbers DEF LegacyMessagesInit, LegacyMessagesTyping, LegacyRows, LegacyJobs, LegacyRest
<1> QED BY <1>1, LegacyMessagesStep, PTL DEF LegacyMessagesSteps

\* Every variable keeps its type.
THEOREM LegacyMessagesTyped == LegacyMessagesSteps => []LegacyMessagesTypeOK
<1>1. LegacyMessagesTyping => LegacyMessagesTypeOK
  BY LegacyNumbers DEF LegacyMessagesTyping, LegacyRows, LegacyRow, LegacyJobs, LegacyRest,
     LegacyMessagesTypeOK, Ids
<1> QED BY <1>1, LegacyMessagesTypes, PTL

(***************************************************************************)
(* The expiry that was sent is the expiry that is stored.                  *)
(***************************************************************************)
\* A post carries the numbers of rows that were saved before it; no later row gets
\* one of them.
SentBefore == \A p \in outbox : \A i \in p.ids : i \in Nat /\ i < nextRow

\* A request that read the ttl the contact still has computes the expiry that
\* save_message would.
ExpiryCurrent == \A j \in jobs : j.op = "send" /\ ~j.stale => j.exp = Expiry(j.ts)

\* So the rows it has saved have the expiry it will send.
ExpirySaved ==
  \A j \in jobs, m \in messages : m.id \in j.ids /\ ~j.stale => m.exp = j.exp

SentAlike == SentBefore /\ ExpirySent /\ ExpiryCurrent /\ ExpirySaved

\* Fewer rows, and the same requests, posts and ttl.
LEMMA SentAlikeFewer ==
  ASSUME SentAlike, messages' \subseteq messages, UNCHANGED <<ttl, outbox, nextRow>>,
         jobs' \subseteq jobs
  PROVE  SentAlike'
<1>1. SentBefore'
  BY DEF SentAlike, SentBefore
<1>2. ExpirySent'
  BY DEF SentAlike, ExpirySent
<1>3. ExpiryCurrent'
  BY DEF SentAlike, ExpiryCurrent, Expiry
<1>4. ExpirySaved'
  BY DEF SentAlike, ExpirySaved
<1> QED BY <1>1, <1>2, <1>3, <1>4 DEF SentAlike

\* A request that begins has saved nothing.
LEMMA SentAlikeStart ==
  ASSUME SentAlike, NEW k, Start(k), UNCHANGED <<messages, ttl, outbox, nextRow>>,
         k.ids = {}, k.op = "send" => k.exp = Expiry(k.ts)
  PROVE  SentAlike'
<1>1. jobs' = jobs \cup {k}
  BY DEF Start
<1>2. SentBefore' /\ ExpirySent'
  BY DEF SentAlike, SentBefore, ExpirySent
<1>3. ExpiryCurrent'
  BY <1>1 DEF SentAlike, ExpiryCurrent, Expiry
<1>4. ExpirySaved'
  BY <1>1 DEF SentAlike, ExpirySaved
<1> QED BY <1>2, <1>3, <1>4 DEF SentAlike

\* A row that a request saves is in no earlier post and belongs to no other request.
LEMMA SentAlikeSave ==
  ASSUME LegacyMessagesTyping, SentAlike, NEW j \in jobs, SaveMessage(j), nextRow \in Ids,
         UNCHANGED <<ttl, outbox>>
  PROVE  /\ SentBefore' /\ ExpirySent'
         /\ \A k \in jobs, m \in messages' : m.id \in k.ids /\ ~k.stale => m.exp = k.exp
         /\ \A m \in messages' : m.id = nextRow /\ j.exp = Expiry(j.ts) => m.exp = j.exp
<1> DEFINE e == IF j.exp # 0 THEN j.exp ELSE Expiry(j.ts)
           new == [id |-> nextRow, from |-> j.from, seq |-> j.seq, ts |-> j.ts, exp |-> e]
<1>1. messages' = messages \cup {new} /\ nextRow' = nextRow + 1 /\ new.id = nextRow /\ new.exp = e
  BY DEF SaveMessage
<1>2. j.exp = Expiry(j.ts) => e = j.exp
  OBVIOUS
<1> HIDE DEF new, e
<1>3. nextRow \in Nat
  BY LegacyNumbers DEF Ids
<1>4. /\ \A k \in jobs : \A i \in k.ids : i \in Nat /\ i < nextRow
      /\ \A m \in messages : m.id \in Nat /\ m.id < nextRow
  BY DEF LegacyMessagesTyping, LegacyJobs, LegacyJob, LegacyRows, LegacyRow
<1>5. SentBefore'
  BY <1>1, <1>3 DEF SentAlike, SentBefore
<1>6. ExpirySent'
  BY <1>1, <1>3 DEF SentAlike, SentBefore, ExpirySent
<1>7. \A k \in jobs, m \in messages' : m.id \in k.ids /\ ~k.stale => m.exp = k.exp
  BY <1>1, <1>3, <1>4 DEF SentAlike, ExpirySaved
<1>8. \A m \in messages' : m.id = nextRow /\ j.exp = Expiry(j.ts) => m.exp = j.exp
  BY <1>1, <1>2, <1>3, <1>4
<1> QED BY <1>5, <1>6, <1>7, <1>8

LEMMA SentAlikeStep ==
  LegacyMessagesTyping /\ SentAlike /\ [LegacyMessagesNext]_messageVars => SentAlike'
<1> SUFFICES ASSUME LegacyMessagesTyping, SentAlike, [LegacyMessagesNext]_messageVars
             PROVE  SentAlike'
  OBVIOUS
<1>0. SentBefore /\ ExpirySent /\ ExpiryCurrent /\ ExpirySaved
  BY DEF SentAlike
<1>1. ASSUME NEW seq \in SeqNumbers, LegacySendMessage(seq) \/ SendMessageBatch(seq, 2)
      PROVE  SentAlike'
  <2>1. \A n : LET k == Job("send", "me", seq, Expiry(now), n)
               IN  k.ids = {} /\ k.op = "send" /\ k.exp = Expiry(now) /\ k.ts = now
    BY DEF Job
  <2>2. PICK n : Start(Job("send", "me", seq, Expiry(now), n))
    BY <1>1 DEF LegacySendMessage, SendMessageBatch
  <2>3. UNCHANGED <<messages, ttl, outbox, nextRow>>
    BY <1>1 DEF LegacySendMessage, SendMessageBatch
  <2> DEFINE k == Job("send", "me", seq, Expiry(now), n)
  <2>4. k.ids = {} /\ k.exp = Expiry(k.ts) /\ Start(k)
    BY <2>1, <2>2
  <2> HIDE DEF k
  <2> QED BY <2>3, <2>4, SentAlikeStart
<1>2. ASSUME NEW seq, NEW ts, NEW exp, P2PMessage(seq, ts, exp) PROVE SentAlike'
  <2> DEFINE k == [Job("receive", "peer", seq, IF exp # 0 THEN exp ELSE Expiry(ts), 1) EXCEPT !.ts = ts]
  <2>1. Start(k) /\ UNCHANGED <<messages, ttl, outbox, nextRow>>
    BY <1>2 DEF P2PMessage
  <2>2. k.ids = {} /\ k.op = "receive"
    BY DEF Job
  <2> HIDE DEF k
  <2> QED BY <2>1, <2>2, SentAlikeStart
<1>3. ASSUME NEW j \in jobs, SaveSent(j) PROVE SentAlike'
  <2> DEFINE k == [j EXCEPT !.left = j.left - 1, !.ids = j.ids \cup {nextRow}]
  <2>1. /\ j.op = "send" /\ j.left > 0 /\ nextRow \in Ids /\ SaveMessage(j) /\ UNCHANGED <<ttl, outbox>>
        /\ jobs' = (jobs \ {j}) \cup {k} /\ nextRow' = nextRow + 1
    BY <1>3 DEF SaveSent, SaveMessage
  <2>2. LegacyJob(j, nextRow) /\ nextRow \in Nat
    BY LegacyNumbers DEF LegacyMessagesTyping, LegacyJobs, LegacyRest
  <2>3. k.op = j.op /\ k.ts = j.ts /\ k.exp = j.exp /\ k.stale = j.stale /\ k.ids = j.ids \cup {nextRow}
    BY <2>1, <2>2, SavedJob
  <2> HIDE DEF k
  <2>4. /\ SentBefore' /\ ExpirySent'
        /\ \A i \in jobs, m \in messages' : m.id \in i.ids /\ ~i.stale => m.exp = i.exp
        /\ \A m \in messages' : m.id = nextRow /\ j.exp = Expiry(j.ts) => m.exp = j.exp
    BY <2>1, SentAlikeSave
  <2>5. ExpiryCurrent'
    BY <1>0, <2>1, <2>3 DEF ExpiryCurrent, Expiry
  <2>6. ~j.stale => j.exp = Expiry(j.ts)
    BY <1>0, <2>1 DEF ExpiryCurrent
  <2>7. ExpirySaved'
    BY <2>1, <2>3, <2>4, <2>6 DEF ExpirySaved
  <2> QED BY <2>4, <2>5, <2>7 DEF SentAlike
<1>4. ASSUME NEW j \in jobs, Transmit(j) PROVE SentAlike'
  <2> DEFINE p == [ids |-> j.ids, ts |-> j.ts, exp |-> j.exp, stale |-> j.stale]
  <2>1. /\ outbox' = outbox \cup {p} /\ jobs' = jobs \ {j} /\ UNCHANGED <<messages, ttl, nextRow>>
    BY <1>4 DEF Transmit
  <2>2. p.ids = j.ids /\ p.exp = j.exp /\ p.stale = j.stale
    OBVIOUS
  <2> HIDE DEF p
  <2>3. SentBefore'
    BY <1>0, <2>1, <2>2 DEF SentBefore, LegacyMessagesTyping, LegacyJobs, LegacyJob
  <2>4. ExpirySent'
    BY <1>0, <2>1, <2>2 DEF ExpirySent, ExpirySaved
  <2>5. ExpiryCurrent' /\ ExpirySaved'
    BY <1>0, <2>1 DEF ExpiryCurrent, ExpirySaved, Expiry
  <2> QED BY <2>3, <2>4, <2>5 DEF SentAlike
<1>5. ASSUME NEW j \in jobs, SaveReceived(j) PROVE SentAlike'
  <2>1. nextRow \in Ids /\ SaveMessage(j) /\ UNCHANGED <<ttl, outbox>> /\ jobs' = jobs \ {j}
    BY <1>5 DEF SaveReceived
  <2>2. /\ SentBefore' /\ ExpirySent'
        /\ \A i \in jobs, m \in messages' : m.id \in i.ids /\ ~i.stale => m.exp = i.exp
    BY <2>1, SentAlikeSave
  <2>3. ExpiryCurrent' /\ ExpirySaved'
    BY <1>0, <2>1, <2>2 DEF ExpiryCurrent, ExpirySaved, Expiry
  <2> QED BY <2>2, <2>3 DEF SentAlike
<1>6. ASSUME NEW t, SetMessageTtl(t) PROVE SentAlike'
  <2>1. /\ jobs' = {[j EXCEPT !.stale = (j.op = "send")] : j \in jobs}
        /\ UNCHANGED <<messages, outbox, nextRow>>
    BY <1>6 DEF SetMessageTtl
  <2>2. ASSUME NEW j \in jobs
        PROVE  LET k == [j EXCEPT !.stale = (j.op = "send")]
               IN  /\ k.op = "send" => k.stale
                   /\ k.op # "send" => k.ids = {}
    <3>1. LegacyJob(j, nextRow)
      BY DEF LegacyMessagesTyping, LegacyJobs
    <3> QED BY <3>1 DEF LegacyJob, JobFields
  <2>3. \A k \in jobs' : (k.op = "send" => k.stale) /\ (k.op # "send" => k.ids = {})
    BY <2>1, <2>2
  <2>4. SentBefore' /\ ExpirySent'
    BY <1>0, <2>1 DEF SentBefore, ExpirySent
  <2>5. ExpiryCurrent' /\ ExpirySaved'
    BY <2>3 DEF ExpiryCurrent, ExpirySaved
  <2> QED BY <2>4, <2>5 DEF SentAlike
<1>7. ASSUME messages' \subseteq messages, UNCHANGED <<ttl, jobs, outbox, nextRow>> PROVE SentAlike'
  BY <1>7, SentAlikeFewer
<1>8. ASSUME \/ \E ts \in 1..now : LegacyDeleteMessage(ts)
             \/ SweepList \/ SweepDelete \/ SweepFails \/ MessageTick
             \/ UNCHANGED messageVars
      PROVE  SentAlike'
  BY <1>7, <1>8
     DEF LegacyDeleteMessage, SweepList, SweepDelete, SweepFails, MessageTick, messageVars
<1> QED BY <1>1, <1>2, <1>3, <1>4, <1>5, <1>6, <1>8 DEF LegacyMessagesNext

\* Disappearing messages disappear alike: a message that is stored and the post that
\* carried it have the same expiry, unless the ttl was changed while the request was
\* in progress, for any number of requests, however their calls interleave.
THEOREM LegacyExpirySent == LegacyMessagesSpec => []ExpirySent
<1>1. LegacyMessagesInit => SentAlike
  BY DEF LegacyMessagesInit, SentAlike, SentBefore, ExpirySent, ExpiryCurrent, ExpirySaved
<1>2. SentAlike => ExpirySent
  BY DEF SentAlike
<1> QED BY <1>1, <1>2, SentAlikeStep, LegacyMessagesTypes, PTL
       DEF LegacyMessagesSpec, LegacyMessagesSteps

(***************************************************************************)
(* The composition.                                                        *)
(***************************************************************************)
\* In every behaviour of the composed specification, the component in focus
\* behaves as its own specification says and stays in focus: what is proved of a
\* component holds of the composition.
THEOREM MessagesRunComponents ==
  MCSpec =>
    /\ focus = "delivery" => Spec /\ [](focus = "delivery")
    /\ focus = "contacts" => ContactsSpec /\ [](focus = "contacts")
    /\ focus = "history" => MessageHistorySpec /\ [](focus = "history")
    /\ focus = "batches" => BatcherSpec /\ [](focus = "batches")
    /\ focus = "legacy messages" => LegacyMessagesSteps /\ [](focus = "legacy messages")
<1>1. MCSpec /\ focus = "delivery" => Spec /\ [](focus = "delivery")
  <2>1. MCInit /\ focus = "delivery" => Init
    BY DEF MCInit
  <2>2. focus = "delivery" /\ [MCNext]_mcVars =>
         [Next]_vars /\ (focus = "delivery")'
    BY DEF MCNext, mcVars
  <2> QED BY <2>1, <2>2, PTL DEF MCSpec, Spec
<1>2. MCSpec /\ focus = "contacts" => ContactsSpec /\ [](focus = "contacts")
  <2>1. MCInit /\ focus = "contacts" => ContactsInit
    BY DEF MCInit
  <2>2. focus = "contacts" /\ [MCNext]_mcVars =>
         [ContactsNext]_contactVars /\ (focus = "contacts")'
    BY DEF MCNext, mcVars
  <2> QED BY <2>1, <2>2, PTL DEF MCSpec, ContactsSpec
<1>3. MCSpec /\ focus = "history" => MessageHistorySpec /\ [](focus = "history")
  <2>1. MCInit /\ focus = "history" => MessageHistoryInit
    BY DEF MCInit
  <2>2. focus = "history" /\ [MCNext]_mcVars =>
         [MessageHistoryNext]_historyVars /\ (focus = "history")'
    BY DEF MCNext, mcVars
  <2> QED BY <2>1, <2>2, PTL DEF MCSpec, MessageHistorySpec
<1>4. MCSpec /\ focus = "batches" => BatcherSpec /\ [](focus = "batches")
  <2>1. MCInit /\ focus = "batches" => BatcherInit
    BY DEF MCInit
  <2>2. focus = "batches" /\ [MCNext]_mcVars =>
         [BatcherNext]_batcherVars /\ (focus = "batches")'
    BY DEF MCNext, mcVars
  <2> QED BY <2>1, <2>2, PTL DEF MCSpec, BatcherSpec
<1>5. MCSpec /\ focus = "legacy messages" => LegacyMessagesSteps /\ [](focus = "legacy messages")
  <2>1. MCInit /\ focus = "legacy messages" => LegacyMessagesInit
    BY DEF MCInit
  <2>2. focus = "legacy messages" /\ [MCNext]_mcVars =>
         [LegacyMessagesNext]_messageVars /\ (focus = "legacy messages")'
    BY DEF MCNext, mcVars
  <2> QED BY <2>1, <2>2, PTL DEF MCSpec, LegacyMessagesSteps
<1> QED BY <1>1, <1>2, <1>3, <1>4, <1>5, PTL

\* Every variable of the component in focus keeps its type.
THEOREM MessagesTyped == MCSpec => []TypesOK
<1>0. MCInit =>
        \/ focus = "delivery"
        \/ focus = "contacts"
        \/ focus = "history"
        \/ focus = "batches"
        \/ focus = "legacy messages"
  BY DEF MCInit
<1>1. MCSpec /\ focus = "delivery" => []TypesOK
  <2>1. focus = "delivery" /\ TypeOK => TypesOK
    BY DEF TypesOK
  <2> QED BY <2>1, MessagesRunComponents, DeliveryTyped, PTL
<1>2. MCSpec /\ focus = "contacts" => []TypesOK
  <2>1. focus = "contacts" /\ ContactsTypeOK => TypesOK
    BY DEF TypesOK
  <2> QED BY <2>1, MessagesRunComponents, ContactsTyped, PTL
<1>3. MCSpec /\ focus = "history" => []TypesOK
  <2>1. focus = "history" /\ MessageHistoryTypeOK => TypesOK
    BY DEF TypesOK
  <2> QED BY <2>1, MessagesRunComponents, HistoryTyped, PTL
<1>4. MCSpec /\ focus = "batches" => []TypesOK
  <2>1. focus = "batches" /\ BatcherTypeOK => TypesOK
    BY DEF TypesOK
  <2> QED BY <2>1, MessagesRunComponents, BatcherTyped, PTL
<1>5. MCSpec /\ focus = "legacy messages" => []TypesOK
  <2>1. focus = "legacy messages" /\ LegacyMessagesTypeOK => TypesOK
    BY DEF TypesOK
  <2> QED BY <2>1, MessagesRunComponents, LegacyMessagesTyped, PTL
<1> QED BY <1>0, <1>1, <1>2, <1>3, <1>4, <1>5, PTL DEF MCSpec
=============================================================================
