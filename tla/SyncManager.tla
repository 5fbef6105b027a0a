----------------------------- MODULE SyncManager -----------------------------
(***************************************************************************)
(* MultiDeviceSyncManager of core/sync.py at one device: the envelopes its *)
(* paired devices create reach it late, out of order, more than once or    *)
(* never, and it applies, rejects or recognises each as a duplicate.       *)
(*                                                                         *)
(* The sequence_id of an envelope is an argument of create_sync_envelope;  *)
(* each device numbers its own envelopes from 1.  A device's clock differs *)
(* from this one's by a fixed offset.                                      *)
(***************************************************************************)
EXTENDS Integers, Sequences

CONSTANTS Device,    \* the devices of one user
          Self,      \* device_id of this manager
          Offset,    \* clock of each device, relative to this one's
          MaxItems,  \* max_in_memory_messages of the capability tier
          MaxSkew,   \* the freshness bound (300 seconds)
          MaxTime,   \* bound on the clock
          MaxSeq,    \* bound on the envelopes of a device
          MaxApplied \* bound on the envelopes applied

ASSUME SyncAssumption ==
  /\ Self \in Device
  /\ Offset \in [Device -> Int]
  /\ MaxItems \in Nat \ {0}
  /\ MaxSkew \in Nat
  /\ MaxTime \in Nat /\ MaxSeq \in Nat /\ MaxApplied \in Nat

VARIABLES
  now,        \* time.time() here
  paired,     \* _synced_devices
  processed,  \* _processed_sequence_ids
  fifo,       \* _sequence_fifo
  created,    \* every envelope a device created
  issued,     \* the last sequence_id each device used
  applied     \* the envelopes answered "applied", in order

syncVars == <<now, paired, processed, fifo, created, issued, applied>>

Envelope == [device : Device, timestamp : Int, seq : Nat]

SyncInit ==
  /\ now = 0
  /\ paired = {}
  /\ processed = {}
  /\ fifo = <<>>
  /\ created = {}
  /\ issued = [d \in Device |-> 0]
  /\ applied = <<>>

SyncTick ==
  /\ now < MaxTime
  /\ now' = now + 1
  /\ UNCHANGED <<paired, processed, fifo, created, issued, applied>>

RegisterPairedDevice(d) ==
  /\ paired' = paired \cup {d}
  /\ UNCHANGED <<now, processed, fifo, created, issued, applied>>

IsDeviceAuthorized(d) == d = Self \/ d \in paired

\* The caller numbers the envelopes of its device from 1.
NextSequenceId(n) == n + 1

\* create_sync_envelope at device d
CreateSyncEnvelope(d) ==
  LET seq == NextSequenceId(issued[d])
  IN  /\ issued[d] < MaxSeq
      /\ issued' = [issued EXCEPT ![d] = seq]
      /\ created' = created \cup
           {[device |-> d, timestamp |-> now + Offset[d], seq |-> seq]}
      /\ UNCHANGED <<now, paired, processed, fifo, applied>>

Fresh(e) == now - e.timestamp <= MaxSkew /\ e.timestamp - now <= MaxSkew

\* Mutant: the eviction loop stops one entry late.
Window_OneMore(q) == IF Len(q) > MaxItems THEN Tail(q) ELSE q

\* The FIFO after the eviction loop.  The loop runs at most once because an
\* apply adds one entry (WindowAgrees bounds the FIFO).
Window(q) == IF Len(q) >= MaxItems THEN Tail(q) ELSE q

\* Mutant: a full window clears the set.
Evicted_All(q) == IF Len(q) >= MaxItems THEN {q[i] : i \in DOMAIN q} ELSE {}

\* The ids the eviction loop discards from the set.
Evicted(q) == IF Len(q) >= MaxItems THEN {Head(q)} ELSE {}

\* process_incoming_envelope answers "applied".  Every other outcome (not
\* authorised, duplicate, out of bounds) leaves the manager as it is.
Apply(e) ==
  /\ Len(applied) < MaxApplied
  /\ IsDeviceAuthorized(e.device)
  /\ e.seq \notin processed
  /\ Fresh(e)
  /\ fifo' = Append(Window(fifo), e.seq)
  /\ processed' = (processed \ Evicted(fifo)) \cup {e.seq}
  /\ applied' = Append(applied, e)
  /\ UNCHANGED <<now, paired, created, issued>>

SyncNext ==
  \/ SyncTick
  \/ \E d \in Device : RegisterPairedDevice(d) \/ CreateSyncEnvelope(d)
  \/ \E e \in created : Apply(e)

SyncSpec == SyncInit /\ [][SyncNext]_syncVars

-----------------------------------------------------------------------------
(* Properties *)

\* Every variable has its type.
SyncTypeOK ==
  /\ now \in Nat
  /\ paired \subseteq Device
  /\ processed \subseteq Nat
  /\ fifo \in Seq(Nat)
  /\ created \subseteq Envelope
  /\ issued \in [Device -> Nat]
  /\ applied \in Seq(Envelope)

\* The set and the FIFO of process_incoming_envelope hold the same ids, the FIFO
\* each once and never more than the tier allows, so an eviction removes exactly
\* the oldest id and memory stays bounded.
WindowAgrees ==
  /\ processed = {fifo[i] : i \in DOMAIN fifo}
  /\ \A i, j \in DOMAIN fifo : fifo[i] = fifo[j] => i = j
  /\ Len(fifo) <= MaxItems

\* The window holds the ids applied last, as many as fit.
WindowIsLatest ==
  /\ Len(fifo) = IF Len(applied) < MaxItems THEN Len(applied) ELSE MaxItems
  /\ \A i \in DOMAIN fifo : fifo[i] = applied[Len(applied) - Len(fifo) + i].seq

\* Replay protection: an id is applied again only after at least MaxItems
\* other applications, however envelopes are delayed and repeated.
ReplayDistance ==
  \A i, j \in DOMAIN applied :
    i < j /\ applied[i].seq = applied[j].seq => j - i > MaxItems
=============================================================================
