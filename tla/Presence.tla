------------------------------ MODULE Presence ------------------------------
(***************************************************************************)
(* The presence streams of the relay: transports/relay/routers/presence.py,   *)
(* for one onion address.  stream_presence registers a bounded queue at once,  *)
(* its generator runs when the response is streamed; update_presence puts the  *)
(* status into every registered queue and unregisters a queue that is full.    *)
(***************************************************************************)
EXTENDS Naturals, Sequences

CONSTANTS
    Streams,        \* the subscribers
    PresenceStates, \* "online", "offline", "typing"
    QueueLimit,     \* maxsize of the queue
    MaxUpdates,     \* bound: updates published
    Unknown         \* no status yet

ASSUME PresenceAssumption == QueueLimit \in Nat \ {0} /\ MaxUpdates \in Nat

VARIABLES
    status,         \* _presence: the address's status, or Unknown
    subscribers,    \* _subscribers: the registered streams
    events,         \* stream -> its queue
    generator,      \* stream -> "none", "created", "open" or "closed"
    shown,          \* stream -> the last status its client received
    updates         \* number of updates, for the bound

presenceVars == <<status, subscribers, events, generator, shown, updates>>

PresenceTypeOK ==
    /\ status \in PresenceStates \cup {Unknown} /\ subscribers \subseteq Streams
    /\ \A s \in Streams : Len(events[s]) <= QueueLimit
    /\ generator \in [Streams -> {"none", "created", "open", "closed"}]
    /\ shown \in [Streams -> PresenceStates \cup {Unknown}]
    /\ updates \in 0..MaxUpdates

PresenceInit ==
    /\ status = Unknown /\ subscribers = {} /\ updates = 0
    /\ events = [s \in Streams |-> <<>>]
    /\ generator = [s \in Streams |-> "none"]
    /\ shown = [s \in Streams |-> Unknown]

Full(s) == Len(events[s]) = QueueLimit

\* Mutant: the event is dropped and the subscriber kept
FanOutDropping(new) ==
    /\ events' = [s \in Streams |-> IF s \in subscribers /\ ~Full(s) THEN Append(events[s], new) ELSE events[s]]
    /\ UNCHANGED subscribers

\* the loop over the subscribers; a full queue is dead and unregistered
FanOut(new) ==
    /\ events' = [s \in Streams |-> IF s \in subscribers /\ ~Full(s) THEN Append(events[s], new) ELSE events[s]]
    /\ subscribers' = {s \in subscribers : ~Full(s)}

UpdatePresence(new) ==
    /\ updates < MaxUpdates
    /\ updates' = updates + 1
    /\ status' = new
    /\ FanOut(new)
    /\ UNCHANGED <<generator, shown>>

StreamPresence(s) ==
    /\ generator[s] = "none"
    /\ subscribers' = subscribers \cup {s}
    /\ generator' = [generator EXCEPT ![s] = "created"]
    /\ UNCHANGED <<status, events, shown, updates>>

\* the generator's first event is the current status, if there is one
FirstEvent(s) ==
    /\ generator[s] = "created"
    /\ generator' = [generator EXCEPT ![s] = "open"]
    /\ shown' = [shown EXCEPT ![s] = status]
    /\ UNCHANGED <<status, subscribers, events, updates>>

NextEvent(s) ==
    /\ generator[s] = "open" /\ events[s] # <<>>
    /\ shown' = [shown EXCEPT ![s] = Head(events[s])]
    /\ events' = [events EXCEPT ![s] = Tail(@)]
    /\ UNCHANGED <<status, subscribers, generator, updates>>

\* the client is gone: a generator that runs unregisters its queue, one that
\* never ran leaves it behind
Disconnected(s) ==
    /\ generator[s] \in {"created", "open"}
    /\ generator' = [generator EXCEPT ![s] = "closed"]
    /\ subscribers' = IF generator[s] = "open" THEN subscribers \ {s} ELSE subscribers
    /\ UNCHANGED <<status, events, shown, updates>>

PresenceNext ==
    \/ \E new \in PresenceStates : UpdatePresence(new)
    \/ \E s \in Streams : StreamPresence(s) \/ FirstEvent(s) \/ NextEvent(s) \/ Disconnected(s)

PresenceSpec == PresenceInit /\ [][PresenceNext]_presenceVars

(***************************************************************************)
(* Properties.                                                              *)
(***************************************************************************)
\* A stream that is still registered and has nothing queued shows the current
\* status: updates that race its registration and its first event are neither
\* lost nor left behind an older one.  (A stream whose queue overflowed is
\* unregistered and never told: it keeps its connection and shows an old
\* status for good.)
StreamCurrent ==
    \A s \in subscribers : (generator[s] = "open" /\ events[s] = <<>>) => shown[s] = status
=============================================================================
