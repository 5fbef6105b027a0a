--------------------------- MODULE LegacyMessages ---------------------------
(***************************************************************************)
(* The messages of one conversation at a legacy node: sending (single and    *)
(* batch), receiving, disappearing messages and their sweeper, deletion on   *)
(* both sides (transports/p2p/server.py, the messages table of database.py). *)
(* Requests run in threads and every database call commits by itself; a      *)
(* request is one action per call whose result it uses later.  The contact   *)
(* is accepted throughout; editing is in LegacyEdits.                        *)
(***************************************************************************)
EXTENDS Naturals, FiniteSets

CONSTANTS
    Ttls,           \* disappearing_ttl values; 0 stands for None
    SeqNumbers,     \* sequence numbers of messages
    MaxTime,        \* bound: the clock
    MaxMessages,    \* bound: messages stored
    MaxJobs,        \* bound: requests in progress together
    MaxErrors       \* bound: database errors the sweeper meets

ASSUME LegacyMessagesAssumption ==
    /\ Ttls \subseteq Nat /\ 0 \in Ttls /\ SeqNumbers \subseteq Nat
    /\ MaxTime \in Nat \ {0} /\ MaxMessages \in Nat /\ MaxJobs \in Nat /\ MaxErrors \in Nat

VARIABLES
    messages,       \* rows [id, from, seq, ts, exp]; exp 0 is NULL
    ttl,            \* the contact's disappearing_ttl
    jobs,           \* requests in progress
    outbox,         \* posts to the peer: [ids, ts, exp]
    now,            \* time
    sweeper,        \* "list", "delete" or (never: it swallows errors) "stopped"
    errors,         \* database errors so far
    nextRow         \* the next row id

messageVars == <<messages, ttl, jobs, outbox, now, sweeper, errors, nextRow>>

Ids == 1..MaxMessages

LegacyMessagesTypeOK ==
    /\ \A m \in messages : /\ m.id \in Ids /\ m.from \in {"me", "peer"} /\ m.seq \in SeqNumbers
                           /\ m.ts \in 0..MaxTime /\ m.exp \in Nat
    /\ \A m1, m2 \in messages : m1.id = m2.id => m1 = m2
    /\ ttl \in Ttls /\ now \in 1..MaxTime /\ sweeper \in {"list", "delete", "stopped"}
    /\ errors \in 0..MaxErrors /\ nextRow \in 1..(MaxMessages + 1)
    /\ Cardinality(jobs) <= MaxJobs

LegacyMessagesInit ==
    /\ messages = {} /\ ttl = 0 /\ jobs = {} /\ outbox = {}
    /\ now = 1 /\ sweeper = "list" /\ errors = 0 /\ nextRow = 1

\* a request of kind op; left: messages it has still to save
Job(op, from, seq, exp, left) ==
    [no |-> CHOOSE i \in 1..MaxJobs : \A j \in jobs : j.no # i,
     op |-> op, from |-> from, seq |-> seq, ts |-> now, exp |-> exp,
     left |-> left, ids |-> {}, stale |-> FALSE]

Start(j) ==
    /\ Cardinality(jobs) < MaxJobs
    /\ nextRow + j.left <= MaxMessages + 1
    /\ jobs' = jobs \cup {j}

\* expires_at: the contact's ttl as read now, or none
Expiry(ts) == IF ttl > 0 THEN ts + ttl ELSE 0

\* database.get_last_sequence_number: of a row with the latest timestamp, in
\* either direction; 0 without rows
LastSequenceNumbers ==
    IF messages = {} THEN {0}
    ELSE {m.seq : m \in {r \in messages : \A s \in messages : s.ts <= r.ts}}

\* database.save_message of job j: an expiry that is not given is computed
\* from the ttl the contact has by now
SaveMessage(j) ==
    /\ messages' = messages \cup {[id |-> nextRow, from |-> j.from, seq |-> j.seq, ts |-> j.ts,
                                   exp |-> IF j.exp # 0 THEN j.exp ELSE Expiry(j.ts)]}
    /\ nextRow' = nextRow + 1

(***************************************************************************)
(* Sending and receiving.                                                   *)
(***************************************************************************)
\* send_message: the contact, the time and the expiry
LegacySendMessage(seq) ==
    /\ Start(Job("send", "me", seq, Expiry(now), 1))
    /\ UNCHANGED <<messages, ttl, outbox, now, sweeper, errors, nextRow>>

\* send_message_batch: all events get one timestamp and one expiry
SendMessageBatch(seq, n) ==
    /\ Start(Job("send", "me", seq, Expiry(now), n))
    /\ UNCHANGED <<messages, ttl, outbox, now, sweeper, errors, nextRow>>

\* ... saves an event
SaveSent(j) ==
    /\ j.op = "send" /\ j.left > 0 /\ nextRow \in Ids
    /\ SaveMessage(j)
    /\ jobs' = (jobs \ {j}) \cup {[j EXCEPT !.left = @ - 1, !.ids = @ \cup {nextRow}]}
    /\ UNCHANGED <<ttl, outbox, now, sweeper, errors>>

\* ... and has the pool post the events, with the expiry computed first
Transmit(j) ==
    /\ j.op = "send" /\ j.left = 0
    /\ outbox' = outbox \cup {[ids |-> j.ids, ts |-> j.ts, exp |-> j.exp, stale |-> j.stale]}
    /\ jobs' = jobs \ {j}
    /\ UNCHANGED <<messages, ttl, now, sweeper, errors, nextRow>>

\* p2p_message: the sequence number must exceed the last one; the sender's
\* expiry wins over one computed from the contact's ttl
P2PMessage(seq, ts, exp) ==
    /\ \E last \in LastSequenceNumbers : seq > last
    /\ Start([Job("receive", "peer", seq, IF exp # 0 THEN exp ELSE Expiry(ts), 1)
              EXCEPT !.ts = ts])
    /\ UNCHANGED <<messages, ttl, outbox, now, sweeper, errors, nextRow>>

\* p2p_message_batch checks event by event; each is a p2p_message here
SaveReceived(j) ==
    /\ j.op = "receive" /\ nextRow \in Ids
    /\ SaveMessage(j)
    /\ jobs' = jobs \ {j}
    /\ UNCHANGED <<ttl, outbox, now, sweeper, errors>>

\* set_message_ttl.  The history flag stale marks requests that read the
\* contact before the change.
SetMessageTtl(t) ==
    /\ t # ttl
    /\ ttl' = t
    /\ jobs' = {[j EXCEPT !.stale = (j.op = "send")] : j \in jobs}
    /\ UNCHANGED <<messages, outbox, now, sweeper, errors, nextRow>>

\* delete_message and p2p_delete: every row of the conversation with the
\* timestamp
LegacyDeleteMessage(ts) ==
    /\ \E m \in messages : m.ts = ts
    /\ messages' = {m \in messages : m.ts # ts}
    /\ UNCHANGED <<ttl, jobs, outbox, now, sweeper, errors, nextRow>>

(***************************************************************************)
(* The sweeper thread: message_expiry_sweeper.                              *)
(***************************************************************************)
Expired == {m \in messages : m.exp # 0 /\ m.exp <= now}

\* get_expired_messages; nothing to do: sleep
SweepList ==
    /\ sweeper = "list" /\ Expired # {}
    /\ sweeper' = "delete"
    /\ UNCHANGED <<messages, ttl, jobs, outbox, now, errors, nextRow>>

\* delete_expired_messages, with the time of now
SweepDelete ==
    /\ sweeper = "delete"
    /\ messages' = messages \ Expired
    /\ sweeper' = "list"
    /\ UNCHANGED <<ttl, jobs, outbox, now, errors, nextRow>>

\* Mutant of SweepFails: the error ends the thread.
SweepFailsForGood ==
    /\ sweeper = "delete" /\ errors < MaxErrors
    /\ errors' = errors + 1
    /\ sweeper' = "stopped"
    /\ UNCHANGED <<messages, ttl, jobs, outbox, now, nextRow>>

\* a database error is swallowed, and the loop goes on
SweepFails ==
    /\ sweeper = "delete" /\ errors < MaxErrors
    /\ errors' = errors + 1
    /\ sweeper' = "list"
    /\ UNCHANGED <<messages, ttl, jobs, outbox, now, nextRow>>

MessageTick ==
    /\ now < MaxTime
    /\ now' = now + 1
    /\ UNCHANGED <<messages, ttl, jobs, outbox, sweeper, errors, nextRow>>

LegacyMessagesNext ==
    \/ \E s \in SeqNumbers : \/ LegacySendMessage(s)
                             \/ SendMessageBatch(s, 2)
                             \/ \E t \in Ttls, ts \in 1..now : P2PMessage(s, ts, IF t = 0 THEN 0 ELSE ts + t)
    \/ \E j \in jobs : SaveSent(j) \/ Transmit(j) \/ SaveReceived(j)
    \/ \E t \in Ttls : SetMessageTtl(t)
    \/ \E ts \in 1..now : LegacyDeleteMessage(ts)
    \/ SweepList \/ SweepDelete \/ SweepFails \/ MessageTick

\* the sweeper is a thread of its own that runs every second
LegacyMessagesFairness == WF_messageVars(SweepList) /\ WF_messageVars(SweepDelete)

LegacyMessagesSpec == LegacyMessagesInit /\ [][LegacyMessagesNext]_messageVars /\ LegacyMessagesFairness

(***************************************************************************)
(* Properties.                                                              *)
(***************************************************************************)
\* A message disappears on both sides or on neither: a stored message and the
\* post that carried it have the same expiry, unless the ttl was changed while
\* the request was in progress.
ExpirySent ==
    \A p \in outbox, m \in messages : (m.id \in p.ids /\ ~p.stale) => m.exp = p.exp

\* Whatever errors the sweeper meets, an expired message is deleted.
ExpiredSwept ==
    \A id \in Ids : (\E m \in Expired : m.id = id) ~> ~(\E m \in messages : m.id = id)

\* Disappearing messages disappear: on both sides alike, and for good.
Disappear == []ExpirySent /\ ExpiredSwept
=============================================================================
