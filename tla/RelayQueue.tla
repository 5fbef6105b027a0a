----------------------------- MODULE RelayQueue ------------------------------
(***************************************************************************)
(* The store-and-forward relay of transports/relay/server.py with its      *)
(* in-memory maps (no Redis, one worker).  The handlers run as eventlet    *)
(* greenlets, which do not switch between the first access to the maps and *)
(* the last emit of a handler, so each handler is one step.                *)
(*                                                                         *)
(* A client owns one queue, named after it, and reaches the relay through  *)
(* one socket after another.  An emitted message counts as sent on: what   *)
(* the network does with it is outside the model.                          *)
(***************************************************************************)
EXTENDS Integers, Sequences, FiniteSets

CONSTANTS Client,      \* the clients, and so the queues
          Sid,         \* the Socket.IO session ids that will be given out
          ClientOf,    \* the client behind each session id
          Cap,         \* MAX_OFFLINE_QUEUE (500)
          MaxAccepted, \* bound on the messages accepted for a queue
          None

ASSUME RelayAssumption ==
  /\ ClientOf \in [Sid -> Client]
  /\ Cap \in Nat \ {0}
  /\ MaxAccepted \in Nat
  /\ None \notin Sid

VARIABLES
  used,      \* session ids given out so far
  conn,      \* socket_connect_times: the sockets the relay believes connected
  created,   \* the queues that exist
  owners,    \* queue_owners
  creators,  \* queue_creators
  room,      \* the Socket.IO room of each queue
  offline,   \* offline_queue: buffered messages, by number
  accepted,  \* number of messages accepted for each queue
  emitted,   \* messages emitted to the owner of each queue, in order
  claimed    \* the socket that claimed each queue last

vars == <<used, conn, created, owners, creators, room, offline, accepted, emitted,
          claimed>>

Init ==
  /\ used = {} /\ conn = {}
  /\ created = {}
  /\ owners = [q \in Client |-> {}]
  /\ creators = [q \in Client |-> None]
  /\ room = [q \in Client |-> {}]
  /\ offline = [q \in Client |-> <<>>]
  /\ accepted = [q \in Client |-> 0]
  /\ emitted = [q \in Client |-> <<>>]
  /\ claimed = [q \in Client |-> None]

-----------------------------------------------------------------------------
(* Helpers *)

\* is_recipient_online: the creator's socket is registered as connected.
IsRecipientOnline(q) == creators[q] \in conn

\* Mutant: the oldest messages are kept.
Trim_KeepOldest(s) == IF Len(s) > Cap THEN SubSeq(s, 1, Cap) ELSE s

\* enqueue_offline keeps the latest Cap payloads.
Trim(s) == IF Len(s) > Cap THEN SubSeq(s, Len(s) - Cap + 1, Len(s)) ELSE s

\* emit(...) to the sockets of the queue
Emit(q, msgs) == emitted' = [emitted EXCEPT ![q] = @ \o msgs]

\* Mutant: the buffer is emitted and kept.
Emptied_Kept(q) == offline

\* offline_queue.pop(queue_id, [])
Emptied(q) == [offline EXCEPT ![q] = <<>>]

\* flush_offline_queue
FlushOffline(q) ==
  /\ Emit(q, offline[q])
  /\ offline' = Emptied(q)

\* add_queue_owner, add_queue_creator and join_room
Claim(q, sid) ==
  /\ owners' = [owners EXCEPT ![q] = @ \cup {sid}]
  /\ creators' = [creators EXCEPT ![q] = sid]
  /\ room' = [room EXCEPT ![q] = @ \cup {sid}]
  /\ claimed' = [claimed EXCEPT ![q] = sid]

-----------------------------------------------------------------------------
(* Handlers *)

\* handle_connect
Connect(sid) ==
  /\ sid \notin used
  /\ used' = used \cup {sid}
  /\ conn' = conn \cup {sid}
  /\ UNCHANGED <<created, owners, creators, room, offline, accepted, emitted, claimed>>

\* handle_create_queue
CreateQueue(sid) ==
  LET q == ClientOf[sid]
  IN  /\ sid \in conn
      /\ q \notin created
      /\ created' = created \cup {q}
      /\ Claim(q, sid)
      /\ FlushOffline(q)
      /\ UNCHANGED <<used, conn, accepted>>

\* handle_rejoin_queue, sent by a client that kept its queue id
RejoinQueue(sid) ==
  LET q == ClientOf[sid]
  IN  /\ sid \in conn
      /\ q \in created
      /\ Claim(q, sid)
      /\ FlushOffline(q)
      /\ UNCHANGED <<used, conn, created, accepted>>

\* handle_register_peer
RegisterPeer(sid, q) ==
  /\ sid \in conn
  /\ q \in created
  /\ sid \in owners[ClientOf[sid]]
  /\ owners' = [owners EXCEPT ![q] = @ \cup {sid}]
  /\ UNCHANGED <<used, conn, created, creators, room, offline, accepted, emitted,
                 claimed>>

\* What handle_push_queue requires before it accepts a payload.  (A push that the
\* rate limiter or the size limit refuses changes nothing here.)
MayPush(sid, q) ==
  /\ sid \in conn
  /\ sid \in owners[q]
  /\ accepted[q] < MaxAccepted

\* handle_push_queue, recipient online: emitted to the room of the queue.
PushOnline(sid, q) ==
  /\ MayPush(sid, q)
  /\ IsRecipientOnline(q)
  /\ accepted' = [accepted EXCEPT ![q] = @ + 1]
  /\ Emit(q, <<accepted[q] + 1>>)
  /\ UNCHANGED <<used, conn, created, owners, creators, room, offline, claimed>>

\* handle_push_queue, recipient offline: buffered.  (An ephemeral payload is
\* dropped instead and never counts as accepted.)
PushOffline(sid, q) ==
  /\ MayPush(sid, q)
  /\ ~IsRecipientOnline(q)
  /\ accepted' = [accepted EXCEPT ![q] = @ + 1]
  /\ offline' = [offline EXCEPT ![q] = Trim(Append(@, accepted[q] + 1))]
  /\ UNCHANGED <<used, conn, created, owners, creators, room, emitted, claimed>>

\* Mutant: every mapping of the queues the socket was an owner of is dropped.
CreatorsWithout_Owner(sid) ==
  [q \in Client |-> IF sid \in owners[q] THEN None ELSE creators[q]]

\* handle_disconnect deletes the creator entries that name the socket.
CreatorsWithout(sid) ==
  [q \in Client |-> IF creators[q] = sid THEN None ELSE creators[q]]

\* handle_disconnect, by the client or after ping_timeout
Disconnect(sid) ==
  /\ sid \in conn
  /\ conn' = conn \ {sid}
  /\ owners' = [q \in Client |-> owners[q] \ {sid}]
  /\ creators' = CreatorsWithout(sid)
  /\ room' = [q \in Client |-> room[q] \ {sid}]
  /\ UNCHANGED <<used, created, offline, accepted, emitted, claimed>>

Next ==
  \E sid \in Sid :
    \/ Connect(sid)
    \/ CreateQueue(sid)
    \/ RejoinQueue(sid)
    \/ \E q \in Client : RegisterPeer(sid, q) \/ PushOnline(sid, q) \/ PushOffline(sid, q)
    \/ Disconnect(sid)

Spec == Init /\ [][Next]_vars

-----------------------------------------------------------------------------
(* Properties *)

\* Every variable has its type.
TypeOK ==
  /\ used \subseteq Sid /\ conn \subseteq Sid
  /\ created \subseteq Client
  /\ owners \in [Client -> SUBSET Sid]
  /\ creators \in [Client -> Sid \cup {None}]
  /\ room \in [Client -> SUBSET Sid]
  /\ offline \in [Client -> Seq(Nat)]
  /\ accepted \in [Client -> Nat]
  /\ emitted \in [Client -> Seq(Nat)]
  /\ claimed \in [Client -> Sid \cup {None}]

\* "Messages are buffered here when the recipient is offline and flushed on
\* reconnect": nothing is left in the buffer of a recipient that is online.
NoneStranded == \A q \in Client : IsRecipientOnline(q) => offline[q] = <<>>

\* The three maps agree: the creator of a queue is a connected socket, one of its
\* owners and a member of its room, however connects, rejoins and late
\* disconnects of older sockets interleave.
CreatorReachable ==
  \A q \in Client : creators[q] # None =>
    /\ creators[q] \in conn
    /\ creators[q] \in owners[q]
    /\ creators[q] \in room[q]

\* The disconnect of an older socket, however late, does not take a queue offline
\* that a newer socket has claimed.
StaysReachable ==
  \A q \in Client : claimed[q] \in conn => creators[q] = claimed[q]

Buffered(q) == {offline[q][i] : i \in DOMAIN offline[q]}
Emitted(q) == {emitted[q][i] : i \in DOMAIN emitted[q]}

\* A message that is neither emitted nor buffered was pushed out of a full
\* buffer, so at least Cap later messages exist.
NoSilentLoss ==
  \A q \in Client : \A m \in 1..accepted[q] :
    m \in Emitted(q) \cup Buffered(q) \/ accepted[q] - m >= Cap

\* The relay implements the mailbox: once each, in order, no overtaking.
Box == INSTANCE Mailbox WITH Queue <- Client, waiting <- offline
MailboxSpec == Box!Spec
=============================================================================
