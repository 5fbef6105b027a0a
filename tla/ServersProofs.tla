---------------------------- MODULE ServersProofs ---------------------------
(***************************************************************************)
(* Proofs about what the servers keep for others, for any number of        *)
(* clients, sockets, onions, requests and uploads: the in-memory queues,   *)
(* node directory, presence streams and chunk store of a relay, the pre-   *)
(* key bundles, their pool and the chunks of files of a node, and the      *)
(* composition that the runs check.                                        *)
(***************************************************************************)
EXTENDS MCServers, FiniteSetTheorems, TLAPS

(***************************************************************************)
(* Proofs about the in-memory relay, for any number of clients and sockets *)
(* and any capacity: its types, that no message is stranded in the buffer  *)
(* of an online recipient, and that it implements the mailbox.             *)
(*                                                                         *)
(* NoneStranded is not inductive alone: a socket that connects could make  *)
(* the recipient of a non-empty buffer look online.  CreatorReachable      *)
(* excludes that, because a creator is connected already.                  *)
(***************************************************************************)

\* Trimming a sequence of numbers yields a sequence of numbers.
LEMMA TrimType ==
  ASSUME NEW s \in Seq(Nat)
  PROVE  Trim(s) \in Seq(Nat)
  BY RelayAssumption DEF Trim

\* Every variable keeps its type.
THEOREM RelayTypeOK == Spec => []TypeOK
<1>1. Init => TypeOK
  BY DEF Init, TypeOK
<1>2. TypeOK /\ [Next]_vars => TypeOK'
  <2> SUFFICES ASSUME TypeOK, [Next]_vars PROVE TypeOK'
    OBVIOUS
  <2> USE RelayAssumption
  <2>1. ASSUME NEW sid \in Sid, Connect(sid) PROVE TypeOK'
    BY <2>1 DEF TypeOK, Connect
  <2>3. ASSUME NEW sid \in Sid, NEW q \in Client, Claim(q, sid), FlushOffline(q)
        PROVE  /\ owners' \in [Client -> SUBSET Sid]
               /\ creators' \in [Client -> Sid \cup {None}]
               /\ room' \in [Client -> SUBSET Sid]
               /\ offline' \in [Client -> Seq(Nat)]
               /\ emitted' \in [Client -> Seq(Nat)]
               /\ claimed' \in [Client -> Sid \cup {None}]
    BY <2>3 DEF TypeOK, Claim, FlushOffline, Emit, Emptied
  <2>4. ASSUME NEW sid \in Sid, CreateQueue(sid) PROVE TypeOK'
    <3>1. ClientOf[sid] \in Client
      OBVIOUS
    <3> QED BY <2>3, <2>4, <3>1 DEF TypeOK, CreateQueue
  <2>5. ASSUME NEW sid \in Sid, RejoinQueue(sid) PROVE TypeOK'
    <3>1. ClientOf[sid] \in Client
      OBVIOUS
    <3> QED BY <2>3, <2>5, <3>1 DEF TypeOK, RejoinQueue
  <2>6. ASSUME NEW sid \in Sid, NEW q \in Client, RegisterPeer(sid, q) PROVE TypeOK'
    BY <2>6 DEF TypeOK, RegisterPeer
  <2>7. ASSUME NEW sid \in Sid, NEW q \in Client, PushOnline(sid, q) PROVE TypeOK'
    <3>1. <<accepted[q] + 1>> \in Seq(Nat)
      BY DEF TypeOK
    <3> QED BY <2>7, <3>1 DEF TypeOK, PushOnline, Emit
  <2>8. ASSUME NEW sid \in Sid, NEW q \in Client, PushOffline(sid, q) PROVE TypeOK'
    <3>1. Append(offline[q], accepted[q] + 1) \in Seq(Nat)
      BY DEF TypeOK
    <3>2. Trim(Append(offline[q], accepted[q] + 1)) \in Seq(Nat)
      BY <3>1, TrimType
    <3> QED BY <2>8, <3>2 DEF TypeOK, PushOffline
  <2>9. ASSUME NEW sid \in Sid, Disconnect(sid) PROVE TypeOK'
    BY <2>9 DEF TypeOK, Disconnect, CreatorsWithout
  <2>10. CASE UNCHANGED vars
    BY <2>10 DEF TypeOK, vars
  <2> QED
    BY <2>1, <2>4, <2>5, <2>6, <2>7, <2>8, <2>9, <2>10 DEF Next
<1> QED BY <1>1, <1>2, PTL DEF Spec

\* The inductive invariant behind NoneStranded.
RelayInv == TypeOK /\ CreatorReachable /\ NoneStranded

\* CreatorReachable and NoneStranded, together, are preserved by every handler.
THEOREM RelayInvariant == Spec => []RelayInv
<1>1. Init => RelayInv
  BY RelayAssumption DEF Init, RelayInv, TypeOK, CreatorReachable, NoneStranded, IsRecipientOnline
<1>2. TypeOK' /\ RelayInv /\ [Next]_vars => RelayInv'
  <2> SUFFICES ASSUME TypeOK', RelayInv, [Next]_vars
               PROVE  CreatorReachable' /\ NoneStranded'
    BY DEF RelayInv
  <2> USE RelayAssumption DEF RelayInv, CreatorReachable, NoneStranded, IsRecipientOnline, TypeOK
  <2>1. ASSUME NEW sid \in Sid, Connect(sid)
        PROVE  CreatorReachable' /\ NoneStranded'
    BY <2>1 DEF Connect
  <2>3. ASSUME NEW sid \in Sid, NEW q \in Client, sid \in conn, conn' = conn,
               Claim(q, sid), FlushOffline(q)
        PROVE  CreatorReachable' /\ NoneStranded'
    BY <2>3 DEF Claim, FlushOffline, Emptied
  <2>4. ASSUME NEW sid \in Sid, CreateQueue(sid)
        PROVE  CreatorReachable' /\ NoneStranded'
    BY <2>3, <2>4 DEF CreateQueue
  <2>5. ASSUME NEW sid \in Sid, RejoinQueue(sid)
        PROVE  CreatorReachable' /\ NoneStranded'
    BY <2>3, <2>5 DEF RejoinQueue
  <2>6. ASSUME NEW sid \in Sid, NEW q \in Client, RegisterPeer(sid, q)
        PROVE  CreatorReachable' /\ NoneStranded'
    BY <2>6 DEF RegisterPeer
  <2>7. ASSUME NEW sid \in Sid, NEW q \in Client, PushOnline(sid, q)
        PROVE  CreatorReachable' /\ NoneStranded'
    BY <2>7 DEF PushOnline
  <2>8. ASSUME NEW sid \in Sid, NEW q \in Client, PushOffline(sid, q)
        PROVE  CreatorReachable' /\ NoneStranded'
    BY <2>8 DEF PushOffline
  <2>9. ASSUME NEW sid \in Sid, Disconnect(sid)
        PROVE  CreatorReachable' /\ NoneStranded'
    BY <2>9 DEF Disconnect, CreatorsWithout
  <2>10. CASE UNCHANGED vars
    BY <2>10 DEF vars
  <2> QED
    BY <2>1, <2>4, <2>5, <2>6, <2>7, <2>8, <2>9, <2>10 DEF Next
<1> QED BY <1>1, <1>2, RelayTypeOK, PTL DEF Spec

\* No message is left in the buffer of an online recipient, and the maps agree.
THEOREM RelayNoneStranded == Spec => [](NoneStranded /\ CreatorReachable)
BY RelayInvariant, PTL DEF RelayInv

\* A session id is given out once, so a socket that has gone never comes back.
SocketsUsed ==
  /\ conn \subseteq used
  /\ \A q \in Client : claimed[q] \in used \cup {None}

\* The disconnect of an older socket never takes a queue from the newer socket
\* that claimed it.  StaysReachable needs SocketsUsed: without it the last
\* claimer could be the socket that connects next.
THEOREM RelayStaysReachable == Spec => []StaysReachable
<1>1. Init => SocketsUsed /\ StaysReachable
  BY RelayAssumption DEF Init, SocketsUsed, StaysReachable
<1>2. TypeOK /\ SocketsUsed /\ StaysReachable /\ [Next]_vars => (SocketsUsed /\ StaysReachable)'
  <2> SUFFICES ASSUME TypeOK, SocketsUsed, StaysReachable, [Next]_vars
               PROVE  (SocketsUsed /\ StaysReachable)'
    OBVIOUS
  <2> USE RelayAssumption DEF TypeOK, SocketsUsed, StaysReachable
  <2>1. ASSUME NEW sid \in Sid, Connect(sid) PROVE (SocketsUsed /\ StaysReachable)'
    BY <2>1 DEF Connect
  <2>2. ASSUME NEW sid \in Sid, CreateQueue(sid) \/ RejoinQueue(sid)
        PROVE  (SocketsUsed /\ StaysReachable)'
    <3>1. ClientOf[sid] \in Client /\ sid \in conn /\ sid \in used
      BY <2>2 DEF CreateQueue, RejoinQueue
    <3>2. Claim(ClientOf[sid], sid) /\ conn' = conn /\ used' = used
      BY <2>2 DEF CreateQueue, RejoinQueue
    <3> QED BY <3>1, <3>2 DEF Claim
  <2>3. ASSUME NEW sid \in Sid, NEW q \in Client,
               RegisterPeer(sid, q) \/ PushOnline(sid, q) \/ PushOffline(sid, q)
        PROVE  (SocketsUsed /\ StaysReachable)'
    BY <2>3 DEF RegisterPeer, PushOnline, PushOffline
  <2>4. ASSUME NEW sid \in Sid, Disconnect(sid) PROVE (SocketsUsed /\ StaysReachable)'
    BY <2>4 DEF Disconnect, CreatorsWithout
  <2>5. CASE UNCHANGED vars
    BY <2>5 DEF vars
  <2> QED BY <2>1, <2>2, <2>3, <2>4, <2>5 DEF Next
<1> QED BY <1>1, <1>2, RelayTypeOK, PTL DEF Spec

\* The in-memory relay implements the mailbox: each handler sends on what waits,
\* or accepts one message, or leaves the mailbox alone.
THEOREM RelayImplementsMailbox == Spec => MailboxSpec
<1>1. Init => Box!Init
  BY DEF Init, Box!Init
<1>2. RelayInv /\ [Next]_vars => [Box!Next]_(Box!mailboxVars)
  <2> SUFFICES ASSUME RelayInv, [Next]_vars
               PROVE  [Box!Next]_(Box!mailboxVars)
    OBVIOUS
  <2> USE DEF Box!mailboxVars
  <2>1. ASSUME NEW sid \in Sid, Connect(sid) PROVE UNCHANGED Box!mailboxVars
    BY <2>1 DEF Connect
  <2>3. ASSUME NEW sid \in Sid, CreateQueue(sid) \/ RejoinQueue(sid) PROVE Box!Next
    <3>1. ClientOf[sid] \in Client
      BY RelayAssumption
    <3>2. Box!Drain(ClientOf[sid])
      BY <2>3 DEF CreateQueue, RejoinQueue, FlushOffline, Emit, Emptied, Box!Drain
    <3> QED BY <3>1, <3>2 DEF Box!Next
  <2>4. ASSUME NEW sid \in Sid, NEW q \in Client, RegisterPeer(sid, q)
        PROVE  UNCHANGED Box!mailboxVars
    BY <2>4 DEF RegisterPeer
  <2>5. ASSUME NEW sid \in Sid, NEW q \in Client, PushOnline(sid, q) PROVE Box!Next
    <3>1. offline[q] = <<>>
      BY <2>5 DEF PushOnline, RelayInv, NoneStranded
    <3>2. emitted[q] \in Seq(Nat) /\ accepted[q] + 1 \in Nat
      BY DEF RelayInv, TypeOK
    <3>3. emitted[q] \o <<accepted[q] + 1>> = Append(emitted[q], accepted[q] + 1)
      BY <3>2
    <3>4. Box!Pass(q)
      BY <2>5, <3>1, <3>3 DEF PushOnline, Emit, Box!Pass
    <3> QED BY <3>4 DEF Box!Next
  <2>6. ASSUME NEW sid \in Sid, NEW q \in Client, PushOffline(sid, q) PROVE Box!Next
    <3>1. Box!Hold(q)
      BY <2>6 DEF PushOffline, Trim, Box!Hold, Box!Newest
    <3> QED BY <3>1 DEF Box!Next
  <2>7. ASSUME NEW sid \in Sid, Disconnect(sid) PROVE UNCHANGED Box!mailboxVars
    BY <2>7 DEF Disconnect
  <2>8. CASE UNCHANGED vars
    BY <2>8 DEF vars
  <2> QED
    BY <2>1, <2>3, <2>4, <2>5, <2>6, <2>7, <2>8 DEF Next
<1> QED BY <1>1, <1>2, RelayInvariant, PTL DEF Spec, MailboxSpec, Box!Spec

(***************************************************************************)
(* The node directory, presence streams and chunk store.                   *)
(***************************************************************************)
\* The inductive invariant behind ListedRecentlySigned: the last sight of every
\* registered node is a moment, not in the future, at which one of its
\* signatures passed _verify_node_signature.
SeenWhenVerified ==
  \A o \in DOMAIN lastSeen :
    \E s \in signed : s.onion = o /\ lastSeen[o] - s.stamp \in -MaxSkew..MaxSkew

DirectoryInv == DirectoryTypeOK /\ SeenWhenVerified

\* A registration or heartbeat whose signature passes keeps the invariant.
LEMMA SeenKeepsInv ==
  ASSUME DirectoryInv, NEW s \in signed, VerifyNodeSignature(s), lastSeen' = Seen(s.onion),
         UNCHANGED <<signed, signedCount, relayClock>>
  PROVE  DirectoryInv'
<1> USE DirectoryAssumption DEF DirectoryInv, DirectoryTypeOK, SeenWhenVerified
<1>1. DOMAIN lastSeen' = DOMAIN lastSeen \cup {s.onion}
  BY DEF Seen
<1>2. \A o \in DOMAIN lastSeen' :
        lastSeen'[o] = IF o = s.onion THEN relayClock ELSE lastSeen[o]
  BY <1>1 DEF Seen
<1>3. DirectoryTypeOK'
  BY <1>1, <1>2
<1>4. SeenWhenVerified'
  <2> SUFFICES ASSUME NEW o \in DOMAIN lastSeen'
               PROVE  \E r \in signed : r.onion = o /\ lastSeen'[o] - r.stamp \in -MaxSkew..MaxSkew
    OBVIOUS
  <2>1. CASE o = s.onion
    BY <2>1, <1>2 DEF VerifyNodeSignature
  <2>2. CASE o # s.onion
    BY <2>2, <1>1, <1>2
  <2> QED BY <2>1, <2>2
<1> QED BY <1>3, <1>4

\* Whatever is replayed, delayed or deregistered, the directory lists a node only
\* on a signature whose timestamp is recent.
THEOREM DirectoryListsRecent == DirectorySpec => [](DirectoryTypeOK /\ ListedRecentlySigned)
<1>1. DirectoryInit => DirectoryInv
  BY DirectoryAssumption DEF DirectoryInit, DirectoryInv, DirectoryTypeOK, SeenWhenVerified
<1>2. DirectoryInv /\ [DirectoryNext]_directoryVars => DirectoryInv'
  <2> SUFFICES ASSUME DirectoryInv, [DirectoryNext]_directoryVars PROVE DirectoryInv'
    OBVIOUS
  <2> USE DirectoryAssumption DEF DirectoryInv, DirectoryTypeOK, SeenWhenVerified
  <2>1. ASSUME NEW o \in Onions, NEW e \in ClockErrors, Sign(o, e) PROVE DirectoryInv'
    <3>1. e \in Int /\ relayClock + e \in Int
      OBVIOUS
    <3>2. DirectoryTypeOK'
      BY <2>1, <3>1 DEF Sign
    <3>3. signed \subseteq signed' /\ lastSeen' = lastSeen
      BY <2>1 DEF Sign
    <3> QED BY <3>2, <3>3, <2>1 DEF Sign
  <2>2. ASSUME NEW o \in Onions, DeregisterNode(o) PROVE DirectoryInv'
    BY <2>2 DEF DeregisterNode
  <2>3. ASSUME NEW s \in signed, RegisterNode(s) \/ Heartbeat(s) PROVE DirectoryInv'
    BY <2>3, SeenKeepsInv DEF RegisterNode, Heartbeat
  <2>4. CASE RelayTick
    BY <2>4 DEF RelayTick
  <2>5. CASE UNCHANGED directoryVars
    BY <2>5 DEF directoryVars
  <2> QED BY <2>1, <2>2, <2>3, <2>4, <2>5 DEF DirectoryNext
<1>3. DirectoryInv => DirectoryTypeOK /\ ListedRecentlySigned
  BY DirectoryAssumption
     DEF DirectoryInv, DirectoryTypeOK, SeenWhenVerified, ListedRecentlySigned, ListNodes
<1> QED BY <1>1, <1>2, <1>3, PTL DEF DirectorySpec

-----------------------------------------------------------------------------
\* Every queue holds statuses.
EventsTyped == events \in [Streams -> Seq(PresenceStates)]

\* A stream registers once, with nothing queued.
FreshStreams == \A s \in Streams : generator[s] = "none" => s \notin subscribers /\ events[s] = <<>>

\* Whatever is queued for a registered stream ends with the current status, also
\* before its generator runs.
QueueEndsCurrent ==
  \A s \in subscribers : events[s] # <<>> => events[s][Len(events[s])] = status

\* Where the last element of a queue is after a put and after a get.
LEMMA QueuePut ==
  ASSUME NEW S, NEW q \in Seq(S), NEW x \in S
  PROVE  /\ Append(q, x) \in Seq(S) /\ Append(q, x) # <<>>
         /\ Len(q) \in Nat /\ Len(Append(q, x)) = Len(q) + 1
         /\ Append(q, x)[Len(Append(q, x))] = x
<1>1. Append(q, x) \in Seq(S) /\ Len(q) \in Nat /\ Len(Append(q, x)) = Len(q) + 1
  OBVIOUS
<1>2. Append(q, x)[Len(q) + 1] = x
  BY <1>1
<1>3. Append(q, x) # <<>>
  BY <1>1
<1> QED BY <1>1, <1>2, <1>3

LEMMA QueueGet ==
  ASSUME NEW S, NEW q \in Seq(S), q # <<>>
  PROVE  /\ Head(q) \in S /\ Tail(q) \in Seq(S)
         /\ Len(q) \in Nat /\ Len(Tail(q)) = Len(q) - 1
         /\ Tail(q) = <<>> => Head(q) = q[Len(q)]
         /\ Tail(q) # <<>> => Tail(q)[Len(Tail(q))] = q[Len(q)]
<1>1. Len(q) \in Nat /\ Len(q) > 0 /\ q \in [1..Len(q) -> S]
  OBVIOUS
<1>2. Head(q) = q[1] /\ Head(q) \in S
  BY <1>1
<1>3. Tail(q) \in Seq(S) /\ Len(Tail(q)) = Len(q) - 1
  BY <1>1
<1>4. \A i \in 1..(Len(q) - 1) : Tail(q)[i] = q[i + 1]
  BY <1>1
<1>5. ASSUME Tail(q) = <<>> PROVE Head(q) = q[Len(q)]
  BY <1>1, <1>2, <1>3, <1>5
<1>6. ASSUME Tail(q) # <<>> PROVE Tail(q)[Len(Tail(q))] = q[Len(q)]
  <2>1. Len(q) - 1 \in 1..(Len(q) - 1)
    BY <1>1, <1>3, <1>6
  <2> QED BY <1>1, <1>3, <1>4, <2>1
<1> QED BY <1>1, <1>2, <1>3, <1>5, <1>6

\* The inductive invariant behind StreamCurrent.
PresenceInv ==
  /\ PresenceTypeOK /\ EventsTyped /\ FreshStreams
  /\ QueueEndsCurrent /\ StreamCurrent

\* A registered stream with an empty queue shows the current status.
THEOREM PresenceStreamsCurrent == PresenceSpec => [](PresenceTypeOK /\ StreamCurrent)
<1>1. PresenceInit => PresenceInv
  BY PresenceAssumption DEF PresenceInit, PresenceInv, PresenceTypeOK, EventsTyped, FreshStreams,
     QueueEndsCurrent, StreamCurrent
<1>2. PresenceInv /\ [PresenceNext]_presenceVars => PresenceInv'
  <2> SUFFICES ASSUME PresenceInv, [PresenceNext]_presenceVars PROVE PresenceInv'
    OBVIOUS
  <2> USE PresenceAssumption DEF PresenceInv, PresenceTypeOK, EventsTyped, FreshStreams,
          QueueEndsCurrent, StreamCurrent
  <2>1. ASSUME NEW new \in PresenceStates, UpdatePresence(new) PROVE PresenceInv'
    <3> USE <2>1 DEF UpdatePresence, FanOut, Full
    <3>1. \A s \in Streams : events[s] \in Seq(PresenceStates)
      OBVIOUS
    <3>2. \A s \in Streams : Append(events[s], new) \in Seq(PresenceStates)
      BY <3>1, QueuePut
    <3>3. \A s \in Streams :
             /\ Len(Append(events[s], new)) = Len(events[s]) + 1
             /\ Append(events[s], new)[Len(Append(events[s], new))] = new
             /\ Append(events[s], new) # <<>>
      BY <3>1, QueuePut
    <3>4. \A s \in subscribers' : s \in Streams /\ events'[s] = Append(events[s], new)
      OBVIOUS
    <3>5. EventsTyped' /\ PresenceTypeOK'
      <4>1. EventsTyped'
        BY <3>1, <3>2
      <4>2. \A s \in Streams : Len(events'[s]) <= QueueLimit
        <5> SUFFICES ASSUME NEW s \in Streams PROVE Len(events'[s]) <= QueueLimit
          OBVIOUS
        <5>1. Len(events[s]) \in Nat /\ Len(events[s]) <= QueueLimit
          BY <3>1
        <5> QED BY <5>1, <3>3
      <4> QED BY <4>1, <4>2
    <3>6. FreshStreams'
      OBVIOUS
    <3>7. QueueEndsCurrent' /\ StreamCurrent'
      BY <3>3, <3>4
    <3> QED BY <3>5, <3>6, <3>7
  <2>2. ASSUME NEW s \in Streams, StreamPresence(s) PROVE PresenceInv'
    BY <2>2 DEF StreamPresence
  <2>3. ASSUME NEW s \in Streams, FirstEvent(s) PROVE PresenceInv'
    BY <2>3 DEF FirstEvent
  <2>4. ASSUME NEW s \in Streams, NextEvent(s) PROVE PresenceInv'
    <3> USE <2>4 DEF NextEvent
    <3>1. events[s] \in Seq(PresenceStates) /\ events[s] # <<>>
      OBVIOUS
    <3>2. /\ Head(events[s]) \in PresenceStates /\ Tail(events[s]) \in Seq(PresenceStates)
          /\ Len(Tail(events[s])) = Len(events[s]) - 1 /\ Len(events[s]) \in Nat
          /\ Tail(events[s]) = <<>> => Head(events[s]) = events[s][Len(events[s])]
          /\ Tail(events[s]) # <<>> =>
               Tail(events[s])[Len(Tail(events[s]))] = events[s][Len(events[s])]
      BY <3>1, QueueGet
    <3>3. /\ events'[s] = Tail(events[s]) /\ shown'[s] = Head(events[s])
          /\ \A t \in Streams \ {s} : events'[t] = events[t] /\ shown'[t] = shown[t]
      OBVIOUS
    <3>4. PresenceTypeOK' /\ EventsTyped'
      BY <3>2
    <3>5. FreshStreams' /\ QueueEndsCurrent' /\ StreamCurrent'
      BY <3>1, <3>2, <3>3
    <3> QED BY <3>4, <3>5
  <2>5. ASSUME NEW s \in Streams, Disconnected(s) PROVE PresenceInv'
    BY <2>5 DEF Disconnected
  <2>6. CASE UNCHANGED presenceVars
    BY <2>6 DEF presenceVars
  <2> QED BY <2>1, <2>2, <2>3, <2>4, <2>5, <2>6 DEF PresenceNext
<1>3. PresenceInv => PresenceTypeOK /\ StreamCurrent
  BY DEF PresenceInv
<1> QED BY <1>1, <1>2, <1>3, PTL DEF PresenceSpec

-----------------------------------------------------------------------------
DownloadRequest == [pc : {"idle", "delete", "memory", "done"}, id : ChunkIds, no : Nat,
                    before : SUBSET Nat]

\* A request knows only deliveries that have happened.
RequestsTyped ==
  /\ download \in [Downloads -> DownloadRequest]
  /\ \A d \in Downloads : download[d].before \subseteq delivered

\* The data of an upload is in one place at most, unless its SET was applied and
\* raised.
OnePlace ==
  \A c \in ChunkIds, e \in ChunkIds :
    /\ inRedis[c].no \notin doubled \cup {0} =>
         (inRedis[c].no = inRedis[e].no => c = e) /\ inRedis[c].no # inMemory[e].no
    /\ inMemory[c].no \notin doubled \cup {0} => (inMemory[c].no = inMemory[e].no => c = e)

\* What is stored was uploaded and, unless it is in two places, nobody has been
\* given it.
StoredUndelivered ==
  \A c \in ChunkIds :
    /\ inRedis[c].no \in 0..puts /\ inRedis[c].no \notin delivered \ doubled
    /\ inMemory[c].no \in 0..puts /\ inMemory[c].no \notin delivered \ doubled

\* A request between GET and DELETE read an upload that (unless it was in two
\* places) was undelivered when it began and that only its own DELETE key can
\* still hold.
ReadIsStillThere ==
  \A d \in Downloads : download[d].pc = "delete" =>
    /\ download[d].no \in 1..puts
    /\ download[d].no \notin doubled =>
         /\ download[d].no \notin download[d].before
         /\ \A c \in ChunkIds :
              /\ inRedis[c].no = download[d].no => c = download[d].id
              /\ inMemory[c].no # download[d].no

\* The inductive invariant behind DeliveredOnce.
RelayChunksInv ==
  /\ RelayChunksTypeOK /\ RequestsTyped /\ OnePlace
  /\ StoredUndelivered /\ ReadIsStillThere /\ DeliveredOnce

\* Replacing two fields of a request leaves the others alone.
LEMMA RequestUpdate ==
  ASSUME NEW r \in DownloadRequest, NEW p, NEW n
  PROVE  [r EXCEPT !.pc = p, !.no = n] = [pc |-> p, id |-> r.id, no |-> n, before |-> r.before]
<1> DEFINE e == [r EXCEPT !.pc = p, !.no = n]
           f == [pc |-> p, id |-> r.id, no |-> n, before |-> r.before]
<1>1. DOMAIN r = {"pc", "id", "no", "before"}
  BY DEF DownloadRequest
<1>2. DOMAIN e = {"pc", "id", "no", "before"} /\ DOMAIN f = {"pc", "id", "no", "before"}
  BY <1>1
<1>3. \A x \in {"pc", "id", "no", "before"} : e[x] = f[x]
  <2>1. /\ e["pc"] = p /\ e["no"] = n /\ e["id"] = r["id"] /\ e["before"] = r["before"]
    BY <1>1
  <2>2. /\ f["pc"] = p /\ f["no"] = n /\ f["id"] = r["id"] /\ f["before"] = r["before"]
    OBVIOUS
  <2> HIDE DEF e, f
  <2> QED BY <2>1, <2>2
<1>4. e = [x \in DOMAIN e |-> e[x]] /\ f = [x \in DOMAIN f |-> f[x]]
  BY DEF DownloadRequest
<1> QED BY <1>2, <1>3, <1>4

LEMMA RequestFields ==
  ASSUME NEW r \in DownloadRequest
  PROVE  /\ r.pc \in {"idle", "delete", "memory", "done"} /\ r.id \in ChunkIds
         /\ r.no \in Nat /\ r.before \subseteq Nat
  BY DEF DownloadRequest

\* Whichever calls to Redis fail, applied or not, a request that begins after an
\* upload was delivered does not return it again, unless the SET of that upload
\* was applied and raised.
THEOREM RelayChunksDeliveredOnce ==
  RelayChunksSpec => [](RelayChunksTypeOK /\ DeliveredOnce)
<1>1. RelayChunksInit => RelayChunksInv
  <2> SUFFICES ASSUME RelayChunksInit PROVE RelayChunksInv
    OBVIOUS
  <2>1. (CHOOSE c \in ChunkIds : TRUE) \in ChunkIds
    BY RelayChunksAssumption
  <2>2. [pc |-> "idle", id |-> CHOOSE c \in ChunkIds : TRUE, no |-> 0, before |-> {}] \in DownloadRequest
    BY <2>1 DEF DownloadRequest
  <2>3. RequestsTyped
    BY <2>2 DEF RelayChunksInit, RequestsTyped
  <2> QED BY <2>3, RelayChunksAssumption DEF RelayChunksInit, RelayChunksInv, RelayChunksTypeOK,
             OnePlace, StoredUndelivered, ReadIsStillThere, DeliveredOnce, Absent, Chunk
<1>2. RelayChunksInv /\ [RelayChunksNext]_relayChunkVars => RelayChunksInv'
  <2> SUFFICES ASSUME RelayChunksInv, [RelayChunksNext]_relayChunkVars PROVE RelayChunksInv'
    OBVIOUS
  <2> USE RelayChunksAssumption DEF RelayChunksInv
  <2>0. /\ \A d \in Downloads :
             /\ download[d] \in DownloadRequest /\ download[d].before \subseteq delivered
             /\ download[d].id \in ChunkIds /\ download[d].no \in Nat
             /\ download[d].pc \in {"idle", "delete", "memory", "done"}
        /\ \A c \in ChunkIds :
             /\ inRedis[c].no \in Nat /\ inRedis[c].expires \in Nat
             /\ inMemory[c].no \in Nat /\ inMemory[c].expires \in Nat
        /\ puts \in Nat /\ hours \in Nat /\ delivered \subseteq 1..puts /\ doubled \subseteq 1..puts
    BY RequestFields DEF RelayChunksTypeOK, RequestsTyped, Chunk
  <2>a. ASSUME NEW d \in Downloads, NEW r \in DownloadRequest, download' = [download EXCEPT ![d] = r],
               delivered \subseteq delivered', r.before \subseteq delivered'
        PROVE  /\ RequestsTyped' /\ download'[d] = r
               /\ \A f \in Downloads \ {d} : download'[f] = download[f]
               /\ \A f \in Downloads : download'[f].pc \in {"idle", "delete", "memory", "done"}
    <3>1. download' \in [Downloads -> DownloadRequest]
      BY <2>a DEF RequestsTyped
    <3>2. download'[d] = r /\ \A f \in Downloads \ {d} : download'[f] = download[f]
      BY <2>a DEF RequestsTyped
    <3>3. \A f \in Downloads : download'[f].before \subseteq delivered'
      BY <2>0, <2>a, <3>2
    <3>4. \A f \in Downloads : download'[f].pc \in {"idle", "delete", "memory", "done"}
      BY <3>1, RequestFields
    <3> QED BY <3>1, <3>2, <3>3, <3>4 DEF RequestsTyped
  <2>1. ASSUME NEW c \in ChunkIds, UploadChunk(c) PROVE RelayChunksInv'
    <3> USE <2>1 DEF UploadChunk, Absent, Chunk
    <3>0. /\ puts' = puts + 1 /\ delivered' = delivered
          /\ doubled' = doubled \/ doubled' = doubled \cup {puts + 1}
      OBVIOUS
    <3>a. delivered' \subseteq 1..puts' /\ doubled' \subseteq 1..puts'
      <4>1. 1..puts \subseteq 1..(puts + 1) /\ puts + 1 \in 1..(puts + 1)
        BY <2>0
      <4> QED BY <2>0, <3>0, <4>1
    <3>1. RelayChunksTypeOK' /\ RequestsTyped'
      BY <3>a DEF RelayChunksTypeOK, RequestsTyped
    <3>b. /\ inRedis \in [ChunkIds -> Chunk] /\ inMemory \in [ChunkIds -> Chunk]
          /\ puts + 1 \notin 0..puts /\ 0..puts \subseteq 0..(puts + 1) /\ puts + 1 \in 0..(puts + 1)
          /\ puts + 1 \notin delivered
      BY <2>0 DEF RelayChunksTypeOK
    <3>c. /\ \A e \in ChunkIds : inRedis'[e].no = inRedis[e].no \/ (e = c /\ inRedis'[e].no = puts + 1)
          /\ \A e \in ChunkIds : inMemory'[e].no = inMemory[e].no \/ (e = c /\ inMemory'[e].no = puts + 1)
          /\ (\A e \in ChunkIds : inRedis'[e].no = inRedis[e].no) \/ (\A e \in ChunkIds : inMemory'[e].no = inMemory[e].no)
               \/ puts + 1 \in doubled'
      BY <3>b
    <3>d. \A e \in ChunkIds : inRedis[e].no \in 0..puts /\ inMemory[e].no \in 0..puts
      BY DEF StoredUndelivered
    <3>2. OnePlace' /\ StoredUndelivered'
      <4> HIDE <2>1 DEF UploadChunk, Absent, Chunk
      <4>1. StoredUndelivered'
        BY <2>1, <2>0, <3>0, <3>b, <3>c, <3>d DEF StoredUndelivered, UploadChunk
      <4>2. OnePlace'
        BY <3>0, <3>b, <3>c, <3>d DEF OnePlace
      <4> QED BY <4>1, <4>2
    <3>3. ReadIsStillThere' /\ DeliveredOnce'
      BY <2>0 DEF ReadIsStillThere, DeliveredOnce, RelayChunksTypeOK
    <3> QED BY <3>1, <3>2, <3>3
  <2>2. ASSUME NEW c \in ChunkIds, RedisExpires(c) PROVE RelayChunksInv'
    BY <2>2, <2>0 DEF RedisExpires, RelayChunksTypeOK, RequestsTyped, OnePlace, StoredUndelivered,
                      ReadIsStillThere, DeliveredOnce, Absent, Chunk
  <2>3. ASSUME NEW d \in Downloads, NEW c \in ChunkIds, RedisGet(d, c) PROVE RelayChunksInv'
    <3> USE <2>3
    <3> DEFINE R(p, n) == [pc |-> p, id |-> c, no |-> n, before |-> delivered]
    <3>1. /\ UNCHANGED <<inRedis, inMemory, puts, delivered, doubled, hours>>
          /\ inRedis[c].no \in Nat
          /\ \/ inRedis[c].no # 0 /\ download' = [download EXCEPT ![d] = R("delete", inRedis[c].no)]
             \/ download' = [download EXCEPT ![d] = R("memory", 0)]
      BY <2>0 DEF RedisGet
    <3>2. PICK p \in {"delete", "memory"}, n \in Nat :
            /\ p = "delete" => n # 0 /\ n = inRedis[c].no
            /\ download' = [download EXCEPT ![d] = R(p, n)]
      BY <3>1
    <3>3. R(p, n) \in DownloadRequest /\ R(p, n).before \subseteq delivered'
      BY <3>1, <2>0 DEF DownloadRequest
    <3>4. /\ RequestsTyped' /\ download'[d] = R(p, n)
          /\ \A f \in Downloads \ {d} : download'[f] = download[f]
          /\ \A f \in Downloads : download'[f].pc \in {"idle", "delete", "memory", "done"}
      BY <2>a, <3>1, <3>2, <3>3
    <3>5. RelayChunksTypeOK' /\ OnePlace' /\ StoredUndelivered'
      BY <3>1, <3>4 DEF RelayChunksTypeOK, OnePlace, StoredUndelivered
    <3>6. ASSUME p = "delete"
          PROVE  /\ n \in 1..puts
                 /\ n \notin doubled =>
                      /\ n \notin delivered
                      /\ \A e \in ChunkIds : (inRedis[e].no = n => e = c) /\ inMemory[e].no # n
      BY <3>2, <3>6, <2>0 DEF OnePlace, StoredUndelivered
    <3>7. ReadIsStillThere' /\ DeliveredOnce'
      BY <3>1, <3>2, <3>4, <3>6 DEF ReadIsStillThere, DeliveredOnce
    <3> QED BY <3>4, <3>5, <3>7
  <2>4. ASSUME NEW d \in Downloads, RedisDelete(d) PROVE RelayChunksInv'
    <3> USE <2>4
    <3> DEFINE id == download[d].id
               n  == download[d].no
               R(p, m) == [pc |-> p, id |-> id, no |-> m, before |-> download[d].before]
    <3>1. /\ download[d].pc = "delete" /\ UNCHANGED <<inMemory, puts, doubled, hours>>
          /\ id \in ChunkIds /\ n \in 1..puts /\ n \notin download[d].before \ doubled
      BY <2>0 DEF RedisDelete, ReadIsStillThere
    <3>2. \A p, m : [download EXCEPT ![d].pc = p, ![d].no = m] = [download EXCEPT ![d] = R(p, m)]
      BY <2>0, RequestUpdate DEF RequestsTyped
    <3>0. \A p \in {"memory", "done"}, m \in Nat : R(p, m) \in DownloadRequest
      BY <2>0 DEF DownloadRequest
    <3>3. CASE inRedis' = [inRedis EXCEPT ![id] = Absent] /\ Return(d, n)
      <4>1. delivered' = delivered \cup {n} /\ download' = [download EXCEPT ![d] = R("done", n)]
        <5>1. n # 0
          BY <3>1, <2>0
        <5>2. [download EXCEPT ![d].pc = "done", ![d].no = n] = [download EXCEPT ![d] = R("done", n)]
          BY <3>2
        <5> QED BY <3>3, <5>1, <5>2 DEF Return
      <4>2. R("done", n) \in DownloadRequest /\ R("done", n).before \subseteq delivered'
        BY <4>1, <3>0, <2>0
      <4>3. /\ RequestsTyped' /\ download'[d] = R("done", n)
            /\ \A f \in Downloads \ {d} : download'[f] = download[f]
            /\ \A f \in Downloads : download'[f].pc \in {"idle", "delete", "memory", "done"}
        BY <2>a, <4>1, <4>2
      <4>4. inRedis'[id].no = 0 /\ \A c \in ChunkIds \ {id} : inRedis'[c] = inRedis[c]
        BY <3>1, <3>3 DEF RelayChunksTypeOK, Absent
      <4>5. RelayChunksTypeOK'
        BY <3>1, <3>3, <4>1, <4>3 DEF RelayChunksTypeOK, Absent, Chunk
      <4>6. OnePlace'
        BY <3>1, <4>4, <2>0 DEF OnePlace
      <4>7. StoredUndelivered'
        BY <3>1, <4>1, <4>4, <2>0 DEF StoredUndelivered, ReadIsStillThere
      <4>8. ReadIsStillThere'
        BY <3>1, <4>3, <4>4, <2>0 DEF ReadIsStillThere
      <4>9. DeliveredOnce'
        BY <3>1, <4>3 DEF DeliveredOnce
      <4> QED BY <4>3, <4>5, <4>6, <4>7, <4>8, <4>9
    <3>4. CASE /\ download' = [download EXCEPT ![d].pc = "memory", ![d].no = 0]
               /\ inRedis' \in {inRedis, [inRedis EXCEPT ![id] = Absent]}
               /\ UNCHANGED delivered
      <4>0. /\ inRedis' \in [ChunkIds -> Chunk]
            /\ \A c \in ChunkIds : inRedis'[c] = inRedis[c] \/ inRedis'[c].no = 0
        <5>1. Absent \in Chunk /\ Absent.no = 0
          BY <2>0 DEF Absent, Chunk
        <5>2. inRedis' = inRedis \/ inRedis' = [inRedis EXCEPT ![id] = Absent]
          BY <3>4
        <5> QED BY <3>1, <5>1, <5>2 DEF RelayChunksTypeOK
      <4>1. download' = [download EXCEPT ![d] = R("memory", 0)]
        BY <3>2, <3>4
      <4>2. R("memory", 0) \in DownloadRequest /\ R("memory", 0).before \subseteq delivered'
        BY <3>0, <3>4, <2>0
      <4>3. /\ RequestsTyped' /\ download'[d] = R("memory", 0)
            /\ \A f \in Downloads \ {d} : download'[f] = download[f]
            /\ \A f \in Downloads : download'[f].pc \in {"idle", "delete", "memory", "done"}
        BY <2>a, <4>1, <4>2, <3>4
      <4>a. /\ UNCHANGED <<inMemory, puts, doubled, hours, delivered>>
            /\ \A c \in ChunkIds : inRedis[c].no \in Nat /\ inRedis'[c].no \in Nat
        BY <3>1, <3>4, <4>0, <2>0
      <4>4. RelayChunksTypeOK' /\ OnePlace' /\ StoredUndelivered'
        <5>1. RelayChunksTypeOK'
          BY <4>a, <4>0, <4>3 DEF RelayChunksTypeOK
        <5>2. OnePlace'
          BY <4>a, <4>0 DEF OnePlace
        <5>3. StoredUndelivered'
          BY <4>a, <4>0, <2>0 DEF StoredUndelivered
        <5> QED BY <5>1, <5>2, <5>3
      <4>5. ReadIsStillThere'
        <5> SUFFICES ASSUME NEW f \in Downloads, download'[f].pc = "delete"
                     PROVE  /\ download'[f].no \in 1..puts'
                            /\ download'[f].no \notin doubled' =>
                                 /\ download'[f].no \notin download'[f].before
                                 /\ \A c \in ChunkIds :
                                      /\ inRedis'[c].no = download'[f].no => c = download'[f].id
                                      /\ inMemory'[c].no # download'[f].no
          BY DEF ReadIsStillThere
        <5>1. f # d
          BY <4>3
        <5>2. download'[f] = download[f]
          BY <4>3, <5>1
        <5>3. download[f].no \in 1..puts
          BY <5>2 DEF ReadIsStillThere
        <5>4. download[f].pc = "delete" /\ download[f].no # 0
          BY <5>2, <5>3, <2>0
        <5> QED BY <4>a, <4>0, <5>2, <5>3, <5>4 DEF ReadIsStillThere
      <4>6. DeliveredOnce'
        BY <4>a, <4>3 DEF DeliveredOnce
      <4> QED BY <4>3, <4>4, <4>5, <4>6
    <3> QED BY <3>3, <3>4 DEF RedisDelete
  <2>5. ASSUME NEW d \in Downloads, MemoryPop(d) PROVE RelayChunksInv'
    <3> USE <2>5
    <3> DEFINE id == download[d].id
               R(m) == [pc |-> "done", id |-> id, no |-> m, before |-> download[d].before]
    <3>1. /\ UNCHANGED <<inRedis, puts, doubled, hours>> /\ id \in ChunkIds
          /\ inMemory' = [inMemory EXCEPT ![id] = Absent]
          /\ Return(d, IF inMemory[id].expires >= hours THEN inMemory[id].no ELSE 0)
      BY <2>0 DEF MemoryPop
    <3>2. PICK n \in 0..puts : n \in {0, inMemory[id].no} /\ n \notin delivered \ doubled /\ Return(d, n)
      <4>1. inMemory[id].no \in 0..puts /\ inMemory[id].no \notin delivered \ doubled
        BY <3>1 DEF StoredUndelivered
      <4>2. 0 \in 0..puts /\ 0 \notin delivered
        BY <2>0
      <4> QED BY <3>1, <4>1, <4>2
    <3>3. delivered' = (delivered \cup {n}) \ {0} /\ delivered \subseteq delivered'
      BY <3>2, <2>0 DEF Return
    <3>4. download' = [download EXCEPT ![d] = R(n)]
      BY <2>0, <3>2, RequestUpdate DEF Return, RequestsTyped
    <3>5. R(n) \in DownloadRequest /\ R(n).before \subseteq delivered'
      BY <2>0, <3>3 DEF DownloadRequest
    <3>6. /\ RequestsTyped' /\ download'[d] = R(n)
          /\ \A f \in Downloads \ {d} : download'[f] = download[f]
          /\ \A f \in Downloads : download'[f].pc \in {"idle", "delete", "memory", "done"}
      BY <2>a, <3>3, <3>4, <3>5
    <3>7. inMemory'[id].no = 0 /\ \A c \in ChunkIds \ {id} : inMemory'[c] = inMemory[c]
      BY <3>1 DEF RelayChunksTypeOK, Absent
    <3>8. RelayChunksTypeOK'
      <4>1. ASSUME NEW x \in delivered' PROVE x \in 1..puts
        <5>1. x \in delivered \/ (x = n /\ n # 0)
          BY <3>3
        <5>2. n \in Nat /\ n <= puts /\ puts \in Nat
          BY <3>2, <2>0
        <5>3. n # 0 => n \in 1..puts
          BY <5>2
        <5> QED BY <5>1, <5>3, <2>0
      <4>2. inMemory' \in [ChunkIds -> Chunk]
        BY <3>1 DEF RelayChunksTypeOK, Absent, Chunk
      <4> QED BY <3>1, <3>6, <4>1, <4>2 DEF RelayChunksTypeOK
    <3>9. OnePlace'
      BY <3>1, <3>7, <2>0 DEF OnePlace
    <3>10. StoredUndelivered'
      BY <3>1, <3>2, <3>3, <3>7, <2>0 DEF StoredUndelivered, OnePlace
    <3>11. ReadIsStillThere'
      BY <3>1, <3>6, <3>7, <2>0 DEF ReadIsStillThere
    <3>12. DeliveredOnce'
      BY <2>0, <3>1, <3>2, <3>6 DEF DeliveredOnce
    <3> QED BY <3>6, <3>8, <3>9, <3>10, <3>11, <3>12
  <2>6. CASE CleanupChunks
    BY <2>6, <2>0 DEF CleanupChunks, RelayChunksTypeOK, RequestsTyped, OnePlace, StoredUndelivered,
                      ReadIsStillThere, DeliveredOnce, Absent, Chunk
  <2>7. CASE HourPasses
    BY <2>7 DEF HourPasses, RelayChunksTypeOK, RequestsTyped, OnePlace, StoredUndelivered,
                ReadIsStillThere, DeliveredOnce
  <2>8. CASE UNCHANGED relayChunkVars
    BY <2>8 DEF relayChunkVars, RelayChunksTypeOK, RequestsTyped, OnePlace, StoredUndelivered,
                ReadIsStillThere, DeliveredOnce
  <2> QED BY <2>1, <2>2, <2>3, <2>4, <2>5, <2>6, <2>7, <2>8 DEF RelayChunksNext
<1>3. RelayChunksInv => RelayChunksTypeOK /\ DeliveredOnce
  BY DEF RelayChunksInv
<1> QED BY <1>1, <1>2, <1>3, PTL DEF RelayChunksSpec

(***************************************************************************)
(* The pre-key pool never grows past its target, for any onions, requests  *)
(* and worker threads.  fill_pool counts and extends in two critical       *)
(* sections, so this needs OneRefill: a single refill is in flight, and    *)
(* nobody else adds to the pool, so the room it counted is still there.    *)
(***************************************************************************)

PrekeyInv == PrekeyTypeOK /\ OneRefill /\ PoolBounded

\* Joining two sequences.
LEMMA ConcatType ==
  ASSUME NEW S, NEW a \in Seq(S), NEW b \in Seq(S)
  PROVE  a \o b \in Seq(S) /\ Len(a \o b) = Len(a) + Len(b)
OBVIOUS

\* Cutting a sequence short.
LEMMA PrefixType ==
  ASSUME NEW S, NEW s \in Seq(S), NEW m \in Nat, m <= Len(s)
  PROVE  SubSeq(s, 1, m) \in Seq(S) /\ Len(SubSeq(s, 1, m)) = m
OBVIOUS

\* The deficit is what is missing to the target.
LEMMA DeficitFacts ==
  ASSUME NEW size \in Nat, size <= RefillBatch
  PROVE  Deficit(size) \in Nat /\ size + Deficit(size) <= RefillBatch
BY PrekeyAssumption DEF Deficit

\* A batch of new keys is a sequence of the given length.
LEMMA FreshType ==
  ASSUME NEW n \in Nat, keys \in Nat
  PROVE  Fresh(n) \in Seq(Key) /\ Len(Fresh(n)) = n
BY DEF Fresh, Key

\* A key that is popped leaves a sequence one shorter.
LEMMA FrontType ==
  ASSUME NEW s \in Seq(Key), s # <<>>
  PROVE  Front(s) \in Seq(Key) /\ Len(Front(s)) = Len(s) - 1 /\ s[Len(s)] \in Key /\ Len(s) \in Nat
<1>1. Len(s) \in Nat /\ Len(s) >= 1
  OBVIOUS
<1>2. s[Len(s)] \in Key
  BY <1>1
<1>3. SubSeq(s, 1, Len(s) - 1) \in Seq(Key) /\ Len(SubSeq(s, 1, Len(s) - 1)) = Len(s) - 1
  <2>1. Len(s) - 1 \in Nat /\ Len(s) - 1 <= Len(s)
    BY <1>1
  <2> QED BY <2>1, PrefixType
<1> QED BY <1>1, <1>2, <1>3 DEF Front

\* Scheduling a refill starts one only when none is running.
LEMMA ScheduleFacts ==
  ASSUME PrekeyTypeOK, OneRefill, NEW o \in Onion, NEW size, ScheduleRefillIfLow(o, size)
  PROVE  /\ refill' \in [Worker -> Refill \cup {Nothing}]
         /\ \A v, w \in Worker : refill'[v] # Nothing /\ refill'[w] # Nothing => v = w
         /\ \A w \in Worker : refill'[w] # Nothing /\ refill'[w].at = "extend" =>
              refill'[w] = refill[w]
<1>1. CASE size >= LowWatermark
  BY <1>1 DEF ScheduleRefillIfLow, PrekeyTypeOK, OneRefill
<1>2. CASE ~(size >= LowWatermark) /\ InFlight(o)
  BY <1>2 DEF ScheduleRefillIfLow, PrekeyTypeOK, OneRefill
<1>3. CASE ~(size >= LowWatermark) /\ ~InFlight(o)
  <2> DEFINE task == [at |-> "count", onion |-> o, deficit |-> 0]
  <2>1. PICK w \in Worker : refill' = [refill EXCEPT ![w] = task]
    BY <1>3 DEF ScheduleRefillIfLow
  <2>2. task \in Refill /\ task.at = "count"
    BY DEF Refill
  <2>3. \A v \in Worker : refill[v] = Nothing
    BY <1>3 DEF ScheduleRefillIfLow, InFlight
  <2> HIDE DEF task
  <2>4. refill'[w] = task /\ \A v \in Worker : v # w => refill'[v] = Nothing
    BY <2>1, <2>3 DEF PrekeyTypeOK
  <2>5. refill' \in [Worker -> Refill \cup {Nothing}]
    BY <2>1, <2>2 DEF PrekeyTypeOK
  <2>6. \A v, u \in Worker : refill'[v] # Nothing /\ refill'[u] # Nothing => v = u
    BY <2>4
  <2>7. \A v \in Worker : refill'[v] # Nothing => refill'[v].at = "count"
    BY <2>2, <2>4
  <2> QED BY <2>3, <2>5, <2>6, <2>7 DEF PrekeyTypeOK
<1> QED BY <1>1, <1>2, <1>3

\* A running request keeps the fields of a fetch_bundle call.
LEMMA RequestFacts ==
  ASSUME PrekeyTypeOK, NEW r \in Request, req[r] # Nothing
  PROVE  /\ req[r] \in Fetch /\ req[r].onion \in Onion /\ req[r].list \in Seq(Key)
         /\ req[r].opk \in Key \cup {Nothing}
BY DEF PrekeyTypeOK, Fetch

\* The response adds at most one key to those handed out.
LEMMA RespondFacts ==
  ASSUME PrekeyTypeOK, NEW r \in Request, req[r] # Nothing, Respond(r)
  PROVE  handed' \in Seq(Key) /\ req' \in [Request -> Fetch \cup {Nothing}]
<1>1. req' \in [Request -> Fetch \cup {Nothing}]
  BY DEF Respond, PrekeyTypeOK
<1>2. CASE req[r].opk = Nothing
  BY <1>1, <1>2 DEF Respond, PrekeyTypeOK
<1>3. CASE req[r].opk # Nothing
  <2>1. req[r].opk \in Key
    BY <1>3, RequestFacts
  <2> QED BY <1>1, <1>3, <2>1 DEF Respond, PrekeyTypeOK
<1> QED BY <1>2, <1>3

\* Types, one refill at a time, room for what it will add, and the bound.
THEOREM PrekeyInvariant == PrekeySpec => []PrekeyInv
<1>1. PrekeyInit => PrekeyInv
  BY PrekeyAssumption DEF PrekeyInit, PrekeyInv, PrekeyTypeOK, OneRefill, PoolBounded
<1>2. PrekeyInv /\ [PrekeyNext]_prekeyVars => PrekeyInv'
  <2> SUFFICES ASSUME PrekeyInv, [PrekeyNext]_prekeyVars PROVE PrekeyInv'
    OBVIOUS
  <2>0. PrekeyTypeOK /\ OneRefill /\ PoolBounded
    BY DEF PrekeyInv
  <2>1. ASSUME NEW w \in Worker, CountDeficit(w) PROVE PrekeyInv'
    <3> DEFINE o == refill[w].onion
               d == Deficit(Len(pool[o]))
    <3>1. refill[w] \in Refill /\ o \in Onion /\ pool[o] \in Seq(Key) /\ Len(pool[o]) \in Nat
      BY <2>0, <2>1 DEF CountDeficit, PrekeyTypeOK, Refill
    <3>2. d \in Nat /\ Len(pool[o]) + d <= RefillBatch
      <4>1. Len(pool[o]) <= RefillBatch
        BY <2>0, <3>1 DEF PoolBounded
      <4> QED BY <3>1, <4>1, DeficitFacts
    <3>3. refill' = [refill EXCEPT ![w].at = "extend", ![w].deficit = d]
      BY <2>1 DEF CountDeficit
    <3> HIDE DEF d
    <3>4. refill' \in [Worker -> Refill \cup {Nothing}]
      BY <2>0, <3>1, <3>2, <3>3 DEF PrekeyTypeOK, Refill
    <3>5. /\ refill'[w].onion = o /\ refill'[w].deficit = d
          /\ \A v \in Worker : v # w => refill'[v] = refill[v]
          /\ refill[w] # Nothing
      BY <2>0, <2>1, <3>1, <3>3 DEF PrekeyTypeOK, Refill, CountDeficit
    <3>6. \A v \in Worker : v # w => refill'[v] = Nothing
      BY <2>0, <3>5 DEF OneRefill
    <3>7. OneRefill'
      BY <2>1, <3>2, <3>5, <3>6 DEF OneRefill, CountDeficit
    <3>8. PrekeyTypeOK'
      BY <2>0, <2>1, <3>4 DEF CountDeficit, PrekeyTypeOK
    <3> QED BY <2>0, <2>1, <3>7, <3>8 DEF CountDeficit, PrekeyInv, PoolBounded
  <2>2. ASSUME NEW w \in Worker, ExtendPool(w) PROVE PrekeyInv'
    <3> DEFINE o == refill[w].onion
    <3>1. /\ refill[w] \in Refill /\ o \in Onion /\ refill[w].deficit \in Nat
          /\ pool[o] \in Seq(Key) /\ keys \in Nat /\ pool \in [Onion -> Seq(Key)]
      BY <2>0, <2>2 DEF ExtendPool, PrekeyTypeOK, Refill
    <3>2. PICK n \in 0..refill[w].deficit :
            keys' = keys + n /\ pool' = [pool EXCEPT ![o] = @ \o Fresh(n)]
      BY <2>2 DEF ExtendPool
    <3>3. Fresh(n) \in Seq(Key) /\ Len(Fresh(n)) = n /\ n \in Nat
      BY <3>1, <3>2, FreshType
    <3>4. pool[o] \o Fresh(n) \in Seq(Key) /\ Len(pool[o] \o Fresh(n)) = Len(pool[o]) + n
      <4> QED BY <3>1, <3>3, ConcatType
    <3>5. Len(pool[o]) + refill[w].deficit <= RefillBatch /\ Len(pool[o]) \in Nat
      BY <2>0, <2>2, <3>1 DEF OneRefill, ExtendPool
    <3>6. pool' \in [Onion -> Seq(Key)] /\ keys' \in Nat
      BY <3>1, <3>2, <3>3, <3>4
    <3>7. Len(pool'[o]) <= RefillBatch
      BY <3>1, <3>2, <3>3, <3>4, <3>5, PrekeyAssumption
    <3>8. \A p \in Onion : p # o => pool'[p] = pool[p]
      BY <3>1, <3>2
    <3>9. PoolBounded'
      BY <2>0, <3>7, <3>8 DEF PoolBounded
    <3>10. \A v \in Worker : refill'[v] = Nothing
      BY <2>0, <2>2 DEF OneRefill, ExtendPool, PrekeyTypeOK
    <3>11. OneRefill'
      BY <3>10 DEF OneRefill
    <3>12. PrekeyTypeOK'
      BY <2>0, <2>2, <3>6 DEF ExtendPool, PrekeyTypeOK
    <3> QED BY <3>9, <3>11, <3>12 DEF PrekeyInv
  <2>3. ASSUME NEW o \in Onion, NEW n \in 1..MaxPublish, Publish(o, n) PROVE PrekeyInv'
    <3>1. n \in Nat /\ keys \in Nat
      BY <2>0, PrekeyAssumption DEF PrekeyTypeOK
    <3>2. Fresh(n) \in Seq(Key)
      BY <3>1, FreshType
    <3>3. PrekeyTypeOK'
      <4>0. keys' = keys + n
        BY <2>3 DEF Publish
      <4>1. keys' \in Nat
        BY <3>1, <4>0
      <4>2. row' \in [Onion -> Seq(Key) \cup {Nothing}]
        BY <2>0, <2>3, <3>2 DEF Publish, PrekeyTypeOK
      <4> QED BY <2>0, <2>3, <4>1, <4>2 DEF Publish, PrekeyTypeOK
    <3> QED BY <2>0, <2>3, <3>3 DEF Publish, PrekeyInv, OneRefill, PoolBounded
  <2>4. ASSUME NEW r \in Request, NEW o \in Onion, FetchRead(r, o) PROVE PrekeyInv'
    <3>1. row[o] \in Seq(Key)
      BY <2>0, <2>4 DEF FetchRead, PrekeyTypeOK
    <3>2. Rest(row[o]) \in Seq(Key)
      BY <3>1 DEF Rest
    <3>3. row[o] # <<>> => Head(row[o]) \in Key
      BY <3>1
    <3>4. [at |-> "commit", onion |-> o, list |-> Rest(row[o]), added |-> FALSE,
           opk |-> IF row[o] = <<>> THEN Nothing ELSE Head(row[o])] \in Fetch
      BY <3>2, <3>3 DEF Fetch
    <3>5. PrekeyTypeOK'
      BY <2>0, <2>4, <3>4 DEF FetchRead, PrekeyTypeOK
    <3> QED BY <2>0, <2>4, <3>5 DEF FetchRead, PrekeyInv, OneRefill, PoolBounded
  <2>5. ASSUME NEW r \in Request, FetchCommit(r) PROVE PrekeyInv'
    <3>1. req[r] # Nothing /\ req[r] \in Fetch /\ req[r].onion \in Onion /\ req[r].list \in Seq(Key)
      BY <2>0, <2>5, RequestFacts DEF FetchCommit
    <3>2. row' \in [Onion -> Seq(Key) \cup {Nothing}]
      BY <2>0, <2>5, <3>1 DEF FetchCommit, PrekeyTypeOK
    <3>3. handed' \in Seq(Key) /\ req' \in [Request -> Fetch \cup {Nothing}]
      <4>1. CASE Len(req[r].list) < Low
        <5>1. req' = [req EXCEPT ![r].at = "take"] /\ handed' = handed
          BY <2>5, <4>1 DEF FetchCommit
        <5>2. req' \in [Request -> Fetch \cup {Nothing}]
          BY <2>0, <3>1, <5>1 DEF PrekeyTypeOK, Fetch
        <5> QED BY <2>0, <5>1, <5>2 DEF PrekeyTypeOK
      <4>2. CASE ~(Len(req[r].list) < Low)
        BY <2>0, <2>5, <3>1, <4>2, RespondFacts DEF FetchCommit
      <4> QED BY <4>1, <4>2
    <3> QED BY <2>0, <2>5, <3>2, <3>3 DEF FetchCommit, PrekeyInv, PrekeyTypeOK, OneRefill, PoolBounded
  <2>6. ASSUME NEW r \in Request, FetchFails(r) PROVE PrekeyInv'
    BY <2>0, <2>6 DEF FetchFails, PrekeyInv, PrekeyTypeOK, OneRefill, PoolBounded
  <2>7. ASSUME NEW r \in Request, FetchTake(r) PROVE PrekeyInv'
    <3> DEFINE o == req[r].onion
               s == pool[o]
    <3>1. /\ req[r] # Nothing /\ req[r] \in Fetch /\ o \in Onion /\ req[r].list \in Seq(Key)
          /\ s \in Seq(Key) /\ s # <<>>
      BY <2>0, <2>7, RequestFacts DEF FetchTake, PrekeyTypeOK
    <3>2. Front(s) \in Seq(Key) /\ Len(Front(s)) = Len(s) - 1 /\ s[Len(s)] \in Key /\ Len(s) \in Nat
      BY <3>1, FrontType
    <3>3. pool' = [pool EXCEPT ![o] = Front(s)]
      BY <2>7 DEF FetchTake, AfterTake
    <3>4. /\ pool' \in [Onion -> Seq(Key)] /\ pool'[o] = Front(s)
          /\ \A p \in Onion : p # o => pool'[p] = pool[p]
      BY <2>0, <3>1, <3>2, <3>3 DEF PrekeyTypeOK
    <3>5. \A p \in Onion : Len(pool'[p]) <= Len(pool[p]) /\ Len(pool'[p]) \in Nat /\ Len(pool[p]) \in Nat
      <4> HIDE DEF s, o
      <4>1. Len(pool'[o]) <= Len(pool[o]) /\ Len(pool'[o]) \in Nat /\ Len(pool[o]) \in Nat
        BY <3>1, <3>2, <3>4 DEF s
      <4>2. \A p \in Onion : pool[p] \in Seq(Key) /\ Len(pool[p]) \in Nat
        BY <2>0 DEF PrekeyTypeOK
      <4> QED BY <3>4, <4>1, <4>2
    <3>6. PoolBounded'
      BY <2>0, <3>5, PrekeyAssumption DEF PoolBounded
    <3>7. ScheduleRefillIfLow(o, Len(s) - 1)
      BY <2>7 DEF FetchTake
    <3>8. /\ refill' \in [Worker -> Refill \cup {Nothing}]
          /\ \A v, w \in Worker : refill'[v] # Nothing /\ refill'[w] # Nothing => v = w
          /\ \A w \in Worker : refill'[w] # Nothing /\ refill'[w].at = "extend" => refill'[w] = refill[w]
      BY <2>0, <3>1, <3>7, ScheduleFacts
    <3>9. OneRefill'
      <4> SUFFICES ASSUME NEW w \in Worker, refill'[w] # Nothing, refill'[w].at = "extend"
                   PROVE  Len(pool'[refill'[w].onion]) + refill'[w].deficit <= RefillBatch
        BY <3>8 DEF OneRefill
      <4>1. refill'[w] = refill[w] /\ refill[w] \in Refill
        BY <2>0, <3>8 DEF PrekeyTypeOK
      <4>2. refill[w].onion \in Onion /\ refill[w].deficit \in Nat
        BY <4>1 DEF Refill
      <4>3. Len(pool[refill[w].onion]) + refill[w].deficit <= RefillBatch
        BY <2>0, <4>1 DEF OneRefill
      <4> QED BY <3>5, <4>1, <4>2, <4>3, PrekeyAssumption
    <3>10. req' \in [Request -> Fetch \cup {Nothing}]
      <4>1. req' = [req EXCEPT ![r].list = Append(@, s[Len(s)]), ![r].added = TRUE]
        BY <2>7 DEF FetchTake
      <4>2. Append(req[r].list, s[Len(s)]) \in Seq(Key)
        BY <3>1, <3>2
      <4> HIDE DEF s
      <4> QED BY <2>0, <3>1, <4>1, <4>2 DEF PrekeyTypeOK, Fetch
    <3>11. PrekeyTypeOK'
      BY <2>0, <2>7, <3>4, <3>8, <3>10 DEF FetchTake, PrekeyTypeOK
    <3> QED BY <3>6, <3>9, <3>11 DEF PrekeyInv
  <2>8. ASSUME NEW r \in Request, Finish(r), req[r] # Nothing, pool' = pool,
               row' \in [Onion -> Seq(Key) \cup {Nothing}], keys' = keys
        PROVE  PrekeyInv'
    <3>1. req[r].onion \in Onion
      BY <2>0, <2>8, RequestFacts
    <3>2. /\ refill' \in [Worker -> Refill \cup {Nothing}]
          /\ \A v, w \in Worker : refill'[v] # Nothing /\ refill'[w] # Nothing => v = w
          /\ \A w \in Worker : refill'[w] # Nothing /\ refill'[w].at = "extend" => refill'[w] = refill[w]
      BY <2>0, <2>8, <3>1, ScheduleFacts DEF Finish
    <3>3. OneRefill'
      BY <2>0, <2>8, <3>2 DEF OneRefill
    <3>4. handed' \in Seq(Key) /\ req' \in [Request -> Fetch \cup {Nothing}]
      BY <2>0, <2>8, RespondFacts DEF Finish
    <3> QED BY <2>0, <2>8, <3>2, <3>3, <3>4 DEF PrekeyInv, PrekeyTypeOK, PoolBounded
  <2>9. ASSUME NEW r \in Request, FetchNoneAdded(r) PROVE PrekeyInv'
    BY <2>0, <2>8, <2>9 DEF FetchNoneAdded, PrekeyTypeOK
  <2>10. ASSUME NEW r \in Request, FetchCommitAdded(r) PROVE PrekeyInv'
    <3>1. req[r] \in Fetch
      BY <2>0, <2>10, RequestFacts DEF FetchCommitAdded
    <3>2. PrekeyTypeOK'
      BY <2>0, <2>10, <3>1 DEF FetchCommitAdded, PrekeyTypeOK, Fetch
    <3> QED BY <2>0, <2>10, <3>2 DEF FetchCommitAdded, PrekeyInv, OneRefill, PoolBounded
  <2>11. ASSUME NEW r \in Request, FetchAddedDone(r) PROVE PrekeyInv'
    <3>1. req[r] # Nothing /\ req[r].onion \in Onion /\ req[r].list \in Seq(Key)
      BY <2>0, <2>11, RequestFacts DEF FetchAddedDone
    <3>2. row' \in [Onion -> Seq(Key) \cup {Nothing}]
      BY <2>0, <2>11, <3>1 DEF FetchAddedDone, PrekeyTypeOK
    <3> QED BY <2>0, <2>8, <2>11, <3>1, <3>2 DEF FetchAddedDone
  <2>12. ASSUME NEW r \in Request, FetchAddedFails(r) PROVE PrekeyInv'
    <3>1. handed' \in Seq(Key) /\ req' \in [Request -> Fetch \cup {Nothing}]
      BY <2>0, <2>12, RespondFacts DEF FetchAddedFails
    <3> QED BY <2>0, <2>12, <3>1 DEF FetchAddedFails, PrekeyInv, PrekeyTypeOK, OneRefill, PoolBounded
  <2>13. CASE UNCHANGED prekeyVars
    BY <2>0, <2>13 DEF prekeyVars, PrekeyInv, PrekeyTypeOK, OneRefill, PoolBounded
  <2> QED BY <2>1, <2>2, <2>3, <2>4, <2>5, <2>6, <2>7, <2>9, <2>10, <2>11, <2>12, <2>13 DEF PrekeyNext
<1> QED BY <1>1, <1>2, PTL DEF PrekeySpec

\* Every variable of the bundles keeps its type.
THEOREM PrekeyTyped == PrekeySpec => []PrekeyTypeOK
<1>1. PrekeyInv => PrekeyTypeOK
  BY DEF PrekeyInv
<1> QED BY <1>1, PrekeyInvariant, PTL

\* fill_pool fills up to its target and no further, although it counts and
\* extends in separate critical sections.
THEOREM PrekeyPoolBounded == PrekeySpec => [](PoolBounded /\ OneRefill)
<1>1. PrekeyInv => PoolBounded /\ OneRefill
  BY DEF PrekeyInv
<1> QED BY <1>1, PrekeyInvariant, PTL

(***************************************************************************)
(* A key of the pool is known to nobody.                                   *)
(***************************************************************************)
\* The one-time keys a peer may know or may still be given: those handed out, in a
\* row, or held by a running fetch_bundle.
OfferedByRow(o) == IF row[o] = Nothing THEN {} ELSE Elements(row[o])
OfferedByRequest(r) ==
  IF req[r] = Nothing THEN {} ELSE Elements(req[r].list) \cup ({req[r].opk} \ {Nothing})
Offered ==
  Elements(handed) \cup (UNION {OfferedByRow(o) : o \in Onion})
                   \cup (UNION {OfferedByRequest(r) : r \in Request})

Injective(s) == \A i, j \in DOMAIN s : s[i] = s[j] => i = j

\* What PoolKeysUnoffered rests on: the pools hold each generated key at most once,
\* and none that is on offer anywhere.
PoolPrivate ==
  /\ Offered \subseteq 1..keys
  /\ \A o \in Onion :
       /\ Injective(pool[o]) /\ Elements(pool[o]) \subseteq 1..keys
       /\ Elements(pool[o]) \cap Offered = {}
       /\ \A p \in Onion \ {o} : Elements(pool[o]) \cap Elements(pool[p]) = {}

\* The elements of the sequences fetch_bundle and fill_pool build.
LEMMA AppendElements ==
  ASSUME NEW S, NEW s \in Seq(S), NEW x \in S
  PROVE  Elements(Append(s, x)) = Elements(s) \cup {x}
<1>1. /\ DOMAIN s = 1..Len(s) /\ DOMAIN Append(s, x) = 1..(Len(s) + 1) /\ Len(s) \in Nat
      /\ \A i \in 1..Len(s) : Append(s, x)[i] = s[i]
      /\ Append(s, x)[Len(s) + 1] = x
  OBVIOUS
<1>2. 1..(Len(s) + 1) = 1..Len(s) \cup {Len(s) + 1}
  BY <1>1
<1> QED BY <1>1, <1>2 DEF Elements

LEMMA ConcatElements ==
  ASSUME NEW S, NEW a \in Seq(S), NEW b \in Seq(S)
  PROVE  Elements(a \o b) = Elements(a) \cup Elements(b)
<1> DEFINE c == a \o b
<1>1. /\ DOMAIN a = 1..Len(a) /\ DOMAIN b = 1..Len(b) /\ DOMAIN c = 1..(Len(a) + Len(b))
      /\ Len(a) \in Nat /\ Len(b) \in Nat
  OBVIOUS
<1>2. /\ \A i \in 1..Len(a) : c[i] = a[i]
      /\ \A i \in (Len(a) + 1)..(Len(a) + Len(b)) : c[i] = b[i - Len(a)]
  OBVIOUS
<1>3. \A j \in 1..Len(b) : c[Len(a) + j] = b[j]
  <2> TAKE j \in 1..Len(b)
  <2>1. Len(a) + j \in (Len(a) + 1)..(Len(a) + Len(b)) /\ (Len(a) + j) - Len(a) = j
    BY <1>1
  <2> QED BY <1>2, <2>1
<1>4. \A m, n \in Nat : \A i \in 1..(m + n) : i \in 1..m \/ (i - m \in 1..n /\ i \in (m + 1)..(m + n))
  OBVIOUS
<1>5. \A m, n \in Nat : (\A i \in 1..m : i \in 1..(m + n)) /\ (\A j \in 1..n : m + j \in 1..(m + n))
  OBVIOUS
<1> HIDE DEF c
<1>6. Elements(c) \subseteq Elements(a) \cup Elements(b)
  <2> SUFFICES ASSUME NEW i \in 1..(Len(a) + Len(b)) PROVE c[i] \in Elements(a) \cup Elements(b)
    BY <1>1 DEF Elements
  <2> QED BY <1>1, <1>2, <1>4 DEF Elements
<1>7. Elements(a) \subseteq Elements(c)
  BY <1>1, <1>2, <1>5 DEF Elements
<1>8. Elements(b) \subseteq Elements(c)
  BY <1>1, <1>3, <1>5 DEF Elements
<1> QED BY <1>6, <1>7, <1>8 DEF c

LEMMA ConcatInjective ==
  ASSUME NEW S, NEW a \in Seq(S), NEW b \in Seq(S), Injective(a), Injective(b),
         Elements(a) \cap Elements(b) = {}
  PROVE  Injective(a \o b)
<1> DEFINE c == a \o b
<1>1. /\ DOMAIN a = 1..Len(a) /\ DOMAIN b = 1..Len(b) /\ DOMAIN c = 1..(Len(a) + Len(b))
      /\ Len(a) \in Nat /\ Len(b) \in Nat
  OBVIOUS
<1>2. /\ \A i \in 1..Len(a) : c[i] = a[i]
      /\ \A i \in (Len(a) + 1)..(Len(a) + Len(b)) : c[i] = b[i - Len(a)]
  OBVIOUS
<1>3. \A m, n \in Nat : \A i \in 1..(m + n) : i \in 1..m \/ (i - m \in 1..n /\ i \in (m + 1)..(m + n))
  OBVIOUS
<1>4. \A m \in Nat : \A i, j \in Int : i - m = j - m => i = j
  OBVIOUS
<1> HIDE DEF c
<1> SUFFICES ASSUME NEW i \in 1..(Len(a) + Len(b)), NEW j \in 1..(Len(a) + Len(b)), c[i] = c[j]
             PROVE  i = j
  BY <1>1 DEF Injective, c
<1>5. CASE i \in 1..Len(a) /\ j \in 1..Len(a)
  BY <1>1, <1>2, <1>5 DEF Injective
<1>6. CASE i - Len(a) \in 1..Len(b) /\ i \in (Len(a) + 1)..(Len(a) + Len(b))
           /\ j - Len(a) \in 1..Len(b) /\ j \in (Len(a) + 1)..(Len(a) + Len(b))
  <2>1. b[i - Len(a)] = b[j - Len(a)]
    BY <1>2, <1>6
  <2>2. i - Len(a) = j - Len(a)
    BY <1>1, <1>6, <2>1 DEF Injective
  <2> QED BY <1>1, <1>4, <2>2
<1>7. ASSUME NEW x \in 1..Len(a), NEW y \in (Len(a) + 1)..(Len(a) + Len(b)), y - Len(a) \in 1..Len(b),
             c[x] = c[y]
      PROVE  FALSE
  <2>1. c[x] \in Elements(a) /\ c[y] \in Elements(b)
    BY <1>1, <1>2, <1>7 DEF Elements
  <2> QED BY <1>7, <2>1
<1> QED BY <1>1, <1>3, <1>5, <1>6, <1>7

LEMMA FreshElements ==
  ASSUME NEW n \in Nat, keys \in Nat
  PROVE  Elements(Fresh(n)) \subseteq (keys + 1)..(keys + n) /\ Injective(Fresh(n))
<1>1. \A k, m \in Nat : \A i \in 1..m : k + i \in (k + 1)..(k + m)
  OBVIOUS
<1>2. DOMAIN Fresh(n) = 1..n /\ \A i \in 1..n : Fresh(n)[i] = keys + i
  BY DEF Fresh
<1> QED BY <1>1, <1>2 DEF Elements, Injective

LEMMA FrontElements ==
  ASSUME NEW S, NEW s \in Seq(S), s # <<>>, Injective(s)
  PROVE  /\ Injective(Front(s)) /\ Elements(Front(s)) \subseteq Elements(s)
         /\ s[Len(s)] \in Elements(s) /\ s[Len(s)] \notin Elements(Front(s))
<1>1. Len(s) \in Nat /\ Len(s) >= 1 /\ DOMAIN s = 1..Len(s)
  OBVIOUS
<1>2. /\ DOMAIN Front(s) = 1..(Len(s) - 1)
      /\ \A i \in 1..(Len(s) - 1) : Front(s)[i] = s[i]
  BY <1>1 DEF Front
<1>3. \A m \in Nat : \A i \in 1..(m - 1) : i \in 1..m /\ i # m
  OBVIOUS
<1>4. Len(s) \in 1..Len(s)
  BY <1>1
<1> QED BY <1>1, <1>2, <1>3, <1>4 DEF Elements, Injective

LEMMA RestElements ==
  ASSUME NEW S, NEW s \in Seq(S)
  PROVE  Elements(Rest(s)) \subseteq Elements(s) /\ (s # <<>> => Head(s) \in Elements(s))
<1>1. CASE s = <<>>
  BY <1>1 DEF Rest, Elements
<1>2. CASE s # <<>>
  <2>1. Len(s) \in Nat /\ Len(s) >= 1 /\ DOMAIN s = 1..Len(s)
    BY <1>2
  <2>2. /\ DOMAIN Tail(s) = 1..(Len(s) - 1) /\ \A i \in 1..(Len(s) - 1) : Tail(s)[i] = s[i + 1]
        /\ Head(s) = s[1]
    BY <1>2, <2>1
  <2>3. \A m \in Nat : \A i \in 1..(m - 1) : i + 1 \in 1..m
    OBVIOUS
  <2>4. 1 \in 1..Len(s)
    BY <2>1
  <2> QED BY <1>2, <2>1, <2>2, <2>3, <2>4 DEF Rest, Elements
<1> QED BY <1>1, <1>2

\* A sequence without repetitions has as many elements as its length.
LEMMA InjectiveCardinality ==
  ASSUME NEW S, NEW s \in Seq(S), Injective(s)
  PROVE  Cardinality(Elements(s)) = Len(s)
<1>1. Len(s) \in Nat /\ DOMAIN s = 1..Len(s) /\ s \in [1..Len(s) -> S]
  OBVIOUS
<1>2. s \in Bijection(1..Len(s), Elements(s))
  BY <1>1 DEF Bijection, Injection, Surjection, Elements, Injective, IsInjective
<1>3. ExistsBijection(1..Len(s), Elements(s))
  BY <1>2 DEF ExistsBijection
<1> QED BY <1>1, <1>3, FS_CountingElements

\* Keys stay private when a step only takes offers away or moves them around.
LEMMA OffersShrink ==
  ASSUME PoolPrivate, Offered' \subseteq Offered, UNCHANGED <<pool, keys>>
  PROVE  PoolPrivate'
BY DEF PoolPrivate

\* What a step may add to the offers of a request, a row and the answers.
LEMMA OffersFrom ==
  ASSUME NEW X,
         Elements(handed') \subseteq Offered \cup X,
         \A o \in Onion : OfferedByRow(o)' \subseteq Offered \cup X,
         \A r \in Request : OfferedByRequest(r)' \subseteq Offered \cup X
  PROVE  Offered' \subseteq Offered \cup X
<1> SUFFICES ASSUME NEW x \in Offered' PROVE x \in Offered \cup X
  OBVIOUS
<1>1. \/ x \in Elements(handed')
      \/ \E o \in Onion : x \in OfferedByRow(o)'
      \/ \E r \in Request : x \in OfferedByRequest(r)'
  <2>1. \/ x \in Elements(handed') \/ x \in (UNION {OfferedByRow(o) : o \in Onion})'
        \/ x \in (UNION {OfferedByRequest(r) : r \in Request})'
    BY DEF Offered
  <2>2. ASSUME x \in (UNION {OfferedByRow(o) : o \in Onion})'
        PROVE  \E o \in Onion : x \in OfferedByRow(o)'
    BY <2>2
  <2>3. ASSUME x \in (UNION {OfferedByRequest(r) : r \in Request})'
        PROVE  \E r \in Request : x \in OfferedByRequest(r)'
    BY <2>3
  <2> QED BY <2>1, <2>2, <2>3
<1> QED BY <1>1

LEMMA OfferedParts ==
  /\ Elements(handed) \subseteq Offered
  /\ \A o \in Onion : OfferedByRow(o) \subseteq Offered
  /\ \A r \in Request : OfferedByRequest(r) \subseteq Offered
<1>1. ASSUME NEW o \in Onion, NEW x \in OfferedByRow(o) PROVE x \in Offered
  BY Zenon DEF Offered
<1>2. ASSUME NEW r \in Request, NEW x \in OfferedByRequest(r) PROVE x \in Offered
  <2>1. OfferedByRequest(r) \in {OfferedByRequest(q) : q \in Request}
    OBVIOUS
  <2>2. x \in UNION {OfferedByRequest(q) : q \in Request}
    BY <2>1
  <2> QED BY <2>2 DEF Offered
<1> QED BY <1>1, <1>2 DEF Offered

\* The response of a request hands out the key it holds.
LEMMA RespondOffers ==
  ASSUME PrekeyTypeOK, NEW r \in Request, req[r] # Nothing, Respond(r)
  PROVE  /\ Elements(handed') \subseteq Offered
         /\ \A q \in Request : OfferedByRequest(q)' \subseteq Offered
<1>1. req[r].opk # Nothing => req[r].opk \in Offered
  BY OfferedParts DEF OfferedByRequest
<1>2. Elements(handed') \subseteq Elements(handed) \cup ({req[r].opk} \ {Nothing})
  <2>1. CASE req[r].opk = Nothing
    BY <2>1 DEF Respond
  <2>2. CASE req[r].opk # Nothing
    <3>1. handed \in Seq(Key) /\ req[r].opk \in Key
      BY <2>2, RequestFacts DEF PrekeyTypeOK
    <3> QED BY <2>2, <3>1, AppendElements DEF Respond
  <2> QED BY <2>1, <2>2
<1>3. req'[r] = Nothing /\ \A q \in Request \ {r} : req'[q] = req[q]
  BY DEF Respond, PrekeyTypeOK
<1> QED BY <1>1, <1>2, <1>3, OfferedParts DEF OfferedByRequest

\* A key in the pool is on offer nowhere else, and is there once: a peer that is
\* handed a key can rely on no other fetch finding it in the pool.
THEOREM PrekeyPoolPrivate == PrekeySpec => []PoolKeysUnoffered
<1>1. PrekeyInit => PoolPrivate
  BY PrekeyAssumption DEF PrekeyInit, PoolPrivate, Offered, OfferedByRow, OfferedByRequest, Elements,
     Injective
<1>2. PrekeyInv /\ PoolPrivate /\ [PrekeyNext]_prekeyVars => PoolPrivate'
  <2> SUFFICES ASSUME PrekeyTypeOK, PoolPrivate, [PrekeyNext]_prekeyVars PROVE PoolPrivate'
    BY DEF PrekeyInv
  <2>0. keys \in Nat /\ \A o \in Onion : pool[o] \in Seq(Key)
    BY DEF PrekeyTypeOK
  <2>1. ASSUME NEW w \in Worker, CountDeficit(w) PROVE PoolPrivate'
    BY <2>1, OffersShrink DEF CountDeficit, Offered, OfferedByRow, OfferedByRequest
  <2>2. ASSUME NEW w \in Worker, ExtendPool(w) PROVE PoolPrivate'
    <3> DEFINE o == refill[w].onion
    <3>1. o \in Onion /\ refill[w].deficit \in Nat
      BY <2>2 DEF ExtendPool, PrekeyTypeOK, Refill
    <3>2. PICK n \in 0..refill[w].deficit :
            keys' = keys + n /\ pool' = [pool EXCEPT ![o] = @ \o Fresh(n)]
      BY <2>2 DEF ExtendPool
    <3>3. n \in Nat
      BY <3>1
    <3>4. /\ Fresh(n) \in Seq(Key) /\ Injective(Fresh(n))
          /\ Elements(Fresh(n)) \subseteq (keys + 1)..(keys + n)
      BY <2>0, <3>3, FreshType, FreshElements
    <3>5. /\ 1..keys \subseteq 1..(keys + n) /\ (keys + 1)..(keys + n) \subseteq 1..(keys + n)
          /\ 1..keys \cap (keys + 1)..(keys + n) = {}
      BY <2>0, <3>3
    <3>6. Offered' = Offered
      BY <2>2 DEF ExtendPool, Offered, OfferedByRow, OfferedByRequest
    <3>7. /\ pool'[o] = pool[o] \o Fresh(n)
          /\ \A p \in Onion \ {o} : pool'[p] = pool[p]
      BY <3>1, <3>2 DEF PrekeyTypeOK
    <3>8. Elements(pool'[o]) = Elements(pool[o]) \cup Elements(Fresh(n))
      BY <2>0, <3>1, <3>4, <3>7, ConcatElements
    <3>9. Injective(pool'[o])
      <4>1. Injective(pool[o]) /\ Elements(pool[o]) \cap Elements(Fresh(n)) = {}
        BY <3>1, <3>4, <3>5 DEF PoolPrivate
      <4> QED BY <2>0, <3>1, <3>4, <3>7, <4>1, ConcatInjective
    <3>10. \A p \in Onion : /\ Elements(pool[p]) \subseteq 1..keys /\ Injective(pool[p])
                            /\ Elements(pool[p]) \cap Elements(Fresh(n)) = {}
      BY <3>4, <3>5 DEF PoolPrivate
    <3>11. Offered \cap Elements(Fresh(n)) = {}
      BY <3>4, <3>5 DEF PoolPrivate
    <3>12. keys' = keys + n
      BY <3>2
    <3> HIDE DEF o
    <3> QED BY <3>1, <3>4, <3>5, <3>6, <3>7, <3>8, <3>9, <3>10, <3>11, <3>12 DEF PoolPrivate
  <2>3. ASSUME NEW o \in Onion, NEW n \in 1..MaxPublish, Publish(o, n) PROVE PoolPrivate'
    <3>1. n \in Nat /\ keys' = keys + n /\ pool' = pool
      BY <2>3, PrekeyAssumption DEF Publish
    <3>2. Elements(Fresh(n)) \subseteq (keys + 1)..(keys + n)
      BY <2>0, <3>1, FreshElements
    <3>3. Offered' \subseteq Offered \cup (keys + 1)..(keys + n)
      <4>1. row'[o] = Fresh(n) /\ \A p \in Onion \ {o} : row'[p] = row[p]
        BY <2>3 DEF Publish, PrekeyTypeOK
      <4>2. \A p \in Onion : OfferedByRow(p)' \subseteq Offered \cup (keys + 1)..(keys + n)
        BY <3>2, <4>1, OfferedParts DEF OfferedByRow
      <4>3. /\ Elements(handed') \subseteq Offered
            /\ \A r \in Request : OfferedByRequest(r)' \subseteq Offered
        BY <2>3, OfferedParts DEF Publish, OfferedByRequest
      <4> QED BY <4>2, <4>3, OffersFrom
    <3>4. /\ 1..keys \subseteq 1..(keys + n) /\ (keys + 1)..(keys + n) \subseteq 1..(keys + n)
          /\ 1..keys \cap (keys + 1)..(keys + n) = {}
      BY <2>0, <3>1
    <3> QED BY <3>1, <3>3, <3>4 DEF PoolPrivate
  <2>4. ASSUME NEW r \in Request, NEW o \in Onion, FetchRead(r, o) PROVE PoolPrivate'
    <3>1. row[o] \in Seq(Key) /\ row[o] # Nothing
      BY <2>4 DEF FetchRead, PrekeyTypeOK
    <3>2. Elements(row[o]) \subseteq Offered
      BY <3>1, OfferedParts DEF OfferedByRow
    <3>3. /\ req'[r].list = Rest(row[o])
          /\ req'[r].opk = IF row[o] = <<>> THEN Nothing ELSE Head(row[o])
          /\ \A q \in Request \ {r} : req'[q] = req[q]
      BY <2>4 DEF FetchRead, PrekeyTypeOK
    <3>4. \A q \in Request : OfferedByRequest(q)' \subseteq Offered
      <4>1. OfferedByRequest(r)' \subseteq Elements(row[o])
        BY <3>1, <3>3, RestElements DEF OfferedByRequest
      <4> QED BY <3>2, <3>3, <4>1, OfferedParts DEF OfferedByRequest
    <3>5. /\ Elements(handed') \subseteq Offered
          /\ \A p \in Onion : OfferedByRow(p)' \subseteq Offered
      BY <2>4, OfferedParts DEF FetchRead, OfferedByRow
    <3>6. Offered' \subseteq Offered
      BY <3>4, <3>5, OffersFrom
    <3> QED BY <2>4, <3>6, OffersShrink DEF FetchRead
  <2>5. ASSUME NEW r \in Request, req[r] # Nothing,
               row' \in {row, [row EXCEPT ![req[r].onion] = req[r].list]},
               UNCHANGED <<pool, keys>>,
               \/ Respond(r)
               \/ req' = [req EXCEPT ![r] = Nothing] /\ UNCHANGED handed
               \/ \E a : req' = [req EXCEPT ![r].at = a] /\ UNCHANGED handed
        PROVE  PoolPrivate'
    <3>1. req[r] \in Fetch /\ req[r].onion \in Onion /\ req[r].list \in Seq(Key)
      BY <2>5, RequestFacts
    <3>2. \A p \in Onion : OfferedByRow(p)' \subseteq Offered
      <4>1. Elements(req[r].list) \subseteq Offered
        BY <2>5, OfferedParts DEF OfferedByRequest
      <4>2. \A p \in Onion : row'[p] = row[p] \/ row'[p] = req[r].list
        BY <2>5 DEF PrekeyTypeOK
      <4> QED BY <4>1, <4>2, OfferedParts DEF OfferedByRow
    <3>3. /\ Elements(handed') \subseteq Offered
          /\ \A q \in Request : OfferedByRequest(q)' \subseteq Offered
      <4>1. CASE Respond(r)
        BY <2>5, <4>1, RespondOffers
      <4>2. CASE req' = [req EXCEPT ![r] = Nothing] /\ UNCHANGED handed
        <5>1. req'[r] = Nothing /\ \A q \in Request \ {r} : req'[q] = req[q]
          BY <4>2 DEF PrekeyTypeOK
        <5> QED BY <4>2, <5>1, OfferedParts DEF OfferedByRequest
      <4>3. ASSUME NEW a, req' = [req EXCEPT ![r].at = a], UNCHANGED handed
            PROVE  /\ Elements(handed') \subseteq Offered
                   /\ \A q \in Request : OfferedByRequest(q)' \subseteq Offered
        <5>1. req'[r].list = req[r].list /\ req'[r].opk = req[r].opk
          BY <3>1, <4>3 DEF PrekeyTypeOK, Fetch
        <5>2. \A q \in Request \ {r} : req'[q] = req[q]
          BY <4>3 DEF PrekeyTypeOK
        <5> QED BY <2>5, <4>3, <5>1, <5>2, OfferedParts DEF OfferedByRequest
      <4> QED BY <2>5, <4>1, <4>2, <4>3
    <3>4. Offered' \subseteq Offered
      BY <3>2, <3>3, OffersFrom
    <3> QED BY <2>5, <3>4, OffersShrink
  <2>6. ASSUME NEW r \in Request, FetchCommit(r) PROVE PoolPrivate'
    <3>1. Respond(r) \/ (req' = [req EXCEPT ![r].at = "take"] /\ UNCHANGED handed)
      BY <2>6 DEF FetchCommit
    <3> QED BY <2>5, <2>6, <3>1 DEF FetchCommit
  <2>7. ASSUME NEW r \in Request, FetchFails(r) \/ FetchCommitAdded(r) PROVE PoolPrivate'
    BY <2>5, <2>7 DEF FetchFails, FetchCommitAdded
  <2>8. ASSUME NEW r \in Request, FetchTake(r) PROVE PoolPrivate'
    <3> DEFINE o == req[r].onion
               s == pool[o]
               k == s[Len(s)]
    <3>1. /\ req[r] # Nothing /\ req[r] \in Fetch /\ o \in Onion /\ req[r].list \in Seq(Key)
          /\ s \in Seq(Key) /\ s # <<>>
      BY <2>8, RequestFacts DEF FetchTake, PrekeyTypeOK
    <3>2. /\ Injective(Front(s)) /\ Elements(Front(s)) \subseteq Elements(s)
          /\ k \in Elements(s) /\ k \notin Elements(Front(s)) /\ k \in Key
      BY <3>1, FrontElements, FrontType DEF PoolPrivate
    <3>3. pool' = [pool EXCEPT ![o] = Front(s)] /\ keys' = keys
      BY <2>8 DEF FetchTake, AfterTake
    <3>4. pool'[o] = Front(s) /\ \A p \in Onion \ {o} : pool'[p] = pool[p]
      BY <3>1, <3>3 DEF PrekeyTypeOK
    <3>5. Offered' \subseteq Offered \cup {k}
      <4>1. req' = [req EXCEPT ![r].list = Append(@, k), ![r].added = TRUE]
        BY <2>8 DEF FetchTake
      <4>2. Elements(Append(req[r].list, k)) = Elements(req[r].list) \cup {k}
        BY <3>1, <3>2, AppendElements
      <4> HIDE DEF k
      <4>3. /\ req'[r].list = Append(req[r].list, k) /\ req'[r].opk = req[r].opk
            /\ \A q \in Request \ {r} : req'[q] = req[q]
        BY <3>1, <4>1 DEF PrekeyTypeOK, Fetch
      <4>4. OfferedByRequest(r)' \subseteq OfferedByRequest(r) \cup {k}
        BY <3>1, <4>2, <4>3 DEF OfferedByRequest
      <4>5. \A q \in Request : OfferedByRequest(q)' \subseteq Offered \cup {k}
        BY <4>3, <4>4, OfferedParts DEF OfferedByRequest
      <4>6. /\ Elements(handed') \subseteq Offered
            /\ \A p \in Onion : OfferedByRow(p)' \subseteq Offered
        BY <2>8, OfferedParts DEF FetchTake, OfferedByRow
      <4> QED BY <4>5, <4>6, OffersFrom
    <3>6. Elements(s) \subseteq 1..keys /\ Elements(s) \cap Offered = {}
          /\ \A p \in Onion \ {o} : Elements(s) \cap Elements(pool[p]) = {}
      BY <3>1 DEF PoolPrivate
    <3> HIDE DEF k, s, o
    <3>7. /\ Elements(pool'[o]) \cap Offered' = {}
          /\ \A p \in Onion \ {o} : Elements(pool'[p]) \cap Offered' = {}
      BY <3>2, <3>4, <3>5, <3>6 DEF PoolPrivate
    <3>8. Offered' \subseteq 1..keys
      BY <3>2, <3>5, <3>6 DEF PoolPrivate
    <3>9. \A p \in Onion : /\ Injective(pool'[p]) /\ Elements(pool'[p]) \subseteq Elements(pool[p])
      BY <3>2, <3>4 DEF PoolPrivate, s
    <3> QED BY <3>1, <3>3, <3>7, <3>8, <3>9 DEF PoolPrivate
  <2>9. ASSUME NEW r \in Request,
               FetchNoneAdded(r) \/ FetchAddedDone(r) \/ FetchAddedFails(r)
        PROVE  PoolPrivate'
    BY <2>5, <2>9 DEF FetchNoneAdded, FetchAddedDone, FetchAddedFails, Finish
  <2>10. CASE UNCHANGED prekeyVars
    BY <2>10, OffersShrink DEF prekeyVars, Offered, OfferedByRow, OfferedByRequest
  <2> QED BY <2>1, <2>2, <2>3, <2>4, <2>6, <2>7, <2>8, <2>9, <2>10 DEF PrekeyNext
<1>3. PrekeyInv /\ PoolPrivate => PoolKeysUnoffered
  <2> SUFFICES ASSUME PrekeyTypeOK, PoolPrivate, NEW o \in Onion
               PROVE  /\ Cardinality(Elements(pool[o])) = Len(pool[o])
                      /\ Elements(pool[o]) \cap Elements(handed) = {}
                      /\ \A p \in Onion : row[p] # Nothing => Elements(pool[o]) \cap Elements(row[p]) = {}
    BY DEF PrekeyInv, PoolKeysUnoffered
  <2>1. pool[o] \in Seq(Key) /\ Injective(pool[o])
    BY DEF PrekeyTypeOK, PoolPrivate
  <2>2. Cardinality(Elements(pool[o])) = Len(pool[o])
    BY <2>1, InjectiveCardinality
  <2> QED BY <2>2, OfferedParts DEF PoolPrivate, OfferedByRow
<1> QED BY <1>1, <1>2, <1>3, PrekeyInvariant, PTL DEF PrekeySpec

(***************************************************************************)
(* The chunks of a node.                                                   *)
(***************************************************************************)
\* What LoadedIsUploaded says of a download holds of every copy of an upload on its
\* way there: the save that runs, the file on disk and the read of a download all
\* carry the number of an upload that was made for their own path.
UploadedFor(data, path) == data \in 1..Len(paths) /\ paths[data] = path

SavesInPlace ==
  /\ DOMAIN save = Saver
  /\ \A v \in Saver : save[v] # NoFile =>
       /\ {"path", "data"} \subseteq DOMAIN save[v]
       /\ UploadedFor(save[v].data, save[v].path)

FilesInPlace ==
  /\ DOMAIN disk = Path
  /\ \A p \in Path : disk[p] # NoFile => UploadedFor(disk[p].data, p)

ReadsInPlace ==
  /\ DOMAIN load = Loader
  /\ \A l \in Loader : load[l] # NoFile => UploadedFor(load[l].data, load[l].path)

AnswersInPlace ==
  /\ DOMAIN loaded = Loader
  /\ \A l \in Loader : loaded[l] # NoFile => UploadedFor(loaded[l].data, loaded[l].path)

ChunkInv ==
  /\ paths \in Seq(Owner \X ChunkId)
  /\ SavesInPlace /\ FilesInPlace /\ ReadsInPlace /\ AnswersInPlace

\* A download returns what was uploaded for the owner and chunk id it asks for,
\* however saves of one path overlap, files are unlinked while they are written
\* and the pruning of several savers interleaves.
THEOREM ChunkLoadedIsUploaded == ChunkSpec => []LoadedIsUploaded
<1>1. ChunkInit => ChunkInv
  BY DEF ChunkInit, ChunkInv, SavesInPlace, FilesInPlace, ReadsInPlace, AnswersInPlace
<1>2. ChunkInv /\ [ChunkNext]_chunkVars => ChunkInv'
  <2> SUFFICES ASSUME ChunkInv, [ChunkNext]_chunkVars PROVE ChunkInv'
    OBVIOUS
  <2> USE DEF ChunkInv, SavesInPlace, FilesInPlace, ReadsInPlace, AnswersInPlace
  <2>1. ASSUME Tick \/ \E u \in Uploader : SetSecret(u) \/ P2PUploadRefused(u) PROVE ChunkInv'
    BY <2>1 DEF Tick, SetSecret, P2PUploadRefused, UploadedFor
  <2>2. ASSUME NEW v \in Saver, NEW o \in Owner, NEW id \in ChunkId, StartSave(v, o, id)
        PROVE  ChunkInv'
    <3>1. /\ paths' = Append(paths, <<o, id>>) /\ paths' \in Seq(Owner \X ChunkId)
          /\ Len(paths) \in Nat /\ Len(paths') = Len(paths) + 1
      BY <2>2 DEF StartSave
    <3>2. paths'[Len(paths) + 1] = <<o, id>> /\ \A i \in 1..Len(paths) : paths'[i] = paths[i]
      BY <3>1
    <3>3. \A d, p : UploadedFor(d, p) => UploadedFor(d, p)'
      BY <3>1, <3>2 DEF UploadedFor
    <3>4. /\ DOMAIN save' = Saver /\ \A u \in Saver \ {v} : save'[u] = save[u]
          /\ save'[v].path = <<o, id>> /\ save'[v].data = Len(paths) + 1
          /\ {"path", "data"} \subseteq DOMAIN save'[v]
      BY <2>2 DEF StartSave, PathOf
    <3>5. SavesInPlace'
      <4>1. save'[v].data \in 1..Len(paths') /\ paths'[save'[v].data] = save'[v].path
        BY <3>1, <3>2, <3>4
      <4>2. \A u \in Saver \ {v} : save'[u] # NoFile =>
               /\ {"path", "data"} \subseteq DOMAIN save'[u]
               /\ UploadedFor(save[u].data, save[u].path)'
        BY <3>3, <3>4
      <4> QED BY <3>4, <4>1, <4>2 DEF UploadedFor
    <3> QED BY <2>2, <3>1, <3>3, <3>5 DEF StartSave
  <2>3. ASSUME NEW v \in Saver, NEW id \in ChunkId,
               LocalUpload(v, id) \/ \E u \in Uploader : P2PUpload(v, u, id)
        PROVE  ChunkInv'
    BY <2>2, <2>3 DEF LocalUpload, P2PUpload, Owner
  <2>4. ASSUME NEW v \in Saver, PruneList(v) PROVE ChunkInv'
    BY <2>4 DEF PruneList, At, UploadedFor
  <2>5. ASSUME NEW v \in Saver, PruneExpired(v) PROVE ChunkInv'
    BY <2>5 DEF PruneExpired, At, UploadedFor
  <2>6. ASSUME NEW v \in Saver, PruneSort(v) PROVE ChunkInv'
    BY <2>6 DEF PruneSort, At, UploadedFor
  <2>7. ASSUME NEW v \in Saver, Evict(v) PROVE ChunkInv'
    BY <2>7 DEF Evict, At, UploadedFor
  <2>8. ASSUME NEW v \in Saver, EvictDone(v) PROVE ChunkInv'
    BY <2>8 DEF EvictDone, At, UploadedFor
  <2>9. ASSUME NEW v \in Saver, LookupKey(v) PROVE ChunkInv'
    BY <2>9 DEF LookupKey, At, UploadedFor
  <2>10. ASSUME NEW v \in Saver, OpenFile(v) PROVE ChunkInv'
    BY <2>10 DEF OpenFile, At, UploadedFor
  <2>11. ASSUME NEW v \in Saver, WriteFile(v) PROVE ChunkInv'
    <3>1. save[v] # NoFile /\ save' = [save EXCEPT ![v] = NoFile] /\ UNCHANGED <<load, paths, loaded>>
      BY <2>11 DEF WriteFile, At
    <3>2. SavesInPlace' /\ ReadsInPlace' /\ AnswersInPlace'
      BY <3>1 DEF UploadedFor
    <3>3. ASSUME NEW f, f.data = save[v].data, disk' = [disk EXCEPT ![save[v].path] = f]
          PROVE  FilesInPlace'
      BY <3>1, <3>3 DEF UploadedFor
    <3>4. FilesInPlace'
      BY <2>11, <3>1, <3>3 DEF WriteFile, UploadedFor
    <3> QED BY <3>1, <3>2, <3>4
  <2>12. ASSUME NEW l \in Loader, NEW p \in Path, LoadRead(l, p) PROVE ChunkInv'
    BY <2>12 DEF LoadRead, UploadedFor
  <2>13. ASSUME NEW l \in Loader, LoadDecrypt(l) PROVE ChunkInv'
    BY <2>13 DEF LoadDecrypt, UploadedFor
  <2>14. CASE UNCHANGED chunkVars
    BY <2>14 DEF chunkVars, UploadedFor
  <2> QED BY <2>1, <2>3, <2>4, <2>5, <2>6, <2>7, <2>8, <2>9, <2>10, <2>11, <2>12, <2>13, <2>14
          DEF ChunkNext
<1>3. ChunkInv => LoadedIsUploaded
  BY DEF ChunkInv, AnswersInPlace, UploadedFor, LoadedIsUploaded
<1> QED BY <1>1, <1>2, <1>3, PTL DEF ChunkSpec

\* What is left of the upload times of a window is a sequence of times.
LEMMA WindowType ==
  ASSUME NEW q \in Seq(Nat)
  PROVE  InWindow(q) \in Seq(Nat)
<1> DEFINE stale == {i \in 1..Len(q) : \A j \in 1..i : clock - q[j] > Window}
<1>1. stale \subseteq 1..Len(q) /\ IsFiniteSet(1..Len(q))
  BY FS_Interval
<1>2. Cardinality(stale) \in Nat
  BY <1>1, FS_Subset, FS_CardinalityType
<1>3. \A n \in Nat : SubSeq(q, n + 1, Len(q)) \in Seq(Nat)
  OBVIOUS
<1> QED BY <1>2, <1>3 DEF InWindow

\* Every variable of the chunk store keeps its type, through every interleaving of
\* saves, prunings and downloads.
THEOREM ChunksTyped == ChunkSpec => []ChunkTypeOK
<1> USE ChunkAssumption
<1>1. ChunkInit => ChunkTypeOK
  BY DEF ChunkInit, ChunkTypeOK
<1>2. ChunkTypeOK /\ [ChunkNext]_chunkVars => ChunkTypeOK'
  <2> SUFFICES ASSUME ChunkTypeOK, [ChunkNext]_chunkVars PROVE ChunkTypeOK'
    OBVIOUS
  <2> USE DEF ChunkTypeOK
  <2>0. \A v \in Saver : \A a : At(v, a) => save[v] \in Save /\ save[v].at = a
    BY DEF At
  <2>1. ASSUME Tick PROVE ChunkTypeOK'
    BY <2>1 DEF Tick
  <2>2. ASSUME NEW u \in Uploader, SetSecret(u) PROVE ChunkTypeOK'
    <3>1. secrets + 1 \in Nat /\ 0 \in Nat
      OBVIOUS
    <3>2. \A n \in Nat : [secret EXCEPT ![u] = n] \in [Uploader -> Nat]
      OBVIOUS
    <3>3. secret' \in [Uploader -> Nat] /\ secrets' \in Nat
      BY <2>2, <3>1, <3>2 DEF SetSecret
    <3> QED BY <2>2, <3>3 DEF SetSecret
  <2>3. ASSUME NEW u \in Uploader, RecordUpload(u) PROVE uploads' \in [Uploader -> Seq(Nat)]
    <3>1. Append(InWindow(uploads[u]), clock) \in Seq(Nat)
      BY WindowType
    <3> QED BY <2>3, <3>1 DEF RecordUpload
  <2>4. ASSUME NEW u \in Uploader, P2PUploadRefused(u) PROVE ChunkTypeOK'
    BY <2>3, <2>4 DEF P2PUploadRefused
  <2>5. ASSUME NEW v \in Saver, NEW o \in Owner, NEW id \in ChunkId, StartSave(v, o, id),
               uploads' \in [Uploader -> Seq(Nat)]
        PROVE  ChunkTypeOK'
    <3>1. <<o, id>> \in Path /\ Len(paths) + 1 \in Nat
      BY DEF Path
    <3> DEFINE s == [at |-> "list", path |-> <<o, id>>, data |-> Len(paths) + 1, files |-> {},
                     todo |-> {}, now |-> 0, total |-> 0, key |-> 0, inode |-> 0]
    <3>2. s \in Save
      BY <3>1 DEF Save
    <3>3. save' = [save EXCEPT ![v] = s] /\ paths' = Append(paths, <<o, id>>)
      BY <2>5 DEF StartSave, PathOf
    <3>4. save' \in [Saver -> Save \cup {NoFile}] /\ paths' \in Seq(Path)
      BY <3>1, <3>2, <3>3
    <3> QED BY <2>5, <3>4 DEF StartSave
  <2>6. ASSUME NEW v \in Saver, NEW id \in ChunkId,
               LocalUpload(v, id) \/ \E u \in Uploader : P2PUpload(v, u, id)
        PROVE  ChunkTypeOK'
    BY <2>3, <2>5, <2>6 DEF LocalUpload, P2PUpload, Owner
  <2>7. ASSUME NEW v \in Saver, PruneList(v) PROVE ChunkTypeOK'
    <3>1. Files \subseteq Path
      BY DEF Files
    <3>2. save[v] \in Save
      BY <2>0, <2>7 DEF PruneList
    <3>3. \A f \in SUBSET Path :
             [save[v] EXCEPT !.at = "expire", !.files = f, !.todo = f, !.now = clock] \in Save
      BY <3>2 DEF Save
    <3>4. save' = [save EXCEPT ![v] = [save[v] EXCEPT !.at = "expire", !.files = Files,
                                          !.todo = Files, !.now = clock]]
      BY <2>7 DEF PruneList
    <3>5. save' \in [Saver -> Save \cup {NoFile}]
      BY <3>1, <3>3, <3>4
    <3> QED BY <2>7, <3>5 DEF PruneList
  <2>8. ASSUME NEW v \in Saver, PruneExpired(v) PROVE ChunkTypeOK'
    <3>1. save[v] \in Save
      BY <2>0, <2>8 DEF PruneExpired
    <3>2. PICK p \in save[v].todo :
            /\ disk' = IF Expired(p, save[v].now) THEN [disk EXCEPT ![p] = NoFile] ELSE disk
            /\ save' = [save EXCEPT ![v].todo = @ \ {p},
                  ![v].total = IF Written(p) /\ ~Expired(p, save[v].now) THEN @ + 1 ELSE @]
      BY <2>8 DEF PruneExpired
    <3>3. \A b \in Nat : [save[v] EXCEPT !.todo = @ \ {p}, !.total = b] \in Save
      BY <3>1 DEF Save
    <3>4. save[v].total \in Nat /\ save[v].total + 1 \in Nat
      BY <3>1 DEF Save
    <3>5. save' \in [Saver -> Save \cup {NoFile}]
      BY <3>2, <3>3, <3>4
    <3>6. disk' \in [Path -> File \cup {NoFile}]
      BY <3>2
    <3> QED BY <2>8, <3>5, <3>6 DEF PruneExpired
  <2>9. ASSUME NEW v \in Saver, PruneSort(v) PROVE ChunkTypeOK'
    <3>1. save[v] \in Save
      BY <2>0, <2>9 DEF PruneSort
    <3>2. ASSUME save[v].files \subseteq Files
          PROVE  {<<p, disk[p].time>> : p \in save[v].files} \subseteq Path \X Nat
      BY <3>2 DEF Files, File
    <3>3. \A a \in {"evict", "lookup"}, f \in SUBSET (Path \X Nat), n \in Nat :
             [save[v] EXCEPT !.at = a, !.files = f, !.total = n, !.now = 0] \in Save
      BY <3>1 DEF Save
    <3>4. save[v].total \in Nat
      BY <3>1 DEF Save
    <3> DEFINE sorted == OverCap(save[v].total) /\ save[v].files \subseteq Files
               a == IF sorted THEN "evict" ELSE "lookup"
               f == IF sorted THEN {<<p, disk[p].time>> : p \in save[v].files} ELSE {}
               n == IF sorted THEN save[v].total ELSE 0
    <3>5. a \in {"evict", "lookup"} /\ f \in SUBSET (Path \X Nat) /\ n \in Nat
      BY <3>2, <3>4
    <3>6. save' = [save EXCEPT ![v] = [save[v] EXCEPT !.at = a, !.files = f, !.total = n, !.now = 0]]
      BY <2>9 DEF PruneSort
    <3> HIDE DEF a, f, n
    <3>7. save' \in [Saver -> Save \cup {NoFile}]
      BY <3>3, <3>5, <3>6
    <3> QED BY <2>9, <3>7 DEF PruneSort
  <2>10. ASSUME NEW v \in Saver, Evict(v) PROVE ChunkTypeOK'
    <3>1. save[v] \in Save /\ save[v].total \in Nat /\ save[v].total - 1 \in Nat
      BY <2>0, <2>10 DEF Evict, OverCap, Save
    <3>2. PICK e \in save[v].files :
            /\ disk' = [disk EXCEPT ![e[1]] = NoFile]
            /\ save' = [save EXCEPT ![v].files = @ \ {e},
                  ![v].total = IF Written(e[1]) THEN @ - 1 ELSE @]
      BY <2>10 DEF Evict
    <3>3. \A b \in Nat : [save[v] EXCEPT !.files = @ \ {e}, !.total = b] \in Save
      BY <3>1 DEF Save
    <3>4. save' \in [Saver -> Save \cup {NoFile}]
      BY <3>1, <3>2, <3>3
    <3>5. disk' \in [Path -> File \cup {NoFile}]
      BY <3>2
    <3> QED BY <2>10, <3>4, <3>5 DEF Evict
  <2>11. ASSUME NEW v \in Saver, EvictDone(v) PROVE ChunkTypeOK'
    <3>1. save[v] \in Save
      BY <2>0, <2>11 DEF EvictDone
    <3>2. [save[v] EXCEPT !.at = "lookup", !.files = {}, !.total = 0] \in Save
      BY <3>1 DEF Save
    <3>3. save' = [save EXCEPT ![v] = [save[v] EXCEPT !.at = "lookup", !.files = {}, !.total = 0]]
      BY <2>11 DEF EvictDone
    <3>4. save' \in [Saver -> Save \cup {NoFile}]
      BY <3>2, <3>3
    <3> QED BY <2>11, <3>4 DEF EvictDone
  <2>12. \A p \in Path : SecretOf(p) \in Nat
    BY DEF SecretOf, Path, Owner
  <2>13. ASSUME NEW v \in Saver, LookupKey(v) PROVE ChunkTypeOK'
    <3>1. save[v] \in Save /\ SecretOf(save[v].path) \in Nat
      BY <2>0, <2>12, <2>13 DEF LookupKey, Save
    <3>2. [save[v] EXCEPT !.at = "open", !.key = SecretOf(save[v].path)] \in Save
      BY <3>1 DEF Save
    <3> QED BY <2>13, <3>2 DEF LookupKey
  <2>14. ASSUME NEW v \in Saver, OpenFile(v) PROVE ChunkTypeOK'
    <3> DEFINE s == save[v]
               i == IF disk[s.path] = NoFile THEN s.data ELSE disk[s.path].inode
    <3>1. s \in Save /\ s.path \in Path /\ s.data \in Nat /\ s.key \in Nat
      BY <2>0, <2>14 DEF OpenFile, Save
    <3>2. i \in Nat
      BY <3>1 DEF File
    <3>3. /\ disk' = [disk EXCEPT ![s.path] = [inode |-> i, data |-> s.data, key |-> s.key,
                                              time |-> clock, done |-> FALSE]]
          /\ save' = [save EXCEPT ![v] = [s EXCEPT !.at = "write", !.inode = i]]
      BY <2>14 DEF OpenFile
    <3> HIDE DEF i
    <3>4. [s EXCEPT !.at = "write", !.inode = i] \in Save
      BY <3>1, <3>2 DEF Save
    <3>5. [inode |-> i, data |-> s.data, key |-> s.key, time |-> clock, done |-> FALSE] \in File
      BY <3>1, <3>2 DEF File
    <3>6. save' \in [Saver -> Save \cup {NoFile}] /\ disk' \in [Path -> File \cup {NoFile}]
      BY <3>3, <3>4, <3>5
    <3> QED BY <2>14, <3>6 DEF OpenFile
  <2>15. ASSUME NEW v \in Saver, WriteFile(v) PROVE ChunkTypeOK'
    <3> DEFINE s == save[v]
    <3>1. s \in Save /\ s.data \in Nat /\ s.key \in Nat /\ s.inode \in Nat
      BY <2>0, <2>15 DEF WriteFile, Save
    <3>2. \A key \in {s.key, Torn} :
             [inode |-> s.inode, data |-> s.data, key |-> key, time |-> clock, done |-> TRUE] \in File
      BY <3>1 DEF File
    <3>3. \/ disk' = disk
          \/ \E key \in {s.key, Torn} :
                disk' = [disk EXCEPT ![s.path] = [inode |-> s.inode, data |-> s.data,
                                                  key |-> key, time |-> clock, done |-> TRUE]]
      BY <2>15 DEF WriteFile
    <3>4. disk' = disk \/ \E f \in File : disk' = [disk EXCEPT ![s.path] = f]
      BY <3>2, <3>3
    <3>5. disk' \in [Path -> File \cup {NoFile}]
      BY <3>4
    <3>6. save' \in [Saver -> Save \cup {NoFile}]
      BY <2>15 DEF WriteFile
    <3> QED BY <2>15, <3>5, <3>6 DEF WriteFile
  <2>16. ASSUME NEW l \in Loader, NEW p \in Path, LoadRead(l, p) PROVE ChunkTypeOK'
    <3>1. disk[p] \in File
      BY <2>16 DEF LoadRead
    <3>2. [path |-> p, data |-> disk[p].data, key |-> disk[p].key] \in Load
      BY <3>1 DEF File, Load
    <3> QED BY <2>16, <3>2 DEF LoadRead
  <2>17. ASSUME NEW l \in Loader, LoadDecrypt(l) PROVE ChunkTypeOK'
    BY <2>17 DEF LoadDecrypt
  <2>18. CASE UNCHANGED chunkVars
    BY <2>18 DEF chunkVars
  <2> QED BY <2>1, <2>2, <2>4, <2>6, <2>7, <2>8, <2>9, <2>10, <2>11, <2>13, <2>14, <2>15, <2>16,
             <2>17, <2>18 DEF ChunkNext
<1> QED BY <1>1, <1>2, PTL DEF ChunkSpec

(***************************************************************************)
(* The composition.                                                        *)
(***************************************************************************)
\* In every behaviour of the composed specification, the component in focus
\* behaves as its own specification says and stays in focus: what is proved of a
\* component holds of the composition.
THEOREM ServersRunComponents ==
  MCSpec =>
    /\ focus = "queues" => Spec /\ [](focus = "queues")
    /\ focus = "directory" => DirectorySpec /\ [](focus = "directory")
    /\ focus = "presence" => PresenceSpec /\ [](focus = "presence")
    /\ focus = "relay chunks" => RelayChunksSpec /\ [](focus = "relay chunks")
    /\ focus = "prekeys" => PrekeySpec /\ [](focus = "prekeys")
    /\ focus = "chunks" => ChunkSpec /\ [](focus = "chunks")
<1>1. MCSpec /\ focus = "queues" => Spec /\ [](focus = "queues")
  <2>1. MCInit /\ focus = "queues" => Init
    BY DEF MCInit
  <2>2. focus = "queues" /\ [MCNext]_mcVars =>
         [Next]_vars /\ (focus = "queues")'
    BY DEF MCNext, mcVars
  <2> QED BY <2>1, <2>2, PTL DEF MCSpec, Spec
<1>2. MCSpec /\ focus = "directory" => DirectorySpec /\ [](focus = "directory")
  <2>1. MCInit /\ focus = "directory" => DirectoryInit
    BY DEF MCInit
  <2>2. focus = "directory" /\ [MCNext]_mcVars =>
         [DirectoryNext]_directoryVars /\ (focus = "directory")'
    BY DEF MCNext, mcVars
  <2> QED BY <2>1, <2>2, PTL DEF MCSpec, DirectorySpec
<1>3. MCSpec /\ focus = "presence" => PresenceSpec /\ [](focus = "presence")
  <2>1. MCInit /\ focus = "presence" => PresenceInit
    BY DEF MCInit
  <2>2. focus = "presence" /\ [MCNext]_mcVars =>
         [PresenceNext]_presenceVars /\ (focus = "presence")'
    BY DEF MCNext, mcVars
  <2> QED BY <2>1, <2>2, PTL DEF MCSpec, PresenceSpec
<1>4. MCSpec /\ focus = "relay chunks" => RelayChunksSpec /\ [](focus = "relay chunks")
  <2>1. MCInit /\ focus = "relay chunks" => RelayChunksInit
    BY DEF MCInit
  <2>2. focus = "relay chunks" /\ [MCNext]_mcVars =>
         [RelayChunksNext]_relayChunkVars /\ (focus = "relay chunks")'
    BY DEF MCNext, mcVars
  <2> QED BY <2>1, <2>2, PTL DEF MCSpec, RelayChunksSpec
<1>5. MCSpec /\ focus = "prekeys" => PrekeySpec /\ [](focus = "prekeys")
  <2>1. MCInit /\ focus = "prekeys" => PrekeyInit
    BY DEF MCInit
  <2>2. focus = "prekeys" /\ [MCNext]_mcVars =>
         [PrekeyNext]_prekeyVars /\ (focus = "prekeys")'
    BY DEF MCNext, mcVars
  <2> QED BY <2>1, <2>2, PTL DEF MCSpec, PrekeySpec
<1>6. MCSpec /\ focus = "chunks" => ChunkSpec /\ [](focus = "chunks")
  <2>1. MCInit /\ focus = "chunks" => ChunkInit
    BY DEF MCInit
  <2>2. focus = "chunks" /\ [MCNext]_mcVars =>
         [ChunkNext]_chunkVars /\ (focus = "chunks")'
    BY DEF MCNext, mcVars
  <2> QED BY <2>1, <2>2, PTL DEF MCSpec, ChunkSpec
<1> QED BY <1>1, <1>2, <1>3, <1>4, <1>5, <1>6, PTL

\* Every variable of the component in focus keeps its type.
THEOREM ServersTyped == MCSpec => []TypesOK
<1>0. MCInit =>
        \/ focus = "queues"
        \/ focus = "directory"
        \/ focus = "presence"
        \/ focus = "relay chunks"
        \/ focus = "prekeys"
        \/ focus = "chunks"
  BY DEF MCInit
<1>1. MCSpec /\ focus = "queues" => []TypesOK
  <2>1. focus = "queues" /\ TypeOK => TypesOK
    BY DEF TypesOK
  <2> QED BY <2>1, ServersRunComponents, RelayTypeOK, PTL
<1>2. MCSpec /\ focus = "directory" => []TypesOK
  <2>1. focus = "directory" /\ DirectoryTypeOK => TypesOK
    BY DEF TypesOK
  <2> QED BY <2>1, ServersRunComponents, DirectoryListsRecent, PTL
<1>3. MCSpec /\ focus = "presence" => []TypesOK
  <2>1. focus = "presence" /\ PresenceTypeOK => TypesOK
    BY DEF TypesOK
  <2> QED BY <2>1, ServersRunComponents, PresenceStreamsCurrent, PTL
<1>4. MCSpec /\ focus = "relay chunks" => []TypesOK
  <2>1. focus = "relay chunks" /\ RelayChunksTypeOK => TypesOK
    BY DEF TypesOK
  <2> QED BY <2>1, ServersRunComponents, RelayChunksDeliveredOnce, PTL
<1>5. MCSpec /\ focus = "prekeys" => []TypesOK
  <2>1. focus = "prekeys" /\ PrekeyTypeOK => TypesOK
    BY DEF TypesOK
  <2> QED BY <2>1, ServersRunComponents, PrekeyTyped, PTL
<1>6. MCSpec /\ focus = "chunks" => []TypesOK
  <2>1. focus = "chunks" /\ ChunkTypeOK => TypesOK
    BY DEF TypesOK
  <2> QED BY <2>1, ServersRunComponents, ChunksTyped, PTL
<1> QED BY <1>0, <1>1, <1>2, <1>3, <1>4, <1>5, <1>6, PTL DEF MCSpec
=============================================================================
