--------------------------- MODULE RelayQueueRedis ---------------------------
(***************************************************************************)
(* The relay of transports/relay/server.py with REDIS_URL set: the maps    *)
(* live in Redis and every Redis command is a point where another greenlet *)
(* (or another worker) may run.  A handler is therefore a task of several  *)
(* steps, cut where the code calls Redis between two dependent accesses.   *)
(* The owner and creator keys outlive the socket; online_sids (conn) does  *)
(* not.  Redis itself does not fail here and no key reaches its TTL.       *)
(***************************************************************************)
EXTENDS RelayQueue

VARIABLE task  \* the handler each socket's event is in, None when idle

redisVars == <<vars, task>>

InitRedis == Init /\ task = [sid \in Sid |-> None]

Idle(sid) == task[sid] = None
SetTask(sid, t) == task' = [task EXCEPT ![sid] = t]

ConnectRedis(sid) == Connect(sid) /\ UNCHANGED task

\* create_queue and rejoin_queue, up to the Redis SET of queue_creator
ClaimKeys(sid) ==
  LET q == ClientOf[sid]
  IN  /\ Idle(sid) /\ sid \in conn
      /\ created' = created \cup {q}
      /\ owners' = [owners EXCEPT ![q] = @ \cup {sid}]
      /\ creators' = [creators EXCEPT ![q] = sid]
      /\ claimed' = [claimed EXCEPT ![q] = sid]
      /\ SetTask(sid, [at |-> "join", q |-> q])
      /\ UNCHANGED <<used, conn, room, offline, accepted, emitted>>

\* join_room, then LRANGE of flush_offline_queue
JoinAndRead(sid) ==
  /\ ~Idle(sid) /\ task[sid].at = "join"
  /\ LET q == task[sid].q
     IN  /\ room' = [room EXCEPT ![q] = IF sid \in conn THEN @ \cup {sid} ELSE @]
         /\ SetTask(sid, [at |-> "delete", q |-> q, payloads |-> offline[q]])
  /\ UNCHANGED <<used, conn, created, owners, creators, offline, accepted,
                 emitted, claimed>>

\* DELETE of flush_offline_queue, then the emits
DeleteAndEmit(sid) ==
  /\ ~Idle(sid) /\ task[sid].at = "delete"
  /\ LET q == task[sid].q
     IN  /\ offline' = Emptied(q)
         /\ Emit(q, task[sid].payloads)
  /\ SetTask(sid, None)
  /\ UNCHANGED <<used, conn, created, owners, creators, room, accepted,
                 claimed>>

RegisterPeerRedis(sid, q) == Idle(sid) /\ RegisterPeer(sid, q) /\ UNCHANGED task

\* push_queue, up to the SISMEMBER of is_recipient_online
PushCheck(sid, q) ==
  /\ Idle(sid)
  /\ MayPush(sid, q)
  /\ accepted' = [accepted EXCEPT ![q] = @ + 1]
  /\ SetTask(sid, [at |-> IF IsRecipientOnline(q) THEN "emit" ELSE "store",
                   q |-> q, m |-> accepted[q] + 1])
  /\ UNCHANGED <<used, conn, created, owners, creators, room, offline,
                 emitted, claimed>>

\* push_queue, recipient seen online
PushEmit(sid) ==
  /\ ~Idle(sid) /\ task[sid].at = "emit"
  /\ Emit(task[sid].q, <<task[sid].m>>)
  /\ SetTask(sid, None)
  /\ UNCHANGED <<used, conn, created, owners, creators, room, offline,
                 accepted, claimed>>

\* push_queue, recipient seen offline: RPUSH and LTRIM of enqueue_offline
PushStore(sid) ==
  /\ ~Idle(sid) /\ task[sid].at = "store"
  /\ offline' = [offline EXCEPT ![task[sid].q] = Trim(Append(@, task[sid].m))]
  /\ SetTask(sid, None)
  /\ UNCHANGED <<used, conn, created, owners, creators, room, accepted,
                 emitted, claimed>>

\* handle_disconnect: online_sids and the rooms forget the socket, the keys do not.
DisconnectRedis(sid) ==
  /\ sid \in conn
  /\ conn' = conn \ {sid}
  /\ room' = [q \in Client |-> room[q] \ {sid}]
  /\ UNCHANGED <<used, created, owners, creators, offline, accepted, emitted,
                 claimed, task>>

NextRedis ==
  \E sid \in Sid :
    \/ ConnectRedis(sid)
    \/ ClaimKeys(sid) \/ JoinAndRead(sid) \/ DeleteAndEmit(sid)
    \/ \E q \in Client : RegisterPeerRedis(sid, q) \/ PushCheck(sid, q)
    \/ PushEmit(sid) \/ PushStore(sid)
    \/ DisconnectRedis(sid)

SpecRedis == InitRedis /\ [][NextRedis]_redisVars

-----------------------------------------------------------------------------
(* Properties *)

AllIdle == \A sid \in Sid : Idle(sid)

\* flush_offline_queue "Delivers all buffered offline messages to the now-online
\* recipient": once every handler is done, each accepted message has been emitted,
\* is buffered, or was pushed out of a full buffer.
NoSilentLossRedis == AllIdle => NoSilentLoss
=============================================================================
