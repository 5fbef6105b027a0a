-------------------------- MODULE MCRelayQueueRedis --------------------------
(* A receiver that uses up to two sockets and a sender that uses one. *)
EXTENDS RelayQueueRedis, TLC

CONSTANTS recv, send, r1, r2, s1

MCClient == {recv, send}
MCSid == {r1, r2, s1}
MCClientOf == (r1 :> recv) @@ (r2 :> recv) @@ (s1 :> send)
=============================================================================
