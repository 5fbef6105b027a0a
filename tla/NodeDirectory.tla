---------------------------- MODULE NodeDirectory ----------------------------
(***************************************************************************)
(* The relay's directory of onion nodes: transports/relay/routers/nodes.py.   *)
(* A node signs its address and a timestamp of its own clock; the signed       *)
(* request may reach the relay late, in any order and any number of times.     *)
(* The relay compares the timestamp with its own clock and checks the          *)
(* signature, nothing else: deregistering needs no signature.                 *)
(***************************************************************************)
EXTENDS Integers

CONSTANTS
    Onions,         \* the nodes
    MaxSkew,        \* MAX_SKEW_SECONDS
    StaleAfter,     \* STALE_AFTER_MINUTES
    MaxRelayClock,  \* bound on the relay's clock
    ClockErrors,    \* how far a node's clock may be off
    MaxSigned       \* bound: requests signed

ASSUME DirectoryAssumption ==
    /\ MaxSkew \in Nat /\ StaleAfter \in Nat
    /\ MaxRelayClock \in Nat /\ MaxSigned \in Nat
    /\ ClockErrors \subseteq Int

VARIABLES
    lastSeen,       \* _nodes: registered node -> last_seen
    signed,         \* signed requests, kept: each may arrive again
    signedCount,    \* number of signatures, for the bound
    relayClock

directoryVars == <<lastSeen, signed, signedCount, relayClock>>

DirectoryTypeOK ==
    /\ DOMAIN lastSeen \subseteq Onions
    /\ \A o \in DOMAIN lastSeen : lastSeen[o] \in 0..relayClock
    /\ \A s \in signed : s.onion \in Onions /\ s.stamp \in Int
    /\ signedCount \in 0..MaxSigned /\ relayClock \in 0..MaxRelayClock

DirectoryInit ==
    /\ lastSeen = [o \in {} |-> 0] /\ signed = {} /\ signedCount = 0 /\ relayClock = 0

\* a node signs a registration or heartbeat (both sign the same text)
Sign(o, error) ==
    /\ signedCount < MaxSigned
    /\ signedCount' = signedCount + 1
    /\ signed' = signed \cup {[onion |-> o, stamp |-> relayClock + error]}
    /\ UNCHANGED <<lastSeen, relayClock>>

\* Mutant: a timestamp from the future passes
VerifyPastOnly(s) == relayClock - s.stamp <= MaxSkew

\* _verify_node_signature: abs(now - ts) <= MAX_SKEW_SECONDS, and the signature
\* of the key in the address, which every member of signed has
VerifyNodeSignature(s) == relayClock - s.stamp \in -MaxSkew..MaxSkew

Seen(o) == [n \in DOMAIN lastSeen \cup {o} |-> IF n = o THEN relayClock ELSE lastSeen[n]]

RegisterNode(s) ==
    /\ VerifyNodeSignature(s)
    /\ lastSeen' = Seen(s.onion)
    /\ UNCHANGED <<signed, signedCount, relayClock>>

\* heartbeat: 404 for a node that is not registered
Heartbeat(s) ==
    /\ VerifyNodeSignature(s)
    /\ s.onion \in DOMAIN lastSeen
    /\ lastSeen' = Seen(s.onion)
    /\ UNCHANGED <<signed, signedCount, relayClock>>

DeregisterNode(o) ==
    /\ o \in DOMAIN lastSeen
    /\ lastSeen' = [n \in DOMAIN lastSeen \ {o} |-> lastSeen[n]]
    /\ UNCHANGED <<signed, signedCount, relayClock>>

RelayTick ==
    /\ relayClock < MaxRelayClock
    /\ relayClock' = relayClock + 1
    /\ UNCHANGED <<lastSeen, signed, signedCount>>

DirectoryNext ==
    \/ \E o \in Onions : (\E e \in ClockErrors : Sign(o, e)) \/ DeregisterNode(o)
    \/ \E s \in signed : RegisterNode(s) \/ Heartbeat(s)
    \/ RelayTick

DirectorySpec == DirectoryInit /\ [][DirectoryNext]_directoryVars

(***************************************************************************)
(* Properties.                                                              *)
(***************************************************************************)
\* list_nodes: the nodes whose last_seen passes _is_online
ListNodes == {o \in DOMAIN lastSeen : relayClock - lastSeen[o] < StaleAfter}

\* Nobody keeps a stale node online: however requests are delayed and replayed,
\* and however wrong a node's clock is, a listed node signed a timestamp that
\* is no older than the skew and the staleness together and no further in the
\* future than the skew.
ListedRecentlySigned ==
    \A o \in ListNodes :
        \E s \in signed :
            /\ s.onion = o
            /\ relayClock - s.stamp < StaleAfter + MaxSkew
            /\ s.stamp - relayClock <= MaxSkew
=============================================================================
