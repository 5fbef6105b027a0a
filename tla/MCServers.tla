------------------------------ MODULE MCServers ------------------------------
(***************************************************************************)
(* What the servers keep for others: the queues, chunks, node list and     *)
(* presence of a relay, the pre-key bundles and chunks of a node.  They    *)
(* share no state, so each behaviour exercises one of them.  A receiver    *)
(* uses up to two sockets, a sender one.                                   *)
(***************************************************************************)
EXTENDS RelayQueue, NodeDirectory, Presence, RelayChunks, PrekeyBundle, ChunkStore, TLC

CONSTANTS recv, send, r1, r2, s1

MCClient == {recv, send}
MCSid == {r1, r2, s1}
MCClientOf == (r1 :> recv) @@ (r2 :> recv) @@ (s1 :> send)

\* Savers of chunks are interchangeable.
Symmetry == Permutations(Saver)

VARIABLE focus   \* the component this behaviour exercises

MCInit ==
    /\ focus \in {"queues", "directory", "presence", "relay chunks", "prekeys",
                   "chunks"}
    /\ Init /\ DirectoryInit /\ PresenceInit
    /\ RelayChunksInit /\ PrekeyInit /\ ChunkInit

MCNext ==
    \/ /\ focus = "queues" /\ Next
       /\ UNCHANGED <<focus, directoryVars, presenceVars, relayChunkVars,
                    prekeyVars, chunkVars>>
    \/ /\ focus = "directory" /\ DirectoryNext
       /\ UNCHANGED <<focus, vars, presenceVars, relayChunkVars, prekeyVars,
                    chunkVars>>
    \/ /\ focus = "presence" /\ PresenceNext
       /\ UNCHANGED <<focus, vars, directoryVars, relayChunkVars, prekeyVars,
                    chunkVars>>
    \/ /\ focus = "relay chunks" /\ RelayChunksNext
       /\ UNCHANGED <<focus, vars, directoryVars, presenceVars, prekeyVars,
                    chunkVars>>
    \/ /\ focus = "prekeys" /\ PrekeyNext
       /\ UNCHANGED <<focus, vars, directoryVars, presenceVars, relayChunkVars,
                    chunkVars>>
    \/ /\ focus = "chunks" /\ ChunkNext
       /\ UNCHANGED <<focus, vars, directoryVars, presenceVars, relayChunkVars,
                    prekeyVars>>

mcVars == <<focus, vars, directoryVars, presenceVars, relayChunkVars, prekeyVars, chunkVars>>

MCSpec == MCInit /\ [][MCNext]_mcVars

\* Every variable keeps its type; those outside the focus do not change.
TypesOK ==
    /\ focus = "queues" => TypeOK
    /\ focus = "directory" => DirectoryTypeOK
    /\ focus = "presence" => PresenceTypeOK
    /\ focus = "relay chunks" => RelayChunksTypeOK
    /\ focus = "prekeys" => PrekeyTypeOK
    /\ focus = "chunks" => ChunkTypeOK
==============================================================================
