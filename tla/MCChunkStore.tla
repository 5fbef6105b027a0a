---------------------------- MODULE MCChunkStore -----------------------------
(* The chunk store with a small quota. *)
EXTENDS ChunkStore, TLC

\* Chunk identifiers and savers are interchangeable.
Symmetry == Permutations(ChunkId) \cup Permutations(Saver)
=============================================================================
