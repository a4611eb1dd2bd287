---------------------------- MODULE MCShaBlocks ----------------------------
(* The hashed blocks for TLC: a chunk of every length up to three blocks, and   *)
(* packets of none and of two chunks, these with the lengths at which the      *)
(* padding changes.  A length in bits wraps round from 128 bytes on.          *)
EXTENDS ShaBlocks

Edges == {1, 55, 56, 63, 64, 119, 120}

ChunkOf(from, len) == [lower_bound |-> from, size |-> len]

MCPackets == {<< >>}
               \cup {<<ChunkOf(0, n)>> : n \in 0 .. 192}
               \cup {<<ChunkOf(0, m), ChunkOf(m, n)>> : m \in Edges, n \in Edges}

=============================================================================
