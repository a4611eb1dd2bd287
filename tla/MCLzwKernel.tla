---------------------------- MODULE MCLzwKernel ----------------------------
(* The LZW kernel for TLC: every short chunk over a few byte values, and a     *)
(* hash of 16 bits with tables so small that their buckets overflow.          *)
EXTENDS LzwKernel, Bitwise

XorOf(h, b) == h ^^ b

ChunksOver(B, shortest, longest) == UNION {[1 .. n -> B] : n \in shortest .. longest}

NonZeroChunks == ChunksOver({1, 2}, 1, 8) \cup ChunksOver({1, 2, 3}, 1, 5)
ZeroChunks    == ChunksOver({0, 1}, 1, 3)
AllChunks     == NonZeroChunks \cup ZeroChunks
StaleCodes    == {MISS, 0, FIRST_CODE}

=============================================================================
