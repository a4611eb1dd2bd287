----------------------------- MODULE MCChunker -----------------------------
(* The chunker for TLC: short packets of two byte values, with room for four   *)
(* chunks, every content and every length from none to more than fits.         *)
EXTENDS Chunker

AllLengths == 0 .. BLOCKSIZE + MIN_CHUNK_SIZE + 1

=============================================================================
