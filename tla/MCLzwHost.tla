----------------------------- MODULE MCLzwHost -----------------------------
(* The lzw stage for TLC: rings of a few slots, streams shorter than the ring, *)
(* as long as it, and longer.                                                  *)
EXTENDS LzwHost

=============================================================================
