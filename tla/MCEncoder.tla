----------------------------- MODULE MCEncoder -----------------------------
(* The encoder's pipeline for TLC: the ring and the datagrams are small, so   *)
(* that the ring wraps, fills and empties within a run.                       *)
EXTENDS Encoder

=============================================================================
