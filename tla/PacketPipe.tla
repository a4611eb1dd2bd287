----------------------------- MODULE PacketPipe -----------------------------
(***************************************************************************)
(* What the encoder's thread pipeline promises, seen from outside: packets *)
(* that main() has received leave the pipeline towards the LZW kernels in  *)
(* the order they came, each one once, with the data they came with, and   *)
(* never more than Capacity of them are inside.                            *)
(***************************************************************************)
EXTENDS Integers, Sequences

CONSTANTS
  Capacity,   \* the number of packets that may be inside at once
  Packets     \* what a received buffer may hold

VARIABLES
  got,        \* the buffers received so far, in order
  delivered   \* the buffers handed to the kernels so far, in order

vars == <<got, delivered>>

Init ==
  /\ got = << >>
  /\ delivered = << >>

(* A packet enters while there is room. *)
Arrive ==
  /\ Len(got) - Len(delivered) < Capacity
  /\ \E p \in Packets : got' = Append(got, p)
  /\ UNCHANGED delivered

(* The oldest packet inside leaves. *)
Deliver ==
  /\ Len(delivered) < Len(got)
  /\ delivered' = Append(delivered, got[Len(delivered) + 1])
  /\ UNCHANGED got

Next == Arrive \/ Deliver

Spec == Init /\ [][Next]_vars

=============================================================================
