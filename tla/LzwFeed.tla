------------------------------ MODULE LzwFeed ------------------------------
(***************************************************************************)
(* What lies between the lzw stage and the rest of the encoder: packets are  *)
(* posted to the stage, the stage gives their slots back, and at some point   *)
(* main() stores which packet is the last.  Encoder implements it, and        *)
(* LzwHost takes it for its environment: so what is checked of the one may    *)
(* be relied on in the other.                                               *)
(***************************************************************************)
EXTENDS Integers

CONSTANTS
  NUM_PACKETS,  \* slots of the ring
  INT_MAX,      \* the value of total_packets until the end is known
  MaxLast       \* bound: the number a stream's last packet may have

VARIABLES
  posted,         \* packets the dedup stage has posted
  released,       \* slots given back to main(): posts of sem_getpacket
  total_packets   \* the global that tells which packet is the last

vars == <<posted, released, total_packets>>

Init == posted = 0 /\ released = 0 /\ total_packets = INT_MAX

(* A packet has a slot, and is none behind the last one if that is known.  *)
Post ==
  /\ posted < NUM_PACKETS + released /\ posted <= MaxLast
  /\ total_packets # INT_MAX => posted <= total_packets
  /\ posted' = posted + 1
  /\ UNCHANGED <<released, total_packets>>

(* main() stores the total when it has received the last packet: there was a   *)
(* slot for it too, and no packet behind it has been posted.                  *)
SetTotal ==
  /\ total_packets = INT_MAX
  /\ total_packets' \in 0 .. MaxLast
  /\ posted - 1 <= total_packets' /\ total_packets' < NUM_PACKETS + released
  /\ UNCHANGED <<posted, released>>

(* No slot is given back before its packet has been posted. *)
Release ==
  /\ released < posted
  /\ released' = released + 1
  /\ UNCHANGED <<posted, total_packets>>

Next == Post \/ SetTotal \/ Release

Spec == Init /\ [][Next]_vars

=============================================================================
