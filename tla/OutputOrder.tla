---------------------------- MODULE OutputOrder ----------------------------
(***************************************************************************)
(* The order in which lzw_host() copies the outputs of a stream to the file.  *)
(***************************************************************************)
EXTENDS Integers

CONSTANTS
  NUM_PACKETS   \* slots of the packet ring, half of them for each kernel

(* The packet whose output is the j-th in the file, j from 0, for a stream of n *)
(* packets.  From packet NUM_PACKETS - 1 on one output is read per packet, the  *)
(* first of them kernel 2's, so that pairs are the wrong way round; draining     *)
(* begins with kernel 1 again, which puts the rest in order if n is odd.        *)
PacketAt(j, n) ==
  IF n < NUM_PACKETS \/ (n % 2 = 1 /\ j > n - NUM_PACKETS)
    THEN j
    ELSE IF j % 2 = 0 THEN j + 1 ELSE j - 1

=============================================================================
