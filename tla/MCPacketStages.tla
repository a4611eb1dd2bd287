-------------------------- MODULE MCPacketStages --------------------------
(* The two stages that read a packet's bytes, for TLC: cdc_eff() at work on one *)
(* packet and sha() on another one, in the slot before.  They share no state,   *)
(* so that it is enough that one of the two packets is empty: a packet without   *)
(* bytes for the chunker, one without chunks for the hash.                     *)
EXTENDS MCChunker, MCShaBlocks

Hashing  == length = 0 /\ buff = [o \in Offsets |-> 0] /\ Init /\ ShaInit
Chunking == packet_chunks = << >> /\ Init /\ ShaInit

StagesSpec ==
  /\ Hashing \/ Chunking
  /\ [][\/ Next /\ UNCHANGED sha_vars
        \/ ShaNext /\ UNCHANGED vars]_<<vars, sha_vars>>

=============================================================================
