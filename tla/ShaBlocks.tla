----------------------------- MODULE ShaBlocks -----------------------------
(***************************************************************************)
(* sha(): the chunks of one packet are hashed one after the other.  What is  *)
(* modelled is which 64 bytes at a time sha256_process_arm() compresses: the *)
(* full blocks of the chunk, then one or two blocks from padded_data[], with *)
(* the bytes left over, a one bit, zeros and the chunk's length in bits.     *)
(* The rounds of the compression are abstracted: what they make of a block   *)
(* and of the state before it is told by the blocks compressed so far, and by *)
(* the saved state that was added to the rounds' result for each.            *)
(*                                                                         *)
(* A byte of the packet is 256 plus its offset, a byte that the code makes    *)
(* up is its value.                                                         *)
(***************************************************************************)
EXTENDS Integers, Sequences

CONSTANTS
  BITS_RANGE,   \* 2^32, the range of length and of length << 3
  Packets       \* the packets: for each one its chunks, as cdc_eff() leaves them

ASSUME BitsAssumption    == BITS_RANGE \in Nat \ {0} /\ BITS_RANGE % 512 = 0
ASSUME PacketsAssumption ==
  Packets \subseteq Seq([lower_bound : Nat, size : 0 .. BITS_RANGE - 1])

VARIABLES
  packet_chunks,  \* curr_chunk[], the packet's chunks
  step,           \* where sha() is
  sha_num,        \* chunk_num, the chunk being hashed
  data,           \* the offset sha256_process_arm() has come to
  bytes_left,     \* length, the bytes it has left
  padded_data,    \* its last one or two blocks
  overflow,       \* padding_overflow: there are two of them
  state,          \* STATE0 and STATE1: each block compressed, and what was added
  saved,          \* ABEF_SAVE and CDGH_SAVE: how many blocks they are the state of
  sha             \* the digests stored so far, by chunk

packet   == <<packet_chunks, sha_num>>
sha_vars == <<packet, step, data, bytes_left, padded_data, overflow, state, saved,
              sha>>

Zeros == [k \in 0 .. 127 |-> 0]

ShaInit ==
  /\ packet_chunks \in Packets
  /\ step = "next"
  /\ sha_num = 1
  /\ data = 0 /\ bytes_left = 0
  /\ padded_data = Zeros /\ overflow = FALSE
  /\ state = << >> /\ saved = 0 /\ sha = << >>

ShaChunk == packet_chunks[sha_num]

(* The initial state; data and length are the chunk's. *)
NextChunk ==
  /\ step = "next" /\ sha_num <= Len(packet_chunks)
  /\ data' = ShaChunk.lower_bound /\ bytes_left' = ShaChunk.size
  /\ state' = << >>
  /\ step' = "pad"
  /\ UNCHANGED <<packet, padded_data, overflow, saved, sha>>

(* The packet's bytes as they are in the slot. *)
Data(at) == 256 + at

-----------------------------------------------------------------------------
(* The padding *)

input_bits(len) == (8 * len) % BITS_RANGE

(* 448 - ((input_bits + 1) % 512), before and after the correction. *)
zero_bits(len) == 448 - ((input_bits(len) + 1) % 512)

Overflows(len) == zero_bits(len) < 0

PaddingBytesWrong(len) == (zero_bits(len) + (IF Overflows(len) THEN 512 ELSE 0)) \div 8

(* The bytes of the one bit and of the zeros behind it. *)
PaddingBytes(len) == (zero_bits(len) + (IF Overflows(len) THEN 512 ELSE 0) + 1) \div 8

(* (uint8_t) (input_bits >> (i << 3)): a length has four bytes. *)
LengthByte(bits, i) ==
  IF i < 4 THEN (bits \div <<1, 256, 65536, 16777216>>[i + 1]) % 256 ELSE 0

(* The rest of the chunk, 1 << 7, the zeros of the array, and the length with  *)
(* its highest byte first.                                                   *)
Padded(from, len) ==
  LET rest == len % 64
      end  == rest + PaddingBytes(len)
  IN  [k \in 0 .. 127 |->
         IF k \in end .. end + 7 THEN LengthByte(input_bits(len), 7 - (k - end))
         ELSE IF k = rest THEN 128
         ELSE IF k < rest THEN Data(from + len - rest + k)
         ELSE 0]

Pad ==
  /\ step = "pad"
  /\ overflow' = Overflows(bytes_left)
  /\ padded_data' = Padded(data, bytes_left)
  /\ step' = "blocks"
  /\ UNCHANGED <<packet, data, bytes_left, state, saved, sha>>

-----------------------------------------------------------------------------
(* The blocks *)

SaveWrong == UNCHANGED saved

(* ABEF_SAVE = STATE0, CDGH_SAVE = STATE1 *)
Save == saved' = Len(state)

(* sha_comp(): the rounds, and the saved state added to what they give. *)
Compress(block) == state' = Append(state, [block |-> block, added |-> saved'])

(* while (length >= 64) *)
MoreBlocks == bytes_left >= 64

FullBlock ==
  /\ step = "blocks" /\ MoreBlocks
  /\ Save /\ Compress([k \in 0 .. 63 |-> Data(data + k)])
  /\ data' = data + 64 /\ bytes_left' = bytes_left - 64
  /\ UNCHANGED <<packet, step, padded_data, overflow, sha>>

FinalBlock ==
  /\ step = "blocks" /\ ~MoreBlocks
  /\ Save /\ Compress([k \in 0 .. 63 |-> padded_data[k]])
  /\ step' = IF overflow THEN "overflow" ELSE "store"
  /\ UNCHANGED <<packet, data, bytes_left, padded_data, overflow, sha>>

(* The state is not saved again before the second padded block. *)
OverflowBlock ==
  /\ step = "overflow"
  /\ UNCHANGED saved
  /\ Compress([k \in 0 .. 63 |-> padded_data[64 + k]])
  /\ step' = "store"
  /\ UNCHANGED <<packet, data, bytes_left, padded_data, overflow, sha>>

(* curr_chunk[chunk_num].sha = shaString *)
Store ==
  /\ step = "store"
  /\ sha' = Append(sha, state)
  /\ sha_num' = sha_num + 1
  /\ step' = "next"
  /\ UNCHANGED <<packet_chunks, data, bytes_left, padded_data, overflow, state, saved>>

(* sem_post(&sems->sem_dedup) *)
Post ==
  /\ step = "next" /\ sha_num > Len(packet_chunks)
  /\ step' = "done"
  /\ UNCHANGED <<packet, data, bytes_left, padded_data, overflow, state, saved, sha>>

ShaNext == NextChunk \/ Pad \/ FullBlock \/ FinalBlock \/ OverflowBlock \/ Store \/ Post

ShaSpec == ShaInit /\ [][ShaNext]_sha_vars

-----------------------------------------------------------------------------
(* Safety *)

(* What SHA-256 compresses for a chunk: 64 bytes at a time the message, a one   *)
(* bit, as many zeros as fill the last block but for eight bytes, and in these  *)
(* the number of bits.                                                       *)
NumBlocks(len) == (len + 8) \div 64 + 1

MessageByte(chunk, k) ==
  LET end == 64 * NumBlocks(chunk.size) - 8 IN
    IF k < chunk.size THEN Data(chunk.lower_bound + k)
    ELSE IF k = chunk.size THEN 128
    ELSE IF k < end THEN 0
    ELSE LengthByte(8 * chunk.size, 7 - (k - end))

MessageBlock(chunk, b) == [k \in 0 .. 63 |-> MessageByte(chunk, 64 * (b - 1) + k)]

(* To what the rounds make of a block the state before it is added. *)
Digest(chunk) ==
  [b \in 1 .. NumBlocks(chunk.size) |-> [block |-> MessageBlock(chunk, b), added |-> b - 1]]

LengthFits(chunk) == 8 * chunk.size < BITS_RANGE

(* The length has no room in the block that the message ends in. *)
TwoPaddedBlocks(chunk) == chunk.size % 64 >= 56

(* What a chunk is given instead if two blocks are padded. *)
OldStateAdded(chunk) == [Digest(chunk) EXCEPT ![NumBlocks(chunk.size)].added = @ - 1]

(* Every chunk is given the SHA-256 digest of its own bytes, all of them and no *)
(* other's, as long as its number of bits fits in length << 3 and one padded     *)
(* block is enough.  If two are needed, the last block is compressed too, but    *)
(* the state that is added is that of one block before.  Either way the digest is *)
(* made from the chunk's whole message and from nothing else, so that           *)
(* chunk_matching() finds equal chunks to have equal digests.                   *)
HashesTheChunks ==
  /\ \A c \in 1 .. Len(sha) : LengthFits(packet_chunks[c]) =>
       sha[c] = IF TwoPaddedBlocks(packet_chunks[c])
                  THEN OldStateAdded(packet_chunks[c])
                  ELSE Digest(packet_chunks[c])
  /\ step = "done" => Len(sha) = Len(packet_chunks)

(* What README.md of the program says, and it does not do: "Hashes for dedup    *)
(* table calculated using SHA256".                                            *)
DigestsAreSHA256 ==
  \A c \in 1 .. Len(sha) : LengthFits(packet_chunks[c]) => sha[c] = Digest(packet_chunks[c])

(* Whatever the length, the padding has room for its first byte, and the eight  *)
(* bytes of the length end where the last block compressed ends, so that all    *)
(* writes to padded_data[128] are inside it; and no full block reaches past the  *)
(* chunk.                                                                    *)
PaddingFits(len) ==
  /\ PaddingBytes(len) >= 1
  /\ (len % 64) + PaddingBytes(len) + 8 = IF Overflows(len) THEN 128 ELSE 64

InChunk == step \in {"pad", "blocks", "overflow", "store"}

StaysInside ==
  InChunk =>
    /\ PaddingFits(ShaChunk.size)
    /\ bytes_left >= 0 /\ data + bytes_left = ShaChunk.lower_bound + ShaChunk.size

-----------------------------------------------------------------------------
(* The invariant that carries the proofs *)

Block == [0 .. 63 -> Nat]
Compression == [block : Block, added : Nat]

ShaTypeOK ==
  /\ packet_chunks \in Packets
  /\ step \in {"next", "pad", "blocks", "overflow", "store", "done"}
  /\ sha_num \in 1 .. Len(packet_chunks) + 1
  /\ data \in Nat /\ bytes_left \in Nat
  /\ padded_data \in [0 .. 127 -> Nat] /\ overflow \in BOOLEAN
  /\ state \in Seq(Compression) /\ saved \in Nat /\ sha \in Seq(Seq(Compression))

(* Where the function is in the chunk, and how many blocks it has compressed.  *)
ShaPosition ==
  /\ Len(sha) = sha_num - 1
  /\ InChunk => sha_num <= Len(packet_chunks)
  /\ step = "done" => sha_num > Len(packet_chunks)
  /\ step \in {"pad", "blocks"} =>
       /\ data = ShaChunk.lower_bound + 64 * Len(state)
       /\ bytes_left = ShaChunk.size - 64 * Len(state)
  /\ step = "pad" => Len(state) = 0
  /\ InChunk => data + bytes_left = ShaChunk.lower_bound + ShaChunk.size
  /\ step = "overflow" => overflow /\ Len(state) = (ShaChunk.size \div 64) + 1
  /\ step = "store" => Len(state) = NumBlocks(ShaChunk.size)

(* The padding is the chunk's, and the blocks compressed are its message's.    *)
Compressed ==
  /\ step \in {"blocks", "overflow", "store"} =>
       /\ padded_data = Padded(ShaChunk.lower_bound, ShaChunk.size)
       /\ overflow = Overflows(ShaChunk.size)
  /\ InChunk /\ LengthFits(ShaChunk) =>
       \A b \in 1 .. Len(state) : state[b].block = MessageBlock(ShaChunk, b)

(* To each block the state before it was added, to the second padded one that of *)
(* one block before.                                                         *)
Chained ==
  /\ InChunk => \A b \in 1 .. Len(state) :
       state[b].added = IF step = "store" /\ overflow /\ b = Len(state) THEN b - 2 ELSE b - 1
  /\ step = "overflow" => saved = Len(state) - 1

ShaIInv == ShaTypeOK /\ ShaPosition /\ Compressed /\ Chained /\ HashesTheChunks

=============================================================================
