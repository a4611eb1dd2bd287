------------------------------ MODULE Chunker ------------------------------
(***************************************************************************)
(* cdc_eff(): one packet is cut into content-defined chunks.  A hash of a    *)
(* WIN_SIZE window slides over the packet; where its low bits hit TARGET a   *)
(* chunk ends, MIN_CHUNK_SIZE bytes are skipped, and the hash is computed     *)
(* afresh.  Offsets are from the end of the packet's header.                 *)
(***************************************************************************)
EXTENDS Integers

CONSTANTS
  BLOCKSIZE,       \* bytes of a datagram that curr_chunk[] is made for
  MIN_CHUNK_SIZE,
  WIN_SIZE,
  PRIME,
  MODULUS,
  TARGET,
  BUFFER,          \* bytes that input[] holds after the header
  HASH_RANGE,      \* 2^64, the range of the hash
  UINT_RANGE,      \* 2^32, the range of the offsets
  Bytes,           \* the values of a byte
  Lengths          \* the lengths that a datagram may announce

MAX_NUM_CHUNKS == BLOCKSIZE \div MIN_CHUNK_SIZE

ASSUME SizesAssumption ==
  /\ MIN_CHUNK_SIZE \in Nat \ {0} /\ WIN_SIZE \in Nat \ {0}
  /\ BLOCKSIZE \in Nat /\ MIN_CHUNK_SIZE <= BLOCKSIZE /\ BLOCKSIZE % MIN_CHUNK_SIZE = 0
  /\ BUFFER \in Nat /\ BLOCKSIZE + MIN_CHUNK_SIZE + WIN_SIZE <= BUFFER
  /\ UINT_RANGE \in Nat /\ BUFFER + MIN_CHUNK_SIZE < UINT_RANGE
ASSUME HashAssumption ==
  /\ PRIME \in Nat \ {0} /\ MODULUS \in Nat \ {0} /\ TARGET \in Nat
  /\ HASH_RANGE \in Nat \ {0} /\ Bytes \subseteq Nat
ASSUME LengthsAssumption == Lengths \subseteq 0 .. BUFFER

Offsets   == 0 .. BUFFER - 1
ChunkNums == 0 .. MAX_NUM_CHUNKS - 1

VARIABLES
  buff,          \* the packet's bytes, and whatever an earlier packet left behind them
  length,        \* the packet's size
  pc,            \* where cdc_eff() is
  i,             \* its offset
  hash,          \* the rolling hash
  chunk_num,     \* the chunk being delimited
  curr_chunk,    \* the packet's chunks
  num_of_chunks  \* how many there are in the end

vars == <<buff, length, pc, i, hash, chunk_num, curr_chunk, num_of_chunks>>

(* PRIME ^ (n + 1); all but the last are in the code's table. *)
power_table[n \in 0 .. WIN_SIZE] ==
  IF n = 0 THEN PRIME ELSE power_table[n - 1] * PRIME

(* The hash of the window at pos, the last byte with the smallest power. *)
hash_func(pos) ==
  LET sum[n \in 0 .. WIN_SIZE] ==
        IF n = 0 THEN 0 ELSE sum[n - 1] + buff[pos + WIN_SIZE - n] * power_table[n - 1]
  IN  sum[WIN_SIZE] % HASH_RANGE

(* The power that a byte has when it leaves the window. *)
pow_const == power_table[WIN_SIZE]

Init ==
  /\ buff \in [Offsets -> Bytes]
  /\ length \in Lengths
  /\ pc = "start"
  /\ i = 0
  /\ hash = 0
  /\ chunk_num = 0
  /\ curr_chunk = [c \in ChunkNums |-> [lower_bound |-> 0, upper_bound |-> 0, size |-> 0]]
  /\ num_of_chunks = 0

(* The first hash and the first chunk's lower bound. *)
Start ==
  /\ pc = "start"
  /\ hash' = hash_func(MIN_CHUNK_SIZE)
  /\ i' = MIN_CHUNK_SIZE
  /\ curr_chunk' = [curr_chunk EXCEPT ![0].lower_bound = 0]
  /\ pc' = "loop"
  /\ UNCHANGED <<buff, length, chunk_num, num_of_chunks>>

(* The loop's condition, in unsigned arithmetic. *)
InLoop == i < (length - MIN_CHUNK_SIZE) % UINT_RANGE

Hit == hash % MODULUS = TARGET

(* The sizes a chunk has by its bounds, in unsigned arithmetic. *)
SizeOf(lower, upper) == (upper - lower + 1) % UINT_RANGE

(* What the iteration touches is there: the next chunk's entry, the bytes of   *)
(* the next window.                                                          *)
CutIsDefined   == chunk_num + 1 \in ChunkNums /\ i + MIN_CHUNK_SIZE + WIN_SIZE <= BUFFER
SlideIsDefined == i + WIN_SIZE \in Offsets

NextStartWrong == i + 1

(* Where the search for the next chunk's end begins. *)
NextStart == i + MIN_CHUNK_SIZE

NextLowerWrong == i

(* Where the next chunk begins. *)
NextLower == i + 1

(* End the chunk here and start the next one. *)
Cut ==
  /\ pc = "loop" /\ InLoop /\ Hit /\ CutIsDefined
  /\ curr_chunk' =
       [curr_chunk EXCEPT ![chunk_num].upper_bound = i,
                          ![chunk_num].size = SizeOf(curr_chunk[chunk_num].lower_bound, i),
                          ![chunk_num + 1].lower_bound = NextLower]
  /\ chunk_num' = chunk_num + 1
  /\ i' = NextStart
  /\ hash' = hash_func(i')
  /\ UNCHANGED <<buff, length, pc, num_of_chunks>>

RolledWrong ==
  (hash * PRIME - buff[i] * power_table[WIN_SIZE - 1] + buff[i + WIN_SIZE] * PRIME) % HASH_RANGE

(* The hash of the next window: one byte leaves it, one comes in. *)
Rolled ==
  (hash * PRIME - buff[i] * pow_const + buff[i + WIN_SIZE] * PRIME) % HASH_RANGE

Slide ==
  /\ pc = "loop" /\ InLoop /\ ~Hit /\ SlideIsDefined
  /\ i' = i + 1
  /\ hash' = Rolled
  /\ UNCHANGED <<buff, length, pc, chunk_num, curr_chunk, num_of_chunks>>

(* The iteration would write past curr_chunk[] or read past the buffer: what   *)
(* follows is undefined, and not followed here.                              *)
Undefined ==
  /\ pc = "loop" /\ InLoop
  /\ IF Hit THEN ~CutIsDefined ELSE ~SlideIsDefined
  /\ pc' = "undefined"
  /\ UNCHANGED <<buff, length, i, hash, chunk_num, curr_chunk, num_of_chunks>>

(* The last chunk takes the rest. *)
Close ==
  /\ pc = "loop" /\ ~InLoop
  /\ LET upper == (length - 1) % UINT_RANGE IN
       curr_chunk' =
         [curr_chunk EXCEPT ![chunk_num].upper_bound = upper,
                            ![chunk_num].size =
                               SizeOf(curr_chunk[chunk_num].lower_bound, upper)]
  /\ num_of_chunks' = chunk_num + 1
  /\ pc' = "done"
  /\ UNCHANGED <<buff, length, i, hash, chunk_num>>

Next == Start \/ Cut \/ Slide \/ Undefined \/ Close

Spec == Init /\ [][Next]_vars

-----------------------------------------------------------------------------
(* Safety *)

Chunk(c) == curr_chunk[c]

(* The rolling hash is the window's hash at every offset it is tested at: the  *)
(* byte that leaves is taken out with the power it has by then.               *)
RollingIsDirect == pc = "loop" /\ InLoop => hash = hash_func(i)

(* The loop stays inside curr_chunk[] and the buffer for every packet from      *)
(* MIN_CHUNK_SIZE bytes to MIN_CHUNK_SIZE more than a block, whatever its bytes: *)
(* the array is as long as the most chunks that the loop can cut.  A shorter     *)
(* packet, whose length minus MIN_CHUNK_SIZE wraps round, always overruns; a     *)
(* longer one, as a block size given with -b allows, may.                      *)
OverrunsOnlyOutside ==
  /\ pc = "undefined" => length < MIN_CHUNK_SIZE \/ length > BLOCKSIZE + MIN_CHUNK_SIZE
  /\ pc = "done" => length >= MIN_CHUNK_SIZE

(* The chunks of a packet follow each other without gap or overlap, from its   *)
(* first byte to its last, and none is shorter than MIN_CHUNK_SIZE, the last    *)
(* one included: what sha() hashes and the kernel encodes is the packet.       *)
ChunksTile ==
  pc = "done" =>
    /\ num_of_chunks \in 1 .. MAX_NUM_CHUNKS
    /\ Chunk(0).lower_bound = 0
    /\ \A c \in 1 .. num_of_chunks - 1 : Chunk(c).lower_bound = Chunk(c - 1).upper_bound + 1
    /\ Chunk(num_of_chunks - 1).upper_bound = length - 1
    /\ \A c \in 0 .. num_of_chunks - 1 :
         /\ Chunk(c).size = Chunk(c).upper_bound - Chunk(c).lower_bound + 1
         /\ Chunk(c).size >= MIN_CHUNK_SIZE

(* A chunk ends at the first window that hits the target, counted from where   *)
(* its search began, and nowhere else: where cuts fall depends on the bytes,   *)
(* not on the chunks before.                                                  *)
SearchStart(c) == IF c = 0 THEN MIN_CHUNK_SIZE ELSE Chunk(c).lower_bound - 1 + MIN_CHUNK_SIZE
HitAt(j)       == hash_func(j) % MODULUS = TARGET
LastSearched   == length - MIN_CHUNK_SIZE - 1

ContentDefined ==
  pc = "done" =>
    /\ \A c \in 0 .. num_of_chunks - 2 :
         /\ HitAt(Chunk(c).upper_bound)
         /\ \A j \in SearchStart(c) .. Chunk(c).upper_bound - 1 : ~HitAt(j)
    /\ \A j \in SearchStart(num_of_chunks - 1) .. LastSearched : ~HitAt(j)

-----------------------------------------------------------------------------
(* The invariant that carries the proofs *)

ChunkRecord == [lower_bound : Nat, upper_bound : Nat, size : Nat]

TypeOK ==
  /\ length \in Lengths
  /\ pc \in {"start", "loop", "undefined", "done"}
  /\ i \in Nat
  /\ chunk_num \in ChunkNums
  /\ curr_chunk \in [ChunkNums -> ChunkRecord]
  /\ num_of_chunks \in Nat

(* Where the loop is: far enough behind the chunk's first byte, never past the  *)
(* buffer, and as many minimum sizes along as it has cut chunks.               *)
Position ==
  /\ pc = "start" => chunk_num = 0
  /\ pc = "loop" =>
       /\ i + WIN_SIZE <= BUFFER
       /\ Chunk(chunk_num).lower_bound + MIN_CHUNK_SIZE <= i + 1
       /\ MIN_CHUNK_SIZE * (chunk_num + 1) <= i
       /\ length >= MIN_CHUNK_SIZE => Chunk(chunk_num).lower_bound + MIN_CHUNK_SIZE <= length

(* The chunks that are cut follow each other from byte 0, none too short.      *)
TiledSoFar ==
  pc = "loop" =>
    /\ Chunk(0).lower_bound = 0
    /\ \A c \in 1 .. chunk_num : Chunk(c).lower_bound = Chunk(c - 1).upper_bound + 1
    /\ \A c \in 0 .. chunk_num - 1 :
         /\ Chunk(c).size = Chunk(c).upper_bound - Chunk(c).lower_bound + 1
         /\ Chunk(c).size >= MIN_CHUNK_SIZE

IInv == TypeOK /\ Position /\ TiledSoFar /\ ChunksTile /\ OverrunsOnlyOutside

=============================================================================
