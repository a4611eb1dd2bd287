--------------------------- MODULE KernelDataflow ---------------------------
(***************************************************************************)
(* One run of lzw_kernel(): under #pragma HLS DATAFLOW its four functions      *)
(* run at the same time, joined by streams of fixed depth whose reads and      *)
(* writes block.  load() feeds lzw_encode(), that bit_pack(), that store().    *)
(*                                                                         *)
(* A byte of the packet is its position, a code or a byte made of codes the     *)
(* number of the chunk it comes from; which bytes make lzw_encode() send a code *)
(* is left open (LzwKernel has that), how many bytes bit_pack() makes is not.   *)
(***************************************************************************)
EXTENDS Integers, Sequences

CONSTANTS
  MAX_CHUNKS, MAX_SIZE,     \* bounds: chunks of the packet, bytes of a chunk
  BYTE_BITS, CODE_LENGTH,   \* bits of a byte and of a code
  SHORT, LONG               \* depths: 512 for bounds, kinds, headers and flags, 4096 for data

ASSUME DepthAssumption == SHORT \in Nat \ {0} /\ LONG \in Nat \ {0}
ASSUME SizeAssumption  == MAX_CHUNKS \in Nat /\ MAX_SIZE \in Nat \ {0}
ASSUME BitsAssumption  == BYTE_BITS \in Nat \ {0} /\ CODE_LENGTH \in Nat /\ CODE_LENGTH >= BYTE_BITS

LongStreams  == {"input", "lzw_encode_out", "bit_pack_out"}
ShortStreams == {"boundaries_1", "uniques_1", "head_1", "uniques_2", "head_2", "uniques_3",
                 "head_3", "lzw_encode_out_flag", "bit_pack_out_flag"}
Streams      == LongStreams \cup ShortStreams
Depth(s)     == IF s \in LongStreams THEN LONG ELSE SHORT

VARIABLES
  chunk_bndry, is_unique,      \* the packet's chunks: upper bounds, kinds
  streams,
  put, taken,                  \* history: [stream][chunk] elements about it written, read
  load, encode, pack, store,   \* the four functions: where each is, and its locals
  output                       \* output_file: for each chunk a header and its bytes

packet == <<chunk_bndry, is_unique>>
flow   == <<streams, put, taken>>
vars   == <<packet, flow, load, encode, pack, store, output>>

num_chunks == Len(chunk_bndry)
Chunks     == 1 .. num_chunks

(* dup_chunk_head[c]: any odd number that tells c from other chunks will do. *)
dup_chunk_head(c) == 2 * c + 1

(* A chunk's first byte, and how many it has: its bound is its last byte.       *)
StartOf(c) == IF c = 1 THEN 0 ELSE chunk_bndry[c - 1] + 1
SizeOf(c)  == chunk_bndry[c] + 1 - StartOf(c)

(* A function's first step, or its end when the packet has no more chunks. *)
AtChunk(c, first) == IF c <= num_chunks THEN first ELSE "done"

Init ==
  /\ \E n \in 0 .. MAX_CHUNKS : chunk_bndry \in [1 .. n -> 0 .. n * MAX_SIZE]
  /\ \A c \in Chunks : SizeOf(c) \in 1 .. MAX_SIZE
  /\ is_unique \in [Chunks -> BOOLEAN]
  /\ streams = [s \in Streams |-> << >>]
  /\ put = [s \in Streams |-> [c \in Chunks |-> 0]]
  /\ taken = put
  /\ load   = [pc |-> AtChunk(1, "boundaries_1"), chunk |-> 1, j |-> 0]
  /\ encode = [pc |-> AtChunk(1, "boundaries_1"), chunk |-> 1, bound |-> 0, last |-> 0,
               unique |-> FALSE, head |-> 0, left |-> 0]
  /\ pack   = [pc |-> AtChunk(1, "uniques_2"), chunk |-> 1, unique |-> FALSE, head |-> 0,
               code |-> 0, rem |-> 0, left |-> 0]
  /\ store  = [pc |-> AtChunk(1, "uniques_3"), chunk |-> 1, unique |-> FALSE, head |-> 0,
               bytes |-> << >>]
  /\ output = << >>

(* stream.write(v) by a function at chunk c, and stream.read().  An element also *)
(* carries c and its number among those about c, on which nothing depends.      *)
Put(s, c, v) ==
  /\ Len(streams[s]) < Depth(s)
  /\ streams' = [streams EXCEPT ![s] = Append(@, [is |-> v, of |-> c, nth |-> put[s][c] + 1])]
  /\ put' = [put EXCEPT ![s][c] = @ + 1]
  /\ UNCHANGED taken

Take(s) ==
  /\ streams[s] # << >>
  /\ streams' = [streams EXCEPT ![s] = Tail(@)]
  /\ taken' = [taken EXCEPT ![s][Head(streams[s]).of] = @ + 1]
  /\ UNCHANGED put

Peek(s) == Head(streams[s]).is

(* Codes sent for a chunk, and bytes made of them.                            *)
sent(c) == put["lzw_encode_out"][c]
made(c) == put["bit_pack_out"][c]

-----------------------------------------------------------------------------
(* load(): bound, kind and header of each chunk, then the bytes of a unique one *)

LoadNext(l, j) ==
  [pc |-> AtChunk(l.chunk + 1, "boundaries_1"), chunk |-> l.chunk + 1, j |-> j]

(* last_boundary after a chunk: where the next one begins. *)
LastBoundary(bound) == bound + 1

LoadInfo ==
  \/ /\ load.pc = "boundaries_1"
     /\ Put("boundaries_1", load.chunk, chunk_bndry[load.chunk])
     /\ load' = [load EXCEPT !.pc = "uniques_1"]
  \/ /\ load.pc = "uniques_1"
     /\ Put("uniques_1", load.chunk, is_unique[load.chunk])
     /\ load' = [load EXCEPT !.pc = "head_1"]
  \/ /\ load.pc = "head_1"
     /\ Put("head_1", load.chunk, dup_chunk_head(load.chunk))
     /\ load' = IF is_unique[load.chunk] THEN [load EXCEPT !.pc = "input"]
                ELSE LoadNext(load, LastBoundary(chunk_bndry[load.chunk]))

LoadData ==
  /\ load.pc = "input"
  /\ Put("input", load.chunk, load.j)
  /\ load' = IF load.j < chunk_bndry[load.chunk] THEN [load EXCEPT !.j = @ + 1]
             ELSE LoadNext(load, LastBoundary(chunk_bndry[load.chunk]))

Load == (LoadInfo \/ LoadData) /\ UNCHANGED <<packet, encode, pack, store, output>>

-----------------------------------------------------------------------------
(* lzw_encode() *)

LengthWrongShort(e) == e.bound - e.last
LengthWrongLong(e)  == e.bound - e.last + 2

(* The bytes of the chunk, bounds included. *)
Length(e) == e.bound - e.last + 1

EncodeNext(e) ==
  [e EXCEPT !.pc = AtChunk(e.chunk + 1, "boundaries_1"), !.chunk = @ + 1,
            !.last = LastBoundary(e.bound)]

EncodeInfo ==
  \/ /\ encode.pc = "boundaries_1"
     /\ Take("boundaries_1")
     /\ encode' = [encode EXCEPT !.pc = "uniques_1", !.bound = Peek("boundaries_1")]
  \/ /\ encode.pc = "uniques_1"
     /\ Take("uniques_1")
     /\ encode' = [encode EXCEPT !.pc = "head_1", !.unique = Peek("uniques_1")]
  \/ /\ encode.pc = "head_1"
     /\ Take("head_1")
     /\ encode' = [encode EXCEPT !.pc = "uniques_2", !.head = Peek("head_1")]
  \/ /\ encode.pc = "uniques_2"
     /\ Put("uniques_2", encode.chunk, encode.unique)
     /\ encode' = [encode EXCEPT !.pc = "head_2"]
  \/ /\ encode.pc = "head_2"
     /\ Put("head_2", encode.chunk, encode.head)
     /\ encode' = IF encode.unique
                    THEN [encode EXCEPT !.pc = "first", !.left = Length(encode)]
                    ELSE EncodeNext(encode)

(* ENCODE_LOOP2 runs once for each byte: the first is read before it, so that   *)
(* its last turn reads none.  A turn may or may not make a code go out, but for *)
(* the last: a code goes out in it, or behind the loop.                       *)
EncodeFirst ==
  /\ encode.pc = "first"
  /\ Take("input")
  /\ encode' = [encode EXCEPT !.pc = "input"]

EncodeData ==
  /\ encode.pc = "input"
  /\ \/ /\ encode.left > 1
        /\ Take("input")
        /\ \E next \in {"flag", "input"} :
             encode' = [encode EXCEPT !.left = @ - 1, !.pc = next]
     \/ /\ encode.left <= 1
        /\ encode' = [encode EXCEPT !.left = 0, !.pc = "flag"]
        /\ UNCHANGED flow

(* lzw_encode_out_flag.write(1), lzw_encode_out.write(code) *)
EncodeFlag ==
  /\ encode.pc = "flag"
  /\ Put("lzw_encode_out_flag", encode.chunk, 1)
  /\ encode' = [encode EXCEPT !.pc = "code"]

EncodeCode ==
  /\ encode.pc = "code"
  /\ Put("lzw_encode_out", encode.chunk, encode.chunk)
  /\ encode' = [encode EXCEPT !.pc = IF encode.left = 0 THEN "end" ELSE "input"]

EncodeEnd ==
  /\ encode.pc = "end"
  /\ Put("lzw_encode_out_flag", encode.chunk, 0)
  /\ encode' = EncodeNext(encode)

EncodeStep ==
  /\ EncodeInfo \/ EncodeFirst \/ EncodeData \/ EncodeFlag \/ EncodeCode \/ EncodeEnd
  /\ UNCHANGED <<packet, load, pack, store, output>>

-----------------------------------------------------------------------------
(* bit_pack() *)

PackNext(k) == [k EXCEPT !.pc = AtChunk(k.chunk + 1, "uniques_2"), !.chunk = @ + 1]

PackInfo ==
  \/ /\ pack.pc = "uniques_2"
     /\ Take("uniques_2")
     /\ pack' = [pack EXCEPT !.pc = "head_2", !.unique = Peek("uniques_2")]
  \/ /\ pack.pc = "head_2"
     /\ Take("head_2")
     /\ pack' = [pack EXCEPT !.pc = "uniques_3", !.head = Peek("head_2")]
  \/ /\ pack.pc = "uniques_3"
     /\ Put("uniques_3", pack.chunk, pack.unique)
     /\ pack' = [pack EXCEPT !.pc = "head_3"]
  \/ /\ pack.pc = "head_3"
     /\ Put("head_3", pack.chunk, pack.head)
     /\ pack' = IF pack.unique THEN [pack EXCEPT !.pc = "flag", !.rem = 0] ELSE PackNext(pack)

PadsWrong(rem) == FALSE

(* if (rem_bits): a byte of padding is due. *)
Pads(rem) == rem # 0

(* The flag says whether a code follows or the chunk is at its end. *)
PackFlag ==
  /\ pack.pc = "flag"
  /\ Take("lzw_encode_out_flag")
  /\ pack' = [pack EXCEPT !.pc = IF Peek("lzw_encode_out_flag") = 1 THEN "code"
                                 ELSE IF Pads(pack.rem) THEN "padflag" ELSE "end"]

(* rem_bits: what is left of the code and the bits before it in whole bytes. *)
Rem(running_bits) == running_bits % BYTE_BITS

WholeBytesWrong(running_bits) == (running_bits + BYTE_BITS - 1) \div BYTE_BITS

(* The bytes that can be sent now. *)
WholeBytes(running_bits) == running_bits \div BYTE_BITS

PackCode ==
  /\ pack.pc = "code"
  /\ Take("lzw_encode_out")
  /\ LET running_bits == pack.rem + CODE_LENGTH IN
       pack' = [pack EXCEPT !.pc = "byteflag", !.code = Peek("lzw_encode_out"),
                            !.left = WholeBytes(running_bits), !.rem = Rem(running_bits)]

(* For each byte bit_pack_out_flag.write(1) and bit_pack_out.write(byte). *)
PackByte ==
  \/ /\ pack.pc \in {"byteflag", "padflag"}
     /\ Put("bit_pack_out_flag", pack.chunk, 1)
     /\ pack' = [pack EXCEPT !.pc = IF @ = "byteflag" THEN "byte" ELSE "pad"]
  \/ /\ pack.pc = "byte"
     /\ Put("bit_pack_out", pack.chunk, pack.code)
     /\ pack' = [pack EXCEPT !.left = @ - 1, !.pc = IF pack.left = 1 THEN "flag" ELSE "byteflag"]
  \/ /\ pack.pc = "pad"
     /\ Put("bit_pack_out", pack.chunk, pack.code)
     /\ pack' = [pack EXCEPT !.pc = "end"]

PackEnd ==
  /\ pack.pc = "end"
  /\ Put("bit_pack_out_flag", pack.chunk, 0)
  /\ pack' = PackNext(pack)

PackStep ==
  /\ PackInfo \/ PackFlag \/ PackCode \/ PackByte \/ PackEnd
  /\ UNCHANGED <<packet, load, encode, store, output>>

-----------------------------------------------------------------------------
(* store() *)

StoreNext(s) ==
  [s EXCEPT !.pc = AtChunk(s.chunk + 1, "uniques_3"), !.chunk = @ + 1, !.bytes = << >>]

StoreInfo ==
  \/ /\ store.pc = "uniques_3"
     /\ Take("uniques_3")
     /\ store' = [store EXCEPT !.pc = "head_3", !.unique = Peek("uniques_3")]
     /\ UNCHANGED output
  \/ /\ store.pc = "head_3"
     /\ Take("head_3")
     /\ IF store.unique
          THEN /\ store' = [store EXCEPT !.pc = "flag", !.head = Peek("head_3")]
               /\ UNCHANGED output
          ELSE /\ store' = StoreNext(store)
               /\ output' = Append(output, [header |-> Peek("head_3"), bytes |-> << >>])

(* A byte follows, or the chunk is complete and its length, known only now, is *)
(* written in front of it.                                                    *)
StoreFlag ==
  /\ store.pc = "flag"
  /\ Take("bit_pack_out_flag")
  /\ IF Peek("bit_pack_out_flag") = 1
       THEN /\ store' = [store EXCEPT !.pc = "byte"]
            /\ UNCHANGED output
       ELSE /\ store' = StoreNext(store)
            /\ output' = Append(output, [header |-> 2 * Len(store.bytes), bytes |-> store.bytes])

StoreByte ==
  /\ store.pc = "byte"
  /\ Take("bit_pack_out")
  /\ store' = [store EXCEPT !.pc = "flag", !.bytes = Append(@, Head(streams["bit_pack_out"]))]
  /\ UNCHANGED output

StoreStep ==
  /\ StoreInfo \/ StoreFlag \/ StoreByte
  /\ UNCHANGED <<packet, load, encode, pack>>

-----------------------------------------------------------------------------
Done == \A f \in {load, encode, pack, store} : f.pc = "done"

(* The kernel has returned. *)
Returned == Done /\ UNCHANGED vars

Next == Load \/ EncodeStep \/ PackStep \/ StoreStep \/ Returned

Spec == Init /\ [][Next]_vars

(* The four functions are circuits of their own: each one goes on when it can.  *)
Fairness == WF_vars(Load) /\ WF_vars(EncodeStep) /\ WF_vars(PackStep) /\ WF_vars(StoreStep)

FairSpec == Spec /\ Fairness

-----------------------------------------------------------------------------
(* Safety *)

PackedSize(n) == (n * CODE_LENGTH + BYTE_BITS - 1) \div BYTE_BITS

(* Whatever the depths and the speeds, the output is that of the functions run  *)
(* one after the other: each chunk in its place, a duplicate by its header, a   *)
(* unique one with the bytes of all its codes in their order and no other       *)
(* chunk's, after a header that says how many they are.                       *)
OutputIsSequential ==
  \A c \in 1 .. Len(output) :
    IF is_unique[c]
      THEN output[c] = [header |-> 2 * PackedSize(sent(c)),
                        bytes  |-> [k \in 1 .. PackedSize(sent(c)) |-> [is |-> c, of |-> c, nth |-> k]]]
      ELSE output[c] = [header |-> dup_chunk_head(c), bytes |-> << >>]

(* A chunk makes no more codes than it has bytes, so that what store() writes    *)
(* for a packet is bounded by its size: 13 bits a byte, and a header a chunk.     *)
OutputBounded ==
  /\ \A c \in Chunks : sent(c) <= SizeOf(c)
  /\ \A c \in 1 .. Len(output) : Len(output[c].bytes) <= PackedSize(SizeOf(c))
  /\ store.pc \in {"flag", "byte"} => Len(store.bytes) <= PackedSize(SizeOf(store.chunk))

(* lzw_encode() takes each chunk's bytes in their order and no other's: both     *)
(* sides of the stream find the same length from the bounds.                   *)
NextByte == encode.bound + (IF encode.pc = "first" THEN 1 ELSE 2) - encode.left

BytesOfOwnChunk ==
  /\ encode.pc = "first" \/ (encode.pc = "input" /\ encode.left > 1)
  /\ streams["input"] # << >>
  => Peek("input") = NextByte /\ NextByte \in StartOf(encode.chunk) .. chunk_bndry[encode.chunk]

(* The streams are empty when the kernel returns: the next packet's run does not *)
(* find anything of this one.                                                  *)
DrainedAtReturn == Done => \A s \in Streams : streams[s] = << >>

-----------------------------------------------------------------------------
(* Liveness *)

(* The kernel returns, for every depth of the streams: no function waits for     *)
(* data while the one before it waits for room.                                *)
Returns == <>Done

=============================================================================
