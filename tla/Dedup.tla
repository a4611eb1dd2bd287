------------------------------- MODULE Dedup -------------------------------
(***************************************************************************)
(* Deduplication: the dedup thread numbers the chunks it has not seen and     *)
(* turns the others into references; the kernel writes one record for each    *)
(* chunk; the records of all packets make the file that the decoder reads.    *)
(*                                                                         *)
(* Packets pass through the ring's slots, which keep what an earlier packet   *)
(* left in the fields that this one does not write.  A chunk's bytes are a    *)
(* member of Contents; Sha names its digest.                                 *)
(***************************************************************************)
EXTENDS ChunkFile, OutputOrder, FiniteSets

CONSTANTS
  MAX_NUM_CHUNKS,   \* chunks of a packet
  Contents,         \* what a chunk may be
  Sha,              \* its digest
  CodedSize,        \* the bytes of its LZW code
  MaxPackets        \* bound: packets of the stream

ASSUME RingAssumption   == NUM_PACKETS \in Nat \ {0} /\ NUM_PACKETS % 2 = 0
ASSUME ChunksAssumption == MAX_NUM_CHUNKS \in Nat \ {0} /\ NONE \notin Contents
ASSUME ShaAssumption    ==   \* no collision: dedup() compares nothing else
  \A a, b \in Contents : Sha[a] = Sha[b] => a = b
ASSUME SizeAssumption   == CodedSize \in [Contents -> Nat \ {0}]
ASSUME BoundAssumption  ==
  /\ MaxPackets \in Nat \ {0}
  /\ UINT_RANGE \in Nat /\ UINT_RANGE % 2 = 0 /\ 2 * MaxPackets * MAX_NUM_CHUNKS < UINT_RANGE

Slots     == 0 .. NUM_PACKETS - 1
ChunkNums == 0 .. MAX_NUM_CHUNKS - 1
Digests   == {Sha[c] : c \in Contents}

VARIABLES
  packarray,      \* [slot]: number of chunks, and for each its data and fields
  received,       \* packets whose chunks and digests are in their slots
  count,          \* the dedup thread's static count: packets it has done
  chunk_num,      \* its loop index in the packet it is at
  chunks_map,     \* digest to number
  unique_chunks,  \* the next number
  written,        \* packets whose records the kernels have written
  outputs,        \* [p + 1]: the records of packet p, its kernel's output buffer
  stream,         \* history: the chunks received, in order
  starts          \* history: [p + 1]: the chunks of the first p packets

history == <<stream, starts>>
vars == <<packarray, received, count, chunk_num, chunks_map, unique_chunks, written,
          outputs, history>>

(* malloc() leaves every field as it is: NONE, and any is_unique. *)
Unwritten(b) == [data |-> NONE, sha |-> NONE, num |-> NONE, header |-> NONE, is_unique |-> b]

Init ==
  /\ \E b \in BOOLEAN :
       packarray = [s \in Slots |->
                      [num_of_chunks |-> 0, chunk |-> [c \in ChunkNums |-> Unwritten(b)]]]
  /\ received = 0
  /\ count = 0
  /\ chunk_num = 0
  /\ chunks_map = << >>
  /\ unique_chunks = 0
  /\ written = 0
  /\ outputs = << >>
  /\ stream = << >> /\ starts = <<0>>

-----------------------------------------------------------------------------
(* A packet arrives in its slot, cut into chunks and digested: main(), cdc and *)
(* sha write these fields and no others.                                      *)
Receive ==
  /\ received < MaxPackets
  /\ received < written + NUM_PACKETS
  /\ \E n \in 1 .. MAX_NUM_CHUNKS : \E data \in [1 .. n -> Contents] :
       /\ packarray' =
            [packarray EXCEPT ![received % NUM_PACKETS] =
               [num_of_chunks |-> n,
                chunk |-> [c \in ChunkNums |->
                             IF c < n THEN [@.chunk[c] EXCEPT !.data = data[c + 1],
                                                              !.sha = Sha[data[c + 1]]]
                             ELSE @.chunk[c]]]]
       /\ stream' = stream \o data
       /\ starts' = Append(starts, Len(stream) + n)
  /\ received' = received + 1
  /\ UNCHANGED <<count, chunk_num, chunks_map, unique_chunks, written, outputs>>

-----------------------------------------------------------------------------
(* chunk_matching() *)

Pointed == packarray[count % NUM_PACKETS]
Current == Pointed.chunk[chunk_num]

AtChunk == count < received /\ chunk_num < Pointed.num_of_chunks
Known   == Current.sha \in DOMAIN chunks_map

Set(chunk) ==
  packarray' = [packarray EXCEPT ![count % NUM_PACKETS].chunk[chunk_num] = chunk]

NextUniqueWrong == unique_chunks

(* unique_chunks++ *)
NextUnique == unique_chunks + 1

(* A digest not seen before: the chunk gets the next number. *)
MatchUnique ==
  /\ AtChunk
  /\ ~Known
  /\ Set([Current EXCEPT !.num = unique_chunks, !.is_unique = TRUE])
  /\ chunks_map' = [d \in DOMAIN chunks_map \cup {Current.sha} |->
                      IF d = Current.sha THEN unique_chunks ELSE chunks_map[d]]
  /\ unique_chunks' = NextUnique
  /\ chunk_num' = chunk_num + 1
  /\ UNCHANGED <<received, count, written, outputs, history>>

DuplicateWrong ==
  [Current EXCEPT !.header = HeaderOfDuplicate(chunks_map[Current.sha])]

(* The chunk becomes a reference to the number of the one before it. *)
Duplicate ==
  [Current EXCEPT !.header = HeaderOfDuplicate(chunks_map[Current.sha]), !.is_unique = FALSE]

MatchDuplicate ==
  /\ AtChunk
  /\ Known
  /\ Set(Duplicate)
  /\ chunk_num' = chunk_num + 1
  /\ UNCHANGED <<received, count, chunks_map, unique_chunks, written, outputs, history>>

(* The packet is done: sem_post(sem_lzw) and count++. *)
MatchEnds ==
  /\ count < received
  /\ chunk_num = Pointed.num_of_chunks
  /\ count' = count + 1
  /\ chunk_num' = 0
  /\ UNCHANGED <<packarray, received, chunks_map, unique_chunks, written, outputs, history>>

-----------------------------------------------------------------------------
(* The lzw stage and the kernel *)

(* store(): a unique chunk's code after its size, or the header made above. *)
Record(chunk) ==
  IF chunk.is_unique
    THEN [header |-> HeaderOfUnique(CodedSize[chunk.data]), data |-> chunk.data]
    ELSE [header |-> chunk.header, data |-> NONE]

(* The records of the next packet; its slot is given back. *)
Store ==
  /\ written < count
  /\ LET packet == packarray[written % NUM_PACKETS] IN
       outputs' = Append(outputs,
                         [c \in 1 .. packet.num_of_chunks |-> Record(packet.chunk[c - 1])])
  /\ written' = written + 1
  /\ UNCHANGED <<packarray, received, count, chunk_num, chunks_map, unique_chunks, history>>

Next == Receive \/ MatchUnique \/ MatchDuplicate \/ MatchEnds \/ Store

Spec == Init /\ [][Next]_vars

-----------------------------------------------------------------------------
(* The file: the outputs of the packets in the order lzw_host() copies them *)

File == FlattenSeq([j \in 1 .. written |-> outputs[PacketAt(j - 1, written) + 1]])

Finished == written = received /\ written > 0

-----------------------------------------------------------------------------
(* Safety *)

(* The records of all packets, in the order of the packets. *)
records == FlattenSeq(outputs)

(* Each record stands for the chunk received at its place, with what the records *)
(* before it have: a unique one holds the chunk, and a reference has the number   *)
(* that the chunk before it has among the unique ones.                        *)
UniqueAt(j) == records[j].data # NONE

ReferencesPointBack ==
  \A j \in 1 .. Len(records) :
    /\ UniqueAt(j) <=> IsUniqueHeader(records[j].header)
    /\ IF UniqueAt(j)
         THEN records[j].data = stream[j]
         ELSE \E i \in 1 .. j - 1 :
                /\ records[i].data = stream[j]
                /\ NumberOf(records[j].header) = Cardinality({k \in 1 .. i - 1 : UniqueAt(k)})

(* Read in the order of the packets, the records decode to the chunks received,*)
(* whatever earlier packets left in the slots and however far the dedup thread *)
(* is ahead of the kernels.                                                    *)
RecordsDecode ==
  LET d == Decode(records) IN
    /\ d.ignored = 0
    /\ Len(d.output) = Len(records) /\ IsPrefix(d.output, stream)

(* Encoder and decoder number the chunks alike although neither tells the      *)
(* other: the decoder's n-th chunk is the one that the encoder's map gives n.   *)
NumbersAgree ==
  LET chunks == Decode(records).chunks IN
    \A n \in 1 .. Len(chunks) :
      chunks[n] \in Contents /\ Sha[chunks[n]] \in DOMAIN chunks_map
        /\ chunks_map[Sha[chunks[n]]] = n - 1

(* No content is coded twice. *)
StoredOnce ==
  \A i, j \in 1 .. Len(records) :
    i # j /\ records[i].data # NONE => records[i].data # records[j].data

(* The file of a stream shorter than the ring decodes to the stream. *)
ShortFileDecodes ==
  Finished /\ written < NUM_PACKETS => Decode(File).output = stream

(* "Likely encoder error": the decoder meets no reference to a chunk that it    *)
(* does not have.                                                              *)
NothingIgnored == Finished => Decode(File).ignored = 0

=============================================================================
