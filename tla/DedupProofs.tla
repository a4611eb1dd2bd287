---------------------------- MODULE DedupProofs ----------------------------
(***************************************************************************)
(* Proofs about deduplication, for every ring, every number of packets and    *)
(* chunks, and all contents: the records say of the stream what the decoder   *)
(* needs, whatever earlier packets left in the slots.                         *)
(***************************************************************************)
EXTENDS Dedup, Basics, FiniteSetTheorems, SequenceTheorems, TLAPS

-----------------------------------------------------------------------------
(* The invariant that carries the proofs *)

Numbers == Nat \cup {NONE}

ChunkType == [data : Contents \cup {NONE}, sha : Digests \cup {NONE},
              num : Numbers, header : Numbers, is_unique : BOOLEAN]

RecordType == [header : Numbers, data : Contents \cup {NONE}]

SlotType == [num_of_chunks : 0 .. MAX_NUM_CHUNKS, chunk : [ChunkNums -> ChunkType]]

TypeOK ==
  /\ packarray \in [Slots -> SlotType]
  /\ received \in 0 .. MaxPackets /\ count \in 0 .. received /\ written \in 0 .. count
  /\ received <= written + NUM_PACKETS
  /\ chunk_num \in 0 .. MAX_NUM_CHUNKS
  /\ unique_chunks \in Nat
  /\ outputs \in Seq(Seq(RecordType)) /\ Len(outputs) = written
  /\ stream \in Seq(Contents)
  /\ starts \in Seq(Nat) /\ Len(starts) = received + 1

(* Where a packet's chunks are in the stream, and how many of the stream's      *)
(* chunks the dedup thread has done.                                         *)
Packet(p) == packarray[p % NUM_PACKETS]
Start(p)  == starts[p + 1]
Done      == Start(count) + chunk_num

Places ==
  /\ Start(0) = 0 /\ Start(received) = Len(stream)
  /\ \A p, q \in 0 .. received : p <= q => Start(p) <= Start(q)
  /\ \A p \in written .. received - 1 : Start(p) + Packet(p).num_of_chunks = Start(p + 1)
  /\ count < received => chunk_num <= Packet(count).num_of_chunks
  /\ count = received => chunk_num = 0
  /\ Len(records) = Start(written)
  /\ Len(stream) <= MAX_NUM_CHUNKS * received

(* The chunks of the stream that are the first of their content: they are the   *)
(* ones that are numbered, one after the other.                              *)
First(j)      == \A i \in 1 .. j - 1 : stream[i] # stream[j]
FirstsUpTo(n) == {k \in 1 .. n : First(k)}
Number(c)     == chunks_map[Sha[c]]

NumberedAt(j) ==
  /\ Number(stream[j]) \in 0 .. unique_chunks - 1
  /\ First(j) => Number(stream[j]) = Cardinality(FirstsUpTo(j - 1))
  /\ \E i \in 1 .. j : First(i) /\ stream[i] = stream[j]

Map ==
  /\ DOMAIN chunks_map = {Sha[stream[j]] : j \in 1 .. Done}
  /\ unique_chunks = Cardinality(FirstsUpTo(Done)) /\ unique_chunks <= Done
  /\ \A j \in 1 .. Done : NumberedAt(j)

(* A slot that the kernels have not read yet has its packet's chunks, and for   *)
(* those that are done, what they are.                                       *)
Matched(chunk, j) ==
  /\ chunk.is_unique <=> First(j)
  /\ ~First(j) => chunk.header = HeaderOfDuplicate(Number(stream[j]))

InSlots ==
  \A p \in written .. received - 1 : \A c \in 0 .. Packet(p).num_of_chunks - 1 :
    LET chunk == Packet(p).chunk[c]
        j     == Start(p) + c + 1
    IN  /\ chunk.data = stream[j] /\ chunk.sha = Sha[stream[j]]
        /\ j <= Done => Matched(chunk, j)

(* The records are what the stream makes of them. *)
RecordedAt(j) ==
  IF First(j)
    THEN records[j].data = stream[j] /\ records[j].header = HeaderOfUnique(CodedSize[stream[j]])
    ELSE records[j].data = NONE /\ records[j].header = HeaderOfDuplicate(Number(stream[j]))

Recorded == \A j \in 1 .. Len(records) : RecordedAt(j)

IInv == TypeOK /\ Places /\ Map /\ InSlots /\ Recorded

-----------------------------------------------------------------------------
(* Numbers and places *)

(* The sizes, as the assumptions give them. *)
LEMMA Sizes ==
  /\ NUM_PACKETS \in Nat \ {0} /\ MAX_NUM_CHUNKS \in Nat \ {0} /\ MaxPackets \in Nat \ {0}
  /\ UINT_RANGE \in Nat \ {0} /\ UINT_RANGE % 2 = 0
  /\ NONE \notin Contents
<1>1. NUM_PACKETS \in Nat \ {0} /\ MAX_NUM_CHUNKS \in Nat \ {0} /\ MaxPackets \in Nat \ {0}
      /\ UINT_RANGE \in Nat /\ UINT_RANGE % 2 = 0 /\ NONE \notin Contents
  BY RingAssumption, ChunksAssumption, BoundAssumption
<1>2. 2 * MaxPackets * MAX_NUM_CHUNKS < UINT_RANGE
  BY BoundAssumption
<1>3. 2 * MaxPackets * MAX_NUM_CHUNKS \in Nat
  <2>1. 2 * MaxPackets \in Nat
    BY <1>1
  <2> QED
    BY <1>1, <2>1, SMT
<1> QED
  BY <1>1, <1>2, <1>3

(* What the invariant says of one variable after the other. *)
LEMMA Typed ==
  ASSUME IInv
  PROVE  /\ received \in Nat /\ count \in Nat /\ written \in Nat /\ chunk_num \in Nat
         /\ written <= count /\ count <= received /\ received <= written + NUM_PACKETS
         /\ received <= MaxPackets
         /\ unique_chunks \in Nat
         /\ Len(records) \in Nat /\ Len(stream) \in Nat
         /\ stream \in Seq(Contents) /\ starts \in Seq(Nat) /\ Len(starts) = received + 1
         /\ outputs \in Seq(Seq(RecordType)) /\ Len(outputs) = written
         /\ records \in Seq(RecordType)
<1>1. /\ received \in Nat /\ count \in Nat /\ written \in Nat /\ chunk_num \in Nat
      /\ written <= count /\ count <= received /\ received <= MaxPackets
  BY Sizes DEF IInv, TypeOK
<1>2. records \in Seq(RecordType)
  <2>1. outputs \in Seq(Seq(RecordType))
    BY DEF IInv, TypeOK
  <2> QED
    BY <2>1, FlattenTyped DEF records
<1> QED
  BY <1>1, <1>2, LenProperties DEF IInv, TypeOK

(* There are at most as many packets on their way as slots. *)
LEMMA InFlight ==
  ASSUME IInv
  PROVE  received - written <= NUM_PACKETS
<1>1. received \in Nat /\ written \in Nat /\ received <= written + NUM_PACKETS
  BY Typed
<1>2. NUM_PACKETS \in Nat
  BY Sizes
<1> QED
  BY <1>1, <1>2

(* Packets on their way are in slots of their own. *)
LEMMA SlotsDiffer ==
  ASSUME NEW p \in Nat, NEW q \in Nat, p # q, p - q < NUM_PACKETS, q - p < NUM_PACKETS
  PROVE  p % NUM_PACKETS # q % NUM_PACKETS
<1>1. CASE p < q
  BY <1>1, Sizes, ModInjective
<1>2. CASE q < p
  BY <1>2, Sizes, ModInjective
<1> QED
  BY <1>1, <1>2

(* A packet's slot is one of the ring's. *)
LEMMA SlotInRing ==
  ASSUME NEW p \in Nat
  PROVE  p % NUM_PACKETS \in Slots
BY Sizes, DivMod DEF Slots

(* A packet's place in the stream is a number, and the chunks done are in it. *)
LEMMA StartIsNat ==
  ASSUME IInv
  PROVE  /\ \A p \in 0 .. received : Start(p) \in Nat
         /\ Start(received) = Len(stream)
         /\ Done \in Nat /\ Done <= Len(stream)
         /\ Len(records) <= Done
<1>1. ASSUME NEW p \in 0 .. received PROVE Start(p) \in Nat
  <2>1. p + 1 \in 1 .. Len(starts)
    BY Typed
  <2> QED
    BY <2>1, Typed, ElementOfSeq DEF Start
<1>2. Start(received) = Len(stream)
  BY DEF IInv, Places
<1>3. /\ count \in 0 .. received /\ Start(count) \in Nat /\ chunk_num \in Nat
      /\ written \in 0 .. received
  BY <1>1, Typed
<1>4. Done <= Len(stream)
  <2>1. CASE count < received
    <3>1. /\ count \in written .. received - 1 /\ count + 1 \in 0 .. received
          /\ received \in 0 .. received /\ count + 1 <= received
      BY <2>1, Typed
    <3>2. /\ Start(count) + Packet(count).num_of_chunks = Start(count + 1)
          /\ chunk_num <= Packet(count).num_of_chunks
          /\ Start(count + 1) <= Len(stream)
      BY <1>2, <2>1, <3>1 DEF IInv, Places
    <3>3. Packet(count).num_of_chunks \in Nat
      <4>1. count % NUM_PACKETS \in Slots
        BY Typed, SlotInRing
      <4> QED
        BY <4>1, Sizes DEF IInv, TypeOK, SlotType, Packet
    <3>4. Start(count + 1) \in Nat
      BY <1>1, <3>1
    <3> DEFINE start == Start(count)
               end   == Start(count + 1)
               m     == Packet(count).num_of_chunks
    <3>5. start \in Nat /\ end \in Nat /\ m \in Nat /\ chunk_num \in Nat /\ Len(stream) \in Nat
          /\ start + m = end /\ chunk_num <= m /\ end <= Len(stream) /\ Done = start + chunk_num
      BY <1>3, <3>2, <3>3, <3>4, Typed DEF Done
    <3> HIDE DEF start, end, m
    <3> QED
      BY <3>5
  <2>2. CASE count = received
    <3>1. Start(count) = Len(stream) /\ chunk_num = 0
      BY <1>2, <2>2 DEF IInv, Places
    <3>2. Done = Len(stream) + 0
      BY <3>1 DEF Done
    <3>3. Len(stream) \in Nat
      BY Typed
    <3> QED
      BY <3>2, <3>3
  <2> QED
    BY Typed, <2>1, <2>2
<1>5. Len(records) <= Done
  <2>1. Len(records) = Start(written) /\ Start(written) <= Start(count)
    BY <1>3, Typed DEF IInv, Places
  <2> QED
    BY <1>3, <2>1, Typed DEF Done
<1> QED
  BY <1>1, <1>2, <1>3, <1>4, <1>5 DEF Done

(* A packet on its way: its slot, and the place of a chunk of it. *)
LEMMA OnItsWay ==
  ASSUME IInv, NEW p \in written .. received - 1
  PROVE  /\ p \in Nat /\ p \in 0 .. received /\ p + 1 \in 0 .. received
         /\ p % NUM_PACKETS \in Slots /\ Packet(p) \in SlotType
         /\ Packet(p).num_of_chunks \in Nat /\ Packet(p).num_of_chunks <= MAX_NUM_CHUNKS
         /\ Start(p) \in Nat /\ Start(p) + Packet(p).num_of_chunks = Start(p + 1)
         /\ Start(p + 1) <= Len(stream)
         /\ \A c \in 0 .. Packet(p).num_of_chunks - 1 :
              c \in ChunkNums /\ Start(p) + c + 1 \in 1 .. Len(stream)
<1>1. p \in Nat /\ p \in 0 .. received /\ p + 1 \in 0 .. received /\ received \in 0 .. received
      /\ p + 1 <= received
  BY Typed
<1>2. p % NUM_PACKETS \in Slots
  BY <1>1, SlotInRing
<1>3. Packet(p) \in SlotType
  BY <1>2 DEF IInv, TypeOK, Packet
<1>4. Packet(p).num_of_chunks \in Nat /\ Packet(p).num_of_chunks <= MAX_NUM_CHUNKS
  BY <1>3, Sizes DEF SlotType
<1>5. Start(p) \in Nat
  BY <1>1, StartIsNat
<1>6. Start(p) + Packet(p).num_of_chunks = Start(p + 1)
  BY DEF IInv, Places
<1>7. Start(p + 1) <= Len(stream)
  BY <1>1, StartIsNat DEF IInv, Places
<1>8. ASSUME NEW c \in 0 .. Packet(p).num_of_chunks - 1
      PROVE  c \in ChunkNums /\ Start(p) + c + 1 \in 1 .. Len(stream)
  <2> DEFINE m     == Packet(p).num_of_chunks
             start == Start(p)
             end   == Start(p + 1)
  <2>1. /\ m \in Nat /\ m <= MAX_NUM_CHUNKS /\ start \in Nat /\ start + m = end
        /\ end <= Len(stream) /\ Len(stream) \in Nat /\ MAX_NUM_CHUNKS \in Nat
        /\ c \in 0 .. m - 1
    BY <1>4, <1>5, <1>6, <1>7, Typed, Sizes
  <2> HIDE DEF m, start, end
  <2>2. c \in ChunkNums /\ start + c + 1 \in 1 .. Len(stream)
    BY <2>1 DEF ChunkNums
  <2> QED
    BY <2>2 DEF start
<1> QED
  BY <1>1, <1>2, <1>3, <1>4, <1>5, <1>6, <1>7, <1>8

(* No two chunks on their way have one place, and those before the place where   *)
(* the dedup thread is are done.                                             *)
LEMMA PlacesDiffer ==
  ASSUME IInv, count < received, chunk_num < Packet(count).num_of_chunks,
         NEW p \in written .. received - 1, NEW c \in 0 .. Packet(p).num_of_chunks - 1,
         p # count \/ c # chunk_num
  PROVE  Start(p) + c + 1 # Done + 1
<1>1. count \in written .. received - 1
  BY Typed
<1>2. /\ Start(p) \in Nat /\ Start(count) \in Nat /\ Packet(count).num_of_chunks \in Nat
      /\ Packet(p).num_of_chunks \in Nat /\ chunk_num \in Nat
      /\ Start(p) + Packet(p).num_of_chunks = Start(p + 1)
      /\ Start(count) + Packet(count).num_of_chunks = Start(count + 1)
      /\ p \in Nat /\ p \in 0 .. received /\ p + 1 \in 0 .. received
      /\ count \in 0 .. received /\ count + 1 \in 0 .. received /\ count \in Nat
  BY <1>1, Typed, OnItsWay
<1>3. CASE p < count
  <2>1. Start(p + 1) <= Start(count)
    <3>1. p + 1 <= count
      BY <1>2, <1>3
    <3> QED
      BY <1>2, <3>1 DEF IInv, Places
  <2> QED
    BY <1>2, <2>1 DEF Done
<1>4. CASE p > count
  <2>1. Start(count + 1) <= Start(p)
    <3>1. count + 1 <= p
      BY <1>2, <1>4
    <3> QED
      BY <1>2, <3>1 DEF IInv, Places
  <2> QED
    BY <1>2, <2>1 DEF Done
<1>5. CASE p = count
  BY <1>2, <1>5 DEF Done
<1> QED
  BY <1>2, <1>3, <1>4, <1>5

-----------------------------------------------------------------------------
(* The initial states *)

(* Nothing is in the slots, the map and the records. *)
LEMMA Initially == Init => IInv
<1> SUFFICES ASSUME Init PROVE IInv
  OBVIOUS
<1>1. /\ received = 0 /\ count = 0 /\ chunk_num = 0 /\ chunks_map = << >> /\ unique_chunks = 0
      /\ written = 0 /\ outputs = << >> /\ stream = << >> /\ starts = <<0>>
  BY DEF Init
<1>2. Len(stream) = 0 /\ Len(outputs) = 0 /\ Len(records) = 0 /\ Len(starts) = 1
  BY <1>1 DEF records, FlattenSeq
<1>3. TypeOK
  <2>1. packarray \in [Slots -> SlotType]
    <3>1. PICK b \in BOOLEAN :
            packarray = [s \in Slots |->
                           [num_of_chunks |-> 0, chunk |-> [c \in ChunkNums |-> Unwritten(b)]]]
      BY DEF Init
    <3>2. Unwritten(b) \in ChunkType
      BY DEF Unwritten, Numbers, ChunkType
    <3>3. 0 \in 0 .. MAX_NUM_CHUNKS
      BY Sizes
    <3> HIDE DEF Unwritten
    <3> QED
      BY <3>1, <3>2, <3>3 DEF SlotType
  <2>2. received \in 0 .. MaxPackets /\ count \in 0 .. received /\ written \in 0 .. count
        /\ received <= written + NUM_PACKETS /\ chunk_num \in 0 .. MAX_NUM_CHUNKS
        /\ unique_chunks \in Nat
    BY <1>1, Sizes
  <2>3. /\ outputs \in Seq(Seq(RecordType)) /\ Len(outputs) = written
        /\ stream \in Seq(Contents) /\ starts \in Seq(Nat) /\ Len(starts) = received + 1
    BY <1>1, <1>2, EmptySeq
  <2> QED
    BY <2>1, <2>2, <2>3 DEF TypeOK
<1>4. Start(0) = 0 /\ Done = 0
  BY <1>1, <1>2 DEF Start, Done
<1>5. Places
  <2>1. MAX_NUM_CHUNKS * received \in Nat
    BY <1>1, Sizes, SMT
  <2>2. \A p \in 0 .. received : p = 0
    BY <1>1
  <2>3. \A p \in written .. received - 1 : FALSE
    BY <1>1
  <2> QED
    BY <1>1, <1>2, <1>4, <2>1, <2>2, <2>3 DEF Places
<1>6. Map
  <2>1. FirstsUpTo(Done) = {}
    BY <1>4 DEF FirstsUpTo
  <2>2. Cardinality(FirstsUpTo(Done)) = 0
    BY <2>1, FS_EmptySet
  <2>3. DOMAIN chunks_map = {} /\ 1 .. Done = {}
    BY <1>1, <1>4
  <2> QED
    BY <1>1, <1>4, <2>2, <2>3 DEF Map
<1>7. InSlots
  BY <1>1 DEF InSlots
<1>8. Recorded
  BY <1>2 DEF Recorded
<1> QED
  BY <1>3, <1>5, <1>6, <1>7, <1>8 DEF IInv

-----------------------------------------------------------------------------
(* A packet arrives *)

(* What the stream has, it keeps, and so do the definitions that look at it. *)
LEMMA Extended ==
  ASSUME NEW m \in Nat, m <= Len(stream), Len(stream) \in Nat,
         \A j \in 1 .. Len(stream) : stream'[j] = stream[j]
  PROVE  /\ \A j \in 1 .. m : First(j)' <=> First(j)
         /\ FirstsUpTo(m)' = FirstsUpTo(m)
<1>1. ASSUME NEW j \in 1 .. m PROVE First(j)' <=> First(j)
  <2>1. j \in 1 .. Len(stream) /\ \A i \in 1 .. j - 1 : i \in 1 .. Len(stream)
    OBVIOUS
  <2> QED
    BY <2>1 DEF First
<1> QED
  BY <1>1 DEF FirstsUpTo

(* Its chunks go to the end of the stream, and to a slot that is free. *)
LEMMA ReceiveStep == IInv /\ Receive => IInv'
<1> SUFFICES ASSUME IInv, Receive PROVE IInv'
  OBVIOUS
<1>1. PICK r \in Nat, w \in Nat, k \in Nat, e \in Nat, d \in Nat :
        /\ r = received /\ w = written /\ k = count /\ e = Len(stream) /\ d = Done
        /\ w <= k /\ k <= r /\ r < MaxPackets /\ r < w + NUM_PACKETS /\ d <= e
        /\ Start(r) = e /\ r % NUM_PACKETS \in Slots
  BY Typed, StartIsNat, SlotInRing DEF Receive
<1>2. PICK m \in 1 .. MAX_NUM_CHUNKS : \E data \in [1 .. m -> Contents] :
        /\ packarray' =
             [packarray EXCEPT ![r % NUM_PACKETS] =
                [num_of_chunks |-> m,
                 chunk |-> [c \in ChunkNums |->
                              IF c < m THEN [@.chunk[c] EXCEPT !.data = data[c + 1],
                                                               !.sha = Sha[data[c + 1]]]
                              ELSE @.chunk[c]]]]
        /\ stream' = stream \o data
        /\ starts' = Append(starts, Len(stream) + m)
  BY <1>1 DEF Receive
<1>3. PICK data \in [1 .. m -> Contents] :
        /\ packarray' =
             [packarray EXCEPT ![r % NUM_PACKETS] =
                [num_of_chunks |-> m,
                 chunk |-> [c \in ChunkNums |->
                              IF c < m THEN [@.chunk[c] EXCEPT !.data = data[c + 1],
                                                               !.sha = Sha[data[c + 1]]]
                              ELSE @.chunk[c]]]]
        /\ stream' = stream \o data
        /\ starts' = Append(starts, e + m)
  BY <1>1, <1>2
<1>4. /\ received' = r + 1 /\ count' = k /\ written' = w
      /\ chunk_num' = chunk_num /\ chunks_map' = chunks_map
      /\ unique_chunks' = unique_chunks /\ outputs' = outputs /\ records' = records
  BY <1>1 DEF Receive, records
<1>5. m \in Nat /\ m >= 1 /\ m <= MAX_NUM_CHUNKS /\ MAX_NUM_CHUNKS \in Nat
  BY Sizes
<1>6. /\ data \in Seq(Contents) /\ Len(data) = m
      /\ stream' \in Seq(Contents) /\ Len(stream') = e + m
      /\ \A j \in 1 .. e : stream'[j] = stream[j]
      /\ \A c \in 0 .. m - 1 : stream'[e + c + 1] = data[c + 1]
  <2>1. data \in Seq(Contents) /\ Len(data) = m
    BY <1>5
  <2>2. /\ stream' \in Seq(Contents) /\ Len(stream') = e + m
        /\ \A i \in 1 .. e + m : stream'[i] = IF i <= e THEN stream[i] ELSE data[i - e]
    <3>1. stream \in Seq(Contents) /\ Len(stream) = e
      BY <1>1, Typed
    <3>2. stream' = stream \o data
      BY <1>3
    <3> QED
      BY <2>1, <3>1, <3>2, ConcatProperties
  <2>3. ASSUME NEW j \in 1 .. e PROVE stream'[j] = stream[j]
    <3>1. j \in 1 .. e + m /\ j <= e
      BY <1>5
    <3> QED
      BY <2>2, <3>1
  <2>4. ASSUME NEW c \in 0 .. m - 1 PROVE stream'[e + c + 1] = data[c + 1]
    <3> DEFINE i == e + c + 1
    <3>1. i \in 1 .. e + m /\ ~(i <= e) /\ i - e = c + 1
      BY <1>5
    <3> HIDE DEF i
    <3>2. stream'[i] = data[c + 1]
      BY <2>2, <3>1
    <3> QED
      BY <3>2 DEF i
  <2> QED
    BY <2>1, <2>2, <2>3, <2>4
<1>7. /\ starts' \in Seq(Nat) /\ Len(starts') = r + 2
      /\ \A p \in 0 .. r : Start(p)' = Start(p)
      /\ Start(r + 1)' = e + m
  <2>1. starts \in Seq(Nat) /\ Len(starts) = r + 1 /\ e + m \in Nat
    BY <1>1, <1>5, Typed
  <2>2. /\ starts' \in Seq(Nat) /\ Len(starts') = r + 2
        /\ \A i \in 1 .. r + 1 : starts'[i] = starts[i]
        /\ starts'[r + 2] = e + m
    <3> DEFINE n == e + m
    <3>1. starts' = Append(starts, n) /\ n \in Nat
      BY <1>3, <2>1
    <3> HIDE DEF n
    <3>2. starts' \in Seq(Nat) /\ Len(starts') = Len(starts) + 1
          /\ \A i \in 1 .. Len(starts) : starts'[i] = starts[i]
          /\ starts'[Len(starts) + 1] = n
      BY <2>1, <3>1, AppendProperties
    <3>3. Len(starts') = r + 2 /\ starts'[r + 2] = n
      BY <2>1, <3>2
    <3> QED
      BY <2>1, <3>2, <3>3 DEF n
  <2>3. \A p \in 0 .. r : p + 1 \in 1 .. r + 1
    OBVIOUS
  <2> QED
    BY <2>2, <2>3 DEF Start
<1>8. Done' = d
  <2>1. Start(k)' = Start(k)
    BY <1>1, <1>7
  <2> QED
    BY <1>1, <1>4, <2>1 DEF Done, Start
<1>9. \A j \in 1 .. e : (First(j)' <=> First(j)) /\ stream'[j] = stream[j]
  BY <1>1, <1>6, Extended
<1>10. \A p \in w .. r - 1 : Packet(p)' = Packet(p)
  <2> SUFFICES ASSUME NEW p \in w .. r - 1 PROVE Packet(p)' = Packet(p)
    OBVIOUS
  <2>1. p \in Nat /\ p # r /\ r - p < NUM_PACKETS /\ p - r < NUM_PACKETS
    BY <1>1, Sizes
  <2>2. p % NUM_PACKETS # r % NUM_PACKETS
    BY <2>1, SlotsDiffer
  <2>3. p % NUM_PACKETS \in Slots
    BY <2>1, SlotInRing
  <2>4. packarray \in [Slots -> SlotType]
    BY DEF IInv, TypeOK
  <2>5. packarray'[p % NUM_PACKETS] = packarray[p % NUM_PACKETS]
    BY <1>3, <2>2, <2>3, <2>4
  <2> QED
    BY <2>5 DEF Packet
<1> DEFINE chunks == packarray[r % NUM_PACKETS].chunk
           fresh  == [c \in ChunkNums |->
                        IF c < m THEN [chunks[c] EXCEPT !.data = data[c + 1],
                                                        !.sha = Sha[data[c + 1]]]
                        ELSE chunks[c]]
<1>11. /\ packarray' \in [Slots -> SlotType]
       /\ Packet(r)' = [num_of_chunks |-> m, chunk |-> fresh]
       /\ chunks \in [ChunkNums -> ChunkType]
  <2>1. packarray \in [Slots -> SlotType] /\ chunks \in [ChunkNums -> ChunkType]
    BY <1>1 DEF IInv, TypeOK, SlotType
  <2>2. ASSUME NEW c \in ChunkNums PROVE fresh[c] \in ChunkType
    <3>1. CASE c < m
      <4>1. data[c + 1] \in Contents
        BY <1>5, <3>1 DEF ChunkNums
      <4>2. Sha[data[c + 1]] \in Digests
        BY <4>1 DEF Digests
      <4> QED
        BY <2>1, <3>1, <4>1, <4>2 DEF ChunkType
    <3>2. CASE ~(c < m)
      BY <2>1, <3>2
    <3> QED
      BY <3>1, <3>2
  <2>3. packarray' = [packarray EXCEPT ![r % NUM_PACKETS] = [num_of_chunks |-> m, chunk |-> fresh]]
    BY <1>3
  <2>4. fresh \in [ChunkNums -> ChunkType]
    BY <2>2
  <2> HIDE DEF fresh
  <2>5. [num_of_chunks |-> m, chunk |-> fresh] \in SlotType
    BY <2>4, <1>5 DEF SlotType
  <2> HIDE DEF chunks
  <2> QED
    BY <1>1, <2>1, <2>3, <2>5 DEF Packet
<1>12. ASSUME NEW c \in 0 .. m - 1
       PROVE  fresh[c].data = data[c + 1] /\ fresh[c].sha = Sha[data[c + 1]]
  <2>1. c \in ChunkNums /\ c < m
    BY <1>5 DEF ChunkNums
  <2> QED
    BY <1>11, <2>1 DEF ChunkType
<1> HIDE DEF fresh, chunks
<1>13. TypeOK'
  <2>1. /\ received' \in 0 .. MaxPackets /\ count' \in 0 .. received' /\ written' \in 0 .. count'
        /\ received' <= written' + NUM_PACKETS
    BY <1>1, <1>4, Sizes
  <2>2. Len(starts') = received' + 1
    BY <1>1, <1>4, <1>7
  <2>3. chunk_num' \in 0 .. MAX_NUM_CHUNKS /\ unique_chunks' \in Nat
        /\ outputs' \in Seq(Seq(RecordType)) /\ Len(outputs') = written'
    BY <1>1, <1>4 DEF IInv, TypeOK
  <2> QED
    BY <1>6, <1>7, <1>11, <2>1, <2>2, <2>3 DEF TypeOK
<1>14. Places'
  <2>1. Start(0)' = 0
    BY <1>1, <1>7 DEF IInv, Places
  <2>2. ASSUME NEW p \in 0 .. r + 1, NEW q \in 0 .. r + 1, p <= q
        PROVE  Start(p)' <= Start(q)'
    <3>1. CASE q \in 0 .. r
      <4>1. p \in 0 .. r /\ Start(p) <= Start(q)
        BY <1>1, <2>2, <3>1 DEF IInv, Places
      <4> QED
        BY <1>7, <3>1, <4>1
    <3>2. CASE q = r + 1
      <4>1. CASE p = r + 1
        BY <1>5, <1>7, <3>2, <4>1
      <4>2. CASE p \in 0 .. r
        <5>1. Start(p) <= e /\ Start(p) \in Nat
          BY <1>1, <4>2, StartIsNat DEF IInv, Places
        <5> QED
          BY <1>5, <1>7, <3>2, <4>2, <5>1
      <4> QED
        BY <4>1, <4>2
    <3> QED
      BY <3>1, <3>2
  <2>3. ASSUME NEW p \in w .. r
        PROVE  Start(p)' + Packet(p)'.num_of_chunks = Start(p + 1)'
    <3>1. CASE p = r
      <4>1. Packet(r)'.num_of_chunks = m
        BY <1>11
      <4>2. Start(r)' = e
        BY <1>1, <1>7
      <4> QED
        BY <1>7, <3>1, <4>1, <4>2
    <3>2. CASE p \in w .. r - 1
      <4>1. p \in 0 .. r /\ p + 1 \in 0 .. r
        BY <3>2
      <4>2. Start(p)' = Start(p) /\ Start(p + 1)' = Start(p + 1)
        BY <1>7, <4>1
      <4>3. Start(p) + Packet(p).num_of_chunks = Start(p + 1)
        BY <1>1, <3>2 DEF IInv, Places
      <4> QED
        BY <1>10, <3>2, <4>2, <4>3
    <3> QED
      BY <3>1, <3>2
  <2>4. chunk_num <= Packet(k)'.num_of_chunks
    <3>1. CASE k < r
      <4>1. k \in w .. r - 1 /\ chunk_num <= Packet(k).num_of_chunks
        BY <1>1, <3>1 DEF IInv, Places
      <4> QED
        BY <1>10, <4>1
    <3>2. CASE k = r
      <4>1. Packet(k)'.num_of_chunks = m
        BY <1>11, <3>2
      <4> QED
        BY <1>1, <1>5, <3>2, <4>1 DEF IInv, Places
    <3> QED
      BY <1>1, <3>1, <3>2
  <2>5. Len(records) = Start(w)'
    BY <1>1, <1>7 DEF IInv, Places
  <2>6. Len(stream') <= MAX_NUM_CHUNKS * (r + 1)
    <3> DEFINE x == MAX_NUM_CHUNKS * r
    <3>1. MAX_NUM_CHUNKS * (r + 1) = x + MAX_NUM_CHUNKS /\ x \in Nat
      BY <1>5, SMT
    <3>2. e <= x
      BY <1>1 DEF IInv, Places
    <3> HIDE DEF x
    <3> QED
      BY <1>5, <1>6, <3>1, <3>2
  <2>7. (r + 1) - 1 = r /\ k < r + 1 /\ k # r + 1
    BY <1>1
  <2>8. Start(r + 1)' = Len(stream')
    BY <1>6, <1>7
  <2> DEFINE bound == MAX_NUM_CHUNKS * (r + 1)
  <2>9. Len(stream') <= bound
    BY <2>6
  <2>10. bound = MAX_NUM_CHUNKS * received'
    BY <1>4
  <2> HIDE DEF bound
  <2>11. Start(received') = Start(r + 1) /\ Start(count') = Start(k) /\ Start(written') = Start(w)
         /\ Packet(count') = Packet(k)
    BY <1>4
  <2> QED
    BY <1>4, <2>1, <2>2, <2>3, <2>4, <2>5, <2>7, <2>8, <2>9, <2>10 DEF Places, Start, Packet
<1>15. Map'
  <2>1. \A j \in 1 .. d : j \in 1 .. e /\ j - 1 \in Nat /\ j - 1 <= e
    BY <1>1
  <2>2. FirstsUpTo(d)' = FirstsUpTo(d)
    BY <1>1, <1>6, Extended
  <2>3. DOMAIN chunks_map = {Sha[stream'[j]] : j \in 1 .. d}
    <3>1. DOMAIN chunks_map = {Sha[stream[j]] : j \in 1 .. d}
      BY <1>1 DEF IInv, Map
    <3> QED
      BY <1>9, <2>1, <3>1
  <2>4. unique_chunks = Cardinality(FirstsUpTo(d)) /\ unique_chunks <= d
    BY <1>1 DEF IInv, Map
  <2>5. ASSUME NEW j \in 1 .. d PROVE NumberedAt(j)'
    <3>1. NumberedAt(j)
      BY <1>1 DEF IInv, Map
    <3>2. FirstsUpTo(j - 1)' = FirstsUpTo(j - 1)
      BY <1>1, <1>6, <2>1, Extended
    <3>3. PICK i \in 1 .. j : First(i) /\ stream[i] = stream[j]
      BY <3>1 DEF NumberedAt
    <3>4. i \in 1 .. e /\ j \in 1 .. e
      BY <1>1
    <3>5. First(i)' /\ stream'[i] = stream'[j]
      BY <1>9, <3>3, <3>4
    <3>6. stream'[j] = stream[j] /\ (First(j)' <=> First(j))
      BY <1>9, <3>4
    <3>7. Number(stream[j])' = Number(stream[j])
      BY <1>4, <3>6 DEF Number
    <3> QED
      BY <1>4, <3>1, <3>2, <3>5, <3>6, <3>7 DEF NumberedAt
  <2> QED
    BY <1>4, <1>8, <2>2, <2>3, <2>4, <2>5 DEF Map
<1>16. ASSUME NEW p \in w .. r, NEW c \in 0 .. Packet(p)'.num_of_chunks - 1
       PROVE  /\ Packet(p)'.chunk[c].data = stream'[Start(p)' + c + 1]
              /\ Packet(p)'.chunk[c].sha = Sha[stream'[Start(p)' + c + 1]]
              /\ Start(p)' + c + 1 <= d => Matched(Packet(p).chunk[c], Start(p) + c + 1)'
  <2>1. CASE p \in w .. r - 1
    <3>1. PICK j \in 1 .. e : j = Start(p) + c + 1 /\ j = Start(p)' + c + 1 /\ c \in ChunkNums
      <4>1. c \in 0 .. Packet(p).num_of_chunks - 1
        BY <1>10, <2>1
      <4>2. p \in 0 .. r
        BY <2>1
      <4> QED
        BY <1>1, <1>7, <2>1, <4>1, <4>2, OnItsWay
    <3>2. /\ Packet(p).chunk[c].data = stream[j] /\ Packet(p).chunk[c].sha = Sha[stream[j]]
          /\ j <= d => Matched(Packet(p).chunk[c], j)
      BY <1>1, <1>10, <2>1, <3>1 DEF IInv, InSlots
    <3>3. Packet(p)' = Packet(p) /\ stream'[j] = stream[j] /\ (First(j)' <=> First(j))
      BY <1>9, <1>10, <2>1
    <3>4. Number(stream[j])' = Number(stream[j])
      BY <1>4, <3>3 DEF Number
    <3>5. Matched(Packet(p).chunk[c], j)' <=> Matched(Packet(p).chunk[c], j)
      <4>1. PICK chunk : chunk = Packet(p).chunk[c] /\ chunk = Packet(p)'.chunk[c]
        BY <3>3
      <4>2. Matched(chunk, j)' <=> Matched(chunk, j)
        BY <3>3, <3>4 DEF Matched
      <4> QED
        BY <4>1, <4>2
    <3> QED
      BY <3>1, <3>2, <3>3, <3>5
  <2>2. CASE p = r
    <3>1. Packet(p)' = [num_of_chunks |-> m, chunk |-> fresh] /\ c \in 0 .. m - 1
      BY <1>11, <2>2
    <3>2. Start(p)' = e
      BY <1>1, <1>7, <2>2
    <3>3. ~(e + c + 1 <= d)
      BY <1>1, <3>1
    <3> QED
      BY <1>6, <1>12, <3>1, <3>2, <3>3
  <2> QED
    BY <2>1, <2>2
<1>17. InSlots'
  <2>1. (r + 1) - 1 = r
    OBVIOUS
  <2> QED
    BY <1>4, <1>8, <1>16, <2>1 DEF InSlots
<1>18. Recorded'
  <2> SUFFICES ASSUME NEW j \in 1 .. Len(records) PROVE RecordedAt(j)'
    BY <1>4 DEF Recorded
  <2>1. j \in 1 .. e
    BY <1>1, StartIsNat, Typed
  <2>2. stream'[j] = stream[j] /\ (First(j)' <=> First(j))
    BY <1>9, <2>1
  <2>3. Number(stream[j])' = Number(stream[j])
    BY <1>4, <2>2 DEF Number
  <2>4. RecordedAt(j)
    BY DEF IInv, Recorded
  <2> QED
    BY <1>4, <2>2, <2>3, <2>4 DEF RecordedAt
<1> QED
  BY <1>13, <1>14, <1>15, <1>17, <1>18 DEF IInv

-----------------------------------------------------------------------------
(* A chunk is matched *)

(* The chunk that the dedup thread is at is the stream's next. *)
LEMMA AtNext ==
  ASSUME IInv, AtChunk
  PROVE  /\ count \in written .. received - 1 /\ chunk_num \in ChunkNums
         /\ Done + 1 \in 1 .. Len(stream) /\ stream[Done + 1] \in Contents
         /\ Current \in ChunkType
         /\ Current.data = stream[Done + 1] /\ Current.sha = Sha[stream[Done + 1]]
<1>1. count \in written .. received - 1 /\ chunk_num \in 0 .. Packet(count).num_of_chunks - 1
  <2>1. count < received /\ chunk_num < Packet(count).num_of_chunks
    BY DEF AtChunk, Pointed, Packet
  <2>2. count \in written .. received - 1
    BY <2>1, Typed
  <2>3. Packet(count).num_of_chunks \in Nat
    BY <2>2, OnItsWay
  <2>4. chunk_num \in Nat
    BY Typed
  <2> QED
    BY <2>1, <2>2, <2>3, <2>4
<1>2. chunk_num \in ChunkNums /\ Start(count) + chunk_num + 1 \in 1 .. Len(stream)
      /\ Packet(count) \in SlotType
  BY <1>1, OnItsWay
<1>3. Current = Packet(count).chunk[chunk_num] /\ Done + 1 = Start(count) + chunk_num + 1
  BY DEF Current, Pointed, Packet, Done
<1>4. Current \in ChunkType
  BY <1>2, <1>3 DEF SlotType
<1>5. Current.data = stream[Done + 1] /\ Current.sha = Sha[stream[Done + 1]]
  BY <1>1, <1>3 DEF IInv, InSlots
<1>6. stream[Done + 1] \in Contents
  BY <1>2, <1>3, Typed, ElementOfSeq
<1> QED
  BY <1>1, <1>2, <1>3, <1>4, <1>5, <1>6

(* One place further there is at most one first more. *)
LEMMA FirstsNext ==
  ASSUME NEW n \in Nat
  PROVE  /\ IsFiniteSet(FirstsUpTo(n)) /\ Cardinality(FirstsUpTo(n)) \in Nat
         /\ First(n + 1) => Cardinality(FirstsUpTo(n + 1)) = Cardinality(FirstsUpTo(n)) + 1
         /\ ~First(n + 1) => FirstsUpTo(n + 1) = FirstsUpTo(n)
<1>1. IsFiniteSet(FirstsUpTo(n)) /\ Cardinality(FirstsUpTo(n)) \in Nat
  <2>1. FirstsUpTo(n) \subseteq 1 .. n
    BY DEF FirstsUpTo
  <2>2. IsFiniteSet(1 .. n)
    BY FS_Interval
  <2> QED
    BY <2>1, <2>2, FS_Subset, FS_CardinalityType
<1>2. ASSUME First(n + 1)
      PROVE  Cardinality(FirstsUpTo(n + 1)) = Cardinality(FirstsUpTo(n)) + 1
  <2>1. FirstsUpTo(n + 1) = FirstsUpTo(n) \cup {n + 1}
    BY <1>2 DEF FirstsUpTo
  <2>2. n + 1 \notin FirstsUpTo(n)
    BY DEF FirstsUpTo
  <2> QED
    BY <1>1, <2>1, <2>2, FS_AddElement
<1>3. ASSUME ~First(n + 1) PROVE FirstsUpTo(n + 1) = FirstsUpTo(n)
  BY <1>3 DEF FirstsUpTo
<1> QED
  BY <1>1, <1>2, <1>3

(* A chunk that is matched goes back to its place, and all others stay. *)
LEMMA Placed ==
  ASSUME IInv, AtChunk, NEW chunk \in ChunkType, Set(chunk),
         NEW d \in Nat, d = Done,
         chunk.data = stream[d + 1], chunk.sha = Sha[stream[d + 1]],
         chunk_num' = chunk_num + 1,
         UNCHANGED <<received, count, written, outputs, history>>,
         unique_chunks' \in Nat, Map',
         \A j \in 1 .. d : Number(stream[j])' = Number(stream[j]),
         Matched(chunk, d + 1)'
  PROVE  IInv'
<1>1. PICK r \in Nat, w \in Nat, k \in Nat, x \in Nat :
        /\ r = received /\ w = written /\ k = count /\ x = chunk_num
        /\ k \in w .. r - 1 /\ x \in ChunkNums /\ d = Start(k) + x
        /\ k % NUM_PACKETS \in Slots
        /\ x < Packet(k).num_of_chunks /\ r - w <= NUM_PACKETS
  <2>1. received - written <= NUM_PACKETS
    BY InFlight
  <2>2. chunk_num < Packet(count).num_of_chunks
    BY DEF AtChunk, Pointed, Packet
  <2>3. d = Start(count) + chunk_num
    BY DEF Done
  <2> QED
    BY <2>1, <2>2, <2>3, Typed, AtNext, SlotInRing
<1>2. /\ received' = r /\ written' = w /\ count' = k /\ chunk_num' = x + 1
      /\ outputs' = outputs /\ records' = records /\ stream' = stream /\ starts' = starts
  BY <1>1 DEF history, records
<1>3. packarray \in [Slots -> SlotType]
  BY DEF IInv, TypeOK
<1> DEFINE old == packarray[k % NUM_PACKETS]
           new == [old EXCEPT !.chunk = [old.chunk EXCEPT ![x] = chunk]]
<1>4. packarray' = [packarray EXCEPT ![k % NUM_PACKETS] = new]
  BY <1>1, <1>3 DEF Set, SlotType
<1>5. /\ new \in SlotType /\ new.num_of_chunks = old.num_of_chunks
      /\ new.chunk[x] = chunk
      /\ \A c \in ChunkNums : c # x => new.chunk[c] = old.chunk[c]
  BY <1>1, <1>3 DEF SlotType
<1> HIDE DEF old, new
<1>6. /\ packarray' \in [Slots -> SlotType]
      /\ Packet(k)' = new /\ Packet(k) = old
      /\ \A s \in Slots : s # k % NUM_PACKETS => packarray'[s] = packarray[s]
  BY <1>1, <1>3, <1>4, <1>5 DEF Packet, old
<1>7. ASSUME NEW p \in w .. r - 1, p # k PROVE Packet(p)' = Packet(p)
  <2>1. p \in Nat /\ p - k < NUM_PACKETS /\ k - p < NUM_PACKETS
    BY <1>1, Sizes
  <2>2. p % NUM_PACKETS \in Slots /\ p % NUM_PACKETS # k % NUM_PACKETS
    BY <1>7, <2>1, SlotsDiffer, SlotInRing
  <2> QED
    BY <1>6, <2>2 DEF Packet
<1>8. ASSUME NEW p \in w .. r - 1 PROVE Packet(p)'.num_of_chunks = Packet(p).num_of_chunks
  BY <1>5, <1>6, <1>7
<1>9. /\ \A p : Start(p)' = Start(p)
      /\ \A j : First(j)' <=> First(j)
  BY <1>2 DEF Start, First
<1>10. Done' = d + 1
  <2>1. Start(k) \in Nat
    BY <1>1, OnItsWay
  <2> DEFINE start == Start(k)
  <2>2. Done' = start + (x + 1) /\ d = start + x /\ start \in Nat
    BY <1>1, <1>2, <2>1 DEF Done, Start
  <2> HIDE DEF start
  <2> QED
    BY <2>2
<1>11. TypeOK'
  <2>1. chunk_num' \in 0 .. MAX_NUM_CHUNKS
    BY <1>1, <1>2, Sizes DEF ChunkNums
  <2> QED
    BY <1>1, <1>2, <1>6, <2>1 DEF IInv, TypeOK
<1>12. Places'
  <2>1. ASSUME NEW p \in w .. r - 1
        PROVE  Start(p)' + Packet(p)'.num_of_chunks = Start(p + 1)'
    BY <1>1, <1>8, <1>9 DEF IInv, Places
  <2>2. x + 1 <= Packet(k)'.num_of_chunks
    <3>1. Packet(k).num_of_chunks \in Nat
      BY <1>1, OnItsWay
    <3> QED
      BY <1>1, <1>8, <3>1
  <2>3. k # r
    BY <1>1
  <2>4. /\ Start(0)' = 0 /\ Start(r)' = Len(stream) /\ Len(records) = Start(w)'
        /\ \A p, q \in 0 .. r : p <= q => Start(p)' <= Start(q)'
        /\ Len(stream) <= MAX_NUM_CHUNKS * r
    BY <1>1, <1>9 DEF IInv, Places
  <2> QED
    BY <1>2, <2>1, <2>2, <2>3, <2>4 DEF Places, Start, Packet
<1>13. ASSUME NEW p \in w .. r - 1, NEW c \in 0 .. Packet(p).num_of_chunks - 1
       PROVE  /\ Packet(p)'.chunk[c].data = stream[Start(p) + c + 1]
              /\ Packet(p)'.chunk[c].sha = Sha[stream[Start(p) + c + 1]]
              /\ Start(p) + c + 1 <= d + 1 => Matched(Packet(p).chunk[c], Start(p) + c + 1)'
  <2>1. PICK j \in Nat : j = Start(p) + c + 1 /\ c \in ChunkNums
    <3>1. c \in ChunkNums /\ Start(p) + c + 1 \in 1 .. Len(stream)
      BY <1>1, OnItsWay
    <3> QED
      BY <3>1
  <2>2. CASE p = k /\ c = x
    <3>1. Packet(p)'.chunk[c] = chunk /\ j = d + 1
      BY <1>1, <1>5, <1>6, <2>1, <2>2
    <3>2. Matched(chunk, j)'
      BY <3>1
    <3>3. Matched(Packet(p).chunk[c], Start(p) + c + 1)'
      BY <1>9, <2>1, <3>1, <3>2 DEF Matched
    <3> QED
      BY <2>1, <3>1, <3>3
  <2>3. CASE p # k \/ c # x
    <3>1. PICK ch : ch = Packet(p).chunk[c] /\ ch = Packet(p)'.chunk[c]
      BY <1>5, <1>6, <1>7, <2>1, <2>3
    <3>2. /\ ch.data = stream[j] /\ ch.sha = Sha[stream[j]]
          /\ j <= d => Matched(ch, j)
      BY <1>1, <2>1, <3>1 DEF IInv, InSlots
    <3>3. j # d + 1 /\ j >= 1
      <4>1. count < received /\ chunk_num < Packet(count).num_of_chunks
        BY <1>1
      <4>2. j # d + 1
        BY <1>1, <2>1, <2>3, <4>1, PlacesDiffer
      <4>3. Start(p) \in Nat /\ c \in Nat
        BY <1>1, OnItsWay DEF ChunkNums
      <4> QED
        BY <2>1, <4>2, <4>3
    <3>4. ASSUME j <= d + 1 PROVE Matched(ch, j)'
      <4>1. j \in 1 .. d /\ Matched(ch, j)
        BY <3>2, <3>3, <3>4
      <4>2. Number(stream[j])' = Number(stream[j])
        BY <4>1
      <4> QED
        BY <1>9, <4>1, <4>2 DEF Matched
    <3>5. ASSUME j <= d + 1 PROVE Matched(Packet(p).chunk[c], Start(p) + c + 1)'
      BY <1>9, <2>1, <3>1, <3>4, <3>5 DEF Matched
    <3> QED
      BY <2>1, <3>1, <3>2, <3>5
  <2> QED
    BY <2>2, <2>3
<1>14. InSlots'
  BY <1>2, <1>8, <1>9, <1>10, <1>13 DEF InSlots
<1>15. Recorded'
  <2> SUFFICES ASSUME NEW j \in 1 .. Len(records) PROVE RecordedAt(j)'
    BY <1>2 DEF Recorded
  <2>1. j \in 1 .. d /\ RecordedAt(j)
    <3>1. Len(records) <= Done /\ Len(records) \in Nat
      BY StartIsNat, Typed
    <3>2. RecordedAt(j)
      BY DEF IInv, Recorded
    <3> QED
      BY <3>1, <3>2
  <2>2. Number(stream[j])' = Number(stream[j])
    BY <2>1
  <2> QED
    BY <1>2, <1>9, <2>1, <2>2 DEF RecordedAt
<1> QED
  BY <1>11, <1>12, <1>14, <1>15 DEF IInv

(* A header is a number. *)
LEMMA HeadersAreNumbers ==
  /\ \A n \in Nat : HeaderOfDuplicate(n) \in Nat
  /\ \A c \in Contents : HeaderOfUnique(CodedSize[c]) \in Nat
<1>1. ASSUME NEW n \in Nat PROVE (1 + 2 * n) % UINT_RANGE \in Nat /\ (2 * n) % UINT_RANGE \in Nat
  <2>1. 1 + 2 * n \in Nat /\ 2 * n \in Nat
    OBVIOUS
  <2> QED
    BY <2>1, Sizes, DivMod
<1>2. \A c \in Contents : CodedSize[c] \in Nat
  BY SizeAssumption
<1> QED
  BY <1>1, <1>2 DEF HeaderOfDuplicate, HeaderOfUnique

(* A digest not seen before is a content not seen before: it gets a number of its own. *)
LEMMA UniqueStep == IInv /\ MatchUnique => IInv'
<1> SUFFICES ASSUME IInv, MatchUnique PROVE IInv'
  OBVIOUS
<1>1. PICK d \in Nat, u \in Nat,
           chunk \in {[Current EXCEPT !.num = unique_chunks, !.is_unique = TRUE]} :
        /\ d = Done /\ u = unique_chunks
        /\ chunk = [Current EXCEPT !.num = unique_chunks, !.is_unique = TRUE]
  BY StartIsNat, Typed
<1>2. /\ AtChunk /\ Set(chunk) /\ chunk_num' = chunk_num + 1
      /\ UNCHANGED <<received, count, written, outputs, history>>
      /\ unique_chunks' = u + 1
  BY <1>1 DEF MatchUnique, NextUnique
<1>3. /\ d + 1 \in 1 .. Len(stream) /\ stream[d + 1] \in Contents /\ Current \in ChunkType
      /\ Current.data = stream[d + 1] /\ Current.sha = Sha[stream[d + 1]]
  BY <1>1, <1>2, AtNext
<1>4. /\ chunk \in ChunkType /\ chunk.data = stream[d + 1] /\ chunk.sha = Sha[stream[d + 1]]
      /\ chunk.is_unique = TRUE
  BY <1>1, <1>3 DEF ChunkType, Numbers
<1> DEFINE new == Sha[stream[d + 1]]
<1>5. /\ new \notin DOMAIN chunks_map
      /\ chunks_map' = [h \in DOMAIN chunks_map \cup {new} |->
                          IF h = new THEN u ELSE chunks_map[h]]
      /\ stream' = stream
  BY <1>1, <1>3 DEF MatchUnique, Known, history
<1>6. /\ DOMAIN chunks_map = {Sha[stream[j]] : j \in 1 .. d}
      /\ u = Cardinality(FirstsUpTo(d)) /\ u <= d
      /\ \A j \in 1 .. d : NumberedAt(j)
  BY <1>1 DEF IInv, Map
<1>7. First(d + 1)
  <2>1. \A i \in 1 .. d : Sha[stream[i]] # new
    BY <1>5, <1>6
  <2>2. (d + 1) - 1 = d
    OBVIOUS
  <2> QED
    BY <2>1, <2>2 DEF First
<1> HIDE DEF new
<1>8. /\ \A h \in DOMAIN chunks_map : chunks_map'[h] = chunks_map[h]
      /\ chunks_map'[new] = u /\ DOMAIN chunks_map' = DOMAIN chunks_map \cup {new}
  BY <1>5
<1>9. /\ \A j \in 1 .. d : Number(stream[j])' = Number(stream[j])
      /\ Number(stream[d + 1])' = u
  <2>1. \A j \in 1 .. d : Sha[stream[j]] \in DOMAIN chunks_map
    BY <1>6
  <2> QED
    BY <1>5, <1>8, <2>1 DEF Number, new
<1>10. /\ \A j : First(j)' <=> First(j)
       /\ \A n : FirstsUpTo(n)' = FirstsUpTo(n)
  BY <1>5 DEF FirstsUpTo, First
<1>11. Done' = d + 1
  <2>1. Start(count) \in Nat
    BY StartIsNat, Typed
  <2> DEFINE start == Start(count)
  <2>2. Done' = start + (chunk_num + 1) /\ d = start + chunk_num /\ start \in Nat
        /\ chunk_num \in Nat
    BY <1>1, <1>2, <2>1, Typed DEF Done, Start, history
  <2> HIDE DEF start
  <2> QED
    BY <2>2
<1>12. Map'
  <2>1. DOMAIN chunks_map' = {Sha[stream[j]] : j \in 1 .. d + 1}
    <3>1. 1 .. d + 1 = (1 .. d) \cup {d + 1}
      OBVIOUS
    <3> QED
      BY <1>6, <1>8, <3>1 DEF new
  <2>2. u + 1 = Cardinality(FirstsUpTo(d + 1)) /\ u + 1 <= d + 1
    BY <1>6, <1>7, FirstsNext
  <2>3. ASSUME NEW j \in 1 .. d PROVE NumberedAt(j)'
    <3>1. /\ Number(stream[j]) \in 0 .. u - 1
          /\ First(j) => Number(stream[j]) = Cardinality(FirstsUpTo(j - 1))
          /\ \E i \in 1 .. j : First(i) /\ stream[i] = stream[j]
      BY <1>1, <1>6 DEF NumberedAt
    <3>2. Number(stream[j])' = Number(stream[j])
      BY <1>9
    <3>3. Number(stream[j])' \in 0 .. (u + 1) - 1
      BY <3>1, <3>2
    <3> QED
      BY <1>2, <1>5, <1>10, <3>1, <3>2, <3>3 DEF NumberedAt
  <2>4. NumberedAt(d + 1)'
    <3>1. Number(stream[d + 1])' \in 0 .. (u + 1) - 1
      BY <1>9
    <3>2. (d + 1) - 1 = d /\ d + 1 \in 1 .. d + 1
      OBVIOUS
    <3> QED
      BY <1>2, <1>5, <1>6, <1>7, <1>9, <1>10, <3>1, <3>2 DEF NumberedAt
  <2>5. \A j \in 1 .. d + 1 : j \in 1 .. d \/ j = d + 1
    OBVIOUS
  <2>6. \A j \in 1 .. d + 1 : NumberedAt(j)'
    BY <2>3, <2>4, <2>5
  <2> QED
    BY <1>2, <1>5, <1>10, <1>11, <2>1, <2>2, <2>6 DEF Map
<1>13. Matched(chunk, d + 1)'
  BY <1>4, <1>7, <1>10 DEF Matched
<1>14. unique_chunks' \in Nat
  BY <1>2
<1> QED
  BY <1>1, <1>2, <1>4, <1>9, <1>12, <1>13, <1>14, Placed

(* A digest seen before is a content seen before: the chunk refers to its number. *)
LEMMA DuplicateStep == IInv /\ MatchDuplicate => IInv'
<1> SUFFICES ASSUME IInv, MatchDuplicate PROVE IInv'
  OBVIOUS
<1>1. PICK d \in Nat, u \in Nat, chunk \in {Duplicate} :
        d = Done /\ u = unique_chunks /\ chunk = Duplicate
  BY StartIsNat, Typed
<1>2. /\ AtChunk /\ Set(chunk) /\ chunk_num' = chunk_num + 1
      /\ UNCHANGED <<received, count, written, outputs, history>>
      /\ unique_chunks' = u /\ chunks_map' = chunks_map /\ stream' = stream
  BY <1>1 DEF MatchDuplicate, history
<1>3. /\ d + 1 \in 1 .. Len(stream) /\ stream[d + 1] \in Contents /\ Current \in ChunkType
      /\ Current.data = stream[d + 1] /\ Current.sha = Sha[stream[d + 1]]
  BY <1>1, <1>2, AtNext
<1>4. /\ DOMAIN chunks_map = {Sha[stream[j]] : j \in 1 .. d}
      /\ u = Cardinality(FirstsUpTo(d)) /\ u <= d
      /\ \A j \in 1 .. d : NumberedAt(j)
  BY <1>1 DEF IInv, Map
<1>5. PICK b \in 1 .. d : stream[b] = stream[d + 1]
  <2>1. Sha[stream[d + 1]] \in DOMAIN chunks_map
    BY <1>3 DEF MatchDuplicate, Known
  <2>2. PICK b \in 1 .. d : Sha[stream[b]] = Sha[stream[d + 1]]
    BY <1>4, <2>1
  <2>3. stream[b] \in Contents
    <3>1. b \in 1 .. Len(stream)
      BY <1>3
    <3> QED
      BY <3>1, Typed, ElementOfSeq
  <2> QED
    BY <1>3, <2>2, <2>3, ShaAssumption
<1>6. ~First(d + 1)
  <2>1. (d + 1) - 1 = d
    OBVIOUS
  <2> QED
    BY <1>5, <2>1 DEF First
<1>7. /\ Number(stream[d + 1]) \in 0 .. u - 1
      /\ \E i \in 1 .. d + 1 : First(i) /\ stream[i] = stream[d + 1]
  <2>1. NumberedAt(b)
    BY <1>4
  <2>2. PICK i \in 1 .. b : First(i) /\ stream[i] = stream[b]
    BY <2>1 DEF NumberedAt
  <2>3. i \in 1 .. d + 1
    OBVIOUS
  <2> QED
    BY <1>1, <1>5, <2>1, <2>2, <2>3 DEF NumberedAt
<1>8. /\ chunk = [Current EXCEPT !.header = HeaderOfDuplicate(Number(stream[d + 1])),
                                 !.is_unique = FALSE]
      /\ HeaderOfDuplicate(Number(stream[d + 1])) \in Nat
  <2>1. Number(stream[d + 1]) \in Nat
    BY <1>7
  <2> QED
    BY <1>1, <1>3, <2>1, HeadersAreNumbers DEF Duplicate, Number
<1>9. /\ chunk \in ChunkType /\ chunk.data = stream[d + 1] /\ chunk.sha = Sha[stream[d + 1]]
      /\ chunk.is_unique = FALSE
      /\ chunk.header = HeaderOfDuplicate(Number(stream[d + 1]))
  BY <1>3, <1>8 DEF ChunkType, Numbers
<1>10. /\ \A j : First(j)' <=> First(j)
       /\ \A n : FirstsUpTo(n)' = FirstsUpTo(n)
       /\ \A j : Number(stream[j])' = Number(stream[j])
  BY <1>2 DEF FirstsUpTo, First, Number
<1>11. Done' = d + 1
  <2>1. Start(count) \in Nat
    BY StartIsNat, Typed
  <2> DEFINE start == Start(count)
  <2>2. Done' = start + (chunk_num + 1) /\ d = start + chunk_num /\ start \in Nat
        /\ chunk_num \in Nat
    BY <1>1, <1>2, <2>1, Typed DEF Done, Start, history
  <2> HIDE DEF start
  <2> QED
    BY <2>2
<1>12. Map'
  <2>1. DOMAIN chunks_map = {Sha[stream[j]] : j \in 1 .. d + 1}
    <3>1. 1 .. d + 1 = (1 .. d) \cup {d + 1}
      OBVIOUS
    <3> QED
      BY <1>4, <1>5, <3>1
  <2>2. u = Cardinality(FirstsUpTo(d + 1)) /\ u <= d + 1
    BY <1>4, <1>6, FirstsNext
  <2>3. ASSUME NEW j \in 1 .. d + 1 PROVE NumberedAt(j)
    <3>1. CASE j \in 1 .. d
      BY <1>4, <3>1
    <3>2. CASE j = d + 1
      BY <1>1, <1>6, <1>7, <3>2 DEF NumberedAt
    <3> QED
      BY <3>1, <3>2
  <2>4. ASSUME NEW j \in 1 .. d + 1 PROVE NumberedAt(j)'
    BY <1>1, <1>2, <1>10, <2>3 DEF NumberedAt
  <2> QED
    BY <1>2, <1>10, <1>11, <2>1, <2>2, <2>4 DEF Map
<1>13. Matched(chunk, d + 1)'
  BY <1>6, <1>9, <1>10 DEF Matched
<1>14. unique_chunks' \in Nat
  BY <1>2
<1> QED
  BY <1>1, <1>2, <1>9, <1>10, <1>12, <1>13, <1>14, Placed

(* The dedup thread goes to the next packet, whose chunks follow this one's. *)
LEMMA EndsStep == IInv /\ MatchEnds => IInv'
<1> SUFFICES ASSUME IInv, MatchEnds PROVE IInv'
  OBVIOUS
<1>1. PICK r \in Nat, w \in Nat, k \in Nat, d \in Nat :
        /\ r = received /\ w = written /\ k = count /\ d = Done
        /\ k \in w .. r - 1 /\ chunk_num = Packet(k).num_of_chunks /\ d = Start(k) + chunk_num
  <2>1. count \in written .. received - 1 /\ chunk_num = Packet(count).num_of_chunks
    BY Typed DEF MatchEnds, Pointed, Packet
  <2>2. Done = Start(count) + chunk_num
    BY DEF Done
  <2> QED
    BY <2>1, <2>2, Typed, StartIsNat
<1>2. /\ received' = r /\ written' = w /\ count' = k + 1 /\ chunk_num' = 0
      /\ outputs' = outputs /\ records' = records /\ stream' = stream /\ starts' = starts
      /\ packarray' = packarray /\ chunks_map' = chunks_map /\ unique_chunks' = unique_chunks
  BY <1>1 DEF MatchEnds, history, records
<1>3. Start(k + 1) = d /\ d \in Nat
  BY <1>1, OnItsWay
<1>4. Done' = d
  <2>1. Done' = Start(k + 1) + 0
    BY <1>2 DEF Done, Start
  <2> QED
    BY <1>3, <2>1
<1>5. /\ \A p : Start(p)' = Start(p) /\ Packet(p)' = Packet(p)
      /\ \A j : (First(j)' <=> First(j)) /\ Number(stream[j])' = Number(stream[j])
      /\ \A n : FirstsUpTo(n)' = FirstsUpTo(n)
  BY <1>2 DEF Start, Packet, First, FirstsUpTo, Number
<1>6. TypeOK'
  <2>1. /\ received' \in 0 .. MaxPackets /\ count' \in 0 .. received' /\ written' \in 0 .. count'
        /\ received' <= written' + NUM_PACKETS /\ chunk_num' \in 0 .. MAX_NUM_CHUNKS
    BY <1>1, <1>2, Typed, Sizes
  <2> QED
    BY <1>2, <1>1, <2>1 DEF IInv, TypeOK
<1>7. Places'
  <2>1. k + 1 < r => 0 <= Packet(k + 1).num_of_chunks
    <3> SUFFICES ASSUME k + 1 < r PROVE 0 <= Packet(k + 1).num_of_chunks
      OBVIOUS
    <3>1. k + 1 \in written .. received - 1
      BY <1>1
    <3>2. Packet(k + 1).num_of_chunks \in Nat
      BY <3>1, OnItsWay
    <3> QED
      BY <3>2
  <2>2. /\ Start(0) = 0 /\ Start(r) = Len(stream) /\ Len(records) = Start(w)
        /\ \A p, q \in 0 .. r : p <= q => Start(p) <= Start(q)
        /\ \A p \in w .. r - 1 : Start(p) + Packet(p).num_of_chunks = Start(p + 1)
        /\ Len(stream) <= MAX_NUM_CHUNKS * r
    BY <1>1 DEF IInv, Places
  <2> QED
    BY <1>2, <2>1, <2>2 DEF Places, Start, Packet
<1>8. Map'
  <2>1. /\ DOMAIN chunks_map = {Sha[stream[j]] : j \in 1 .. d}
        /\ unique_chunks = Cardinality(FirstsUpTo(d)) /\ unique_chunks <= d
        /\ \A j \in 1 .. d : NumberedAt(j)
    BY <1>1 DEF IInv, Map
  <2>2. \A j \in 1 .. d : NumberedAt(j)'
    BY <1>2, <1>5, <2>1 DEF NumberedAt
  <2> QED
    BY <1>2, <1>4, <1>5, <2>1, <2>2 DEF Map
<1>9. InSlots'
  <2>1. ASSUME NEW p \in w .. r - 1, NEW c \in 0 .. Packet(p).num_of_chunks - 1
        PROVE  /\ Packet(p).chunk[c].data = stream[Start(p) + c + 1]
               /\ Packet(p).chunk[c].sha = Sha[stream[Start(p) + c + 1]]
               /\ Start(p) + c + 1 <= d => Matched(Packet(p).chunk[c], Start(p) + c + 1)
    BY <1>1 DEF IInv, InSlots
  <2>2. \A ch, j : Matched(ch, j)' <=> Matched(ch, j)
    BY <1>5, <1>2 DEF Matched
  <2>3. ASSUME NEW p \in w .. r - 1, NEW c \in 0 .. Packet(p).num_of_chunks - 1,
               Start(p) + c + 1 <= d
        PROVE  Matched(Packet(p).chunk[c], Start(p) + c + 1)'
    <3>1. PICK ch, j : ch = Packet(p).chunk[c] /\ j = Start(p) + c + 1
      OBVIOUS
    <3>2. Matched(ch, j)'
      BY <2>1, <2>2, <2>3, <3>1
    <3>3. ch = Packet(p)'.chunk[c] /\ j = Start(p)' + c + 1
      BY <1>5, <3>1
    <3> QED
      BY <3>2, <3>3 DEF Matched
  <2> QED
    BY <1>2, <1>4, <1>5, <2>1, <2>3 DEF InSlots
<1>10. Recorded'
  <2> SUFFICES ASSUME NEW j \in 1 .. Len(records) PROVE RecordedAt(j)'
    BY <1>2 DEF Recorded
  <2>1. RecordedAt(j)
    BY DEF IInv, Recorded
  <2> QED
    BY <1>2, <1>5, <2>1 DEF RecordedAt
<1> QED
  BY <1>6, <1>7, <1>8, <1>9, <1>10 DEF IInv

-----------------------------------------------------------------------------
(* The kernel writes a packet's records *)

(* All chunks of the packet are matched, so their records are what they should. *)
LEMMA StoreStep == IInv /\ Store => IInv'
<1> SUFFICES ASSUME IInv, Store PROVE IInv'
  OBVIOUS
<1>1. PICK r \in Nat, w \in Nat, k \in Nat, d \in Nat, e \in Nat :
        /\ r = received /\ w = written /\ k = count /\ d = Done /\ e = Len(stream)
        /\ w < k /\ k <= r /\ d <= e /\ w \in written .. received - 1
  <2>1. written < count /\ written \in written .. received - 1
    <3>1. written < count
      BY DEF Store
    <3>2. written \in Nat /\ count \in Nat /\ received \in Nat /\ count <= received
      BY Typed
    <3> QED
      BY <3>1, <3>2
  <2> QED
    BY <2>1, Typed, StartIsNat
<1>2. /\ received' = r /\ written' = w + 1 /\ count' = k /\ chunk_num' = chunk_num
      /\ stream' = stream /\ starts' = starts
      /\ packarray' = packarray /\ chunks_map' = chunks_map /\ unique_chunks' = unique_chunks
  BY <1>1 DEF Store, history
<1>3. PICK m \in Nat, s \in Nat :
        /\ m = Packet(w).num_of_chunks /\ s = Start(w) /\ s + m = Start(w + 1)
        /\ Len(records) = s /\ s + m <= d /\ m <= MAX_NUM_CHUNKS
  <2>1. /\ Packet(w).num_of_chunks \in Nat /\ Start(w) \in Nat
        /\ Start(w) + Packet(w).num_of_chunks = Start(w + 1)
        /\ Packet(w).num_of_chunks <= MAX_NUM_CHUNKS
    BY <1>1, OnItsWay
  <2>2. Start(w + 1) <= d
    <3>1. w + 1 \in 0 .. r /\ k \in 0 .. r /\ w + 1 <= k
      BY <1>1
    <3>2. Start(w + 1) <= Start(k) /\ Start(k) \in Nat /\ Start(w + 1) \in Nat
      BY <1>1, <3>1, StartIsNat DEF IInv, Places
    <3>3. d = Start(k) + chunk_num /\ chunk_num \in Nat
      BY <1>1, Typed DEF Done
    <3> QED
      BY <3>2, <3>3
  <2>3. Len(records) = Start(w)
    BY <1>1 DEF IInv, Places
  <2> QED
    BY <2>1, <2>2, <2>3
<1> DEFINE packet == Packet(w)
           added  == [c \in 1 .. m |-> Record(packet.chunk[c - 1])]
<1>4. ASSUME NEW c \in 0 .. m - 1
      PROVE  LET ch == packet.chunk[c]
                 j  == s + c + 1
             IN  /\ ch \in ChunkType /\ ch.data = stream[j] /\ j \in 1 .. e
                 /\ stream[j] \in Contents
                 /\ Matched(ch, j)
  <2>1. /\ packet \in SlotType /\ c \in ChunkNums /\ s + c + 1 \in 1 .. e
        /\ c \in 0 .. Packet(w).num_of_chunks - 1
    BY <1>1, <1>3, OnItsWay
  <2>2. s + c + 1 <= d
    BY <1>3
  <2>3. /\ packet.chunk[c].data = stream[s + c + 1]
        /\ Matched(packet.chunk[c], s + c + 1)
    BY <1>1, <1>3, <2>1, <2>2 DEF IInv, InSlots
  <2>4. stream[s + c + 1] \in Contents
    BY <1>1, <2>1, Typed, ElementOfSeq
  <2> QED
    BY <2>1, <2>3, <2>4 DEF SlotType
<1>5. ASSUME NEW c \in 0 .. m - 1
      PROVE  LET rec == Record(packet.chunk[c])
                 j   == s + c + 1
             IN  /\ rec \in RecordType
                 /\ IF First(j)
                      THEN rec.data = stream[j] /\ rec.header = HeaderOfUnique(CodedSize[stream[j]])
                      ELSE rec.data = NONE /\ rec.header = HeaderOfDuplicate(Number(stream[j]))
  <2>1. PICK ch \in ChunkType, j \in 1 .. e :
          /\ ch = packet.chunk[c] /\ j = s + c + 1
          /\ ch.data = stream[j] /\ Matched(ch, j) /\ stream[j] \in Contents
    BY <1>4
  <2>2. HeaderOfUnique(CodedSize[stream[j]]) \in Nat
    BY <2>1, HeadersAreNumbers
  <2>3. CASE First(j)
    <3>1. ch.is_unique
      BY <2>1, <2>3 DEF Matched
    <3>2. Record(ch) = [header |-> HeaderOfUnique(CodedSize[stream[j]]),
                        data |-> stream[j]]
      BY <1>1, <2>1, <3>1 DEF Record
    <3>3. Record(ch) \in RecordType
      BY <2>1, <2>2, <3>2 DEF Numbers, RecordType
    <3> QED
      BY <2>1, <2>3, <3>2, <3>3
  <2>4. CASE ~First(j)
    <3>1. ~ch.is_unique /\ ch.header = HeaderOfDuplicate(Number(stream[j]))
      BY <2>1, <2>4 DEF Matched
    <3>2. Record(ch) = [header |-> ch.header, data |-> NONE]
      BY <1>1, <3>1 DEF Record
    <3>3. Record(ch) \in RecordType
      BY <2>1, <3>2 DEF ChunkType, RecordType
    <3> QED
      BY <2>1, <2>4, <3>1, <3>2, <3>3
  <2> QED
    BY <2>3, <2>4
<1>6. /\ added \in Seq(RecordType) /\ Len(added) = m
      /\ \A c \in 1 .. m : added[c] = Record(packet.chunk[c - 1])
  <2>1. \A c \in 1 .. m : c - 1 \in 0 .. m - 1
    OBVIOUS
  <2> HIDE DEF packet
  <2>2. \A c \in 1 .. m : added[c] = Record(packet.chunk[c - 1])
    OBVIOUS
  <2>3. \A c \in 1 .. m : added[c] \in RecordType
    BY <1>5, <2>1, <2>2
  <2>4. added = [c \in 1 .. m |-> added[c]]
    OBVIOUS
  <2> HIDE DEF added
  <2>5. added \in [1 .. m -> RecordType]
    BY <2>3, <2>4
  <2>6. added \in Seq(RecordType) /\ Len(added) = m
    BY <1>3, <2>5
  <2> QED
    BY <2>2, <2>6
<1>7. /\ outputs' \in Seq(Seq(RecordType)) /\ Len(outputs') = w + 1
      /\ records' = records \o added
  <2>1. outputs' = Append(outputs, added)
    BY <1>1, <1>3 DEF Store, Packet
  <2>2. outputs \in Seq(Seq(RecordType)) /\ Len(outputs) = w /\ added \in Seq(RecordType)
    BY <1>1, <1>6, Typed
  <2> HIDE DEF added
  <2>3. FlattenSeq(Append(outputs, added)) = FlattenSeq(outputs) \o added
    BY <2>2, FlattenAppend
  <2> QED
    BY <2>1, <2>2, <2>3, AppendProperties DEF records
<1> HIDE DEF added, packet
<1>8. /\ records' \in Seq(RecordType) /\ Len(records') = s + m
      /\ \A j \in 1 .. s : records'[j] = records[j]
      /\ \A c \in 1 .. m : records'[s + c] = added[c]
  <2>1. records \in Seq(RecordType)
    BY Typed
  <2>2. /\ records' \in Seq(RecordType) /\ Len(records') = s + m
        /\ \A j \in 1 .. s + m : records'[j] = IF j <= s THEN records[j] ELSE added[j - s]
    <3>1. added \in Seq(RecordType) /\ Len(added) = m /\ Len(records) = s
      BY <1>3, <1>6
    <3>2. /\ records \o added \in Seq(RecordType) /\ Len(records \o added) = s + m
          /\ \A j \in 1 .. s + m :
               (records \o added)[j] = IF j <= s THEN records[j] ELSE added[j - s]
      BY <2>1, <3>1, ConcatProperties
    <3> QED
      BY <1>7, <3>2
  <2>3. \A j \in 1 .. s : j \in 1 .. s + m /\ j <= s
    OBVIOUS
  <2>4. ASSUME NEW c \in 1 .. m PROVE records'[s + c] = added[c]
    <3> DEFINE j == s + c
    <3>1. j \in 1 .. s + m /\ ~(j <= s) /\ j - s = c
      OBVIOUS
    <3> HIDE DEF j
    <3>2. records'[j] = added[c]
      BY <2>2, <3>1
    <3> QED
      BY <3>2 DEF j
  <2> QED
    BY <2>2, <2>3, <2>4
<1>9. Done' = d
  BY <1>1, <1>2 DEF Done, Start
<1>10. /\ \A p : Start(p)' = Start(p) /\ Packet(p)' = Packet(p)
       /\ \A j : (First(j)' <=> First(j)) /\ Number(stream[j])' = Number(stream[j])
       /\ \A n : FirstsUpTo(n)' = FirstsUpTo(n)
  BY <1>2 DEF Start, Packet, First, FirstsUpTo, Number
<1>11. TypeOK'
  <2>1. /\ received' \in 0 .. MaxPackets /\ count' \in 0 .. received' /\ written' \in 0 .. count'
        /\ received' <= written' + NUM_PACKETS
    BY <1>1, <1>2, Typed, Sizes
  <2> QED
    BY <1>1, <1>2, <1>7, <2>1 DEF IInv, TypeOK
<1>12. Places'
  <2>1. /\ Start(0) = 0 /\ Start(r) = Len(stream)
        /\ \A p, q \in 0 .. r : p <= q => Start(p) <= Start(q)
        /\ \A p \in w .. r - 1 : Start(p) + Packet(p).num_of_chunks = Start(p + 1)
        /\ Len(stream) <= MAX_NUM_CHUNKS * r
        /\ k < r => chunk_num <= Packet(k).num_of_chunks
        /\ k = r => chunk_num = 0
    BY <1>1 DEF IInv, Places
  <2>2. Len(records') = Start(w + 1)
    BY <1>3, <1>8
  <2>3. \A p \in (w + 1) .. r - 1 : p \in w .. r - 1
    OBVIOUS
  <2> QED
    BY <1>2, <2>1, <2>2, <2>3 DEF Places, Start, Packet
<1>13. Map'
  <2>1. /\ DOMAIN chunks_map = {Sha[stream[j]] : j \in 1 .. d}
        /\ unique_chunks = Cardinality(FirstsUpTo(d)) /\ unique_chunks <= d
        /\ \A j \in 1 .. d : NumberedAt(j)
    BY <1>1 DEF IInv, Map
  <2>2. \A j \in 1 .. d : NumberedAt(j)'
    BY <1>2, <1>10, <2>1 DEF NumberedAt
  <2> QED
    BY <1>2, <1>9, <1>10, <2>1, <2>2 DEF Map
<1>14. InSlots'
  <2>1. ASSUME NEW p \in w .. r - 1, NEW c \in 0 .. Packet(p).num_of_chunks - 1
        PROVE  /\ Packet(p).chunk[c].data = stream[Start(p) + c + 1]
               /\ Packet(p).chunk[c].sha = Sha[stream[Start(p) + c + 1]]
               /\ Start(p) + c + 1 <= d => Matched(Packet(p).chunk[c], Start(p) + c + 1)
    BY <1>1 DEF IInv, InSlots
  <2>2. \A ch, j : Matched(ch, j)' <=> Matched(ch, j)
    BY <1>10, <1>2 DEF Matched
  <2>3. ASSUME NEW p \in w .. r - 1, NEW c \in 0 .. Packet(p).num_of_chunks - 1,
               Start(p) + c + 1 <= d
        PROVE  Matched(Packet(p).chunk[c], Start(p) + c + 1)'
    <3>1. PICK ch, j : ch = Packet(p).chunk[c] /\ j = Start(p) + c + 1
      OBVIOUS
    <3>2. Matched(ch, j)'
      BY <2>1, <2>2, <2>3, <3>1
    <3>3. ch = Packet(p)'.chunk[c] /\ j = Start(p)' + c + 1
      BY <1>10, <3>1
    <3> QED
      BY <3>2, <3>3 DEF Matched
  <2>4. \A p \in (w + 1) .. r - 1 : p \in w .. r - 1
    OBVIOUS
  <2> QED
    BY <1>2, <1>9, <1>10, <2>1, <2>3, <2>4 DEF InSlots
<1>15. Recorded'
  <2> SUFFICES ASSUME NEW j \in 1 .. s + m PROVE RecordedAt(j)'
    BY <1>8 DEF Recorded
  <2>1. CASE j \in 1 .. s
    <3>1. RecordedAt(j)
      BY <1>3, <2>1 DEF IInv, Recorded
    <3> QED
      BY <1>2, <1>8, <1>10, <2>1, <3>1 DEF RecordedAt
  <2>2. CASE j \notin 1 .. s
    <3>1. PICK c \in 0 .. m - 1 : j = s + c + 1
      <4>1. j - s - 1 \in 0 .. m - 1 /\ j = s + (j - s - 1) + 1
        BY <2>2
      <4> QED
        BY <4>1
    <3>2. c + 1 \in 1 .. m /\ (c + 1) - 1 = c /\ s + (c + 1) = j
      BY <3>1
    <3>3. records'[j] = Record(packet.chunk[c])
      BY <1>6, <1>8, <3>2
    <3>4. IF First(j)
            THEN /\ records'[j].data = stream[j]
                 /\ records'[j].header = HeaderOfUnique(CodedSize[stream[j]])
            ELSE /\ records'[j].data = NONE
                 /\ records'[j].header = HeaderOfDuplicate(Number(stream[j]))
      BY <1>5, <3>1, <3>3
    <3> QED
      BY <1>2, <1>10, <3>4 DEF RecordedAt
  <2> QED
    BY <2>1, <2>2
<1> QED
  BY <1>11, <1>12, <1>13, <1>14, <1>15 DEF IInv

-----------------------------------------------------------------------------
(* The theorems *)

(* The invariant holds in every state of every behaviour. *)
THEOREM Invariance == Spec => []IInv
<1>1. Init => IInv
  BY Initially
<1>2. IInv /\ [Next]_vars => IInv'
  <2> SUFFICES ASSUME IInv, [Next]_vars PROVE IInv'
    OBVIOUS
  <2>1. CASE Receive
    BY <2>1, ReceiveStep
  <2>2. CASE MatchUnique
    BY <2>2, UniqueStep
  <2>3. CASE MatchDuplicate
    BY <2>3, DuplicateStep
  <2>4. CASE MatchEnds
    BY <2>4, EndsStep
  <2>5. CASE Store
    BY <2>5, StoreStep
  <2>6. CASE UNCHANGED vars
    <3>1. /\ packarray' = packarray /\ received' = received /\ count' = count
          /\ chunk_num' = chunk_num /\ chunks_map' = chunks_map /\ unique_chunks' = unique_chunks
          /\ written' = written /\ outputs' = outputs /\ records' = records /\ stream' = stream /\ starts' = starts
      BY <2>6 DEF vars, history, records
    <3>2. TypeOK'
      BY <3>1 DEF IInv, TypeOK
    <3>3. Places'
      BY <3>1 DEF IInv, Places, Packet, Start
    <3>4. Map'
      <4>1. Done' = Done /\ (\A n : FirstsUpTo(n)' = FirstsUpTo(n))
        BY <3>1 DEF Done, Start, FirstsUpTo, First
      <4>2. \A j : NumberedAt(j)' <=> NumberedAt(j)
        BY <3>1, <4>1 DEF NumberedAt, First, Number
      <4>3. PICK d : d = Done /\ d = Done'
        BY <4>1
      <4>4. /\ DOMAIN chunks_map = {Sha[stream[j]] : j \in 1 .. d}
            /\ unique_chunks = Cardinality(FirstsUpTo(d)) /\ unique_chunks <= d
            /\ \A j \in 1 .. d : NumberedAt(j)
        BY <4>3 DEF IInv, Map
      <4> QED
        BY <3>1, <4>1, <4>2, <4>3, <4>4 DEF Map
    <3>5. InSlots'
      BY <3>1 DEF IInv, InSlots, Matched, Packet, Done, Start, First, Number
    <3>6. Recorded'
      BY <3>1 DEF IInv, Recorded, RecordedAt, First, Number
    <3> QED
      BY <3>2, <3>3, <3>4, <3>5, <3>6 DEF IInv
  <2> QED
    BY <2>1, <2>2, <2>3, <2>4, <2>5, <2>6 DEF Next
<1> QED
  BY <1>1, <1>2, PTL DEF Spec

(* A number that fits comes out of a reference's header as it went in; the range *)
(* being even, no size makes a unique chunk's header look like a reference.      *)
LEMMA HeaderRoundTrip ==
  /\ \A n \in Nat : 1 + 2 * n < UINT_RANGE =>
       ~IsUniqueHeader(HeaderOfDuplicate(n)) /\ NumberOf(HeaderOfDuplicate(n)) = n
  /\ \A n \in Nat : IsUniqueHeader(HeaderOfUnique(n))
<1>1. ASSUME NEW n \in Nat, 1 + 2 * n < UINT_RANGE
      PROVE  ~IsUniqueHeader(HeaderOfDuplicate(n)) /\ NumberOf(HeaderOfDuplicate(n)) = n
  <2>1. (1 + 2 * n) % UINT_RANGE = 1 + 2 * n
    BY <1>1, Sizes
  <2>2. (1 + 2 * n) % 2 = 1 /\ (1 + 2 * n) \div 2 = n
    OBVIOUS
  <2> QED
    BY <2>1, <2>2 DEF IsUniqueHeader, HeaderOfDuplicate, NumberOf
<1>2. ASSUME NEW n \in Nat PROVE IsUniqueHeader(HeaderOfUnique(n))
  <2> DEFINE half == UINT_RANGE \div 2
             q    == (2 * n) \div UINT_RANGE
             rest == (2 * n) % UINT_RANGE
  <2>1. UINT_RANGE = 2 * half /\ half \in Nat
    BY Sizes
  <2>2. 2 * n = UINT_RANGE * q + rest /\ q \in Nat /\ rest \in 0 .. UINT_RANGE - 1
    <3>1. 2 * n \in Nat
      OBVIOUS
    <3> QED
      BY <3>1, Sizes, DivMod
  <2> HIDE DEF half, q, rest
  <2>3. PICK x \in Int : x = half * q
    BY <2>1, <2>2, SMT
  <2>4. UINT_RANGE * q = 2 * x
    BY <2>1, <2>2, <2>3, SMT
  <2>5. rest = 2 * (n - x) /\ rest \in Nat
    BY <2>2, <2>3, <2>4, Sizes
  <2>6. rest % 2 = 0
    BY <2>3, <2>5
  <2> QED
    BY <2>6 DEF rest, IsUniqueHeader, HeaderOfUnique
<1> QED
  BY <1>1, <1>2

(* Every number that is given fits into a header. *)
LEMMA NumbersFit ==
  ASSUME IInv
  PROVE  2 * unique_chunks < UINT_RANGE
<1> DEFINE most == MaxPackets * MAX_NUM_CHUNKS
           sofar == MAX_NUM_CHUNKS * received
<1>1. most \in Nat /\ sofar \in Nat /\ sofar <= most
  <2>1. received \in Nat /\ received <= MaxPackets /\ MaxPackets \in Nat /\ MAX_NUM_CHUNKS \in Nat
    BY Sizes, Typed
  <2> QED
    BY <2>1, SMT
<1>2. 2 * most < UINT_RANGE
  <2>1. 2 * MaxPackets * MAX_NUM_CHUNKS = 2 * most
    BY Sizes, SMT
  <2> QED
    BY <2>1, BoundAssumption
<1>3. unique_chunks <= Done /\ Done <= Len(stream) /\ Len(stream) <= sofar
      /\ unique_chunks \in Nat /\ Done \in Nat /\ Len(stream) \in Nat
  BY StartIsNat, Typed DEF IInv, Map, Places
<1> HIDE DEF most, sofar
<1> QED
  BY <1>1, <1>2, <1>3, Sizes

(* A record is about a chunk of the stream that the dedup thread has done. *)
LEMMA RecordIsOfChunk ==
  ASSUME IInv, NEW k \in 1 .. Len(records)
  PROVE  /\ k \in 1 .. Done /\ stream[k] \in Contents /\ RecordedAt(k) /\ NumberedAt(k)
         /\ CodedSize[stream[k]] \in Nat
<1>1. k \in 1 .. Done /\ k \in 1 .. Len(stream)
  <2>1. /\ Len(records) <= Done /\ Done <= Len(stream)
        /\ Len(records) \in Nat /\ Done \in Nat /\ Len(stream) \in Nat
    BY StartIsNat, Typed
  <2> QED
    BY <2>1
<1>2. stream[k] \in Contents /\ RecordedAt(k) /\ NumberedAt(k)
  BY <1>1, Typed, ElementOfSeq DEF IInv, Recorded, Map
<1> QED
  BY <1>1, <1>2, SizeAssumption

(* A reference's header is told from a unique chunk's, and gives the number back. *)
LEMMA HeaderTells ==
  ASSUME IInv, NEW j \in 1 .. Len(records)
  PROVE  IF First(j)
           THEN IsUniqueHeader(records[j].header) /\ records[j].data = stream[j]
           ELSE /\ ~IsUniqueHeader(records[j].header)
                /\ NumberOf(records[j].header) = Number(stream[j])
<1>1. CASE First(j)
  BY <1>1, RecordIsOfChunk, HeaderRoundTrip DEF RecordedAt
<1>2. CASE ~First(j)
  <2> DEFINE n == Number(stream[j])
  <2>1. records[j].header = HeaderOfDuplicate(n) /\ n \in 0 .. unique_chunks - 1
    BY <1>2, RecordIsOfChunk DEF RecordedAt, NumberedAt
  <2>2. 2 * unique_chunks < UINT_RANGE /\ unique_chunks \in Nat /\ UINT_RANGE \in Nat
    BY NumbersFit, Typed, Sizes
  <2> HIDE DEF n
  <2>3. n \in Nat /\ 1 + 2 * n < UINT_RANGE
    BY <2>1, <2>2
  <2>4. ~IsUniqueHeader(HeaderOfDuplicate(n)) /\ NumberOf(HeaderOfDuplicate(n)) = n
    BY <2>3, HeaderRoundTrip
  <2> QED
    BY <1>2, <2>1, <2>4 DEF n
<1> QED
  BY <1>1, <1>2

(* A chunk's record has what the decoder needs from the records before it, in   *)
(* every order in which the stages may run: the chunk, or the number that an    *)
(* earlier record's chunk, the same, has among the unique ones.               *)
THEOREM PointsBack == Spec => []ReferencesPointBack
<1>1. IInv => ReferencesPointBack
  <2> SUFFICES ASSUME IInv, NEW j \in 1 .. Len(records)
               PROVE  /\ UniqueAt(j) <=> IsUniqueHeader(records[j].header)
                      /\ IF UniqueAt(j)
                           THEN records[j].data = stream[j]
                           ELSE \E i \in 1 .. j - 1 :
                                  /\ records[i].data = stream[j]
                                  /\ NumberOf(records[j].header)
                                       = Cardinality({k \in 1 .. i - 1 : UniqueAt(k)})
    BY DEF ReferencesPointBack
  <2>1. ASSUME NEW k \in 1 .. Len(records)
        PROVE  k \in 1 .. Done /\ stream[k] \in Contents /\ RecordedAt(k) /\ NumberedAt(k)
    BY RecordIsOfChunk
  <2>2. \A k \in 1 .. Len(records) : UniqueAt(k) <=> First(k)
    BY <2>1, Sizes DEF RecordedAt, UniqueAt
  <2>3. CASE First(j)
    <3>1. records[j].data = stream[j] /\ records[j].header = HeaderOfUnique(CodedSize[stream[j]])
      BY <2>1, <2>3 DEF RecordedAt
    <3>2. CodedSize[stream[j]] \in Nat
      BY <2>1, SizeAssumption
    <3>3. IsUniqueHeader(records[j].header)
      BY <3>1, <3>2, HeaderRoundTrip
    <3> QED
      BY <2>2, <2>3, <3>1, <3>3
  <2>4. CASE ~First(j)
    <3>1. PICK i \in 1 .. j : First(i) /\ stream[i] = stream[j]
      BY <2>1 DEF NumberedAt
    <3>2. i \in 1 .. j - 1 /\ i \in 1 .. Len(records) /\ i \in Nat
      <4>1. i # j /\ Len(records) \in Nat
        BY <2>4, <3>1, Typed
      <4> QED
        BY <4>1
    <3>3. records[i].data = stream[j]
      BY <2>1, <3>1, <3>2 DEF RecordedAt
    <3> DEFINE n == Number(stream[j])
    <3>4. n = Cardinality(FirstsUpTo(i - 1)) /\ n \in 0 .. unique_chunks - 1
      <4>1. Number(stream[i]) = n
        BY <3>1
      <4> QED
        BY <2>1, <3>1, <3>2, <4>1 DEF NumberedAt
    <3>5. FirstsUpTo(i - 1) = {k \in 1 .. i - 1 : UniqueAt(k)}
      <4>1. \A k \in 1 .. i - 1 : k \in 1 .. Len(records)
        BY <3>2, Typed
      <4> QED
        BY <2>2, <4>1 DEF FirstsUpTo
    <3>6. records[j].header = HeaderOfDuplicate(n)
      BY <2>1, <2>4 DEF RecordedAt
    <3> HIDE DEF n
    <3>7. n \in Nat /\ 1 + 2 * n < UINT_RANGE
      <4>1. /\ 2 * unique_chunks < UINT_RANGE /\ unique_chunks \in Nat /\ UINT_RANGE \in Nat
            /\ n \in 0 .. unique_chunks - 1
        BY <3>4, NumbersFit, Typed, Sizes
      <4> QED
        BY <4>1
    <3>8. ~IsUniqueHeader(records[j].header) /\ NumberOf(records[j].header) = n
      BY <3>6, <3>7, HeaderRoundTrip
    <3> QED
      BY <2>2, <2>4, <3>2, <3>3, <3>4, <3>5, <3>8
  <2> QED
    BY <2>3, <2>4
<1> QED
  BY <1>1, Invariance, PTL

(* No content is coded twice. *)
THEOREM EachContentOnce == Spec => []StoredOnce
<1>1. IInv => StoredOnce
  <2> SUFFICES ASSUME IInv, NEW i \in 1 .. Len(records), NEW j \in 1 .. Len(records),
                      i # j, records[i].data # NONE
               PROVE  records[i].data # records[j].data
    BY DEF StoredOnce
  <2>1. RecordedAt(i) /\ RecordedAt(j)
    BY DEF IInv, Recorded
  <2>2. First(i) /\ records[i].data = stream[i]
    BY <2>1 DEF RecordedAt
  <2>3. CASE ~First(j)
    BY <2>1, <2>3 DEF RecordedAt
  <2>4. CASE First(j)
    <3>1. records[j].data = stream[j]
      BY <2>1, <2>4 DEF RecordedAt
    <3>2. stream[i] # stream[j]
      <4>1. i \in Nat /\ j \in Nat /\ i >= 1 /\ j >= 1
        BY Typed
      <4>2. CASE i < j
        BY <2>4, <4>1, <4>2 DEF First
      <4>3. CASE j < i
        BY <2>2, <4>1, <4>3 DEF First
      <4> QED
        BY <4>1, <4>2, <4>3
    <3> QED
      BY <2>2, <3>1, <3>2
  <2> QED
    BY <2>3, <2>4
<1> QED
  BY <1>1, Invariance, PTL

-----------------------------------------------------------------------------
(* The decoder's loop is a fold: what it has after each of its rounds *)

(* One round of the fold, on all sets of the first n indices. *)
Rounds(g, seq, n) ==
  [s \in SUBSET (1 .. n) |->
     IF s = {} THEN DecodeInit ELSE DecodeRecord(g[s \ {Max(s)}], seq[Max(s)])]

(* Of a set of indices up to n + 1 that has n + 1, this is the last. *)
LEMMA MaxOfNext ==
  ASSUME NEW n \in Nat, NEW s \in SUBSET (1 .. n + 1), n + 1 \in s
  PROVE  Max(s) = n + 1
<1>1. \A y \in s : y \in Nat /\ n + 1 >= y
  OBVIOUS
<1>2. \A x \in s : (\A y \in s : x >= y) => x = n + 1
  BY <1>1
<1> QED
  BY <1>1, <1>2 DEF Max

(* The recursive function by which the fold is defined exists. *)
LEMMA RoundsExist ==
  ASSUME NEW seq, NEW N \in Nat
  PROVE  \E g : g = Rounds(g, seq, N)
<1> DEFINE S == {n \in Nat : \E g : g = Rounds(g, seq, n)}
<1>1. 0 \in S
  <2> DEFINE g == [s \in SUBSET (1 .. 0) |-> DecodeInit]
  <2>1. \A s \in SUBSET (1 .. 0) : s = {}
    OBVIOUS
  <2>2. g = Rounds(g, seq, 0)
    BY <2>1 DEF Rounds
  <2> QED
    BY <2>2
<1>2. ASSUME NEW n \in Nat, n \in S PROVE n + 1 \in S
  <2>1. PICK g : g = Rounds(g, seq, n)
    BY <1>2
  <2> DEFINE m == n + 1
             h == [s \in SUBSET (1 .. m) |->
                     IF m \in s THEN DecodeRecord(g[s \ {m}], seq[m]) ELSE g[s]]
  <2>2. ASSUME NEW s \in SUBSET (1 .. m)
        PROVE  h[s] = IF s = {} THEN DecodeInit ELSE DecodeRecord(h[s \ {Max(s)}], seq[Max(s)])
    <3>1. CASE m \in s
      <4>1. Max(s) = m /\ s # {}
        BY <3>1, MaxOfNext
      <4>2. s \ {m} \in SUBSET (1 .. m) /\ m \notin s \ {m}
        OBVIOUS
      <4>3. h[s \ {m}] = g[s \ {m}]
        BY <4>2
      <4>4. h[s] = DecodeRecord(g[s \ {m}], seq[m])
        BY <3>1
      <4> HIDE DEF h, m
      <4> QED
        BY <4>1, <4>3, <4>4
    <3>2. CASE m \notin s
      <4>1. s \in SUBSET (1 .. n)
        BY <3>2
      <4> DEFINE t == s \ {Max(s)}
      <4>2. h[s] = g[s]
        BY <3>2
      <4>3. h[t] = g[t]
        BY <3>2
      <4>4. g[s] = IF s = {} THEN DecodeInit ELSE DecodeRecord(g[t], seq[Max(s)])
        BY <2>1, <4>1 DEF Rounds
      <4> HIDE DEF h, m
      <4> QED
        BY <4>2, <4>3, <4>4
    <3> QED
      BY <3>1, <3>2
  <2>3. h = Rounds(h, seq, m)
    <3>1. DOMAIN h = SUBSET (1 .. m) /\ h = [s \in SUBSET (1 .. m) |-> h[s]]
      OBVIOUS
    <3> HIDE DEF h
    <3> QED
      BY <2>2, <3>1 DEF Rounds
  <2> QED
    BY <2>3
<1> HIDE DEF S
<1>3. Nat \subseteq S
  BY <1>1, <1>2, Induct
<1> QED
  BY <1>3 DEF S

(* The decoder's state after each of its rounds. *)
LEMMA DecodeByRounds ==
  ASSUME NEW R, NEW seq \in Seq(R)
  PROVE  \E d : /\ d[0] = DecodeInit
                /\ \A n \in 0 .. Len(seq) - 1 : d[n + 1] = DecodeRecord(d[n], seq[n + 1])
                /\ Decode(seq) = d[Len(seq)]
<1> DEFINE N == Len(seq)
           f == CHOOSE g : g = Rounds(g, seq, N)
<1>1. N \in Nat /\ DOMAIN seq = 1 .. N
  OBVIOUS
<1>2. f = Rounds(f, seq, N)
  BY <1>1, RoundsExist
<1>3. Decode(seq) = f[1 .. N]
  BY <1>1 DEF Decode, FoldLeft, MapThenFoldSet, Rounds
<1> HIDE DEF f
<1> DEFINE d == [n \in 0 .. N |-> f[1 .. n]]
<1>4. d[0] = DecodeInit
  <2>1. 1 .. 0 = {} /\ {} \in SUBSET (1 .. N)
    OBVIOUS
  <2>2. f[{}] = DecodeInit
    BY <1>2, <2>1 DEF Rounds
  <2> QED
    BY <1>1, <2>1, <2>2
<1>5. ASSUME NEW n \in 0 .. N - 1 PROVE d[n + 1] = DecodeRecord(d[n], seq[n + 1])
  <2> DEFINE s == 1 .. n + 1
  <2>1. n \in Nat /\ s \in SUBSET (1 .. N) /\ n + 1 \in s /\ s # {}
    <3>1. n \in Nat /\ n + 1 \in Nat /\ n + 1 <= N /\ N \in Nat
      BY <1>1
    <3>2. \A x \in s : x \in 1 .. N
      <4> HIDE DEF N
      <4> QED
        BY <3>1
    <3> QED
      BY <3>1, <3>2
  <2>2. Max(s) = n + 1
    BY <2>1, MaxOfNext
  <2>3. s \ {n + 1} = 1 .. n
    BY <2>1
  <2>4. f[s] = DecodeRecord(f[s \ {Max(s)}], seq[Max(s)])
    <3> HIDE DEF s
    <3> QED
      BY <1>2, <2>1 DEF Rounds
  <2>5. d[n + 1] = f[s] /\ d[n] = f[1 .. n]
    BY <1>1
  <2> HIDE DEF s, d
  <2> QED
    BY <2>2, <2>3, <2>4, <2>5
<1>6. d[N] = f[1 .. N]
  BY <1>1
<1> QED
  BY <1>3, <1>4, <1>5, <1>6

(* What the decoder has after n records: the stream's chunks up to there, and those *)
(* it has kept under the numbers that the encoder's map gives them.               *)
Decoded(d, n) ==
  /\ d \in [chunks : Seq(Contents), output : Seq(Contents), ignored : {0}]
  /\ Len(d.chunks) = Cardinality(FirstsUpTo(n))
  /\ \A m \in 1 .. Len(d.chunks) :
       \E k \in 1 .. n : d.chunks[m] = stream[k] /\ Number(stream[k]) = m - 1
  /\ \A k \in 1 .. n : /\ Number(stream[k]) + 1 \in 1 .. Len(d.chunks)
                       /\ d.chunks[Number(stream[k]) + 1] = stream[k]
  /\ Len(d.output) = n /\ \A i \in 1 .. n : d.output[i] = stream[i]

(* The decoder keeps up, record by record. *)
LEMMA DecodedNext ==
  ASSUME IInv, NEW n \in Nat, n + 1 <= Len(records), NEW d, Decoded(d, n)
  PROVE  Decoded(DecodeRecord(d, records[n + 1]), n + 1)
<1> DEFINE j == n + 1
           c == stream[j]
           r == records[j]
           e == DecodeRecord(d, r)
<1>1. /\ j \in 1 .. Len(records) /\ j \in Nat /\ c \in Contents /\ NumberedAt(j)
      /\ IF First(j) THEN IsUniqueHeader(r.header) /\ r.data = c
                     ELSE ~IsUniqueHeader(r.header) /\ NumberOf(r.header) = Number(c)
  <2>1. j \in 1 .. Len(records) /\ j \in Nat
    BY Typed
  <2> QED
    BY <2>1, RecordIsOfChunk, HeaderTells
<1>2. d.chunks \in Seq(Contents) /\ d.output \in Seq(Contents) /\ d.ignored = 0
      /\ d \in [chunks : Seq(Contents), output : Seq(Contents), ignored : {0}]
      /\ Len(d.chunks) \in Nat /\ Len(d.output) = n
      /\ Len(d.chunks) = Cardinality(FirstsUpTo(n))
  BY DEF Decoded
<1>appended. Append(d.chunks, c) \in Seq(Contents) /\ Append(d.output, c) \in Seq(Contents)
  <2> HIDE DEF e, r, c
  <2> QED
    BY <1>1, <1>2
<1>3. CASE First(j)
  <2>1. e = [d EXCEPT !.chunks = Append(d.chunks, c), !.output = Append(d.output, c)]
    BY <1>1, <1>3 DEF DecodeRecord
  <2>2. e.chunks = Append(d.chunks, c) /\ e.output = Append(d.output, c) /\ e.ignored = 0
        /\ e \in [chunks : Seq(Contents), output : Seq(Contents), ignored : {0}]
    <3>1. PICK a : a = Append(d.chunks, c) /\ a \in Seq(Contents)
      BY <1>appended, Zenon
    <3>2. PICK b : b = Append(d.output, c) /\ b \in Seq(Contents)
      BY <1>appended, Zenon
    <3>3. e = [d EXCEPT !.chunks = a, !.output = b]
      BY <2>1, <3>1, <3>2
    <3> HIDE DEF e, c
    <3>4. e.chunks = a /\ e.output = b /\ e.ignored = 0
          /\ e \in [chunks : Seq(Contents), output : Seq(Contents), ignored : {0}]
      BY <1>2, <3>1, <3>2, <3>3
    <3> QED
      BY <3>1, <3>2, <3>4
  <2>3. /\ Len(e.chunks) = Len(d.chunks) + 1 /\ e.chunks[Len(d.chunks) + 1] = c
        /\ \A m \in 1 .. Len(d.chunks) : e.chunks[m] = d.chunks[m]
        /\ Len(e.output) = n + 1 /\ e.output[n + 1] = c
        /\ \A i \in 1 .. n : e.output[i] = d.output[i]
    <3> HIDE DEF e, c
    <3> QED
      BY <1>1, <1>2, <2>2
  <2>4. Number(c) = Len(d.chunks) /\ Cardinality(FirstsUpTo(j)) = Len(d.chunks) + 1
    <3>1. j - 1 = n
      OBVIOUS
    <3> QED
      BY <1>1, <1>2, <1>3, <3>1, FirstsNext DEF NumberedAt
  <2> HIDE DEF e
  <2>5. ASSUME NEW m \in 1 .. Len(e.chunks)
        PROVE  \E k \in 1 .. j : e.chunks[m] = stream[k] /\ Number(stream[k]) = m - 1
    <3>1. CASE m = Len(d.chunks) + 1
      <4>1. e.chunks[m] = stream[j] /\ Number(stream[j]) = m - 1 /\ j \in 1 .. j
        BY <1>1, <1>2, <2>3, <2>4, <3>1
      <4> QED
        BY <4>1
    <3>2. CASE m # Len(d.chunks) + 1
      <4>1. m \in 1 .. Len(d.chunks)
        BY <1>2, <2>3, <3>2
      <4>2. PICK k \in 1 .. n : d.chunks[m] = stream[k] /\ Number(stream[k]) = m - 1
        BY <4>1 DEF Decoded
      <4> QED
        BY <2>3, <4>1, <4>2
    <3> QED
      BY <3>1, <3>2
  <2>6. ASSUME NEW k \in 1 .. j
        PROVE  Number(stream[k]) + 1 \in 1 .. Len(e.chunks)
               /\ e.chunks[Number(stream[k]) + 1] = stream[k]
    <3>1. CASE k = j
      BY <1>2, <2>3, <2>4, <3>1
    <3>2. CASE k # j
      <4>1. k \in 1 .. n
        BY <3>2
      <4>2. Number(stream[k]) + 1 \in 1 .. Len(d.chunks)
            /\ d.chunks[Number(stream[k]) + 1] = stream[k]
        BY <4>1 DEF Decoded
      <4> QED
        BY <1>2, <2>3, <4>2
    <3> QED
      BY <3>1, <3>2
  <2>7. \A i \in 1 .. j : e.output[i] = stream[i]
    <3>1. \A i \in 1 .. n : d.output[i] = stream[i]
      BY DEF Decoded
    <3> QED
      BY <2>3, <3>1
  <2>8. Decoded(e, j)
    BY <2>2, <2>3, <2>4, <2>5, <2>6, <2>7 DEF Decoded
  <2> QED
    BY <2>8 DEF e
<1>4. CASE ~First(j)
  <2>1. PICK i \in 1 .. j : First(i) /\ stream[i] = c
    BY <1>1 DEF NumberedAt
  <2>2. i \in 1 .. n
    BY <1>4, <2>1
  <2>3. Number(c) + 1 \in 1 .. Len(d.chunks) /\ d.chunks[Number(c) + 1] = c
    BY <2>1, <2>2 DEF Decoded
  <2>4. NumberOf(r.header) = Number(c) /\ Number(c) \in 0 .. Len(d.chunks) - 1
    <3>1. Number(c) \in Int
      BY <1>1 DEF NumberedAt
    <3> QED
      BY <1>1, <1>2, <1>4, <2>3, <3>1
  <2>5. e = [d EXCEPT !.output = Append(d.output, c)]
    BY <1>1, <1>4, <2>3, <2>4 DEF DecodeRecord
  <2>6. e.chunks = d.chunks /\ e.output = Append(d.output, c) /\ e.ignored = 0
        /\ e \in [chunks : Seq(Contents), output : Seq(Contents), ignored : {0}]
    <3>1. PICK b : b = Append(d.output, c) /\ b \in Seq(Contents)
      BY <1>appended, Zenon
    <3>2. e = [d EXCEPT !.output = b]
      BY <2>5, <3>1
    <3> HIDE DEF e, c
    <3>3. e.chunks = d.chunks /\ e.output = b /\ e.ignored = 0
          /\ e \in [chunks : Seq(Contents), output : Seq(Contents), ignored : {0}]
      BY <1>2, <3>1, <3>2
    <3> QED
      BY <3>1, <3>3
  <2>7. /\ Len(e.output) = n + 1 /\ e.output[n + 1] = c
        /\ \A k \in 1 .. n : e.output[k] = d.output[k]
    <3> HIDE DEF e, c
    <3> QED
      BY <1>1, <1>2, <2>6
  <2> HIDE DEF e
  <2>8. Cardinality(FirstsUpTo(j)) = Len(d.chunks)
    BY <1>2, <1>4, FirstsNext
  <2>9. \A m \in 1 .. Len(d.chunks) :
          \E k \in 1 .. j : d.chunks[m] = stream[k] /\ Number(stream[k]) = m - 1
    <3> SUFFICES ASSUME NEW m \in 1 .. Len(d.chunks)
                 PROVE  \E k \in 1 .. j : d.chunks[m] = stream[k] /\ Number(stream[k]) = m - 1
      OBVIOUS
    <3>1. PICK k \in 1 .. n : d.chunks[m] = stream[k] /\ Number(stream[k]) = m - 1
      BY DEF Decoded
    <3>2. k \in 1 .. j
      OBVIOUS
    <3> QED
      BY <3>1, <3>2
  <2>10. \A k \in 1 .. j : Number(stream[k]) + 1 \in 1 .. Len(d.chunks)
                           /\ d.chunks[Number(stream[k]) + 1] = stream[k]
    <3>1. \A k \in 1 .. n : Number(stream[k]) + 1 \in 1 .. Len(d.chunks)
                            /\ d.chunks[Number(stream[k]) + 1] = stream[k]
      BY DEF Decoded
    <3> QED
      BY <2>3, <3>1
  <2>11. \A k \in 1 .. j : e.output[k] = stream[k]
    <3>1. \A k \in 1 .. n : d.output[k] = stream[k]
      BY DEF Decoded
    <3> QED
      BY <2>7, <3>1
  <2>12. /\ Len(e.chunks) = Cardinality(FirstsUpTo(j))
         /\ \A m \in 1 .. Len(e.chunks) :
              \E k \in 1 .. j : e.chunks[m] = stream[k] /\ Number(stream[k]) = m - 1
         /\ \A k \in 1 .. j : Number(stream[k]) + 1 \in 1 .. Len(e.chunks)
                                /\ e.chunks[Number(stream[k]) + 1] = stream[k]
    <3>1. PICK x : x = e.chunks /\ x = d.chunks
      BY <2>6
    <3>2. /\ Len(x) = Cardinality(FirstsUpTo(j))
          /\ \A m \in 1 .. Len(x) :
               \E k \in 1 .. j : x[m] = stream[k] /\ Number(stream[k]) = m - 1
          /\ \A k \in 1 .. j : Number(stream[k]) + 1 \in 1 .. Len(x)
                                 /\ x[Number(stream[k]) + 1] = stream[k]
      BY <2>8, <2>9, <2>10, <3>1, Zenon
    <3> QED
      BY <3>1, <3>2, Zenon
  <2>13. Len(e.output) = j
    BY <2>7
  <2>14. Decoded(e, j)
    BY <2>6, <2>11, <2>12, <2>13, Zenon DEF Decoded
  <2> QED
    BY <2>14 DEF e
<1> QED
  BY <1>3, <1>4

(* So it is with all records that there are. *)
LEMMA DecodedAll ==
  ASSUME IInv
  PROVE  Decoded(Decode(records), Len(records))
<1> DEFINE N == Len(records)
<1>1. N \in Nat
  BY Typed
<1>2. PICK d : /\ d[0] = DecodeInit
               /\ \A n \in 0 .. N - 1 : d[n + 1] = DecodeRecord(d[n], records[n + 1])
               /\ Decode(records) = d[N]
  BY Typed, DecodeByRounds
<1> DEFINE S == {n \in Nat : n <= N => Decoded(d[n], n)}
<1>3. 0 \in S
  <2>1. FirstsUpTo(0) = {}
    BY DEF FirstsUpTo
  <2>2. Decoded(DecodeInit, 0)
    BY <2>1, FS_EmptySet DEF Decoded, DecodeInit
  <2> QED
    BY <1>2, <2>2
<1>4. ASSUME NEW n \in Nat, n \in S PROVE n + 1 \in S
  <2> SUFFICES ASSUME n + 1 <= N PROVE Decoded(d[n + 1], n + 1)
    OBVIOUS
  <2>1. n \in 0 .. N - 1 /\ n <= N
    BY <1>1
  <2>2. Decoded(d[n], n)
    BY <1>4, <2>1
  <2>3. Decoded(DecodeRecord(d[n], records[n + 1]), n + 1)
    BY <2>2, DecodedNext
  <2> QED
    BY <1>2, <2>1, <2>3
<1>5. N \in S
  <2> HIDE DEF S
  <2> QED
    BY <1>1, <1>3, <1>4, Induct
<1> QED
  BY <1>2, <1>5

(* The decoder's n-th chunk is the one that the encoder gave the number n.        *)
THEOREM DecoderNumbersAlike == Spec => []NumbersAgree
<1>1. IInv => NumbersAgree
  <2> SUFFICES ASSUME IInv, NEW m \in 1 .. Len(Decode(records).chunks)
               PROVE  LET c == Decode(records).chunks[m] IN
                        c \in Contents /\ Sha[c] \in DOMAIN chunks_map /\ chunks_map[Sha[c]] = m - 1
    BY DEF NumbersAgree
  <2>1. PICK k \in 1 .. Len(records) : /\ Decode(records).chunks[m] = stream[k]
                                       /\ Number(stream[k]) = m - 1
    BY DecodedAll DEF Decoded
  <2>2. k \in 1 .. Done /\ stream[k] \in Contents
    BY RecordIsOfChunk
  <2>3. Sha[stream[k]] \in DOMAIN chunks_map
    BY <2>2 DEF IInv, Map
  <2> QED
    BY <2>1, <2>2, <2>3 DEF Number
<1> QED
  BY <1>1, Invariance, PTL

(* The records decode to the chunks received, and no reference is ignored.        *)
THEOREM RecordsGiveStream == Spec => []RecordsDecode
<1>1. IInv => RecordsDecode
  <2> SUFFICES ASSUME IInv PROVE RecordsDecode
    OBVIOUS
  <2> DEFINE d == Decode(records)
             N == Len(records)
  <2>1. /\ d.ignored = 0 /\ d.output \in Seq(Contents) /\ Len(d.output) = N
        /\ \A i \in 1 .. N : d.output[i] = stream[i]
    BY DecodedAll DEF Decoded
  <2>2. N \in Nat /\ N <= Len(stream) /\ stream \in Seq(Contents) /\ Len(stream) \in Nat
    <3>1. /\ Len(records) <= Done /\ Done <= Len(stream)
          /\ Len(records) \in Nat /\ Done \in Nat /\ Len(stream) \in Nat
      BY StartIsNat, Typed
    <3> QED
      BY <3>1, Typed
  <2> HIDE DEF d, N
  <2>3. SubSeq(d.output, 1, N) = SubSeq(stream, 1, N)
    BY <2>1, <2>2
  <2>4. IsPrefix(d.output, stream)
    BY <2>1, <2>2, <2>3 DEF IsPrefix
  <2> QED
    BY <2>1, <2>4 DEF RecordsDecode, d, N
<1> QED
  BY <1>1, Invariance, PTL

(* A file of fewer packets than the ring has slots: its outputs are in the order  *)
(* of the packets, so that it is the records, and they decode to the stream.     *)
THEOREM ShortFileIsStream == Spec => []ShortFileDecodes
<1>1. IInv => ShortFileDecodes
  <2> SUFFICES ASSUME IInv, Finished, written < NUM_PACKETS
               PROVE  Decode(File).output = stream
    BY DEF ShortFileDecodes
  <2>1. File = records
    <3>1. \A j \in 1 .. written : PacketAt(j - 1, written) + 1 = j
      BY Typed DEF PacketAt
    <3>2. outputs = [j \in 1 .. written |-> outputs[j]]
      BY Typed
    <3>3. [j \in 1 .. written |-> outputs[PacketAt(j - 1, written) + 1]] = outputs
      BY <3>1, <3>2
    <3> QED
      BY <3>3 DEF File, records
  <2>2. Len(records) = Len(stream)
    BY DEF Finished, IInv, Places
  <2>3. /\ Decode(records).output \in Seq(Contents)
        /\ Len(Decode(records).output) = Len(records)
        /\ \A i \in 1 .. Len(records) : Decode(records).output[i] = stream[i]
    BY DecodedAll DEF Decoded
  <2> DEFINE x == Decode(records).output
  <2> HIDE DEF x
  <2>4. x \in Seq(Contents) /\ stream \in Seq(Contents) /\ Len(x) = Len(stream)
        /\ \A i \in 1 .. Len(x) : x[i] = stream[i]
    BY <2>2, <2>3, Typed DEF x
  <2>5. x = stream
    BY <2>4, SeqEqual
  <2> QED
    BY <2>1, <2>5 DEF x
<1> QED
  BY <1>1, Invariance, PTL

=============================================================================
