---------------------------- MODULE PacketProofs ----------------------------
(***************************************************************************)
(* Proofs about the two stages that look at the bytes of one packet: cdc_eff(), *)
(* which cuts it into chunks, and sha(), which hashes them.                    *)
(*                                                                         *)
(* The chunks, for every content, every length and every size of block,      *)
(* chunk, window and buffer that SizesAssumption allows: the first part does   *)
(* not depend on the hash, wherever the target is hit; the second is about the *)
(* hash and where it is.  The blocks that are hashed, for every packet of      *)
(* chunks.                                                                   *)
(***************************************************************************)
EXTENDS Chunker, ShaBlocks, Basics, TLAPS

-----------------------------------------------------------------------------
(* Arithmetic *)

(* The sizes as numbers, and curr_chunk[] as many minimum chunks as a block. *)
LEMMA Sizes ==
  /\ MIN_CHUNK_SIZE \in Nat \ {0} /\ WIN_SIZE \in Nat \ {0}
  /\ BLOCKSIZE \in Nat /\ BUFFER \in Nat /\ UINT_RANGE \in Nat \ {0}
  /\ MAX_NUM_CHUNKS \in Nat \ {0}
  /\ BLOCKSIZE = MIN_CHUNK_SIZE * MAX_NUM_CHUNKS
  /\ BLOCKSIZE + MIN_CHUNK_SIZE + WIN_SIZE <= BUFFER
  /\ BUFFER + MIN_CHUNK_SIZE < UINT_RANGE
<1>1. /\ MIN_CHUNK_SIZE \in Nat \ {0} /\ WIN_SIZE \in Nat \ {0}
      /\ BLOCKSIZE \in Nat /\ BUFFER \in Nat /\ UINT_RANGE \in Nat \ {0}
      /\ MIN_CHUNK_SIZE <= BLOCKSIZE /\ BLOCKSIZE % MIN_CHUNK_SIZE = 0
      /\ BLOCKSIZE + MIN_CHUNK_SIZE + WIN_SIZE <= BUFFER
      /\ BUFFER + MIN_CHUNK_SIZE < UINT_RANGE
  BY SizesAssumption
<1>2. /\ BLOCKSIZE = MIN_CHUNK_SIZE * MAX_NUM_CHUNKS + (BLOCKSIZE % MIN_CHUNK_SIZE)
      /\ MAX_NUM_CHUNKS \in Nat
  BY <1>1, DivMod DEF MAX_NUM_CHUNKS
<1>3. MIN_CHUNK_SIZE * MAX_NUM_CHUNKS \in Nat
  <2> HIDE DEF MAX_NUM_CHUNKS
  <2> QED
    BY <1>1, <1>2
<1>4. BLOCKSIZE = MIN_CHUNK_SIZE * MAX_NUM_CHUNKS
  <2> DEFINE p == MIN_CHUNK_SIZE * MAX_NUM_CHUNKS
  <2> HIDE DEF p
  <2> QED
    BY <1>1, <1>2, <1>3 DEF p
<1>5. MAX_NUM_CHUNKS # 0
  <2> SUFFICES ASSUME MAX_NUM_CHUNKS = 0 PROVE FALSE
    OBVIOUS
  <2>1. MIN_CHUNK_SIZE * MAX_NUM_CHUNKS = 0
    BY <1>1
  <2> QED
    BY <1>1, <1>4, <2>1
<1> QED
  BY <1>1, <1>2, <1>4, <1>5

(* A chunk that begins before the end of a block leaves an entry for the next. *)
LEMMA EntryLeft ==
  ASSUME NEW n \in Nat, MIN_CHUNK_SIZE * (n + 1) < BLOCKSIZE
  PROVE  n + 1 \in ChunkNums
<1>1. /\ MIN_CHUNK_SIZE \in Nat \ {0} /\ MAX_NUM_CHUNKS \in Nat
      /\ BLOCKSIZE = MIN_CHUNK_SIZE * MAX_NUM_CHUNKS
  BY Sizes
<1> DEFINE d == (n + 1) - MAX_NUM_CHUNKS
<1>2. SUFFICES ASSUME d \in Nat PROVE FALSE
  BY <1>1 DEF ChunkNums
<1>3. n + 1 = MAX_NUM_CHUNKS + d
  BY <1>1
<1> HIDE DEF d
<1>4. MIN_CHUNK_SIZE * (MAX_NUM_CHUNKS + d) = MIN_CHUNK_SIZE * MAX_NUM_CHUNKS + MIN_CHUNK_SIZE * d
  BY <1>1, <1>2, SMT
<1>5. MIN_CHUNK_SIZE * d \in Nat /\ MIN_CHUNK_SIZE * MAX_NUM_CHUNKS \in Nat
  BY <1>1, <1>2, SMT
<1> DEFINE p == MIN_CHUNK_SIZE * d
           q == MIN_CHUNK_SIZE * MAX_NUM_CHUNKS
<1>6. q + p < q /\ p \in Nat /\ q \in Nat
  BY <1>1, <1>3, <1>4, <1>5
<1> HIDE DEF p, q
<1> QED
  BY <1>6

(* A chunk's size is what its bounds say while they are inside the buffer. *)
LEMMA SizeIsDifference ==
  ASSUME NEW lower \in Nat, NEW upper \in Nat, lower <= upper + 1, upper <= BUFFER
  PROVE  SizeOf(lower, upper) = upper - lower + 1
<1>1. upper - lower + 1 \in 0 .. UINT_RANGE - 1 /\ UINT_RANGE \in Nat \ {0}
  BY Sizes
<1> QED
  BY <1>1, ModSmall DEF SizeOf

(* The loop's condition: length - MIN_CHUNK_SIZE, or out of reach. *)
LEMMA LoopCondition ==
  ASSUME NEW len \in 0 .. BUFFER, length = len, NEW j \in Nat, i = j, j <= BUFFER
  PROVE  InLoop <=> len < MIN_CHUNK_SIZE \/ j + MIN_CHUNK_SIZE < len
<1>1. /\ MIN_CHUNK_SIZE \in Nat \ {0} /\ UINT_RANGE \in Nat \ {0} /\ BUFFER \in Nat
      /\ BUFFER + MIN_CHUNK_SIZE < UINT_RANGE
  BY Sizes
<1>2. CASE len >= MIN_CHUNK_SIZE
  <2>1. len - MIN_CHUNK_SIZE \in 0 .. UINT_RANGE - 1
    BY <1>1, <1>2
  <2>2. (len - MIN_CHUNK_SIZE) % UINT_RANGE = len - MIN_CHUNK_SIZE
    BY <1>1, <2>1, ModSmall
  <2> QED
    BY <1>1, <1>2, <2>2 DEF InLoop
<1>3. CASE len < MIN_CHUNK_SIZE
  <2> DEFINE w == len - MIN_CHUNK_SIZE + UINT_RANGE
  <2>1. w \in 0 .. UINT_RANGE - 1 /\ w > BUFFER
    BY <1>1, <1>3
  <2>2. (len - MIN_CHUNK_SIZE) % UINT_RANGE = w
    <3>1. (len - MIN_CHUNK_SIZE) % UINT_RANGE = w % UINT_RANGE
      BY <1>1, SMT
    <3> HIDE DEF w
    <3> QED
      BY <1>1, <2>1, <3>1, ModSmall
  <2> HIDE DEF w
  <2> QED
    BY <1>1, <1>3, <2>1, <2>2 DEF InLoop
<1> QED
  BY <1>1, <1>2, <1>3

-----------------------------------------------------------------------------
(* The steps *)

(* The first chunk begins at byte 0. *)
LEMMA InitIInv == Init => IInv
<1> SUFFICES ASSUME Init PROVE IInv
  OBVIOUS
<1>1. 0 \in ChunkNums
  BY Sizes DEF ChunkNums
<1>2. TypeOK
  BY <1>1 DEF Init, TypeOK, ChunkRecord
<1>3. Position /\ TiledSoFar /\ ChunksTile /\ OverrunsOnlyOutside
  BY DEF Init, Position, TiledSoFar, ChunksTile, OverrunsOnlyOutside
<1> QED
  BY <1>2, <1>3 DEF IInv

(* The search for the first chunk's end begins MIN_CHUNK_SIZE bytes on. *)
LEMMA StartStep == IInv /\ Start => IInv'
<1> SUFFICES ASSUME IInv, Start PROVE IInv'
  OBVIOUS
<1>1. /\ length' = length /\ chunk_num' = chunk_num /\ num_of_chunks' = num_of_chunks
      /\ i' = MIN_CHUNK_SIZE /\ pc' = "loop"
      /\ curr_chunk' = [curr_chunk EXCEPT ![0].lower_bound = 0]
  BY DEF Start
<1>2. /\ length \in Lengths /\ chunk_num = 0 /\ num_of_chunks \in Nat
      /\ curr_chunk \in [ChunkNums -> ChunkRecord]
  BY DEF IInv, TypeOK, Position, Start
<1>3. 0 \in ChunkNums
  BY Sizes DEF ChunkNums
<1>4. /\ curr_chunk' \in [ChunkNums -> ChunkRecord]
      /\ curr_chunk'[0].lower_bound = 0
  BY <1>1, <1>2, <1>3 DEF ChunkRecord
<1>5. TypeOK'
  BY <1>1, <1>2, <1>3, <1>4, Sizes DEF TypeOK
<1>6. Position'
  <2>1. length \in 0 .. BUFFER
    BY <1>2, LengthsAssumption
  <2> QED
    BY <1>1, <1>2, <1>4, <2>1, Sizes DEF Position, Chunk
<1>7. TiledSoFar' /\ ChunksTile' /\ OverrunsOnlyOutside'
  BY <1>1, <1>2, <1>4 DEF TiledSoFar, ChunksTile, OverrunsOnlyOutside, Chunk
<1> QED
  BY <1>5, <1>6, <1>7 DEF IInv

(* The facts that every iteration begins with. *)
LEMMA LoopFacts ==
  ASSUME IInv, pc = "loop"
  PROVE  /\ length \in 0 .. BUFFER /\ length \in Lengths
         /\ i \in Nat /\ i + WIN_SIZE <= BUFFER
         /\ chunk_num \in Nat /\ chunk_num \in ChunkNums /\ num_of_chunks \in Nat
         /\ curr_chunk \in [ChunkNums -> ChunkRecord]
         /\ curr_chunk[chunk_num].lower_bound \in Nat
         /\ curr_chunk[chunk_num].lower_bound + MIN_CHUNK_SIZE <= i + 1
         /\ MIN_CHUNK_SIZE * (chunk_num + 1) <= i
         /\ InLoop <=> length < MIN_CHUNK_SIZE \/ i + MIN_CHUNK_SIZE < length
<1>1. /\ length \in 0 .. BUFFER /\ length \in Lengths
      /\ i \in Nat /\ i + WIN_SIZE <= BUFFER
      /\ chunk_num \in ChunkNums /\ num_of_chunks \in Nat
      /\ curr_chunk \in [ChunkNums -> ChunkRecord]
      /\ curr_chunk[chunk_num].lower_bound + MIN_CHUNK_SIZE <= i + 1
      /\ MIN_CHUNK_SIZE * (chunk_num + 1) <= i
  BY LengthsAssumption DEF IInv, TypeOK, Position, Chunk
<1>2. chunk_num \in Nat
  BY <1>1 DEF ChunkNums
<1>3. curr_chunk[chunk_num].lower_bound \in Nat
  BY <1>1 DEF ChunkRecord
<1>4. InLoop <=> length < MIN_CHUNK_SIZE \/ i + MIN_CHUNK_SIZE < length
  BY <1>1, LoopCondition, Sizes
<1> QED
  BY <1>1, <1>2, <1>3, <1>4

(* A cut ends a chunk of at least MIN_CHUNK_SIZE bytes and leaves as many behind. *)
LEMMA CutStep == IInv /\ Cut => IInv'
<1> SUFFICES ASSUME IInv, Cut PROVE IInv'
  OBVIOUS
<1> DEFINE n == chunk_num
           lower == curr_chunk[n].lower_bound
           min == MIN_CHUNK_SIZE
<1>1. /\ length' = length /\ n' = n + 1 /\ num_of_chunks' = num_of_chunks
      /\ i' = i + min /\ pc = "loop" /\ pc' = "loop" /\ InLoop
      /\ n + 1 \in ChunkNums /\ i + min + WIN_SIZE <= BUFFER
      /\ curr_chunk' =
           [curr_chunk EXCEPT ![n].upper_bound = i,
                              ![n].size = SizeOf(lower, i),
                              ![n + 1].lower_bound = i + 1]
  BY DEF Cut, CutIsDefined, NextStart, NextLower
<1>2. /\ length \in 0 .. BUFFER /\ length \in Lengths /\ i \in Nat
      /\ n \in Nat /\ n \in ChunkNums /\ num_of_chunks \in Nat
      /\ curr_chunk \in [ChunkNums -> ChunkRecord]
      /\ lower \in Nat /\ lower + min <= i + 1
      /\ min * (n + 1) <= i
      /\ length < min \/ i + min < length
      /\ min \in Nat \ {0} /\ WIN_SIZE \in Nat \ {0} /\ BUFFER \in Nat
  BY <1>1, LoopFacts, Sizes
<1>3. SizeOf(lower, i) = i - lower + 1 /\ i - lower + 1 \in Nat /\ i - lower + 1 >= min
  <2>1. lower <= i + 1 /\ i <= BUFFER
    BY <1>1, <1>2
  <2>2. SizeOf(lower, i) = i - lower + 1
    BY <1>2, <2>1, SizeIsDifference
  <2> QED
    BY <1>2, <2>2
<1>4. /\ curr_chunk' \in [ChunkNums -> ChunkRecord]
      /\ curr_chunk'[n] = [curr_chunk[n] EXCEPT !.upper_bound = i, !.size = i - lower + 1]
      /\ curr_chunk'[n + 1] = [curr_chunk[n + 1] EXCEPT !.lower_bound = i + 1]
      /\ \A c \in ChunkNums : c # n /\ c # n + 1 => curr_chunk'[c] = curr_chunk[c]
  <2>1. i + 1 \in Nat /\ n # n + 1
    BY <1>2
  <2> HIDE DEF n, lower
  <2> QED
    BY <1>1, <1>2, <1>3, <2>1 DEF ChunkRecord
<1>5. /\ curr_chunk'[n].upper_bound = i /\ curr_chunk'[n].size = i - lower + 1
      /\ curr_chunk'[n].lower_bound = lower
      /\ curr_chunk'[n + 1].lower_bound = i + 1
  BY <1>1, <1>2, <1>4 DEF ChunkRecord
<1>6. TypeOK'
  BY <1>1, <1>2, <1>4 DEF TypeOK
<1>7. Position'
  <2>1. min * ((n + 1) + 1) = min * (n + 1) + min /\ min * (n + 1) \in Nat
    BY <1>2, SMT
  <2>2. min * ((n + 1) + 1) <= i + min
    <3> DEFINE p == min * (n + 1)
    <3> HIDE DEF p
    <3> QED
      BY <1>2, <2>1 DEF p
  <2>3. curr_chunk'[n'].lower_bound = i + 1 /\ min * (n' + 1) <= i'
    BY <1>1, <1>5, <2>2
  <2>4. /\ i' + WIN_SIZE <= BUFFER
        /\ (i + 1) + min <= i' + 1
        /\ length' >= min => (i + 1) + min <= length'
    BY <1>1, <1>2
  <2> QED
    BY <1>1, <2>3, <2>4 DEF Position, Chunk
<1>8. TiledSoFar'
  <2>1. /\ curr_chunk[0].lower_bound = 0
        /\ \A c \in 1 .. n : curr_chunk[c].lower_bound = curr_chunk[c - 1].upper_bound + 1
        /\ \A c \in 0 .. n - 1 :
             /\ curr_chunk[c].size = curr_chunk[c].upper_bound - curr_chunk[c].lower_bound + 1
             /\ curr_chunk[c].size >= min
    BY <1>1 DEF IInv, TiledSoFar, Chunk
  <2>2. \A c \in 0 .. n + 1 : c \in ChunkNums
    <3>1. n + 1 \in 0 .. MAX_NUM_CHUNKS - 1 /\ n \in Nat
      BY <1>1, <1>2 DEF ChunkNums
    <3>2. MAX_NUM_CHUNKS \in Nat
      BY Sizes
    <3> HIDE DEF n
    <3> QED
      BY <3>1, <3>2 DEF ChunkNums
  <2>3. \A c \in 0 .. n : curr_chunk'[c].lower_bound = curr_chunk[c].lower_bound
    <3> SUFFICES ASSUME NEW c \in 0 .. n
                 PROVE  curr_chunk'[c].lower_bound = curr_chunk[c].lower_bound
      OBVIOUS
    <3>1. c \in ChunkNums /\ c # n + 1
      BY <1>2, <2>2
    <3> QED
      BY <1>4, <1>5, <3>1
  <2>4. \A c \in 0 .. n - 1 : /\ curr_chunk'[c].upper_bound = curr_chunk[c].upper_bound
                              /\ curr_chunk'[c].size = curr_chunk[c].size
    <3> SUFFICES ASSUME NEW c \in 0 .. n - 1
                 PROVE  curr_chunk'[c] = curr_chunk[c]
      OBVIOUS
    <3>1. c \in ChunkNums /\ c # n + 1 /\ c # n
      BY <1>2, <2>2
    <3> QED
      BY <1>4, <3>1
  <2>5. curr_chunk'[0].lower_bound = 0
    BY <1>2, <2>1, <2>3
  <2>6. ASSUME NEW c \in 1 .. n + 1
        PROVE  curr_chunk'[c].lower_bound = curr_chunk'[c - 1].upper_bound + 1
    <3>1. CASE c = n + 1
      BY <1>2, <1>5, <3>1
    <3>2. CASE c # n + 1
      <4>1. c \in 1 .. n /\ c \in 0 .. n /\ c - 1 \in 0 .. n - 1
        BY <1>2, <2>6, <3>2
      <4> QED
        BY <2>1, <2>3, <2>4, <4>1
    <3> QED
      BY <3>1, <3>2
  <2>7. ASSUME NEW c \in 0 .. n
        PROVE  /\ curr_chunk'[c].size = curr_chunk'[c].upper_bound - curr_chunk'[c].lower_bound + 1
               /\ curr_chunk'[c].size >= min
    <3>1. CASE c = n
      BY <1>3, <1>5, <3>1
    <3>2. CASE c # n
      <4>1. c \in 0 .. n - 1
        BY <1>2, <2>7, <3>2
      <4> QED
        BY <2>1, <2>3, <2>4, <4>1
    <3> QED
      BY <3>1, <3>2
  <2>8. (n + 1) - 1 = n
    BY <1>2
  <2> QED
    BY <1>1, <2>5, <2>6, <2>7, <2>8 DEF TiledSoFar, Chunk
<1>9. ChunksTile' /\ OverrunsOnlyOutside'
  BY <1>1 DEF ChunksTile, OverrunsOnlyOutside
<1> QED
  BY <1>6, <1>7, <1>8, <1>9 DEF IInv

(* A slide keeps the chunk's first byte and goes one byte on. *)
LEMMA SlideStep == IInv /\ Slide => IInv'
<1> SUFFICES ASSUME IInv, Slide PROVE IInv'
  OBVIOUS
<1>1. /\ length' = length /\ chunk_num' = chunk_num /\ num_of_chunks' = num_of_chunks
      /\ i' = i + 1 /\ pc = "loop" /\ pc' = "loop" /\ curr_chunk' = curr_chunk
      /\ i + WIN_SIZE \in Offsets
  BY DEF Slide, SlideIsDefined
<1>2. i \in Nat /\ i + 1 \in Nat /\ i + WIN_SIZE <= BUFFER - 1
      /\ chunk_num \in Nat /\ MIN_CHUNK_SIZE * (chunk_num + 1) <= i
      /\ curr_chunk[chunk_num].lower_bound \in Nat
      /\ curr_chunk[chunk_num].lower_bound + MIN_CHUNK_SIZE <= i + 1
  BY <1>1, LoopFacts DEF Offsets
<1>3. TypeOK'
  BY <1>1, <1>2 DEF IInv, TypeOK
<1>4. Position'
  <2>1. /\ (i + 1) + WIN_SIZE <= BUFFER
        /\ curr_chunk[chunk_num].lower_bound + MIN_CHUNK_SIZE <= (i + 1) + 1
    BY <1>2, Sizes
  <2>2. MIN_CHUNK_SIZE * (chunk_num + 1) <= i + 1
    <3> DEFINE p == MIN_CHUNK_SIZE * (chunk_num + 1)
    <3>1. p \in Nat /\ p <= i
      BY <1>2, Sizes, SMT
    <3> HIDE DEF p
    <3>2. p <= i + 1
      BY <1>2, <3>1
    <3> QED
      BY <3>2 DEF p
  <2> QED
    BY <1>1, <2>1, <2>2 DEF IInv, Position, Chunk
<1>5. TiledSoFar' /\ ChunksTile' /\ OverrunsOnlyOutside'
  BY <1>1 DEF IInv, TiledSoFar, ChunksTile, OverrunsOnlyOutside, Chunk
<1> QED
  BY <1>3, <1>4, <1>5 DEF IInv

(* An iteration whose packet is neither too short nor too long is inside the    *)
(* array and the buffer.                                                      *)
LEMMA UndefinedStep == IInv /\ Undefined => IInv'
<1> SUFFICES ASSUME IInv, Undefined PROVE IInv'
  OBVIOUS
<1>1. /\ length' = length /\ chunk_num' = chunk_num /\ num_of_chunks' = num_of_chunks
      /\ i' = i /\ pc = "loop" /\ pc' = "undefined" /\ curr_chunk' = curr_chunk
      /\ InLoop
      /\ IF Hit THEN ~CutIsDefined ELSE ~SlideIsDefined
  BY DEF Undefined
<1>2. /\ length \in 0 .. BUFFER /\ i \in Nat /\ chunk_num \in Nat
      /\ MIN_CHUNK_SIZE * (chunk_num + 1) <= i
      /\ length < MIN_CHUNK_SIZE \/ i + MIN_CHUNK_SIZE < length
  BY <1>1, LoopFacts
<1>3. length < MIN_CHUNK_SIZE \/ length > BLOCKSIZE + MIN_CHUNK_SIZE
  <2> SUFFICES ASSUME length >= MIN_CHUNK_SIZE, length <= BLOCKSIZE + MIN_CHUNK_SIZE
               PROVE  CutIsDefined /\ SlideIsDefined
    BY <1>1, <1>2, Sizes
  <2>1. /\ i < BLOCKSIZE /\ i + MIN_CHUNK_SIZE + WIN_SIZE <= BUFFER
        /\ i + WIN_SIZE \in 0 .. BUFFER - 1
    BY <1>2, Sizes
  <2>2. MIN_CHUNK_SIZE * (chunk_num + 1) < BLOCKSIZE
    <3> DEFINE p == MIN_CHUNK_SIZE * (chunk_num + 1)
    <3>1. p \in Nat /\ p <= i
      BY <1>2, Sizes, SMT
    <3> HIDE DEF p
    <3>2. p < BLOCKSIZE
      BY <1>2, <2>1, <3>1, Sizes
    <3> QED
      BY <3>2 DEF p
  <2>3. chunk_num + 1 \in ChunkNums
    BY <1>2, <2>2, EntryLeft
  <2> QED
    BY <2>1, <2>3 DEF CutIsDefined, SlideIsDefined, Offsets
<1>4. TypeOK'
  BY <1>1 DEF IInv, TypeOK
<1>5. Position' /\ TiledSoFar' /\ ChunksTile'
  BY <1>1 DEF Position, TiledSoFar, ChunksTile
<1>6. OverrunsOnlyOutside'
  BY <1>1, <1>3 DEF OverrunsOnlyOutside
<1> QED
  BY <1>4, <1>5, <1>6 DEF IInv

(* The last chunk takes the rest, which is a minimum chunk or more. *)
LEMMA CloseStep == IInv /\ Close => IInv'
<1> SUFFICES ASSUME IInv, Close PROVE IInv'
  OBVIOUS
<1> DEFINE n == chunk_num
           lower == curr_chunk[n].lower_bound
           min == MIN_CHUNK_SIZE
           upper == (length - 1) % UINT_RANGE
<1>1. /\ length' = length /\ n' = n /\ num_of_chunks' = n + 1
      /\ i' = i /\ pc = "loop" /\ pc' = "done" /\ ~InLoop
      /\ curr_chunk' = [curr_chunk EXCEPT ![n].upper_bound = upper,
                                          ![n].size = SizeOf(lower, upper)]
  BY DEF Close
<1>2. /\ length \in 0 .. BUFFER /\ length \in Lengths /\ i \in Nat
      /\ n \in Nat /\ n \in ChunkNums
      /\ curr_chunk \in [ChunkNums -> ChunkRecord]
      /\ lower \in Nat /\ length >= min
      /\ min \in Nat \ {0} /\ BUFFER \in Nat
  BY <1>1, LoopFacts, Sizes
<1>3. lower + min <= length
  BY <1>1, <1>2 DEF IInv, Position, Chunk
<1>4. upper = length - 1
  <2>1. length - 1 \in 0 .. UINT_RANGE - 1 /\ UINT_RANGE \in Nat \ {0}
    BY <1>2, Sizes
  <2> QED
    BY <2>1, ModSmall
<1> HIDE DEF upper
<1>5. SizeOf(lower, upper) = upper - lower + 1 /\ upper - lower + 1 >= min /\ upper \in Nat
  <2>1. lower <= upper + 1 /\ upper <= BUFFER /\ upper \in Nat
    BY <1>2, <1>3, <1>4
  <2>2. SizeOf(lower, upper) = upper - lower + 1
    BY <1>2, <2>1, SizeIsDifference
  <2> QED
    BY <1>2, <1>3, <1>4, <2>1, <2>2
<1>6. upper - lower + 1 \in Nat
  BY <1>2, <1>5
<1>7. /\ curr_chunk' \in [ChunkNums -> ChunkRecord]
      /\ curr_chunk'[n].upper_bound = upper
      /\ curr_chunk'[n].size = upper - lower + 1
      /\ curr_chunk'[n].lower_bound = lower
      /\ \A c \in ChunkNums : c # n => curr_chunk'[c] = curr_chunk[c]
      /\ \A c \in ChunkNums : curr_chunk'[c].lower_bound = curr_chunk[c].lower_bound
  <2> HIDE DEF n
  <2> QED
    BY <1>1, <1>2, <1>5, <1>6 DEF ChunkRecord
<1>8. TypeOK'
  BY <1>1, <1>2, <1>7 DEF TypeOK
<1>9. Position' /\ TiledSoFar'
  BY <1>1 DEF Position, TiledSoFar
<1>10. OverrunsOnlyOutside'
  BY <1>1, <1>2 DEF OverrunsOnlyOutside
<1>11. ChunksTile'
  <2>1. /\ curr_chunk[0].lower_bound = 0
        /\ \A c \in 1 .. n : curr_chunk[c].lower_bound = curr_chunk[c - 1].upper_bound + 1
        /\ \A c \in 0 .. n - 1 :
             /\ curr_chunk[c].size = curr_chunk[c].upper_bound - curr_chunk[c].lower_bound + 1
             /\ curr_chunk[c].size >= min
    BY <1>1 DEF IInv, TiledSoFar, Chunk
  <2>2. \A c \in 0 .. n : c \in ChunkNums
    BY <1>2, Sizes DEF ChunkNums
  <2>3. ASSUME NEW c \in 0 .. n - 1
        PROVE  c \in ChunkNums /\ curr_chunk'[c] = curr_chunk[c]
    <3>1. c \in 0 .. n /\ c # n
      BY <1>2
    <3> QED
      BY <1>7, <2>2, <3>1
  <2>4. n + 1 \in 1 .. MAX_NUM_CHUNKS /\ (n + 1) - 1 = n
    BY <1>2, Sizes DEF ChunkNums
  <2>5. curr_chunk'[0].lower_bound = 0
    BY <1>2, <1>7, <2>1, <2>2
  <2>6. ASSUME NEW c \in 1 .. n
        PROVE  curr_chunk'[c].lower_bound = curr_chunk'[c - 1].upper_bound + 1
    <3>1. c \in 0 .. n /\ c - 1 \in 0 .. n - 1
      BY <1>2
    <3> QED
      BY <1>7, <2>1, <2>2, <2>3, <3>1
  <2>7. ASSUME NEW c \in 0 .. n
        PROVE  /\ curr_chunk'[c].size = curr_chunk'[c].upper_bound - curr_chunk'[c].lower_bound + 1
               /\ curr_chunk'[c].size >= min
    <3>1. CASE c = n
      BY <1>5, <1>7, <3>1
    <3>2. CASE c # n
      <4>1. c \in 0 .. n - 1
        BY <1>2, <2>7, <3>2
      <4> QED
        BY <2>1, <2>3, <4>1
    <3> QED
      BY <3>1, <3>2
  <2>8. curr_chunk'[n].upper_bound = length' - 1
    BY <1>1, <1>4, <1>7
  <2>9. num_of_chunks' = n + 1
    BY <1>1
  <2> HIDE DEF n
  <2> QED
    BY <1>1, <2>4, <2>5, <2>6, <2>7, <2>8, <2>9 DEF ChunksTile, Chunk
<1> QED
  BY <1>8, <1>9, <1>10, <1>11 DEF IInv

(* A step that changes nothing. *)
LEMMA StutterStep == IInv /\ UNCHANGED vars => IInv'
<1> SUFFICES ASSUME IInv, UNCHANGED vars PROVE IInv'
  OBVIOUS
<1>1. /\ length' = length /\ chunk_num' = chunk_num /\ num_of_chunks' = num_of_chunks
      /\ i' = i /\ pc' = pc /\ curr_chunk' = curr_chunk
  BY DEF vars
<1>2. TypeOK' /\ Position'
  BY <1>1 DEF IInv, TypeOK, Position, Chunk
<1>3. TiledSoFar' /\ ChunksTile' /\ OverrunsOnlyOutside'
  BY <1>1 DEF IInv, TiledSoFar, ChunksTile, OverrunsOnlyOutside, Chunk
<1> QED
  BY <1>2, <1>3 DEF IInv

-----------------------------------------------------------------------------
(* The theorems *)

(* While cdc_eff() runs it is as many minimum sizes into the packet as it has   *)
(* cut chunks, and the chunks it has cut follow each other.                   *)
THEOREM Invariance == Spec => []IInv
<1>1. IInv /\ [Next]_vars => IInv'
  BY StartStep, CutStep, SlideStep, UndefinedStep, CloseStep, StutterStep DEF Next
<1> QED
  BY InitIInv, <1>1, PTL DEF Spec

(* Whatever the bytes, and whatever the sizes, the chunks of a packet follow    *)
(* each other from its first byte to its last, none too short.                *)
THEOREM ChunksAlwaysTile == Spec => []ChunksTile
<1>1. IInv => ChunksTile
  BY DEF IInv
<1> QED
  BY <1>1, Invariance, PTL

(* For every packet of MIN_CHUNK_SIZE bytes to MIN_CHUNK_SIZE more than a block *)
(* the loop stays inside curr_chunk[] and the buffer; a shorter one always      *)
(* overruns.                                                                 *)
THEOREM InsideForLegalLengths == Spec => []OverrunsOnlyOutside
<1>1. IInv => OverrunsOnlyOutside
  BY DEF IInv
<1> QED
  BY <1>1, Invariance, PTL

-----------------------------------------------------------------------------
(* The hash *)

(* What was read of the packet, and where the target was hit so far.          *)
Searched ==
  pc = "loop" =>
    /\ \A c \in 0 .. chunk_num - 1 :
         /\ HitAt(Chunk(c).upper_bound)
         /\ \A j \in SearchStart(c) .. Chunk(c).upper_bound - 1 : ~HitAt(j)
    /\ \A j \in SearchStart(chunk_num) .. i - 1 : ~HitAt(j)

HashInv ==
  /\ buff \in [Offsets -> Bytes]
  /\ pc = "loop" => hash = hash_func(i)
  /\ Searched
  /\ ContentDefined

(* The powers of the prime, one from the other. *)
LEMMA PowerTable ==
  /\ power_table[0] = PRIME
  /\ \A n \in 1 .. WIN_SIZE : power_table[n] = power_table[n - 1] * PRIME
  /\ \A n \in 0 .. WIN_SIZE : power_table[n] \in Int
<1> DEFINE IsTable(f) ==
             f = [n \in 0 .. WIN_SIZE |-> IF n = 0 THEN PRIME ELSE f[n - 1] * PRIME]
           G == [p \in (1 .. WIN_SIZE) \X Int |-> p[2] * PRIME]
<1>1. WIN_SIZE \in Nat /\ PRIME \in Int
  BY Sizes, HashAssumption
<1>2. G \in [(1 .. WIN_SIZE) \X Int -> Int]
  BY <1>1
<1> HIDE DEF G
<1>0. PICK f : RecursiveBy(f, WIN_SIZE, Int, PRIME, G)
  BY <1>1, <1>2, RecursionExists, Zenon
<1> USE DEF G
<1>3. /\ f \in [0 .. WIN_SIZE -> Int]
      /\ f[0] = PRIME /\ \A n \in 1 .. WIN_SIZE : f[n] = G[<<n, f[n - 1]>>]
  <2> HIDE DEF G
  <2> QED
    BY <1>0 DEF RecursiveBy
<1>4. ASSUME NEW n \in 0 .. WIN_SIZE
      PROVE  f[n] = IF n = 0 THEN PRIME ELSE f[n - 1] * PRIME
  <2>1. CASE n = 0
    BY <1>3, <2>1
  <2>2. CASE n # 0
    <3>1. n \in 1 .. WIN_SIZE /\ n - 1 \in 0 .. WIN_SIZE
      BY <1>1, <2>2
    <3>2. f[n] = G[<<n, f[n - 1]>>] /\ f[n - 1] \in Int
      BY <1>3, <3>1
    <3> QED
      BY <2>2, <3>1, <3>2
  <2> QED
    BY <2>1, <2>2
<1>5. IsTable(f)
  BY <1>3, <1>4
<1>6. IsTable(power_table)
  BY <1>5 DEF power_table
<1>7. \A n \in 0 .. WIN_SIZE :
        power_table[n] = IF n = 0 THEN PRIME ELSE power_table[n - 1] * PRIME
  BY <1>6
<1> HIDE DEF IsTable
<1>8. power_table[0] = PRIME
  BY <1>1, <1>7
<1>9. ASSUME NEW n \in 1 .. WIN_SIZE PROVE power_table[n] = power_table[n - 1] * PRIME
  BY <1>1, <1>7
<1> DEFINE S == {n \in Nat : n <= WIN_SIZE => power_table[n] \in Int}
<1>10. 0 \in S
  BY <1>1, <1>8
<1>11. ASSUME NEW n \in Nat, n \in S PROVE n + 1 \in S
  <2> SUFFICES ASSUME n + 1 <= WIN_SIZE PROVE power_table[n + 1] \in Int
    OBVIOUS
  <2>1. n + 1 \in 1 .. WIN_SIZE /\ (n + 1) - 1 = n /\ power_table[n] \in Int
    BY <1>1, <1>11
  <2>2. power_table[n + 1] = power_table[n] * PRIME
    BY <1>9, <2>1
  <2> QED
    BY <1>1, <2>1, <2>2
<1> HIDE DEF S
<1>12. Nat \subseteq S
  BY <1>10, <1>11, Induct
<1>13. \A n \in 0 .. WIN_SIZE : power_table[n] \in Int
  BY <1>1, <1>12 DEF S
<1> QED
  BY <1>8, <1>9, <1>13

(* The hash of a window, byte by byte, from its last byte. *)
LEMMA WindowSum ==
  ASSUME buff \in [Offsets -> Bytes], NEW pos \in Nat, pos + WIN_SIZE <= BUFFER
  PROVE  \E f \in [0 .. WIN_SIZE -> Int] :
           /\ f[0] = 0
           /\ \A n \in 1 .. WIN_SIZE :
                f[n] = f[n - 1] + buff[pos + WIN_SIZE - n] * power_table[n - 1]
           /\ hash_func(pos) = f[WIN_SIZE] % HASH_RANGE
<1> DEFINE a(n) == buff[pos + WIN_SIZE - n] * power_table[n - 1]
           IsSum(f) == f = [n \in 0 .. WIN_SIZE |-> IF n = 0 THEN 0 ELSE f[n - 1] + a(n)]
           G == [p \in (1 .. WIN_SIZE) \X Int |-> p[2] + a(p[1])]
           s == CHOOSE f : IsSum(f)
<1>1. WIN_SIZE \in Nat /\ BUFFER \in Nat /\ Bytes \subseteq Nat
  BY Sizes, HashAssumption
<1>2. \A n \in 1 .. WIN_SIZE : a(n) \in Int
  <2> SUFFICES ASSUME NEW n \in 1 .. WIN_SIZE PROVE a(n) \in Int
    OBVIOUS
  <2>1. pos + WIN_SIZE - n \in Offsets /\ n - 1 \in 0 .. WIN_SIZE
    BY <1>1 DEF Offsets
  <2>2. buff[pos + WIN_SIZE - n] \in Int
    <3> DEFINE k == pos + WIN_SIZE - n
    <3> HIDE DEF k
    <3>1. k \in Offsets
      BY <2>1 DEF k
    <3>2. buff[k] \in Bytes
      BY <3>1
    <3>3. \A x \in Bytes : x \in Int
      BY <1>1
    <3>4. buff[k] \in Int
      BY <3>2, <3>3, Zenon
    <3> QED
      BY <3>4 DEF k
  <2>3. power_table[n - 1] \in Int
    BY <2>1, PowerTable
  <2> QED
    BY <2>2, <2>3
<1> HIDE DEF a
<1>3. G \in [(1 .. WIN_SIZE) \X Int -> Int]
  BY <1>2
<1> HIDE DEF G
<1>0. PICK f : RecursiveBy(f, WIN_SIZE, Int, 0, G)
  <2>1. 0 \in Int
    OBVIOUS
  <2> QED
    BY <1>1, <1>3, <2>1, RecursionExists, Zenon
<1> USE DEF G
<1>4. /\ f \in [0 .. WIN_SIZE -> Int]
      /\ f[0] = 0 /\ \A n \in 1 .. WIN_SIZE : f[n] = G[<<n, f[n - 1]>>]
  <2> HIDE DEF G
  <2> QED
    BY <1>0 DEF RecursiveBy
<1>5. ASSUME NEW n \in 1 .. WIN_SIZE PROVE f[n] = f[n - 1] + a(n)
  <2>1. n - 1 \in 0 .. WIN_SIZE
    BY <1>1
  <2> QED
    BY <1>4, <2>1
<1>6. IsSum(f)
  <2>1. \A n \in 0 .. WIN_SIZE : f[n] = IF n = 0 THEN 0 ELSE f[n - 1] + a(n)
    <3>1. \A n \in 0 .. WIN_SIZE : n = 0 \/ n \in 1 .. WIN_SIZE
      BY <1>1
    <3> QED
      BY <1>4, <1>5, <3>1
  <2> QED
    BY <1>4, <2>1
<1>7. IsSum(s)
  BY <1>6
<1>8. hash_func(pos) = s[WIN_SIZE] % HASH_RANGE
  BY DEF hash_func, a
<1> HIDE DEF s
<1>9. \A n \in 0 .. WIN_SIZE : s[n] = IF n = 0 THEN 0 ELSE s[n - 1] + a(n)
  BY <1>7
<1>10. s[0] = 0 /\ \A n \in 1 .. WIN_SIZE : s[n] = s[n - 1] + a(n)
  <2>1. 0 \in 0 .. WIN_SIZE /\ \A n \in 1 .. WIN_SIZE : n \in 0 .. WIN_SIZE /\ n # 0
    BY <1>1
  <2> QED
    BY <1>9, <2>1
<1> DEFINE S == {n \in Nat : n <= WIN_SIZE => s[n] \in Int}
<1>11. 0 \in S
  BY <1>1, <1>10
<1>12. ASSUME NEW n \in Nat, n \in S PROVE n + 1 \in S
  <2> SUFFICES ASSUME n + 1 <= WIN_SIZE PROVE s[n + 1] \in Int
    OBVIOUS
  <2>1. n + 1 \in 1 .. WIN_SIZE /\ (n + 1) - 1 = n /\ s[n] \in Int
    BY <1>1, <1>12
  <2>2. s[n + 1] = s[n] + a(n + 1) /\ a(n + 1) \in Int
    BY <1>2, <1>10, <2>1
  <2> QED
    BY <2>1, <2>2
<1> HIDE DEF S
<1>13. Nat \subseteq S
  BY <1>11, <1>12, Induct
<1>14. s \in [0 .. WIN_SIZE -> Int]
  <2>1. \A n \in 0 .. WIN_SIZE : s[n] \in Int
    BY <1>1, <1>13 DEF S
  <2>2. DOMAIN s = 0 .. WIN_SIZE /\ s = [n \in 0 .. WIN_SIZE |-> s[n]]
    BY <1>7
  <2> QED
    BY <2>1, <2>2
<1> HIDE DEF IsSum
<1> QED
  BY <1>8, <1>10, <1>14 DEF a

(* From one window's sum to the next one's. *)
LEMMA ProductMoves ==
  ASSUME NEW p \in Int, NEW x \in Int, NEW y \in Int, NEW z \in Int
  PROVE  (x + y * z) * p = x * p + y * (z * p) /\ x * p \in Int /\ y * (z * p) \in Int
  BY SMT

(* The window's hash follows from the one before it: the byte that leaves has the *)
(* highest power by then, the one that comes in the lowest.                    *)
LEMMA WindowSlides ==
  ASSUME buff \in [Offsets -> Bytes], NEW pos \in Nat, (pos + 1) + WIN_SIZE <= BUFFER
  PROVE  hash_func(pos + 1)
           = (hash_func(pos) * PRIME - buff[pos] * pow_const + buff[pos + WIN_SIZE] * PRIME)
               % HASH_RANGE
<1> DEFINE W == WIN_SIZE
           next == pos + 1
<1>1. /\ W \in Nat \ {0} /\ BUFFER \in Nat /\ PRIME \in Int /\ HASH_RANGE \in Nat \ {0}
      /\ next \in Nat /\ pos + W <= BUFFER /\ next + W <= BUFFER
  BY Sizes, HashAssumption
<1>2. PICK f \in [0 .. W -> Int] :
        /\ f[0] = 0
        /\ \A n \in 1 .. W : f[n] = f[n - 1] + buff[pos + W - n] * power_table[n - 1]
        /\ hash_func(pos) = f[W] % HASH_RANGE
  BY <1>1, WindowSum
<1> HIDE DEF next
<1>3. PICK g \in [0 .. W -> Int] :
        /\ g[0] = 0
        /\ \A n \in 1 .. W : g[n] = g[n - 1] + buff[next + W - n] * power_table[n - 1]
        /\ hash_func(next) = g[W] % HASH_RANGE
  BY <1>1, WindowSum
<1>4. \A k \in Offsets : buff[k] \in Int
  <2>1. \A x \in Bytes : x \in Int
    BY HashAssumption
  <2> QED
    BY <2>1
<1>5. pos \in Offsets /\ pos + W \in Offsets
  BY <1>1 DEF next, Offsets
<1> DEFINE last == buff[pos + W] * PRIME
<1>6. last \in Int
  <2>1. buff[pos + W] \in Int
    BY <1>4, <1>5
  <2> QED
    BY <1>1, <2>1
<1> DEFINE S == {n \in Nat : n + 1 <= W => g[n + 1] = f[n] * PRIME + last}
<1>7. 0 \in S
  <2>1. 1 \in 1 .. W /\ 1 - 1 = 0 /\ next + W - 1 = pos + W
    BY <1>1 DEF next
  <2>2. g[1] = g[0] + buff[pos + W] * power_table[0]
    BY <1>3, <2>1
  <2>3. g[1] = 0 + last /\ f[0] * PRIME = 0
    BY <1>1, <1>2, <1>3, <2>2, PowerTable
  <2> HIDE DEF last
  <2> QED
    BY <1>6, <2>3
<1>8. ASSUME NEW n \in Nat, n \in S PROVE n + 1 \in S
  <2> SUFFICES ASSUME n + 2 <= W PROVE g[n + 2] = f[n + 1] * PRIME + last
    OBVIOUS
  <2> DEFINE k == pos + W - (n + 1)
             x == f[n]
             y == buff[k]
             z == power_table[n]
  <2>1. /\ n + 1 \in 1 .. W /\ n + 2 \in 1 .. W /\ n \in 0 .. W /\ k \in Offsets
        /\ (n + 1) - 1 = n /\ (n + 2) - 1 = n + 1 /\ next + W - (n + 2) = k
    BY <1>1 DEF next, Offsets
  <2>2. x \in Int /\ y \in Int /\ z \in Int
    <3> HIDE DEF k
    <3> QED
      BY <1>2, <1>4, <2>1, PowerTable
  <2>3. g[n + 1] = x * PRIME + last
    BY <1>8, <2>1
  <2>4. f[n + 1] = x + y * z
    BY <1>2, <2>1
  <2>5. g[n + 2] = g[n + 1] + y * (z * PRIME)
    <3>1. g[n + 2] = g[n + 1] + y * power_table[n + 1]
      <4> HIDE DEF k
      <4> QED
        BY <1>3, <2>1
    <3>2. power_table[n + 1] = z * PRIME
      BY <2>1, PowerTable
    <3> QED
      BY <3>1, <3>2
  <2> HIDE DEF x, y, z, last
  <2>6. (x + y * z) * PRIME = x * PRIME + y * (z * PRIME)
        /\ x * PRIME \in Int /\ y * (z * PRIME) \in Int
    BY <1>1, <2>2, ProductMoves
  <2>7. f[n + 1] * PRIME = x * PRIME + y * (z * PRIME)
    BY <2>4, <2>6
  <2> DEFINE a == x * PRIME
             b == y * (z * PRIME)
             c == f[n + 1] * PRIME
  <2>8. a \in Int /\ b \in Int /\ c = a + b /\ g[n + 2] = (a + last) + b
    BY <2>3, <2>5, <2>6, <2>7
  <2> HIDE DEF a, b, c
  <2>9. g[n + 2] = c + last
    BY <1>6, <2>8
  <2> QED
    BY <2>9 DEF c
<1> HIDE DEF S
<1>9. Nat \subseteq S
  BY <1>7, <1>8, Induct
<1> DEFINE w == W - 1
           x == f[w]
           y == buff[pos]
           z == power_table[w]
<1>10. /\ w \in Nat /\ w + 1 = W /\ w \in 0 .. W /\ W \in 1 .. W /\ W \in 0 .. W
       /\ pos + W - W = pos /\ W - 1 = w
  BY <1>1
<1>11. x \in Int /\ y \in Int /\ z \in Int
  <2> HIDE DEF w
  <2> QED
    BY <1>2, <1>4, <1>5, <1>10, PowerTable
<1>12. f[W] = x + y * z /\ pow_const = z * PRIME
  <2> HIDE DEF w, W
  <2> QED
    BY <1>2, <1>10, PowerTable DEF pow_const, W
<1>13. g[W] = x * PRIME + last
  <2>1. w \in S
    BY <1>9, <1>10
  <2>2. g[w + 1] = f[w] * PRIME + last
    BY <1>1, <1>10, <2>1 DEF S
  <2> QED
    BY <1>10, <2>2
<1> HIDE DEF x, y, z, w, last
<1>14. (x + y * z) * PRIME = x * PRIME + y * (z * PRIME)
       /\ x * PRIME \in Int /\ y * (z * PRIME) \in Int
  BY <1>1, <1>11, ProductMoves
<1> DEFINE c == last - y * pow_const
<1>15. c \in Int /\ f[W] \in Int
  BY <1>6, <1>10, <1>12, <1>14, <1>2
<1>16. g[W] = f[W] * PRIME + c
  <2> DEFINE a == x * PRIME
             b == y * (z * PRIME)
             d == f[W] * PRIME
  <2>1. a \in Int /\ b \in Int /\ d = a + b /\ g[W] = a + last /\ c = last - b
    BY <1>12, <1>13, <1>14
  <2> HIDE DEF a, b, c, d
  <2>2. g[W] = d + c
    BY <1>6, <2>1
  <2> QED
    BY <2>2 DEF d
<1> HIDE DEF c
<1>17. ((f[W] % HASH_RANGE) * PRIME + c) % HASH_RANGE = g[W] % HASH_RANGE
  <2>1. PICK v \in Int : v = f[W]
    BY <1>15
  <2>2. ((v % HASH_RANGE) * PRIME + c) % HASH_RANGE = (v * PRIME + c) % HASH_RANGE
    BY <1>1, <1>15, ModFactor
  <2> QED
    BY <1>16, <2>1, <2>2, Zenon
<1>18. hash_func(pos) * PRIME + c = hash_func(pos) * PRIME - y * pow_const + last
  <2> DEFINE h == hash_func(pos)
             a == h * PRIME
             b == y * pow_const
  <2>1. h \in Int
    <3> HIDE DEF h
    <3>1. f[W] % HASH_RANGE \in Int
      BY <1>1, <1>15
    <3> QED
      BY <1>2, <3>1 DEF h
  <2>2. a \in Int /\ b \in Int
    <3> HIDE DEF h
    <3>1. h * PRIME \in Int
      BY <1>1, <2>1
    <3>2. y * pow_const \in Int
      BY <1>12, <1>14
    <3> QED
      BY <3>1, <3>2
  <2>3. c = last - b
    BY DEF c
  <2> HIDE DEF a, b
  <2>4. a + c = a - b + last
    BY <1>6, <2>2, <2>3
  <2> QED
    BY <2>4 DEF a, b
<1>19. hash_func(next) = (hash_func(pos) * PRIME - y * pow_const + last) % HASH_RANGE
  BY <1>2, <1>3, <1>17, <1>18
<1> QED
  BY <1>19 DEF next, y, last

-----------------------------------------------------------------------------
(* Where the target is hit *)

(* What a cut leaves of the chunks. *)
LEMMA CutBounds ==
  ASSUME IInv, Cut
  PROVE  /\ chunk_num \in Nat /\ chunk_num' = chunk_num + 1
         /\ curr_chunk'[chunk_num].upper_bound = i
         /\ curr_chunk'[chunk_num].lower_bound = curr_chunk[chunk_num].lower_bound
         /\ curr_chunk'[chunk_num + 1].lower_bound = i + 1
         /\ \A c \in 0 .. chunk_num - 1 : curr_chunk'[c] = curr_chunk[c]
<1> DEFINE n == chunk_num
<1>1. /\ n' = n + 1 /\ pc = "loop" /\ n + 1 \in ChunkNums
      /\ curr_chunk' =
           [curr_chunk EXCEPT ![n].upper_bound = i,
                              ![n].size = SizeOf(curr_chunk[n].lower_bound, i),
                              ![n + 1].lower_bound = i + 1]
  BY DEF Cut, CutIsDefined, NextLower
<1>2. /\ n \in Nat /\ n \in ChunkNums /\ n # n + 1
      /\ curr_chunk \in [ChunkNums -> ChunkRecord]
  BY <1>1, LoopFacts
<1>3. \A c \in 0 .. n - 1 : c \in ChunkNums /\ c # n /\ c # n + 1
  BY <1>2, Sizes DEF ChunkNums
<1> HIDE DEF n
<1>4. /\ curr_chunk'[n].upper_bound = i
      /\ curr_chunk'[n].lower_bound = curr_chunk[n].lower_bound
      /\ curr_chunk'[n + 1].lower_bound = i + 1
      /\ \A c \in ChunkNums : c # n /\ c # n + 1 => curr_chunk'[c] = curr_chunk[c]
  BY <1>1, <1>2 DEF ChunkRecord
<1>5. \A c \in 0 .. n - 1 : curr_chunk'[c] = curr_chunk[c]
  BY <1>3, <1>4
<1> QED
  BY <1>1, <1>2, <1>4, <1>5 DEF n

(* What closing the last chunk leaves of them. *)
LEMMA CloseBounds ==
  ASSUME IInv, Close
  PROVE  /\ chunk_num \in Nat /\ num_of_chunks' = chunk_num + 1
         /\ curr_chunk'[chunk_num].lower_bound = curr_chunk[chunk_num].lower_bound
         /\ \A c \in 0 .. chunk_num - 1 : curr_chunk'[c] = curr_chunk[c]
<1> DEFINE n == chunk_num
           u == (length - 1) % UINT_RANGE
<1>1. /\ pc = "loop" /\ num_of_chunks' = n + 1
      /\ curr_chunk' = [curr_chunk EXCEPT ![n].upper_bound = u,
                                          ![n].size = SizeOf(curr_chunk[n].lower_bound, u)]
  BY DEF Close
<1>2. /\ n \in Nat /\ n \in ChunkNums /\ curr_chunk \in [ChunkNums -> ChunkRecord]
  BY <1>1, LoopFacts
<1>3. \A c \in 0 .. n - 1 : c \in ChunkNums /\ c # n
  BY <1>2, Sizes DEF ChunkNums
<1> HIDE DEF n, u
<1>4. /\ curr_chunk'[n].lower_bound = curr_chunk[n].lower_bound
      /\ \A c \in ChunkNums : c # n => curr_chunk'[c] = curr_chunk[c]
  BY <1>1, <1>2 DEF ChunkRecord
<1>5. \A c \in 0 .. n - 1 : curr_chunk'[c] = curr_chunk[c]
  BY <1>3, <1>4
<1> QED
  BY <1>1, <1>2, <1>4, <1>5 DEF n

(* The loop's hash is the window's, and it has stopped wherever that hits. *)
LEMMA HashStep == IInv /\ IInv' /\ HashInv /\ [Next]_vars => HashInv'
<1> SUFFICES ASSUME IInv, IInv', HashInv, [Next]_vars PROVE HashInv'
  OBVIOUS
<1>1. buff' = buff /\ length' = length
  BY DEF Next, Start, Cut, Slide, Undefined, Close, vars
<1>2. /\ buff' \in [Offsets -> Bytes]
      /\ \A j : hash_func(j)' = hash_func(j)
      /\ \A j : HitAt(j)' <=> HitAt(j)
  BY <1>1 DEF HashInv, hash_func, HitAt
<1>3. CASE Start
  <2>1. /\ pc' = "loop" /\ i' = MIN_CHUNK_SIZE /\ hash' = hash_func(MIN_CHUNK_SIZE)
        /\ chunk_num' = 0
    BY <1>3 DEF Start, IInv, Position
  <2>2. hash' = hash_func(i')
    BY <2>1
  <2>3. Searched'
    <3>1. SearchStart(0)' = MIN_CHUNK_SIZE
      BY DEF SearchStart
    <3>2. \A j \in MIN_CHUNK_SIZE .. MIN_CHUNK_SIZE - 1 : FALSE
      BY Sizes
    <3>3. \A c \in 0 .. 0 - 1 : FALSE
      OBVIOUS
    <3> QED
      BY <2>1, <3>1, <3>2, <3>3 DEF Searched
  <2>4. ContentDefined'
    BY <2>1 DEF ContentDefined
  <2> QED
    BY <1>2, <2>1, <2>2, <2>3, <2>4 DEF HashInv
<1>4. CASE Cut
  <2>1. /\ pc = "loop" /\ pc' = "loop" /\ Hit /\ i' = i + MIN_CHUNK_SIZE
        /\ hash' = hash_func(i')
    BY <1>4 DEF Cut, NextStart
  <2>2. PICK n \in Nat, k \in Nat : n = chunk_num /\ k = i /\ n' = n /\ k' = k
    BY <1>4, <2>1, LoopFacts, CutBounds
  <2>3. /\ chunk_num' = n + 1 /\ i' = k + MIN_CHUNK_SIZE /\ MIN_CHUNK_SIZE \in Nat
        /\ curr_chunk'[n].upper_bound = k
        /\ curr_chunk'[n].lower_bound = curr_chunk[n].lower_bound
        /\ curr_chunk'[n + 1].lower_bound = k + 1
        /\ \A c \in 0 .. n - 1 : curr_chunk'[c] = curr_chunk[c]
    BY <1>4, <2>1, <2>2, CutBounds, Sizes
  <2>4. HitAt(k) /\ \A j \in SearchStart(n) .. k - 1 : ~HitAt(j)
    BY <2>1, <2>2 DEF HashInv, Searched, HitAt, Hit
  <2>5. ASSUME NEW c \in 0 .. n
        PROVE  /\ HitAt(Chunk(c).upper_bound)'
               /\ \A j \in SearchStart(c)' .. Chunk(c)'.upper_bound - 1 : ~HitAt(j)'
    <3>1. CASE c = n
      <4>1. SearchStart(n)' = SearchStart(n) /\ Chunk(n)'.upper_bound = k
        BY <2>3 DEF SearchStart, Chunk
      <4> QED
        BY <1>2, <2>4, <3>1, <4>1
    <3>2. CASE c # n
      <4>1. c \in 0 .. n - 1
        BY <3>2
      <4>2. SearchStart(c)' = SearchStart(c) /\ Chunk(c)' = Chunk(c)
        BY <2>3, <4>1 DEF SearchStart, Chunk
      <4>3. /\ HitAt(Chunk(c).upper_bound)
            /\ \A j \in SearchStart(c) .. Chunk(c).upper_bound - 1 : ~HitAt(j)
        BY <2>1, <2>2, <4>1 DEF HashInv, Searched
      <4> QED
        BY <1>2, <4>2, <4>3
    <3> QED
      BY <3>1, <3>2
  <2>6. SearchStart(n + 1)' = k + MIN_CHUNK_SIZE
    BY <2>3 DEF SearchStart, Chunk
  <2>7. Searched'
    <3>1. \A c \in 0 .. (n + 1) - 1 : c \in 0 .. n
      OBVIOUS
    <3>2. \A j \in (k + MIN_CHUNK_SIZE) .. (k + MIN_CHUNK_SIZE) - 1 : FALSE
      BY <2>3
    <3> QED
      BY <2>3, <2>5, <2>6, <3>1, <3>2 DEF Searched
  <2>8. ContentDefined'
    BY <2>1 DEF ContentDefined
  <2> QED
    BY <1>2, <2>1, <2>7, <2>8 DEF HashInv
<1>5. CASE Slide
  <2>1. /\ pc = "loop" /\ pc' = "loop" /\ ~Hit /\ i + WIN_SIZE \in Offsets /\ hash' = Rolled
        /\ i' = i + 1 /\ chunk_num' = chunk_num /\ curr_chunk' = curr_chunk
    BY <1>5 DEF Slide, SlideIsDefined
  <2>2. i \in Nat /\ (i + 1) + WIN_SIZE <= BUFFER
    BY <2>1, LoopFacts, Sizes DEF Offsets
  <2>3. hash = hash_func(i) /\ buff \in [Offsets -> Bytes]
    BY <2>1 DEF HashInv
  <2>4. hash' = hash_func(i')
    BY <2>1, <2>2, <2>3, WindowSlides DEF Rolled
  <2>5. ~HitAt(i)
    BY <2>1, <2>3 DEF HitAt, Hit
  <2>6. Searched'
    <3>1. /\ \A c \in 0 .. chunk_num - 1 :
               /\ HitAt(Chunk(c).upper_bound)
               /\ \A j \in SearchStart(c) .. Chunk(c).upper_bound - 1 : ~HitAt(j)
          /\ \A j \in SearchStart(chunk_num) .. i - 1 : ~HitAt(j)
      BY <2>1 DEF HashInv, Searched
    <3>2. \A c : SearchStart(c)' = SearchStart(c) /\ Chunk(c)' = Chunk(c)
      BY <2>1 DEF SearchStart, Chunk
    <3>3. \A j \in SearchStart(chunk_num) .. (i + 1) - 1 : ~HitAt(j)
      <4> SUFFICES ASSUME NEW j \in SearchStart(chunk_num) .. (i + 1) - 1 PROVE ~HitAt(j)
        OBVIOUS
      <4>1. SearchStart(chunk_num) \in Int
        BY <2>1, LoopFacts, Sizes DEF SearchStart, Chunk
      <4>2. j = i \/ j \in SearchStart(chunk_num) .. i - 1
        BY <2>2, <4>1
      <4> QED
        BY <2>5, <3>1, <4>2
    <3> QED
      BY <1>2, <2>1, <3>1, <3>2, <3>3 DEF Searched
  <2>7. ContentDefined'
    BY <2>1 DEF ContentDefined
  <2> QED
    BY <1>2, <2>1, <2>4, <2>6, <2>7 DEF HashInv
<1>6. CASE Undefined
  BY <1>2, <1>6 DEF Undefined, HashInv, Searched, ContentDefined
<1>7. CASE Close
  <2>1. pc = "loop" /\ pc' = "done" /\ i' = i /\ ~InLoop
    BY <1>7 DEF Close
  <2>2. PICK n \in Nat : n = chunk_num
    BY <1>7, CloseBounds
  <2>3. /\ num_of_chunks' = n + 1
        /\ curr_chunk'[n].lower_bound = curr_chunk[n].lower_bound
        /\ \A c \in 0 .. n - 1 : curr_chunk'[c] = curr_chunk[c]
    BY <1>7, <2>2, CloseBounds
  <2>4. /\ \A c \in 0 .. n - 1 :
             /\ HitAt(Chunk(c).upper_bound)
             /\ \A j \in SearchStart(c) .. Chunk(c).upper_bound - 1 : ~HitAt(j)
        /\ \A j \in SearchStart(n) .. i - 1 : ~HitAt(j)
    BY <2>1, <2>2 DEF HashInv, Searched
  <2>5. SearchStart(n)' = SearchStart(n)
        /\ \A c \in 0 .. n - 1 : SearchStart(c)' = SearchStart(c) /\ Chunk(c)' = Chunk(c)
    BY <2>3 DEF SearchStart, Chunk
  <2>6. LastSearched <= i - 1 /\ LastSearched' = LastSearched /\ LastSearched \in Int /\ i \in Nat
    BY <1>1, <2>1, LoopFacts, Sizes DEF LastSearched
  <2>7. \A j \in SearchStart(n) .. LastSearched : ~HitAt(j)
    <3>1. SearchStart(n) \in Int
      BY <2>1, <2>2, LoopFacts, Sizes DEF SearchStart, Chunk
    <3>2. \A j \in SearchStart(n) .. LastSearched : j \in SearchStart(n) .. i - 1
      BY <2>6, <3>1
    <3> QED
      BY <2>4, <3>2
  <2>8. (n + 1) - 2 = n - 1 /\ (n + 1) - 1 = n
    OBVIOUS
  <2>9. ContentDefined'
    BY <1>2, <2>3, <2>4, <2>5, <2>6, <2>7, <2>8 DEF ContentDefined
  <2>10. Searched' /\ pc' # "loop"
    BY <2>1 DEF Searched
  <2> QED
    BY <1>2, <2>9, <2>10 DEF HashInv
<1>8. CASE UNCHANGED vars
  <2>1. /\ pc' = pc /\ i' = i /\ hash' = hash /\ chunk_num' = chunk_num
        /\ curr_chunk' = curr_chunk /\ num_of_chunks' = num_of_chunks
    BY <1>8 DEF vars
  <2>2. \A c : SearchStart(c)' = SearchStart(c) /\ Chunk(c)' = Chunk(c)
    BY <2>1 DEF SearchStart, Chunk
  <2>3. LastSearched' = LastSearched
    BY <1>1 DEF LastSearched
  <2>4. Searched'
    BY <1>2, <2>1, <2>2 DEF HashInv, Searched
  <2>5. ContentDefined'
    BY <1>2, <2>1, <2>2, <2>3 DEF HashInv, ContentDefined
  <2> QED
    BY <1>2, <2>1, <2>4, <2>5 DEF HashInv
<1> QED
  BY <1>3, <1>4, <1>5, <1>6, <1>7, <1>8 DEF Next

(* The loop's hash is its window's, whatever the bytes and the sizes.          *)
THEOREM HashInvariance == Spec => []HashInv
<1>1. Init => HashInv
  BY DEF Init, HashInv, Searched, ContentDefined
<1>2. IInv /\ IInv' /\ HashInv /\ [Next]_vars => HashInv'
  BY HashStep
<1> QED
  BY <1>1, <1>2, Invariance, PTL DEF Spec

(* The byte that leaves the window is taken out of the hash with the power it has *)
(* by then, so that the rolling hash is the window's at every offset.           *)
THEOREM RollingStaysDirect == Spec => []RollingIsDirect
<1>1. HashInv => RollingIsDirect
  BY DEF HashInv, RollingIsDirect
<1> QED
  BY <1>1, HashInvariance, PTL

(* A chunk ends at the first window that hits the target, counted from where its  *)
(* search began: where cuts fall depends on the bytes alone.                    *)
THEOREM CutsAreContentDefined == Spec => []ContentDefined
<1>1. HashInv => ContentDefined
  BY DEF HashInv
<1> QED
  BY <1>1, HashInvariance, PTL

-----------------------------------------------------------------------------
(* The arithmetic of the padding *)

(* Bits are counted modulo BITS_RANGE, a multiple of 512: which bits of the     *)
(* last block are the message's is not touched by that.                       *)
LEMMA BitsInBlock ==
  ASSUME NEW len \in Nat
  PROVE  /\ input_bits(len) \in Nat
         /\ input_bits(len) % 512 = 8 * (len % 64)
         /\ 8 * len < BITS_RANGE => input_bits(len) = 8 * len
<1> DEFINE b == 8 * len
           u == BITS_RANGE \div 512
           q == b \div BITS_RANGE
           r == b % BITS_RANGE
<1>1. u \in Nat /\ BITS_RANGE = 512 * u
  BY BitsAssumption, SMT
<1>2. b \in Nat
  BY SMT
<1>3. q \in Nat /\ r \in 0 .. BITS_RANGE - 1 /\ b = BITS_RANGE * q + r
  <2> HIDE DEF b
  <2> QED
    BY <1>2, DivMod, BitsAssumption
<1>4. BITS_RANGE * q = 512 * (u * q)
  <2> HIDE DEF u, q
  <2> QED
    BY <1>1, <1>3, SMT
<1>5. u * q \in Nat
  <2> HIDE DEF u, q
  <2> QED
    BY <1>1, <1>3, SMT
<1> DEFINE w == u * q
<1>6. b = 512 * w + r /\ w \in Nat
  BY <1>3, <1>4, <1>5
<1>7. b < BITS_RANGE => r = b
  <2> HIDE DEF b
  <2> QED
    BY <1>2, ModSmall, BitsAssumption
<1>8. r % 512 = 8 * (len % 64)
  <2> HIDE DEF r, w, u, q
  <2>1. 8 * len = 512 * w + r /\ w \in Nat /\ r \in Nat
    BY <1>3, <1>6, BitsAssumption
  <2> QED
    BY <2>1, SMT
<1> QED
  BY <1>3, <1>7, <1>8, BitsAssumption DEF input_bits

(* The bytes of a chunk in full blocks, the rest, and where in the padded data   *)
(* the length is.                                                            *)
Full(len)  == 64 * (len \div 64)
Rest(len)  == len % 64
EndOf(len) == IF Overflows(len) THEN 120 ELSE 56

(* A length is its full blocks and what is left over. *)
LEMMA RestType ==
  ASSUME NEW len \in Nat
  PROVE  Rest(len) \in 0 .. 63 /\ Full(len) \in Nat /\ len = Full(len) + Rest(len)
  BY SMT DEF Rest, Full

(* The zeros and the one bit fill 56 bytes less the bytes left over, or, when    *)
(* these leave no room for the length, one block more.                        *)
LEMMA PaddingArithmetic ==
  ASSUME NEW len \in Nat
  PROVE  /\ Overflows(len) <=> Rest(len) >= 56
         /\ PaddingBytes(len) = EndOf(len) - Rest(len)
<1> DEFINE rest == len % 64
           bits == input_bits(len)
<1>0. rest \in 0 .. 63
  BY SMT
<1>1. bits \in Nat /\ bits % 512 = 8 * rest
  BY BitsInBlock
<1> HIDE DEF rest, bits
<1>2. (bits + 1) % 512 = 8 * rest + 1
  BY <1>0, <1>1, SMT
<1>3. zero_bits(len) = 447 - 8 * rest
  BY <1>0, <1>1, <1>2 DEF zero_bits, bits
<1>4. Overflows(len) <=> rest >= 56
  BY <1>0, <1>3 DEF Overflows
<1>5. PaddingBytes(len) = (IF rest >= 56 THEN 960 - 8 * rest ELSE 448 - 8 * rest) \div 8
  BY <1>0, <1>3, <1>4 DEF PaddingBytes
<1>6. PaddingBytes(len) = (IF rest >= 56 THEN 120 ELSE 56) - rest
  BY <1>0, <1>5, SMT
<1> QED
  BY <1>4, <1>6 DEF rest, Rest, EndOf

(* The padding has room for its first byte and ends with its block. *)
LEMMA PaddingAlwaysFits ==
  ASSUME NEW len \in Nat
  PROVE  PaddingFits(len)
<1>1. Rest(len) \in 0 .. 63
  BY RestType
<1>2. PaddingFits(len) <=> /\ PaddingBytes(len) >= 1
                           /\ Rest(len) + PaddingBytes(len) + 8 = IF Overflows(len) THEN 128 ELSE 64
  BY DEF PaddingFits, Rest
<1> QED
  BY <1>1, <1>2, PaddingArithmetic DEF EndOf

(* The message's blocks are the full ones and those that are padded. *)
LEMMA BlockArithmetic ==
  ASSUME NEW len \in Nat
  PROVE  /\ NumBlocks(len) = (len \div 64) + (IF Overflows(len) THEN 2 ELSE 1)
         /\ 64 * NumBlocks(len) - 8 = Full(len) + EndOf(len)
         /\ len \div 64 \in Nat
<1> DEFINE q == len \div 64
           r == Rest(len)
<1>1. q \in Nat /\ len = 64 * q + r /\ r \in 0 .. 63
  BY SMT DEF Rest
<1>2. NumBlocks(len) = (64 * q + r + 8) \div 64 + 1
  BY <1>1 DEF NumBlocks
<1> HIDE DEF q, r
<1>3. NumBlocks(len) = q + (IF r >= 56 THEN 2 ELSE 1)
  <2>1. CASE r >= 56
    <3>1. (64 * q + r + 8) \div 64 = q + 1
      BY <1>1, <2>1, SMT
    <3> QED
      BY <1>1, <1>2, <2>1, <3>1
  <2>2. CASE r < 56
    <3>1. (64 * q + r + 8) \div 64 = q
      BY <1>1, <2>2, SMT
    <3> QED
      BY <1>1, <1>2, <2>2, <3>1
  <2> QED
    BY <1>1, <2>1, <2>2
<1>4. NumBlocks(len) = q + (IF Overflows(len) THEN 2 ELSE 1)
  BY <1>3, PaddingArithmetic DEF r
<1>5. 64 * NumBlocks(len) - 8 = 64 * q + EndOf(len)
  BY <1>1, <1>4 DEF EndOf
<1> QED
  BY <1>1, <1>4, <1>5 DEF q, Full

(* A byte of the length is a number. *)
LEMMA LengthByteType ==
  ASSUME NEW bits \in Nat, NEW j \in 0 .. 7
  PROVE  LengthByte(bits, j) \in Nat
<1>1. CASE j < 4
  <2>1. j \in 0 .. 3
    BY <1>1
  <2>2. <<1, 256, 65536, 16777216>>[j + 1] \in Nat \ {0}
    BY <2>1
  <2> DEFINE d == <<1, 256, 65536, 16777216>>[j + 1]
  <2> HIDE DEF d
  <2>3. d \in Nat \ {0}
    BY <2>2 DEF d
  <2>4. bits \div d \in Nat
    BY <2>3, DivMod
  <2>5. (bits \div d) % 256 \in Nat
    BY <2>4, SMT
  <2> QED
    BY <1>1, <2>5 DEF LengthByte, d
<1>2. CASE ~(j < 4)
  BY <1>2 DEF LengthByte
<1> QED
  BY <1>1, <1>2

-----------------------------------------------------------------------------
(* The padded blocks *)

ShaRecord == [lower_bound : Nat, size : 0 .. BITS_RANGE - 1]

(* What sha256_process_arm() leaves in padded_data[k]. *)
PaddedByte(from, len, k) ==
  IF k \in EndOf(len) .. EndOf(len) + 7 THEN LengthByte(input_bits(len), 7 - (k - EndOf(len)))
  ELSE IF k = Rest(len) THEN 128
  ELSE IF k < Rest(len) THEN Data(from + len - Rest(len) + k)
  ELSE 0

(* The padded data, byte by byte. *)
LEMMA PaddedBytes ==
  ASSUME NEW from \in Nat, NEW len \in Nat
  PROVE  Padded(from, len) = [k \in 0 .. 127 |-> PaddedByte(from, len, k)]
<1>1. Rest(len) + PaddingBytes(len) = EndOf(len)
  <2>1. Rest(len) \in 0 .. 63 /\ EndOf(len) \in {56, 120}
    BY RestType DEF EndOf
  <2>2. PaddingBytes(len) = EndOf(len) - Rest(len)
    BY PaddingArithmetic
  <2> QED
    BY <2>1, <2>2
<1>2. Padded(from, len) =
        [k \in 0 .. 127 |->
         IF k \in (Rest(len) + PaddingBytes(len)) .. (Rest(len) + PaddingBytes(len)) + 7
           THEN LengthByte(input_bits(len), 7 - (k - (Rest(len) + PaddingBytes(len))))
         ELSE IF k = Rest(len) THEN 128
         ELSE IF k < Rest(len) THEN Data(from + len - Rest(len) + k)
         ELSE 0]
  BY DEF Padded, Rest
<1> QED
  BY <1>1, <1>2 DEF PaddedByte

(* The padded data are 128 numbers. *)
LEMMA PaddedType ==
  ASSUME NEW from \in Nat, NEW len \in Nat
  PROVE  Padded(from, len) \in [0 .. 127 -> Nat]
<1>1. EndOf(len) \in {56, 120} /\ Rest(len) \in 0 .. 63 /\ len - Rest(len) \in Nat
  BY RestType DEF EndOf
<1>2. ASSUME NEW k \in 0 .. 127 PROVE PaddedByte(from, len, k) \in Nat
  <2>1. ASSUME k \in EndOf(len) .. EndOf(len) + 7
        PROVE  LengthByte(input_bits(len), 7 - (k - EndOf(len))) \in Nat
    <3>1. 7 - (k - EndOf(len)) \in 0 .. 7
      BY <1>1, <2>1
    <3>2. input_bits(len) \in Nat
      BY BitsInBlock
    <3> QED
      BY <3>1, <3>2, LengthByteType
  <2>2. Data(from + len - Rest(len) + k) \in Nat
    BY <1>1, RestType DEF Data
  <2> QED
    BY <2>1, <2>2 DEF PaddedByte
<1>3. Padded(from, len) = [k \in 0 .. 127 |-> PaddedByte(from, len, k)]
  BY PaddedBytes
<1> QED
  BY <1>2, <1>3

(* They are the message's last block, or its last two. *)
LEMMA PaddedIsMessage ==
  ASSUME NEW c \in ShaRecord, LengthFits(c),
         NEW k \in 0 .. 127, k < 64 \/ Overflows(c.size)
  PROVE  Padded(c.lower_bound, c.size)[k] = MessageByte(c, Full(c.size) + k)
<1> DEFINE len == c.size
           from == c.lower_bound
<1>1. len \in Nat /\ from \in Nat
  BY DEF ShaRecord
<1>2. 8 * len < BITS_RANGE
  BY DEF LengthFits
<1>3. MessageByte(c, Full(len) + k) =
        IF Full(len) + k < len THEN Data(from + (Full(len) + k))
        ELSE IF Full(len) + k = len THEN 128
        ELSE IF Full(len) + k < 64 * NumBlocks(len) - 8 THEN 0
        ELSE LengthByte(8 * len, 7 - ((Full(len) + k) - (64 * NumBlocks(len) - 8)))
  BY DEF MessageByte
<1>4. k < 64 \/ Overflows(len)
  OBVIOUS
<1> HIDE DEF len, from
<1>5. /\ Rest(len) \in 0 .. 63 /\ Full(len) \in Nat /\ len = Full(len) + Rest(len)
      /\ 64 * NumBlocks(len) - 8 = Full(len) + EndOf(len)
      /\ Overflows(len) <=> Rest(len) >= 56
      /\ input_bits(len) = 8 * len
      /\ EndOf(len) = IF Overflows(len) THEN 120 ELSE 56
  BY <1>1, <1>2, RestType, BlockArithmetic, PaddingArithmetic, BitsInBlock DEF EndOf
<1>6. Padded(from, len)[k] = PaddedByte(from, len, k)
  BY <1>1, PaddedBytes
<1> DEFINE f == Full(len)
           r == Rest(len)
           e == EndOf(len)
<1>7. /\ f + k < len <=> k < r
      /\ f + k = len <=> k = r
      /\ f + k < 64 * NumBlocks(len) - 8 <=> k < e
      /\ (f + k) - (64 * NumBlocks(len) - 8) = k - e
      /\ from + len - r + k = from + (f + k)
  BY <1>1, <1>5
<1>8. (k < r => k < e) /\ (k = r => k < e) /\ k < e + 8 /\ e \in Nat
  BY <1>4, <1>5
<1>9. Padded(from, len)[k] = MessageByte(c, f + k)
  <2>1. MessageByte(c, f + k) =
          IF k < r THEN Data(from + (f + k))
          ELSE IF k = r THEN 128
          ELSE IF k < e THEN 0
          ELSE LengthByte(8 * len, 7 - (k - e))
    BY <1>3, <1>7
  <2>2. PaddedByte(from, len, k) =
          IF k \in e .. e + 7 THEN LengthByte(8 * len, 7 - (k - e))
          ELSE IF k = r THEN 128
          ELSE IF k < r THEN Data(from + (f + k))
          ELSE 0
    BY <1>5, <1>7 DEF PaddedByte
  <2> QED
    BY <1>6, <1>8, <2>1, <2>2
<1> QED
  BY <1>9 DEF len, from

-----------------------------------------------------------------------------
(* The invariant *)

(* A packet is a sequence of chunks. *)
LEMMA PacketType ==
  ASSUME NEW p \in Packets
  PROVE  p \in Seq(ShaRecord) /\ Len(p) \in Nat
<1>1. p \in Seq(ShaRecord)
  BY PacketsAssumption, Zenon DEF ShaRecord
<1> QED
  BY <1>1

(* While a chunk is being hashed, it is one of the packet's. *)
LEMMA ChunkType ==
  ASSUME ShaTypeOK, sha_num <= Len(packet_chunks)
  PROVE  ShaChunk \in ShaRecord /\ ShaChunk.lower_bound \in Nat /\ ShaChunk.size \in Nat
<1>0. packet_chunks \in Packets /\ sha_num \in 1 .. Len(packet_chunks) + 1
  BY DEF ShaTypeOK
<1>1. packet_chunks \in Seq(ShaRecord) /\ sha_num \in 1 .. Len(packet_chunks)
  BY <1>0, PacketType
<1>2. ShaChunk \in ShaRecord
  BY <1>1 DEF ShaChunk
<1> QED
  BY <1>2 DEF ShaRecord

(* The empty digest of the first chunk. *)
LEMMA ShaInitIInv == ShaInit => ShaIInv
<1> SUFFICES ASSUME ShaInit PROVE ShaIInv
  OBVIOUS
<1>1. Len(packet_chunks) \in Nat
  BY PacketType DEF ShaInit
<1>2. ShaTypeOK
  <2>1. Zeros \in [0 .. 127 -> Nat]
    BY DEF Zeros
  <2>2. << >> \in Seq(Compression) /\ << >> \in Seq(Seq(Compression))
    OBVIOUS
  <2>3. sha_num \in 1 .. Len(packet_chunks) + 1
    BY <1>1 DEF ShaInit
  <2> QED
    BY <2>1, <2>2, <2>3, Zenon DEF ShaInit, ShaTypeOK
<1>3. ShaPosition
  BY DEF ShaInit, ShaPosition, InChunk
<1>4. Compressed /\ Chained /\ HashesTheChunks
  BY DEF ShaInit, Compressed, Chained, HashesTheChunks, InChunk
<1> QED
  BY <1>2, <1>3, <1>4 DEF ShaIInv

(* The digests that are stored stay those of their chunks. *)
LEMMA HashesFrame ==
  ASSUME HashesTheChunks, packet_chunks' = packet_chunks, sha' = sha, step' # "done"
  PROVE  HashesTheChunks'
  BY DEF HashesTheChunks

(* A chunk begins with no block compressed. *)
LEMMA NextChunkStep == ShaIInv /\ NextChunk => ShaIInv'
<1> SUFFICES ASSUME ShaIInv, NextChunk PROVE ShaIInv'
  OBVIOUS
<1>1. ShaChunk \in ShaRecord /\ ShaChunk.lower_bound \in Nat /\ ShaChunk.size \in Nat
  BY ChunkType DEF ShaIInv, NextChunk
<1>2. ShaChunk' = ShaChunk /\ packet_chunks' = packet_chunks /\ sha_num' = sha_num
  BY DEF NextChunk, packet, ShaChunk
<1>3. ShaTypeOK'
  BY <1>1, <1>2 DEF ShaIInv, ShaTypeOK, NextChunk
<1>4. ShaPosition'
  BY <1>1, <1>2 DEF ShaIInv, ShaPosition, NextChunk, InChunk
<1>5. Compressed'
  BY <1>2 DEF NextChunk, Compressed, InChunk
<1>6. HashesTheChunks'
  BY <1>2, HashesFrame DEF ShaIInv, NextChunk
<1>7. Chained'
  BY DEF NextChunk, Chained
<1> QED
  BY <1>3, <1>4, <1>5, <1>6, <1>7 DEF ShaIInv

(* The padding is made for the whole chunk. *)
LEMMA PadStep == ShaIInv /\ Pad => ShaIInv'
<1> SUFFICES ASSUME ShaIInv, Pad PROVE ShaIInv'
  OBVIOUS
<1>0. InChunk /\ sha_num <= Len(packet_chunks)
  BY DEF ShaIInv, ShaPosition, InChunk, Pad
<1>1. ShaChunk \in ShaRecord /\ ShaChunk.lower_bound \in Nat /\ ShaChunk.size \in Nat
  BY <1>0, ChunkType DEF ShaIInv
<1>2. /\ ShaChunk' = ShaChunk /\ packet_chunks' = packet_chunks /\ sha_num' = sha_num
      /\ data' = data /\ bytes_left' = bytes_left /\ state' = state /\ saved' = saved
      /\ sha' = sha /\ step = "pad" /\ step' = "blocks"
  BY DEF Pad, packet, ShaChunk
<1>3. data = ShaChunk.lower_bound /\ bytes_left = ShaChunk.size /\ Len(state) = 0
  BY <1>1 DEF ShaIInv, ShaPosition, Pad
<1>4. padded_data' = Padded(ShaChunk.lower_bound, ShaChunk.size) /\ overflow' = Overflows(ShaChunk.size)
  BY <1>3 DEF Pad
<1>5. padded_data' \in [0 .. 127 -> Nat] /\ overflow' \in BOOLEAN
  <2>1. padded_data' \in [0 .. 127 -> Nat]
    BY <1>1, <1>4, PaddedType
  <2>2. Overflows(ShaChunk.size) \in BOOLEAN
    BY DEF Overflows
  <2> QED
    BY <1>4, <2>1, <2>2
<1>6. ShaTypeOK'
  BY <1>2, <1>5 DEF ShaIInv, ShaTypeOK
<1>7. ShaPosition'
  BY <1>0, <1>1, <1>2, <1>3 DEF ShaIInv, ShaPosition, InChunk
<1>8. Compressed'
  BY <1>2, <1>3, <1>4 DEF Compressed
<1>9. HashesTheChunks'
  BY <1>2, HashesFrame DEF ShaIInv
<1>10. Chained'
  BY <1>0, <1>2 DEF ShaIInv, Chained
<1> QED
  BY <1>6, <1>7, <1>8, <1>9, <1>10 DEF ShaIInv

(* What compressing a block adds to the state. *)
LEMMA AppendedBlock ==
  ASSUME NEW s \in Seq(Compression), NEW block \in Block, NEW a \in Nat,
         NEW t, t = Append(s, [block |-> block, added |-> a])
  PROVE  /\ t \in Seq(Compression) /\ Len(t) = Len(s) + 1
         /\ \A b \in 1 .. Len(s) : t[b] = s[b]
         /\ t[Len(s) + 1].block = block /\ t[Len(s) + 1].added = a
<1> DEFINE x == [block |-> block, added |-> a]
<1>1. x \in Compression /\ x.block = block /\ x.added = a
  BY DEF Compression
<1> HIDE DEF x
<1>2. t = Append(s, x)
  BY DEF x
<1>3. /\ t \in Seq(Compression) /\ Len(t) = Len(s) + 1
      /\ \A b \in 1 .. Len(s) : t[b] = s[b]
      /\ t[Len(s) + 1] = x
  BY <1>1, <1>2
<1> QED
  BY <1>1, <1>3

(* Where the state is saved before a block is compressed, the chain goes on. *)
LEMMA ChainedOn ==
  ASSUME Chained, step = "blocks", state \in Seq(Compression),
         Len(state') = Len(state) + 1, saved' = Len(state),
         \A b \in 1 .. Len(state) : state'[b] = state[b],
         state'[Len(state) + 1].added = Len(state),
         ~(step' = "store" /\ overflow')
  PROVE  Chained'
<1> DEFINE n == Len(state)
<1>1. n \in Nat /\ \A b \in 1 .. n : state[b].added = b - 1
  BY DEF Chained, InChunk
<1>2. \A b \in 1 .. n + 1 : state'[b].added = b - 1
  <2> TAKE b \in 1 .. n + 1
  <2>1. CASE b \in 1 .. n
    BY <1>1, <2>1
  <2>2. CASE b = n + 1
    <3>1. b - 1 = n
      BY <1>1, <2>2
    <3> QED
      BY <2>2, <3>1
  <2>3. b \in 1 .. n \/ b = n + 1
    <3> HIDE DEF n
    <3> QED
      BY <1>1
  <2> QED
    BY <2>1, <2>2, <2>3
<1>3. saved' = Len(state') - 1
  BY <1>1
<1> QED
  BY <1>2, <1>3 DEF Chained

(* Where the blocks are compressed, and that they are the message's next ones. *)
LEMMA FullBlockStep == ShaIInv /\ FullBlock => ShaIInv'
<1> SUFFICES ASSUME ShaIInv, FullBlock PROVE ShaIInv'
  OBVIOUS
<1> DEFINE n == Len(state)
           block == [k \in 0 .. 63 |-> Data(data + k)]
<1>0. InChunk /\ sha_num <= Len(packet_chunks)
  BY DEF ShaIInv, ShaPosition, InChunk, FullBlock
<1>1. ShaChunk \in ShaRecord /\ ShaChunk.lower_bound \in Nat /\ ShaChunk.size \in Nat
  BY <1>0, ChunkType DEF ShaIInv
<1>2. /\ ShaChunk' = ShaChunk /\ packet_chunks' = packet_chunks /\ sha_num' = sha_num
      /\ padded_data' = padded_data /\ overflow' = overflow /\ sha' = sha
      /\ step = "blocks" /\ step' = step
      /\ data' = data + 64 /\ bytes_left' = bytes_left - 64 /\ bytes_left >= 64
      /\ saved' = n /\ state' = Append(state, [block |-> block, added |-> n])
  BY DEF FullBlock, packet, ShaChunk, Save, Compress, MoreBlocks
<1>3. state \in Seq(Compression) /\ data \in Nat /\ bytes_left \in Nat /\ n \in Nat
  BY DEF ShaIInv, ShaTypeOK
<1>4. data = ShaChunk.lower_bound + 64 * n /\ bytes_left = ShaChunk.size - 64 * n
  BY <1>2 DEF ShaIInv, ShaPosition
<1>5. block \in Block
  BY <1>3 DEF Block, Data
<1>6. block = MessageBlock(ShaChunk, n + 1)
  <2> SUFFICES ASSUME NEW k \in 0 .. 63 PROVE Data(data + k) = MessageByte(ShaChunk, 64 * n + k)
    <3>1. MessageBlock(ShaChunk, n + 1) = [k \in 0 .. 63 |-> MessageByte(ShaChunk, 64 * ((n + 1) - 1) + k)]
      BY DEF MessageBlock
    <3>2. (n + 1) - 1 = n
      BY <1>3
    <3> QED
      BY <3>1, <3>2
  <2>1. 64 * n + k < ShaChunk.size /\ ShaChunk.lower_bound + (64 * n + k) = data + k
    <3> DEFINE lo == ShaChunk.lower_bound
               sz == ShaChunk.size
    <3>1. /\ lo \in Nat /\ sz \in Nat /\ n \in Nat /\ k \in 0 .. 63 /\ data \in Nat
          /\ data = lo + 64 * n /\ bytes_left = sz - 64 * n /\ bytes_left >= 64
      BY <1>1, <1>2, <1>3, <1>4
    <3> HIDE DEF lo, sz, n
    <3>2. 64 * n + k < sz /\ lo + (64 * n + k) = data + k
      BY <3>1
    <3> QED
      BY <3>2 DEF lo, sz
  <2> QED
    BY <2>1 DEF MessageByte
<1> HIDE DEF block
<1>7. /\ state' \in Seq(Compression) /\ Len(state') = n + 1
      /\ \A b \in 1 .. n : state'[b] = state[b]
      /\ state'[n + 1].block = block /\ state'[n + 1].added = n
  BY <1>2, <1>3, <1>5, AppendedBlock
<1>8. ShaTypeOK'
  BY <1>2, <1>3, <1>7 DEF ShaIInv, ShaTypeOK
<1>9. ShaPosition'
  <2>2. /\ data' = ShaChunk.lower_bound + 64 * (n + 1) /\ bytes_left' = ShaChunk.size - 64 * (n + 1)
        /\ data' + bytes_left' = ShaChunk.lower_bound + ShaChunk.size
    <3> DEFINE lo == ShaChunk.lower_bound
               sz == ShaChunk.size
    <3>1. /\ lo \in Nat /\ sz \in Nat /\ n \in Nat
          /\ data = lo + 64 * n /\ bytes_left = sz - 64 * n
          /\ data' = data + 64 /\ bytes_left' = bytes_left - 64
      BY <1>1, <1>2, <1>3, <1>4
    <3> HIDE DEF lo, sz, n
    <3>2. /\ data' = lo + 64 * (n + 1) /\ bytes_left' = sz - 64 * (n + 1)
          /\ data' + bytes_left' = lo + sz
      BY <3>1
    <3> QED
      BY <3>2 DEF lo, sz
  <2> QED
    BY <1>0, <1>2, <1>7, <2>2 DEF ShaIInv, ShaPosition, InChunk
<1>10. Compressed'
  <2>1. padded_data' = Padded(ShaChunk.lower_bound, ShaChunk.size) /\ overflow' = Overflows(ShaChunk.size)
    BY <1>2 DEF ShaIInv, Compressed
  <2>2. ASSUME LengthFits(ShaChunk), NEW b \in 1 .. n + 1 PROVE state'[b].block = MessageBlock(ShaChunk, b)
    <3>1. CASE b \in 1 .. n
      BY <1>0, <1>7, <2>2, <3>1 DEF ShaIInv, Compressed
    <3>2. CASE b = n + 1
      BY <1>6, <1>7, <3>2
    <3> QED
      BY <1>3, <3>1, <3>2
  <2> QED
    BY <1>2, <1>7, <2>1, <2>2 DEF Compressed
<1>11. HashesTheChunks'
  BY <1>2, HashesFrame DEF ShaIInv
<1>12. Chained'
  BY <1>2, <1>3, <1>7, ChainedOn DEF ShaIInv
<1> QED
  BY <1>8, <1>9, <1>10, <1>11, <1>12 DEF ShaIInv

(* The last block of a chunk, or the last but one. *)
LEMMA FinalBlockStep == ShaIInv /\ FinalBlock => ShaIInv'
<1> SUFFICES ASSUME ShaIInv, FinalBlock PROVE ShaIInv'
  OBVIOUS
<1> DEFINE n == Len(state)
           block == [k \in 0 .. 63 |-> padded_data[k]]
           c == ShaChunk
<1>0. InChunk /\ sha_num <= Len(packet_chunks)
  BY DEF ShaIInv, ShaPosition, InChunk, FinalBlock
<1>1. c \in ShaRecord /\ c.lower_bound \in Nat /\ c.size \in Nat
  BY <1>0, ChunkType DEF ShaIInv
<1>2. /\ ShaChunk' = c /\ packet_chunks' = packet_chunks /\ sha_num' = sha_num
      /\ padded_data' = padded_data /\ overflow' = overflow /\ sha' = sha
      /\ step = "blocks" /\ step' = IF overflow THEN "overflow" ELSE "store"
      /\ data' = data /\ bytes_left' = bytes_left /\ ~(bytes_left >= 64)
      /\ saved' = n /\ state' = Append(state, [block |-> block, added |-> n])
  BY DEF FinalBlock, packet, ShaChunk, Save, Compress, MoreBlocks
<1>3. /\ state \in Seq(Compression) /\ data \in Nat /\ bytes_left \in Nat /\ n \in Nat
      /\ padded_data \in [0 .. 127 -> Nat] /\ overflow \in BOOLEAN
  BY DEF ShaIInv, ShaTypeOK
<1>4. /\ bytes_left = c.size - 64 * n /\ data + bytes_left = c.lower_bound + c.size
      /\ padded_data = Padded(c.lower_bound, c.size)
      /\ overflow = Overflows(c.size)
  BY <1>0, <1>2 DEF ShaIInv, ShaPosition, Compressed
<1>5. n = c.size \div 64 /\ Full(c.size) = 64 * n
  <2> DEFINE sz == c.size
  <2>1. sz \in Nat /\ n \in Nat /\ bytes_left \in Nat /\ bytes_left = sz - 64 * n /\ ~(bytes_left >= 64)
    BY <1>1, <1>2, <1>3, <1>4
  <2> HIDE DEF sz, n
  <2>2. n = sz \div 64
    BY <2>1, SMT
  <2> QED
    BY <2>2 DEF sz, Full
<1>6. block \in Block
  BY <1>3 DEF Block
<1>7. LengthFits(c) => block = MessageBlock(c, n + 1)
  <2> SUFFICES ASSUME LengthFits(c), NEW k \in 0 .. 63
               PROVE  padded_data[k] = MessageByte(c, 64 * n + k)
    <3>1. MessageBlock(c, n + 1) = [k \in 0 .. 63 |-> MessageByte(c, 64 * ((n + 1) - 1) + k)]
      BY DEF MessageBlock
    <3>2. (n + 1) - 1 = n
      BY <1>3
    <3> QED
      BY <3>1, <3>2
  <2>1. k \in 0 .. 127 /\ k < 64
    OBVIOUS
  <2>2. Padded(c.lower_bound, c.size)[k] = MessageByte(c, Full(c.size) + k)
    BY <1>1, <2>1, PaddedIsMessage
  <2> QED
    BY <1>4, <1>5, <2>2
<1>8. NumBlocks(c.size) = n + (IF overflow THEN 2 ELSE 1)
  BY <1>1, <1>4, <1>5, BlockArithmetic
<1> HIDE DEF block, c
<1>9. /\ state' \in Seq(Compression) /\ Len(state') = n + 1
      /\ \A b \in 1 .. n : state'[b] = state[b]
      /\ state'[n + 1].block = block /\ state'[n + 1].added = n
  <2>1. state' = Append(state, [block |-> block, added |-> n])
    BY <1>2
  <2>2. state \in Seq(Compression) /\ n \in Nat
    BY <1>3
  <2> QED
    BY <1>6, <2>1, <2>2, AppendedBlock
<1>10. ShaTypeOK'
  BY <1>2, <1>3, <1>9 DEF ShaIInv, ShaTypeOK
<1>11. ShaPosition'
  <2>1. CASE overflow
    BY <1>0, <1>2, <1>4, <1>5, <1>9, <2>1 DEF ShaIInv, ShaPosition, InChunk
  <2>2. CASE ~overflow
    BY <1>0, <1>2, <1>4, <1>8, <1>9, <2>2 DEF ShaIInv, ShaPosition, InChunk
  <2> QED
    BY <2>1, <2>2
<1>12. Compressed'
  <2>1. padded_data' = Padded(c.lower_bound, c.size) /\ overflow' = Overflows(c.size)
    BY <1>2, <1>4
  <2>2. ASSUME LengthFits(c), NEW b \in 1 .. n + 1 PROVE state'[b].block = MessageBlock(c, b)
    <3>1. CASE b \in 1 .. n
      BY <1>0, <1>9, <2>2, <3>1 DEF ShaIInv, Compressed, c
    <3>2. CASE b = n + 1
      BY <1>7, <1>9, <2>2, <3>2
    <3>3. b \in 1 .. n \/ b = n + 1
      <4>1. n \in Nat
        BY <1>3
      <4> HIDE DEF n
      <4> QED
        BY <2>2, <4>1
    <3> QED
      BY <3>1, <3>2, <3>3, Zenon
  <2> QED
    BY <1>2, <1>9, <2>1, <2>2 DEF Compressed
<1>13. HashesTheChunks'
  BY <1>2, HashesFrame DEF ShaIInv
<1>14. Chained'
  <2>1. ~(step' = "store" /\ overflow')
    BY <1>2
  <2> QED
    BY <1>2, <1>3, <1>9, <2>1, ChainedOn DEF ShaIInv
<1> QED
  BY <1>10, <1>11, <1>12, <1>13, <1>14 DEF ShaIInv

(* The second of the two padded blocks. *)
LEMMA OverflowBlockStep == ShaIInv /\ OverflowBlock => ShaIInv'
<1> SUFFICES ASSUME ShaIInv, OverflowBlock PROVE ShaIInv'
  OBVIOUS
<1> DEFINE n == Len(state)
           block == [k \in 0 .. 63 |-> padded_data[64 + k]]
           c == ShaChunk
<1>0. InChunk /\ sha_num <= Len(packet_chunks)
  BY DEF ShaIInv, ShaPosition, InChunk, OverflowBlock
<1>1. c \in ShaRecord /\ c.lower_bound \in Nat /\ c.size \in Nat
  BY <1>0, ChunkType DEF ShaIInv
<1>2. /\ ShaChunk' = c /\ packet_chunks' = packet_chunks /\ sha_num' = sha_num
      /\ padded_data' = padded_data /\ overflow' = overflow /\ sha' = sha
      /\ step = "overflow" /\ step' = "store"
      /\ data' = data /\ bytes_left' = bytes_left
      /\ saved' = saved /\ state' = Append(state, [block |-> block, added |-> saved])
  BY DEF OverflowBlock, packet, ShaChunk, Compress
<1>3. /\ state \in Seq(Compression) /\ data \in Nat /\ bytes_left \in Nat /\ n \in Nat
      /\ padded_data \in [0 .. 127 -> Nat] /\ overflow \in BOOLEAN
  BY DEF ShaIInv, ShaTypeOK
<1>4. /\ n = (c.size \div 64) + 1 /\ Overflows(c.size)
      /\ data + bytes_left = c.lower_bound + c.size
      /\ padded_data = Padded(c.lower_bound, c.size)
      /\ overflow = Overflows(c.size)
  BY <1>0, <1>2 DEF ShaIInv, ShaPosition, Compressed
<1>5. 64 * n = Full(c.size) + 64 /\ Full(c.size) \in Nat
  <2>1. c.size \div 64 \in Nat
    BY <1>1, BlockArithmetic
  <2> QED
    BY <1>4, <2>1 DEF Full
<1>6. block \in Block
  BY <1>3 DEF Block
<1>7. LengthFits(c) => block = MessageBlock(c, n + 1)
  <2> SUFFICES ASSUME LengthFits(c), NEW k \in 0 .. 63
               PROVE  padded_data[64 + k] = MessageByte(c, 64 * n + k)
    <3>1. MessageBlock(c, n + 1) = [k \in 0 .. 63 |-> MessageByte(c, 64 * ((n + 1) - 1) + k)]
      BY DEF MessageBlock
    <3>2. (n + 1) - 1 = n
      BY <1>3
    <3> QED
      BY <3>1, <3>2
  <2>1. 64 + k \in 0 .. 127
    OBVIOUS
  <2>2. Padded(c.lower_bound, c.size)[64 + k] = MessageByte(c, Full(c.size) + (64 + k))
    BY <1>1, <1>4, <2>1, PaddedIsMessage
  <2>3. Full(c.size) + (64 + k) = 64 * n + k
    BY <1>5
  <2> QED
    BY <1>4, <2>2, <2>3
<1>8. NumBlocks(c.size) = n + 1
  <2>1. NumBlocks(c.size) = (c.size \div 64) + 2 /\ c.size \div 64 \in Nat
    BY <1>1, <1>4, BlockArithmetic
  <2> QED
    BY <1>4, <2>1
<1> HIDE DEF block, c
<1>9. /\ state' \in Seq(Compression) /\ Len(state') = n + 1
      /\ \A b \in 1 .. n : state'[b] = state[b]
      /\ state'[n + 1].block = block /\ state'[n + 1].added = saved
  <2>1. state' = Append(state, [block |-> block, added |-> saved])
    BY <1>2
  <2>2. state \in Seq(Compression) /\ saved \in Nat
    BY <1>3 DEF ShaIInv, ShaTypeOK
  <2> QED
    BY <1>6, <2>1, <2>2, AppendedBlock
<1>10. ShaTypeOK'
  BY <1>2, <1>3, <1>9 DEF ShaIInv, ShaTypeOK
<1>11. ShaPosition'
  BY <1>0, <1>2, <1>4, <1>8, <1>9 DEF ShaIInv, ShaPosition, InChunk
<1>12. Compressed'
  <2>2. ASSUME LengthFits(c), NEW b \in 1 .. n + 1 PROVE state'[b].block = MessageBlock(c, b)
    <3>1. CASE b \in 1 .. n
      BY <1>0, <1>9, <2>2, <3>1 DEF ShaIInv, Compressed, c
    <3>2. CASE b = n + 1
      BY <1>7, <1>9, <2>2, <3>2
    <3>3. b \in 1 .. n \/ b = n + 1
      <4>1. n \in Nat
        BY <1>3
      <4> HIDE DEF n
      <4> QED
        BY <2>2, <4>1
    <3> QED
      BY <3>1, <3>2, <3>3, Zenon
  <2> QED
    BY <1>2, <1>4, <1>9, <2>2 DEF Compressed
<1>13. HashesTheChunks'
  BY <1>2, HashesFrame DEF ShaIInv
<1>14. Chained'
  <2>1. saved = n - 1 /\ \A b \in 1 .. n : state[b].added = b - 1
    BY <1>0, <1>2 DEF ShaIInv, Chained
  <2>2. overflow'
    BY <1>2, <1>4
  <2>3. \A b \in 1 .. n + 1 : state'[b].added = IF b = n + 1 THEN b - 2 ELSE b - 1
    <3>1. /\ \A b \in 1 .. n : state'[b] = state[b]
          /\ state'[n + 1].added = n - 1 /\ n \in Nat
      BY <1>3, <1>9, <2>1
    <3> HIDE DEF n
    <3> TAKE b \in 1 .. n + 1
    <3>2. CASE b \in 1 .. n
      <4>1. b # n + 1
        BY <3>1, <3>2
      <4> QED
        BY <2>1, <3>1, <3>2, <4>1
    <3>3. CASE b = n + 1
      <4>1. b - 2 = n - 1
        BY <3>1, <3>3
      <4> QED
        BY <3>1, <3>3, <4>1
    <3> QED
      BY <3>1, <3>2, <3>3
  <2> HIDE DEF n
  <2> QED
    BY <1>2, <1>9, <2>2, <2>3 DEF Chained
<1> QED
  BY <1>10, <1>11, <1>12, <1>13, <1>14 DEF ShaIInv

(* The message's blocks, and what was added to each, are the digest. *)
LEMMA ComputedDigest ==
  ASSUME NEW c, NEW s \in Seq(Compression), Len(s) = NumBlocks(c.size),
         \A b \in 1 .. Len(s) : s[b].block = MessageBlock(c, b),
         \A b \in 1 .. Len(s) :
           s[b].added = IF TwoPaddedBlocks(c) /\ b = Len(s) THEN b - 2 ELSE b - 1
  PROVE  s = IF TwoPaddedBlocks(c) THEN OldStateAdded(c) ELSE Digest(c)
<1> DEFINE n == Len(s)
           Link(b, a) == [block |-> MessageBlock(c, b), added |-> a]
<1>1. n \in Nat /\ s = [b \in 1 .. n |-> s[b]]
  OBVIOUS
<1>2. \A b \in 1 .. n : s[b] = [block |-> s[b].block, added |-> s[b].added]
  <2> TAKE b \in 1 .. n
  <2>1. s[b] \in Compression
    OBVIOUS
  <2> HIDE DEF n
  <2> QED
    BY <2>1 DEF Compression
<1>3. \A b \in 1 .. n :
        s[b] = Link(b, IF TwoPaddedBlocks(c) /\ b = n THEN b - 2 ELSE b - 1)
  BY <1>2
<1>4. Digest(c) = [b \in 1 .. n |-> Link(b, b - 1)]
  BY DEF Digest
<1>5. CASE ~TwoPaddedBlocks(c)
  BY <1>1, <1>3, <1>4, <1>5
<1>6. CASE TwoPaddedBlocks(c)
  <2>1. OldStateAdded(c) = [b \in 1 .. n |-> IF b = n THEN [Digest(c)[b] EXCEPT !.added = @ - 1]
                                                    ELSE Digest(c)[b]]
    BY <1>1, <1>4 DEF OldStateAdded
  <2>2. \A b \in 1 .. n : [Link(b, b - 1) EXCEPT !.added = @ - 1] = Link(b, b - 2)
    BY <1>1
  <2>3. \A b \in 1 .. n : OldStateAdded(c)[b] = IF b = n THEN Link(b, b - 2) ELSE Link(b, b - 1)
    BY <1>4, <2>1, <2>2
  <2>4. OldStateAdded(c) = [b \in 1 .. n |-> OldStateAdded(c)[b]]
    BY <2>1
  <2> QED
    BY <1>1, <1>3, <1>6, <2>3, <2>4
<1> QED
  BY <1>5, <1>6

(* When a digest is stored, all blocks of the chunk's message are in it. *)
LEMMA StoreStep == ShaIInv /\ Store => ShaIInv'
<1> SUFFICES ASSUME ShaIInv, Store PROVE ShaIInv'
  OBVIOUS
<1> DEFINE c == ShaChunk
<1>0. InChunk /\ sha_num <= Len(packet_chunks)
  BY DEF ShaIInv, ShaPosition, InChunk, Store
<1>1. c.size \in Nat /\ packet_chunks \in Packets /\ Len(packet_chunks) \in Nat
  BY <1>0, ChunkType, PacketType DEF ShaIInv, ShaTypeOK
<1>2. /\ packet_chunks' = packet_chunks /\ sha_num' = sha_num + 1
      /\ padded_data' = padded_data /\ overflow' = overflow
      /\ sha' = Append(sha, state) /\ step = "store" /\ step' = "next"
      /\ data' = data /\ bytes_left' = bytes_left /\ state' = state /\ saved' = saved
  BY DEF Store
<1>3. /\ state \in Seq(Compression) /\ sha \in Seq(Seq(Compression))
      /\ sha_num \in 1 .. Len(packet_chunks) + 1 /\ Len(sha) = sha_num - 1
  BY DEF ShaIInv, ShaTypeOK, ShaPosition
<1>4. Len(state) = NumBlocks(c.size)
  BY <1>2 DEF ShaIInv, ShaPosition
<1>5. LengthFits(c) => state = IF TwoPaddedBlocks(c) THEN OldStateAdded(c) ELSE Digest(c)
  <2> SUFFICES ASSUME LengthFits(c)
               PROVE  state = IF TwoPaddedBlocks(c) THEN OldStateAdded(c) ELSE Digest(c)
    OBVIOUS
  <2>1. \A b \in 1 .. Len(state) : state[b].block = MessageBlock(c, b)
    BY <1>0 DEF ShaIInv, Compressed
  <2>2. overflow <=> TwoPaddedBlocks(c)
    <3>1. overflow = Overflows(c.size)
      BY <1>2 DEF ShaIInv, Compressed
    <3>2. Overflows(c.size) <=> c.size % 64 >= 56
      BY <1>1, PaddingArithmetic DEF Rest
    <3> QED
      BY <3>1, <3>2 DEF TwoPaddedBlocks
  <2>3. \A b \in 1 .. Len(state) :
          state[b].added = IF TwoPaddedBlocks(c) /\ b = Len(state) THEN b - 2 ELSE b - 1
    BY <1>0, <1>2, <2>2 DEF ShaIInv, Chained
  <2> QED
    BY <1>3, <1>4, <2>1, <2>3, ComputedDigest
<1>6. c = packet_chunks[sha_num]
  BY DEF ShaChunk
<1> HIDE DEF c
<1>7. /\ sha' \in Seq(Seq(Compression)) /\ Len(sha') = sha_num
      /\ \A k \in 1 .. sha_num - 1 : sha'[k] = sha[k]
      /\ sha'[sha_num] = state
  BY <1>2, <1>3
<1>8. ShaTypeOK'
  BY <1>0, <1>1, <1>2, <1>3, <1>7 DEF ShaIInv, ShaTypeOK
<1>9. ShaPosition'
  BY <1>2, <1>3, <1>7 DEF ShaPosition, InChunk
<1>10. Compressed'
  BY <1>2 DEF Compressed, InChunk
<1>12. Chained'
  BY <1>2 DEF Chained, InChunk
<1>11. HashesTheChunks'
  <2>1. ASSUME NEW k \in 1 .. sha_num, LengthFits(packet_chunks[k])
        PROVE  sha'[k] = IF TwoPaddedBlocks(packet_chunks[k])
                           THEN OldStateAdded(packet_chunks[k])
                           ELSE Digest(packet_chunks[k])
    <3>1. CASE k \in 1 .. sha_num - 1
      BY <1>3, <1>7, <2>1, <3>1 DEF ShaIInv, HashesTheChunks
    <3>2. CASE k = sha_num
      BY <1>5, <1>6, <1>7, <2>1, <3>2
    <3> QED
      BY <1>3, <3>1, <3>2
  <2> QED
    BY <1>2, <1>7, <2>1 DEF HashesTheChunks
<1> QED
  BY <1>8, <1>9, <1>10, <1>11, <1>12 DEF ShaIInv

(* sha() posts when it has passed the packet's last chunk. *)
LEMMA PostStep == ShaIInv /\ Post => ShaIInv'
<1> SUFFICES ASSUME ShaIInv, Post PROVE ShaIInv'
  OBVIOUS
<1>1. /\ ShaChunk' = ShaChunk /\ packet_chunks' = packet_chunks /\ sha_num' = sha_num
      /\ padded_data' = padded_data /\ overflow' = overflow /\ sha' = sha
      /\ step' = "done" /\ sha_num > Len(packet_chunks)
      /\ data' = data /\ bytes_left' = bytes_left /\ state' = state /\ saved' = saved
  BY DEF Post, packet, ShaChunk
<1>2. sha_num \in 1 .. Len(packet_chunks) + 1 /\ Len(packet_chunks) \in Nat /\ Len(sha) = sha_num - 1
  BY PacketType DEF ShaIInv, ShaTypeOK, ShaPosition
<1>3. ShaTypeOK'
  BY <1>1 DEF ShaIInv, ShaTypeOK
<1>4. ShaPosition'
  BY <1>1, <1>2 DEF ShaPosition, InChunk
<1>5. Compressed'
  BY <1>1 DEF Compressed, InChunk
<1>6. HashesTheChunks'
  BY <1>1, <1>2 DEF ShaIInv, HashesTheChunks
<1>7. Chained'
  BY <1>1 DEF Chained, InChunk
<1> QED
  BY <1>3, <1>4, <1>5, <1>6, <1>7 DEF ShaIInv

(* A step that changes nothing. *)
LEMMA ShaStutterStep == ShaIInv /\ UNCHANGED sha_vars => ShaIInv'
<1> SUFFICES ASSUME ShaIInv, UNCHANGED sha_vars PROVE ShaIInv'
  OBVIOUS
<1>1. /\ ShaChunk' = ShaChunk /\ packet_chunks' = packet_chunks /\ sha_num' = sha_num
      /\ padded_data' = padded_data /\ overflow' = overflow /\ sha' = sha
      /\ step' = step /\ data' = data /\ bytes_left' = bytes_left /\ state' = state
      /\ saved' = saved
  BY DEF sha_vars, packet, ShaChunk
<1>2. ShaTypeOK'
  BY <1>1 DEF ShaIInv, ShaTypeOK
<1>3. ShaPosition'
  BY <1>1 DEF ShaIInv, ShaPosition, InChunk
<1>4. Compressed'
  BY <1>1 DEF ShaIInv, Compressed, InChunk
<1>5. HashesTheChunks'
  BY <1>1 DEF ShaIInv, HashesTheChunks
<1>6. Chained'
  BY <1>1 DEF ShaIInv, Chained, InChunk
<1> QED
  BY <1>2, <1>3, <1>4, <1>5, <1>6 DEF ShaIInv

-----------------------------------------------------------------------------
(* The theorems *)

(* While sha() runs, the blocks compressed so far are those of the chunk's      *)
(* message, to each the state before it was added, but to the second of two      *)
(* padded blocks that of one block before, and the padding is the chunk's.       *)
THEOREM ShaInvariance == ShaSpec => []ShaIInv
<1>1. ShaIInv /\ [ShaNext]_sha_vars => ShaIInv'
  BY NextChunkStep, PadStep, FullBlockStep, FinalBlockStep, OverflowBlockStep, StoreStep,
     PostStep, ShaStutterStep DEF ShaNext
<1> QED
  BY ShaInitIInv, <1>1, PTL DEF ShaSpec

(* For every packet, each chunk whose bits can be counted in 32 bits is given   *)
(* the digest of its own message: SHA-256's wherever one padded block is enough, *)
(* and where two are needed one that differs in the state added last alone.       *)
THEOREM HashesOwnChunk == ShaSpec => []HashesTheChunks
<1>1. ShaIInv => HashesTheChunks
  BY DEF ShaIInv
<1> QED
  BY <1>1, ShaInvariance, PTL

(* For every packet, the padding stays inside padded_data[128] and the full     *)
(* blocks stay inside the chunk, whichever its length.                        *)
THEOREM NeverOutside == ShaSpec => []StaysInside
<1>1. ShaIInv => StaysInside
  <2> SUFFICES ASSUME ShaIInv, InChunk
               PROVE  /\ PaddingFits(ShaChunk.size)
                      /\ bytes_left >= 0 /\ data + bytes_left = ShaChunk.lower_bound + ShaChunk.size
    BY DEF StaysInside
  <2>1. ShaChunk.size \in Nat
    BY ChunkType DEF ShaIInv, ShaPosition
  <2>2. PaddingFits(ShaChunk.size)
    BY <2>1, PaddingAlwaysFits
  <2>3. bytes_left >= 0
    BY DEF ShaIInv, ShaTypeOK
  <2>4. data + bytes_left = ShaChunk.lower_bound + ShaChunk.size
    BY DEF ShaIInv, ShaPosition
  <2> QED
    BY <2>2, <2>3, <2>4
<1> QED
  BY <1>1, ShaInvariance, PTL

=============================================================================
