--------------------------- MODULE LzwHostProofs ---------------------------
(***************************************************************************)
(* Proofs about the lzw stage, for every even size of the ring and streams of *)
(* any length: whatever order the command queue completes the commands in.    *)
(***************************************************************************)
EXTENDS LzwHost, Basics, TLAPS

-----------------------------------------------------------------------------
(* The invariant that carries the proofs *)

LzwStates == {"wait", "copy", "run", "full", "release", "check", "drain1", "drain2",
              "finish", "done"}

TypeOK ==
  /\ posted \in Nat /\ sem_lzw \in Nat /\ released \in Nat
  /\ total_packets \in Packets \cup {INT_MAX}
  /\ lzw \in LzwStates /\ count \in Nat
  /\ input_to_fpga \in [Kernels -> [HalfSlots -> Int]]
  /\ device_in \in [Kernels -> [HalfSlots -> Int]]
  /\ device_out \in [Kernels -> [HalfSlots -> Int]]
  /\ output_from_fpga \in [Kernels -> [HalfSlots -> Int]]
  /\ enqueued \in Nat /\ crossed \in [Kernels -> [HalfSlots -> BOOLEAN]]
  /\ finished \in [{"write", "exec", "read"} -> SUBSET Nat]
  /\ read_counter \in [Kernels -> Nat] /\ pkts_read \in [Kernels -> Nat]
  /\ total_pkts_read \in Nat /\ file \in Seq(Int)

(* How far lzw_host() has come with packet count, one place after the other:    *)
(* packets taken, copied in, enqueued, past the read when the ring is full,     *)
(* given back.                                                                *)
Beyond(states)   == count + (IF lzw \in states THEN 0 ELSE 1)
PacketsTaken     == Beyond({"wait"})
PacketsCopied    == Beyond({"wait", "copy"})
PacketsEnqueued  == Beyond({"wait", "copy", "run"})
PacketsPassed    == Beyond({"wait", "copy", "run", "full"})
PacketsGivenBack == Beyond({"wait", "copy", "run", "full", "release"})

Emptying == lzw \in {"drain1", "drain2", "finish", "done"}

Counting ==
  /\ posted = sem_lzw + PacketsTaken /\ posted <= MaxLast + 1
  /\ enqueued = PacketsEnqueued /\ released = PacketsGivenBack
  /\ total_packets # INT_MAX => posted <= total_packets + 1
  /\ Emptying => count = total_packets
  /\ lzw = "full" => RingFull(count)

(* The reads that the full ring has called for: none of the first lap's, then    *)
(* kernel 2 and kernel 1 in turn.                                             *)
RingReads ==
  /\ PacketsPassed < NUM_PACKETS => pkts_read[1] = 0 /\ pkts_read[2] = 0
  /\ PacketsPassed >= NUM_PACKETS =>
       IF PacketsPassed % 2 = 1
         THEN pkts_read[2] = pkts_read[1] /\ 2 * pkts_read[1] = PacketsPassed - NUM_PACKETS + 1
         ELSE pkts_read[2] = pkts_read[1] + 1 /\ 2 * pkts_read[1] = PacketsPassed - NUM_PACKETS
  /\ ~Emptying => \A k \in Kernels : read_counter[k] = pkts_read[k] % (NUM_PACKETS \div 2)

(* The reads of the draining loop: its indices, which go on from those of the      *)
(* ring, do not wrap before it ends.                                         *)
DrainReads == total_pkts_read - pkts_read[1] - pkts_read[2]

DrainCounts ==
  /\ Len(file) = total_pkts_read
  /\ ~Emptying => DrainReads = 0
  /\ Emptying  => DrainReads >= 0 /\ total_pkts_read <= total_packets + 1
  /\ lzw = "drain1" => DrainReads % 2 = 0
  /\ lzw = "drain2" => DrainReads % 2 = 1
  /\ lzw \in {"finish", "done"} => total_pkts_read = total_packets + 1
  /\ Emptying =>
       /\ 2 * read_counter[1] =
            2 * (pkts_read[1] % (NUM_PACKETS \div 2)) + (DrainReads + (DrainReads % 2))
       /\ 2 * read_counter[2] =
            2 * (pkts_read[2] % (NUM_PACKETS \div 2)) + (DrainReads - (DrainReads % 2))

(* A packet's commands complete in their order. *)
Commands ==
  /\ finished["write"] \subseteq 0 .. enqueued - 1
  /\ finished["exec"] \subseteq finished["write"]
  /\ finished["read"] \subseteq finished["exec"]
  /\ lzw = "done" => \A c \in DOMAIN finished : finished[c] = 0 .. enqueued - 1

(* A read that the full ring has called for was awaited.                      *)
ReadsAwaited ==
  \A k \in Kernels : \A j \in 0 .. pkts_read[k] - 1 : EventPacket(k, j) \in finished["read"]

(* Before a buffer of kernel 2 is copied to again its last output has been read,  *)
(* so that no command of one packet meets those of another in it.               *)
Apart ==
  /\ \A q \in 0 .. PacketsCopied - 1 :
       KernelOf(q) = 2 /\ q + NUM_PACKETS < PacketsCopied => q \in finished["read"]
  /\ \A i \in HalfSlots : crossed[2][i] = FALSE

MixOf(q) == Mix(KernelOf(q), SlotOf(q))

(* Of a buffer whose latest packet is q: once q's command on it has completed it *)
(* holds q, once that of the packet a lap before has, it holds one of the two; for *)
(* kernel 1, either or a mix.                                                 *)
InTurn(c, content, q) ==
  /\ q \in finished[c] => content = q \/ (KernelOf(q) = 1 /\ content = MixOf(q))
  /\ q - NUM_PACKETS \in finished[c] => content \in {q - NUM_PACKETS, q, MixOf(q)}

Laps ==
  \A q \in 0 .. PacketsCopied - 1 : q + NUM_PACKETS >= PacketsCopied =>
    LET k == KernelOf(q)
        i == SlotOf(q)
    IN  /\ input_to_fpga[k][i] = q
        /\ InTurn("write", device_in[k][i], q)
        /\ InTurn("exec", device_out[k][i], q)
        /\ InTurn("read", output_from_fpga[k][i], q)

IInv == /\ TypeOK /\ Counting /\ RingReads /\ DrainCounts /\ Commands
        /\ ReadsAwaited /\ Apart /\ Laps
        /\ KernelTwoInTurn /\ KernelOneNeverStale

(* Until a slot's second packet is copied in, the device has seen no other than the *)
(* first in it.                                                              *)
FirstLap ==
  \A q \in 0 .. NUM_PACKETS - 1 : PacketsCopied <= q + NUM_PACKETS =>
    LET k == KernelOf(q)
        i == SlotOf(q)
    IN  /\ device_in[k][i] \in {NONE, q, MixOf(q)}
        /\ device_out[k][i] \in {NONE, q, MixOf(q)}
        /\ output_from_fpga[k][i] \in {NONE, q, MixOf(q)}

(* What place j of the file may hold if the draining loop has filled it.        *)
DrainedAt(j) ==
  LET p == PacketAt(j - 1, total_packets + 1) IN {p, p - NUM_PACKETS, MixOf(p), NONE}

DrainedInPlace ==
  Emptying => \A j \in 1 .. Len(file) : j > pkts_read[1] + pkts_read[2] => file[j] \in DrainedAt(j)

(* What the order in the file rests on besides IInv.                          *)
PlaceInv == FirstLap /\ DrainedInPlace

-----------------------------------------------------------------------------
(* Arithmetic of the two half rings *)

Half == NUM_PACKETS \div 2

(* The ring is two halves, and the total is told from every packet's number. *)
LEMMA Sizes ==
  /\ NUM_PACKETS \in Nat \ {0} /\ Half \in Nat \ {0}
  /\ NUM_PACKETS = 2 * Half
  /\ HalfSlots = 0 .. Half - 1
  /\ MaxLast \in Nat /\ INT_MAX \in Nat /\ INT_MAX > MaxLast
<1>1. NUM_PACKETS \in Nat \ {0} /\ NUM_PACKETS % 2 = 0
  BY NumPacketsAssumption
<1>2. Half \in Nat /\ NUM_PACKETS = 2 * Half
  BY <1>1, SMT DEF Half
<1> QED
  BY <1>1, <1>2, LastAssumption DEF HalfSlots, Half

(* A number and what is left of it in a ring of even size have one parity. *)
LEMMA ParityInRing ==
  ASSUME NEW p \in Nat
  PROVE  (p % NUM_PACKETS) % 2 = p % 2
<1> DEFINE m == p \div NUM_PACKETS
           u == p % NUM_PACKETS
<1>1. m \in Nat /\ u \in 0 .. NUM_PACKETS - 1 /\ p = NUM_PACKETS * m + u
  BY Sizes, DivMod
<1> HIDE DEF m, u
<1> DEFINE x == Half * m
<1>2. x \in Nat /\ NUM_PACKETS * m = 2 * x
  BY <1>1, Sizes, SMT
<1> HIDE DEF x
<1>3. p = 2 * x + u /\ u \in Nat
  BY <1>1, <1>2, Sizes
<1>4. u % 2 = p % 2
  BY <1>2, <1>3, SMT
<1> QED
  BY <1>4 DEF u

(* A packet has a kernel and a slot among its buffers. *)
LEMMA PlaceType ==
  ASSUME NEW p \in Nat
  PROVE  KernelOf(p) \in Kernels /\ SlotOf(p) \in HalfSlots
<1> DEFINE u == p % NUM_PACKETS
<1>1. u \in 0 .. NUM_PACKETS - 1
  BY Sizes, DivMod
<1> HIDE DEF u
<1>2. u \div 2 \in HalfSlots
  BY <1>1, Sizes, SMT
<1>3. KernelOf(p) \in Kernels
  BY SMT DEF KernelOf, Kernels
<1> QED
  BY <1>2, <1>3 DEF SlotOf, u

(* A lap later the same buffers come round. *)
LEMMA LapLater ==
  ASSUME NEW p \in Nat
  PROVE  KernelOf(p + NUM_PACKETS) = KernelOf(p) /\ SlotOf(p + NUM_PACKETS) = SlotOf(p)
<1> DEFINE m == p \div NUM_PACKETS
           u == p % NUM_PACKETS
           q == p + NUM_PACKETS
           n == q \div NUM_PACKETS
           v == q % NUM_PACKETS
           m1 == m + 1
<1>0. q \in Nat
  BY Sizes
<1>1. m \in Nat /\ u \in 0 .. NUM_PACKETS - 1 /\ p = NUM_PACKETS * m + u
  BY Sizes, DivMod
<1>2. n \in Nat /\ v \in 0 .. NUM_PACKETS - 1 /\ q = NUM_PACKETS * n + v
  BY <1>0, Sizes, DivMod
<1>3. m1 \in Nat
  BY <1>1
<1>4. NUM_PACKETS * m1 = NUM_PACKETS * m + NUM_PACKETS /\ NUM_PACKETS * m \in Nat
  <2> HIDE DEF m
  <2> QED
    BY <1>1, Sizes, SMT
<1>5. NUM_PACKETS * m1 + u = NUM_PACKETS * n + v
  <2> DEFINE x == NUM_PACKETS * m
             y == NUM_PACKETS * m1
             z == NUM_PACKETS * n
  <2>1. x \in Nat /\ y = x + NUM_PACKETS /\ p = x + u /\ p + NUM_PACKETS = z + v
    BY <1>1, <1>2, <1>4
  <2>2. u \in Nat
    BY <1>1, Sizes
  <2> HIDE DEF x, y, z, u, v
  <2>3. y + u = z + v
    BY <2>1, <2>2, Sizes
  <2> QED
    BY <2>3 DEF y, z
<1>6. u = v
  <2> HIDE DEF m, m1, n, u, v
  <2> QED
    BY <1>1, <1>2, <1>3, <1>5, Sizes, QuotientRemainder
<1>7. SlotOf(q) = SlotOf(p)
  BY <1>6 DEF SlotOf
<1>8. KernelOf(q) = KernelOf(p)
  BY Sizes, SMT DEF KernelOf
<1> QED
  BY <1>7, <1>8

(* Packets less than a lap apart do not share buffers. *)
LEMMA DistinctPlaces ==
  ASSUME NEW p \in Nat, NEW q \in Nat, q < p, p - q < NUM_PACKETS,
         KernelOf(q) = KernelOf(p)
  PROVE  SlotOf(q) # SlotOf(p)
<1> DEFINE u == p % NUM_PACKETS
           v == q % NUM_PACKETS
<1>1. u \in Nat /\ v \in Nat
  BY Sizes, DivMod
<1>2. u # v
  BY Sizes, ModInjective
<1>3. p % 2 = q % 2
  BY SMT DEF KernelOf
<1>4. u % 2 = v % 2
  BY <1>3, ParityInRing
<1> HIDE DEF u, v
<1>5. u \div 2 # v \div 2
  BY <1>1, <1>2, <1>4, SMT
<1> QED
  BY <1>5 DEF SlotOf, u, v

(* The packet of event j of either kernel has slot j of the kernel's half ring. *)
LEMMA EventSlot ==
  ASSUME NEW j \in Nat, NEW k \in Kernels
  PROVE  /\ EventPacket(k, j) \in Nat
         /\ KernelOf(EventPacket(k, j)) = k
         /\ SlotOf(EventPacket(k, j)) = j % Half
         /\ j % Half \in HalfSlots
<1> DEFINE m == j \div Half
           r == j % Half
           p == EventPacket(k, j)
           n == p \div NUM_PACKETS
           u == p % NUM_PACKETS
           w == 2 * r + (k - 1)
<1>0. k \in 1 .. 2 /\ p = 2 * j + (k - 1) /\ p \in Nat
  BY DEF Kernels, EventPacket
<1>1. m \in Nat /\ r \in 0 .. Half - 1 /\ j = Half * m + r
  BY Sizes, DivMod
<1>2. n \in Nat /\ u \in 0 .. NUM_PACKETS - 1 /\ p = NUM_PACKETS * n + u
  BY <1>0, Sizes, DivMod
<1>3. KernelOf(p) = k
  <2> HIDE DEF p
  <2> QED
    BY <1>0, SMT DEF KernelOf
<1>4. w \in 0 .. NUM_PACKETS - 1 /\ w \div 2 = r
  <2> HIDE DEF r
  <2> QED
    BY <1>0, <1>1, Sizes, SMT
<1>5. NUM_PACKETS * m + w = NUM_PACKETS * n + u
  <2> DEFINE x == Half * m
             y == NUM_PACKETS * m
             z == NUM_PACKETS * n
  <2>1. x \in Nat /\ y = 2 * x
    <3> HIDE DEF m
    <3> QED
      BY <1>1, Sizes, SMT
  <2>2. j = x + r /\ p = z + u
    BY <1>1, <1>2
  <2>3. r \in Nat
    BY <1>1, Sizes
  <2> HIDE DEF x, y, z, r, u, p
  <2>4. y + w = z + u
    BY <2>1, <2>2, <2>3, <1>0
  <2> QED
    BY <2>4 DEF y, z
<1>6. w = u
  <2>1. m \in Nat /\ n \in Nat /\ w \in 0 .. NUM_PACKETS - 1 /\ u \in 0 .. NUM_PACKETS - 1
    BY <1>1, <1>2, <1>4
  <2>2. NUM_PACKETS \in Nat \ {0}
    BY Sizes
  <2> HIDE DEF m, n, u, w
  <2> QED
    BY <2>1, <2>2, <1>5, QuotientRemainder
<1>7. SlotOf(p) = r
  BY <1>4, <1>6 DEF SlotOf
<1> QED
  BY <1>0, <1>1, <1>3, <1>7, Sizes

(* A mix is a content like any other. *)
LEMMA MixType ==
  ASSUME NEW k \in Kernels, NEW i \in HalfSlots
  PROVE  Mix(k, i) \in Int
  BY Sizes DEF Mix, Kernels

(* The wrap of the ring's reads keeps the index that of the next event. *)
LEMMA WrapIsNext ==
  ASSUME NEW j \in Nat
  PROVE  WrapAt(j % Half, Half - 1) = (j + 1) % Half
<1> DEFINE r == j % Half
<1>1. r \in 0 .. Half - 1
  BY Sizes, DivMod
<1>2. (j + 1) % Half = IF r = Half - 1 THEN 0 ELSE r + 1
  BY Sizes, ModSuccessor
<1> HIDE DEF r
<1>3. WrapAt(r, Half - 1) = IF r = Half - 1 THEN 0 ELSE r + 1
  BY <1>1, Sizes DEF WrapAt
<1> QED
  BY <1>2, <1>3 DEF r

-----------------------------------------------------------------------------
(* What a step leaves alone *)

(* Where lzw_host() is tells how many packets have come how far. *)
LEMMA PlacesType ==
  ASSUME TypeOK
  PROVE  /\ PacketsTaken \in Nat /\ PacketsCopied \in Nat /\ PacketsEnqueued \in Nat
         /\ PacketsPassed \in Nat /\ PacketsGivenBack \in Nat
         /\ PacketsPassed \in {count, count + 1}
  BY DEF TypeOK, Beyond, PacketsTaken, PacketsCopied, PacketsEnqueued, PacketsPassed,
         PacketsGivenBack

(* While no buffer changes and no packet is copied in, contents stay as they are. *)
LEMMA LapsFrame ==
  ASSUME Laps, Apart, UNCHANGED <<buffers, finished, crossed>>, PacketsCopied' = PacketsCopied
  PROVE  Laps' /\ Apart'
  BY DEF Laps, InTurn, Apart, buffers

(* While nothing is read, the file keeps its order, and awaited reads stay complete. *)
LEMMA FileFrame ==
  ASSUME KernelTwoInTurn, KernelOneNeverStale, ReadsAwaited, UNCHANGED <<file, pkts_read>>,
         finished["read"] \subseteq finished'["read"]
  PROVE  KernelTwoInTurn' /\ KernelOneNeverStale' /\ ReadsAwaited'
  BY DEF KernelTwoInTurn, KernelOneNeverStale, ReadsAwaited

(* While nothing is enqueued and nothing completes, the queue stays as it is. *)
LEMMA CommandsFrame ==
  ASSUME Commands, UNCHANGED <<finished, enqueued>>, lzw' = "done" => lzw = "done"
  PROVE  Commands'
  BY DEF Commands

(* While nothing is read and nothing comes past the reads, their counts stay. *)
LEMMA ReadsFrame ==
  ASSUME RingReads, UNCHANGED <<pkts_read, read_counter>>, PacketsPassed' = PacketsPassed,
         Emptying => Emptying'
  PROVE  RingReads'
  BY DEF RingReads

(* While nothing is read and lzw_host() feeds the kernels, nothing is drained. *)
LEMMA DrainFrame ==
  ASSUME DrainCounts, UNCHANGED <<pkts_read, total_pkts_read, file>>, ~Emptying, ~Emptying'
  PROVE  DrainCounts'
  BY DEF DrainCounts, DrainReads, Emptying

-----------------------------------------------------------------------------
(* The steps *)

(* At first every buffer is empty and nothing has been counted. *)
LEMMA InitStep == Init => IInv
<1> SUFFICES ASSUME Init PROVE IInv
  OBVIOUS
<1> USE DEF Init, Feed!Init
<1>1. TypeOK
  BY Sizes DEF TypeOK, LzwStates, Untouched, Kernels, NONE
<1>2. PacketsTaken = 0 /\ PacketsCopied = 0 /\ PacketsEnqueued = 0 /\ PacketsPassed = 0
      /\ PacketsGivenBack = 0 /\ ~Emptying
  BY DEF Beyond, PacketsTaken, PacketsCopied, PacketsEnqueued, PacketsPassed,
         PacketsGivenBack, Emptying
<1>3. Counting
  BY <1>2, Sizes DEF Counting
<1>4. RingReads
  <2>1. 0 % Half = 0 /\ 0 < NUM_PACKETS
    BY Sizes, ModSmall
  <2>2. pkts_read[1] = 0 /\ pkts_read[2] = 0
    BY DEF Kernels
  <2>3. \A k \in Kernels : read_counter[k] = pkts_read[k] % (NUM_PACKETS \div 2)
    BY <2>1 DEF Half
  <2>4. ~(PacketsPassed >= NUM_PACKETS)
    BY <1>2, <2>1, Sizes
  <2> QED
    BY <2>2, <2>3, <2>4 DEF RingReads
<1>5. DrainCounts
  BY <1>2 DEF DrainCounts, DrainReads, Kernels, Emptying
<1>6. Commands
  BY DEF Commands
<1>7. Laps /\ Apart
  BY <1>2 DEF Laps, Apart, Kernels
<1>8. KernelTwoInTurn /\ KernelOneNeverStale /\ ReadsAwaited
  BY DEF KernelTwoInTurn, KernelOneNeverStale, ReadsAwaited, Kernels
<1> QED
  BY <1>1, <1>3, <1>4, <1>5, <1>6, <1>7, <1>8 DEF IInv

(* A packet more is posted to the stage. *)
LEMMA DedupPostsStep == IInv /\ DedupPosts => IInv'
<1> SUFFICES ASSUME IInv, DedupPosts PROVE IInv'
  OBVIOUS
<1>1. /\ posted' = posted + 1 /\ sem_lzw' = sem_lzw + 1
      /\ posted <= MaxLast
      /\ total_packets # INT_MAX => posted <= total_packets
      /\ released' = released /\ total_packets' = total_packets
      /\ UNCHANGED <<lzw, count, buffers, enqueued, crossed, finished, reading>>
  BY DEF DedupPosts, Feed!Post, queue
<1>2. TypeOK'
  BY <1>1 DEF IInv, TypeOK, buffers, reading
<1>3. /\ PacketsTaken' = PacketsTaken /\ PacketsCopied' = PacketsCopied
      /\ PacketsEnqueued' = PacketsEnqueued /\ PacketsPassed' = PacketsPassed
      /\ PacketsGivenBack' = PacketsGivenBack /\ Emptying' = Emptying
  BY <1>1 DEF Beyond, PacketsTaken, PacketsCopied, PacketsEnqueued, PacketsPassed,
              PacketsGivenBack, Emptying
<1>4. Counting'
  BY <1>1, <1>3, PlacesType, Sizes DEF IInv, TypeOK, Counting, Packets
<1>5. RingReads' /\ Commands' /\ Laps' /\ Apart' /\ KernelTwoInTurn' /\ KernelOneNeverStale' /\ ReadsAwaited'
  BY <1>1, <1>3, ReadsFrame, CommandsFrame, LapsFrame, FileFrame DEF IInv, reading
<1>6. DrainCounts'
  BY <1>1, <1>3 DEF IInv, DrainCounts, DrainReads, reading
<1> QED
  BY <1>2, <1>4, <1>5, <1>6 DEF IInv

(* The total comes before the stage can have met it. *)
LEMMA MainSetsTotalStep == IInv /\ MainSetsTotal => IInv'
<1> SUFFICES ASSUME IInv, MainSetsTotal PROVE IInv'
  OBVIOUS
<1>1. /\ total_packets = INT_MAX /\ total_packets' \in Packets /\ posted - 1 <= total_packets'
      /\ posted' = posted /\ released' = released
      /\ UNCHANGED <<sem_lzw, lzw, count, buffers, enqueued, crossed, finished, reading>>
  BY DEF MainSetsTotal, Feed!SetTotal, Packets, queue
<1>2. TypeOK'
  BY <1>1 DEF IInv, TypeOK, buffers, reading
<1>3. /\ PacketsTaken' = PacketsTaken /\ PacketsCopied' = PacketsCopied
      /\ PacketsEnqueued' = PacketsEnqueued /\ PacketsPassed' = PacketsPassed
      /\ PacketsGivenBack' = PacketsGivenBack /\ Emptying' = Emptying
  BY <1>1 DEF Beyond, PacketsTaken, PacketsCopied, PacketsEnqueued, PacketsPassed,
              PacketsGivenBack, Emptying
<1>4. ~Emptying
  <2>1. Emptying => PacketsTaken = INT_MAX + 1
    BY <1>1 DEF IInv, Counting, Emptying, PacketsTaken, Beyond
  <2> QED
    BY <1>1, <2>1, Sizes DEF IInv, TypeOK, Counting
<1>5. Counting'
  BY <1>1, <1>3, <1>4, Sizes, PlacesType DEF IInv, TypeOK, Counting, Packets
<1>6. RingReads' /\ Commands' /\ Laps' /\ Apart' /\ KernelTwoInTurn' /\ KernelOneNeverStale' /\ ReadsAwaited'
  BY <1>1, <1>3, ReadsFrame, CommandsFrame, LapsFrame, FileFrame DEF IInv, reading
<1>7. DrainCounts'
  BY <1>1, <1>3, <1>4, DrainFrame DEF IInv, reading
<1> QED
  BY <1>2, <1>5, <1>6, <1>7 DEF IInv

(* A packet is taken. *)
LEMMA AwaitPacketStep == IInv /\ AwaitPacket => IInv'
<1> SUFFICES ASSUME IInv, AwaitPacket PROVE IInv'
  OBVIOUS
<1>1. /\ lzw = "wait" /\ sem_lzw > 0 /\ sem_lzw' = sem_lzw - 1 /\ lzw' = "copy"
      /\ UNCHANGED <<posted, total_packets, released, count, buffers, enqueued, crossed, finished, reading>>
  BY DEF AwaitPacket, PacketReady, env, queue
<1>2. TypeOK'
  BY <1>1 DEF IInv, TypeOK, LzwStates, buffers, reading
<1>3. /\ PacketsTaken = count /\ PacketsTaken' = count + 1 /\ PacketsCopied' = PacketsCopied
      /\ PacketsEnqueued' = PacketsEnqueued /\ PacketsPassed' = PacketsPassed
      /\ PacketsGivenBack' = PacketsGivenBack /\ ~Emptying' /\ ~Emptying
  BY <1>1, <1>2 DEF Beyond, PacketsTaken, PacketsCopied, PacketsEnqueued, PacketsPassed,
              PacketsGivenBack, Emptying, IInv, TypeOK
<1>5. Counting'
  BY <1>1, <1>3, Sizes DEF IInv, TypeOK, Counting
<1>6. RingReads' /\ Commands' /\ Laps' /\ Apart' /\ KernelTwoInTurn' /\ KernelOneNeverStale' /\ ReadsAwaited'
  BY <1>1, <1>3, ReadsFrame, CommandsFrame, LapsFrame, FileFrame DEF IInv, reading
<1>7. DrainCounts'
  BY <1>1, <1>3, DrainFrame DEF IInv, reading
<1> QED
  BY <1>2, <1>5, <1>6, <1>7 DEF IInv

(* The reads of kernel 1 and kernel 2 that the ring has called for, together. *)
LEMMA ReadsSum ==
  ASSUME TypeOK, RingReads
  PROVE  /\ pkts_read[1] \in Nat /\ pkts_read[2] \in Nat
         /\ pkts_read[1] <= pkts_read[2] /\ pkts_read[2] <= pkts_read[1] + 1
         /\ PacketsPassed < NUM_PACKETS => pkts_read[1] + pkts_read[2] = 0
         /\ PacketsPassed >= NUM_PACKETS =>
              pkts_read[1] + pkts_read[2] = PacketsPassed - NUM_PACKETS + 1
<1>1. pkts_read[1] \in Nat /\ pkts_read[2] \in Nat /\ PacketsPassed \in Nat
      /\ total_pkts_read \in Nat
  BY PlacesType DEF TypeOK, Kernels
<1>2. \/ PacketsPassed < NUM_PACKETS /\ pkts_read[1] = 0 /\ pkts_read[2] = 0
      \/ /\ PacketsPassed >= NUM_PACKETS /\ pkts_read[2] = pkts_read[1]
         /\ 2 * pkts_read[1] = PacketsPassed - NUM_PACKETS + 1
      \/ /\ PacketsPassed >= NUM_PACKETS /\ pkts_read[2] = pkts_read[1] + 1
         /\ 2 * pkts_read[1] = PacketsPassed - NUM_PACKETS
  BY <1>1, Sizes DEF RingReads
<1> QED
  BY <1>1, <1>2, Sizes

(* A packet of kernel 2 whose output is still to be read is the latest one of its  *)
(* buffer.                                                                   *)
LEMMA UnreadIsLatest ==
  ASSUME IInv, NEW p \in 0 .. PacketsCopied - 1, KernelOf(p) = 2, p \notin finished["read"],
         NEW q \in 0 .. PacketsCopied - 1, q + NUM_PACKETS >= PacketsCopied,
         KernelOf(q) = 2, SlotOf(q) = SlotOf(p)
  PROVE  p = q
<1>1. p \in Nat /\ q \in Nat /\ PacketsCopied \in Nat /\ NUM_PACKETS \in Nat
  BY Sizes, PlacesType DEF IInv
<1>2. ~(q < p)
  BY <1>1, DistinctPlaces
<1>3. ~(p < q)
  <2> SUFFICES ASSUME p < q PROVE FALSE
    OBVIOUS
  <2>1. ~(q - p < NUM_PACKETS)
    BY <1>1, DistinctPlaces
  <2>2. p + NUM_PACKETS < PacketsCopied
    BY <1>1, <2>1
  <2> QED
    BY <2>2 DEF IInv, Apart
<1> QED
  BY <1>1, <1>2, <1>3

(* The buffers of packet count are those of the packet a lap before, whose output *)
(* they still hold behind the input; no other packet less than a lap old has them. *)
LEMMA CopyInStep == IInv /\ CopyIn => IInv'
<1> SUFFICES ASSUME IInv, CopyIn PROVE IInv'
  OBVIOUS
<1> DEFINE K == KernelOf(count)
           S == SlotOf(count)
<1>1. /\ lzw = "copy" /\ lzw' = "run"
      /\ input_to_fpga' = [input_to_fpga EXCEPT ![K][S] = count]
      /\ UNCHANGED <<posted, total_packets, sem_lzw, released, count, device_in, device_out,
                     output_from_fpga, enqueued, crossed, finished, reading>>
  BY DEF CopyIn, env, queue
<1>2. count \in Nat /\ K \in Kernels /\ S \in HalfSlots
  BY PlaceType DEF IInv, TypeOK
<1>3. TypeOK'
  <2> HIDE DEF K, S
  <2>1. input_to_fpga' \in [Kernels -> [HalfSlots -> Int]]
    BY <1>1, <1>2 DEF IInv, TypeOK
  <2> QED
    BY <1>1, <2>1 DEF IInv, TypeOK, LzwStates, reading
<1>4. /\ PacketsTaken' = PacketsTaken /\ PacketsCopied' = count + 1 /\ PacketsCopied = count
      /\ PacketsEnqueued' = PacketsEnqueued /\ PacketsEnqueued = count
      /\ PacketsPassed' = PacketsPassed
      /\ PacketsGivenBack' = PacketsGivenBack /\ ~Emptying' /\ ~Emptying
  BY <1>1, <1>2 DEF Beyond, PacketsTaken, PacketsCopied, PacketsEnqueued, PacketsPassed,
              PacketsGivenBack, Emptying
<1>5. Counting'
  BY <1>1, <1>4, Sizes DEF IInv, TypeOK, Counting
<1>6. RingReads' /\ Commands' /\ KernelTwoInTurn' /\ KernelOneNeverStale' /\ ReadsAwaited'
  BY <1>1, <1>4, ReadsFrame, CommandsFrame, FileFrame DEF IInv, reading
<1>7. DrainCounts'
  BY <1>1, <1>4, DrainFrame DEF IInv, reading
<1>8. Laps'
  <2> SUFFICES ASSUME NEW q \in 0 .. count, q + NUM_PACKETS >= count + 1
               PROVE  /\ input_to_fpga'[KernelOf(q)][SlotOf(q)] = q
                      /\ InTurn("write", device_in[KernelOf(q)][SlotOf(q)], q)
                      /\ InTurn("exec", device_out[KernelOf(q)][SlotOf(q)], q)
                      /\ InTurn("read", output_from_fpga[KernelOf(q)][SlotOf(q)], q)
    <3>1. PacketsCopied' - 1 = count /\ PacketsCopied' = count + 1
      BY <1>2, <1>4
    <3> QED
      BY <1>1, <3>1 DEF Laps, InTurn
  <2>0. q \in Nat /\ KernelOf(q) \in Kernels /\ SlotOf(q) \in HalfSlots
    BY <1>2, PlaceType
  <2>1. CASE q < count
    <3>1. q \in 0 .. PacketsCopied - 1 /\ q + NUM_PACKETS >= PacketsCopied
      BY <1>2, <1>4, <2>0, <2>1, Sizes
    <3>2. ~(KernelOf(q) = K /\ SlotOf(q) = S)
      <4>1. count - q < NUM_PACKETS
        BY <1>2, <2>0, Sizes
      <4> QED
        BY <1>2, <2>0, <2>1, <4>1, DistinctPlaces
    <3>3. input_to_fpga'[KernelOf(q)][SlotOf(q)] = input_to_fpga[KernelOf(q)][SlotOf(q)]
      <4> DEFINE k == KernelOf(q)
                 i == SlotOf(q)
      <4> HIDE DEF k, i, K, S
      <4>1. input_to_fpga'[k][i] = input_to_fpga[k][i]
        BY <1>1, <1>2, <2>0, <3>2 DEF IInv, TypeOK, k, i
      <4> QED
        BY <4>1 DEF k, i
    <3> QED
      BY <3>1, <3>3 DEF IInv, Laps
  <2>2. CASE q = count
    <3>1. input_to_fpga'[KernelOf(q)][SlotOf(q)] = q
      <4> HIDE DEF K, S
      <4>1. input_to_fpga'[K][S] = count
        BY <1>1, <1>2 DEF IInv, TypeOK
      <4> QED
        BY <2>2, <4>1 DEF K, S
    <3>2. \A c \in {"write", "exec", "read"} : q \notin finished[c]
      BY <1>2, <1>4, <2>2 DEF IInv, Counting, Commands
    <3>3. ASSUME q - NUM_PACKETS \in Nat
          PROVE  /\ InTurn("write", device_in[K][S], q - NUM_PACKETS)
                 /\ InTurn("exec", device_out[K][S], q - NUM_PACKETS)
                 /\ InTurn("read", output_from_fpga[K][S], q - NUM_PACKETS)
      <4> DEFINE p == q - NUM_PACKETS
      <4>1. p \in Nat /\ p + NUM_PACKETS = count /\ p \in 0 .. PacketsCopied - 1
            /\ p + NUM_PACKETS >= PacketsCopied
        BY <1>2, <1>4, <2>2, <3>3, Sizes
      <4> HIDE DEF p
      <4>2. KernelOf(p) = K /\ SlotOf(p) = S
        BY <4>1, LapLater
      <4>3. /\ InTurn("write", device_in[K][S], p)
            /\ InTurn("exec", device_out[K][S], p)
            /\ InTurn("read", output_from_fpga[K][S], p)
        BY <4>1, <4>2 DEF IInv, Laps
      <4> QED
        BY <4>3 DEF p
    <3>4. ASSUME NEW c \in {"write", "exec", "read"}, NEW content,
                 q - NUM_PACKETS \in Nat => InTurn(c, content, q - NUM_PACKETS)
          PROVE  InTurn(c, content, q)
      <4>1. q \notin finished[c] /\ finished[c] \subseteq Nat
        BY <3>2 DEF IInv, TypeOK
      <4> SUFFICES ASSUME q - NUM_PACKETS \in finished[c]
                   PROVE  content \in {q - NUM_PACKETS, q, MixOf(q)}
        BY <4>1 DEF InTurn
      <4> DEFINE p == q - NUM_PACKETS
      <4>2. p \in Nat /\ q = p + NUM_PACKETS
        BY <2>0, <4>1, Sizes
      <4>3. content = p \/ content = MixOf(p)
        BY <3>4, <4>2 DEF InTurn
      <4> HIDE DEF p
      <4>4. MixOf(p) = MixOf(q)
        BY <4>2, LapLater DEF MixOf
      <4> QED
        BY <4>3, <4>4 DEF p
    <3> QED
      BY <2>2, <3>1, <3>3, <3>4
  <2> QED
    BY <2>0, <2>1, <2>2, <1>2
<1>9. Apart'
  <2> SUFFICES ASSUME NEW q \in 0 .. count, KernelOf(q) = 2, q + NUM_PACKETS < count + 1
               PROVE  q \in finished["read"]
    <3>1. PacketsCopied' - 1 = count /\ PacketsCopied' = count + 1
      BY <1>2, <1>4
    <3> QED
      BY <1>1, <3>1 DEF Apart, IInv
  <2>0. q \in Nat /\ NUM_PACKETS \in Nat /\ NUM_PACKETS >= 2
    BY <1>2, Sizes
  <2>1. CASE q + NUM_PACKETS < count
    <3>1. q \in 0 .. PacketsCopied - 1 /\ q + NUM_PACKETS < PacketsCopied
      BY <1>2, <1>4, <2>0, <2>1
    <3> QED
      BY <3>1 DEF IInv, Apart
  <2>2. CASE q + NUM_PACKETS = count
    <3>1. PacketsPassed = count
      BY <1>1, <1>2 DEF PacketsPassed, Beyond
    <3>2. q % 2 = 1 /\ count % 2 = 1
      BY <1>2, <2>0, <2>2, Sizes DEF KernelOf
    <3>3. pkts_read[2] = pkts_read[1] /\ 2 * pkts_read[1] = count - NUM_PACKETS + 1
      BY <2>0, <2>2, <3>1, <3>2 DEF IInv, RingReads
    <3> DEFINE j == (q - 1) \div 2
    <3>4. pkts_read[2] \in Nat
      BY ReadsSum DEF IInv
    <3>5. j \in 0 .. pkts_read[2] - 1 /\ q = 2 * j + 1
      BY <2>0, <2>2, <3>2, <3>3, <3>4
    <3> HIDE DEF j
    <3>6. EventPacket(2, j) \in finished["read"]
      BY <3>5 DEF IInv, ReadsAwaited, Kernels
    <3> QED
      BY <3>5, <3>6 DEF EventPacket
  <2> QED
    BY <1>2, <2>0, <2>1, <2>2
<1> QED
  BY <1>3, <1>5, <1>6, <1>7, <1>8, <1>9 DEF IInv

(* The packet's commands are enqueued; its turn to read comes only with a full ring. *)
LEMMA RunStep == IInv /\ Run => IInv'
<1> SUFFICES ASSUME IInv, Run PROVE IInv'
  OBVIOUS
<1> DEFINE K == KernelOf(count)
           S == SlotOf(count)
           x == (Unread(K, S, count) # {})
<1>1. /\ lzw = "run" /\ lzw' = IF RingFull(count) THEN "full" ELSE "release"
      /\ enqueued' = count + 1
      /\ crossed' = [crossed EXCEPT ![K][S] = x]
      /\ UNCHANGED <<posted, total_packets, sem_lzw, released, count, buffers, finished, reading>>
  BY DEF Run, env
<1>2. /\ count \in Nat /\ enqueued = count /\ PacketsCopied = count + 1
      /\ K \in Kernels /\ S \in HalfSlots
  <2>1. count \in Nat
    BY DEF IInv, TypeOK
  <2>2. enqueued = count /\ PacketsCopied = count + 1
    BY <1>1, <2>1 DEF IInv, Counting, PacketsEnqueued, PacketsCopied, Beyond
  <2> QED
    BY <2>1, <2>2, PlaceType
<1>10. K = 2 => x = FALSE
  <2> SUFFICES ASSUME K = 2, NEW q \in Unread(K, S, count) PROVE FALSE
    BY Zenon
  <2>1. q \in 0 .. count - 1 /\ KernelOf(q) = 2 /\ SlotOf(q) = S /\ q \notin finished["read"]
    BY DEF Unread
  <2>2. q \in 0 .. PacketsCopied - 1 /\ count \in 0 .. PacketsCopied - 1
        /\ count + NUM_PACKETS >= PacketsCopied /\ q # count
    BY <1>2, <2>1, Sizes
  <2> QED
    BY <2>1, <2>2, UnreadIsLatest
<1>11. x \in BOOLEAN
  OBVIOUS
<1> HIDE DEF x, K, S
<1>12. /\ crossed' \in [Kernels -> [HalfSlots -> BOOLEAN]]
       /\ \A i \in HalfSlots : crossed'[2][i] = FALSE
  <2>1. crossed \in [Kernels -> [HalfSlots -> BOOLEAN]] /\ 2 \in Kernels
        /\ \A i \in HalfSlots : crossed[2][i] = FALSE
    BY DEF IInv, TypeOK, Apart, Kernels
  <2>2. crossed' \in [Kernels -> [HalfSlots -> BOOLEAN]]
    BY <1>1, <1>2, <1>11, <2>1
  <2>3. ASSUME NEW i \in HalfSlots PROVE crossed'[2][i] = FALSE
    BY <1>1, <1>2, <1>10, <2>1
  <2> QED
    BY <2>2, <2>3
<1>3. TypeOK'
  BY <1>1, <1>2, <1>12 DEF IInv, TypeOK, LzwStates, buffers, reading
<1>4. /\ PacketsTaken' = PacketsTaken /\ PacketsCopied' = PacketsCopied
      /\ PacketsEnqueued' = count + 1
      /\ PacketsPassed = count /\ PacketsPassed' = IF RingFull(count) THEN count ELSE count + 1
      /\ PacketsGivenBack' = PacketsGivenBack /\ ~Emptying' /\ ~Emptying
  BY <1>1, <1>2 DEF Beyond, PacketsTaken, PacketsCopied, PacketsEnqueued, PacketsPassed,
              PacketsGivenBack, Emptying
<1>5. Counting'
  BY <1>1, <1>4, Sizes DEF IInv, TypeOK, Counting
<1>6. Commands'
  BY <1>1, <1>2, <1>3 DEF IInv, Commands
<1>7. RingReads'
  <2>1. CASE RingFull(count)
    BY <2>1, <1>1, <1>4, ReadsFrame DEF IInv, reading
  <2>2. CASE ~RingFull(count)
    <3>1. PacketsPassed < NUM_PACKETS /\ PacketsPassed' < NUM_PACKETS
      BY <2>2, <1>2, <1>4, Sizes DEF RingFull
    <3>2. ~(PacketsPassed' >= NUM_PACKETS)
      BY <3>1, <1>2, <1>4, <2>2, Sizes
    <3>3. pkts_read[1] = 0 /\ pkts_read[2] = 0
          /\ \A k \in Kernels : read_counter[k] = pkts_read[k] % (NUM_PACKETS \div 2)
      BY <3>1, <1>4 DEF IInv, RingReads
    <3> QED
      BY <1>1, <3>2, <3>3 DEF RingReads, reading
  <2> QED
    BY <2>1, <2>2
<1>8. Laps' /\ Apart' /\ KernelTwoInTurn' /\ KernelOneNeverStale' /\ ReadsAwaited'
  <2>1. Laps' /\ Apart'
    BY <1>1, <1>4, <1>12 DEF IInv, Laps, Apart, InTurn, buffers
  <2> QED
    BY <1>1, <2>1, FileFrame DEF IInv, reading
<1>9. DrainCounts'
  BY <1>1, <1>4, DrainFrame DEF IInv, reading
<1> QED
  BY <1>3, <1>5, <1>6, <1>7, <1>8, <1>9 DEF IInv

(* A slot is given back. *)
LEMMA ReleaseStep == IInv /\ Release => IInv'
<1> SUFFICES ASSUME IInv, Release PROVE IInv'
  OBVIOUS
<1>1. /\ lzw = "release" /\ released' = released + 1 /\ lzw' = "check"
      /\ UNCHANGED <<posted, total_packets, sem_lzw, count, buffers, enqueued, crossed, finished, reading>>
  BY DEF Release, env, queue
<1>2. TypeOK'
  BY <1>1 DEF IInv, TypeOK, LzwStates, buffers, reading
<1>3. /\ PacketsTaken' = PacketsTaken /\ PacketsCopied' = PacketsCopied
      /\ PacketsEnqueued' = PacketsEnqueued /\ PacketsPassed' = PacketsPassed
      /\ PacketsGivenBack = count /\ PacketsGivenBack' = count + 1 /\ ~Emptying' /\ ~Emptying
  BY <1>1, <1>2 DEF Beyond, PacketsTaken, PacketsCopied, PacketsEnqueued, PacketsPassed,
              PacketsGivenBack, Emptying, IInv, TypeOK
<1>5. Counting'
  BY <1>1, <1>3, Sizes DEF IInv, TypeOK, Counting
<1>6. RingReads' /\ Commands' /\ Laps' /\ Apart' /\ KernelTwoInTurn' /\ KernelOneNeverStale' /\ ReadsAwaited'
  BY <1>1, <1>3, ReadsFrame, CommandsFrame, LapsFrame, FileFrame DEF IInv, reading
<1>7. DrainCounts'
  BY <1>1, <1>3, DrainFrame DEF IInv, reading
<1> QED
  BY <1>2, <1>5, <1>6, <1>7 DEF IInv

(* After the last packet the pipeline is emptied, after any other one is awaited. *)
LEMMA CheckTotalStep == IInv /\ CheckTotal => IInv'
<1> SUFFICES ASSUME IInv, CheckTotal PROVE IInv'
  OBVIOUS
<1>1. /\ lzw = "check"
      /\ \/ count = total_packets /\ lzw' = "drain1" /\ count' = count
         \/ count # total_packets /\ lzw' = "wait" /\ count' = count + 1
      /\ UNCHANGED <<posted, total_packets, sem_lzw, released, buffers, enqueued, crossed, finished,
                     reading>>
  BY DEF CheckTotal, AtLast, env, queue
<1>2. TypeOK'
  BY <1>1 DEF IInv, TypeOK, LzwStates, buffers, reading
<1>3. /\ PacketsTaken' = PacketsTaken /\ PacketsCopied' = PacketsCopied
      /\ PacketsEnqueued' = PacketsEnqueued
      /\ PacketsPassed = count + 1 /\ PacketsPassed' = PacketsPassed
      /\ PacketsGivenBack' = PacketsGivenBack /\ ~Emptying
      /\ Emptying' <=> lzw' = "drain1"
  <2>1. count \in Nat
    BY DEF IInv, TypeOK
  <2>2. CASE count' = count + 1 /\ lzw' = "wait"
    BY <1>1, <2>1, <2>2 DEF Beyond, PacketsTaken, PacketsCopied, PacketsEnqueued, PacketsPassed,
              PacketsGivenBack, Emptying
  <2>3. CASE count' = count /\ lzw' = "drain1"
    BY <1>1, <2>1, <2>3 DEF Beyond, PacketsTaken, PacketsCopied, PacketsEnqueued, PacketsPassed,
              PacketsGivenBack, Emptying
  <2> QED
    BY <1>1, <2>2, <2>3
<1>4. Counting'
  BY <1>1, <1>3, Sizes DEF IInv, TypeOK, Counting
<1>5. RingReads' /\ Commands' /\ Laps' /\ Apart' /\ KernelTwoInTurn' /\ KernelOneNeverStale' /\ ReadsAwaited'
  BY <1>1, <1>3, ReadsFrame, CommandsFrame, LapsFrame, FileFrame DEF IInv, reading
<1>6. DrainCounts'
  <2>1. CASE lzw' = "wait"
    BY <1>1, <1>3, <2>1, DrainFrame DEF IInv, reading
  <2>2. CASE lzw' = "drain1"
    <3>1. /\ DrainReads = 0 /\ DrainReads' = 0 /\ Len(file)' = total_pkts_read'
          /\ total_pkts_read' = total_pkts_read /\ total_pkts_read \in Nat
      BY <1>1, <1>3 DEF IInv, TypeOK, DrainCounts, DrainReads, reading
    <3>2. count = total_packets /\ total_packets' = count /\ count \in Nat
      BY <1>1, <2>2 DEF IInv, TypeOK
    <3>3. total_pkts_read = pkts_read[1] + pkts_read[2]
      BY <3>1, ReadsSum DEF IInv, DrainReads
    <3>4. total_pkts_read' <= total_packets' + 1
      BY <1>3, <3>1, <3>2, <3>3, ReadsSum, Sizes DEF IInv
    <3> DEFINE v == pkts_read[1] % (NUM_PACKETS \div 2)
               w == pkts_read[2] % (NUM_PACKETS \div 2)
    <3>5. read_counter[1] = v /\ read_counter[2] = w /\ UNCHANGED <<read_counter, pkts_read>>
      BY <1>1, <1>3 DEF IInv, RingReads, Kernels, reading
    <3>6. 0 % 2 = 0 /\ v \in Nat /\ w \in Nat
      <4>1. pkts_read[1] \in Nat /\ pkts_read[2] \in Nat
        BY ReadsSum DEF IInv
      <4>2. pkts_read[1] % Half \in 0 .. Half - 1 /\ pkts_read[2] % Half \in 0 .. Half - 1
        BY <4>1, Sizes, DivMod
      <4> QED
        BY <4>2, Sizes, SMT DEF Half
    <3> HIDE DEF DrainReads
    <3>7. /\ 2 * read_counter'[1] = 2 * v + (DrainReads' + (DrainReads' % 2))
          /\ 2 * read_counter'[2] = 2 * w + (DrainReads' - (DrainReads' % 2))
      <4> HIDE DEF v, w
      <4>1. DrainReads' + (DrainReads' % 2) = 0 /\ DrainReads' - (DrainReads' % 2) = 0
        BY <3>1, <3>6
      <4>2. 2 * v + 0 = 2 * v /\ 2 * w + 0 = 2 * w
        BY <3>6
      <4> QED
        BY <3>5, <4>1, <4>2
    <3>8. DrainReads' >= 0 /\ DrainReads' % 2 = 0
      BY <3>1, <3>6
    <3>9. /\ v = pkts_read'[1] % (NUM_PACKETS \div 2)
          /\ w = pkts_read'[2] % (NUM_PACKETS \div 2)
      BY <3>5
    <3> HIDE DEF v, w
    <3> QED
      BY <2>2, <1>3, <3>1, <3>4, <3>7, <3>8, <3>9 DEF DrainCounts
  <2> QED
    BY <1>1, <2>1, <2>2
<1> QED
  BY <1>2, <1>4, <1>5, <1>6 DEF IInv

(* Copying out lengthens the file by one buffer's content, or a mix if an output is *)
(* still to be read into the buffer.                                           *)
LEMMA CopiedOut ==
  ASSUME TypeOK, NEW k \in Kernels, CopyOut(k)
  PROVE  /\ file' \in Seq(Int) /\ Len(file') = Len(file) + 1 /\ Len(file) \in Nat
         /\ \A i \in 1 .. Len(file) : file'[i] = file[i]
         /\ read_counter[k] \in HalfSlots =>
              \/ file'[Len(file) + 1] = output_from_fpga[k][read_counter[k]]
              \/ /\ file'[Len(file) + 1] = Mix(k, read_counter[k])
                 /\ Unread(k, read_counter[k], enqueued) # {}
         /\ read_counter[k] \notin HalfSlots => file'[Len(file) + 1] = NONE
         /\ total_pkts_read' = total_pkts_read + 1 /\ total_pkts_read' \in Nat
<1> DEFINE c == read_counter[k]
           out == IF c \in HalfSlots THEN output_from_fpga[k][c] ELSE NONE
           torn == IF Unread(k, c, enqueued) = {} THEN {} ELSE {Mix(k, c)}
<1>1. PICK x \in {out} \cup torn : file' = Append(file, x)
  BY Zenon DEF CopyOut
<1>2. c \notin HalfSlots => Unread(k, c, enqueued) = {}
  <2> SUFFICES ASSUME NEW q \in 0 .. enqueued - 1, SlotOf(q) = c PROVE c \in HalfSlots
    BY DEF Unread
  <2>1. q \in Nat
    BY DEF TypeOK
  <2> QED
    BY <2>1, PlaceType
<1>3. /\ x \in Int
      /\ c \in HalfSlots => \/ x = output_from_fpga[k][c]
                            \/ x = Mix(k, c) /\ Unread(k, c, enqueued) # {}
      /\ c \notin HalfSlots => x = NONE
  BY <1>1, <1>2, MixType DEF TypeOK, NONE
<1>4. file \in Seq(Int) /\ total_pkts_read' = total_pkts_read + 1 /\ total_pkts_read \in Nat
  BY DEF TypeOK, CopyOut
<1>5. /\ file' \in Seq(Int) /\ Len(file') = Len(file) + 1 /\ Len(file) \in Nat
      /\ \A i \in 1 .. Len(file) : file'[i] = file[i]
      /\ file'[Len(file) + 1] = x
  <2> HIDE DEF c, out, torn
  <2> QED
    BY <1>1, <1>3, <1>4
<1>6. /\ c \in HalfSlots =>
           \/ file'[Len(file) + 1] = output_from_fpga[k][c]
           \/ file'[Len(file) + 1] = Mix(k, c) /\ Unread(k, c, enqueued) # {}
      /\ c \notin HalfSlots => file'[Len(file) + 1] = NONE
  <2> HIDE DEF c
  <2> QED
    BY <1>3, <1>5
<1>7. total_pkts_read' \in Nat
  BY <1>4
<1> QED
  BY <1>4, <1>5, <1>6, <1>7

(* The reads made with the ring full begin a lap after the packets. *)
LEMMA FullCounts ==
  ASSUME IInv, lzw = "full"
  PROVE  /\ count \in Nat /\ count >= NUM_PACKETS - 1
         /\ PacketsPassed = count /\ PacketsCopied = count + 1 /\ PacketsEnqueued = count + 1
         /\ Len(file) = pkts_read[1] + pkts_read[2] /\ total_pkts_read = Len(file)
         /\ pkts_read[1] \in Nat /\ pkts_read[2] \in Nat
         /\ \/ /\ count % 2 = 1 /\ KernelOf(count) = 2 /\ pkts_read[2] = pkts_read[1]
               /\ EventPacket(2, pkts_read[2]) = count - NUM_PACKETS + 2
            \/ /\ count % 2 = 0 /\ KernelOf(count) = 1 /\ pkts_read[2] = pkts_read[1] + 1
               /\ EventPacket(1, pkts_read[1]) = count - NUM_PACKETS
<1>1. count \in Nat /\ count >= NUM_PACKETS - 1
  BY Sizes DEF IInv, TypeOK, Counting, RingFull
<1>2. PacketsPassed = count /\ PacketsCopied = count + 1 /\ PacketsEnqueued = count + 1
      /\ ~Emptying
  BY <1>1 DEF PacketsPassed, PacketsCopied, PacketsEnqueued, Beyond, Emptying
<1>3. pkts_read[1] \in Nat /\ pkts_read[2] \in Nat
  BY ReadsSum DEF IInv
<1>4. Len(file) = pkts_read[1] + pkts_read[2] /\ total_pkts_read = Len(file)
  <2>1. Len(file) = total_pkts_read /\ total_pkts_read - pkts_read[1] - pkts_read[2] = 0
    BY <1>2 DEF IInv, DrainCounts, DrainReads
  <2>2. total_pkts_read \in Nat
    BY DEF IInv, TypeOK
  <2> QED
    BY <1>3, <2>1, <2>2
<1>5. CASE count % 2 = 1
  <2>1. pkts_read[2] = pkts_read[1] /\ 2 * pkts_read[1] = count - NUM_PACKETS + 1
    <3>1. CASE count >= NUM_PACKETS
      BY <1>2, <1>5, <3>1 DEF IInv, RingReads
    <3>2. CASE count < NUM_PACKETS
      BY <1>1, <1>2, <3>2, Sizes DEF IInv, RingReads
    <3> QED
      BY <1>1, <3>1, <3>2, Sizes
  <2>2. KernelOf(count) = 2
    BY <1>5 DEF KernelOf
  <2>3. EventPacket(2, pkts_read[2]) = count - NUM_PACKETS + 2
    BY <1>1, <1>3, <2>1, Sizes DEF EventPacket
  <2> QED
    BY <1>1, <1>2, <1>3, <1>4, <1>5, <2>1, <2>2, <2>3
<1>6. CASE count % 2 = 0
  <2>1. count >= NUM_PACKETS
    BY <1>1, <1>6, Sizes
  <2>2. pkts_read[2] = pkts_read[1] + 1 /\ 2 * pkts_read[1] = count - NUM_PACKETS
    BY <1>2, <1>6, <2>1 DEF IInv, RingReads
  <2>3. KernelOf(count) = 1
    BY <1>6 DEF KernelOf
  <2>4. EventPacket(1, pkts_read[1]) = count - NUM_PACKETS
    BY <1>1, <1>3, <2>2, Sizes DEF EventPacket
  <2> QED
    BY <1>1, <1>2, <1>3, <1>4, <1>6, <2>2, <2>3, <2>4
<1>7. count % 2 = 0 \/ count % 2 = 1
  BY <1>1
<1> QED
  BY <1>5, <1>6, <1>7

(* With the ring full, kernel 2's next output is intact and nothing is still to be  *)
(* read into its buffer, and kernel 1's is that of the packet awaited or of the one  *)
(* just enqueued behind it, or a mix.                                          *)
LEMMA FullContent ==
  ASSUME IInv, ReadWhenFull, NEW k \in Kernels, k = KernelOf(count)
  PROVE  /\ read_counter[k] \in HalfSlots
         /\ read_counter[k] = SlotOf(EventPacket(k, pkts_read[k]))
         /\ output_from_fpga[k][read_counter[k]] \in
              {EventPacket(k, pkts_read[k])} \cup
              (IF k = 2 THEN {} ELSE {EventPacket(k, pkts_read[k]) + NUM_PACKETS,
                                      Mix(k, read_counter[k])})
         /\ k = 2 => Unread(k, read_counter[k], enqueued) = {}
<1> DEFINE j == pkts_read[k]
           e == EventPacket(k, j)
           i == read_counter[k]
<1>1. lzw = "full" /\ e \in finished["read"]
  BY DEF ReadWhenFull, AwaitRead, KernelToRead
<1>2. j \in Nat /\ e \in Nat
  BY <1>1, FullCounts, EventSlot DEF Kernels
<1>3. i = j % Half /\ i \in HalfSlots /\ SlotOf(e) = i /\ KernelOf(e) = k
  <2>1. ~Emptying
    BY <1>1 DEF Emptying
  <2>2. i = j % Half
    BY <2>1 DEF IInv, RingReads, Half
  <2> QED
    BY <1>2, <2>2, EventSlot
<1>4. count \in Nat /\ PacketsCopied = count + 1 /\ count >= NUM_PACKETS - 1
  BY <1>1, FullCounts
<1>5. NUM_PACKETS \in Nat /\ NUM_PACKETS >= 2
  BY Sizes
<1>6. CASE k = 2
  <2>1. e = count - NUM_PACKETS + 2
    BY <1>1, <1>6, FullCounts
  <2> HIDE DEF e, i, j
  <2>2. e \in 0 .. PacketsCopied - 1 /\ e + NUM_PACKETS >= PacketsCopied
    BY <1>2, <1>4, <1>5, <2>1
  <2>3. InTurn("read", output_from_fpga[k][i], e)
    BY <1>3, <2>2 DEF IInv, Laps
  <2>4. output_from_fpga[k][i] = e
    BY <1>1, <1>3, <1>6, <2>3 DEF InTurn
  <2>5. Unread(k, i, enqueued) = {}
    <3> SUFFICES ASSUME NEW p \in 0 .. enqueued - 1, KernelOf(p) = 2, SlotOf(p) = i,
                        p \notin finished["read"]
                 PROVE  FALSE
      BY <1>6 DEF Unread
    <3>1. enqueued = PacketsCopied
      BY <1>1, <1>4, FullCounts DEF IInv, Counting
    <3>2. p = e
      BY <1>3, <1>6, <2>2, <3>1, UnreadIsLatest
    <3> QED
      BY <1>1, <3>2 DEF e, j
  <2> QED
    BY <1>3, <1>6, <2>4, <2>5 DEF e, i, j
<1>7. CASE k = 1
  <2>1. e = count - NUM_PACKETS
    BY <1>1, <1>7, FullCounts
  <2> HIDE DEF e, i, j
  <2>2. count \in 0 .. PacketsCopied - 1 /\ count + NUM_PACKETS >= PacketsCopied
        /\ count = e + NUM_PACKETS /\ e = count - NUM_PACKETS
    BY <1>2, <1>4, <1>5, <2>1
  <2>3. KernelOf(count) = k /\ SlotOf(count) = i
    BY <1>2, <1>3, <2>2, LapLater
  <2>4. InTurn("read", output_from_fpga[k][i], count)
    BY <2>2, <2>3 DEF IInv, Laps
  <2>5. output_from_fpga[k][i] \in {e, e + NUM_PACKETS, Mix(k, i)}
    BY <1>1, <2>2, <2>3, <2>4 DEF InTurn, MixOf
  <2> QED
    BY <1>3, <1>7, <2>5 DEF e, i, j
<1> QED
  BY <1>6, <1>7 DEF Kernels

(* One output is read for the packet that finds the ring full. *)
LEMMA ReadWhenFullStep == IInv /\ ReadWhenFull => IInv'
<1> SUFFICES ASSUME IInv, ReadWhenFull PROVE IInv'
  OBVIOUS
<1> DEFINE K == KernelOf(count)
<1>1. /\ lzw = "full" /\ lzw' = "release" /\ CopyOut(K)
      /\ read_counter' = [read_counter EXCEPT ![K] = WrapAt(@, (NUM_PACKETS \div 2) - 1)]
      /\ pkts_read' = [pkts_read EXCEPT ![K] = @ + 1]
      /\ UNCHANGED <<posted, total_packets, sem_lzw, released, count, buffers, enqueued, crossed, finished>>
  BY DEF ReadWhenFull, KernelToRead, env, queue
<1>2. K \in Kernels /\ count \in Nat
  BY <1>1, FullCounts DEF Kernels
<1>3. /\ file' \in Seq(Int) /\ Len(file') = Len(file) + 1 /\ Len(file) \in Nat
      /\ \A i \in 1 .. Len(file) : file'[i] = file[i]
      /\ file'[Len(file) + 1] \in
           {EventPacket(K, pkts_read[K])} \cup
           (IF K = 2 THEN {} ELSE {EventPacket(K, pkts_read[K]) + NUM_PACKETS,
                                   Mix(K, SlotOf(EventPacket(K, pkts_read[K])))})
      /\ total_pkts_read' = total_pkts_read + 1 /\ total_pkts_read' \in Nat
  <2> HIDE DEF K
  <2>1. K = KernelOf(count)
    BY DEF K
  <2> QED
    BY <1>1, <1>2, <2>1, CopiedOut, FullContent DEF IInv
<1>4. \A k \in Kernels : pkts_read[k] \in Nat /\ read_counter[k] = pkts_read[k] % Half
  <2>1. ~Emptying
    BY <1>1 DEF Emptying
  <2> QED
    BY <2>1 DEF IInv, TypeOK, RingReads, Half
<1>5. \A k \in Kernels : /\ pkts_read'[k] = IF k = K THEN pkts_read[k] + 1 ELSE pkts_read[k]
                         /\ read_counter'[k] = pkts_read'[k] % Half
                         /\ read_counter'[k] \in Nat
  <2> HIDE DEF K
  <2> SUFFICES ASSUME NEW k \in Kernels
               PROVE  /\ pkts_read'[k] = IF k = K THEN pkts_read[k] + 1 ELSE pkts_read[k]
                      /\ read_counter'[k] = pkts_read'[k] % Half
                      /\ read_counter'[k] \in Nat
    OBVIOUS
  <2>1. /\ pkts_read'[k] = IF k = K THEN pkts_read[k] + 1 ELSE pkts_read[k]
        /\ read_counter'[k] = IF k = K THEN WrapAt(read_counter[k], Half - 1) ELSE read_counter[k]
    BY <1>1, <1>2 DEF IInv, TypeOK, Half
  <2>2. read_counter'[k] = pkts_read'[k] % Half /\ pkts_read'[k] \in Nat
    BY <1>4, <2>1, WrapIsNext
  <2>3. pkts_read'[k] % Half \in 0 .. Half - 1
    BY <2>2, Sizes, DivMod
  <2> QED
    BY <2>1, <2>2, <2>3, Sizes
<1>6. TypeOK'
  <2> HIDE DEF K
  <2>1. pkts_read' \in [Kernels -> Nat] /\ read_counter' \in [Kernels -> Nat]
    <3>1. DOMAIN pkts_read' = Kernels /\ DOMAIN read_counter' = Kernels
      BY <1>1 DEF IInv, TypeOK
    <3>2. \A k \in Kernels : pkts_read'[k] \in Nat
      BY <1>4, <1>5
    <3>3. pkts_read' = [k \in Kernels |-> pkts_read'[k]]
          /\ read_counter' = [k \in Kernels |-> read_counter'[k]]
      BY <1>1, <3>1 DEF IInv, TypeOK
    <3> QED
      BY <1>5, <3>2, <3>3
  <2> QED
    BY <1>1, <1>3, <2>1 DEF IInv, TypeOK, LzwStates, buffers
<1>7. /\ PacketsTaken' = PacketsTaken /\ PacketsCopied' = PacketsCopied
      /\ PacketsEnqueued' = PacketsEnqueued
      /\ PacketsPassed' = count + 1
      /\ PacketsGivenBack' = PacketsGivenBack /\ ~Emptying /\ ~Emptying'
  BY <1>1, <1>2 DEF Beyond, PacketsTaken, PacketsCopied, PacketsEnqueued, PacketsPassed,
              PacketsGivenBack, Emptying
<1>8. Counting'
  BY <1>1, <1>7, Sizes DEF IInv, TypeOK, Counting
<1>9. Commands' /\ Laps' /\ Apart'
  BY <1>1, <1>7, CommandsFrame, LapsFrame DEF IInv
<1>15. ReadsAwaited'
  <2>1. EventPacket(K, pkts_read[K]) \in finished["read"]
    BY DEF ReadWhenFull, AwaitRead, KernelToRead
  <2> HIDE DEF K
  <2> SUFFICES ASSUME NEW k \in Kernels, NEW j \in 0 .. pkts_read'[k] - 1
               PROVE  EventPacket(k, j) \in finished["read"]
    BY <1>1 DEF ReadsAwaited
  <2>2. pkts_read[k] \in Nat /\ pkts_read'[k] = IF k = K THEN pkts_read[k] + 1 ELSE pkts_read[k]
    BY <1>4, <1>5
  <2>3. j \in 0 .. pkts_read[k] - 1 \/ (k = K /\ j = pkts_read[k])
    BY <2>2
  <2> QED
    BY <2>1, <2>3 DEF IInv, ReadsAwaited
<1>10. \/ /\ count % 2 = 1 /\ K = 2 /\ pkts_read[2] = pkts_read[1]
          /\ EventPacket(2, pkts_read[2]) = count - NUM_PACKETS + 2
          /\ pkts_read'[1] = pkts_read[1] /\ pkts_read'[2] = pkts_read[2] + 1
       \/ /\ count % 2 = 0 /\ K = 1 /\ pkts_read[2] = pkts_read[1] + 1
          /\ EventPacket(1, pkts_read[1]) = count - NUM_PACKETS
          /\ pkts_read'[1] = pkts_read[1] + 1 /\ pkts_read'[2] = pkts_read[2]
  BY <1>1, <1>5, FullCounts DEF Kernels
<1>11. RingReads'
  <2>1. count \in Nat /\ count >= NUM_PACKETS - 1 /\ NUM_PACKETS \in Nat
        /\ pkts_read[1] \in Nat /\ pkts_read[2] \in Nat
    BY <1>1, FullCounts, Sizes
  <2>2. IF (count + 1) % 2 = 1
          THEN pkts_read'[2] = pkts_read'[1] /\ 2 * pkts_read'[1] = count + 1 - NUM_PACKETS + 1
          ELSE pkts_read'[2] = pkts_read'[1] + 1 /\ 2 * pkts_read'[1] = count + 1 - NUM_PACKETS
    <3> HIDE DEF K
    <3>1. CASE K = 2
      <4>1. /\ count % 2 = 1 /\ pkts_read[2] = pkts_read[1]
            /\ 2 * pkts_read[2] + 1 = count - NUM_PACKETS + 2
            /\ pkts_read'[1] = pkts_read[1] /\ pkts_read'[2] = pkts_read[2] + 1
        BY <1>10, <3>1, <2>1 DEF EventPacket
      <4> QED
        BY <2>1, <4>1
    <3>2. CASE K = 1
      <4>1. /\ count % 2 = 0 /\ pkts_read[2] = pkts_read[1] + 1
            /\ 2 * pkts_read[1] = count - NUM_PACKETS
            /\ pkts_read'[1] = pkts_read[1] + 1 /\ pkts_read'[2] = pkts_read[2]
        BY <1>10, <3>2, <2>1 DEF EventPacket
      <4> QED
        BY <2>1, <4>1
    <3> QED
      BY <1>10, <3>1, <3>2
  <2>3. ~(count + 1 < NUM_PACKETS)
    BY <2>1
  <2>4. \A k \in Kernels : read_counter'[k] = pkts_read'[k] % (NUM_PACKETS \div 2)
    BY <1>5 DEF Half
  <2>5. IF PacketsPassed' % 2 = 1
          THEN pkts_read'[2] = pkts_read'[1] /\ 2 * pkts_read'[1] = PacketsPassed' - NUM_PACKETS + 1
          ELSE pkts_read'[2] = pkts_read'[1] + 1 /\ 2 * pkts_read'[1] = PacketsPassed' - NUM_PACKETS
    <3> DEFINE p == PacketsPassed'
    <3>1. p = count + 1
      BY <1>7
    <3> HIDE DEF p
    <3>2. IF p % 2 = 1
            THEN pkts_read'[2] = pkts_read'[1] /\ 2 * pkts_read'[1] = p - NUM_PACKETS + 1
            ELSE pkts_read'[2] = pkts_read'[1] + 1 /\ 2 * pkts_read'[1] = p - NUM_PACKETS
      BY <2>1, <2>2, <3>1
    <3> QED
      BY <3>2 DEF p
  <2>6. ~(PacketsPassed' < NUM_PACKETS)
    BY <1>7, <2>3
  <2> QED
    BY <2>4, <2>5, <2>6 DEF RingReads
<1>12. DrainCounts'
  <2>1. Len(file') = total_pkts_read'
    BY <1>1, <1>3, FullCounts
  <2>2. DrainReads' = 0
    <3>1. /\ pkts_read[1] \in Nat /\ pkts_read[2] \in Nat
          /\ total_pkts_read = pkts_read[1] + pkts_read[2]
      BY <1>1, FullCounts
    <3>2. \/ pkts_read'[1] = pkts_read[1] /\ pkts_read'[2] = pkts_read[2] + 1
          \/ pkts_read'[1] = pkts_read[1] + 1 /\ pkts_read'[2] = pkts_read[2]
      BY <1>10
    <3>3. total_pkts_read' = total_pkts_read + 1
      BY <1>3
    <3>4. total_pkts_read' - pkts_read'[1] - pkts_read'[2] = 0
      BY <3>1, <3>2, <3>3
    <3> QED
      BY <3>4 DEF DrainReads
  <2> QED
    BY <1>1, <1>7, <2>1, <2>2 DEF DrainCounts, Emptying
<1>13. KernelTwoInTurn'
  <2> SUFFICES ASSUME NEW j \in 1 .. pkts_read'[2] PROVE file'[2 * j - 1] = 2 * j - 1
    BY DEF KernelTwoInTurn
  <2>1. /\ pkts_read[1] \in Nat /\ pkts_read[2] \in Nat /\ Len(file) = pkts_read[1] + pkts_read[2]
    BY <1>1, FullCounts
  <2>2. CASE j <= pkts_read[2]
    <3>1. 2 * j - 1 \in 1 .. Len(file)
      BY <1>10, <2>1, <2>2
    <3>2. file[2 * j - 1] = 2 * j - 1
      BY <2>1, <2>2 DEF IInv, KernelTwoInTurn
    <3> QED
      BY <1>3, <3>1, <3>2
  <2>3. CASE j > pkts_read[2]
    <3>1. K = 2 /\ j = pkts_read[2] + 1 /\ 2 * j - 1 = Len(file) + 1
      BY <1>10, <2>1, <2>3
    <3>2. file'[Len(file) + 1] = EventPacket(2, pkts_read[2])
      BY <1>3, <3>1
    <3>3. EventPacket(2, pkts_read[2]) = 2 * j - 1
      BY <2>1, <3>1 DEF EventPacket
    <3> QED
      BY <3>1, <3>2, <3>3
  <2> QED
    BY <2>1, <2>2, <2>3
<1>14. KernelOneNeverStale'
  <2> SUFFICES ASSUME NEW j \in 1 .. pkts_read'[1]
               PROVE  file'[2 * j] \in {2 * j - 2, 2 * j - 2 + NUM_PACKETS,
                                        Mix(1, SlotOf(2 * j - 2))}
    BY DEF KernelOneNeverStale
  <2>1. /\ pkts_read[1] \in Nat /\ pkts_read[2] \in Nat /\ Len(file) = pkts_read[1] + pkts_read[2]
    BY <1>1, FullCounts
  <2>2. CASE j <= pkts_read[1]
    <3>1. 2 * j \in 1 .. Len(file)
      BY <1>10, <2>1, <2>2
    <3>2. file[2 * j] \in {2 * j - 2, 2 * j - 2 + NUM_PACKETS, Mix(1, SlotOf(2 * j - 2))}
      BY <2>1, <2>2 DEF IInv, KernelOneNeverStale
    <3> QED
      BY <1>3, <3>1, <3>2
  <2>3. CASE j > pkts_read[1]
    <3>1. K = 1 /\ j = pkts_read[1] + 1 /\ 2 * j = Len(file) + 1
      BY <1>10, <2>1, <2>3
    <3>2. file'[Len(file) + 1] \in
            {EventPacket(1, pkts_read[1]), EventPacket(1, pkts_read[1]) + NUM_PACKETS,
             Mix(1, SlotOf(EventPacket(1, pkts_read[1])))}
      BY <1>3, <3>1
    <3>3. EventPacket(1, pkts_read[1]) = 2 * j - 2
      BY <2>1, <3>1 DEF EventPacket
    <3> QED
      BY <3>1, <3>2, <3>3
  <2> QED
    BY <2>1, <2>2, <2>3
<1> QED
  BY <1>6, <1>8, <1>9, <1>11, <1>12, <1>13, <1>14, <1>15 DEF IInv

(* While the pipeline is emptied, how much has been drained. *)
LEMMA DrainingCounts ==
  ASSUME IInv, Emptying
  PROVE  /\ count \in Nat /\ total_packets = count /\ PacketsPassed = count + 1
         /\ PacketsEnqueued = count + 1
         /\ Len(file) = total_pkts_read /\ total_pkts_read \in Nat
         /\ pkts_read[1] \in Nat /\ pkts_read[2] \in Nat /\ DrainReads \in Nat
         /\ total_pkts_read = pkts_read[1] + pkts_read[2] + DrainReads
         /\ total_pkts_read <= count + 1
         /\ lzw = "drain1" => DrainReads % 2 = 0
         /\ lzw = "drain2" => DrainReads % 2 = 1
<1>1. count \in Nat /\ total_packets = count
  BY DEF IInv, TypeOK, Counting
<1>2. PacketsPassed = count + 1 /\ PacketsEnqueued = count + 1
  BY <1>1 DEF PacketsPassed, PacketsEnqueued, Beyond, Emptying
<1>3. pkts_read[1] \in Nat /\ pkts_read[2] \in Nat /\ total_pkts_read \in Nat
  BY ReadsSum DEF IInv, TypeOK
<1>4. DrainReads \in Int /\ total_pkts_read = pkts_read[1] + pkts_read[2] + DrainReads
  BY <1>3 DEF DrainReads
<1> HIDE DEF DrainReads
<1> QED
  BY <1>1, <1>2, <1>3, <1>4 DEF IInv, DrainCounts

(* Before each of its reads, the draining loop has read less than a lap. *)
LEMMA DrainsFew ==
  ASSUME IInv, Emptying, ~AllRead
  PROVE  /\ DrainReads \in Nat /\ DrainReads <= NUM_PACKETS - 2
         /\ pkts_read[1] + pkts_read[2] + DrainReads <= count
<1> DEFINE a == pkts_read[1]
           b == pkts_read[2]
           d == DrainReads
<1>1. /\ count \in Nat /\ a \in Nat /\ b \in Nat /\ d \in Nat
      /\ a + b + d <= count + 1 /\ a + b + d # count + 1 /\ PacketsPassed = count + 1
  BY DrainingCounts DEF AllRead
<1>2. /\ PacketsPassed < NUM_PACKETS => a + b = 0
      /\ PacketsPassed >= NUM_PACKETS => a + b = PacketsPassed - NUM_PACKETS + 1
  BY ReadsSum DEF IInv
<1> HIDE DEF a, b, d
<1>3. d <= NUM_PACKETS - 2 /\ a + b + d <= count
  BY <1>1, <1>2, Sizes
<1> QED
  BY <1>1, <1>3 DEF a, b, d

(* One output more is drained. *)
LEMMA DrainStep ==
  ASSUME IInv, NEW k \in Kernels, Drain(k)
  PROVE  IInv'
<1>1. /\ lzw = IF k = 1 THEN "drain1" ELSE "drain2"
      /\ lzw' = IF k = 1 THEN "drain2" ELSE "drain1"
      /\ total_pkts_read # total_packets + 1 /\ CopyOut(k)
      /\ read_counter' = [read_counter EXCEPT ![k] = WrapAt(@, NUM_PACKETS - 1)]
      /\ UNCHANGED <<posted, total_packets, sem_lzw, released, count, buffers, enqueued, crossed, finished,
                     pkts_read>>
  BY DEF Drain, Draining, AllRead, env, queue
<1>2. Emptying /\ Emptying' /\ k \in {1, 2}
  BY <1>1 DEF Emptying, Kernels
<1>3. /\ file' \in Seq(Int) /\ Len(file') = Len(file) + 1 /\ Len(file) \in Nat
      /\ \A i \in 1 .. Len(file) : file'[i] = file[i]
      /\ total_pkts_read' = total_pkts_read + 1 /\ total_pkts_read' \in Nat
  BY <1>1, CopiedOut DEF IInv
<1>4. /\ read_counter[1] \in Nat /\ read_counter[2] \in Nat
      /\ \A i \in Kernels : read_counter'[i] =
           IF i = k THEN WrapAt(read_counter[i], NUM_PACKETS - 1) ELSE read_counter[i]
  BY <1>1 DEF IInv, TypeOK, Kernels
<1>5. TypeOK'
  <2>1. WrapAt(read_counter[k], NUM_PACKETS - 1) \in Nat
    BY <1>2, <1>4 DEF WrapAt
  <2>2. read_counter' \in [Kernels -> Nat]
    BY <1>1, <2>1 DEF IInv, TypeOK
  <2> QED
    BY <1>1, <1>3, <2>2 DEF IInv, TypeOK, LzwStates, buffers
<1>6. /\ PacketsTaken' = PacketsTaken /\ PacketsCopied' = PacketsCopied
      /\ PacketsEnqueued' = PacketsEnqueued /\ PacketsPassed' = PacketsPassed
      /\ PacketsGivenBack' = PacketsGivenBack
  BY <1>1, <1>2 DEF Beyond, PacketsTaken, PacketsCopied, PacketsEnqueued, PacketsPassed,
              PacketsGivenBack
<1>7. Counting'
  BY <1>1, <1>2, <1>6 DEF IInv, Counting
<1>8. Commands' /\ Laps' /\ Apart' /\ ReadsAwaited'
  BY <1>1, <1>6, CommandsFrame, LapsFrame DEF IInv, ReadsAwaited
<1>9. RingReads'
  BY <1>1, <1>2, <1>6 DEF IInv, RingReads
<1>10. DrainReads' = DrainReads + 1
  <2>1. pkts_read[1] \in Nat /\ pkts_read[2] \in Nat /\ total_pkts_read \in Nat
    BY <1>2, DrainingCounts
  <2>2. total_pkts_read' = total_pkts_read + 1 /\ pkts_read' = pkts_read
    BY <1>1, <1>3
  <2> QED
    BY <2>1, <2>2 DEF DrainReads
<1>11. total_pkts_read' <= total_packets' + 1 /\ DrainReads <= count
  <2>1. /\ count \in Nat /\ total_packets = count /\ total_pkts_read <= count + 1
        /\ pkts_read[1] \in Nat /\ pkts_read[2] \in Nat /\ DrainReads \in Nat
        /\ total_pkts_read \in Nat /\ total_pkts_read = pkts_read[1] + pkts_read[2] + DrainReads
    BY <1>2, DrainingCounts
  <2>2. /\ total_pkts_read' = total_pkts_read + 1 /\ total_packets' = total_packets
        /\ total_pkts_read # total_packets + 1
    BY <1>1, <1>3
  <2> HIDE DEF DrainReads
  <2> QED
    BY <2>1, <2>2
<1>12. /\ 2 * read_counter'[1] = 2 * (pkts_read'[1] % (NUM_PACKETS \div 2))
                                  + (DrainReads' + (DrainReads' % 2))
       /\ 2 * read_counter'[2] = 2 * (pkts_read'[2] % (NUM_PACKETS \div 2))
                                  + (DrainReads' - (DrainReads' % 2))
  <2> DEFINE v == pkts_read[1] % (NUM_PACKETS \div 2)
             w == pkts_read[2] % (NUM_PACKETS \div 2)
             d == DrainReads
             a == read_counter[1]
             b == read_counter[2]
  <2>1. v \in 0 .. Half - 1 /\ w \in 0 .. Half - 1
    BY <1>2, DrainingCounts, Sizes, DivMod DEF Half
  <2>2. d \in Nat /\ d <= NUM_PACKETS - 2
    BY <1>1, <1>2, DrainsFew DEF AllRead
  <2>3. /\ 2 * a = 2 * v + (d + (d % 2)) /\ 2 * b = 2 * w + (d - (d % 2))
        /\ a \in Nat /\ b \in Nat
    BY <1>2, <1>4 DEF IInv, DrainCounts
  <2>4. d % 2 = IF k = 1 THEN 0 ELSE 1
    BY <1>1, <1>2, DrainingCounts
  <2>5. /\ read_counter'[1] = IF k = 1 THEN WrapAt(a, NUM_PACKETS - 1) ELSE a
        /\ read_counter'[2] = IF k = 2 THEN WrapAt(b, NUM_PACKETS - 1) ELSE b
    BY <1>4 DEF Kernels
  <2> HIDE DEF v, w, d, a, b
  <2>6. CASE k = 1
    <3>1. a < NUM_PACKETS - 1 /\ WrapAt(a, NUM_PACKETS - 1) = a + 1
      BY <2>1, <2>2, <2>3, <2>4, <2>6, Sizes DEF WrapAt
    <3>2. (d + 1) % 2 = 1
      BY <2>2, <2>4, <2>6
    <3>3. /\ 2 * read_counter'[1] = 2 * v + ((d + 1) + ((d + 1) % 2))
          /\ 2 * read_counter'[2] = 2 * w + ((d + 1) - ((d + 1) % 2))
      BY <2>1, <2>2, <2>3, <2>4, <2>5, <2>6, <3>1, <3>2, Sizes
    <3> QED
      BY <1>1, <1>10, <3>3 DEF v, w, d
  <2>7. CASE k = 2
    <3>1. b < NUM_PACKETS - 1 /\ WrapAt(b, NUM_PACKETS - 1) = b + 1
      BY <2>1, <2>2, <2>3, <2>4, <2>7, Sizes DEF WrapAt
    <3>2. (d + 1) % 2 = 0
      BY <2>2, <2>4, <2>7
    <3>3. /\ 2 * read_counter'[1] = 2 * v + ((d + 1) + ((d + 1) % 2))
          /\ 2 * read_counter'[2] = 2 * w + ((d + 1) - ((d + 1) % 2))
      BY <2>1, <2>2, <2>3, <2>4, <2>5, <2>7, <3>1, <3>2, Sizes
    <3> QED
      BY <1>1, <1>10, <3>3 DEF v, w, d
  <2> QED
    BY <1>2, <2>6, <2>7
<1>13. DrainCounts'
  <2>1. DrainReads \in Nat /\ DrainReads' \in Nat
        /\ DrainReads % 2 = IF k = 1 THEN 0 ELSE 1
    BY <1>1, <1>2, <1>10, DrainingCounts
  <2>2. DrainReads' % 2 = IF k = 1 THEN 1 ELSE 0
    <3> DEFINE d == DrainReads
    <3> HIDE DEF d
    <3>1. d \in Nat /\ d % 2 = IF k = 1 THEN 0 ELSE 1
      BY <2>1 DEF d
    <3>2. (d + 1) % 2 = IF k = 1 THEN 1 ELSE 0
      BY <3>1, <1>2
    <3> QED
      BY <1>10, <3>2 DEF d
  <2>3. Len(file') = total_pkts_read'
    BY <1>2, <1>3, DrainingCounts
  <2>4. total_packets' = total_packets
    BY <1>1
  <2> HIDE DEF DrainReads
  <2>5. /\ lzw' = "drain1" => DrainReads' % 2 = 0
        /\ lzw' = "drain2" => DrainReads' % 2 = 1
        /\ lzw' \notin {"finish", "done"}
    BY <1>1, <1>2, <2>2
  <2>6. DrainReads' >= 0
    BY <2>1
  <2> QED
    BY <1>2, <1>11, <1>12, <2>3, <2>5, <2>6 DEF DrainCounts
<1>14. KernelTwoInTurn' /\ KernelOneNeverStale'
  <2>1. /\ pkts_read[1] \in Nat /\ pkts_read[2] \in Nat
        /\ pkts_read[1] <= pkts_read[2] /\ pkts_read[2] <= pkts_read[1] + 1
        /\ pkts_read[1] + pkts_read[2] <= Len(file)
    BY <1>2, DrainingCounts, ReadsSum DEF IInv
  <2>2. ASSUME NEW j \in 1 .. pkts_read'[2] PROVE file'[2 * j - 1] = 2 * j - 1
    <3>1. 2 * j - 1 \in 1 .. Len(file) /\ j \in 1 .. pkts_read[2]
      BY <1>1, <1>3, <2>1
    <3> QED
      BY <1>3, <3>1 DEF IInv, KernelTwoInTurn
  <2>3. ASSUME NEW j \in 1 .. pkts_read'[1]
        PROVE  file'[2 * j] \in {2 * j - 2, 2 * j - 2 + NUM_PACKETS, Mix(1, SlotOf(2 * j - 2))}
    <3>1. 2 * j \in 1 .. Len(file) /\ j \in 1 .. pkts_read[1]
      BY <1>1, <1>3, <2>1
    <3> QED
      BY <1>3, <3>1 DEF IInv, KernelOneNeverStale
  <2> QED
    BY <2>2, <2>3 DEF KernelTwoInTurn, KernelOneNeverStale
<1> QED
  BY <1>5, <1>7, <1>8, <1>9, <1>13, <1>14 DEF IInv

(* The draining ends with as many outputs as packets. *)
LEMMA DrainEndsStep == IInv /\ DrainEnds => IInv'
<1> SUFFICES ASSUME IInv, DrainEnds PROVE IInv'
  OBVIOUS
<1>1. /\ lzw \in {"drain1", "drain2"} /\ lzw' = "finish" /\ total_pkts_read = total_packets + 1
      /\ UNCHANGED <<posted, total_packets, sem_lzw, released, count, buffers, enqueued, crossed, finished,
                     reading>>
  BY DEF DrainEnds, Draining, AllRead, env, queue
<1>2. TypeOK'
  BY <1>1 DEF IInv, TypeOK, LzwStates, buffers, reading
<1>3. /\ PacketsTaken' = PacketsTaken /\ PacketsCopied' = PacketsCopied
      /\ PacketsEnqueued' = PacketsEnqueued /\ PacketsPassed' = PacketsPassed
      /\ PacketsGivenBack' = PacketsGivenBack /\ Emptying /\ Emptying'
  BY <1>1 DEF Beyond, PacketsTaken, PacketsCopied, PacketsEnqueued, PacketsPassed,
              PacketsGivenBack, Emptying
<1>4. Counting'
  BY <1>1, <1>3 DEF IInv, Counting
<1>5. RingReads' /\ Commands' /\ Laps' /\ Apart' /\ KernelTwoInTurn' /\ KernelOneNeverStale' /\ ReadsAwaited'
  BY <1>1, <1>3, ReadsFrame, CommandsFrame, LapsFrame, FileFrame DEF IInv, reading
<1>6. DrainCounts'
  <2>1. DrainReads' = DrainReads
    BY <1>1 DEF DrainReads, reading
  <2> HIDE DEF DrainReads
  <2> QED
    BY <1>1, <1>3, <2>1 DEF IInv, DrainCounts, reading
<1> QED
  BY <1>2, <1>4, <1>5, <1>6 DEF IInv

(* The stage returns when the queue is empty. *)
LEMMA FinishStep == IInv /\ Finish => IInv'
<1> SUFFICES ASSUME IInv, Finish PROVE IInv'
  OBVIOUS
<1>1. /\ lzw = "finish" /\ lzw' = "done"
      /\ \A c \in DOMAIN finished : finished[c] = 0 .. enqueued - 1
      /\ UNCHANGED <<posted, total_packets, sem_lzw, released, count, buffers, enqueued, crossed, finished,
                     reading>>
  BY DEF Finish, env, queue
<1>2. TypeOK'
  BY <1>1 DEF IInv, TypeOK, LzwStates, buffers, reading
<1>3. /\ PacketsTaken' = PacketsTaken /\ PacketsCopied' = PacketsCopied
      /\ PacketsEnqueued' = PacketsEnqueued /\ PacketsPassed' = PacketsPassed
      /\ PacketsGivenBack' = PacketsGivenBack /\ Emptying /\ Emptying'
  BY <1>1 DEF Beyond, PacketsTaken, PacketsCopied, PacketsEnqueued, PacketsPassed,
              PacketsGivenBack, Emptying
<1>4. Counting'
  BY <1>1, <1>3 DEF IInv, Counting
<1>5. RingReads' /\ Laps' /\ Apart' /\ KernelTwoInTurn' /\ KernelOneNeverStale' /\ ReadsAwaited'
  BY <1>1, <1>3, ReadsFrame, LapsFrame, FileFrame DEF IInv, reading
<1>6. Commands'
  BY <1>1 DEF IInv, Commands
<1>7. DrainCounts'
  <2>1. DrainReads' = DrainReads
    BY <1>1 DEF DrainReads, reading
  <2> HIDE DEF DrainReads
  <2> QED
    BY <1>1, <1>3, <2>1 DEF IInv, DrainCounts, reading
<1> QED
  BY <1>2, <1>4, <1>5, <1>6, <1>7 DEF IInv

-----------------------------------------------------------------------------
(* The steps of the queue *)

(* A completing command leaves lzw_host() and what it has counted alone. *)
LEMMA QueueFrame ==
  ASSUME IInv,
         UNCHANGED <<env, sem_lzw, released, lzw, count, input_to_fpga, enqueued, crossed, reading>>,
         finished["read"] \subseteq finished'["read"]
  PROVE  /\ PacketsCopied' = PacketsCopied /\ Counting' /\ RingReads' /\ DrainCounts'
         /\ Apart' /\ KernelTwoInTurn' /\ KernelOneNeverStale' /\ ReadsAwaited'
<1>1. /\ PacketsTaken' = PacketsTaken /\ PacketsCopied' = PacketsCopied
      /\ PacketsEnqueued' = PacketsEnqueued /\ PacketsPassed' = PacketsPassed
      /\ PacketsGivenBack' = PacketsGivenBack /\ Emptying' = Emptying
  BY DEF Beyond, PacketsTaken, PacketsCopied, PacketsEnqueued, PacketsPassed,
         PacketsGivenBack, Emptying
<1>2. Counting'
  BY <1>1 DEF IInv, Counting, env
<1>3. RingReads' /\ KernelTwoInTurn' /\ KernelOneNeverStale' /\ ReadsAwaited'
  BY <1>1, ReadsFrame, FileFrame DEF IInv, reading
<1>4. DrainCounts'
  BY <1>1 DEF IInv, DrainCounts, DrainReads, reading, env
<1>5. Apart'
  BY <1>1 DEF IInv, Apart
<1> QED
  BY <1>1, <1>2, <1>3, <1>4, <1>5

(* A packet whose command is pending has been enqueued and copied in. *)
LEMMA PendingIsCopied ==
  ASSUME IInv, NEW c \in {"write", "exec", "read"}, NEW p \in Packets, Pending(c, p)
  PROVE  p \in Nat /\ p \in 0 .. enqueued - 1 /\ enqueued <= PacketsCopied /\ lzw # "done"
<1>1. p \in Nat /\ p \in 0 .. enqueued - 1 /\ p \notin finished[c] /\ count \in Nat
  BY Sizes DEF Pending, Packets, IInv, TypeOK
<1>2. enqueued <= PacketsCopied
  BY <1>1 DEF IInv, Counting, PacketsEnqueued, PacketsCopied, Beyond
<1>3. lzw # "done"
  BY <1>1 DEF IInv, TypeOK, Commands
<1> QED
  BY <1>1, <1>2, <1>3

(* Completing a packet's command is no news of the packets with other buffers. *)
LEMMA CompletesElsewhere ==
  ASSUME TypeOK, NEW c \in {"write", "exec", "read"}, NEW p \in Nat, NEW q \in Nat,
         ~(KernelOf(p) = KernelOf(q) /\ SlotOf(p) = SlotOf(q)),
         finished' = [finished EXCEPT ![c] = @ \cup {p}]
  PROVE  /\ q \in finished'[c] <=> q \in finished[c]
         /\ q - NUM_PACKETS \in finished'[c] <=> q - NUM_PACKETS \in finished[c]
<1>1. finished'[c] = finished[c] \cup {p}
  BY DEF TypeOK
<1>2. q # p
  OBVIOUS
<1>3. q - NUM_PACKETS # p
  <2> SUFFICES ASSUME q - NUM_PACKETS = p PROVE FALSE
    OBVIOUS
  <2>1. q = p + NUM_PACKETS
    BY Sizes
  <2> QED
    BY <2>1, LapLater
<1> QED
  BY <1>1, <1>2, <1>3

(* What the command of a packet p leaves in its buffers, of which q is the latest    *)
(* packet: what it found there, and for kernel 2 p is q and it found q's alone.     *)
LEMMA OutcomesType ==
  ASSUME IInv, NEW c \in {"write", "exec", "read"}, NEW p \in Packets, Pending(c, p),
         NEW from \in [Kernels -> [HalfSlots -> Int]], NEW v \in Outcomes(p, from)
  PROVE  /\ v \in Int /\ v \in {from[KernelOf(p)][SlotOf(p)], MixOf(p)}
         /\ \A q \in 0 .. PacketsCopied - 1 :
              /\ q + NUM_PACKETS >= PacketsCopied /\ KernelOf(q) = KernelOf(p) /\ SlotOf(q) = SlotOf(p)
              /\ KernelOf(p) = 2
              => p = q /\ (from[KernelOf(p)][SlotOf(p)] = q => v = q)
<1> DEFINE K == KernelOf(p)
           S == SlotOf(p)
<1>1. /\ p \in Nat /\ p \in 0 .. PacketsCopied - 1 /\ K \in Kernels /\ S \in HalfSlots
      /\ p \notin finished["read"]
  <2>1. p \in Nat /\ p \in 0 .. enqueued - 1 /\ enqueued <= PacketsCopied
    BY PendingIsCopied
  <2>2. enqueued \in Nat /\ PacketsCopied \in Nat
    BY PlacesType DEF IInv, TypeOK
  <2>3. p \notin finished["read"]
    BY DEF Pending, IInv, Commands
  <2> QED
    BY <2>1, <2>2, <2>3, PlaceType
<1>2. v = from[K][S] \/ (v = Mix(K, S) /\ (from[K][S] # p \/ crossed[K][S] # FALSE))
  BY DEF Outcomes
<1>3. v \in Int
  <2>1. Mix(K, S) \in Int
    BY <1>1, MixType
  <2> HIDE DEF K, S
  <2>2. from[K][S] \in Int
    BY <1>1
  <2> QED
    BY <1>2, <2>1, <2>2
<1>4. ASSUME NEW q \in 0 .. PacketsCopied - 1, q + NUM_PACKETS >= PacketsCopied,
             KernelOf(q) = K, SlotOf(q) = S, K = 2
      PROVE  p = q /\ (from[K][S] = q => v = q)
  <2>1. p = q
    BY <1>1, <1>4, UnreadIsLatest
  <2>2. crossed[K][S] = FALSE
    <3> HIDE DEF K, S
    <3> QED
      BY <1>1, <1>4 DEF IInv, Apart
  <2> QED
    BY <1>2, <2>1, <2>2
<1> QED
  BY <1>2, <1>3, <1>4 DEF MixOf

(* The input on the device is then that of the buffer's latest packet, or a mix. *)
LEMMA WriteStep ==
  ASSUME IInv, NEW p \in Packets, Write(p)
  PROVE  IInv'
<1> DEFINE K == KernelOf(p)
           S == SlotOf(p)
<1>0. PICK v \in Outcomes(p, input_to_fpga) : device_in' = [device_in EXCEPT ![K][S] = v]
  BY DEF Write
<1>1. /\ Pending("write", p)
      /\ device_in' = [device_in EXCEPT ![K][S] = v]
      /\ finished' = [finished EXCEPT !["write"] = @ \cup {p}]
      /\ UNCHANGED <<env, sem_lzw, released, lzw, count, input_to_fpga, device_out,
                     output_from_fpga, enqueued, crossed, reading>>
  BY <1>0 DEF Write, queue
<1>2. p \in Nat /\ p \in 0 .. enqueued - 1 /\ lzw # "done" /\ K \in Kernels /\ S \in HalfSlots
  BY <1>1, PendingIsCopied, PlaceType
<1>3. /\ PacketsCopied' = PacketsCopied /\ Counting' /\ RingReads' /\ DrainCounts'
      /\ Apart' /\ KernelTwoInTurn' /\ KernelOneNeverStale' /\ ReadsAwaited'
  <2>1. finished["read"] \subseteq finished'["read"]
    BY <1>1 DEF IInv, TypeOK
  <2> QED
    BY <1>1, <2>1, QueueFrame
<1>10. /\ v \in Int /\ v \in {input_to_fpga[K][S], MixOf(p)}
       /\ \A q \in 0 .. PacketsCopied - 1 :
            q + NUM_PACKETS >= PacketsCopied /\ KernelOf(q) = K /\ SlotOf(q) = S /\ K = 2
            => p = q /\ (input_to_fpga[K][S] = q => v = q)
  BY <1>0, <1>1, OutcomesType DEF IInv, TypeOK
<1>4. TypeOK'
  <2> HIDE DEF K, S
  <2>1. device_in' \in [Kernels -> [HalfSlots -> Int]]
    BY <1>1, <1>2, <1>10 DEF IInv, TypeOK
  <2>2. finished' \in [{"write", "exec", "read"} -> SUBSET Nat]
    BY <1>1, <1>2 DEF IInv, TypeOK
  <2> QED
    BY <1>1, <2>1, <2>2 DEF IInv, TypeOK, env, reading
<1>5. /\ finished'["write"] = finished["write"] \cup {p}
      /\ finished'["exec"] = finished["exec"] /\ finished'["read"] = finished["read"]
  BY <1>1 DEF IInv, TypeOK
<1>6. Commands'
  BY <1>1, <1>2, <1>5 DEF IInv, Commands
<1>7. Laps'
  <2> SUFFICES ASSUME NEW q \in 0 .. PacketsCopied - 1, q + NUM_PACKETS >= PacketsCopied
               PROVE  InTurn("write", device_in[KernelOf(q)][SlotOf(q)], q)'
    BY <1>1, <1>3, <1>5 DEF IInv, Laps, InTurn
  <2> DEFINE k == KernelOf(q)
             i == SlotOf(q)
  <2>1. q \in Nat /\ k \in Kernels /\ i \in HalfSlots
    BY PlaceType, PlacesType DEF IInv
  <2>2. input_to_fpga[k][i] = q /\ InTurn("write", device_in[k][i], q)
    BY DEF IInv, Laps
  <2>3. CASE K = k /\ S = i
    <3>1. device_in'[k][i] = v
      <4> HIDE DEF K, S, k, i
      <4> QED
        BY <1>1, <1>2, <2>1, <2>3 DEF IInv, TypeOK
    <3>2. v \in {q, MixOf(q)} /\ (k = 2 => v = q)
      BY <1>10, <2>2, <2>3 DEF MixOf
    <3> QED
      BY <2>1, <3>1, <3>2 DEF InTurn, Kernels
  <2>4. CASE ~(K = k /\ S = i)
    <3>1. device_in'[k][i] = device_in[k][i]
      <4> HIDE DEF K, S, k, i
      <4> QED
        BY <1>1, <1>2, <2>1, <2>4 DEF IInv, TypeOK
    <3>2. /\ q \in finished'["write"] <=> q \in finished["write"]
          /\ q - NUM_PACKETS \in finished'["write"] <=> q - NUM_PACKETS \in finished["write"]
      BY <1>1, <1>2, <2>1, <2>4, CompletesElsewhere DEF IInv
    <3> QED
      BY <2>2, <3>1, <3>2 DEF InTurn
  <2> QED
    BY <2>3, <2>4
<1> QED
  BY <1>3, <1>4, <1>6, <1>7 DEF IInv

(* A kernel's output stems from an input that has reached the device: the packet's *)
(* own, or for kernel 1 by then that of the packet a lap later, or a mix.          *)
LEMMA ExecStep ==
  ASSUME IInv, NEW p \in Packets, Exec(p)
  PROVE  IInv'
<1> DEFINE K == KernelOf(p)
           S == SlotOf(p)
<1>0. PICK v \in Outcomes(p, device_in) : device_out' = [device_out EXCEPT ![K][S] = v]
  BY DEF Exec
<1>1. /\ Pending("exec", p) /\ SameKernelUpTo(p) \subseteq finished["write"]
      /\ device_out' = [device_out EXCEPT ![K][S] = v]
      /\ finished' = [finished EXCEPT !["exec"] = @ \cup {p}]
      /\ UNCHANGED <<env, sem_lzw, released, lzw, count, input_to_fpga, device_in, output_from_fpga,
                     enqueued, crossed, reading>>
  BY <1>0 DEF Exec, ExecReady, queue
<1>2. p \in Nat /\ lzw # "done" /\ K \in Kernels /\ S \in HalfSlots
  BY <1>1, PendingIsCopied, PlaceType
<1>3. /\ PacketsCopied' = PacketsCopied /\ Counting' /\ RingReads' /\ DrainCounts'
      /\ Apart' /\ KernelTwoInTurn' /\ KernelOneNeverStale' /\ ReadsAwaited'
  <2>1. finished["read"] \subseteq finished'["read"]
    BY <1>1 DEF IInv, TypeOK
  <2> QED
    BY <1>1, <2>1, QueueFrame
<1>10. /\ v \in Int /\ v \in {device_in[K][S], MixOf(p)}
       /\ \A q \in 0 .. PacketsCopied - 1 :
            q + NUM_PACKETS >= PacketsCopied /\ KernelOf(q) = K /\ SlotOf(q) = S /\ K = 2
            => p = q /\ (device_in[K][S] = q => v = q)
  BY <1>0, <1>1, OutcomesType DEF IInv, TypeOK
<1>4. TypeOK'
  <2> HIDE DEF K, S
  <2>1. device_out' \in [Kernels -> [HalfSlots -> Int]]
    BY <1>1, <1>2, <1>10 DEF IInv, TypeOK
  <2>2. finished' \in [{"write", "exec", "read"} -> SUBSET Nat]
    BY <1>1, <1>2 DEF IInv, TypeOK
  <2> QED
    BY <1>1, <2>1, <2>2 DEF IInv, TypeOK, env, reading
<1>5. /\ finished'["exec"] = finished["exec"] \cup {p}
      /\ finished'["write"] = finished["write"] /\ finished'["read"] = finished["read"]
  BY <1>1 DEF IInv, TypeOK
<1>6. p \in finished["write"]
  BY <1>1, <1>2 DEF SameKernelUpTo
<1>7. Commands'
  BY <1>1, <1>2, <1>5, <1>6 DEF IInv, Commands
<1>8. Laps'
  <2> SUFFICES ASSUME NEW q \in 0 .. PacketsCopied - 1, q + NUM_PACKETS >= PacketsCopied
               PROVE  InTurn("exec", device_out[KernelOf(q)][SlotOf(q)], q)'
    BY <1>1, <1>3, <1>5 DEF IInv, Laps, InTurn
  <2> DEFINE k == KernelOf(q)
             i == SlotOf(q)
  <2>1. q \in Nat /\ k \in Kernels /\ i \in HalfSlots
    BY PlaceType, PlacesType DEF IInv
  <2>2. InTurn("write", device_in[k][i], q) /\ InTurn("exec", device_out[k][i], q)
    BY DEF IInv, Laps
  <2>3. CASE K = k /\ S = i
    <3>1. device_out'[k][i] = v
      <4> HIDE DEF K, S, k, i
      <4> QED
        BY <1>1, <1>2, <2>1, <2>3 DEF IInv, TypeOK
    <3>2. finished'["exec"] \subseteq finished["write"]
      BY <1>5, <1>6 DEF IInv, Commands
    <3>3. v \in {device_in[k][i], MixOf(q)}
      BY <1>10, <2>3 DEF MixOf
    <3>4. CASE k = 1
      BY <2>2, <3>1, <3>2, <3>3, <3>4 DEF InTurn
    <3>5. CASE k = 2
      <4>1. p = q /\ device_in[k][i] = q
        BY <1>6, <1>10, <2>2, <2>3, <3>5 DEF InTurn
      <4>2. v = q
        BY <1>10, <2>3, <3>5, <4>1
      <4> QED
        BY <3>1, <4>2 DEF InTurn
    <3> QED
      BY <2>1, <3>4, <3>5 DEF Kernels
  <2>4. CASE ~(K = k /\ S = i)
    <3>1. device_out'[k][i] = device_out[k][i]
      <4> HIDE DEF K, S, k, i
      <4> QED
        BY <1>1, <1>2, <2>1, <2>4 DEF IInv, TypeOK
    <3>2. /\ q \in finished'["exec"] <=> q \in finished["exec"]
          /\ q - NUM_PACKETS \in finished'["exec"] <=> q - NUM_PACKETS \in finished["exec"]
      BY <1>1, <1>2, <2>1, <2>4, CompletesElsewhere DEF IInv
    <3> QED
      BY <2>2, <3>1, <3>2 DEF InTurn
  <2> QED
    BY <2>3, <2>4
<1> QED
  BY <1>3, <1>4, <1>7, <1>8 DEF IInv

(* What is read back stems from a kernel that has run, for the packet or, if it is    *)
(* kernel 1, a lap later or for a mix.                                           *)
LEMMA ReadStep ==
  ASSUME IInv, NEW p \in Packets, Read(p)
  PROVE  IInv'
<1> DEFINE K == KernelOf(p)
           S == SlotOf(p)
<1>0. PICK v \in Outcomes(p, device_out) :
         output_from_fpga' = [output_from_fpga EXCEPT ![K][S] = v]
  BY DEF Read
<1>1. /\ Pending("read", p) /\ SameKernelUpTo(p) \subseteq finished["exec"]
      /\ output_from_fpga' = [output_from_fpga EXCEPT ![K][S] = v]
      /\ finished' = [finished EXCEPT !["read"] = @ \cup {p}]
      /\ UNCHANGED <<env, sem_lzw, released, lzw, count, input_to_fpga, device_in, device_out,
                     enqueued, crossed, reading>>
  BY <1>0 DEF Read, queue
<1>2. p \in Nat /\ lzw # "done" /\ K \in Kernels /\ S \in HalfSlots
  BY <1>1, PendingIsCopied, PlaceType
<1>3. /\ PacketsCopied' = PacketsCopied /\ Counting' /\ RingReads' /\ DrainCounts'
      /\ Apart' /\ KernelTwoInTurn' /\ KernelOneNeverStale' /\ ReadsAwaited'
  <2>1. finished["read"] \subseteq finished'["read"]
    BY <1>1 DEF IInv, TypeOK
  <2> QED
    BY <1>1, <2>1, QueueFrame
<1>10. /\ v \in Int /\ v \in {device_out[K][S], MixOf(p)}
       /\ \A q \in 0 .. PacketsCopied - 1 :
            q + NUM_PACKETS >= PacketsCopied /\ KernelOf(q) = K /\ SlotOf(q) = S /\ K = 2
            => p = q /\ (device_out[K][S] = q => v = q)
  BY <1>0, <1>1, OutcomesType DEF IInv, TypeOK
<1>4. TypeOK'
  <2> HIDE DEF K, S
  <2>1. output_from_fpga' \in [Kernels -> [HalfSlots -> Int]]
    BY <1>1, <1>2, <1>10 DEF IInv, TypeOK
  <2>2. finished' \in [{"write", "exec", "read"} -> SUBSET Nat]
    BY <1>1, <1>2 DEF IInv, TypeOK
  <2> QED
    BY <1>1, <2>1, <2>2 DEF IInv, TypeOK, env, reading
<1>5. /\ finished'["read"] = finished["read"] \cup {p}
      /\ finished'["write"] = finished["write"] /\ finished'["exec"] = finished["exec"]
  BY <1>1 DEF IInv, TypeOK
<1>6. p \in finished["exec"]
  BY <1>1, <1>2 DEF SameKernelUpTo
<1>7. Commands'
  BY <1>1, <1>2, <1>5, <1>6 DEF IInv, Commands
<1>8. Laps'
  <2> SUFFICES ASSUME NEW q \in 0 .. PacketsCopied - 1, q + NUM_PACKETS >= PacketsCopied
               PROVE  InTurn("read", output_from_fpga[KernelOf(q)][SlotOf(q)], q)'
    BY <1>1, <1>3, <1>5 DEF IInv, Laps, InTurn
  <2> DEFINE k == KernelOf(q)
             i == SlotOf(q)
  <2>1. q \in Nat /\ k \in Kernels /\ i \in HalfSlots
    BY PlaceType, PlacesType DEF IInv
  <2>2. InTurn("exec", device_out[k][i], q) /\ InTurn("read", output_from_fpga[k][i], q)
    BY DEF IInv, Laps
  <2>3. CASE K = k /\ S = i
    <3>1. output_from_fpga'[k][i] = v
      <4> HIDE DEF K, S, k, i
      <4> QED
        BY <1>1, <1>2, <2>1, <2>3 DEF IInv, TypeOK
    <3>2. finished'["read"] \subseteq finished["exec"]
      BY <1>5, <1>6 DEF IInv, Commands
    <3>3. v \in {device_out[k][i], MixOf(q)}
      BY <1>10, <2>3 DEF MixOf
    <3>4. CASE k = 1
      BY <2>2, <3>1, <3>2, <3>3, <3>4 DEF InTurn
    <3>5. CASE k = 2
      <4>1. p = q /\ device_out[k][i] = q
        BY <1>6, <1>10, <2>2, <2>3, <3>5 DEF InTurn
      <4>2. v = q
        BY <1>10, <2>3, <3>5, <4>1
      <4> QED
        BY <3>1, <4>2 DEF InTurn
    <3> QED
      BY <2>1, <3>4, <3>5 DEF Kernels
  <2>4. CASE ~(K = k /\ S = i)
    <3>1. output_from_fpga'[k][i] = output_from_fpga[k][i]
      <4> HIDE DEF K, S, k, i
      <4> QED
        BY <1>1, <1>2, <2>1, <2>4 DEF IInv, TypeOK
    <3>2. /\ q \in finished'["read"] <=> q \in finished["read"]
          /\ q - NUM_PACKETS \in finished'["read"] <=> q - NUM_PACKETS \in finished["read"]
      BY <1>1, <1>2, <2>1, <2>4, CompletesElsewhere DEF IInv
    <3> QED
      BY <2>2, <3>1, <3>2 DEF InTurn
  <2> QED
    BY <2>3, <2>4
<1> QED
  BY <1>3, <1>4, <1>7, <1>8 DEF IInv

-----------------------------------------------------------------------------
(* The order in the file *)

(* While no command completes, the device and the host's outputs are as before. *)
LEMMA FirstLapFrame ==
  ASSUME IInv, FirstLap, UNCHANGED <<device_in, device_out, output_from_fpga>>,
         PacketsCopied' \in {PacketsCopied, PacketsCopied + 1}
  PROVE  FirstLap'
<1>1. PacketsCopied \in Nat /\ PacketsCopied' \in Nat
  BY PlacesType DEF IInv
<1> SUFFICES ASSUME NEW q \in 0 .. NUM_PACKETS - 1, PacketsCopied' <= q + NUM_PACKETS
             PROVE  /\ device_in[KernelOf(q)][SlotOf(q)] \in {NONE, q, MixOf(q)}
                    /\ device_out[KernelOf(q)][SlotOf(q)] \in {NONE, q, MixOf(q)}
                    /\ output_from_fpga[KernelOf(q)][SlotOf(q)] \in {NONE, q, MixOf(q)}
  BY DEF FirstLap
<1>2. PacketsCopied <= q + NUM_PACKETS
  BY <1>1, Sizes
<1> QED
  BY <1>2 DEF FirstLap

(* While nothing is read, the file keeps what was drained to it. *)
LEMMA DrainedFrame ==
  ASSUME DrainedInPlace, UNCHANGED <<pkts_read, total_packets, file>>, Emptying' => Emptying
  PROVE  DrainedInPlace'
  BY DEF DrainedInPlace, DrainedAt

(* At first nothing is anywhere. *)
LEMMA PlaceInit == Init => PlaceInv
<1> SUFFICES ASSUME Init PROVE PlaceInv
  OBVIOUS
<1>2. FirstLap
  <2> SUFFICES ASSUME NEW q \in 0 .. NUM_PACKETS - 1
               PROVE  Untouched[KernelOf(q)][SlotOf(q)] = NONE
    BY DEF Init, FirstLap
  <2>1. KernelOf(q) \in Kernels /\ SlotOf(q) \in HalfSlots
    BY PlaceType, Sizes
  <2> HIDE DEF KernelOf, SlotOf
  <2> QED
    BY <2>1 DEF Untouched
<1>3. DrainedInPlace
  BY DEF Init, DrainedInPlace, Emptying
<1> QED
  BY <1>2, <1>3 DEF PlaceInv

(* In the first lap, the latest packet of a buffer that a pending command is for is *)
(* the command's.                                                               *)
LEMMA FirstOfItsPlace ==
  ASSUME IInv, NEW p \in Nat, p < PacketsCopied, NEW q \in 0 .. NUM_PACKETS - 1,
         PacketsCopied <= q + NUM_PACKETS, KernelOf(p) = KernelOf(q), SlotOf(p) = SlotOf(q)
  PROVE  p = q
<1>1. q \in Nat /\ PacketsCopied \in Nat /\ NUM_PACKETS \in Nat
  BY Sizes, PlacesType DEF IInv
<1>2. ~(q < p)
  BY <1>1, DistinctPlaces
<1>3. ~(p < q)
  BY <1>1, DistinctPlaces
<1> QED
  BY <1>1, <1>2, <1>3

(* A command that completes moves what one buffer held to the next, or a mix.        *)
LEMMA QueuePlaces ==
  ASSUME IInv, IInv', PlaceInv, NEW p \in Packets, Write(p) \/ Exec(p) \/ Read(p)
  PROVE  PlaceInv'
<1> DEFINE K == KernelOf(p)
           S == SlotOf(p)
<1>1. /\ UNCHANGED <<lzw, count, pkts_read, total_packets, file>>
      /\ p \in Nat /\ p < PacketsCopied /\ K \in Kernels /\ S \in HalfSlots
  <2>1. \E c \in {"write", "exec", "read"} : Pending(c, p)
    BY DEF Write, Exec, Read
  <2>2. p \in 0 .. enqueued - 1 /\ enqueued <= PacketsCopied /\ p \in Nat
    BY <2>1, PendingIsCopied
  <2>3. enqueued \in Nat /\ PacketsCopied \in Nat
    BY PlacesType DEF IInv, TypeOK
  <2>4. p < PacketsCopied /\ K \in Kernels /\ S \in HalfSlots
    BY <2>2, <2>3, PlaceType
  <2> QED
    BY <2>2, <2>4 DEF Write, Exec, Read, env, reading
<1>3. FirstLap'
  <2>1. PacketsCopied' = PacketsCopied
    BY <1>1 DEF PacketsCopied, Beyond
  <2> SUFFICES ASSUME NEW q \in 0 .. NUM_PACKETS - 1, PacketsCopied <= q + NUM_PACKETS
               PROVE  /\ device_in'[KernelOf(q)][SlotOf(q)] \in {NONE, q, MixOf(q)}
                      /\ device_out'[KernelOf(q)][SlotOf(q)] \in {NONE, q, MixOf(q)}
                      /\ output_from_fpga'[KernelOf(q)][SlotOf(q)] \in {NONE, q, MixOf(q)}
    BY <2>1 DEF FirstLap
  <2> DEFINE k == KernelOf(q)
             i == SlotOf(q)
  <2>2. q \in Nat /\ k \in Kernels /\ i \in HalfSlots
    BY PlaceType, Sizes
  <2>3. /\ device_in[k][i] \in {NONE, q, MixOf(q)} /\ device_out[k][i] \in {NONE, q, MixOf(q)}
        /\ output_from_fpga[k][i] \in {NONE, q, MixOf(q)}
    BY DEF PlaceInv, FirstLap
  <2>4. K = k /\ S = i => input_to_fpga[k][i] = q
    <3> SUFFICES ASSUME K = k, S = i PROVE input_to_fpga[k][i] = q
      OBVIOUS
    <3>1. p = q
      BY <1>1, FirstOfItsPlace
    <3>2. q \in 0 .. PacketsCopied - 1 /\ q + NUM_PACKETS >= PacketsCopied
      BY <1>1, <3>1, PlacesType, Sizes DEF IInv
    <3> QED
      BY <3>2 DEF IInv, Laps
  <2>5. /\ device_in'[k][i] \in {device_in[k][i], Mix(k, i)} \cup
                                (IF K = k /\ S = i THEN {input_to_fpga[k][i]} ELSE {})
        /\ device_out'[k][i] \in {device_out[k][i], device_in[k][i], Mix(k, i)}
        /\ output_from_fpga'[k][i] \in {output_from_fpga[k][i], device_out[k][i], Mix(k, i)}
    <3>1. TypeOK
      BY DEF IInv
    <3> HIDE DEF k, i, K, S
    <3>2. CASE Write(p)
      <4>1. PICK v \in Outcomes(p, input_to_fpga) : device_in' = [device_in EXCEPT ![K][S] = v]
        BY <3>2 DEF Write, K, S
      <4>2. v \in {input_to_fpga[K][S], Mix(K, S)} /\ UNCHANGED <<device_out, output_from_fpga>>
        BY <3>2 DEF Write, Outcomes, K, S
      <4> QED
        BY <1>1, <2>2, <3>1, <4>1, <4>2 DEF TypeOK
    <3>3. CASE Exec(p)
      <4>1. PICK v \in Outcomes(p, device_in) : device_out' = [device_out EXCEPT ![K][S] = v]
        BY <3>3 DEF Exec, K, S
      <4>2. v \in {device_in[K][S], Mix(K, S)} /\ UNCHANGED <<device_in, output_from_fpga>>
        BY <3>3 DEF Exec, Outcomes, K, S
      <4> QED
        BY <1>1, <2>2, <3>1, <4>1, <4>2 DEF TypeOK
    <3>4. CASE Read(p)
      <4>1. PICK v \in Outcomes(p, device_out) : output_from_fpga' = [output_from_fpga EXCEPT ![K][S] = v]
        BY <3>4 DEF Read, K, S
      <4>2. v \in {device_out[K][S], Mix(K, S)} /\ UNCHANGED <<device_in, device_out>>
        BY <3>4 DEF Read, Outcomes, K, S
      <4> QED
        BY <1>1, <2>2, <3>1, <4>1, <4>2 DEF TypeOK
    <3> QED
      BY <3>2, <3>3, <3>4
  <2>7. Mix(k, i) = MixOf(q)
    BY DEF MixOf
  <2> HIDE DEF k, i, K, S
  <2>6. /\ device_in'[k][i] \in {NONE, q, MixOf(q)} /\ device_out'[k][i] \in {NONE, q, MixOf(q)}
        /\ output_from_fpga'[k][i] \in {NONE, q, MixOf(q)}
    BY <2>3, <2>4, <2>5, <2>7
  <2> QED
    BY <2>6 DEF k, i
<1>4. DrainedInPlace'
  BY <1>1, DrainedFrame DEF PlaceInv, Emptying
<1> QED
  BY <1>3, <1>4 DEF PlaceInv

(* A read of the draining loop that stays inside the arrays gets the output of the  *)
(* packet whose place it fills, or what its buffer held a lap before, or a mix.      *)
LEMMA DrainContent ==
  ASSUME IInv, PlaceInv, NEW k \in Kernels, Drain(k), read_counter[k] \in HalfSlots,
         NEW j, j = Len(file) + 1
  PROVE  /\ output_from_fpga[k][read_counter[k]] \in DrainedAt(j)
         /\ Mix(k, read_counter[k]) \in DrainedAt(j)
<1> DEFINE a == pkts_read[1]
           b == pkts_read[2]
           d == DrainReads
           r == pkts_read[k]
           i == read_counter[k]
           v == r % Half
           h == i - v
           e == r + h
           q == EventPacket(k, e)
           n == total_packets + 1
<1>1. Emptying /\ ~AllRead /\ d % 2 = IF k = 1 THEN 0 ELSE 1
  BY DrainingCounts DEF Drain, Draining, Emptying, Kernels
<1>2. /\ a \in Nat /\ b \in Nat /\ r \in Nat /\ r = (IF k = 1 THEN a ELSE b) /\ n = count + 1
      /\ count \in Nat /\ j = a + b + d + 1 /\ PacketsPassed = count + 1
  BY <1>1, DrainingCounts DEF Kernels
<1>3. d \in Nat /\ d <= NUM_PACKETS - 2 /\ a + b + d <= count
  BY <1>1, DrainsFew
<1>4. \/ n < NUM_PACKETS /\ a = 0 /\ b = 0
      \/ n >= NUM_PACKETS /\ n % 2 = 1 /\ b = a /\ 2 * a = n - NUM_PACKETS + 1
      \/ n >= NUM_PACKETS /\ n % 2 = 0 /\ b = a + 1 /\ 2 * a = n - NUM_PACKETS
  BY <1>2, Sizes DEF IInv, RingReads
<1>5. h \in Nat /\ 2 * h = d - (d % 2)
  <2>1. v \in 0 .. Half - 1
    BY <1>2, Sizes, DivMod
  <2>2. i \in Nat /\ 2 * i = 2 * v + (IF k = 1 THEN d + (d % 2) ELSE d - (d % 2))
    BY <1>1, <1>2, Sizes DEF IInv, DrainCounts, Kernels, Half
  <2> HIDE DEF d, v, i
  <2>0. v \in Nat
    BY <2>1, Sizes
  <2>3. 2 * (i - v) = d - (d % 2) /\ i - v \in Int
    BY <1>1, <1>3, <2>0, <2>2
  <2>4. i - v \in Nat
    BY <1>1, <1>3, <2>3
  <2> QED
    BY <2>3, <2>4
<1>6. i \in 0 .. Half - 1 /\ e \in Nat /\ e % Half = i /\ h < Half
  <2>1. v \in 0 .. Half - 1 /\ i \in 0 .. Half - 1
    BY <1>2, Sizes, DivMod
  <2>2. v + h = i /\ h < Half
    <3> HIDE DEF v, i
    <3> QED
      BY <2>1, Sizes
  <2>3. v + h < Half
    BY <2>1, <2>2, Sizes
  <2> HIDE DEF h, i
  <2>4. e % Half = i
    BY <1>2, <1>5, <2>2, <2>3, Sizes, ModInside
  <2> QED
    BY <1>2, <1>5, <2>1, <2>2, <2>4
<1>7. q \in Nat /\ KernelOf(q) = k /\ SlotOf(q) = i
  BY <1>6, EventSlot
<1>8. q = (IF k = 1 THEN 2 * a ELSE 2 * b) + d
  <2>1. q = 2 * r + 2 * h + (k - 1) /\ k \in 1 .. 2
    <3> HIDE DEF h, r
    <3> QED
      BY <1>2, <1>5 DEF EventPacket, Kernels
  <2> HIDE DEF h, r, d, a, b, q
  <2> QED
    BY <1>1, <1>2, <1>3, <1>5, <2>1
<1>9. PacketAt(j - 1, n) = q /\ q < n /\ n <= q + NUM_PACKETS
  <2>1. k \in {1, 2} /\ q \in Nat /\ NUM_PACKETS \in Nat /\ NUM_PACKETS = 2 * Half /\ Half \in Nat
    BY <1>7, Sizes DEF Kernels
  <2> DEFINE x == j - 1
  <2>2. x = a + b + d /\ x \in Nat /\ x < n
    BY <1>2, <1>3
  <2> SUFFICES PacketAt(x, n) = q /\ q < n /\ n <= q + NUM_PACKETS
    OBVIOUS
  <2> HIDE DEF a, b, d, n, q, x
  <2>3. n \in Nat
    BY <1>2
  <2>4. CASE n < NUM_PACKETS
    BY <1>2, <1>3, <1>4, <1>8, <2>1, <2>2, <2>3, <2>4 DEF PacketAt
  <2>5. CASE n >= NUM_PACKETS /\ n % 2 = 1
    <3>1. x = q /\ x > n - NUM_PACKETS
      BY <1>2, <1>3, <1>4, <1>8, <2>1, <2>2, <2>3, <2>5
    <3> QED
      BY <2>1, <2>2, <2>3, <2>5, <3>1 DEF PacketAt
  <2>6. CASE n >= NUM_PACKETS /\ n % 2 = 0
    <3>1. b = a + 1 /\ 2 * a = n - NUM_PACKETS /\ x = 2 * a + 1 + d
      BY <1>2, <1>3, <1>4, <2>1, <2>2, <2>3, <2>6
    <3>2. CASE k = 1
      <4>1. q = x - 1 /\ x % 2 = 1
        BY <1>1, <1>2, <1>3, <1>8, <2>3, <3>1, <3>2
      <4> QED
        BY <1>2, <1>3, <2>1, <2>2, <2>3, <2>6, <3>1, <4>1 DEF PacketAt
    <3>3. CASE k = 2
      <4>1. q = x + 1 /\ x % 2 = 0
        BY <1>1, <1>2, <1>3, <1>8, <2>3, <3>1, <3>3
      <4>2. q < n
        BY <2>1, <2>2, <2>3, <2>6, <4>1
      <4> QED
        BY <1>2, <1>3, <2>1, <2>2, <2>3, <2>6, <3>1, <4>1, <4>2 DEF PacketAt
    <3> QED
      BY <2>1, <3>2, <3>3
  <2> QED
    BY <1>4, <2>4, <2>5, <2>6
<1>10. PacketsCopied = n
  BY <1>1, <1>2 DEF PacketsCopied, Beyond, Emptying
<1> DEFINE c == output_from_fpga[k][i]
<1>11. c \in {q, q - NUM_PACKETS, MixOf(q), NONE}
  <2>1. CASE q < NUM_PACKETS
    <3>1. q \in 0 .. NUM_PACKETS - 1 /\ PacketsCopied <= q + NUM_PACKETS
      BY <1>7, <1>9, <1>10, <2>1, Sizes
    <3>2. output_from_fpga[KernelOf(q)][SlotOf(q)] \in {NONE, q, MixOf(q)}
      BY <3>1 DEF PlaceInv, FirstLap
    <3> QED
      BY <1>7, <3>2
  <2>2. CASE q >= NUM_PACKETS
    <3>1. e - Half \in 0 .. r - 1 /\ q - NUM_PACKETS = EventPacket(k, e - Half)
      <4>1. 2 * e + (k - 1) >= 2 * Half /\ k \in 1 .. 2
        BY <2>2, Sizes DEF EventPacket, Kernels
      <4>2. e = r + h
        OBVIOUS
      <4>3. q - NUM_PACKETS = 2 * (e - Half) + (k - 1)
        <5> HIDE DEF e
        <5> QED
          BY <1>6, <4>1, Sizes DEF EventPacket
      <4>5. e \in Nat /\ r \in Nat /\ h \in Nat /\ h < Half /\ Half \in Nat
        BY <1>2, <1>5, <1>6, Sizes
      <4> HIDE DEF e, r, h, q
      <4>4. e - Half \in 0 .. r - 1
        BY <4>1, <4>2, <4>5
      <4> QED
        BY <4>3, <4>4 DEF EventPacket
    <3>2. q - NUM_PACKETS \in finished["read"]
      BY <3>1 DEF IInv, ReadsAwaited
    <3>3. q \in 0 .. PacketsCopied - 1 /\ q + NUM_PACKETS >= PacketsCopied
      BY <1>2, <1>7, <1>9, <1>10, Sizes
    <3>4. InTurn("read", output_from_fpga[KernelOf(q)][SlotOf(q)], q)
      BY <3>3 DEF IInv, Laps
    <3> HIDE DEF q, i
    <3> QED
      BY <1>7, <3>2, <3>4 DEF InTurn
  <2> QED
    BY <1>7, <2>1, <2>2, Sizes
<1>12. Mix(k, i) = MixOf(q)
  BY <1>7 DEF MixOf
<1> QED
  BY <1>9, <1>11, <1>12 DEF DrainedAt

(* What a step of the feed, or one of lzw_host() that reads nothing, leaves.       *)
LEMMA FeedPlaces ==
  ASSUME IInv, PlaceInv,
         DedupPosts \/ MainSetsTotal \/ AwaitPacket \/ CopyIn \/ Run \/ Release \/ CheckTotal
           \/ DrainEnds \/ Finish \/ UNCHANGED vars
  PROVE  PlaceInv'
<1>1. UNCHANGED <<device_in, device_out, output_from_fpga, finished, pkts_read, file>>
  BY DEF DedupPosts, MainSetsTotal, AwaitPacket, CopyIn, Run, Release, CheckTotal, DrainEnds,
         Finish, vars, buffers, reading
<1>2. count \in Nat
  BY DEF IInv, TypeOK
<1>3. PacketsCopied' \in {PacketsCopied, PacketsCopied + 1}
  <2>1. CASE CopyIn
    BY <1>2, <2>1 DEF CopyIn, PacketsCopied, Beyond
  <2>2. CASE CheckTotal
    <3>1. \/ count' = count /\ lzw' = "drain1"
          \/ count' = count + 1 /\ lzw' = "wait"
      BY <2>2 DEF CheckTotal
    <3>2. lzw = "check"
      BY <2>2 DEF CheckTotal
    <3> QED
      BY <1>2, <3>1, <3>2 DEF PacketsCopied, Beyond
  <2>3. CASE DedupPosts \/ MainSetsTotal \/ AwaitPacket \/ Run \/ Release \/ DrainEnds \/ Finish
             \/ UNCHANGED vars
    <3>1. count' = count /\ (lzw' \in {"wait", "copy"} <=> lzw \in {"wait", "copy"})
      BY <2>3 DEF DedupPosts, MainSetsTotal, AwaitPacket, Run, Release, DrainEnds, Finish,
                  Draining, vars
    <3> QED
      BY <1>2, <3>1 DEF PacketsCopied, Beyond
  <2> QED
    BY <2>1, <2>2, <2>3
<1>4. DrainedInPlace'
  <2>1. CASE MainSetsTotal
    <3>1. lzw' = lzw /\ total_packets = INT_MAX
      BY <2>1 DEF MainSetsTotal, Feed!SetTotal
    <3>2. ~Emptying
      <4> SUFFICES ASSUME Emptying PROVE FALSE
        OBVIOUS
      <4>1. posted = sem_lzw + (count + 1) /\ posted <= MaxLast + 1 /\ count = INT_MAX
        <5>1. PacketsTaken = count + 1
          BY DEF PacketsTaken, Beyond, Emptying
        <5> QED
          BY <3>1, <5>1 DEF IInv, Counting
      <4>2. sem_lzw \in Nat
        BY DEF IInv, TypeOK
      <4> QED
        BY <1>2, <4>1, <4>2, Sizes
    <3> QED
      BY <3>1, <3>2 DEF DrainedInPlace, Emptying
  <2>2. CASE CheckTotal
    <3>1. ~Emptying /\ lzw = "check"
      BY <2>2 DEF CheckTotal, Emptying
    <3>2. total_pkts_read = pkts_read[1] + pkts_read[2] /\ Len(file) = total_pkts_read
      <4>1. DrainReads = 0 /\ Len(file) = total_pkts_read
        BY <3>1 DEF IInv, DrainCounts
      <4>2. pkts_read[1] \in Nat /\ pkts_read[2] \in Nat /\ total_pkts_read \in Nat
        BY ReadsSum DEF IInv, TypeOK
      <4> QED
        BY <4>1, <4>2 DEF DrainReads
    <3>3. Len(file) \in Nat
      BY DEF IInv, TypeOK
    <3> QED
      BY <1>1, <3>2, <3>3 DEF DrainedInPlace
  <2>3. CASE DedupPosts \/ AwaitPacket \/ CopyIn \/ Run \/ Release \/ DrainEnds \/ Finish
             \/ UNCHANGED vars
    <3>1. total_packets' = total_packets /\ (Emptying' => Emptying)
      BY <2>3 DEF DedupPosts, AwaitPacket, CopyIn, Run, Release, DrainEnds, Finish, Draining, vars,
                  env, Feed!Post, Emptying
    <3> QED
      BY <1>1, <3>1, DrainedFrame DEF PlaceInv
  <2> QED
    BY <2>1, <2>2, <2>3
<1> QED
  BY <1>1, <1>3, <1>4, FirstLapFrame DEF PlaceInv

(* The ring's reads leave the buffers alone. *)
LEMMA FullPlaces ==
  ASSUME IInv, PlaceInv, ReadWhenFull
  PROVE  PlaceInv'
<1>1. /\ lzw = "full" /\ lzw' = "release"
      /\ UNCHANGED <<count, device_in, device_out, output_from_fpga>>
  BY DEF ReadWhenFull, buffers
<1>2. count \in Nat
  BY <1>1, FullCounts
<1>4. PacketsCopied' = PacketsCopied /\ ~Emptying'
  BY <1>1, <1>2 DEF PacketsCopied, Beyond, Emptying
<1> QED
  BY <1>1, <1>4, FirstLapFrame DEF PlaceInv, DrainedInPlace

(* The draining loop fills one place more. *)
LEMMA DrainPlaces ==
  ASSUME IInv, PlaceInv, NEW k \in Kernels, Drain(k)
  PROVE  PlaceInv'
<1>1. /\ CopyOut(k) /\ Emptying /\ Emptying'
      /\ UNCHANGED <<count, total_packets, device_in, device_out, output_from_fpga, finished,
                     pkts_read>>
      /\ lzw \in {"drain1", "drain2"} /\ lzw' \in {"drain1", "drain2"}
  BY DEF Drain, Draining, Emptying, buffers, env
<1>2. /\ file' \in Seq(Int) /\ Len(file') = Len(file) + 1 /\ Len(file) \in Nat
      /\ \A i \in 1 .. Len(file) : file'[i] = file[i]
      /\ read_counter[k] \in HalfSlots =>
           file'[Len(file) + 1] \in {output_from_fpga[k][read_counter[k]], Mix(k, read_counter[k])}
      /\ read_counter[k] \notin HalfSlots => file'[Len(file) + 1] = NONE
  BY <1>1, CopiedOut DEF IInv
<1>3. DrainedInPlace'
  <2> SUFFICES ASSUME NEW j \in 1 .. Len(file'), j > pkts_read[1] + pkts_read[2]
               PROVE  file'[j] \in DrainedAt(j)
    BY <1>1 DEF DrainedInPlace, DrainedAt
  <2>1. CASE j \in 1 .. Len(file)
    BY <1>1, <1>2, <2>1 DEF PlaceInv, DrainedInPlace
  <2>2. CASE j = Len(file) + 1
    <3>1. CASE read_counter[k] \in HalfSlots
      BY <1>2, <2>2, <3>1, DrainContent
    <3>2. CASE read_counter[k] \notin HalfSlots
      BY <1>2, <2>2, <3>2 DEF DrainedAt
    <3> QED
      BY <3>1, <3>2
  <2> QED
    BY <1>2, <2>1, <2>2
<1>4. PacketsCopied' = PacketsCopied
  BY <1>1 DEF PacketsCopied, Beyond
<1> QED
  BY <1>1, <1>3, <1>4, FirstLapFrame DEF PlaceInv

-----------------------------------------------------------------------------
(* The theorems *)

(* The counts, the order of a packet's commands and the buffers' contents stay     *)
(* consistent whatever order the queue completes the commands in.                 *)
THEOREM Invariance == Spec => []IInv
<1>1. IInv /\ [Next]_vars => IInv'
  <2> SUFFICES ASSUME IInv, [Next]_vars PROVE IInv'
    OBVIOUS
  <2>1. CASE DedupPosts
    BY <2>1, DedupPostsStep
  <2>2. CASE MainSetsTotal
    BY <2>2, MainSetsTotalStep
  <2>3. CASE AwaitPacket
    BY <2>3, AwaitPacketStep
  <2>4. CASE CopyIn
    BY <2>4, CopyInStep
  <2>5. CASE Run
    BY <2>5, RunStep
  <2>6. CASE ReadWhenFull
    BY <2>6, ReadWhenFullStep
  <2>7. CASE Release
    BY <2>7, ReleaseStep
  <2>8. CASE CheckTotal
    BY <2>8, CheckTotalStep
  <2>9. ASSUME NEW k \in Kernels, Drain(k) PROVE IInv'
    BY <2>9, DrainStep
  <2>10. CASE DrainEnds
    BY <2>10, DrainEndsStep
  <2>11. CASE Finish
    BY <2>11, FinishStep
  <2>12. ASSUME NEW p \in Packets, Write(p) PROVE IInv'
    BY <2>12, WriteStep
  <2>13. ASSUME NEW p \in Packets, Exec(p) PROVE IInv'
    BY <2>13, ExecStep
  <2>14. ASSUME NEW p \in Packets, Read(p) PROVE IInv'
    BY <2>14, ReadStep
  <2>15. CASE UNCHANGED vars
    <3>1. UNCHANGED <<env, sem_lzw, released, lzw, count, input_to_fpga, enqueued, crossed, reading>>
      BY <2>15 DEF vars, buffers, queue
    <3>2. UNCHANGED <<buffers, finished>> /\ finished["read"] \subseteq finished'["read"]
      BY <2>15 DEF vars
    <3>3. TypeOK' /\ Commands'
      BY <3>1, <3>2, CommandsFrame DEF IInv, TypeOK, env, buffers, reading
    <3> QED
      BY <3>1, <3>2, <3>3, QueueFrame, LapsFrame DEF IInv
  <2> QED
    BY <2>1, <2>2, <2>3, <2>4, <2>5, <2>6, <2>7, <2>8, <2>9, <2>10, <2>11, <2>12, <2>13, <2>14,
       <2>15 DEF Next, LzwHost, Queue
<1> QED
  BY <1>1, InitStep, PTL DEF Spec

(* The order of kernel 2's outputs survives every number of laps ...              *)
THEOREM KernelTwoStaysInTurn == Spec => []KernelTwoInTurn
<1>1. IInv => KernelTwoInTurn
  BY DEF IInv
<1> QED
  BY <1>1, Invariance, PTL

(* ... and kernel 1's never come from a lap before: each is its packet's, or that of *)
(* the packet a lap later, or a mix of the two.                                  *)
THEOREM KernelOneIsNeverStale == Spec => []KernelOneNeverStale
<1>1. IInv => KernelOneNeverStale
  BY DEF IInv
<1> QED
  BY <1>1, Invariance, PTL

(* The stage ends with one output of each packet's place and an empty queue.       *)
THEOREM EndsWithAllRead == Spec => []AllReadAtEnd
<1>1. IInv => AllReadAtEnd
  <2> SUFFICES ASSUME IInv, lzw = "done"
               PROVE  /\ Len(file) = total_packets + 1
                      /\ \A p \in 0 .. total_packets : p \in finished["read"]
    BY DEF AllReadAtEnd
  <2>1. Emptying
    BY DEF Emptying
  <2>2. Len(file) = total_packets + 1
    BY DEF IInv, DrainCounts
  <2>3. enqueued = total_packets + 1 /\ total_packets \in Nat
    BY <2>1, DrainingCounts DEF IInv, Counting
  <2>4. finished["read"] = 0 .. enqueued - 1
    BY DEF IInv, TypeOK, Commands
  <2> QED
    BY <2>2, <2>3, <2>4
<1> QED
  BY <1>1, Invariance, PTL

(* A read is awaited only when its commands have been enqueued: no vector of events *)
(* is indexed past its end, with the ring full or while the pipeline is emptied.     *)
THEOREM WaitsOnEnqueued == Spec => []WaitsOnRealEvent
<1>1. IInv => WaitsOnRealEvent
  <2> SUFFICES ASSUME IInv, NEW k \in Kernels, AboutToRead(k)
               PROVE  EventPacket(k, pkts_read[k]) < enqueued
    BY DEF WaitsOnRealEvent, HasEvent
  <2>1. CASE lzw = "full" /\ k = KernelToRead(count)
    <3>1. /\ count \in Nat /\ enqueued = count + 1
          /\ k = KernelOf(count)
      BY <2>1, FullCounts DEF IInv, Counting, KernelToRead
    <3>2. EventPacket(k, pkts_read[k]) = count - NUM_PACKETS + 2
          \/ EventPacket(k, pkts_read[k]) = count - NUM_PACKETS
      BY <2>1, <3>1, FullCounts
    <3> QED
      BY <3>1, <3>2, Sizes
  <2>2. CASE Draining(k) /\ ~AllRead
    <3>1. lzw = (IF k = 1 THEN "drain1" ELSE "drain2") /\ Emptying
          /\ total_pkts_read # total_packets + 1
      BY <2>2 DEF Draining, AllRead, Emptying
    <3> DEFINE a == pkts_read[1]
               b == pkts_read[2]
               d == DrainReads
    <3>2. /\ count \in Nat /\ PacketsPassed = count + 1 /\ enqueued = count + 1
          /\ a \in Nat /\ b \in Nat /\ d \in Nat
          /\ a + b + d <= count
          /\ lzw = "drain2" => d % 2 = 1
      <4>1. /\ count \in Nat /\ total_packets = count /\ total_pkts_read \in Nat
            /\ a \in Nat /\ b \in Nat /\ d \in Nat
            /\ total_pkts_read = a + b + d /\ total_pkts_read <= count + 1
            /\ lzw = "drain2" => d % 2 = 1
        BY <3>1, DrainingCounts
      <4>2. PacketsPassed = count + 1 /\ enqueued = count + 1
        BY <3>1, DrainingCounts DEF IInv, Counting
      <4> HIDE DEF a, b, d
      <4> QED
        BY <3>1, <4>1, <4>2
    <3>3. /\ a <= b /\ b <= a + 1
          /\ PacketsPassed < NUM_PACKETS => a + b = 0
          /\ PacketsPassed >= NUM_PACKETS => a + b = PacketsPassed - NUM_PACKETS + 1
      BY ReadsSum DEF IInv
    <3> HIDE DEF a, b, d
    <3>4. CASE k = 1
      <4>1. 2 * a < count + 1
        BY <3>2, <3>3, Sizes
      <4> QED
        BY <3>2, <3>4, <4>1 DEF EventPacket, a
    <3>5. CASE k = 2
      <4>1. d >= 1
        BY <3>1, <3>2, <3>5
      <4>2. 2 * b + 1 < count + 1
        BY <3>2, <3>3, <4>1, Sizes
      <4> QED
        BY <3>2, <3>5, <4>2 DEF EventPacket, b
    <3> QED
      BY <3>4, <3>5 DEF Kernels
  <2> QED
    BY <2>1, <2>2 DEF AboutToRead
<1> QED
  BY <1>1, Invariance, PTL

(* Where the draining loop's indices start: at the arrays' begin, or kernel 2's one *)
(* on, for the streams that fit, and kernel 1's further on for the others.        *)
LEMMA DrainStarts ==
  ASSUME IInv, Emptying
  PROVE  /\ DrainFits => pkts_read[1] % Half = 0 /\ pkts_read[2] % Half <= 1
         /\ ~DrainFits => /\ pkts_read[1] % Half >= 1
                         /\ pkts_read[1] + pkts_read[2] = count - NUM_PACKETS + 2
<1> DEFINE a == pkts_read[1]
           b == pkts_read[2]
           m == count \div NUM_PACKETS
           r == count % NUM_PACKETS
<1>1. /\ count \in Nat /\ total_packets = count /\ PacketsPassed = count + 1
      /\ a \in Nat /\ b \in Nat
  BY DrainingCounts
<1>2. /\ a <= b /\ b <= a + 1
      /\ PacketsPassed < NUM_PACKETS => a + b = 0
      /\ PacketsPassed >= NUM_PACKETS => a + b = PacketsPassed - NUM_PACKETS + 1
  BY ReadsSum DEF IInv
<1>3. m \in Nat /\ r \in 0 .. NUM_PACKETS - 1 /\ count = NUM_PACKETS * m + r
  BY <1>1, Sizes, DivMod
<1>4. DrainFits <=> count < NUM_PACKETS \/ r >= NUM_PACKETS - 2
  BY <1>1 DEF DrainFits
<1> DEFINE x == Half * m
<1>5. x \in Nat /\ NUM_PACKETS * m = 2 * x
  <2> HIDE DEF m
  <2> QED
    BY <1>3, Sizes, SMT
<1>6. 0 % Half = 0 /\ (Half = 1 => 1 % Half = 0) /\ (Half # 1 => 1 % Half = 1)
  BY Sizes, ModSmall, SMT
<1>7. ASSUME NEW h \in 0 .. Half - 1 PROVE (x + h) % Half = h
  <2>1. m \in Int /\ h \in Int /\ Half \in Nat \ {0}
    BY <1>3, <1>7, Sizes
  <2>2. (Half * m + h) % Half = h % Half
    <3> HIDE DEF m
    <3> QED
      BY <2>1, ModMultiple
  <2>3. h % Half = h
    BY <1>7, Sizes, ModSmall
  <2> QED
    BY <2>2, <2>3
<1>8. CASE count + 1 < NUM_PACKETS
  <2>1. a = 0 /\ b = 0 /\ DrainFits
    <3> HIDE DEF a, b, r
    <3> QED
      BY <1>1, <1>2, <1>4, <1>8, Sizes
  <2> QED
    BY <2>1, <1>6
<1>9. CASE count + 1 >= NUM_PACKETS
  <2>1. a + b = 2 * x + r - NUM_PACKETS + 2
    <3> HIDE DEF a, b, r, x, m
    <3> QED
      BY <1>1, <1>2, <1>3, <1>5, <1>9, Sizes
  <2>2. CASE r = NUM_PACKETS - 2
    <3>1. a = x /\ b = x
      <4> HIDE DEF a, b, r, x
      <4> QED
        BY <1>1, <1>2, <1>5, <2>1, <2>2, Sizes
    <3>2. (x + 0) % Half = 0 /\ x + 0 = x
      BY <1>5, <1>7, Sizes
    <3> QED
      BY <1>4, <2>2, <3>1, <3>2, Sizes
  <2>3. CASE r = NUM_PACKETS - 1
    <3>1. a = x /\ b = x + 1
      <4> HIDE DEF a, b, r, x
      <4> QED
        BY <1>1, <1>2, <1>5, <2>1, <2>3, Sizes
    <3>2. (x + 0) % Half = 0 /\ x + 0 = x
      BY <1>5, <1>7, Sizes
    <3>3. (x + 1) % Half <= 1
      <4>1. CASE Half = 1
        <5> HIDE DEF x
        <5>1. x + 1 \in Nat /\ Half \in Nat \ {0}
          BY <1>5, Sizes
        <5>2. (x + 1) % Half \in 0 .. Half - 1
          BY <5>1, DivMod
        <5> QED
          BY <4>1, <5>2
      <4>2. CASE Half # 1
        BY <1>7, <4>2, Sizes
      <4> QED
        BY <4>1, <4>2
    <3> QED
      BY <1>4, <2>3, <3>1, <3>2, <3>3, Sizes
  <2>4. CASE r < NUM_PACKETS - 2
    <3>1. ~DrainFits \/ count < NUM_PACKETS
      BY <1>3, <1>4, <2>4, Sizes
    <3>2. ~DrainFits
      <4>1. count # NUM_PACKETS - 1
        BY <2>4, Sizes, ModSmall DEF r
      <4> QED
        BY <1>1, <1>4, <1>9, <2>4, <4>1, Sizes, <1>3
    <3> DEFINE h == (r + 2) \div 2
               y == x - Half
    <3>3. h \in 1 .. Half - 1 /\ (r + 2 = 2 * h \/ r + 2 = 2 * h + 1)
      <4> HIDE DEF r
      <4> QED
        BY <1>3, <2>4, Sizes, SMT
    <3>4. y + h = a
      <4> HIDE DEF a, b, r, x, h
      <4> QED
        BY <1>1, <1>2, <1>3, <1>5, <2>1, <3>3, Sizes
    <3>5. a % Half = h
      <4>1. y = Half * (m - 1)
        <5> HIDE DEF m
        <5> QED
          BY <1>3, Sizes, SMT
      <4>2. (Half * (m - 1) + h) % Half = h % Half
        <5> HIDE DEF m, h
        <5>1. m - 1 \in Int /\ h \in Int /\ Half \in Nat \ {0}
          BY <1>3, <3>3, Sizes
        <5> QED
          BY <5>1, ModMultiple
      <4>3. h % Half = h
        BY <3>3, Sizes, ModSmall
      <4> QED
        BY <3>4, <4>1, <4>2, <4>3
    <3> QED
      <4>1. a + b = count - NUM_PACKETS + 2
        <5> HIDE DEF a, b
        <5> QED
          BY <1>1, <1>2, <1>9, Sizes
      <4> QED
        BY <3>2, <3>3, <3>5, <4>1
  <2>5. r = NUM_PACKETS - 2 \/ r = NUM_PACKETS - 1 \/ r < NUM_PACKETS - 2
    <3> HIDE DEF r
    <3> QED
      BY <1>3, Sizes
  <2> QED
    BY <2>2, <2>3, <2>4, <2>5
<1>10. count + 1 < NUM_PACKETS \/ count + 1 >= NUM_PACKETS
  BY <1>1, Sizes
<1> QED
  BY <1>8, <1>9, <1>10

(* The reads made with the ring full stay inside the arrays; those of the draining    *)
(* loop do exactly for the streams that DrainFits says.                           *)
THEOREM IndicesStayInside == Spec => []IndexInRange
<1>1. ASSUME IInv, NEW k \in Kernels, lzw = "full" PROVE read_counter[k] \in HalfSlots
  <2>1. ~Emptying
    BY <1>1 DEF Emptying
  <2>2. read_counter[k] = pkts_read[k] % Half /\ pkts_read[k] \in Nat
    BY <1>1, <2>1 DEF IInv, TypeOK, RingReads, Half
  <2> QED
    BY <2>2, Sizes, DivMod
<1>2. ASSUME IInv, Emptying
      PROVE  \E v, w \in Nat :
               /\ v = pkts_read[1] % Half /\ w = pkts_read[2] % Half
               /\ read_counter[1] \in Nat /\ read_counter[2] \in Nat
               /\ 2 * read_counter[1] = 2 * v + (DrainReads + (DrainReads % 2))
               /\ 2 * read_counter[2] = 2 * w + (DrainReads - (DrainReads % 2))
  <2> DEFINE v == pkts_read[1] % Half
             w == pkts_read[2] % Half
  <2>1. v \in Nat /\ w \in Nat
    <3>1. pkts_read[1] \in Nat /\ pkts_read[2] \in Nat /\ Half \in Nat \ {0}
      BY <1>2, DrainingCounts, Sizes
    <3>2. v \in 0 .. Half - 1 /\ w \in 0 .. Half - 1
      BY <3>1, DivMod
    <3> QED
      BY <3>1, <3>2
  <2>2. /\ read_counter[1] \in Nat /\ read_counter[2] \in Nat
        /\ 2 * read_counter[1] = 2 * v + (DrainReads + (DrainReads % 2))
        /\ 2 * read_counter[2] = 2 * w + (DrainReads - (DrainReads % 2))
    BY <1>2 DEF IInv, TypeOK, DrainCounts, Kernels, Half
  <2> QED
    BY <2>1, <2>2
<1>3. ASSUME IInv, NEW k \in Kernels, AboutToRead(k), lzw # "full", DrainFits
      PROVE  read_counter[k] \in HalfSlots
  <2>1. lzw = (IF k = 1 THEN "drain1" ELSE "drain2") /\ Emptying /\ ~AllRead
    BY <1>3 DEF AboutToRead, Draining, Emptying
  <2> DEFINE d == DrainReads
  <2>2. d \in Nat /\ d <= NUM_PACKETS - 2 /\ d % 2 = IF k = 1 THEN 0 ELSE 1
    BY <1>3, <2>1, DrainsFew, DrainingCounts DEF Kernels
  <2>3. PICK v, w \in Nat :
          /\ v = pkts_read[1] % Half /\ w = pkts_read[2] % Half
          /\ read_counter[1] \in Nat /\ read_counter[2] \in Nat
          /\ 2 * read_counter[1] = 2 * v + (d + (d % 2))
          /\ 2 * read_counter[2] = 2 * w + (d - (d % 2))
    BY <1>2, <1>3, <2>1
  <2>4. v = 0 /\ w <= 1
    BY <1>3, <2>1, <2>3, DrainStarts
  <2> DEFINE x == read_counter[1]
             y == read_counter[2]
  <2> HIDE DEF d
  <2>5. CASE k = 1
    <3>1. d % 2 = 0
      BY <2>2, <2>5
    <3>2. x \in Nat /\ 2 * x = 2 * v + (d + (d % 2))
      BY <2>3
    <3> HIDE DEF x
    <3>3. 2 * x = d
      BY <2>2, <2>4, <3>1, <3>2
    <3>4. x \in HalfSlots
      BY <2>2, <3>2, <3>3, Sizes
    <3> QED
      BY <2>5, <3>4 DEF x
  <2>6. CASE k = 2
    <3>1. d % 2 = 1
      BY <2>2, <2>6
    <3>2. y \in Nat /\ 2 * y = 2 * w + (d - (d % 2))
      BY <2>3
    <3> HIDE DEF y
    <3>3. 2 * y = 2 * w + d - 1
      BY <2>2, <3>1, <3>2
    <3>4. d <= NUM_PACKETS - 3
      BY <2>2, <3>1, Sizes
    <3>5. y \in HalfSlots
      BY <2>2, <2>4, <3>2, <3>3, <3>4, Sizes
    <3> QED
      BY <2>6, <3>5 DEF y
  <2> QED
    BY <2>5, <2>6 DEF Kernels
<1>4. ASSUME IInv, lzw = "done", ~DrainFits PROVE read_counter[1] - 1 \notin HalfSlots
  <2>1. Emptying
    BY <1>4 DEF Emptying
  <2>2. count \in Nat /\ total_pkts_read = count + 1
    BY <1>4, <2>1, DrainingCounts DEF IInv, DrainCounts
  <2> DEFINE d == DrainReads
             n == pkts_read[1] + pkts_read[2]
  <2>3. d \in Nat /\ n \in Nat /\ total_pkts_read = n + d
    BY <1>4, <2>1, DrainingCounts
  <2>4. PICK v, w \in Nat :
          /\ v = pkts_read[1] % Half /\ read_counter[1] \in Nat
          /\ 2 * read_counter[1] = 2 * v + (d + (d % 2))
    BY <1>2, <1>4, <2>1
  <2>5. v >= 1 /\ n = count - NUM_PACKETS + 2
    BY <1>4, <2>1, <2>4, DrainStarts
  <2> HIDE DEF d, n
  <2>6. d = NUM_PACKETS - 1
    BY <2>2, <2>3, <2>5, Sizes
  <2>7. d = 2 * (Half - 1) + 1 /\ Half - 1 \in Nat
    BY <2>6, Sizes
  <2>8. d % 2 = 1
    BY <2>7
  <2>9. read_counter[1] = v + Half
    BY <2>4, <2>6, <2>8, Sizes
  <2> QED
    BY <2>4, <2>5, <2>9, Sizes
<1>5. IInv => IndexInRange
  BY <1>1, <1>3, <1>4 DEF IndexInRange
<1> QED
  BY <1>5, Invariance, PTL

(* Place j of the file is that of one packet, and holds its output, or what its       *)
(* buffer held a lap before or after, or a mix of these, or nothing: for streams and   *)
(* rings of any size.                                                            *)
THEOREM FilePlacesFixed == Spec => []PlacesAreFixed
<1>1. IInv /\ IInv' /\ PlaceInv /\ [Next]_vars => PlaceInv'
  BY FeedPlaces, FullPlaces, DrainPlaces, QueuePlaces DEF Next, LzwHost, Queue
<1>2. IInv /\ PlaceInv => PlacesAreFixed
  <2> SUFFICES ASSUME IInv, PlaceInv, total_packets # INT_MAX, NEW j \in 1 .. Len(file)
               PROVE  LET p == PacketAt(j - 1, total_packets + 1) IN
                        file[j] \in {p, p - NUM_PACKETS, p + NUM_PACKETS,
                                     Mix(KernelOf(p), SlotOf(p)), NONE}
    BY DEF PlacesAreFixed
  <2> DEFINE a == pkts_read[1]
             b == pkts_read[2]
             n == total_packets + 1
  <2>1. CASE j > a + b
    <3>1. Emptying
      <4> SUFFICES ASSUME ~Emptying PROVE FALSE
        OBVIOUS
      <4>1. DrainReads = 0 /\ Len(file) = total_pkts_read
        BY DEF IInv, DrainCounts
      <4>2. a \in Nat /\ b \in Nat /\ total_pkts_read \in Nat
        BY ReadsSum DEF IInv, TypeOK
      <4> QED
        BY <2>1, <4>1, <4>2 DEF DrainReads
    <3> QED
      BY <2>1, <3>1 DEF PlaceInv, DrainedInPlace, DrainedAt, MixOf
  <2>2. CASE j <= a + b
    <3>1. /\ a \in Nat /\ b \in Nat /\ a <= b /\ b <= a + 1
          /\ PacketsPassed < NUM_PACKETS => a + b = 0
          /\ PacketsPassed >= NUM_PACKETS => a + b = PacketsPassed - NUM_PACKETS + 1
      BY ReadsSum DEF IInv
    <3>2. PacketsPassed \in Nat /\ PacketsPassed <= n /\ n \in Nat
      <4>1. total_packets \in Nat /\ posted <= total_packets + 1 /\ posted = sem_lzw + PacketsTaken
            /\ sem_lzw \in Nat /\ count \in Nat
        BY Sizes DEF IInv, TypeOK, Counting, Packets
      <4>2. PacketsPassed <= PacketsTaken
        BY <4>1 DEF PacketsPassed, PacketsTaken, Beyond
      <4> QED
        BY <4>1, <4>2, PlacesType DEF IInv
    <3>3. j \in Nat /\ j >= 1
      BY DEF IInv, TypeOK
    <3> DEFINE x == j - 1
    <3> HIDE DEF a, b, n
    <3>4. /\ x \in Nat /\ NUM_PACKETS \in Nat /\ n >= NUM_PACKETS /\ x <= n - NUM_PACKETS
      BY <2>2, <3>1, <3>2, <3>3, Sizes
    <3>5. PacketAt(x, n) = IF x % 2 = 0 THEN x + 1 ELSE x - 1
      <4> HIDE DEF x
      <4> QED
        BY <3>2, <3>4 DEF PacketAt
    <3>6. CASE x % 2 = 0
      <4> DEFINE h == (x \div 2) + 1
      <4>1. h \in 1 .. b /\ j = 2 * h - 1
        BY <2>2, <3>1, <3>3, <3>4, <3>6
      <4> HIDE DEF h
      <4>2. file[2 * h - 1] = 2 * h - 1
        BY <4>1 DEF IInv, KernelTwoInTurn, b
      <4>3. file[j] = x + 1
        BY <3>3, <4>1, <4>2
      <4> QED
        BY <3>5, <3>6, <4>3 DEF n
    <3>7. CASE x % 2 = 1
      <4> DEFINE h == (x + 1) \div 2
      <4>1. h \in 1 .. a /\ j = 2 * h
        BY <2>2, <3>1, <3>3, <3>4, <3>7
      <4> HIDE DEF h
      <4>2. file[2 * h] \in {2 * h - 2, 2 * h - 2 + NUM_PACKETS, Mix(1, SlotOf(2 * h - 2))}
        BY <4>1 DEF IInv, KernelOneNeverStale, a
      <4>3. h \in Nat
        BY <3>1, <4>1
      <4>4. file[j] \in {x - 1, x - 1 + NUM_PACKETS, Mix(1, SlotOf(x - 1))}
        <5>1. 2 * h - 2 = x - 1 /\ j = 2 * h
          BY <3>3, <4>1, <4>3
        <5> QED
          BY <4>2, <5>1
      <4>5. KernelOf(x - 1) = 1
        BY <3>4, <3>7 DEF KernelOf
      <4> QED
        BY <3>5, <3>7, <4>4, <4>5 DEF n
    <3>8. x % 2 = 0 \/ x % 2 = 1
      BY <3>4
    <3> QED
      BY <3>6, <3>7, <3>8
  <2> QED
    <3>1. a \in Nat /\ b \in Nat /\ j \in Nat
      BY ReadsSum DEF IInv, TypeOK
    <3> QED
      BY <2>1, <2>2, <3>1
<1> QED
  BY <1>1, <1>2, Invariance, PlaceInit, PTL DEF Spec

(* Kernel 2's buffers are never given away before their output is in the file.     *)
THEOREM KernelTwoNeverLosesOutput == Spec => KernelTwoSlotsSafe
<1>1. IInv /\ [Next]_vars => [ReusedAfterRead(2)]_vars
  <2> SUFFICES ASSUME IInv, CopyIn, KernelOf(count) = 2, count >= NUM_PACKETS
               PROVE  pkts_read[2] > (count - NUM_PACKETS) \div 2
    BY DEF ReusedAfterRead
  <2>1. lzw = "copy" /\ count \in Nat
    BY DEF CopyIn, IInv, TypeOK
  <2>2. PacketsPassed = count
    BY <2>1 DEF PacketsPassed, Beyond
  <2>3. count % 2 = 1
    BY <2>1 DEF KernelOf
  <2>4. pkts_read[2] = pkts_read[1] /\ 2 * pkts_read[1] = count - NUM_PACKETS + 1
    BY <2>2, <2>3 DEF IInv, RingReads
  <2>5. pkts_read[1] \in Nat
    BY ReadsSum DEF IInv
  <2> QED
    BY <2>1, <2>4, <2>5, Sizes
<1> QED
  BY <1>1, Invariance, PTL DEF Spec, KernelTwoSlotsSafe

(* The stage keeps its side of the interface with the rest of the encoder: a slot   *)
(* is given back once for each packet, after the packet was posted.               *)
THEOREM LzwHostKeepsFeed == Spec => KeepsFeed
<1>1. Init => Feed!Init
  BY DEF Init
<1>2. IInv /\ [Next]_vars => [Feed!Next]_(Feed!vars)
  <2> SUFFICES ASSUME IInv, Next PROVE Feed!Next \/ UNCHANGED <<posted, released, total_packets>>
    BY DEF vars, env, Feed!vars
  <2>1. CASE DedupPosts
    BY <2>1 DEF DedupPosts, Feed!Next
  <2>2. CASE MainSetsTotal
    BY <2>2 DEF MainSetsTotal, Feed!Next
  <2>3. CASE Release
    <3>1. released' = released + 1 /\ UNCHANGED <<posted, total_packets>> /\ lzw = "release"
      BY <2>3 DEF Release, env
    <3>2. released < posted
      BY <3>1 DEF IInv, TypeOK, Counting, PacketsTaken, PacketsGivenBack, Beyond
    <3> QED
      BY <3>1, <3>2 DEF Feed!Next, Feed!Release
  <2>4. CASE LzwHost /\ ~Release
    BY <2>4 DEF LzwHost, AwaitPacket, CopyIn, Run, ReadWhenFull, CheckTotal, Drain, DrainEnds,
                Finish, env
  <2>5. CASE Queue
    BY <2>5 DEF Queue, Write, Exec, Read, env
  <2> QED
    BY <2>1, <2>2, <2>3, <2>4, <2>5 DEF Next
<1> QED
  BY <1>1, <1>2, Invariance, PTL DEF Spec, KeepsFeed, Feed!Spec

=============================================================================
