------------------------ MODULE KernelDataflowProofs ------------------------
(***************************************************************************)
(* Proofs about KernelDataflow: what the kernel writes for a packet, for any  *)
(* number and sizes of chunks, depths of the streams and speeds of the four    *)
(* functions.                                                              *)
(*                                                                         *)
(* Between a function that writes a stream and the one that reads it there     *)
(* are only two counts for each chunk: what was put and what was taken.  Holds  *)
(* says that they tell what is in the stream, and in what order; each          *)
(* function's part of the invariant says how its own counts follow from where   *)
(* it is.                                                                  *)
(***************************************************************************)
EXTENDS KernelDataflow, Basics, SequenceTheorems, TLAPS

-----------------------------------------------------------------------------
(* The inductive invariant *)

(* What is read from each stream. *)
Values(s) == IF s \in {"uniques_1", "uniques_2", "uniques_3"} THEN BOOLEAN ELSE Int
Element(s) == [is : Values(s), of : Chunks, nth : Nat]

LoadPcs   == {"boundaries_1", "uniques_1", "head_1", "input", "done"}
EncodePcs == {"boundaries_1", "uniques_1", "head_1", "uniques_2", "head_2", "first", "input",
              "flag", "code", "end", "done"}
PackPcs   == {"uniques_2", "head_2", "uniques_3", "head_3", "flag", "code", "byteflag", "byte",
              "padflag", "pad", "end", "done"}
StorePcs  == {"uniques_3", "head_3", "flag", "byte", "done"}
Places    == 1 .. num_chunks + 1

PacketOK ==
  /\ num_chunks \in Nat
  /\ chunk_bndry \in [Chunks -> Nat]
  /\ is_unique \in [Chunks -> BOOLEAN]
  /\ \A c \in Places : StartOf(c) \in Nat
  /\ \A c \in Chunks : SizeOf(c) \in Nat /\ SizeOf(c) >= 1

FlowOK ==
  /\ streams = [s \in Streams |-> streams[s]]
  /\ \A s \in Streams : streams[s] \in Seq(Element(s))
  /\ put \in [Streams -> [Chunks -> Nat]]
  /\ taken \in [Streams -> [Chunks -> Nat]]

FunctionsOK ==
  /\ load \in [pc : LoadPcs, chunk : Places, j : Nat]
  /\ encode \in [pc : EncodePcs, chunk : Places, bound : Int, last : Int, unique : BOOLEAN,
                 head : Int, left : Nat]
  /\ pack \in [pc : PackPcs, chunk : Places, unique : BOOLEAN, head : Int, code : Int,
               rem : Nat, left : Nat]
  /\ store \in [pc : StorePcs, chunk : Places, unique : BOOLEAN, head : Int,
                bytes : Seq(Element("bit_pack_out"))]
  /\ output \in Seq([header : Int, bytes : Seq(Element("bit_pack_out"))])

TypeOK == PacketOK /\ FlowOK /\ FunctionsOK

(* One element is before another. *)
Before(d, e) == d.of < e.of \/ (d.of = e.of /\ d.nth < e.nth)

(* A stream q of which lo[c] elements about chunk c of n were taken and hi[c]    *)
(* put has those between, chunk after chunk and each chunk's in order.           *)
Holds(q, lo, hi, n) ==
  /\ \A c \in 1 .. n : lo[c] <= hi[c]
  /\ \A i \in 1 .. Len(q) : lo[q[i].of] < q[i].nth /\ q[i].nth <= hi[q[i].of]
  /\ \A i, j \in 1 .. Len(q) : i < j => Before(q[i], q[j])
  /\ \A c \in 1 .. n : \A k \in lo[c] + 1 .. hi[c] :
       \E i \in 1 .. Len(q) : q[i].of = c /\ q[i].nth = k

Fifo == \A s \in Streams : Holds(streams[s], taken[s], put[s], num_chunks)

(* What the k-th element about chunk c says, when lzw_encode() is at chunk e,      *)
(* bit_pack() at chunk p, and h counts what was put.                           *)
What(s, c, k, first, bndry, uniq, e, p, h) ==
  CASE s = "boundaries_1" -> bndry
    [] s \in {"uniques_1", "uniques_2", "uniques_3"} -> uniq
    [] s \in {"head_1", "head_2", "head_3"} -> 2 * c + 1
    [] s = "input" -> first + k - 1
    [] s \in {"lzw_encode_out", "bit_pack_out"} -> c
    [] s = "lzw_encode_out_flag" -> IF c < e /\ k = h["lzw_encode_out"][c] + 1 THEN 0 ELSE 1
    [] s = "bit_pack_out_flag" -> IF c < p /\ k = h["bit_pack_out"][c] + 1 THEN 0 ELSE 1

Meant(s, c, k) ==
  What(s, c, k, StartOf(c), chunk_bndry[c], is_unique[c], encode.chunk, pack.chunk, put)

Meaning ==
  \A s \in Streams : \A i \in 1 .. Len(streams[s]) :
    streams[s][i].is = Meant(s, streams[s][i].of, streams[s][i].nth)

(* No function is ahead of the one before it. *)
Order ==
  /\ store.chunk <= pack.chunk
  /\ pack.chunk <= encode.chunk
  /\ encode.chunk <= load.chunk

(* A function that has left a chunk has taken all that there is about it. *)
Passed ==
  \A c \in Chunks :
    /\ c < encode.chunk => taken["input"][c] = put["input"][c]
    /\ c < pack.chunk   => /\ taken["lzw_encode_out"][c] = put["lzw_encode_out"][c]
                           /\ taken["lzw_encode_out_flag"][c] = put["lzw_encode_out_flag"][c]
    /\ c < store.chunk  => /\ taken["bit_pack_out"][c] = put["bit_pack_out"][c]
                           /\ taken["bit_pack_out_flag"][c] = put["bit_pack_out_flag"][c]

(* A flag of 1 has a code, or a byte, behind it. *)
Announced ==
  /\ pack.pc = "code" /\ pack.chunk < encode.chunk =>
       taken["lzw_encode_out"][pack.chunk] < sent(pack.chunk)
  /\ store.pc = "byte" /\ store.chunk < pack.chunk =>
       taken["bit_pack_out"][store.chunk] < made(store.chunk)

(* Of a bound, a kind or a header there is one for each chunk: f is past it when   *)
(* it has left the chunk or its step there, the last of steps.                  *)
Past(f, c, steps) == c < f.chunk \/ (c = f.chunk /\ f.pc \notin steps)

OnePut(s, f, steps)   == \A c \in Chunks : put[s][c] = IF Past(f, c, steps) THEN 1 ELSE 0
OneTaken(s, f, steps) == \A c \in Chunks : taken[s][c] = IF Past(f, c, steps) THEN 1 ELSE 0

LoadInv ==
  /\ load.pc = "done" <=> load.chunk = num_chunks + 1
  /\ OnePut("boundaries_1", load, {"boundaries_1"})
  /\ OnePut("uniques_1", load, {"boundaries_1", "uniques_1"})
  /\ OnePut("head_1", load, {"boundaries_1", "uniques_1", "head_1"})
  /\ load.pc # "input" => load.j = StartOf(load.chunk)
  /\ load.pc = "input" => is_unique[load.chunk] /\ load.j \in StartOf(load.chunk) .. chunk_bndry[load.chunk]
  /\ \A c \in Chunks :
       /\ c < load.chunk => put["input"][c] = IF is_unique[c] THEN SizeOf(c) ELSE 0
       /\ c = load.chunk => put["input"][c] = load.j - StartOf(c)
       /\ c > load.chunk => put["input"][c] = 0

Encoding == {"first", "input", "flag", "code", "end"}

(* What lzw_encode() has read of its chunk. *)
EncodeLocals ==
  /\ encode.pc = "done" <=> encode.chunk = num_chunks + 1
  /\ encode.last = StartOf(encode.chunk)
  /\ encode.pc \notin {"boundaries_1", "done"} => encode.bound = chunk_bndry[encode.chunk]
  /\ encode.pc \notin {"boundaries_1", "uniques_1", "done"} => encode.unique = is_unique[encode.chunk]
  /\ encode.pc \notin {"boundaries_1", "uniques_1", "head_1", "done"} =>
       encode.head = dup_chunk_head(encode.chunk)
  /\ encode.pc \in Encoding => is_unique[encode.chunk]

EncodeInfos ==
  /\ OneTaken("boundaries_1", encode, {"boundaries_1"})
  /\ OneTaken("uniques_1", encode, {"boundaries_1", "uniques_1"})
  /\ OneTaken("head_1", encode, {"boundaries_1", "uniques_1", "head_1"})
  /\ OnePut("uniques_2", encode, {"boundaries_1", "uniques_1", "head_1", "uniques_2"})
  /\ OnePut("head_2", encode, {"boundaries_1", "uniques_1", "head_1", "uniques_2", "head_2"})

(* The bytes taken of a chunk of size bytes, l of which are left to code. *)
Taken(l, size) == IF l = 0 THEN size ELSE size + 1 - l

(* The codes of the chunks before lzw_encode(), of those it has left, and of the    *)
(* one it is at.                                                           *)
EncodeAhead(c) ==
  c > encode.chunk \/ (c = encode.chunk /\ encode.pc \notin Encoding \ {"first"}) =>
    taken["input"][c] = 0 /\ sent(c) = 0 /\ put["lzw_encode_out_flag"][c] = 0

EncodeBehind(c) ==
  c < encode.chunk =>
    IF is_unique[c] THEN sent(c) <= SizeOf(c) /\ put["lzw_encode_out_flag"][c] = sent(c) + 1
                    ELSE sent(c) = 0 /\ put["lzw_encode_out_flag"][c] = 0

EncodeHere(c) ==
  /\ encode.pc = "first" => encode.left = SizeOf(c)
  /\ encode.pc \in Encoding \ {"first"} =>
       /\ encode.left <= SizeOf(c)
       /\ taken["input"][c] = Taken(encode.left, SizeOf(c))
       /\ put["lzw_encode_out_flag"][c] = sent(c) + (IF encode.pc = "code" THEN 1 ELSE 0)
       /\ sent(c) + (IF encode.pc \in {"flag", "code"} THEN 1 ELSE 0) + encode.left <= SizeOf(c)
       /\ encode.pc = "input" => encode.left >= 1
       /\ encode.pc = "end" => encode.left = 0

EncodeCodes ==
  /\ \A c \in Chunks : EncodeAhead(c) /\ EncodeBehind(c)
  /\ encode.pc # "done" => EncodeHere(encode.chunk)

EncodeInv == EncodeLocals /\ EncodeInfos /\ EncodeCodes

Packing == {"flag", "code", "byteflag", "byte", "padflag", "pad", "end"}

PackLocals ==
  /\ pack.pc = "done" <=> pack.chunk = num_chunks + 1
  /\ pack.pc \notin {"uniques_2", "done"} => pack.unique = is_unique[pack.chunk]
  /\ pack.pc \notin {"uniques_2", "head_2", "done"} => pack.head = dup_chunk_head(pack.chunk)
  /\ pack.pc \in Packing => is_unique[pack.chunk]

PackInfos ==
  /\ OneTaken("uniques_2", pack, {"uniques_2"})
  /\ OneTaken("head_2", pack, {"uniques_2", "head_2"})
  /\ OnePut("uniques_3", pack, {"uniques_2", "head_2", "uniques_3"})
  /\ OnePut("head_3", pack, {"uniques_2", "head_2", "uniques_3", "head_3"})

(* Whole bytes of t codes, and the bits beyond them. *)
Whole(t) == (t * CODE_LENGTH) \div BYTE_BITS
Rest(t)  == (t * CODE_LENGTH) % BYTE_BITS

(* The codes taken of a chunk, and the bytes made of them. *)
packed(c) == taken["lzw_encode_out"][c]

PackAhead(c) ==
  c > pack.chunk \/ (c = pack.chunk /\ pack.pc \notin Packing) =>
    /\ packed(c) = 0 /\ taken["lzw_encode_out_flag"][c] = 0
    /\ made(c) = 0 /\ put["bit_pack_out_flag"][c] = 0

PackBehind(c) ==
  c < pack.chunk =>
    IF is_unique[c] THEN made(c) = PackedSize(sent(c)) /\ put["bit_pack_out_flag"][c] = made(c) + 1
                    ELSE made(c) = 0 /\ put["bit_pack_out_flag"][c] = 0

PackHere(c, t) ==
  pack.pc \in Packing =>
    /\ taken["lzw_encode_out_flag"][c] = t + (IF pack.pc \in {"code", "padflag", "pad", "end"} THEN 1 ELSE 0)
    /\ put["bit_pack_out_flag"][c] = made(c) + (IF pack.pc \in {"byte", "pad"} THEN 1 ELSE 0)
    /\ pack.pc # "end" => pack.rem = Rest(t)
    /\ pack.pc \in {"flag", "code", "padflag", "pad"} => made(c) = Whole(t)
    /\ pack.pc \in {"byteflag", "byte"} => made(c) + pack.left = Whole(t) /\ pack.left >= 1
    /\ pack.pc \in {"padflag", "pad"} => pack.rem # 0
    /\ pack.pc \in {"padflag", "pad", "end"} => c < encode.chunk /\ t = sent(c)
    /\ pack.pc = "end" => made(c) = PackedSize(t)
    /\ t # 0 => pack.code = c

PackBytes ==
  /\ \A c \in Chunks : PackAhead(c) /\ PackBehind(c)
  /\ pack.pc # "done" => PackHere(pack.chunk, packed(pack.chunk))

PackInv == PackLocals /\ PackInfos /\ PackBytes

Storing == {"flag", "byte"}

StoreLocals ==
  /\ store.pc = "done" <=> store.chunk = num_chunks + 1
  /\ store.pc \notin {"uniques_3", "done"} => store.unique = is_unique[store.chunk]
  /\ store.pc \in Storing => is_unique[store.chunk]

StoreInfos ==
  /\ OneTaken("uniques_3", store, {"uniques_3"})
  /\ OneTaken("head_3", store, {"uniques_3", "head_3"})

(* Bytes of chunk c. *)
BytesOf(c, n) == [k \in 1 .. n |-> [is |-> c, of |-> c, nth |-> k]]

StoreBytes ==
  /\ Len(output) = store.chunk - 1
  /\ store.bytes = BytesOf(store.chunk, Len(store.bytes))
  /\ store.pc \notin Storing => Len(store.bytes) = 0
  /\ \A c \in Chunks :
       /\ c > store.chunk => taken["bit_pack_out"][c] = 0 /\ taken["bit_pack_out_flag"][c] = 0
       /\ c = store.chunk =>
            /\ taken["bit_pack_out"][c] = Len(store.bytes)
            /\ taken["bit_pack_out_flag"][c] = Len(store.bytes) + (IF store.pc = "byte" THEN 1 ELSE 0)

StoreInv == StoreLocals /\ StoreInfos /\ StoreBytes

IInv ==
  /\ TypeOK /\ Fifo /\ Meaning
  /\ Order /\ Passed /\ Announced
  /\ LoadInv /\ EncodeInv /\ PackInv /\ StoreInv
  /\ OutputIsSequential

-----------------------------------------------------------------------------
(* Streams: the counts tell what is in them *)

(* Elements about the chunks 1 to n. *)
Elements(E, n) == \A e \in E : e.of \in 1 .. n /\ e.nth \in Nat

(* One more of one chunk. *)
LEMMA Counted ==
  ASSUME NEW n \in Nat, NEW f \in [1 .. n -> Nat], NEW d \in 1 .. n
  PROVE  LET up == [f EXCEPT ![d] = @ + 1]
         IN /\ up \in [1 .. n -> Nat]
            /\ up[d] = f[d] + 1
            /\ \A c \in 1 .. n : c # d => up[c] = f[c]
            /\ \A c \in 1 .. n : f[c] <= up[c] /\ f[c] \in Nat /\ up[c] \in Nat
  OBVIOUS

(* Nothing was put about a chunk after d. *)
Newest(hi, d, n) == \A c \in 1 .. n : c > d => hi[c] = 0

(* Another element about the last chunk that anything was put for. *)
LEMMA PutKeeps ==
  ASSUME NEW n \in Nat, NEW E, Elements(E, n), NEW q \in Seq(E),
         NEW lo \in [1 .. n -> Nat], NEW hi \in [1 .. n -> Nat], Holds(q, lo, hi, n),
         NEW d \in 1 .. n, Newest(hi, d, n),
         NEW e \in E, e.of = d, e.nth = hi[d] + 1,
         NEW p, p = Append(q, e), NEW up, up = [hi EXCEPT ![d] = @ + 1]
  PROVE  Holds(p, lo, up, n)
<1>1. p \in Seq(E) /\ Len(p) = Len(q) + 1 /\ Len(q) \in Nat
  BY AppendProperties, LenProperties
<1>0. \A i \in 1 .. Len(p) : i \in 1 .. Len(q) \/ i = Len(q) + 1
  BY <1>1
<1>2. \A i \in 1 .. Len(q) : p[i] = q[i]
  BY AppendProperties
<1>3. p[Len(q) + 1] = e
  BY AppendProperties
<1>4. /\ up \in [1 .. n -> Nat]
      /\ up[d] = hi[d] + 1
      /\ \A c \in 1 .. n : c # d => up[c] = hi[c]
      /\ \A c \in 1 .. n : hi[c] <= up[c] /\ hi[c] \in Nat /\ up[c] \in Nat
  BY Counted
<1>5. \A i \in 1 .. Len(q) : q[i].of \in 1 .. n /\ q[i].nth \in Nat
  BY ElementOfSeq DEF Elements
<1>6. \A c \in 1 .. n : lo[c] <= up[c]
  <2> TAKE c \in 1 .. n
  <2>1. lo[c] <= hi[c] /\ lo[c] \in Nat
    BY DEF Holds
  <2>2. hi[c] <= up[c] /\ hi[c] \in Nat /\ up[c] \in Nat
    BY <1>4
  <2> QED
    BY <2>1, <2>2
<1>7. \A i \in 1 .. Len(p) : lo[p[i].of] < p[i].nth /\ p[i].nth <= up[p[i].of]
  <2> TAKE i \in 1 .. Len(p)
  <2>1. CASE i \in 1 .. Len(q)
    <3>1. p[i] = q[i] /\ q[i].of \in 1 .. n /\ q[i].nth \in Nat
      BY <2>1, <1>2, <1>5
    <3>2. lo[q[i].of] < q[i].nth /\ q[i].nth <= hi[q[i].of]
      BY <2>1 DEF Holds
    <3>3. hi[q[i].of] <= up[q[i].of] /\ hi[q[i].of] \in Nat /\ up[q[i].of] \in Nat
      BY <3>1, <1>4
    <3>4. q[i].nth <= up[q[i].of]
      BY <3>1, <3>2, <3>3
    <3> QED
      BY <3>1, <3>2, <3>4
  <2>2. CASE i = Len(q) + 1
    BY <2>2, <1>3, <1>4 DEF Holds
  <2> QED
    BY <2>1, <2>2, <1>0
<1>8. \A i, j \in 1 .. Len(p) : i < j => Before(p[i], p[j])
  <2> SUFFICES ASSUME NEW i \in 1 .. Len(p), NEW j \in 1 .. Len(p), i < j
               PROVE  Before(p[i], p[j])
    OBVIOUS
  <2>1. CASE j \in 1 .. Len(q)
    <3>1. i \in 1 .. Len(q)
      BY <2>1
    <3>2. Before(q[i], q[j])
      BY <2>1, <3>1 DEF Holds
    <3> QED
      BY <2>1, <3>1, <3>2, <1>2
  <2>2. CASE j = Len(q) + 1
    <3>0. i \in 1 .. Len(q)
      BY <2>2, <1>1
    <3>1. i \in 1 .. Len(q) /\ p[i] = q[i] /\ p[j] = e
      BY <2>2, <3>0, <1>2, <1>3
    <3>2. q[i].of \in 1 .. n /\ q[i].nth \in Nat /\ lo[q[i].of] < q[i].nth /\ q[i].nth <= hi[q[i].of]
      BY <3>1, <1>5 DEF Holds
    <3>3. q[i].of <= d
      <4> SUFFICES ASSUME q[i].of > d PROVE FALSE
        BY <3>2
      <4>1. hi[q[i].of] = 0 /\ lo[q[i].of] \in Nat
        BY <3>2 DEF Newest
      <4> QED
        BY <4>1, <3>2
    <3>4. Before(q[i], e)
      <4>1. CASE q[i].of < d
        BY <4>1 DEF Before
      <4>2. CASE q[i].of = d
        <5>1. q[i].nth < hi[d] + 1
          BY <3>2, <4>2
        <5> QED
          BY <5>1, <4>2 DEF Before
      <4> QED
        BY <3>2, <3>3, <4>1, <4>2
    <3> QED
      BY <3>1, <3>4
  <2> QED
    BY <2>1, <2>2, <1>0
<1>9. \A c \in 1 .. n : \A k \in lo[c] + 1 .. up[c] : \E i \in 1 .. Len(p) : p[i].of = c /\ p[i].nth = k
  <2> SUFFICES ASSUME NEW c \in 1 .. n, NEW k \in lo[c] + 1 .. up[c]
               PROVE  \E i \in 1 .. Len(p) : p[i].of = c /\ p[i].nth = k
    OBVIOUS
  <2>1. CASE k \in lo[c] + 1 .. hi[c]
    <3>1. PICK i \in 1 .. Len(q) : q[i].of = c /\ q[i].nth = k
      BY <2>1 DEF Holds
    <3>2. i \in 1 .. Len(p) /\ p[i] = q[i]
      BY <1>1, <1>2
    <3> QED
      BY <3>1, <3>2
  <2>2. CASE k \notin lo[c] + 1 .. hi[c]
    <3>0. lo[c] \in Nat /\ hi[c] \in Nat /\ lo[c] <= hi[c]
      BY DEF Holds
    <3>1. c = d /\ k = hi[d] + 1
      BY <2>2, <1>4, <3>0
    <3>2. Len(q) + 1 \in 1 .. Len(p)
      BY <1>1
    <3> QED
      BY <3>1, <3>2, <1>3
  <2> QED
    BY <2>1, <2>2
<1>10. Holds(p, lo, up, n)
  BY <1>6, <1>7, <1>8, <1>9 DEF Holds
<1> QED
  BY <1>10

(* Nothing is left about a chunk before d, and something about d if it is about a    *)
(* later one.                                                              *)
Oldest(lo, hi, d, n) ==
  /\ \A c \in 1 .. n : c < d => lo[c] = hi[c]
  /\ \A c \in 1 .. n : c > d /\ lo[c] < hi[c] => lo[d] < hi[d]

(* What there is when the first element of q, which is about chunk d, is taken. *)
FirstTaken(q, lo, hi, d, n) ==
  /\ Head(q).of = d /\ Head(q).nth = lo[d] + 1 /\ lo[d] < hi[d]
  /\ Holds(Tail(q), [lo EXCEPT ![d] = @ + 1], hi, n)

(* The first element is the next one about chunk d, when all about the chunks      *)
(* before it was taken and no later chunk is in the stream without it.           *)
LEMMA TakeKeeps ==
  ASSUME NEW n \in Nat, NEW E, Elements(E, n), NEW q \in Seq(E),
         NEW lo \in [1 .. n -> Nat], NEW hi \in [1 .. n -> Nat], Holds(q, lo, hi, n),
         q # << >>, NEW d \in 1 .. n, Oldest(lo, hi, d, n)
  PROVE  FirstTaken(q, lo, hi, d, n)
<1> DEFINE r == Tail(q)
           up == [lo EXCEPT ![d] = @ + 1]
<1>2. \A i \in 1 .. Len(q) : q[i].of \in 1 .. n /\ q[i].nth \in Nat
  BY ElementOfSeq DEF Elements
<1>3. /\ Head(q) = q[1] /\ 1 \in 1 .. Len(q) /\ Len(q) \in Nat
      /\ r \in Seq(E) /\ Len(r) = Len(q) - 1
      /\ \A i \in 1 .. Len(r) : r[i] = q[i + 1]
  BY HeadTailProperties, EmptySeq, LenProperties
<1> HIDE DEF r, up
<1>4. /\ up \in [1 .. n -> Nat]
      /\ up[d] = lo[d] + 1
      /\ \A c \in 1 .. n : c # d => up[c] = lo[c]
      /\ \A c \in 1 .. n : lo[c] <= up[c] /\ lo[c] \in Nat /\ up[c] \in Nat
  BY Counted DEF up
<1>5. /\ q[1].of \in 1 .. n /\ q[1].nth \in Nat
      /\ lo[q[1].of] < q[1].nth /\ q[1].nth <= hi[q[1].of]
  BY <1>2, <1>3 DEF Holds
<1>6. q[1].of >= d
  <2> SUFFICES ASSUME q[1].of < d PROVE FALSE
    BY <1>5
  <2>1. lo[q[1].of] = hi[q[1].of] /\ lo[q[1].of] \in Nat
    BY <1>5 DEF Oldest
  <2> QED
    BY <2>1, <1>5
<1>7. lo[d] < hi[d]
  <2>1. lo[q[1].of] < hi[q[1].of]
    BY <1>5
  <2>2. CASE q[1].of = d
    BY <2>1, <2>2
  <2>3. CASE q[1].of > d
    BY <2>1, <2>3, <1>5 DEF Oldest
  <2> QED
    BY <2>2, <2>3, <1>5, <1>6
<1>8. PICK m \in 1 .. Len(q) : q[m].of = d /\ q[m].nth = lo[d] + 1
  <2>1. lo[d] + 1 \in lo[d] + 1 .. hi[d]
    BY <1>7
  <2> QED
    BY <2>1 DEF Holds
<1>9. m = 1
  <2> SUFFICES ASSUME m # 1 PROVE FALSE
    OBVIOUS
  <2>1. Before(q[1], q[m])
    BY <1>3 DEF Holds
  <2>2. q[1].of < d \/ (q[1].of = d /\ q[1].nth < lo[d] + 1)
    BY <2>1, <1>8 DEF Before
  <2>3. q[1].of = d /\ q[1].nth < lo[d] + 1
    BY <2>2, <1>5, <1>6
  <2> QED
    BY <2>3, <1>5
<1>10. \A i \in 1 .. Len(r) : i + 1 \in 1 .. Len(q) /\ i + 1 > 1
  BY <1>3
<1>11. \A c \in 1 .. n : up[c] <= hi[c]
  <2> TAKE c \in 1 .. n
  <2>1. lo[c] <= hi[c] /\ lo[c] \in Nat /\ hi[c] \in Nat
    BY DEF Holds
  <2>2. CASE c = d
    BY <2>2, <1>4, <1>7
  <2>3. CASE c # d
    BY <2>1, <2>3, <1>4
  <2> QED
    BY <2>2, <2>3
<1>12. \A i \in 1 .. Len(r) : up[r[i].of] < r[i].nth /\ r[i].nth <= hi[r[i].of]
  <2> TAKE i \in 1 .. Len(r)
  <2>1. r[i] = q[i + 1] /\ i + 1 \in 1 .. Len(q)
    BY <1>3, <1>10
  <2>2. /\ q[i + 1].of \in 1 .. n /\ q[i + 1].nth \in Nat
        /\ lo[q[i + 1].of] < q[i + 1].nth /\ q[i + 1].nth <= hi[q[i + 1].of]
    BY <2>1, <1>2 DEF Holds
  <2>3. Before(q[1], q[i + 1])
    BY <2>1, <1>3, <1>10 DEF Holds
  <2>4. q[i + 1].of = d => q[i + 1].nth > lo[d] + 1
    BY <2>3, <1>8, <1>9 DEF Before
  <2>5. CASE q[i + 1].of = d
    BY <2>1, <2>2, <2>4, <2>5, <1>4
  <2>6. CASE q[i + 1].of # d
    BY <2>1, <2>2, <2>6, <1>4
  <2> QED
    BY <2>5, <2>6
<1>13. \A i, j \in 1 .. Len(r) : i < j => Before(r[i], r[j])
  <2> SUFFICES ASSUME NEW i \in 1 .. Len(r), NEW j \in 1 .. Len(r), i < j
               PROVE  Before(r[i], r[j])
    OBVIOUS
  <2>1. i + 1 \in 1 .. Len(q) /\ j + 1 \in 1 .. Len(q) /\ i + 1 < j + 1
    BY <1>10
  <2>2. Before(q[i + 1], q[j + 1])
    BY <2>1 DEF Holds
  <2> QED
    BY <2>2, <1>3
<1>14. \A c \in 1 .. n : \A k \in up[c] + 1 .. hi[c] : \E i \in 1 .. Len(r) : r[i].of = c /\ r[i].nth = k
  <2> SUFFICES ASSUME NEW c \in 1 .. n, NEW k \in up[c] + 1 .. hi[c]
               PROVE  \E i \in 1 .. Len(r) : r[i].of = c /\ r[i].nth = k
    OBVIOUS
  <2>1. k \in lo[c] + 1 .. hi[c] /\ ~ (c = d /\ k = lo[d] + 1)
    BY <1>4
  <2>2. PICK i \in 1 .. Len(q) : q[i].of = c /\ q[i].nth = k
    BY <2>1 DEF Holds
  <2>3. i # 1
    BY <2>1, <2>2, <1>8, <1>9
  <2>4. i - 1 \in 1 .. Len(r) /\ (i - 1) + 1 = i
    BY <2>3, <1>3
  <2> QED
    BY <2>2, <2>4, <1>3
<1>15. Holds(r, up, hi, n)
  BY <1>11, <1>12, <1>13, <1>14 DEF Holds
<1> QED
  BY <1>3, <1>7, <1>8, <1>9, <1>15 DEF FirstTaken, r, up

-----------------------------------------------------------------------------
(* What a write and a read of a stream do to the counts *)

(* The elements of a stream are about chunks of the packet. *)
LEMMA ElementsOfStream ==
  ASSUME PacketOK, NEW s \in Streams
  PROVE  Chunks = 1 .. num_chunks /\ Elements(Element(s), num_chunks)
  BY DEF PacketOK, Element, Elements, Chunks

(* What the elements already put say is not changed by a step. *)
MeantKept ==
  \A x \in Streams, c \in Chunks, m \in Nat :
    m >= 1 /\ m <= put[x][c] => Meant(x, c, m)' = Meant(x, c, m)

(* A write by a function that is at chunk d when nothing was put for a later one. *)
LEMMA PutStep ==
  ASSUME PacketOK, FlowOK, Fifo, Meaning, UNCHANGED packet, MeantKept,
         NEW s \in Streams, NEW d \in Chunks, NEW v \in Values(s), Put(s, d, v),
         \A c \in Chunks : c > d => put[s][c] = 0,
         NEW k \in Nat, k = put[s][d] + 1, v = Meant(s, d, k)'
  PROVE  /\ FlowOK' /\ Fifo' /\ Meaning'
         /\ taken' = taken
         /\ put'[s][d] = put[s][d] + 1
         /\ \A c \in Chunks : c # d => put'[s][c] = put[s][c]
         /\ \A x \in Streams : x # s => put'[x] = put[x] /\ streams'[x] = streams[x]
<1> DEFINE q == streams[s]
           E == Element(s)
           lo == taken[s]
           hi == put[s]
           e == [is |-> v, of |-> d, nth |-> k]
           n == num_chunks
           p == Append(q, e)
           up == [hi EXCEPT ![d] = @ + 1]
<1>1. /\ num_chunks' = num_chunks /\ Chunks' = Chunks /\ Chunks = 1 .. n /\ n \in Nat
      /\ Elements(E, n)
  BY ElementsOfStream DEF packet, num_chunks, Chunks, PacketOK
<1>2. \A x \in Streams : Element(x)' = Element(x)
  BY <1>1 DEF Element, Values
<1>3. q \in Seq(E) /\ lo \in [1 .. n -> Nat] /\ hi \in [1 .. n -> Nat] /\ Holds(q, lo, hi, n)
  BY <1>1 DEF FlowOK, Fifo
<1>4. e \in E /\ e.of = d /\ e.nth = hi[d] + 1 /\ e.is = v
  BY <1>3 DEF Element
<1>5. /\ streams' = [streams EXCEPT ![s] = p]
      /\ put' = [put EXCEPT ![s] = up]
      /\ taken' = taken
  BY DEF Put
<1>6. Newest(hi, d, n)
  BY <1>1 DEF Newest
<1>0. d \in 1 .. n
  BY <1>1
<1>p. p = Append(q, e)
  OBVIOUS
<1>u. up = [hi EXCEPT ![d] = @ + 1]
  OBVIOUS
<1> HIDE DEF e, E, lo, hi, q, n, p, up
<1>7. /\ p \in Seq(E) /\ Len(p) = Len(q) + 1
      /\ \A i \in 1 .. Len(q) : p[i] = q[i]
      /\ p[Len(q) + 1] = e
      /\ Holds(p, lo, up, n)
  <2>1. n \in Nat /\ Elements(E, n)
    BY <1>1
  <2>2. e \in E /\ e.of = d /\ e.nth = hi[d] + 1
    BY <1>4
  <2>3. Holds(p, lo, up, n)
    BY <1>0, <2>1, <1>3, <2>2, <1>6, <1>p, <1>u, PutKeeps
  <2> QED
    BY <2>3, <1>3, <2>2, <1>p, AppendProperties
<1>8. up \in [Chunks -> Nat] /\ up[d] = hi[d] + 1 /\ \A c \in Chunks : c # d => up[c] = hi[c]
  BY <1>1, <1>3, Counted DEF up
<1>9. /\ streams'[s] = p /\ put'[s] = up
      /\ \A x \in Streams : x # s => streams'[x] = streams[x] /\ put'[x] = put[x]
  BY <1>5 DEF FlowOK
<1>10. FlowOK'
  <2>1. streams' = [x \in Streams |-> streams'[x]]
    BY <1>5 DEF FlowOK
  <2>2. \A x \in Streams : streams'[x] \in Seq(Element(x)')
    <3> TAKE x \in Streams
    <3>1. CASE x = s
      BY <3>1, <1>2, <1>7, <1>9 DEF E
    <3>2. CASE x # s
      BY <3>2, <1>2, <1>9 DEF FlowOK
    <3> QED
      BY <3>1, <3>2
  <2>3. put' \in [Streams -> [Chunks -> Nat]]
    BY <1>5, <1>8 DEF FlowOK
  <2> QED
    BY <2>1, <2>2, <2>3, <1>1, <1>5 DEF FlowOK
<1>11. Fifo'
  <2> SUFFICES ASSUME NEW x \in Streams PROVE Holds(streams'[x], taken'[x], put'[x], num_chunks')
    BY DEF Fifo
  <2>1. CASE x = s
    BY <2>1, <1>1, <1>5, <1>7, <1>9 DEF n, lo
  <2>2. CASE x # s
    BY <2>2, <1>1, <1>5, <1>9 DEF Fifo
  <2> QED
    BY <2>1, <2>2
<1>12. Meaning'
  <2> SUFFICES ASSUME NEW x \in Streams, NEW i \in 1 .. Len(streams'[x]), NEW a, a = streams'[x][i]
               PROVE  a.is = Meant(x, a.of, a.nth)'
    BY DEF Meaning
  <2>1. CASE x # s \/ i \in 1 .. Len(q)
    <3>1. i \in 1 .. Len(streams[x]) /\ a = streams[x][i]
      BY <2>1, <1>7, <1>9 DEF q
    <3>2. streams[x] \in Seq(Element(x)) /\ a \in Element(x)
      BY <3>1, ElementOfSeq DEF FlowOK
    <3>3. PICK c \in Chunks, m \in Nat : c = a.of /\ m = a.nth
      BY <3>2 DEF Element
    <3>4. taken[x][c] < m /\ m <= put[x][c] /\ taken[x][c] \in Nat
      BY <3>1, <3>3 DEF Fifo, Holds, FlowOK
    <3>5. a.is = Meant(x, c, m)
      BY <3>1, <3>3 DEF Meaning
    <3>6. Meant(x, c, m)' = Meant(x, c, m)
      BY <3>4 DEF MeantKept
    <3> QED
      BY <3>3, <3>5, <3>6
  <2>2. CASE x = s /\ i = Len(q) + 1
    <3>1. a = e
      BY <2>2, <1>7, <1>9
    <3> QED
      BY <3>1, <2>2, <1>4 DEF e
  <2>3. x # s \/ i \in 1 .. Len(q) \/ i = Len(q) + 1
    <3>1. Len(q) \in Nat
      BY <1>3, LenProperties
    <3> QED
      BY <3>1, <1>7, <1>9
  <2> QED
    BY <2>1, <2>2, <2>3
<1> QED
  BY <1>5, <1>8, <1>9, <1>10, <1>11, <1>12 DEF hi

(* A read by a function that is at chunk d, has taken all about the chunks before   *)
(* it, and meets no later chunk as long as it is due anything about d.             *)
LEMMA TakeStep ==
  ASSUME PacketOK, FlowOK, Fifo, Meaning, UNCHANGED packet, MeantKept,
         NEW s \in Streams, NEW d \in Chunks, Take(s),
         \A c \in Chunks : c < d => taken[s][c] = put[s][c],
         \A c \in Chunks : c > d /\ taken[s][c] < put[s][c] => taken[s][d] < put[s][d]
  PROVE  /\ FlowOK' /\ Fifo' /\ Meaning'
         /\ put' = put
         /\ taken'[s][d] = taken[s][d] + 1 /\ taken[s][d] < put[s][d]
         /\ \A c \in Chunks : c # d => taken'[s][c] = taken[s][c]
         /\ \A x \in Streams : x # s => taken'[x] = taken[x] /\ streams'[x] = streams[x]
         /\ Head(streams[s]) \in Element(s) /\ Head(streams[s]).of = d
         /\ Head(streams[s]).nth = taken[s][d] + 1
         /\ Peek(s) = Meant(s, d, taken[s][d] + 1)
         /\ Peek(s) \in Values(s)
<1> DEFINE q == streams[s]
           E == Element(s)
           lo == taken[s]
           hi == put[s]
           n == num_chunks
           r == Tail(q)
           up == [lo EXCEPT ![d] = @ + 1]
<1>1. /\ num_chunks' = num_chunks /\ Chunks' = Chunks /\ Chunks = 1 .. n /\ n \in Nat
      /\ Elements(E, n)
  BY ElementsOfStream DEF packet, num_chunks, Chunks, PacketOK
<1>2. \A x \in Streams : Element(x)' = Element(x)
  BY <1>1 DEF Element, Values
<1>3. q \in Seq(E) /\ lo \in [1 .. n -> Nat] /\ hi \in [1 .. n -> Nat] /\ Holds(q, lo, hi, n)
  BY <1>1 DEF FlowOK, Fifo
<1>4. /\ streams' = [streams EXCEPT ![s] = r] /\ q # << >>
      /\ taken' = [taken EXCEPT ![s][Head(q).of] = @ + 1]
      /\ put' = put
  BY DEF Take
<1>5. Oldest(lo, hi, d, n)
  BY <1>1 DEF Oldest
<1>0. d \in 1 .. n
  BY <1>1
<1>r. r = Tail(q)
  OBVIOUS
<1>u. up = [lo EXCEPT ![d] = @ + 1]
  OBVIOUS
<1> HIDE DEF E, lo, hi, q, n, r, up
<1>6. /\ Head(q) = q[1] /\ 1 \in 1 .. Len(q)
      /\ Head(q).of = d /\ Head(q).nth = lo[d] + 1 /\ lo[d] < hi[d]
      /\ r \in Seq(E) /\ Len(r) = Len(q) - 1
      /\ \A i \in 1 .. Len(r) : i + 1 \in 1 .. Len(q) /\ r[i] = q[i + 1]
      /\ Holds(r, up, hi, n)
  <2>1. n \in Nat /\ Elements(E, n)
    BY <1>1
  <2>2. q # << >>
    BY <1>4
  <2>0. FirstTaken(q, lo, hi, d, n)
    BY <1>0, <2>1, <2>2, <1>3, <1>5, TakeKeeps
  <2>3. Holds(r, up, hi, n)
    BY <2>0, <1>r, <1>u DEF FirstTaken
  <2>4. Head(q).of = d /\ Head(q).nth = lo[d] + 1 /\ lo[d] < hi[d]
    BY <2>0 DEF FirstTaken
  <2>5. /\ Head(q) = q[1] /\ 1 \in 1 .. Len(q) /\ Len(q) \in Nat
        /\ r \in Seq(E) /\ Len(r) = Len(q) - 1
        /\ \A i \in 1 .. Len(r) : r[i] = q[i + 1]
    BY <1>3, <1>r, <2>2, HeadTailProperties, EmptySeq, LenProperties
  <2>6. \A i \in 1 .. Len(r) : i + 1 \in 1 .. Len(q)
    BY <2>5
  <2> QED
    BY <2>3, <2>4, <2>5, <2>6
<1>7. up \in [Chunks -> Nat] /\ up[d] = lo[d] + 1 /\ \A c \in Chunks : c # d => up[c] = lo[c]
  BY <1>1, <1>3, Counted DEF up
<1>8. taken' = [taken EXCEPT ![s] = up]
  BY <1>4, <1>6 DEF up, lo
<1>9. /\ streams'[s] = r /\ taken'[s] = up
      /\ \A x \in Streams : x # s => streams'[x] = streams[x] /\ taken'[x] = taken[x]
  BY <1>4, <1>8 DEF FlowOK
<1>10. FlowOK'
  <2>1. streams' = [x \in Streams |-> streams'[x]]
    BY <1>4 DEF FlowOK
  <2>2. \A x \in Streams : streams'[x] \in Seq(Element(x)')
    <3> TAKE x \in Streams
    <3>1. CASE x = s
      BY <3>1, <1>2, <1>6, <1>9 DEF E
    <3>2. CASE x # s
      BY <3>2, <1>2, <1>9 DEF FlowOK
    <3> QED
      BY <3>1, <3>2
  <2>3. taken' \in [Streams -> [Chunks -> Nat]]
    BY <1>7, <1>8 DEF FlowOK
  <2> QED
    BY <2>1, <2>2, <2>3, <1>1, <1>4 DEF FlowOK
<1>11. Fifo'
  <2> SUFFICES ASSUME NEW x \in Streams PROVE Holds(streams'[x], taken'[x], put'[x], num_chunks')
    BY DEF Fifo
  <2>1. CASE x = s
    BY <2>1, <1>1, <1>4, <1>6, <1>9 DEF n, hi
  <2>2. CASE x # s
    BY <2>2, <1>1, <1>4, <1>9 DEF Fifo
  <2> QED
    BY <2>1, <2>2
<1>12. ASSUME NEW x \in Streams, NEW i \in 1 .. Len(streams[x]), NEW a, a = streams[x][i]
       PROVE  /\ a.is = Meant(x, a.of, a.nth)
              /\ a.is = Meant(x, a.of, a.nth)'
  <2>2. streams[x] \in Seq(Element(x)) /\ a \in Element(x)
    BY <1>12, ElementOfSeq DEF FlowOK
  <2>3. PICK c \in Chunks, m \in Nat : c = a.of /\ m = a.nth
    BY <2>2 DEF Element
  <2>4. taken[x][c] < m /\ m <= put[x][c] /\ taken[x][c] \in Nat
    BY <1>12, <2>3 DEF Fifo, Holds, FlowOK
  <2>5. a.is = Meant(x, c, m)
    BY <1>12, <2>3 DEF Meaning
  <2>6. Meant(x, c, m)' = Meant(x, c, m)
    BY <2>4 DEF MeantKept
  <2> QED
    BY <2>3, <2>5, <2>6
<1>13. Meaning'
  <2> SUFFICES ASSUME NEW x \in Streams, NEW i \in 1 .. Len(streams'[x]), NEW a, a = streams'[x][i]
               PROVE  a.is = Meant(x, a.of, a.nth)'
    BY DEF Meaning
  <2>1. CASE x # s
    BY <2>1, <1>9, <1>12
  <2>2. CASE x = s
    <3>1. i + 1 \in 1 .. Len(streams[x]) /\ a = streams[x][i + 1]
      BY <2>2, <1>6, <1>9 DEF q
    <3> QED
      BY <3>1, <1>12
  <2> QED
    BY <2>1, <2>2
<1>14. /\ Head(q) \in E /\ Peek(s) = Head(q).is /\ Peek(s) \in Values(s)
       /\ Peek(s) = Meant(s, d, lo[d] + 1)
  <2>1. Head(q) \in E
    BY <1>3, <1>6, ElementOfSeq
  <2>2. Peek(s) = Head(q).is
    BY DEF Peek, q
  <2>3. PICK a : a = Head(q)
    OBVIOUS
  <2>4. a.is = Meant(s, a.of, a.nth)
    BY <2>3, <1>6, <1>12 DEF q
  <2> QED
    BY <2>1, <2>2, <2>3, <2>4, <1>6 DEF E, Element
<1> QED
  BY <1>4, <1>6, <1>7, <1>9, <1>10, <1>11, <1>13, <1>14 DEF hi, lo, q, E

-----------------------------------------------------------------------------
(* What a step of one function leaves of the others *)

(* The packet stays what it is. *)
LEMMA PacketKept ==
  ASSUME PacketOK, UNCHANGED packet
  PROVE  /\ PacketOK' /\ num_chunks' = num_chunks /\ Chunks' = Chunks /\ Places' = Places
         /\ chunk_bndry' = chunk_bndry /\ is_unique' = is_unique
         /\ \A c \in Places : StartOf(c)' = StartOf(c)
         /\ \A c \in Chunks : SizeOf(c)' = SizeOf(c) /\ StartOf(c)' = StartOf(c)
         /\ \A s \in Streams : Element(s)' = Element(s)
<1>1. chunk_bndry' = chunk_bndry /\ is_unique' = is_unique
  BY DEF packet
<1>2. num_chunks' = num_chunks /\ Chunks' = Chunks /\ Places' = Places
  BY <1>1 DEF num_chunks, Chunks, Places
<1>3. \A c \in Places : StartOf(c)' = StartOf(c)
  BY <1>1 DEF StartOf
<1>4. \A c \in Chunks : SizeOf(c)' = SizeOf(c) /\ StartOf(c)' = StartOf(c)
  BY <1>1 DEF SizeOf, StartOf
<1>5. \A s \in Streams : Element(s)' = Element(s)
  BY <1>2 DEF Element, Values
<1>6. PacketOK'
  <2>1. \A c \in Places' : StartOf(c)' \in Nat
    BY <1>2, <1>3 DEF PacketOK
  <2>2. \A c \in Chunks' : SizeOf(c)' \in Nat /\ SizeOf(c)' >= 1
    BY <1>2, <1>4 DEF PacketOK
  <2> QED
    BY <1>1, <1>2, <2>1, <2>2 DEF PacketOK
<1> QED
  BY <1>1, <1>2, <1>3, <1>4, <1>5, <1>6

(* A function that leaves a chunk has put as many flags as data, before the last    *)
(* flag; what was put about the chunks before stays.                            *)
LEMMA MeantKeeps ==
  ASSUME PacketOK, FlowOK, UNCHANGED packet,
         encode.chunk \in Nat, encode'.chunk \in Nat, pack.chunk \in Nat, pack'.chunk \in Nat,
         encode.chunk <= encode'.chunk, pack.chunk <= pack'.chunk,
         put' \in [Streams -> [Chunks -> Nat]],
         \A c \in Chunks : c < encode.chunk => sent(c)' = sent(c),
         \A c \in Chunks : c >= encode.chunk /\ c < encode'.chunk => put["lzw_encode_out_flag"][c] <= sent(c)',
         \A c \in Chunks : c < pack.chunk => made(c)' = made(c),
         \A c \in Chunks : c >= pack.chunk /\ c < pack'.chunk => put["bit_pack_out_flag"][c] <= made(c)'
  PROVE  MeantKept
<1> SUFFICES ASSUME NEW x \in Streams, NEW c \in Chunks, NEW m \in Nat, m >= 1, m <= put[x][c]
             PROVE  Meant(x, c, m)' = Meant(x, c, m)
  BY DEF MeantKept
<1>0. c \in Nat /\ c \in Places
  BY DEF PacketOK, Chunks, Places
<1>1. StartOf(c)' = StartOf(c) /\ chunk_bndry' = chunk_bndry /\ is_unique' = is_unique
  BY <1>0, PacketKept
<1>2. CASE x = "lzw_encode_out_flag"
  <2>1. sent(c) \in Nat /\ sent(c)' \in Nat /\ put[x][c] \in Nat
    BY DEF sent, FlowOK, Streams, LongStreams
  <2>2. (c < encode'.chunk /\ m = sent(c)' + 1) <=> (c < encode.chunk /\ m = sent(c) + 1)
    <3>1. CASE c < encode.chunk
      BY <3>1, <1>0
    <3>2. CASE ~ (c < encode.chunk)
      BY <3>2, <2>1, <1>0, <1>2
    <3> QED
      BY <3>1, <3>2
  <2> QED
    BY <2>2, <1>2 DEF Meant, What, sent
<1>3. CASE x = "bit_pack_out_flag"
  <2>1. made(c) \in Nat /\ made(c)' \in Nat /\ put[x][c] \in Nat
    BY DEF made, FlowOK, Streams, LongStreams
  <2>2. (c < pack'.chunk /\ m = made(c)' + 1) <=> (c < pack.chunk /\ m = made(c) + 1)
    <3>1. CASE c < pack.chunk
      BY <3>1, <1>0
    <3>2. CASE ~ (c < pack.chunk)
      BY <3>2, <2>1, <1>0, <1>3
    <3> QED
      BY <3>1, <3>2
  <2> QED
    BY <2>2, <1>3 DEF Meant, What, made
<1>4. CASE x \notin {"lzw_encode_out_flag", "bit_pack_out_flag"}
  BY <1>1, <1>4 DEF Meant, What, Streams, LongStreams, ShortStreams
<1> QED
  BY <1>2, <1>3, <1>4

LoadOut   == {"boundaries_1", "uniques_1", "head_1", "input"}
EncodeOut == {"uniques_2", "head_2", "lzw_encode_out", "lzw_encode_out_flag"}
PackOut   == {"uniques_3", "head_3", "bit_pack_out", "bit_pack_out_flag"}

(* Each stream is written by one function. *)
LEMMA StreamsSplit ==
  Streams = LoadOut \cup EncodeOut \cup PackOut
  BY DEF Streams, LongStreams, ShortStreams, LoadOut, EncodeOut, PackOut

(* load()'s part speaks of load and of what it put only. *)
LEMMA LoadFrame ==
  ASSUME PacketOK, UNCHANGED packet, UNCHANGED load, LoadInv,
         \A s \in LoadOut : put'[s] = put[s]
  PROVE  LoadInv'
<1>1. /\ num_chunks' = num_chunks /\ Chunks' = Chunks
      /\ chunk_bndry' = chunk_bndry /\ is_unique' = is_unique
      /\ \A c \in Chunks : SizeOf(c)' = SizeOf(c) /\ StartOf(c)' = StartOf(c)
  BY PacketKept
<1>2. StartOf(load.chunk)' = StartOf(load.chunk)
  BY <1>1 DEF StartOf
<1> QED
  BY <1>1, <1>2 DEF LoadInv, OnePut, Past, LoadOut

(* lzw_encode()'s part speaks of encode, of what it took and what it put. *)
EncodeIn == {"boundaries_1", "uniques_1", "head_1", "input"}

(* A step that leaves these alone keeps lzw_encode()'s part. *)
LEMMA EncodeFrame ==
  ASSUME PacketOK, UNCHANGED packet, UNCHANGED encode, encode.chunk \in Places, EncodeInv,
         \A s \in EncodeOut : put'[s] = put[s],
         \A s \in EncodeIn : taken'[s] = taken[s]
  PROVE  EncodeInv'
<1>1. /\ num_chunks' = num_chunks /\ Chunks' = Chunks
      /\ chunk_bndry' = chunk_bndry /\ is_unique' = is_unique
      /\ \A c \in Chunks : SizeOf(c)' = SizeOf(c)
  BY PacketKept
<1>2. StartOf(encode.chunk)' = StartOf(encode.chunk)
  BY <1>1 DEF StartOf
<1>3. EncodeLocals'
  BY <1>1, <1>2 DEF EncodeInv, EncodeLocals, dup_chunk_head
<1>4. EncodeInfos'
  BY <1>1 DEF EncodeInv, EncodeInfos, OnePut, OneTaken, Past, EncodeOut, EncodeIn
<1>5. EncodeCodes'
  <2>1. \A c \in Chunks : sent(c)' = sent(c)
    BY DEF sent, EncodeOut
  <2>2. /\ taken'["input"] = taken["input"]
        /\ put'["lzw_encode_out_flag"] = put["lzw_encode_out_flag"]
    BY DEF EncodeOut, EncodeIn
  <2>3. \A c \in Chunks : (EncodeAhead(c) /\ EncodeBehind(c))'
    BY <1>1, <2>1, <2>2 DEF EncodeInv, EncodeCodes, EncodeAhead, EncodeBehind
  <2>4. ASSUME encode.pc # "done" PROVE EncodeHere(encode.chunk)'
    <3>0. encode.chunk \in Chunks
      BY <2>4 DEF EncodeInv, EncodeLocals, Places, Chunks, PacketOK
    <3>1. PICK d \in Chunks : d = encode.chunk
      BY <3>0
    <3>2. EncodeHere(d)
      BY <2>4, <3>1 DEF EncodeInv, EncodeCodes
    <3>3. EncodeHere(d)'
      BY <1>1, <2>1, <2>2, <3>2 DEF EncodeHere
    <3> QED
      BY <3>1, <3>3
  <2> QED
    BY <1>1, <2>3, <2>4 DEF EncodeCodes
<1> QED
  BY <1>3, <1>4, <1>5 DEF EncodeInv

(* bit_pack()'s part speaks of the codes of the chunks that it has left, too, and   *)
(* of lzw_encode() being ahead. *)
PackIn == {"uniques_2", "head_2", "lzw_encode_out", "lzw_encode_out_flag"}

(* A step that leaves these alone, and lets lzw_encode() only go on, keeps            *)
(* bit_pack()'s part.                                                       *)
LEMMA PackFrame ==
  ASSUME PacketOK, UNCHANGED packet, UNCHANGED pack, PackInv,
         \A s \in PackOut : put'[s] = put[s],
         \A s \in PackIn : taken'[s] = taken[s],
         pack.chunk \in Places, encode.chunk \in Nat, encode'.chunk \in Nat,
         pack.chunk <= encode.chunk, encode.chunk <= encode'.chunk,
         \A c \in Chunks : c < encode.chunk => sent(c)' = sent(c)
  PROVE  PackInv'
<1>1. /\ num_chunks' = num_chunks /\ Chunks' = Chunks
      /\ chunk_bndry' = chunk_bndry /\ is_unique' = is_unique
      /\ (\A c \in Chunks : c \in Nat) /\ pack.chunk \in Nat
  <2>1. /\ num_chunks' = num_chunks /\ Chunks' = Chunks
        /\ chunk_bndry' = chunk_bndry /\ is_unique' = is_unique
    BY PacketKept
  <2>2. num_chunks \in Nat
    BY DEF PacketOK
  <2>3. (\A c \in Chunks : c \in Nat) /\ pack.chunk \in Nat
    BY <2>2 DEF Chunks, Places
  <2> QED
    BY <2>1, <2>3
<1>3. PackLocals'
  BY <1>1 DEF PackInv, PackLocals, dup_chunk_head
<1>4. PackInfos'
  BY <1>1 DEF PackInv, PackInfos, OnePut, OneTaken, Past, PackOut, PackIn
<1>5. PackBytes'
  <2>1. \A c \in Chunks : made(c)' = made(c) /\ packed(c)' = packed(c)
    BY DEF made, packed, PackOut, PackIn
  <2>2. /\ taken'["lzw_encode_out_flag"] = taken["lzw_encode_out_flag"]
        /\ put'["bit_pack_out_flag"] = put["bit_pack_out_flag"]
    BY DEF PackOut, PackIn
  <2>3. \A c \in Chunks : (PackAhead(c) /\ PackBehind(c))'
    <3> SUFFICES ASSUME NEW c \in Chunks PROVE PackAhead(c)' /\ PackBehind(c)'
      BY <1>1
    <3>1. PackAhead(c) /\ PackBehind(c)
      BY DEF PackInv, PackBytes
    <3>2. PackAhead(c)'
      BY <2>1, <2>2, <3>1 DEF PackAhead
    <3>3. PackBehind(c)'
      <4>1. c < pack.chunk => sent(c)' = sent(c)
        BY <1>1
      <4> QED
        BY <2>1, <2>2, <3>1, <4>1, <1>1 DEF PackBehind, PackedSize
    <3> QED
      BY <3>2, <3>3
  <2>4. ASSUME pack.pc # "done" PROVE PackHere(pack.chunk, packed(pack.chunk))'
    <3>0. pack.chunk \in Chunks
      BY <2>4 DEF PackInv, PackLocals, Places, Chunks, PacketOK
    <3>1. PICK d \in Chunks : d = pack.chunk
      BY <3>0
    <3>t. PICK t : t = packed(d)
      OBVIOUS
    <3>2. PackHere(d, t)
      BY <2>4, <3>1, <3>t DEF PackInv, PackBytes
    <3>3. packed(d)' = t
      BY <3>t, <2>1
    <3>4. d < encode.chunk => d < encode'.chunk /\ sent(d)' = sent(d)
      BY <1>1
    <3>5. PackHere(d, t)'
      BY <1>1, <2>1, <2>2, <3>2, <3>4 DEF PackHere, PackedSize, Whole, Rest
    <3> QED
      BY <3>1, <3>3, <3>5
  <2> QED
    BY <1>1, <2>3, <2>4 DEF PackBytes
<1> QED
  BY <1>3, <1>4, <1>5 DEF PackInv

(* store()'s part speaks of store, of what it took, and of the output. *)
StoreIn == {"uniques_3", "head_3", "bit_pack_out", "bit_pack_out_flag"}

(* A step that leaves these alone keeps store()'s part. *)
LEMMA StoreFrame ==
  ASSUME PacketOK, UNCHANGED packet, UNCHANGED <<store, output>>, StoreInv,
         \A s \in StoreIn : taken'[s] = taken[s]
  PROVE  StoreInv'
<1>1. num_chunks' = num_chunks /\ Chunks' = Chunks /\ is_unique' = is_unique
  BY PacketKept
<1>2. StoreLocals'
  BY <1>1 DEF StoreInv, StoreLocals
<1>3. StoreInfos'
  BY <1>1 DEF StoreInv, StoreInfos, OneTaken, Past, StoreIn
<1>4. StoreBytes'
  <2>1. /\ taken'["bit_pack_out"] = taken["bit_pack_out"]
        /\ taken'["bit_pack_out_flag"] = taken["bit_pack_out_flag"]
    BY DEF StoreIn
  <2> QED
    BY <1>1, <2>1 DEF StoreInv, StoreBytes, BytesOf
<1> QED
  BY <1>2, <1>3, <1>4 DEF StoreInv

(* What was written stays right: no more codes are sent for its chunks. *)
LEMMA OutputFrame ==
  ASSUME PacketOK, UNCHANGED packet, UNCHANGED output, OutputIsSequential,
         num_chunks \in Nat, Len(output) \in Nat,
         \A c \in Chunks : c <= Len(output) => sent(c)' = sent(c),
         Len(output) <= num_chunks
  PROVE  OutputIsSequential'
<1>1. is_unique' = is_unique /\ Chunks' = Chunks
  BY PacketKept
<1> SUFFICES ASSUME NEW c \in 1 .. Len(output)
             PROVE  IF is_unique[c]
                      THEN output[c] = [header |-> 2 * PackedSize(sent(c)'),
                                        bytes  |-> [k \in 1 .. PackedSize(sent(c)') |-> [is |-> c, of |-> c, nth |-> k]]]
                      ELSE output[c] = [header |-> dup_chunk_head(c), bytes |-> << >>]
  BY <1>1 DEF OutputIsSequential, PackedSize, dup_chunk_head
<1>2. sent(c)' = sent(c)
  BY DEF Chunks
<1> QED
  BY <1>2 DEF OutputIsSequential

-----------------------------------------------------------------------------
(* Steps, put together *)

Flows == FlowOK' /\ Fifo' /\ Meaning'

LoadType   == [pc : LoadPcs, chunk : Places, j : Nat]
EncodeType == [pc : EncodePcs, chunk : Places, bound : Int, last : Int, unique : BOOLEAN,
               head : Int, left : Nat]
PackType   == [pc : PackPcs, chunk : Places, unique : BOOLEAN, head : Int, code : Int,
               rem : Nat, left : Nat]

(* Places in the packet are numbers. *)
LEMMA Numbers ==
  ASSUME IInv
  PROVE  /\ PacketOK /\ FlowOK /\ FunctionsOK
         /\ num_chunks \in Nat /\ (\A c \in Chunks : c \in Nat /\ c \in Places)
         /\ load.chunk \in Nat /\ encode.chunk \in Nat /\ pack.chunk \in Nat /\ store.chunk \in Nat
         /\ load.chunk \in Places /\ encode.chunk \in Places /\ pack.chunk \in Places /\ store.chunk \in Places
         /\ store.chunk <= pack.chunk /\ pack.chunk <= encode.chunk /\ encode.chunk <= load.chunk
         /\ \A s \in Streams, c \in Chunks :
              put[s][c] \in Nat /\ taken[s][c] \in Nat /\ taken[s][c] <= put[s][c]
<1>1. PacketOK /\ FlowOK /\ FunctionsOK /\ num_chunks \in Nat
  BY DEF IInv, TypeOK, PacketOK
<1>2. \A c \in Chunks : c \in Nat /\ c \in Places
  BY <1>1 DEF Chunks, Places
<1>3. load.chunk \in Places /\ encode.chunk \in Places /\ pack.chunk \in Places /\ store.chunk \in Places
  BY <1>1 DEF FunctionsOK
<1>4. load.chunk \in Nat /\ encode.chunk \in Nat /\ pack.chunk \in Nat /\ store.chunk \in Nat
  BY <1>1, <1>3 DEF Places
<1>5. \A s \in Streams, c \in Chunks :
        put[s][c] \in Nat /\ taken[s][c] \in Nat /\ taken[s][c] <= put[s][c]
  BY <1>1 DEF FlowOK, IInv, Fifo, Holds, Chunks
<1> QED
  BY <1>1, <1>2, <1>3, <1>4, <1>5 DEF IInv, Order

(* The records' types when only one of the functions has moved. *)
LEMMA TypesKept ==
  ASSUME PacketOK, FunctionsOK, UNCHANGED packet
  PROVE  /\ UNCHANGED <<encode, pack, store, output>> /\ load' \in LoadType => FunctionsOK'
         /\ UNCHANGED <<load, pack, store, output>> /\ encode' \in EncodeType => FunctionsOK'
         /\ UNCHANGED <<load, encode, store, output>> /\ pack' \in PackType => FunctionsOK'
<1>1. Places' = Places /\ Element("bit_pack_out")' = Element("bit_pack_out")
  BY PacketKept DEF Streams, LongStreams
<1> QED
  BY <1>1 DEF FunctionsOK, LoadType, EncodeType, PackType

(* A step of load() that keeps load()'s part and puts what its elements mean keeps the    *)
(* whole invariant.                                                         *)
LEMMA ByLoad ==
  ASSUME IInv, UNCHANGED <<packet, encode, pack, store, output>>, Flows, LoadInv',
         taken' = taken, load' \in LoadType, load.chunk <= load'.chunk,
         \A s \in EncodeOut \cup PackOut : put'[s] = put[s],
         \A c \in Chunks : c < load.chunk => put'["input"][c] = put["input"][c]
  PROVE  IInv'
<1> USE DEF IInv
<1>1. TypeOK'
  BY TypesKept, Numbers, PacketKept DEF TypeOK, Flows
<1>2. Order'
  BY Numbers DEF Order, LoadType, Places
<1>3. Passed'
  BY Numbers, PacketKept DEF Passed, EncodeOut, PackOut
<1>4. Announced'
  BY DEF Announced, EncodeOut, PackOut, sent, made
<1>5. EncodeInv'
  BY Numbers, EncodeFrame
<1>6. PackInv'
  <2>1. \A c \in Chunks : sent(c)' = sent(c)
    BY DEF sent, EncodeOut
  <2> QED
    BY <2>1, Numbers, PackFrame
<1>7. StoreInv'
  BY Numbers, StoreFrame
<1>8. OutputIsSequential'
  <2>1. \A c \in Chunks : sent(c)' = sent(c)
    BY DEF sent, EncodeOut
  <2>2. Len(output) = store.chunk - 1
    BY DEF StoreInv, StoreBytes
  <2> QED
    BY <2>1, <2>2, Numbers, OutputFrame DEF Places
<1> QED
  BY <1>1, <1>2, <1>3, <1>4, <1>5, <1>6, <1>7, <1>8 DEF Flows

(* So does one of lzw_encode() that keeps its own part, and changes nothing about       *)
(* chunks it has left.                                                      *)
LEMMA ByEncode ==
  ASSUME IInv, UNCHANGED <<packet, load, pack, store, output>>, Flows, EncodeInv',
         encode' \in EncodeType, encode.chunk <= encode'.chunk, encode'.chunk <= load.chunk,
         \A s \in LoadOut \cup PackOut : put'[s] = put[s],
         \A s \in PackIn \cup StoreIn : taken'[s] = taken[s],
         \A c \in Chunks : c < encode.chunk => sent(c)' = sent(c),
         \A c \in Chunks : c < encode.chunk =>
            put'["lzw_encode_out_flag"][c] = put["lzw_encode_out_flag"][c],
         \A c \in Chunks : c < encode'.chunk => taken'["input"][c] = put["input"][c],
         \A c \in Chunks : c >= encode.chunk /\ c < encode'.chunk =>
            put["lzw_encode_out_flag"][c] <= sent(c)'
  PROVE  IInv'
<1> USE DEF IInv
<1>0. encode'.chunk \in Nat
  BY Numbers DEF EncodeType, Places
<1>1. TypeOK'
  BY TypesKept, Numbers, PacketKept DEF TypeOK, Flows
<1>2. Order'
  BY Numbers, <1>0 DEF Order
<1>3. Passed'
  <2> SUFFICES ASSUME NEW c \in Chunks
      PROVE /\ c < encode'.chunk => taken'["input"][c] = put'["input"][c]
            /\ c < pack.chunk   => /\ taken'["lzw_encode_out"][c] = put'["lzw_encode_out"][c]
                                   /\ taken'["lzw_encode_out_flag"][c] = put'["lzw_encode_out_flag"][c]
            /\ c < store.chunk  => /\ taken'["bit_pack_out"][c] = put'["bit_pack_out"][c]
                                   /\ taken'["bit_pack_out_flag"][c] = put'["bit_pack_out_flag"][c]
    BY Numbers, PacketKept DEF Passed
  <2>1. c < pack.chunk => c < encode.chunk
    BY Numbers
  <2>2. c < encode.chunk => put'["lzw_encode_out"][c] = put["lzw_encode_out"][c]
    BY DEF sent
  <2> QED
    BY <2>1, <2>2 DEF Passed, LoadOut, PackOut, PackIn, StoreIn
<1>4. Announced'
  <2>1. ASSUME pack.pc = "code", pack.chunk < encode'.chunk
        PROVE  taken["lzw_encode_out"][pack.chunk] < sent(pack.chunk)'
    <3>0. pack.chunk \in Chunks
      BY <2>1, Numbers DEF PackInv, PackLocals, Places, Chunks
    <3>1. PICK d \in Chunks : d = pack.chunk
      BY <3>0
    <3>2. taken["lzw_encode_out_flag"][d] = taken["lzw_encode_out"][d] + 1
      BY <2>1, <3>1 DEF PackInv, PackBytes, PackHere, packed, Packing
    <3>3. /\ taken["lzw_encode_out_flag"][d] <= put["lzw_encode_out_flag"][d]
          /\ taken["lzw_encode_out"][d] \in Nat /\ put["lzw_encode_out_flag"][d] \in Nat
      BY Numbers DEF Streams, LongStreams, ShortStreams
    <3>4. sent(d)' \in Nat /\ sent(d) \in Nat
      BY PacketKept, Numbers DEF Flows, FlowOK, sent, Streams, LongStreams
    <3>5. CASE d < encode.chunk
      <4>1. taken["lzw_encode_out"][d] < sent(d)
        BY <2>1, <3>1, <3>5 DEF Announced
      <4> QED
        BY <4>1, <3>1, <3>5
    <3>6. CASE ~ (d < encode.chunk)
      <4>1. put["lzw_encode_out_flag"][d] <= sent(d)'
        BY <2>1, <3>1, <3>6, Numbers
      <4> QED
        BY <4>1, <3>1, <3>2, <3>3, <3>4
    <3> QED
      BY <3>5, <3>6
  <2> QED
    BY <2>1 DEF Announced, PackIn, StoreIn, PackOut, made
<1>5. LoadInv'
  BY Numbers, LoadFrame
<1>6. PackInv'
  BY <1>0, Numbers, PackFrame
<1>7. StoreInv'
  BY Numbers, StoreFrame
<1>8. OutputIsSequential'
  <2>1. Len(output) = store.chunk - 1
    BY DEF StoreInv, StoreBytes
  <2>2. \A c \in Chunks : c <= Len(output) => sent(c)' = sent(c)
    BY <2>1, Numbers
  <2> QED
    BY <2>1, <2>2, Numbers, OutputFrame DEF Places
<1> QED
  BY <1>1, <1>2, <1>3, <1>4, <1>5, <1>6, <1>7, <1>8 DEF Flows

(* So does one of bit_pack(). *)
LEMMA ByPack ==
  ASSUME IInv, UNCHANGED <<packet, load, encode, store, output>>, Flows, PackInv',
         pack' \in PackType, pack.chunk <= pack'.chunk, pack'.chunk <= encode.chunk,
         \A s \in LoadOut \cup EncodeOut : put'[s] = put[s],
         \A s \in EncodeIn \cup StoreIn : taken'[s] = taken[s],
         \A c \in Chunks : c < pack.chunk => made(c)' = made(c),
         \A c \in Chunks : c < pack.chunk =>
            put'["bit_pack_out_flag"][c] = put["bit_pack_out_flag"][c],
         \A c \in Chunks : c < pack'.chunk => packed(c)' = sent(c),
         \A c \in Chunks : c < pack'.chunk =>
            taken'["lzw_encode_out_flag"][c] = put["lzw_encode_out_flag"][c],
         \A c \in Chunks : c >= pack.chunk /\ c < pack'.chunk =>
            put["bit_pack_out_flag"][c] <= made(c)',
         pack'.pc = "code" /\ pack'.chunk < encode.chunk =>
            packed(pack.chunk)' < sent(pack.chunk)'
  PROVE  IInv'
<1> USE DEF IInv
<1>0. pack'.chunk \in Nat
  BY Numbers DEF PackType, Places
<1>1. TypeOK'
  BY TypesKept, Numbers, PacketKept DEF TypeOK, Flows
<1>2. Order'
  BY Numbers, <1>0 DEF Order
<1>3. Passed'
  <2> SUFFICES ASSUME NEW c \in Chunks
      PROVE /\ c < encode.chunk => taken'["input"][c] = put'["input"][c]
            /\ c < pack'.chunk   => /\ taken'["lzw_encode_out"][c] = put'["lzw_encode_out"][c]
                                    /\ taken'["lzw_encode_out_flag"][c] = put'["lzw_encode_out_flag"][c]
            /\ c < store.chunk  => /\ taken'["bit_pack_out"][c] = put'["bit_pack_out"][c]
                                   /\ taken'["bit_pack_out_flag"][c] = put'["bit_pack_out_flag"][c]
    BY Numbers, PacketKept DEF Passed
  <2>1. c < store.chunk => c < pack.chunk
    BY Numbers
  <2>2. c < pack.chunk => put'["bit_pack_out"][c] = put["bit_pack_out"][c]
    BY DEF made
  <2>3. c < pack'.chunk => taken'["lzw_encode_out"][c] = put["lzw_encode_out"][c]
    BY DEF packed, sent
  <2> QED
    BY <2>1, <2>2, <2>3 DEF Passed, LoadOut, EncodeOut, EncodeIn, StoreIn
<1>4. Announced'
  <2>1. ASSUME store.pc = "byte", store.chunk < pack'.chunk
        PROVE  taken["bit_pack_out"][store.chunk] < made(store.chunk)'
    <3>0. store.chunk \in Chunks
      BY <2>1, Numbers DEF StoreInv, StoreLocals, Places, Chunks
    <3>1. PICK d \in Chunks : d = store.chunk
      BY <3>0
    <3>2. taken["bit_pack_out_flag"][d] = taken["bit_pack_out"][d] + 1
      BY <2>1, <3>1 DEF StoreInv, StoreBytes
    <3>3. /\ taken["bit_pack_out_flag"][d] <= put["bit_pack_out_flag"][d]
          /\ taken["bit_pack_out"][d] \in Nat /\ put["bit_pack_out_flag"][d] \in Nat
      BY Numbers DEF Streams, LongStreams, ShortStreams
    <3>4. made(d)' \in Nat /\ made(d) \in Nat
      BY PacketKept, Numbers DEF Flows, FlowOK, made, Streams, LongStreams
    <3>5. CASE d < pack.chunk
      <4>1. taken["bit_pack_out"][d] < made(d)
        BY <2>1, <3>1, <3>5 DEF Announced
      <4> QED
        BY <4>1, <3>1, <3>5
    <3>6. CASE ~ (d < pack.chunk)
      <4>1. put["bit_pack_out_flag"][d] <= made(d)'
        BY <2>1, <3>1, <3>6, Numbers
      <4> QED
        BY <4>1, <3>1, <3>2, <3>3, <3>4
    <3> QED
      BY <3>5, <3>6
  <2> QED
    BY <2>1 DEF Announced, EncodeOut, StoreIn, sent, packed
<1>5. LoadInv'
  BY Numbers, LoadFrame
<1>6. EncodeInv'
  BY Numbers, EncodeFrame
<1>7. StoreInv'
  BY Numbers, StoreFrame
<1>8. OutputIsSequential'
  <2>1. Len(output) = store.chunk - 1
    BY DEF StoreInv, StoreBytes
  <2>2. \A c \in Chunks : sent(c)' = sent(c)
    BY DEF sent, EncodeOut
  <2> QED
    BY <2>1, <2>2, Numbers, OutputFrame DEF Places
<1> QED
  BY <1>1, <1>2, <1>3, <1>4, <1>5, <1>6, <1>7, <1>8 DEF Flows

(* So does one of store(), which writes no stream. *)
LEMMA ByStore ==
  ASSUME IInv, UNCHANGED <<packet, load, encode, pack>>, Flows, StoreInv',
         FunctionsOK', store.chunk <= store'.chunk, store'.chunk <= pack.chunk,
         put' = put, \A s \in EncodeIn \cup PackIn : taken'[s] = taken[s],
         \A c \in Chunks : c < store'.chunk =>
            /\ taken'["bit_pack_out"][c] = put["bit_pack_out"][c]
            /\ taken'["bit_pack_out_flag"][c] = put["bit_pack_out_flag"][c],
         store'.pc = "byte" /\ store'.chunk < pack.chunk =>
            taken'["bit_pack_out"][store'.chunk] < put["bit_pack_out"][store'.chunk],
         OutputIsSequential'
  PROVE  IInv'
<1> USE DEF IInv
<1>0. store'.chunk \in Nat
  <2>1. store'.chunk \in Places
    BY Numbers, PacketKept DEF FunctionsOK
  <2> QED
    BY <2>1, Numbers DEF Places
<1>1. TypeOK'
  BY Numbers, PacketKept DEF TypeOK, Flows
<1>2. Order'
  BY Numbers, <1>0 DEF Order
<1>3. Passed'
  BY Numbers, PacketKept DEF Passed, EncodeIn, PackIn
<1>4. Announced'
  BY DEF Announced, PackIn, sent, made
<1>5. LoadInv'
  BY Numbers, LoadFrame
<1>6. EncodeInv'
  BY Numbers, EncodeFrame
<1>7. PackInv'
  <2>1. \A c \in Chunks : sent(c)' = sent(c)
    BY DEF sent
  <2> QED
    BY <2>1, Numbers, PackFrame
<1> QED
  BY <1>1, <1>2, <1>3, <1>4, <1>5, <1>6, <1>7 DEF Flows

-----------------------------------------------------------------------------
(* load() *)

(* The counts after a write and after a read. *)
LEMMA CountTypes ==
  ASSUME PacketOK, FlowOK, UNCHANGED packet, NEW s \in Streams, NEW d \in Chunks, NEW v, Put(s, d, v)
  PROVE  put' \in [Streams -> [Chunks -> Nat]]
  BY DEF FlowOK, Put

(* load() puts an element about its chunk that says what it means to.               *)
LEMMA LoadPuts ==
  ASSUME IInv, UNCHANGED <<packet, encode, pack, store, output>>,
         NEW s \in LoadOut, NEW d \in Chunks, d = load.chunk, NEW v \in Values(s), Put(s, d, v),
         NEW k \in Nat, k = put[s][d] + 1, v = Meant(s, d, k)
  PROVE  /\ Flows /\ taken' = taken
         /\ put'[s][d] = put[s][d] + 1
         /\ \A c \in Chunks : c # d => put'[s][c] = put[s][c]
         /\ \A x \in Streams : x # s => put'[x] = put[x]
<1>1. s \in Streams /\ s \notin EncodeOut \cup PackOut
  BY StreamsSplit DEF LoadOut, EncodeOut, PackOut
<1>2. put' \in [Streams -> [Chunks -> Nat]]
  BY <1>1, Numbers, CountTypes
<1>3. \A x \in Streams : x # s => put'[x] = put[x]
  BY <1>1, Numbers DEF Put, FlowOK
<1>4. \A c \in Chunks : sent(c)' = sent(c) /\ made(c)' = made(c)
  BY <1>1, <1>3 DEF sent, made, EncodeOut, PackOut, Streams, LongStreams
<1>5. MeantKept
  BY <1>2, <1>4, Numbers, MeantKeeps
<1>6. \A c \in Chunks : c > d => put[s][c] = 0
  BY Numbers DEF IInv, LoadInv, LoadOut, OnePut, Past
<1>7. v = Meant(s, d, k)'
  <2>1. StartOf(d)' = StartOf(d) /\ chunk_bndry' = chunk_bndry /\ is_unique' = is_unique
    BY Numbers, PacketKept
  <2> QED
    BY <2>1, <1>1 DEF Meant, What, EncodeOut, PackOut
<1> QED
  BY <1>1, <1>5, <1>6, <1>7, Numbers, PutStep DEF Flows, IInv

(* The first byte of the next chunk. *)
LEMMA NextStart ==
  ASSUME PacketOK, NEW d \in Chunks
  PROVE  /\ d + 1 \in Places /\ d \in Nat
         /\ StartOf(d + 1) = LastBoundary(chunk_bndry[d])
         /\ chunk_bndry[d] \in Nat /\ StartOf(d) \in Nat
         /\ SizeOf(d) = chunk_bndry[d] + 1 - StartOf(d)
         /\ StartOf(d) <= chunk_bndry[d]
         /\ AtChunk(d + 1, "x") = "done" <=> d + 1 = num_chunks + 1
<1>1. d \in Nat /\ num_chunks \in Nat /\ d + 1 \in Places /\ d \in Places
  BY DEF PacketOK, Chunks, Places
<1>2. chunk_bndry[d] \in Nat /\ StartOf(d) \in Nat /\ SizeOf(d) >= 1
  BY <1>1 DEF PacketOK
<1>3. SizeOf(d) = chunk_bndry[d] + 1 - StartOf(d)
  BY DEF SizeOf
<1>4. StartOf(d + 1) = LastBoundary(chunk_bndry[d])
  <2>1. d + 1 # 1 /\ (d + 1) - 1 = d
    BY <1>1 DEF Chunks
  <2> QED
    BY <2>1 DEF StartOf, LastBoundary
<1>5. AtChunk(d + 1, "x") = "done" <=> d + 1 = num_chunks + 1
  BY <1>1 DEF AtChunk, Chunks
<1> QED
  BY <1>1, <1>2, <1>3, <1>4, <1>5

(* One element for each chunk that a function is past. *)
OneEach(n, f, steps) == \A c \in Chunks : n[c] = IF Past(f, c, steps) THEN 1 ELSE 0

(* None of them before a function has done anything. *)
LEMMA NoneYet ==
  ASSUME PacketOK, NEW f, NEW steps, NEW n,
         f.chunk = 1, f.pc \in steps \/ 1 = num_chunks + 1, \A c \in Chunks : n[c] = 0
  PROVE  OneEach(n, f, steps)
<1>1. \A c \in Chunks : c \in Nat /\ c >= 1 /\ c <= num_chunks /\ num_chunks \in Nat
  BY DEF PacketOK, Chunks
<1> QED
  BY <1>1 DEF OneEach, Past

(* The counts of a stream of one element a chunk, when a function leaves chunk d    *)
(* with that chunk's behind it.                                             *)
LEMMA OneLeft ==
  ASSUME PacketOK, NEW d \in Chunks, NEW f, NEW g, NEW steps, NEW m, NEW n,
         f.chunk = d, g.chunk = d + 1, d + 1 \in Chunks => g.pc \in steps,
         OneEach(m, f, steps), \A c \in Chunks : c # d => n[c] = m[c], n[d] = 1
  PROVE  OneEach(n, g, steps)
<1> SUFFICES ASSUME NEW c \in Chunks
             PROVE  n[c] = IF Past(g, c, steps) THEN 1 ELSE 0
  BY DEF OneEach
<1>1. c \in Nat /\ d \in Nat
  BY DEF PacketOK, Chunks
<1>2. CASE c = d
  BY <1>1, <1>2 DEF Past
<1>3. CASE c # d
  <2>1. n[c] = IF Past(f, c, steps) THEN 1 ELSE 0
    BY <1>3 DEF OneEach
  <2>2. c < d + 1 <=> c < d
    BY <1>1, <1>3
  <2>3. c = d + 1 => g.pc \in steps
    OBVIOUS
  <2>4. Past(g, c, steps) <=> Past(f, c, steps)
    BY <1>1, <1>3, <2>2, <2>3 DEF Past
  <2> QED
    BY <2>1, <2>4
<1> QED
  BY <1>2, <1>3

(* Where a function is when it leaves a chunk. *)
LEMMA NextPlace ==
  ASSUME PacketOK, NEW d \in Chunks, NEW first, first # "done"
  PROVE  /\ AtChunk(d + 1, first) \in {first, "done"}
         /\ AtChunk(d + 1, first) = "done" <=> d + 1 = num_chunks + 1
         /\ d + 1 \in Chunks => AtChunk(d + 1, first) = first
<1>1. d \in Nat /\ num_chunks \in Nat /\ d <= num_chunks
  BY DEF PacketOK, Chunks
<1> QED
  BY <1>1 DEF AtChunk, Chunks

(* A step of load() that leaves its chunk only with everything put that there is. *)
LEMMA LoadMoves ==
  ASSUME IInv, UNCHANGED <<packet, encode, pack, store, output>>,
         NEW s \in LoadOut, NEW d \in Chunks, d = load.chunk, NEW v \in Values(s), Put(s, d, v),
         v = Meant(s, d, put[s][d] + 1), load' \in LoadType, load.chunk <= load'.chunk,
         /\ put'[s][d] = put[s][d] + 1
         /\ \A c \in Chunks : c # d => put'[s][c] = put[s][c]
         /\ \A x \in Streams : x # s => put'[x] = put[x]
         => LoadInv'
  PROVE  IInv'
<1>1. s \in Streams /\ s \notin EncodeOut \cup PackOut
  BY StreamsSplit DEF LoadOut, EncodeOut, PackOut
<1>2. PICK k \in Nat : k = put[s][d] + 1
  BY <1>1, Numbers
<1>3. /\ Flows /\ taken' = taken
      /\ put'[s][d] = put[s][d] + 1
      /\ \A c \in Chunks : c # d => put'[s][c] = put[s][c]
      /\ \A x \in Streams : x # s => put'[x] = put[x]
  BY <1>2, LoadPuts
<1>4. \A x \in EncodeOut \cup PackOut : put'[x] = put[x]
  BY <1>1, <1>3, StreamsSplit
<1>5. \A c \in Chunks : c < load.chunk => put'["input"][c] = put["input"][c]
  BY <1>3, Numbers DEF Streams, LongStreams
<1> QED
  BY <1>3, <1>4, <1>5, ByLoad

(* load() leaves a chunk: its bytes, if it has any to send, are all put. *)
LEMMA LoadLeaves ==
  ASSUME IInv, UNCHANGED packet, NEW d \in Chunks, d = load.chunk,
         load'.chunk = d + 1, load'.j = StartOf(d + 1), load'.pc = AtChunk(d + 1, "boundaries_1"),
         load.pc \in {"head_1", "input"},
         \A s \in {"boundaries_1", "uniques_1", "head_1", "input"} :
           \A c \in Chunks : c # d => put'[s][c] = put[s][c],
         \A s \in {"boundaries_1", "uniques_1"} : put'[s] = put[s],
         put'["head_1"][d] = IF load.pc = "head_1" THEN put["head_1"][d] + 1 ELSE put["head_1"][d],
         put'["input"][d] = IF is_unique[d] THEN SizeOf(d) ELSE 0
  PROVE  LoadInv'
<1>0. LoadInv /\ PacketOK /\ d \in Nat /\ num_chunks \in Nat
  BY Numbers DEF IInv
<1>1. /\ num_chunks' = num_chunks /\ Chunks' = Chunks
      /\ chunk_bndry' = chunk_bndry /\ is_unique' = is_unique
      /\ \A c \in Chunks : SizeOf(c)' = SizeOf(c) /\ StartOf(c)' = StartOf(c)
      /\ \A c \in Places : StartOf(c)' = StartOf(c)
  BY PacketKept, Numbers
<1>2. /\ load'.pc \in {"boundaries_1", "done"}
      /\ load'.pc = "done" <=> d + 1 = num_chunks + 1
      /\ d + 1 \in Chunks => load'.pc = "boundaries_1"
  BY <1>0, NextPlace
<1>3. StartOf(load.chunk)' = StartOf(d + 1)
  BY <1>0, <1>1, NextStart
<1>4. /\ OneEach(put["boundaries_1"], load, {"boundaries_1"})
      /\ OneEach(put["uniques_1"], load, {"boundaries_1", "uniques_1"})
      /\ OneEach(put["head_1"], load, {"boundaries_1", "uniques_1", "head_1"})
  BY <1>0 DEF LoadInv, OnePut, OneEach
<1>5. put'["boundaries_1"][d] = 1 /\ put'["uniques_1"][d] = 1 /\ put'["head_1"][d] = 1
  BY <1>0, <1>4 DEF OneEach, Past
<1>6. OneEach(put'["boundaries_1"], load', {"boundaries_1"})
  BY <1>0, <1>2, <1>4, <1>5, OneLeft
<1>7. OneEach(put'["uniques_1"], load', {"boundaries_1", "uniques_1"})
  BY <1>0, <1>2, <1>4, <1>5, OneLeft
<1>8. OneEach(put'["head_1"], load', {"boundaries_1", "uniques_1", "head_1"})
  BY <1>0, <1>2, <1>4, <1>5, OneLeft
<1>9. ASSUME NEW c \in Chunks
      PROVE  /\ c < d + 1 => put'["input"][c] = IF is_unique[c] THEN SizeOf(c) ELSE 0
             /\ c = d + 1 => put'["input"][c] = 0
             /\ c > d + 1 => put'["input"][c] = 0
  <2>1. c \in Nat
    BY Numbers
  <2>2. CASE c = d
    BY <1>0, <2>1, <2>2
  <2>3. CASE c # d
    <3>1. put'["input"][c] = put["input"][c]
      BY <2>3
    <3>2. c < d \/ c > d
      BY <1>0, <2>1, <2>3
    <3> QED
      BY <1>0, <2>1, <3>1, <3>2 DEF LoadInv
  <2> QED
    BY <2>2, <2>3
<1>a. load'.j - StartOf(load.chunk)' = 0
  BY <1>0, <1>3, NextStart DEF PacketOK
<1>b. /\ OnePut("boundaries_1", load, {"boundaries_1"})'
      /\ OnePut("uniques_1", load, {"boundaries_1", "uniques_1"})'
      /\ OnePut("head_1", load, {"boundaries_1", "uniques_1", "head_1"})'
  BY <1>1, <1>6, <1>7, <1>8 DEF OnePut, OneEach, Past
<1>c. ASSUME NEW c \in Chunks
      PROVE  /\ c < load'.chunk => put'["input"][c] = IF is_unique'[c] THEN SizeOf(c)' ELSE 0
             /\ c = load'.chunk => put'["input"][c] = load'.j - StartOf(c)'
             /\ c > load'.chunk => put'["input"][c] = 0
  <2>1. c = load'.chunk => load'.j - StartOf(c)' = 0
    BY <1>1, <1>3, <1>a
  <2> QED
    BY <1>1, <1>9, <2>1
<1> QED
  BY <1>1, <1>2, <1>3, <1>b, <1>c DEF LoadInv

(* load() writes a bound, a kind or a header. *)
LEMMA LoadInfoStep ==
  ASSUME IInv, LoadInfo, UNCHANGED <<packet, encode, pack, store, output>>
  PROVE  IInv'
<1>0. LoadInv /\ load \in LoadType
  BY Numbers DEF IInv, FunctionsOK, LoadType
<1>a. load.chunk \in Chunks
  BY <1>0, Numbers DEF LoadInfo, LoadInv, Places, Chunks
<1>b. PICK d \in Chunks : d = load.chunk
  BY <1>a
<1>c. /\ d + 1 \in Places /\ d \in Nat /\ d \in Places /\ num_chunks \in Nat
      /\ StartOf(d + 1) = LastBoundary(chunk_bndry[d])
      /\ StartOf(d) \in Nat /\ StartOf(d) <= chunk_bndry[d] /\ chunk_bndry[d] \in Nat
  BY NextStart, Numbers
<1>d. /\ num_chunks' = num_chunks /\ Chunks' = Chunks
      /\ chunk_bndry' = chunk_bndry /\ is_unique' = is_unique
      /\ \A c \in Chunks : SizeOf(c)' = SizeOf(c) /\ StartOf(c)' = StartOf(c)
      /\ \A c \in Places : StartOf(c)' = StartOf(c)
  BY PacketKept, Numbers
<1>e. \A c \in Chunks : c \in Nat
  BY Numbers
<1>1. CASE load.pc = "boundaries_1" /\ Put("boundaries_1", load.chunk, chunk_bndry[load.chunk])
           /\ load' = [load EXCEPT !.pc = "uniques_1"]
  <2>1. load' \in LoadType /\ load'.pc = "uniques_1" /\ load'.chunk = d /\ load'.j = load.j
    BY <1>0, <1>1, <1>b DEF LoadType, LoadPcs
  <2>2. ASSUME put'["boundaries_1"][d] = put["boundaries_1"][d] + 1,
               \A c \in Chunks : c # d => put'["boundaries_1"][c] = put["boundaries_1"][c],
               \A x \in Streams : x # "boundaries_1" => put'[x] = put[x]
        PROVE  LoadInv'
    <3>1. StartOf(load.chunk)' = StartOf(d)
      BY <2>1, <1>b, <1>d
    <3> QED
      BY <1>0, <1>1, <1>b, <1>c, <1>d, <1>e, <2>1, <2>2, <3>1
      DEF LoadInv, OnePut, Past, Streams, LongStreams, ShortStreams
  <2> QED
    BY <1>0, <1>1, <1>b, <1>c, <2>1, <2>2, LoadMoves DEF LoadOut, Meant, What, Values, PacketOK
<1>2. CASE load.pc = "uniques_1" /\ Put("uniques_1", load.chunk, is_unique[load.chunk])
           /\ load' = [load EXCEPT !.pc = "head_1"]
  <2>1. load' \in LoadType /\ load'.pc = "head_1" /\ load'.chunk = d /\ load'.j = load.j
    BY <1>0, <1>2, <1>b DEF LoadType, LoadPcs
  <2>2. ASSUME put'["uniques_1"][d] = put["uniques_1"][d] + 1,
               \A c \in Chunks : c # d => put'["uniques_1"][c] = put["uniques_1"][c],
               \A x \in Streams : x # "uniques_1" => put'[x] = put[x]
        PROVE  LoadInv'
    <3>1. StartOf(load.chunk)' = StartOf(d)
      BY <2>1, <1>b, <1>d
    <3> QED
      BY <1>0, <1>2, <1>b, <1>c, <1>d, <1>e, <2>1, <2>2, <3>1
      DEF LoadInv, OnePut, Past, Streams, LongStreams, ShortStreams
  <2>3. is_unique[d] \in BOOLEAN
    BY Numbers DEF PacketOK
  <2> QED
    BY <1>0, <1>2, <1>b, <1>c, <2>1, <2>2, <2>3, LoadMoves DEF LoadOut, Meant, What, Values
<1>3. CASE load.pc = "head_1" /\ Put("head_1", load.chunk, dup_chunk_head(load.chunk))
           /\ load' = IF is_unique[load.chunk] THEN [load EXCEPT !.pc = "input"]
                      ELSE LoadNext(load, LastBoundary(chunk_bndry[load.chunk]))
  <2>0. dup_chunk_head(d) = Meant("head_1", d, put["head_1"][d] + 1) /\ dup_chunk_head(d) \in Int
    BY <1>c DEF Meant, What, dup_chunk_head
  <2>1. CASE is_unique[d]
    <3>1. load' \in LoadType /\ load'.pc = "input" /\ load'.chunk = d /\ load'.j = load.j
      BY <1>0, <1>3, <2>1, <1>b DEF LoadType, LoadPcs
    <3>2. ASSUME put'["head_1"][d] = put["head_1"][d] + 1,
                 \A c \in Chunks : c # d => put'["head_1"][c] = put["head_1"][c],
                 \A x \in Streams : x # "head_1" => put'[x] = put[x]
          PROVE  LoadInv'
      <4>1. StartOf(load.chunk)' = StartOf(d)
        BY <3>1, <1>b, <1>d
      <4> QED
        BY <1>0, <1>3, <1>b, <1>c, <1>d, <1>e, <2>1, <3>1, <3>2, <4>1
        DEF LoadInv, OnePut, Past, Streams, LongStreams, ShortStreams
    <3> QED
      BY <1>0, <1>3, <1>b, <1>c, <2>0, <3>1, <3>2, LoadMoves DEF LoadOut, Values
  <2>2. CASE ~ is_unique[d]
    <3>1. load' \in LoadType /\ load'.chunk = d + 1 /\ load'.j = StartOf(d + 1)
          /\ load'.pc = AtChunk(d + 1, "boundaries_1")
      BY <1>0, <1>3, <1>c, <2>2, <1>b DEF LoadType, LoadPcs, LoadNext, AtChunk, LastBoundary
    <3>2. ASSUME put'["head_1"][d] = put["head_1"][d] + 1,
                 \A c \in Chunks : c # d => put'["head_1"][c] = put["head_1"][c],
                 \A x \in Streams : x # "head_1" => put'[x] = put[x]
          PROVE  LoadInv'
      <4>1. put'["input"] = put["input"] /\ put["input"][d] = 0
        BY <1>0, <1>3, <1>b, <1>c, <3>2 DEF LoadInv, Streams, LongStreams
      <4> QED
        BY <4>1, <1>3, <1>b, <2>2, <3>1, <3>2, LoadLeaves DEF Streams, LongStreams, ShortStreams
    <3> QED
      BY <1>0, <1>3, <1>b, <1>c, <2>0, <3>1, <3>2, LoadMoves DEF LoadOut, Values
  <2> QED
    BY <2>1, <2>2
<1> QED
  BY <1>1, <1>2, <1>3 DEF LoadInfo

(* load() writes a byte of its chunk. *)
LEMMA LoadDataStep ==
  ASSUME IInv, LoadData, UNCHANGED <<packet, encode, pack, store, output>>
  PROVE  IInv'
<1>0. LoadInv /\ load \in LoadType /\ load.pc = "input"
  BY Numbers DEF IInv, FunctionsOK, LoadType, LoadData
<1>a. load.chunk \in Chunks
  BY <1>0, Numbers DEF LoadInv, Places, Chunks
<1>b. PICK d \in Chunks : d = load.chunk
  BY <1>a
<1>c. /\ d + 1 \in Places /\ d \in Nat /\ d \in Places /\ num_chunks \in Nat
      /\ StartOf(d + 1) = LastBoundary(chunk_bndry[d])
      /\ StartOf(d) \in Nat /\ StartOf(d) <= chunk_bndry[d] /\ chunk_bndry[d] \in Nat
      /\ SizeOf(d) = chunk_bndry[d] + 1 - StartOf(d)
  BY NextStart, Numbers
<1>d. /\ num_chunks' = num_chunks /\ Chunks' = Chunks
      /\ chunk_bndry' = chunk_bndry /\ is_unique' = is_unique
      /\ \A c \in Chunks : SizeOf(c)' = SizeOf(c) /\ StartOf(c)' = StartOf(c)
      /\ \A c \in Places : StartOf(c)' = StartOf(c)
  BY PacketKept, Numbers
<1>e. \A c \in Chunks : c \in Nat
  BY Numbers
<1>f. /\ load.j \in StartOf(d) .. chunk_bndry[d] /\ is_unique[d] /\ load.j \in Nat
      /\ put["input"][d] = load.j - StartOf(d)
  BY <1>0, <1>b DEF LoadInv, LoadType
<1>g. load.j = Meant("input", d, put["input"][d] + 1) /\ load.j \in Int
  BY <1>c, <1>f DEF Meant, What
<1>1. CASE load.j < chunk_bndry[d]
  <2>1. load' \in LoadType /\ load'.pc = "input" /\ load'.chunk = d /\ load'.j = load.j + 1
    BY <1>0, <1>1, <1>b DEF LoadData, LoadType, LoadPcs
  <2>2. ASSUME put'["input"][d] = put["input"][d] + 1,
               \A c \in Chunks : c # d => put'["input"][c] = put["input"][c],
               \A x \in Streams : x # "input" => put'[x] = put[x]
        PROVE  LoadInv'
    <3>1. StartOf(load.chunk)' = StartOf(d)
      BY <2>1, <1>b, <1>d
    <3> QED
      BY <1>0, <1>1, <1>b, <1>c, <1>d, <1>e, <1>f, <2>1, <2>2, <3>1
      DEF LoadInv, OnePut, Past, Streams, LongStreams, ShortStreams
  <2> QED
    BY <1>0, <1>b, <1>c, <1>g, <2>1, <2>2, LoadMoves DEF LoadData, LoadOut, Values
<1>2. CASE ~ (load.j < chunk_bndry[d])
  <2>1. load' \in LoadType /\ load'.chunk = d + 1 /\ load'.j = StartOf(d + 1)
        /\ load'.pc = AtChunk(d + 1, "boundaries_1")
    BY <1>0, <1>2, <1>b, <1>c DEF LoadData, LoadType, LoadPcs, LoadNext, AtChunk, LastBoundary
  <2>2. ASSUME put'["input"][d] = put["input"][d] + 1,
               \A c \in Chunks : c # d => put'["input"][c] = put["input"][c],
               \A x \in Streams : x # "input" => put'[x] = put[x]
        PROVE  LoadInv'
    <3>1. put'["input"][d] = SizeOf(d)
      BY <1>2, <1>c, <1>f, <2>2
    <3> QED
      BY <3>1, <1>0, <1>b, <1>f, <2>1, <2>2, LoadLeaves DEF Streams, LongStreams, ShortStreams
  <2> QED
    BY <1>0, <1>b, <1>c, <1>g, <2>1, <2>2, LoadMoves DEF LoadData, LoadOut, Values
<1> QED
  BY <1>1, <1>2

(* A step of load(). *)
LEMMA LoadStep == IInv /\ Load => IInv'
  BY LoadInfoStep, LoadDataStep DEF Load

-----------------------------------------------------------------------------
(* lzw_encode() *)

(* What a write does to the counts. *)
LEMMA PutCounts ==
  ASSUME FlowOK, NEW s \in Streams, NEW d \in Chunks, NEW v, Put(s, d, v)
  PROVE  /\ put'[s][d] = put[s][d] + 1 /\ taken' = taken
         /\ \A c \in Chunks : c # d => put'[s][c] = put[s][c]
         /\ \A x \in Streams : x # s => put'[x] = put[x]
  BY DEF FlowOK, Put

(* lzw_encode() writes something that is right for its chunk, and leaves the chunk  *)
(* only when it has taken all of its bytes and written the last flag.            *)
LEMMA EncodeWrites ==
  ASSUME IInv, UNCHANGED <<packet, load, pack, store, output>>,
         NEW s \in EncodeOut, NEW d \in Chunks, d = encode.chunk, NEW v \in Values(s), Put(s, d, v),
         NEW k \in Nat, k = put[s][d] + 1, v = Meant(s, d, k)',
         encode' \in EncodeType, encode'.chunk = d \/ encode'.chunk = d + 1,
         encode'.chunk = d + 1 => /\ d < load.chunk /\ taken["input"][d] = put["input"][d]
                                  /\ put["lzw_encode_out_flag"][d] <= sent(d)',
         EncodeInv'
  PROVE  IInv'
<1>1. s \in Streams /\ s \notin LoadOut \cup PackOut
  BY StreamsSplit DEF LoadOut, EncodeOut, PackOut
<1>2. put' \in [Streams -> [Chunks -> Nat]]
  BY <1>1, Numbers, CountTypes
<1>3. /\ taken' = taken
      /\ \A c \in Chunks : c # d => put'[s][c] = put[s][c]
      /\ \A x \in Streams : x # s => put'[x] = put[x]
  BY <1>1, Numbers, PutCounts
<1>4. \A c \in Chunks : c # d => sent(c)' = sent(c)
                              /\ put'["lzw_encode_out_flag"][c] = put["lzw_encode_out_flag"][c]
  BY <1>1, <1>3 DEF sent, Streams, LongStreams, ShortStreams
<1>5. \A x \in LoadOut \cup PackOut : put'[x] = put[x]
  BY <1>1, <1>3, StreamsSplit
<1>6. \A c \in Chunks : made(c)' = made(c)
  BY <1>5 DEF made, PackOut
<1>7. /\ encode.chunk \in Nat /\ encode'.chunk \in Nat /\ encode.chunk <= encode'.chunk
      /\ encode'.chunk <= load.chunk /\ d \in Nat
  BY Numbers
<1>8. \A c \in Chunks : c >= encode.chunk /\ c < encode'.chunk => c = d /\ encode'.chunk = d + 1
  BY <1>7, Numbers
<1>9. \A c \in Chunks : c < encode.chunk => c # d
  BY <1>7, Numbers
<1>10. MeantKept
  BY <1>2, <1>4, <1>6, <1>7, <1>8, <1>9, Numbers, MeantKeeps
<1>11. \A c \in Chunks : c > d => put[s][c] = 0
  <2>1. \A c \in Chunks : c > d => c # encode.chunk /\ ~ (c < encode.chunk)
    BY Numbers
  <2> QED
    BY <2>1, Numbers
    DEF IInv, EncodeInv, EncodeInfos, EncodeCodes, EncodeAhead, EncodeOut, OnePut, Past, sent
<1>12. Flows
  BY <1>1, <1>10, <1>11, Numbers, PutStep DEF Flows, IInv
<1>13. \A c \in Chunks : c < encode'.chunk => taken'["input"][c] = put["input"][c]
  <2>1. \A c \in Chunks : c < encode'.chunk => c < encode.chunk \/ (c = d /\ encode'.chunk = d + 1)
    BY <1>7, <1>8, Numbers
  <2> QED
    BY <2>1, <1>3 DEF IInv, Passed
<1> QED
  BY <1>3, <1>4, <1>5, <1>7, <1>8, <1>9, <1>12, <1>13, ByEncode

(* lzw_encode() reads something of its chunk that it is due.                    *)
EncodeDue(s, d) ==
  IF s = "input" THEN is_unique[d] /\ taken[s][d] < SizeOf(d) ELSE taken[s][d] = 0

(* What lzw_encode() is due comes before what it meets later. *)
LEMMA EncodeInOrder ==
  ASSUME IInv, NEW s \in EncodeIn, NEW d \in Chunks, d = encode.chunk, EncodeDue(s, d)
  PROVE  /\ s \in Streams
         /\ \A c \in Chunks : c < d => taken[s][c] = put[s][c]
         /\ \A c \in Chunks : c > d /\ taken[s][c] < put[s][c] => taken[s][d] < put[s][d]
<1>1. s \in Streams
  BY DEF EncodeIn, Streams, LongStreams, ShortStreams
<1>5. \A c \in Chunks : c < d => taken[s][c] = put[s][c]
  <2> SUFFICES ASSUME NEW c \in Chunks, c < d PROVE taken[s][c] = put[s][c]
    OBVIOUS
  <2>1. CASE s = "input"
    BY <2>1 DEF IInv, Passed
  <2>2. CASE s # "input"
    <3>1. taken[s][c] = 1
      BY <2>2 DEF EncodeIn, IInv, EncodeInv, EncodeInfos, OneTaken, Past
    <3>2. put[s][c] = 0 \/ put[s][c] = 1
      BY <2>2 DEF EncodeIn, IInv, LoadInv, OnePut
    <3>3. taken[s][c] <= put[s][c]
      BY <1>1, Numbers
    <3> QED
      BY <3>1, <3>2, <3>3
  <2> QED
    BY <2>1, <2>2
<1>6. \A c \in Chunks : c > d /\ taken[s][c] < put[s][c] => taken[s][d] < put[s][d]
  <2> SUFFICES ASSUME NEW c \in Chunks, c > d, taken[s][c] < put[s][c] PROVE taken[s][d] < put[s][d]
    OBVIOUS
  <2>0. c \in Nat /\ d \in Nat /\ load.chunk \in Nat /\ put[s][c] # 0
    BY <1>1, Numbers
  <2>1. load.chunk > d
    <3>1. ~ (c > load.chunk)
      BY <2>0 DEF EncodeIn, IInv, LoadInv, OnePut, Past
    <3> QED
      BY <3>1, <2>0
  <2>2. CASE s = "input"
    BY <2>1, <2>2, <2>0 DEF EncodeDue, IInv, LoadInv
  <2>3. CASE s # "input"
    <3>1. put[s][d] = 1
      BY <2>1, <2>3, <2>0 DEF EncodeIn, IInv, LoadInv, OnePut, Past
    <3> QED
      BY <3>1, <2>3 DEF EncodeDue
  <2> QED
    BY <2>2, <2>3
<1> QED
  BY <1>1, <1>5, <1>6

(* Then it finds an element about its chunk in the stream. *)
LEMMA EncodeTakes ==
  ASSUME IInv, UNCHANGED <<packet, load, pack, store, output>>,
         NEW s \in EncodeIn, NEW d \in Chunks, d = encode.chunk, encode'.chunk = d, Take(s), EncodeDue(s, d)
  PROVE  /\ Flows /\ put' = put
         /\ taken'[s][d] = taken[s][d] + 1
         /\ \A c \in Chunks : c # d => taken'[s][c] = taken[s][c]
         /\ \A x \in Streams : x # s => taken'[x] = taken[x]
         /\ Peek(s) = Meant(s, d, taken[s][d] + 1)
         /\ Peek(s) \in Values(s)
<1>1. s \in Streams
  BY DEF EncodeIn, Streams, LongStreams, ShortStreams
<1>2. put' = put
  BY DEF Take
<1>3. d \in Nat /\ \A c \in Chunks : ~ (c >= encode.chunk /\ c < encode'.chunk)
  BY Numbers
<1>4. MeantKept
  BY <1>2, <1>3, Numbers, MeantKeeps DEF FlowOK, sent, made
<1> QED
  BY <1>1, <1>2, <1>4, EncodeInOrder, Numbers, TakeStep DEF Flows, IInv

(* A read keeps the invariant if it keeps lzw_encode()'s part. *)
LEMMA EncodeReads ==
  ASSUME IInv, UNCHANGED <<packet, load, pack, store, output>>,
         NEW s \in EncodeIn, NEW d \in Chunks, d = encode.chunk, encode'.chunk = d, Take(s), EncodeDue(s, d),
         encode' \in EncodeType, EncodeInv'
  PROVE  IInv'
<1>1. /\ Flows /\ put' = put
      /\ \A c \in Chunks : c # d => taken'[s][c] = taken[s][c]
      /\ \A x \in Streams : x # s => taken'[x] = taken[x]
  BY EncodeTakes
<1>2. \A x \in PackIn \cup StoreIn : taken'[x] = taken[x]
  BY <1>1 DEF EncodeIn, PackIn, StoreIn, Streams, LongStreams, ShortStreams
<1>3. \A c \in Chunks : c < encode'.chunk => taken'["input"][c] = put["input"][c]
  <2>1. \A c \in Chunks : c < encode'.chunk => c # d /\ c < encode.chunk
    BY Numbers
  <2> QED
    BY <2>1, <1>1 DEF IInv, Passed, Streams, LongStreams
<1>4. d \in Nat /\ d <= load.chunk /\ \A c \in Chunks : ~ (c >= encode.chunk /\ c < encode'.chunk)
  BY Numbers
<1>5. \A c \in Chunks : sent(c)' = sent(c)
  BY <1>1 DEF sent
<1> QED
  BY <1>1, <1>2, <1>3, <1>4, <1>5, ByEncode

(* What is said of the codes after a step at chunk d. *)
LEMMA EncodeCodesMoved ==
  ASSUME IInv, UNCHANGED packet, NEW d \in Chunks, d = encode.chunk,
         encode'.chunk = d \/ (encode'.chunk = d + 1 /\ encode'.pc \notin Encoding),
         \A c \in Chunks : c # d => /\ taken'["input"][c] = taken["input"][c] /\ sent(c)' = sent(c)
                                    /\ put'["lzw_encode_out_flag"][c] = put["lzw_encode_out_flag"][c],
         encode'.chunk = d => EncodeAhead(d)' /\ EncodeHere(d)',
         encode'.chunk = d + 1 => EncodeBehind(d)'
  PROVE  EncodeCodes'
<1>0. /\ Chunks' = Chunks /\ is_unique' = is_unique /\ d \in Nat
      /\ \A c \in Chunks : c \in Nat /\ SizeOf(c)' = SizeOf(c)
  BY Numbers, PacketKept
<1>1. ASSUME NEW c \in Chunks PROVE EncodeAhead(c)' /\ EncodeBehind(c)'
  <2>1. EncodeAhead(c) /\ EncodeBehind(c)
    BY DEF IInv, EncodeInv, EncodeCodes
  <2>2. CASE c < d
    <3>1. c # d /\ c < encode.chunk /\ ~ (c > encode'.chunk) /\ c # encode'.chunk
      BY <1>0, <2>2
    <3> QED
      BY <1>0, <2>1, <3>1 DEF EncodeAhead, EncodeBehind
  <2>3. CASE c > d
    <3>1. c # d /\ c > encode.chunk /\ ~ (c < encode'.chunk)
      BY <1>0, <2>3
    <3> QED
      BY <1>0, <2>1, <3>1 DEF EncodeAhead, EncodeBehind
  <2>4. CASE c = d
    <3>1. CASE encode'.chunk = d
      BY <1>0, <2>4, <3>1 DEF EncodeBehind
    <3>2. CASE encode'.chunk = d + 1
      BY <1>0, <2>4, <3>2 DEF EncodeAhead
    <3> QED
      BY <3>1, <3>2
  <2> QED
    BY <2>2, <2>3, <2>4, <1>0
<1>2. ASSUME encode'.pc # "done" PROVE EncodeHere(encode.chunk)'
  <2>1. CASE encode'.chunk = d
    BY <2>1
  <2>2. CASE encode'.pc \notin Encoding
    BY <2>2 DEF EncodeHere, Encoding
  <2> QED
    BY <2>1, <2>2
<1> QED
  BY <1>0, <1>1, <1>2 DEF EncodeCodes

(* lzw_encode() leaves a chunk: where it is then, and what it has read and put. *)
LEMMA EncodeLeaves ==
  ASSUME IInv, UNCHANGED packet, NEW d \in Chunks, d = encode.chunk,
         encode' = EncodeNext(encode), encode.bound = chunk_bndry[d],
         encode.pc \in {"head_2", "end"}, taken' = taken,
         \A c \in Chunks : c # d => put'["head_2"][c] = put["head_2"][c],
         put'["uniques_2"] = put["uniques_2"],
         put'["head_2"][d] = IF encode.pc = "head_2" THEN put["head_2"][d] + 1 ELSE put["head_2"][d]
  PROVE  /\ encode' \in EncodeType /\ encode'.chunk = d + 1 /\ encode'.pc = AtChunk(d + 1, "boundaries_1")
         /\ encode'.last = StartOf(d + 1)
         /\ encode'.pc \in {"boundaries_1", "done"}
         /\ encode'.pc = "done" <=> d + 1 = num_chunks + 1
         /\ EncodeInfos'
<1>0. EncodeInv /\ PacketOK /\ d \in Nat /\ num_chunks \in Nat /\ encode \in EncodeType
  BY Numbers DEF IInv, FunctionsOK, EncodeType
<1>1. PICK w : w = AtChunk(d + 1, "boundaries_1")
  OBVIOUS
<1>2. /\ w \in {"boundaries_1", "done"} /\ (w = "done" <=> d + 1 = num_chunks + 1)
      /\ d + 1 \in Chunks => w = "boundaries_1"
  BY <1>0, <1>1, NextPlace
<1>3. PICK l \in Nat : l = LastBoundary(encode.bound)
  BY <1>0 DEF PacketOK, LastBoundary
<1>4. l = StartOf(d + 1) /\ d + 1 \in Places
  BY <1>0, <1>3, NextStart
<1>5. encode' = [encode EXCEPT !.pc = w, !.chunk = d + 1, !.last = l]
  BY <1>0, <1>1, <1>3 DEF EncodeNext
<1>6. w \in EncodePcs
  BY <1>2 DEF EncodePcs
<1>7. encode' \in EncodeType /\ encode'.chunk = d + 1 /\ encode'.pc = w /\ encode'.last = l
  <2>1. PICK x \in Places : x = d + 1
    BY <1>4
  <2>2. encode' = [encode EXCEPT !.pc = w, !.chunk = x, !.last = l]
    BY <1>5, <2>1
  <2>3. l \in Int
    OBVIOUS
  <2>4. encode' \in EncodeType
    BY <1>0, <1>6, <2>2, <2>3 DEF EncodeType
  <2> QED
    BY <1>0, <2>1, <2>2, <2>4 DEF EncodeType
<1>8. /\ OneEach(taken["boundaries_1"], encode, {"boundaries_1"})
      /\ OneEach(taken["uniques_1"], encode, {"boundaries_1", "uniques_1"})
      /\ OneEach(taken["head_1"], encode, {"boundaries_1", "uniques_1", "head_1"})
      /\ OneEach(put["uniques_2"], encode, {"boundaries_1", "uniques_1", "head_1", "uniques_2"})
      /\ OneEach(put["head_2"], encode, {"boundaries_1", "uniques_1", "head_1", "uniques_2", "head_2"})
  BY <1>0 DEF EncodeInv, EncodeInfos, OnePut, OneTaken, OneEach
<1>9. /\ taken["boundaries_1"][d] = 1 /\ taken["uniques_1"][d] = 1 /\ taken["head_1"][d] = 1
      /\ put["uniques_2"][d] = 1 /\ put'["head_2"][d] = 1
  BY <1>0, <1>8 DEF OneEach, Past
<1>10. OneEach(taken["boundaries_1"], encode', {"boundaries_1"})
  BY <1>0, <1>2, <1>7, <1>8, <1>9, OneLeft
<1>11. OneEach(taken["uniques_1"], encode', {"boundaries_1", "uniques_1"})
  BY <1>0, <1>2, <1>7, <1>8, <1>9, OneLeft
<1>12. OneEach(taken["head_1"], encode', {"boundaries_1", "uniques_1", "head_1"})
  BY <1>0, <1>2, <1>7, <1>8, <1>9, OneLeft
<1>13. OneEach(put["uniques_2"], encode', {"boundaries_1", "uniques_1", "head_1", "uniques_2"})
  BY <1>0, <1>2, <1>7, <1>8, <1>9, OneLeft
<1>14. OneEach(put'["head_2"], encode', {"boundaries_1", "uniques_1", "head_1", "uniques_2", "head_2"})
  BY <1>0, <1>2, <1>7, <1>8, <1>9, OneLeft
<1>15. Chunks' = Chunks
  BY PacketKept, Numbers
<1>16. EncodeInfos'
  BY <1>10, <1>11, <1>12, <1>13, <1>14, <1>15 DEF EncodeInfos, OnePut, OneTaken, OneEach, Past
<1> QED
  BY <1>1, <1>2, <1>4, <1>7, <1>16

(* lzw_encode() reads a chunk's bound, kind and header, or hands on the last two. *)
LEMMA EncodeInfoStep ==
  ASSUME IInv, EncodeInfo, UNCHANGED <<packet, load, pack, store, output>>
  PROVE  IInv'
<1>0. EncodeInv /\ encode \in EncodeType
  BY Numbers DEF IInv, FunctionsOK, EncodeType
<1>a. encode.chunk \in Chunks
  BY <1>0, Numbers DEF EncodeInfo, EncodeInv, EncodeLocals, Places, Chunks
<1>b. PICK d \in Chunks : d = encode.chunk
  BY <1>a
<1>c. /\ d + 1 \in Places /\ d \in Nat /\ d \in Places /\ num_chunks \in Nat
      /\ StartOf(d + 1) = LastBoundary(chunk_bndry[d])
      /\ StartOf(d) \in Nat /\ StartOf(d) <= chunk_bndry[d] /\ chunk_bndry[d] \in Nat
      /\ SizeOf(d) = chunk_bndry[d] + 1 - StartOf(d)
  BY NextStart, Numbers
<1>d. /\ num_chunks' = num_chunks /\ Chunks' = Chunks
      /\ chunk_bndry' = chunk_bndry /\ is_unique' = is_unique
      /\ \A c \in Chunks : SizeOf(c)' = SizeOf(c) /\ StartOf(c)' = StartOf(c)
      /\ \A c \in Places : StartOf(c)' = StartOf(c)
  BY PacketKept, Numbers
<1>e. \A c \in Chunks : c \in Nat
  BY Numbers
<1>f. EncodeAhead(d) /\ is_unique[d] \in BOOLEAN
  BY Numbers DEF IInv, EncodeInv, EncodeCodes, PacketOK
<1>1. CASE encode.pc = "boundaries_1" /\ Take("boundaries_1")
           /\ encode' = [encode EXCEPT !.pc = "uniques_1", !.bound = Peek("boundaries_1")]
  <2>0. /\ EncodeDue("boundaries_1", d) /\ encode'.chunk = d /\ "boundaries_1" \in EncodeIn
        /\ encode'.pc = "uniques_1" /\ encode'.bound = Peek("boundaries_1")
        /\ encode' = [encode EXCEPT !.pc = "uniques_1", !.bound = encode'.bound]
    BY <1>0, <1>1, <1>b, <1>c DEF EncodeDue, EncodeInv, EncodeInfos, OneTaken, Past, EncodeIn, EncodeType
  <2>1. /\ put' = put /\ taken'["boundaries_1"][d] = 1
        /\ \A c \in Chunks : c # d => taken'["boundaries_1"][c] = taken["boundaries_1"][c]
        /\ \A x \in Streams : x # "boundaries_1" => taken'[x] = taken[x]
        /\ Peek("boundaries_1") = Meant("boundaries_1", d, taken["boundaries_1"][d] + 1) /\ Peek("boundaries_1") \in Values("boundaries_1")
    <3>1. taken["boundaries_1"][d] = 0
      BY <2>0 DEF EncodeDue
    <3> QED
      BY <3>1, <1>1, <1>b, <2>0, EncodeTakes
  <2>2. encode'.bound = chunk_bndry[d] /\ encode' \in EncodeType
    BY <1>0, <2>0, <2>1 DEF EncodeType, EncodePcs, Values, Meant, What, dup_chunk_head
  <2>3. EncodeLocals'
    <3>1. StartOf(encode.chunk)' = StartOf(encode.chunk)
      BY <1>b, <1>d, <2>0
    <3> QED
      BY <3>1, <1>0, <1>1, <1>b, <1>d, <2>0, <2>2 DEF EncodeInv, EncodeLocals, Encoding, EncodeType, dup_chunk_head
  <2>4. EncodeInfos'
    BY <1>0, <1>1, <1>b, <1>d, <1>e, <2>0, <2>1
    DEF EncodeInv, EncodeInfos, OnePut, OneTaken, Past, Streams, LongStreams, ShortStreams
  <2>5. EncodeCodes'
    <3>1. taken'["input"] = taken["input"] /\ \A c \in Chunks : sent(c)' = sent(c)
      BY <2>1 DEF sent, Streams, LongStreams
    <3>2. EncodeAhead(d)' /\ EncodeHere(d)'
      BY <1>1, <1>b, <1>f, <2>0, <2>1, <3>1 DEF EncodeAhead, EncodeHere, Encoding
    <3> QED
      BY <1>b, <1>c, <2>0, <2>1, <3>1, <3>2, EncodeCodesMoved
  <2> QED
    BY <1>1, <1>b, <2>0, <2>2, <2>3, <2>4, <2>5, EncodeReads DEF EncodeInv
<1>2. CASE encode.pc = "uniques_1" /\ Take("uniques_1")
           /\ encode' = [encode EXCEPT !.pc = "head_1", !.unique = Peek("uniques_1")]
  <2>0. /\ EncodeDue("uniques_1", d) /\ encode'.chunk = d /\ "uniques_1" \in EncodeIn
        /\ encode'.pc = "head_1" /\ encode'.unique = Peek("uniques_1")
        /\ encode' = [encode EXCEPT !.pc = "head_1", !.unique = encode'.unique]
    BY <1>0, <1>2, <1>b, <1>c DEF EncodeDue, EncodeInv, EncodeInfos, OneTaken, Past, EncodeIn, EncodeType
  <2>1. /\ put' = put /\ taken'["uniques_1"][d] = 1
        /\ \A c \in Chunks : c # d => taken'["uniques_1"][c] = taken["uniques_1"][c]
        /\ \A x \in Streams : x # "uniques_1" => taken'[x] = taken[x]
        /\ Peek("uniques_1") = Meant("uniques_1", d, taken["uniques_1"][d] + 1) /\ Peek("uniques_1") \in Values("uniques_1")
    <3>1. taken["uniques_1"][d] = 0
      BY <2>0 DEF EncodeDue
    <3> QED
      BY <3>1, <1>2, <1>b, <2>0, EncodeTakes
  <2>2. encode'.unique = is_unique[d] /\ encode' \in EncodeType
    BY <1>0, <2>0, <2>1 DEF EncodeType, EncodePcs, Values, Meant, What, dup_chunk_head
  <2>3. EncodeLocals'
    <3>1. StartOf(encode.chunk)' = StartOf(encode.chunk)
      BY <1>b, <1>d, <2>0
    <3> QED
      BY <3>1, <1>0, <1>2, <1>b, <1>d, <2>0, <2>2 DEF EncodeInv, EncodeLocals, Encoding, EncodeType, dup_chunk_head
  <2>4. EncodeInfos'
    BY <1>0, <1>2, <1>b, <1>d, <1>e, <2>0, <2>1
    DEF EncodeInv, EncodeInfos, OnePut, OneTaken, Past, Streams, LongStreams, ShortStreams
  <2>5. EncodeCodes'
    <3>1. taken'["input"] = taken["input"] /\ \A c \in Chunks : sent(c)' = sent(c)
      BY <2>1 DEF sent, Streams, LongStreams
    <3>2. EncodeAhead(d)' /\ EncodeHere(d)'
      BY <1>2, <1>b, <1>f, <2>0, <2>1, <3>1 DEF EncodeAhead, EncodeHere, Encoding
    <3> QED
      BY <1>b, <1>c, <2>0, <2>1, <3>1, <3>2, EncodeCodesMoved
  <2> QED
    BY <1>2, <1>b, <2>0, <2>2, <2>3, <2>4, <2>5, EncodeReads DEF EncodeInv
<1>3. CASE encode.pc = "head_1" /\ Take("head_1")
           /\ encode' = [encode EXCEPT !.pc = "uniques_2", !.head = Peek("head_1")]
  <2>0. /\ EncodeDue("head_1", d) /\ encode'.chunk = d /\ "head_1" \in EncodeIn
        /\ encode'.pc = "uniques_2" /\ encode'.head = Peek("head_1")
        /\ encode' = [encode EXCEPT !.pc = "uniques_2", !.head = encode'.head]
    BY <1>0, <1>3, <1>b, <1>c DEF EncodeDue, EncodeInv, EncodeInfos, OneTaken, Past, EncodeIn, EncodeType
  <2>1. /\ put' = put /\ taken'["head_1"][d] = 1
        /\ \A c \in Chunks : c # d => taken'["head_1"][c] = taken["head_1"][c]
        /\ \A x \in Streams : x # "head_1" => taken'[x] = taken[x]
        /\ Peek("head_1") = Meant("head_1", d, taken["head_1"][d] + 1) /\ Peek("head_1") \in Values("head_1")
    <3>1. taken["head_1"][d] = 0
      BY <2>0 DEF EncodeDue
    <3> QED
      BY <3>1, <1>3, <1>b, <2>0, EncodeTakes
  <2>2. encode'.head = dup_chunk_head(d) /\ encode' \in EncodeType
    BY <1>0, <2>0, <2>1 DEF EncodeType, EncodePcs, Values, Meant, What, dup_chunk_head
  <2>3. EncodeLocals'
    <3>1. StartOf(encode.chunk)' = StartOf(encode.chunk)
      BY <1>b, <1>d, <2>0
    <3> QED
      BY <3>1, <1>0, <1>3, <1>b, <1>d, <2>0, <2>2 DEF EncodeInv, EncodeLocals, Encoding, EncodeType, dup_chunk_head
  <2>4. EncodeInfos'
    BY <1>0, <1>3, <1>b, <1>d, <1>e, <2>0, <2>1
    DEF EncodeInv, EncodeInfos, OnePut, OneTaken, Past, Streams, LongStreams, ShortStreams
  <2>5. EncodeCodes'
    <3>1. taken'["input"] = taken["input"] /\ \A c \in Chunks : sent(c)' = sent(c)
      BY <2>1 DEF sent, Streams, LongStreams
    <3>2. EncodeAhead(d)' /\ EncodeHere(d)'
      BY <1>3, <1>b, <1>f, <2>0, <2>1, <3>1 DEF EncodeAhead, EncodeHere, Encoding
    <3> QED
      BY <1>b, <1>c, <2>0, <2>1, <3>1, <3>2, EncodeCodesMoved
  <2> QED
    BY <1>3, <1>b, <2>0, <2>2, <2>3, <2>4, <2>5, EncodeReads DEF EncodeInv
<1>4. CASE encode.pc = "uniques_2" /\ Put("uniques_2", encode.chunk, encode.unique)
           /\ encode' = [encode EXCEPT !.pc = "head_2"]
  <2>0. encode.unique = is_unique[d] /\ "uniques_2" \in EncodeOut /\ "uniques_2" \in Streams
    BY <1>0, <1>4, <1>b DEF EncodeInv, EncodeLocals, EncodeOut, Streams, ShortStreams
  <2>1. /\ put'["uniques_2"][d] = put["uniques_2"][d] + 1 /\ taken' = taken
        /\ \A c \in Chunks : c # d => put'["uniques_2"][c] = put["uniques_2"][c]
        /\ \A x \in Streams : x # "uniques_2" => put'[x] = put[x]
    BY <1>4, <1>b, <2>0, Numbers, PutCounts
  <2>2. encode' \in EncodeType /\ encode'.chunk = d /\ encode'.pc = "head_2"
    BY <1>0, <1>4, <1>b DEF EncodeType, EncodePcs
  <2>3. EncodeLocals'
    <3>1. StartOf(encode.chunk)' = StartOf(encode.chunk)
      BY <1>b, <1>d, <2>2
    <3> QED
      BY <3>1, <1>0, <1>4, <1>b, <1>d, <2>2 DEF EncodeInv, EncodeLocals, Encoding, EncodeType, dup_chunk_head
  <2>4. EncodeInfos'
    BY <1>0, <1>4, <1>b, <1>d, <1>e, <2>1, <2>2
    DEF EncodeInv, EncodeInfos, OnePut, OneTaken, Past, Streams, LongStreams, ShortStreams
  <2>5. EncodeCodes'
    <3>1. /\ put'["lzw_encode_out_flag"] = put["lzw_encode_out_flag"]
          /\ \A c \in Chunks : sent(c)' = sent(c)
      BY <2>1 DEF sent, Streams, LongStreams, ShortStreams
    <3>2. EncodeAhead(d)' /\ EncodeHere(d)'
      BY <1>4, <1>b, <1>f, <2>1, <2>2, <3>1 DEF EncodeAhead, EncodeHere, Encoding
    <3> QED
      BY <1>b, <1>c, <2>1, <2>2, <3>1, <3>2, EncodeCodesMoved
  <2>6. PICK k \in Nat : k = put["uniques_2"][d] + 1
    BY <2>0, Numbers
  <2>7. encode.unique = Meant("uniques_2", d, k)' /\ encode.unique \in Values("uniques_2")
    BY <2>0, <1>d, <1>f DEF Meant, What, Values
  <2>8. EncodeInv'
    BY <2>3, <2>4, <2>5 DEF EncodeInv
  <2> QED
    BY <1>4, <1>b, <1>c, <2>0, <2>2, <2>6, <2>7, <2>8, EncodeWrites
<1>5. CASE encode.pc = "head_2" /\ Put("head_2", encode.chunk, encode.head)
           /\ encode' = IF encode.unique THEN [encode EXCEPT !.pc = "first", !.left = Length(encode)]
                        ELSE EncodeNext(encode)
  <2>0. /\ encode.head = dup_chunk_head(d) /\ "head_2" \in EncodeOut /\ "head_2" \in Streams
        /\ encode.unique = is_unique[d] /\ encode.bound = chunk_bndry[d] /\ encode.last = StartOf(d)
    BY <1>0, <1>5, <1>b DEF EncodeInv, EncodeLocals, EncodeOut, Streams, ShortStreams
  <2>1. /\ put'["head_2"][d] = put["head_2"][d] + 1 /\ taken' = taken
        /\ \A c \in Chunks : c # d => put'["head_2"][c] = put["head_2"][c]
        /\ \A x \in Streams : x # "head_2" => put'[x] = put[x]
    BY <1>5, <1>b, <2>0, Numbers, PutCounts
  <2>6. PICK k \in Nat : k = put["head_2"][d] + 1
    BY <2>0, Numbers
  <2>7. encode.head = Meant("head_2", d, k)' /\ encode.head \in Values("head_2")
    BY <1>c, <2>0 DEF Meant, What, Values, dup_chunk_head
  <2>9. /\ put'["lzw_encode_out_flag"] = put["lzw_encode_out_flag"]
        /\ \A c \in Chunks : sent(c)' = sent(c)
    BY <2>1 DEF sent, Streams, LongStreams, ShortStreams
  <2>a. taken["input"][d] = 0 /\ sent(d) = 0 /\ put["lzw_encode_out_flag"][d] = 0
    BY <1>5, <1>b, <1>f DEF EncodeAhead, Encoding
  <2>b. CASE is_unique[d]
    <3>1. encode' \in EncodeType /\ encode'.chunk = d /\ encode'.pc = "first" /\ encode'.left = SizeOf(d)
          /\ encode' = [encode EXCEPT !.pc = "first", !.left = encode'.left]
      <4>1. PICK l \in Nat : l = SizeOf(d)
        BY Numbers DEF PacketOK
      <4>2. Length(encode) = l
        BY <1>c, <2>0, <4>1 DEF Length
      <4>3. encode' = [encode EXCEPT !.pc = "first", !.left = l]
        BY <1>5, <2>0, <2>b, <4>2
      <4>4. encode' \in EncodeType /\ encode'.chunk = d /\ encode'.pc = "first" /\ encode'.left = l
        BY <1>0, <1>b, <4>3 DEF EncodeType, EncodePcs
      <4> QED
        BY <4>1, <4>3, <4>4
    <3>3. EncodeLocals'
      <4>1. StartOf(encode.chunk)' = StartOf(encode.chunk)
        BY <1>b, <1>d, <3>1
      <4> QED
        BY <4>1, <1>0, <1>5, <1>b, <1>d, <2>b, <3>1 DEF EncodeInv, EncodeLocals, Encoding, EncodeType, dup_chunk_head
    <3>4. EncodeInfos'
      BY <1>0, <1>5, <1>b, <1>d, <1>e, <2>1, <3>1
      DEF EncodeInv, EncodeInfos, OnePut, OneTaken, Past, Streams, LongStreams, ShortStreams
    <3>5. EncodeCodes'
      <4>2. EncodeAhead(d)' /\ EncodeHere(d)'
        BY <1>d, <2>1, <2>9, <2>a, <3>1 DEF EncodeAhead, EncodeHere, Encoding
      <4> QED
        BY <1>b, <1>c, <2>1, <2>9, <3>1, <4>2, EncodeCodesMoved
    <3>8. EncodeInv'
      BY <3>3, <3>4, <3>5 DEF EncodeInv
    <3> QED
      BY <1>5, <1>b, <1>c, <2>0, <2>6, <2>7, <3>1, <3>8, EncodeWrites
  <2>c. CASE ~ is_unique[d]
    <3>0. encode' = EncodeNext(encode) /\ put'["uniques_2"] = put["uniques_2"]
      BY <1>5, <2>0, <2>1, <2>c DEF Streams, ShortStreams
    <3>1. /\ encode' \in EncodeType /\ encode'.chunk = d + 1 /\ encode'.pc = AtChunk(d + 1, "boundaries_1")
          /\ encode'.last = StartOf(d + 1) /\ EncodeInfos'
          /\ encode'.pc \in {"boundaries_1", "done"} /\ (encode'.pc = "done" <=> d + 1 = num_chunks + 1)
      BY <1>5, <1>b, <2>0, <2>1, <3>0, EncodeLeaves
    <3>2. encode'.pc \in {"boundaries_1", "done"} /\ (encode'.pc = "done" <=> d + 1 = num_chunks + 1)
      BY <3>1
    <3>3. EncodeLocals'
      <4>1. StartOf(encode.chunk)' = StartOf(d + 1)
        BY <1>c, <1>d, <3>1
      <4> QED
        BY <4>1, <1>d, <3>1, <3>2 DEF EncodeLocals, Encoding
    <3>4. EncodeInfos'
      BY <3>1
    <3>5. EncodeCodes'
      <4>2. EncodeBehind(d)'
        BY <1>b, <1>c, <1>d, <2>9, <2>a, <2>c, Numbers DEF EncodeBehind, PacketOK
      <4>3. encode'.pc \notin Encoding
        BY <3>2 DEF Encoding
      <4> QED
        BY <1>b, <1>c, <2>1, <2>9, <3>1, <4>2, <4>3, EncodeCodesMoved
    <3>6. d < load.chunk /\ put["input"][d] = 0
      <4>1. taken["head_1"][d] = 1 /\ taken["head_1"][d] <= put["head_1"][d]
        BY <1>0, <1>5, <1>b, <1>c, Numbers DEF EncodeInv, EncodeInfos, OneTaken, Past, Streams, ShortStreams
      <4>2. Past(load, d, {"boundaries_1", "uniques_1", "head_1"})
        BY <4>1 DEF IInv, LoadInv, OnePut
      <4>3. load.pc \in LoadPcs /\ load.chunk \in Nat
        BY Numbers DEF FunctionsOK
      <4>4. d # load.chunk
        <5> SUFFICES ASSUME d = load.chunk PROVE FALSE
          OBVIOUS
        <5>1. load.pc = "input" \/ load.pc = "done"
          BY <4>2, <4>3, <1>c DEF Past, LoadPcs
        <5>2. ~ (load.chunk = num_chunks + 1)
          BY <1>c DEF Chunks
        <5> QED
          BY <5>1, <5>2, <2>c DEF IInv, LoadInv
      <4>5. d < load.chunk
        BY <4>2, <4>4 DEF Past
      <4> QED
        BY <4>5, <2>c DEF IInv, LoadInv
    <3>7. sent(d)' = 0
      BY <2>9, <2>a
    <3>8. EncodeInv'
      BY <3>3, <3>4, <3>5 DEF EncodeInv
    <3> QED
      BY <1>5, <1>b, <1>c, <2>0, <2>6, <2>7, <2>a, <3>1, <3>6, <3>7, <3>8, EncodeWrites
  <2> QED
    BY <2>b, <2>c
<1> QED
  BY <1>1, <1>2, <1>3, <1>4, <1>5 DEF EncodeInfo

(* Where lzw_encode() is when it is coding. *)
LEMMA EncodingAt ==
  ASSUME IInv, encode.pc \in Encoding, NEW d, d = encode.chunk
  PROVE  /\ d \in Chunks /\ d \in Nat /\ d \in Places /\ d + 1 \in Places
         /\ EncodeInv /\ encode \in EncodeType /\ is_unique[d] /\ EncodeHere(d)
         /\ SizeOf(d) \in Nat /\ SizeOf(d) >= 1 /\ encode.left \in Nat
         /\ taken["input"][d] \in Nat /\ sent(d) \in Nat /\ put["lzw_encode_out_flag"][d] \in Nat
         /\ encode.bound = chunk_bndry[d] /\ encode.last = StartOf(d)
<1>1. EncodeInv /\ encode \in EncodeType
  BY Numbers DEF IInv, FunctionsOK, EncodeType
<1>2. encode.pc # "done" /\ encode.pc # "boundaries_1"
  BY DEF Encoding
<1>3. d \in Chunks
  BY <1>1, <1>2, Numbers DEF EncodeInv, EncodeLocals, Places, Chunks
<1>4. d \in Nat /\ d \in Places /\ d + 1 \in Places
  BY <1>3, Numbers, NextStart
<1>5. SizeOf(d) \in Nat /\ SizeOf(d) >= 1
  BY <1>3, Numbers DEF PacketOK
<1>6. taken["input"][d] \in Nat /\ sent(d) \in Nat /\ put["lzw_encode_out_flag"][d] \in Nat
  BY <1>3, Numbers DEF sent, Streams, LongStreams, ShortStreams
<1>7. is_unique[d] /\ encode.bound = chunk_bndry[d] /\ encode.last = StartOf(d)
  BY <1>1, <1>2 DEF EncodeInv, EncodeLocals
<1>8. EncodeHere(d)
  BY <1>1, <1>2 DEF EncodeInv, EncodeCodes
<1> QED
  BY <1>1, <1>3, <1>4, <1>5, <1>6, <1>7, <1>8 DEF EncodeType

(* A step from one place of the coding to another keeps what is known of the chunk  *)
(* and of the bounds, kinds and headers.                                        *)
LEMMA EncodeStays ==
  ASSUME IInv, UNCHANGED packet, encode.pc \in Encoding, NEW p \in Encoding, NEW l \in Nat,
         encode' = [encode EXCEPT !.pc = p, !.left = l],
         \A s \in {"uniques_2", "head_2"} : put'[s] = put[s],
         \A s \in {"boundaries_1", "uniques_1", "head_1"} : taken'[s] = taken[s]
  PROVE  EncodeLocals' /\ EncodeInfos' /\ encode' \in EncodeType
<1> PICK d : d = encode.chunk
  OBVIOUS
<1>0. d \in Chunks /\ d \in Places /\ EncodeInv /\ encode \in EncodeType /\ d \in Nat
  BY EncodingAt
<1>d. /\ num_chunks' = num_chunks /\ Chunks' = Chunks
      /\ chunk_bndry' = chunk_bndry /\ is_unique' = is_unique
      /\ \A c \in Places : StartOf(c)' = StartOf(c)
      /\ \A c \in Chunks : c \in Nat
  BY PacketKept, Numbers
<1>1. encode' \in EncodeType /\ encode'.chunk = d /\ encode'.pc = p
  BY <1>0 DEF EncodeType, EncodePcs, Encoding
<1>2. EncodeLocals'
  <2>1. StartOf(encode.chunk)' = StartOf(encode.chunk)
    BY <1>0, <1>d, <1>1
  <2> QED
    BY <1>0, <1>d, <1>1, <2>1 DEF EncodeInv, EncodeLocals, Encoding, EncodeType, dup_chunk_head
<1>3. EncodeInfos'
  BY <1>0, <1>d, <1>1 DEF EncodeInv, EncodeInfos, OnePut, OneTaken, Past, Encoding
<1> QED
  BY <1>1, <1>2, <1>3

(* lzw_encode() reads a byte of its chunk. *)
LEMMA EncodeByteStep ==
  ASSUME IInv, UNCHANGED <<packet, load, pack, store, output>>, Take("input"),
         NEW p \in {"input", "flag"}, NEW l \in Nat, encode' = [encode EXCEPT !.pc = p, !.left = l],
         \/ encode.pc = "first" /\ p = "input" /\ l = encode.left
         \/ encode.pc = "input" /\ encode.left > 1 /\ l = encode.left - 1
  PROVE  IInv'
<1> PICK d : d = encode.chunk
  OBVIOUS
<1>0. encode.pc \in Encoding
  BY DEF Encoding
<1>1. /\ d \in Chunks /\ d \in Nat /\ d \in Places
      /\ EncodeInv /\ encode \in EncodeType /\ is_unique[d] /\ EncodeHere(d)
      /\ SizeOf(d) \in Nat /\ SizeOf(d) >= 1 /\ encode.left \in Nat
      /\ taken["input"][d] \in Nat /\ sent(d) \in Nat /\ put["lzw_encode_out_flag"][d] \in Nat
  BY <1>0, EncodingAt
<1>2. encode'.chunk = d /\ encode'.pc = p /\ encode'.left = l
  BY <1>1 DEF EncodeType
<1>3. taken["input"][d] < SizeOf(d) /\ l <= SizeOf(d) /\ l >= 1
      /\ taken["input"][d] + 1 = SizeOf(d) + 1 - l
  <2>1. CASE encode.pc = "first"
    <3>1. taken["input"][d] = 0
      BY <2>1, <1>1 DEF EncodeInv, EncodeCodes, EncodeAhead, Encoding
    <3> QED
      BY <2>1, <3>1, <1>1 DEF EncodeHere
  <2>2. CASE encode.pc = "input"
    BY <2>2, <1>1 DEF EncodeHere, Encoding, Taken
  <2> QED
    BY <2>1, <2>2
<1>4. EncodeDue("input", d) /\ "input" \in EncodeIn
  BY <1>1, <1>3 DEF EncodeDue, EncodeIn
<1>5. /\ put' = put
      /\ taken'["input"][d] = taken["input"][d] + 1
      /\ \A c \in Chunks : c # d => taken'["input"][c] = taken["input"][c]
      /\ \A x \in Streams : x # "input" => taken'[x] = taken[x]
  BY <1>1, <1>2, <1>4, EncodeTakes
<1>6. EncodeLocals' /\ EncodeInfos' /\ encode' \in EncodeType
  <2>1. \A s \in {"boundaries_1", "uniques_1", "head_1"} : taken'[s] = taken[s]
    BY <1>5 DEF Streams, ShortStreams
  <2>2. p \in Encoding
    BY DEF Encoding
  <2> QED
    BY <2>1, <2>2, <1>0, <1>5, EncodeStays
<1>7. \A c \in Chunks : sent(c)' = sent(c)
  BY <1>5 DEF sent
<1>8. SizeOf(d)' = SizeOf(d)
  BY <1>1, Numbers, PacketKept
<1>9. EncodeHere(d)'
  <2>1. put["lzw_encode_out_flag"][d] = sent(d) /\ sent(d) + l + (IF p = "flag" THEN 1 ELSE 0) <= SizeOf(d)
    <3>1. CASE encode.pc = "first"
      <4>1. sent(d) = 0 /\ put["lzw_encode_out_flag"][d] = 0
        BY <3>1, <1>1 DEF EncodeInv, EncodeCodes, EncodeAhead, Encoding
      <4> QED
        BY <4>1, <3>1, <1>1, <1>3
    <3>2. CASE encode.pc = "input"
      BY <3>2, <1>1 DEF EncodeHere, Encoding
    <3> QED
      BY <3>1, <3>2
  <2> QED
    BY <1>1, <1>2, <1>3, <1>5, <1>7, <1>8, <2>1 DEF EncodeHere, Encoding, Taken
<1>10. EncodeAhead(d)'
  BY <1>1, <1>2 DEF EncodeAhead, Encoding
<1>11. EncodeCodes'
  BY <1>1, <1>2, <1>5, <1>7, <1>9, <1>10, EncodeCodesMoved
<1> QED
  BY <1>1, <1>2, <1>4, <1>6, <1>11, EncodeReads DEF EncodeInv

(* lzw_encode() turns to the last code of its chunk, which needs no more bytes. *)
LEMMA EncodeLastStep ==
  ASSUME IInv, UNCHANGED <<packet, load, pack, store, output>>, UNCHANGED flow,
         encode.pc = "input", encode.left <= 1, encode' = [encode EXCEPT !.left = 0, !.pc = "flag"]
  PROVE  IInv'
<1> PICK d : d = encode.chunk
  OBVIOUS
<1>0. encode.pc \in Encoding /\ put' = put /\ taken' = taken /\ streams' = streams
  BY DEF Encoding, flow
<1>1. /\ d \in Chunks /\ d \in Nat /\ d \in Places
      /\ EncodeInv /\ encode \in EncodeType /\ is_unique[d] /\ EncodeHere(d)
      /\ SizeOf(d) \in Nat /\ SizeOf(d) >= 1 /\ encode.left \in Nat
      /\ taken["input"][d] \in Nat /\ sent(d) \in Nat /\ put["lzw_encode_out_flag"][d] \in Nat
  BY <1>0, EncodingAt
<1>2. encode'.chunk = d /\ encode'.pc = "flag" /\ encode'.left = 0
  BY <1>1 DEF EncodeType
<1>3. EncodeLocals' /\ EncodeInfos' /\ encode' \in EncodeType
  <2>1. encode' = [encode EXCEPT !.pc = "flag", !.left = 0]
    BY <1>1 DEF EncodeType
  <2> QED
    BY <1>0, <2>1, EncodeStays DEF Encoding
<1>4. SizeOf(d)' = SizeOf(d) /\ \A c \in Chunks : sent(c)' = sent(c) /\ made(c)' = made(c)
  BY <1>0, <1>1, Numbers, PacketKept DEF sent, made
<1>5. EncodeHere(d)'
  BY <1>0, <1>1, <1>2, <1>4 DEF EncodeHere, Encoding, Taken
<1>6. EncodeAhead(d)'
  BY <1>1, <1>2 DEF EncodeAhead, Encoding
<1>7. EncodeCodes'
  BY <1>0, <1>1, <1>2, <1>4, <1>5, <1>6, EncodeCodesMoved
<1>8. Flows
  <2>1. PacketOK /\ FlowOK /\ Fifo /\ Meaning
    BY DEF IInv, TypeOK
  <2>2. Chunks' = Chunks /\ num_chunks' = num_chunks /\ \A s \in Streams : Element(s)' = Element(s)
    BY <2>1, PacketKept
  <2>3. FlowOK' /\ Fifo'
    BY <1>0, <2>1, <2>2 DEF FlowOK, Fifo
  <2>4. Meaning'
    BY <1>0, <1>1, <1>2, <2>1 DEF Meaning, Meant, packet, StartOf
  <2> QED
    BY <2>3, <2>4 DEF Flows
<1>9. /\ d <= load.chunk
      /\ \A c \in Chunks : ~ (c >= encode.chunk /\ c < encode'.chunk)
      /\ \A c \in Chunks : c < encode'.chunk => taken["input"][c] = put["input"][c]
  BY <1>1, <1>2, Numbers DEF IInv, Passed
<1> QED
  BY <1>0, <1>1, <1>2, <1>3, <1>4, <1>7, <1>8, <1>9, ByEncode DEF EncodeInv

(* lzw_encode() announces a code, or writes the code it announced. *)
LEMMA EncodeOutStep ==
  ASSUME IInv, EncodeFlag \/ EncodeCode, UNCHANGED <<packet, load, pack, store, output>>
  PROVE  IInv'
<1> PICK d : d = encode.chunk
  OBVIOUS
<1>0. encode.pc \in Encoding
  BY DEF Encoding, EncodeFlag, EncodeCode
<1>1. /\ d \in Chunks /\ d \in Nat /\ d \in Places
      /\ EncodeInv /\ encode \in EncodeType /\ is_unique[d] /\ EncodeHere(d)
      /\ SizeOf(d) \in Nat /\ SizeOf(d) >= 1 /\ encode.left \in Nat
      /\ taken["input"][d] \in Nat /\ sent(d) \in Nat /\ put["lzw_encode_out_flag"][d] \in Nat
  BY <1>0, EncodingAt
<1>2. PICK s, p, v : /\ encode' = [encode EXCEPT !.pc = p] /\ Put(s, d, v)
                     /\ \/ EncodeFlag /\ s = "lzw_encode_out_flag" /\ p = "code" /\ v = 1
                        \/ EncodeCode /\ s = "lzw_encode_out" /\ v = d
                           /\ p = IF encode.left = 0 THEN "end" ELSE "input"
  BY DEF EncodeFlag, EncodeCode
<1>3. /\ s \in EncodeOut /\ s \in Streams /\ p \in Encoding /\ v \in Values(s)
      /\ s \in {"lzw_encode_out", "lzw_encode_out_flag"}
  BY <1>1, <1>2 DEF EncodeOut, Streams, LongStreams, ShortStreams, Encoding, Values
<1>4. encode'.chunk = d /\ encode'.pc = p /\ encode'.left = encode.left
      /\ encode' = [encode EXCEPT !.pc = p, !.left = encode.left]
  BY <1>1, <1>2 DEF EncodeType
<1>5. /\ put'[s][d] = put[s][d] + 1 /\ taken' = taken
      /\ \A c \in Chunks : c # d => put'[s][c] = put[s][c]
      /\ \A x \in Streams : x # s => put'[x] = put[x]
  BY <1>1, <1>2, <1>3, Numbers, PutCounts
<1>6. EncodeLocals' /\ EncodeInfos' /\ encode' \in EncodeType
  <2>1. \A x \in {"uniques_2", "head_2"} : put'[x] = put[x]
    BY <1>3, <1>5 DEF Streams, ShortStreams
  <2> QED
    BY <1>0, <1>1, <1>3, <1>4, <1>5, <2>1, EncodeStays
<1>7. SizeOf(d)' = SizeOf(d)
  BY <1>1, Numbers, PacketKept
<1>8. EncodeHere(d)'
  <2>1. CASE EncodeFlag
    <3>1. encode.pc = "flag" /\ s = "lzw_encode_out_flag" /\ p = "code"
      BY <2>1, <1>2 DEF EncodeFlag, EncodeCode
    <3>2. /\ put'["lzw_encode_out_flag"][d] = put["lzw_encode_out_flag"][d] + 1
          /\ sent(d)' = sent(d)
      BY <3>1, <1>5 DEF sent, Streams, LongStreams
    <3> QED
      BY <3>1, <3>2, <1>1, <1>4, <1>5, <1>7 DEF EncodeHere, Encoding, Taken
  <2>2. CASE EncodeCode
    <3>1. encode.pc = "code" /\ s = "lzw_encode_out" /\ p = IF encode.left = 0 THEN "end" ELSE "input"
      BY <2>2, <1>2 DEF EncodeFlag, EncodeCode
    <3>2. /\ put'["lzw_encode_out_flag"][d] = put["lzw_encode_out_flag"][d]
          /\ sent(d)' = sent(d) + 1
      BY <3>1, <1>5 DEF sent, Streams, ShortStreams
    <3> QED
      BY <3>1, <3>2, <1>1, <1>4, <1>5, <1>7 DEF EncodeHere, Encoding, Taken
  <2> QED
    BY <2>1, <2>2
<1>9. EncodeAhead(d)'
  <2>1. p # "first"
    BY <1>2
  <2> QED
    BY <2>1, <1>1, <1>3, <1>4 DEF EncodeAhead
<1>10. EncodeCodes'
  <2>1. \A c \in Chunks : c # d => sent(c)' = sent(c)
                              /\ put'["lzw_encode_out_flag"][c] = put["lzw_encode_out_flag"][c]
    BY <1>3, <1>5 DEF sent, Streams, LongStreams, ShortStreams
  <2> QED
    BY <2>1, <1>1, <1>4, <1>5, <1>8, <1>9, EncodeCodesMoved
<1>11. PICK k \in Nat : k = put[s][d] + 1
  BY <1>1, <1>3, Numbers
<1>12. v = Meant(s, d, k)'
  BY <1>1, <1>2, <1>4 DEF Meant, What
<1>13. ~ (encode'.chunk = d + 1)
  BY <1>1, <1>4
<1> QED
  BY <1>1, <1>2, <1>3, <1>4, <1>6, <1>10, <1>11, <1>12, <1>13, EncodeWrites DEF EncodeInv

(* When lzw_encode() has all bytes of its chunk, load() has left it. *)
LEMMA AllBytesTaken ==
  ASSUME IInv, NEW d \in Chunks, is_unique[d], taken["input"][d] = SizeOf(d)
  PROVE  d < load.chunk /\ put["input"][d] = taken["input"][d]
<1>1. /\ d \in Nat /\ load.chunk \in Nat /\ LoadInv /\ load.j \in Nat
      /\ StartOf(d) \in Nat /\ chunk_bndry[d] \in Nat /\ SizeOf(d) = chunk_bndry[d] + 1 - StartOf(d)
      /\ SizeOf(d) \in Nat /\ SizeOf(d) >= 1
  BY Numbers, NextStart DEF IInv, FunctionsOK, PacketOK
<1>2. put["input"][d] >= SizeOf(d)
  BY Numbers DEF Streams, LongStreams
<1>3. ~ (d > load.chunk)
  BY <1>1, <1>2 DEF LoadInv
<1>4. d # load.chunk
  <2> SUFFICES ASSUME d = load.chunk PROVE FALSE
    OBVIOUS
  <2>1. put["input"][d] = load.j - StartOf(d)
    BY <1>1 DEF LoadInv
  <2>2. CASE load.pc = "input"
    <3>1. load.j \in StartOf(d) .. chunk_bndry[d]
      BY <2>2, <1>1 DEF LoadInv
    <3> QED
      BY <3>1, <2>1, <1>1, <1>2
  <2>3. CASE load.pc # "input"
    <3>1. load.j = StartOf(d)
      BY <2>3, <1>1 DEF LoadInv
    <3> QED
      BY <3>1, <2>1, <1>1, <1>2
  <2> QED
    BY <2>2, <2>3
<1> QED
  BY <1>1, <1>3, <1>4 DEF LoadInv

(* lzw_encode() writes the flag that ends its chunk. *)
LEMMA EncodeEndStep ==
  ASSUME IInv, EncodeEnd, UNCHANGED <<packet, load, pack, store, output>>
  PROVE  IInv'
<1> PICK d : d = encode.chunk
  OBVIOUS
<1>0. encode.pc \in Encoding /\ encode.pc = "end"
  BY DEF Encoding, EncodeEnd
<1>1. /\ d \in Chunks /\ d \in Nat /\ d \in Places /\ d + 1 \in Places
      /\ EncodeInv /\ encode \in EncodeType /\ is_unique[d] /\ EncodeHere(d)
      /\ SizeOf(d) \in Nat /\ SizeOf(d) >= 1 /\ encode.left \in Nat
      /\ taken["input"][d] \in Nat /\ sent(d) \in Nat /\ put["lzw_encode_out_flag"][d] \in Nat
      /\ encode.bound = chunk_bndry[d]
  BY <1>0, EncodingAt
<1>c. StartOf(d + 1) = LastBoundary(chunk_bndry[d]) /\ StartOf(d + 1) \in Nat /\ num_chunks \in Nat
  BY <1>1, NextStart, Numbers DEF PacketOK
<1>d. /\ num_chunks' = num_chunks /\ Chunks' = Chunks
      /\ chunk_bndry' = chunk_bndry /\ is_unique' = is_unique
      /\ \A c \in Chunks : SizeOf(c)' = SizeOf(c)
      /\ \A c \in Places : StartOf(c)' = StartOf(c)
  BY PacketKept, Numbers
<1>e. \A c \in Chunks : c \in Nat
  BY Numbers
<1>2. /\ taken["input"][d] = SizeOf(d) /\ put["lzw_encode_out_flag"][d] = sent(d) /\ sent(d) <= SizeOf(d)
  BY <1>0, <1>1 DEF EncodeHere, Encoding, Taken
<1>3. d < load.chunk /\ put["input"][d] = taken["input"][d]
  BY <1>1, <1>2, AllBytesTaken
<1>4. "lzw_encode_out_flag" \in EncodeOut /\ "lzw_encode_out_flag" \in Streams
      /\ 0 \in Values("lzw_encode_out_flag")
  BY DEF EncodeOut, Streams, ShortStreams, Values
<1>5. Put("lzw_encode_out_flag", d, 0) /\ encode' = EncodeNext(encode)
  BY DEF EncodeEnd
<1>6. /\ put'["lzw_encode_out_flag"][d] = put["lzw_encode_out_flag"][d] + 1 /\ taken' = taken
      /\ \A c \in Chunks : c # d => put'["lzw_encode_out_flag"][c] = put["lzw_encode_out_flag"][c]
      /\ \A x \in Streams : x # "lzw_encode_out_flag" => put'[x] = put[x]
  BY <1>1, <1>4, <1>5, Numbers, PutCounts
<1>7. \A c \in Chunks : sent(c)' = sent(c)
  BY <1>6 DEF sent, Streams, LongStreams
<1>a. put'["uniques_2"] = put["uniques_2"] /\ put'["head_2"] = put["head_2"]
  BY <1>6 DEF Streams, ShortStreams
<1>8. /\ encode' \in EncodeType /\ encode'.chunk = d + 1 /\ encode'.pc = AtChunk(d + 1, "boundaries_1")
      /\ encode'.last = StartOf(d + 1) /\ EncodeInfos'
      /\ encode'.pc \in {"boundaries_1", "done"} /\ (encode'.pc = "done" <=> d + 1 = num_chunks + 1)
  BY <1>0, <1>1, <1>5, <1>6, <1>a, EncodeLeaves
<1>9. encode'.pc \in {"boundaries_1", "done"} /\ (encode'.pc = "done" <=> d + 1 = num_chunks + 1)
  BY <1>8
<1>10. EncodeLocals'
  <2>1. StartOf(encode.chunk)' = StartOf(d + 1)
    BY <1>1, <1>d, <1>8
  <2> QED
    BY <2>1, <1>d, <1>8, <1>9 DEF EncodeLocals, Encoding
<1>11. EncodeInfos'
  BY <1>8
<1>12. EncodeCodes'
  <2>1. EncodeBehind(d)'
    BY <1>1, <1>2, <1>d, <1>6, <1>7 DEF EncodeBehind
  <2>2. encode'.pc \notin Encoding
    BY <1>9 DEF Encoding
  <2> QED
    BY <2>1, <2>2, <1>1, <1>6, <1>7, <1>8, EncodeCodesMoved
<1>13. PICK k \in Nat : k = put["lzw_encode_out_flag"][d] + 1
  BY <1>1
<1>14. 0 = Meant("lzw_encode_out_flag", d, k)'
  <2>1. k = put'["lzw_encode_out"][d] + 1
    BY <1>1, <1>2, <1>7, <1>13 DEF sent
  <2>2. d < encode'.chunk
    BY <1>1, <1>8
  <2> QED
    BY <2>1, <2>2 DEF Meant, What
<1>15. put["lzw_encode_out_flag"][d] <= sent(d)'
  BY <1>1, <1>2, <1>7
<1> QED
  BY <1>1, <1>3, <1>4, <1>5, <1>8, <1>10, <1>11, <1>12, <1>13, <1>14, <1>15, EncodeWrites DEF EncodeInv

(* A step of lzw_encode(). *)
LEMMA EncodeStepKeeps == IInv /\ EncodeStep => IInv'
<1> SUFFICES ASSUME IInv, EncodeStep PROVE IInv'
  OBVIOUS
<1>0. UNCHANGED <<packet, load, pack, store, output>>
  BY DEF EncodeStep
<1>l. encode.left \in Nat /\ encode = [encode EXCEPT !.left = encode.left] /\ encode \in EncodeType
  BY Numbers DEF FunctionsOK, EncodeType
<1>1. CASE EncodeInfo
  BY <1>0, <1>1, EncodeInfoStep
<1>2. CASE EncodeFirst
  <2>1. encode' = [encode EXCEPT !.pc = "input", !.left = encode.left] /\ Take("input") /\ encode.pc = "first"
    BY <1>2, <1>l DEF EncodeFirst, EncodeType
  <2> QED
    BY <2>1, <1>0, <1>l, EncodeByteStep
<1>3. CASE EncodeData
  <2>1. CASE encode.left > 1 /\ Take("input")
             /\ \E next \in {"flag", "input"} : encode' = [encode EXCEPT !.left = @ - 1, !.pc = next]
    <3>1. PICK p \in {"flag", "input"} : encode' = [encode EXCEPT !.left = @ - 1, !.pc = p]
      BY <2>1
    <3>2. PICK l \in Nat : l = encode.left - 1
      BY <2>1, <1>l
    <3>3. encode' = [encode EXCEPT !.pc = p, !.left = l]
      BY <3>1, <3>2, <1>l DEF EncodeType
    <3>4. encode.pc = "input"
      BY <1>3 DEF EncodeData
    <3> QED
      BY <2>1, <3>2, <3>3, <3>4, <1>0, EncodeByteStep
  <2>2. CASE encode.left <= 1 /\ encode' = [encode EXCEPT !.left = 0, !.pc = "flag"] /\ UNCHANGED flow
    BY <2>2, <1>0, <1>3, EncodeLastStep DEF EncodeData
  <2> QED
    BY <1>3, <2>1, <2>2 DEF EncodeData
<1>4. CASE EncodeFlag \/ EncodeCode
  BY <1>0, <1>4, EncodeOutStep
<1>5. CASE EncodeEnd
  BY <1>0, <1>5, EncodeEndStep
<1> QED
  BY <1>1, <1>2, <1>3, <1>4, <1>5 DEF EncodeStep

-----------------------------------------------------------------------------
(* bit_pack(): how many bytes the codes make *)

(* The bytes and bits of t codes are numbers. *)
LEMMA CodeBits ==
  ASSUME NEW t \in Nat
  PROVE  /\ t * CODE_LENGTH \in Nat
         /\ t * CODE_LENGTH = BYTE_BITS * Whole(t) + Rest(t)
         /\ Whole(t) \in Nat /\ Rest(t) \in Nat /\ Rest(t) \in 0 .. BYTE_BITS - 1
         /\ BYTE_BITS * Whole(t) \in Nat
<1>1. BYTE_BITS \in Nat \ {0} /\ CODE_LENGTH \in Nat
  BY BitsAssumption
<1>2. t * CODE_LENGTH \in Nat
  BY <1>1, SMT
<1>3. PICK a \in Nat : a = t * CODE_LENGTH
  BY <1>2
<1>4. a = BYTE_BITS * (a \div BYTE_BITS) + (a % BYTE_BITS) /\ a \div BYTE_BITS \in Nat
      /\ a % BYTE_BITS \in 0 .. BYTE_BITS - 1
  BY <1>1, <1>3, DivMod
<1>5. a % BYTE_BITS \in Nat
  BY <1>1, <1>4
<1>6. BYTE_BITS * (a \div BYTE_BITS) \in Nat
  BY <1>1, <1>4, SMT
<1> QED
  BY <1>2, <1>3, <1>4, <1>5, <1>6 DEF Whole, Rest

(* One more code: its whole bytes are added, at least one. *)
LEMMA OneMoreCode ==
  ASSUME NEW t \in Nat, NEW x, x = Rest(t) + CODE_LENGTH
  PROVE  /\ Whole(t + 1) = Whole(t) + WholeBytes(x)
         /\ Rest(t + 1) = Rem(x)
         /\ WholeBytes(x) \in Nat /\ WholeBytes(x) >= 1 /\ Rem(x) \in Nat
<1>0. BYTE_BITS \in Nat \ {0} /\ CODE_LENGTH \in Nat /\ CODE_LENGTH >= BYTE_BITS
  BY BitsAssumption
<1>1. /\ t * CODE_LENGTH = BYTE_BITS * Whole(t) + Rest(t)
      /\ Whole(t) \in Nat /\ Rest(t) \in Nat /\ t * CODE_LENGTH \in Nat /\ BYTE_BITS * Whole(t) \in Nat
  BY CodeBits
<1>2. /\ (t + 1) * CODE_LENGTH = BYTE_BITS * Whole(t + 1) + Rest(t + 1)
      /\ Whole(t + 1) \in Nat /\ Rest(t + 1) \in 0 .. BYTE_BITS - 1
  BY CodeBits
<1>3. (t + 1) * CODE_LENGTH = t * CODE_LENGTH + CODE_LENGTH
  BY <1>0, SMT
<1>4. x \in Nat /\ x >= BYTE_BITS
  BY <1>0, <1>1
<1>5. /\ x = BYTE_BITS * WholeBytes(x) + Rem(x) /\ WholeBytes(x) \in Nat /\ Rem(x) \in 0 .. BYTE_BITS - 1
  BY <1>0, <1>4, DivMod DEF WholeBytes, Rem
<1>6. WholeBytes(x) >= 1
  <2> SUFFICES ASSUME WholeBytes(x) = 0 PROVE FALSE
    BY <1>5
  <2>1. BYTE_BITS * WholeBytes(x) = 0
    BY <1>0
  <2> QED
    BY <2>1, <1>0, <1>4, <1>5
<1>7. PICK w \in Nat, v \in Nat, p \in Nat, r \in 0 .. BYTE_BITS - 1, s \in 0 .. BYTE_BITS - 1 :
        w = Whole(t) /\ v = WholeBytes(x) /\ p = Whole(t + 1) /\ r = Rest(t + 1) /\ s = Rem(x)
  BY <1>1, <1>2, <1>5
<1>8. BYTE_BITS * (w + v) = BYTE_BITS * w + BYTE_BITS * v /\ BYTE_BITS * v \in Nat /\ BYTE_BITS * w \in Nat
  BY <1>0, SMT
<1>9. BYTE_BITS * p + r = BYTE_BITS * (w + v) + s
  BY <1>0, <1>1, <1>2, <1>3, <1>5, <1>7, <1>8
<1>10. w + v \in Nat
  OBVIOUS
<1>11. p = w + v /\ r = s
  BY <1>0, <1>9, <1>10, QuotientRemainder
<1> QED
  BY <1>5, <1>6, <1>7, <1>11

(* The bytes of a chunk of t codes: whole ones, and one for the bits left. *)
LEMMA SizeIsPacked ==
  ASSUME NEW t \in Nat
  PROVE  /\ PackedSize(t) = IF Rest(t) # 0 THEN Whole(t) + 1 ELSE Whole(t)
         /\ PackedSize(t) \in Nat
<1>0. BYTE_BITS \in Nat \ {0} /\ CODE_LENGTH \in Nat
  BY BitsAssumption
<1>1. PICK a \in Nat, w \in Nat, r \in 0 .. BYTE_BITS - 1 :
        a = t * CODE_LENGTH /\ w = Whole(t) /\ r = Rest(t) /\ a = BYTE_BITS * w + r
        /\ BYTE_BITS * w \in Nat
  BY CodeBits
<1>2. PICK x \in Nat : x = a + BYTE_BITS - 1
  BY <1>0
<1>3. PICK p \in Nat, s \in 0 .. BYTE_BITS - 1 : x = BYTE_BITS * p + s /\ p = x \div BYTE_BITS
  BY <1>0, DivMod
<1>4. PackedSize(t) = p
  BY <1>1, <1>2, <1>3 DEF PackedSize
<1>5. CASE r = 0
  <2>1. BYTE_BITS * p + s = BYTE_BITS * w + (BYTE_BITS - 1) /\ BYTE_BITS - 1 \in 0 .. BYTE_BITS - 1
    BY <1>0, <1>1, <1>2, <1>3, <1>5
  <2>2. p = w
    BY <2>1, <1>0, QuotientRemainder
  <2> QED
    BY <2>2, <1>1, <1>4, <1>5
<1>6. CASE r # 0
  <2>1. BYTE_BITS * (w + 1) = BYTE_BITS * w + BYTE_BITS
    BY <1>0, SMT
  <2>a. PICK u \in Nat : u = BYTE_BITS * w
    BY <1>1
  <2>b. PICK v : v = BYTE_BITS * (w + 1)
    OBVIOUS
  <2>c. PICK y : y = BYTE_BITS * p
    OBVIOUS
  <2>d. a = u + r /\ v = u + BYTE_BITS /\ x = y + s /\ x = a + BYTE_BITS - 1
    BY <1>1, <1>2, <1>3, <2>1, <2>a, <2>b, <2>c
  <2>e. r - 1 \in 0 .. BYTE_BITS - 1 /\ w + 1 \in Nat
    BY <1>0, <1>6
  <2>f. y + s = v + (r - 1)
    BY <1>0, <2>d
  <2>2. BYTE_BITS * p + s = BYTE_BITS * (w + 1) + (r - 1) /\ r - 1 \in 0 .. BYTE_BITS - 1 /\ w + 1 \in Nat
    BY <2>b, <2>c, <2>e, <2>f
  <2>3. p = w + 1
    BY <2>2, <1>0, QuotientRemainder
  <2> QED
    BY <2>3, <1>1, <1>4, <1>6
<1> QED
  BY <1>5, <1>6

(* More codes make no fewer bytes. *)
LEMMA PackedGrows ==
  ASSUME NEW m \in Nat, NEW n \in Nat, m <= n
  PROVE  PackedSize(m) <= PackedSize(n)
<1>0. BYTE_BITS \in Nat \ {0} /\ CODE_LENGTH \in Nat
  BY BitsAssumption
<1>1. m * CODE_LENGTH \in Nat /\ n * CODE_LENGTH \in Nat
  BY CodeBits
<1>2. m * CODE_LENGTH <= n * CODE_LENGTH
  BY <1>0, SMT
<1>3. PICK a \in Nat, b \in Nat : a = m * CODE_LENGTH + BYTE_BITS - 1 /\ b = n * CODE_LENGTH + BYTE_BITS - 1
                                 /\ a <= b
  BY <1>0, <1>1, <1>2
<1>4. PICK p \in Nat, r \in 0 .. BYTE_BITS - 1 : a = BYTE_BITS * p + r /\ p = PackedSize(m)
  BY <1>0, <1>3, DivMod DEF PackedSize
<1>5. PICK q \in Nat, s \in 0 .. BYTE_BITS - 1 : b = BYTE_BITS * q + s /\ q = PackedSize(n)
  BY <1>0, <1>3, DivMod DEF PackedSize
<1> SUFFICES ASSUME p > q PROVE FALSE
  BY <1>4, <1>5
<1>6. PICK k \in Nat : p = q + k /\ k >= 1
  <2>1. p - q \in Nat /\ p = q + (p - q) /\ p - q >= 1
    OBVIOUS
  <2> QED
    BY <2>1
<1>7. BYTE_BITS * k >= BYTE_BITS /\ BYTE_BITS * k \in Nat
  BY <1>0, <1>6, MultipleAtLeast
<1>8. BYTE_BITS * (q + k) = BYTE_BITS * q + BYTE_BITS * k /\ BYTE_BITS * q \in Nat
  BY <1>0, SMT
<1> QED
  BY <1>0, <1>3, <1>4, <1>5, <1>6, <1>7, <1>8

(* No codes, no bytes. *)
LEMMA NoCodes == Whole(0) = 0 /\ Rest(0) = 0
<1>0. BYTE_BITS \in Nat \ {0} /\ CODE_LENGTH \in Nat
  BY BitsAssumption
<1>1. 0 = BYTE_BITS * Whole(0) + Rest(0) /\ Whole(0) \in Nat /\ Rest(0) \in 0 .. BYTE_BITS - 1
  <2>1. 0 * CODE_LENGTH = 0
    BY <1>0, SMT
  <2> QED
    BY <2>1, CodeBits
<1>2. BYTE_BITS * 0 + 0 = 0
  BY <1>0
<1>3. BYTE_BITS * Whole(0) + Rest(0) = BYTE_BITS * 0 + 0 /\ 0 \in 0 .. BYTE_BITS - 1
  BY <1>0, <1>1, <1>2
<1> QED
  BY <1>0, <1>1, <1>3, QuotientRemainder

-----------------------------------------------------------------------------
(* bit_pack() *)

(* bit_pack() writes something that is right for its chunk, and leaves the chunk    *)
(* only when it has taken all of its codes and written the last flag.            *)
LEMMA PackWrites ==
  ASSUME IInv, UNCHANGED <<packet, load, encode, store, output>>,
         NEW s \in PackOut, NEW d \in Chunks, d = pack.chunk, NEW v \in Values(s), Put(s, d, v),
         NEW k \in Nat, k = put[s][d] + 1, v = Meant(s, d, k)',
         pack' \in PackType, pack'.chunk = d \/ pack'.chunk = d + 1, pack'.pc # "code",
         pack'.chunk = d + 1 => /\ d < encode.chunk /\ packed(d) = sent(d)
                                /\ taken["lzw_encode_out_flag"][d] = put["lzw_encode_out_flag"][d]
                                /\ put["bit_pack_out_flag"][d] <= made(d)',
         PackInv'
  PROVE  IInv'
<1>1. s \in Streams /\ s \notin LoadOut \cup EncodeOut
  BY StreamsSplit DEF LoadOut, EncodeOut, PackOut
<1>2. put' \in [Streams -> [Chunks -> Nat]]
  BY <1>1, Numbers, CountTypes
<1>3. /\ taken' = taken
      /\ \A c \in Chunks : c # d => put'[s][c] = put[s][c]
      /\ \A x \in Streams : x # s => put'[x] = put[x]
  BY <1>1, Numbers, PutCounts
<1>4. \A c \in Chunks : c # d => made(c)' = made(c)
                              /\ put'["bit_pack_out_flag"][c] = put["bit_pack_out_flag"][c]
  BY <1>1, <1>3 DEF made, Streams, LongStreams, ShortStreams
<1>5. \A x \in LoadOut \cup EncodeOut : put'[x] = put[x]
  BY <1>1, <1>3, StreamsSplit
<1>6. \A c \in Chunks : sent(c)' = sent(c)
  BY <1>5 DEF sent, EncodeOut
<1>7. /\ pack.chunk \in Nat /\ pack'.chunk \in Nat /\ pack.chunk <= pack'.chunk
      /\ pack'.chunk <= encode.chunk /\ d \in Nat
  BY Numbers
<1>8. \A c \in Chunks : c >= pack.chunk /\ c < pack'.chunk => c = d /\ pack'.chunk = d + 1
  BY <1>7, Numbers
<1>9. \A c \in Chunks : c < pack.chunk => c # d
  BY <1>7, Numbers
<1>10. MeantKept
  BY <1>2, <1>4, <1>6, <1>7, <1>8, <1>9, Numbers, MeantKeeps
<1>11. \A c \in Chunks : c > d => put[s][c] = 0
  <2>1. \A c \in Chunks : c > d => c # pack.chunk /\ ~ (c < pack.chunk)
    BY Numbers
  <2> QED
    BY <2>1, Numbers
    DEF IInv, PackInv, PackInfos, PackBytes, PackAhead, PackOut, OnePut, Past, made
<1>12. Flows
  BY <1>1, <1>10, <1>11, Numbers, PutStep DEF Flows, IInv
<1>13. \A c \in Chunks : c < pack'.chunk => /\ packed(c)' = sent(c)
                                           /\ taken'["lzw_encode_out_flag"][c] = put["lzw_encode_out_flag"][c]
  <2>1. \A c \in Chunks : c < pack'.chunk => c < pack.chunk \/ (c = d /\ pack'.chunk = d + 1)
    BY <1>7, <1>8, Numbers
  <2> QED
    BY <2>1, <1>3 DEF IInv, Passed, packed, sent
<1> QED
  BY <1>3, <1>4, <1>5, <1>7, <1>8, <1>9, <1>12, <1>13, ByPack

(* bit_pack() reads something of its chunk that it is due.                      *)
PackDue(s, d) ==
  IF s \in {"uniques_2", "head_2"} THEN taken[s][d] = 0
  ELSE d < encode.chunk => taken[s][d] < put[s][d]

(* Then it finds an element about its chunk in the stream. *)
LEMMA PackTakes ==
  ASSUME IInv, UNCHANGED <<packet, load, encode, store, output>>,
         NEW s \in PackIn, NEW d \in Chunks, d = pack.chunk, pack'.chunk = d, Take(s), PackDue(s, d)
  PROVE  /\ Flows /\ put' = put
         /\ taken'[s][d] = taken[s][d] + 1
         /\ \A c \in Chunks : c # d => taken'[s][c] = taken[s][c]
         /\ \A x \in Streams : x # s => taken'[x] = taken[x]
         /\ Peek(s) = Meant(s, d, taken[s][d] + 1)
         /\ Peek(s) \in Values(s) /\ taken[s][d] < put[s][d]
<1>1. s \in Streams
  BY DEF PackIn, Streams, LongStreams, ShortStreams
<1>2. put' = put
  BY DEF Take
<1>3. d \in Nat /\ \A c \in Chunks : ~ (c >= pack.chunk /\ c < pack'.chunk)
  BY Numbers
<1>4. MeantKept
  BY <1>2, <1>3, Numbers, MeantKeeps DEF FlowOK, sent, made
<1>5. \A c \in Chunks : c < d => taken[s][c] = put[s][c]
  <2> SUFFICES ASSUME NEW c \in Chunks, c < d PROVE taken[s][c] = put[s][c]
    OBVIOUS
  <2>1. CASE s \notin {"uniques_2", "head_2"}
    BY <2>1 DEF PackIn, IInv, Passed
  <2>2. CASE s \in {"uniques_2", "head_2"}
    <3>1. taken[s][c] = 1
      BY <2>2 DEF IInv, PackInv, PackInfos, OneTaken, Past
    <3>2. put[s][c] = 0 \/ put[s][c] = 1
      BY <2>2 DEF IInv, EncodeInv, EncodeInfos, OnePut
    <3>3. taken[s][c] <= put[s][c]
      BY <1>1, Numbers
    <3> QED
      BY <3>1, <3>2, <3>3
  <2> QED
    BY <2>1, <2>2
<1>6. \A c \in Chunks : c > d /\ taken[s][c] < put[s][c] => taken[s][d] < put[s][d]
  <2> SUFFICES ASSUME NEW c \in Chunks, c > d, taken[s][c] < put[s][c] PROVE taken[s][d] < put[s][d]
    OBVIOUS
  <2>0. c \in Nat /\ d \in Nat /\ encode.chunk \in Nat /\ put[s][c] # 0
    BY <1>1, Numbers
  <2>1. encode.chunk > d
    <3>1. ~ (c > encode.chunk)
      BY <2>0 DEF PackIn, IInv, EncodeInv, EncodeInfos, EncodeCodes, EncodeAhead, OnePut, Past, sent
    <3> QED
      BY <3>1, <2>0
  <2>2. CASE s \notin {"uniques_2", "head_2"}
    BY <2>1, <2>2, <2>0 DEF PackDue
  <2>3. CASE s \in {"uniques_2", "head_2"}
    <3>1. put[s][d] = 1
      BY <2>1, <2>3, <2>0 DEF IInv, EncodeInv, EncodeInfos, OnePut, Past
    <3> QED
      BY <3>1, <2>3 DEF PackDue
  <2> QED
    BY <2>2, <2>3
<1> QED
  BY <1>1, <1>2, <1>4, <1>5, <1>6, Numbers, TakeStep DEF Flows, IInv

(* A read keeps the invariant if it keeps bit_pack()'s part. *)
LEMMA PackReads ==
  ASSUME IInv, UNCHANGED <<packet, load, encode, store, output>>,
         NEW s \in PackIn, NEW d \in Chunks, d = pack.chunk, pack'.chunk = d, Take(s), PackDue(s, d),
         pack' \in PackType, PackInv',
         pack'.pc = "code" /\ d < encode.chunk => packed(d)' < sent(d)
  PROVE  IInv'
<1>1. /\ Flows /\ put' = put
      /\ \A c \in Chunks : c # d => taken'[s][c] = taken[s][c]
      /\ \A x \in Streams : x # s => taken'[x] = taken[x]
  BY PackTakes
<1>2. \A x \in EncodeIn \cup StoreIn : taken'[x] = taken[x]
  BY <1>1 DEF EncodeIn, PackIn, StoreIn, Streams, LongStreams, ShortStreams
<1>3. \A c \in Chunks : c < pack'.chunk => /\ packed(c)' = sent(c)
                                          /\ taken'["lzw_encode_out_flag"][c] = put["lzw_encode_out_flag"][c]
  <2>1. \A c \in Chunks : c < pack'.chunk => c # d /\ c < pack.chunk
    BY Numbers
  <2> QED
    BY <2>1, <1>1 DEF IInv, Passed, Streams, LongStreams, ShortStreams, packed, sent
<1>4. d \in Nat /\ d <= encode.chunk /\ \A c \in Chunks : ~ (c >= pack.chunk /\ c < pack'.chunk)
  BY Numbers
<1>5. \A c \in Chunks : sent(c)' = sent(c) /\ made(c)' = made(c)
  BY <1>1 DEF sent, made
<1>6. pack'.pc = "code" /\ pack'.chunk < encode.chunk => packed(pack.chunk)' < sent(pack.chunk)'
  BY <1>5
<1> QED
  BY <1>1, <1>2, <1>3, <1>4, <1>5, <1>6, ByPack

(* What is said of the bytes after a step at chunk d. *)
LEMMA PackBytesMoved ==
  ASSUME IInv, UNCHANGED <<packet, encode>>, NEW d \in Chunks, d = pack.chunk,
         NEW t, t = packed(d)',
         pack'.chunk = d \/ (pack'.chunk = d + 1 /\ pack'.pc \notin Packing),
         \A c \in Chunks : sent(c)' = sent(c),
         \A c \in Chunks : c # d =>
            /\ packed(c)' = packed(c) /\ made(c)' = made(c)
            /\ taken'["lzw_encode_out_flag"][c] = taken["lzw_encode_out_flag"][c]
            /\ put'["bit_pack_out_flag"][c] = put["bit_pack_out_flag"][c],
         pack'.chunk = d => PackAhead(d)' /\ PackHere(d, t)',
         pack'.chunk = d + 1 => PackBehind(d)'
  PROVE  PackBytes'
<1>0. /\ Chunks' = Chunks /\ is_unique' = is_unique /\ d \in Nat
      /\ \A c \in Chunks : c \in Nat
  BY Numbers, PacketKept
<1>1. ASSUME NEW c \in Chunks PROVE PackAhead(c)' /\ PackBehind(c)'
  <2>1. PackAhead(c) /\ PackBehind(c)
    BY DEF IInv, PackInv, PackBytes
  <2>2. CASE c < d
    <3>1. c # d /\ c < pack.chunk /\ ~ (c > pack'.chunk) /\ c # pack'.chunk
      BY <1>0, <2>2
    <3> QED
      BY <1>0, <2>1, <3>1 DEF PackAhead, PackBehind, PackedSize
  <2>3. CASE c > d
    <3>1. c # d /\ c > pack.chunk /\ ~ (c < pack'.chunk)
      BY <1>0, <2>3
    <3> QED
      BY <1>0, <2>1, <3>1 DEF PackAhead, PackBehind
  <2>4. CASE c = d
    <3>1. CASE pack'.chunk = d
      BY <1>0, <2>4, <3>1 DEF PackBehind
    <3>2. CASE pack'.chunk = d + 1
      BY <1>0, <2>4, <3>2 DEF PackAhead
    <3> QED
      BY <3>1, <3>2
  <2> QED
    BY <2>2, <2>3, <2>4, <1>0
<1>2. ASSUME pack'.pc # "done" PROVE PackHere(pack.chunk, packed(pack.chunk))'
  <2>1. CASE pack'.chunk = d
    BY <2>1
  <2>2. CASE pack'.pc \notin Packing
    BY <2>2 DEF PackHere, Packing
  <2> QED
    BY <2>1, <2>2
<1> QED
  BY <1>0, <1>1, <1>2 DEF PackBytes

(* bit_pack() leaves a chunk: where it is then, and what it has read and put. *)
LEMMA PackLeaves ==
  ASSUME IInv, UNCHANGED packet, NEW d \in Chunks, d = pack.chunk, pack' = PackNext(pack),
         pack.pc \in {"head_3", "end"}, taken' = taken,
         \A c \in Chunks : c # d => put'["head_3"][c] = put["head_3"][c],
         put'["uniques_3"] = put["uniques_3"],
         put'["head_3"][d] = IF pack.pc = "head_3" THEN put["head_3"][d] + 1 ELSE put["head_3"][d]
  PROVE  /\ pack' \in PackType /\ pack'.chunk = d + 1 /\ pack'.pc = AtChunk(d + 1, "uniques_2")
         /\ pack'.pc \in {"uniques_2", "done"}
         /\ pack'.pc = "done" <=> d + 1 = num_chunks + 1
         /\ PackInfos'
<1>0. PackInv /\ PacketOK /\ d \in Nat /\ num_chunks \in Nat /\ pack \in PackType
  BY Numbers DEF IInv, FunctionsOK, PackType
<1>1. PICK w : w = AtChunk(d + 1, "uniques_2")
  OBVIOUS
<1>2. /\ w \in {"uniques_2", "done"} /\ (w = "done" <=> d + 1 = num_chunks + 1)
      /\ d + 1 \in Chunks => w = "uniques_2"
  BY <1>0, <1>1, NextPlace
<1>3. PICK x \in Places : x = d + 1
  BY <1>0, NextStart
<1>4. pack' = [pack EXCEPT !.pc = w, !.chunk = x]
  BY <1>0, <1>1, <1>3 DEF PackNext
<1>5. w \in PackPcs
  BY <1>2 DEF PackPcs
<1>6. pack' \in PackType
  BY <1>0, <1>4, <1>5 DEF PackType
<1>7. pack'.chunk = d + 1 /\ pack'.pc = w
  BY <1>0, <1>3, <1>4 DEF PackType
<1>8. /\ OneEach(taken["uniques_2"], pack, {"uniques_2"})
      /\ OneEach(taken["head_2"], pack, {"uniques_2", "head_2"})
      /\ OneEach(put["uniques_3"], pack, {"uniques_2", "head_2", "uniques_3"})
      /\ OneEach(put["head_3"], pack, {"uniques_2", "head_2", "uniques_3", "head_3"})
  BY <1>0 DEF PackInv, PackInfos, OnePut, OneTaken, OneEach
<1>9. /\ taken["uniques_2"][d] = 1 /\ taken["head_2"][d] = 1
      /\ put["uniques_3"][d] = 1 /\ put'["head_3"][d] = 1
  BY <1>0, <1>8 DEF OneEach, Past
<1>10. OneEach(taken["uniques_2"], pack', {"uniques_2"})
  BY <1>0, <1>2, <1>7, <1>8, <1>9, OneLeft
<1>11. OneEach(taken["head_2"], pack', {"uniques_2", "head_2"})
  BY <1>0, <1>2, <1>7, <1>8, <1>9, OneLeft
<1>12. OneEach(put["uniques_3"], pack', {"uniques_2", "head_2", "uniques_3"})
  BY <1>0, <1>2, <1>7, <1>8, <1>9, OneLeft
<1>13. OneEach(put'["head_3"], pack', {"uniques_2", "head_2", "uniques_3", "head_3"})
  BY <1>0, <1>2, <1>7, <1>8, <1>9, OneLeft
<1>14. Chunks' = Chunks
  BY PacketKept, Numbers
<1>15. PackInfos'
  BY <1>10, <1>11, <1>12, <1>13, <1>14 DEF PackInfos, OnePut, OneTaken, OneEach, Past
<1> QED
  BY <1>1, <1>2, <1>6, <1>7, <1>15

(* bit_pack() reads a chunk's kind and header, or hands them on. *)
LEMMA PackInfoStep ==
  ASSUME IInv, PackInfo, UNCHANGED <<packet, load, encode, store, output>>
  PROVE  IInv'
<1>0. PackInv /\ pack \in PackType
  BY Numbers DEF IInv, FunctionsOK, PackType
<1>a. pack.chunk \in Chunks
  BY <1>0, Numbers DEF PackInfo, PackInv, PackLocals, Places, Chunks
<1>b. PICK d \in Chunks : d = pack.chunk
  BY <1>a
<1>c. d + 1 \in Places /\ d \in Nat /\ d \in Places /\ num_chunks \in Nat
  BY NextStart, Numbers
<1>d. num_chunks' = num_chunks /\ Chunks' = Chunks /\ is_unique' = is_unique
  BY PacketKept, Numbers
<1>e. \A c \in Chunks : c \in Nat
  BY Numbers
<1>f. PackAhead(d) /\ is_unique[d] \in BOOLEAN
  BY Numbers DEF IInv, PackInv, PackBytes, PacketOK
<1>1. CASE pack.pc = "uniques_2" /\ Take("uniques_2")
           /\ pack' = [pack EXCEPT !.pc = "head_2", !.unique = Peek("uniques_2")]
  <2>0. /\ PackDue("uniques_2", d) /\ pack'.chunk = d /\ "uniques_2" \in PackIn
        /\ pack'.pc = "head_2" /\ pack'.unique = Peek("uniques_2")
        /\ pack' = [pack EXCEPT !.pc = "head_2", !.unique = pack'.unique]
        /\ taken["uniques_2"][d] = 0
    BY <1>0, <1>1, <1>b, <1>c DEF PackDue, PackInv, PackInfos, OneTaken, Past, PackIn, PackType
  <2>1. /\ put' = put /\ taken'["uniques_2"][d] = 1
        /\ \A c \in Chunks : c # d => taken'["uniques_2"][c] = taken["uniques_2"][c]
        /\ \A x \in Streams : x # "uniques_2" => taken'[x] = taken[x]
        /\ Peek("uniques_2") = Meant("uniques_2", d, taken["uniques_2"][d] + 1) /\ Peek("uniques_2") \in Values("uniques_2")
    BY <1>1, <1>b, <2>0, PackTakes
  <2>2. pack'.unique = is_unique[d] /\ pack' \in PackType
    BY <1>0, <2>0, <2>1 DEF PackType, PackPcs, Values, Meant, What, dup_chunk_head
  <2>3. PackLocals'
    BY <1>0, <1>1, <1>b, <1>d, <2>0, <2>2 DEF PackInv, PackLocals, Packing, PackType, dup_chunk_head
  <2>4. PackInfos'
    BY <1>0, <1>1, <1>b, <1>d, <1>e, <2>0, <2>1
    DEF PackInv, PackInfos, OnePut, OneTaken, Past, Streams, LongStreams, ShortStreams
  <2>5. PackBytes'
    <3>1. /\ taken'["lzw_encode_out_flag"] = taken["lzw_encode_out_flag"]
          /\ \A c \in Chunks : sent(c)' = sent(c) /\ made(c)' = made(c) /\ packed(c)' = packed(c)
      BY <2>1 DEF sent, made, packed, Streams, LongStreams, ShortStreams
    <3>t. PICK t : t = packed(d)'
      OBVIOUS
    <3>2. PackAhead(d)' /\ PackHere(d, t)'
      BY <1>1, <1>b, <1>f, <2>0, <2>1, <3>1 DEF PackAhead, PackHere, Packing
    <3> QED
      BY <1>b, <1>c, <2>0, <2>1, <3>1, <3>2, <3>t, PackBytesMoved
  <2> QED
    BY <1>1, <1>b, <2>0, <2>2, <2>3, <2>4, <2>5, PackReads DEF PackInv
<1>2. CASE pack.pc = "head_2" /\ Take("head_2")
           /\ pack' = [pack EXCEPT !.pc = "uniques_3", !.head = Peek("head_2")]
  <2>0. /\ PackDue("head_2", d) /\ pack'.chunk = d /\ "head_2" \in PackIn
        /\ pack'.pc = "uniques_3" /\ pack'.head = Peek("head_2")
        /\ pack' = [pack EXCEPT !.pc = "uniques_3", !.head = pack'.head]
        /\ taken["head_2"][d] = 0
    BY <1>0, <1>2, <1>b, <1>c DEF PackDue, PackInv, PackInfos, OneTaken, Past, PackIn, PackType
  <2>1. /\ put' = put /\ taken'["head_2"][d] = 1
        /\ \A c \in Chunks : c # d => taken'["head_2"][c] = taken["head_2"][c]
        /\ \A x \in Streams : x # "head_2" => taken'[x] = taken[x]
        /\ Peek("head_2") = Meant("head_2", d, taken["head_2"][d] + 1) /\ Peek("head_2") \in Values("head_2")
    BY <1>2, <1>b, <2>0, PackTakes
  <2>2. pack'.head = dup_chunk_head(d) /\ pack' \in PackType
    BY <1>0, <2>0, <2>1 DEF PackType, PackPcs, Values, Meant, What, dup_chunk_head
  <2>3. PackLocals'
    BY <1>0, <1>2, <1>b, <1>d, <2>0, <2>2 DEF PackInv, PackLocals, Packing, PackType, dup_chunk_head
  <2>4. PackInfos'
    BY <1>0, <1>2, <1>b, <1>d, <1>e, <2>0, <2>1
    DEF PackInv, PackInfos, OnePut, OneTaken, Past, Streams, LongStreams, ShortStreams
  <2>5. PackBytes'
    <3>1. /\ taken'["lzw_encode_out_flag"] = taken["lzw_encode_out_flag"]
          /\ \A c \in Chunks : sent(c)' = sent(c) /\ made(c)' = made(c) /\ packed(c)' = packed(c)
      BY <2>1 DEF sent, made, packed, Streams, LongStreams, ShortStreams
    <3>t. PICK t : t = packed(d)'
      OBVIOUS
    <3>2. PackAhead(d)' /\ PackHere(d, t)'
      BY <1>2, <1>b, <1>f, <2>0, <2>1, <3>1 DEF PackAhead, PackHere, Packing
    <3> QED
      BY <1>b, <1>c, <2>0, <2>1, <3>1, <3>2, <3>t, PackBytesMoved
  <2> QED
    BY <1>2, <1>b, <2>0, <2>2, <2>3, <2>4, <2>5, PackReads DEF PackInv
<1>3. CASE pack.pc = "uniques_3" /\ Put("uniques_3", pack.chunk, pack.unique)
           /\ pack' = [pack EXCEPT !.pc = "head_3"]
  <2>0. pack.unique = is_unique[d] /\ "uniques_3" \in PackOut /\ "uniques_3" \in Streams
    BY <1>0, <1>3, <1>b DEF PackInv, PackLocals, PackOut, Streams, ShortStreams
  <2>1. /\ put'["uniques_3"][d] = put["uniques_3"][d] + 1 /\ taken' = taken
        /\ \A c \in Chunks : c # d => put'["uniques_3"][c] = put["uniques_3"][c]
        /\ \A x \in Streams : x # "uniques_3" => put'[x] = put[x]
    BY <1>3, <1>b, <2>0, Numbers, PutCounts
  <2>2. pack' \in PackType /\ pack'.chunk = d /\ pack'.pc = "head_3"
    BY <1>0, <1>3, <1>b DEF PackType, PackPcs
  <2>3. PackLocals'
    BY <1>0, <1>3, <1>b, <1>d, <2>2 DEF PackInv, PackLocals, Packing, PackType, dup_chunk_head
  <2>4. PackInfos'
    BY <1>0, <1>3, <1>b, <1>d, <1>e, <2>1, <2>2
    DEF PackInv, PackInfos, OnePut, OneTaken, Past, Streams, LongStreams, ShortStreams
  <2>5. PackBytes'
    <3>1. /\ put'["bit_pack_out_flag"] = put["bit_pack_out_flag"]
          /\ \A c \in Chunks : sent(c)' = sent(c) /\ made(c)' = made(c) /\ packed(c)' = packed(c)
      BY <2>1 DEF sent, made, packed, Streams, LongStreams, ShortStreams
    <3>t. PICK t : t = packed(d)'
      OBVIOUS
    <3>2. PackAhead(d)' /\ PackHere(d, t)'
      BY <1>3, <1>b, <1>f, <2>1, <2>2, <3>1 DEF PackAhead, PackHere, Packing
    <3> QED
      BY <1>b, <1>c, <2>1, <2>2, <3>1, <3>2, <3>t, PackBytesMoved
  <2>6. PICK k \in Nat : k = put["uniques_3"][d] + 1
    BY <2>0, Numbers
  <2>7. pack.unique = Meant("uniques_3", d, k)' /\ pack.unique \in Values("uniques_3")
    BY <2>0, <1>d, <1>f DEF Meant, What, Values
  <2>8. PackInv'
    BY <2>3, <2>4, <2>5 DEF PackInv
  <2>9. ~ (pack'.chunk = d + 1) /\ pack'.pc # "code"
    BY <2>2, <1>c
  <2> QED
    BY <1>3, <1>b, <1>c, <2>0, <2>2, <2>6, <2>7, <2>8, <2>9, PackWrites
<1>4. CASE pack.pc = "head_3" /\ Put("head_3", pack.chunk, pack.head)
           /\ pack' = IF pack.unique THEN [pack EXCEPT !.pc = "flag", !.rem = 0] ELSE PackNext(pack)
  <2>0. /\ pack.head = dup_chunk_head(d) /\ "head_3" \in PackOut /\ "head_3" \in Streams
        /\ pack.unique = is_unique[d]
    BY <1>0, <1>4, <1>b DEF PackInv, PackLocals, PackOut, Streams, ShortStreams
  <2>1. /\ put'["head_3"][d] = put["head_3"][d] + 1 /\ taken' = taken
        /\ \A c \in Chunks : c # d => put'["head_3"][c] = put["head_3"][c]
        /\ \A x \in Streams : x # "head_3" => put'[x] = put[x]
    BY <1>4, <1>b, <2>0, Numbers, PutCounts
  <2>6. PICK k \in Nat : k = put["head_3"][d] + 1
    BY <2>0, Numbers
  <2>7. pack.head = Meant("head_3", d, k)' /\ pack.head \in Values("head_3")
    BY <1>c, <2>0 DEF Meant, What, Values, dup_chunk_head
  <2>9. /\ put'["bit_pack_out_flag"] = put["bit_pack_out_flag"]
        /\ \A c \in Chunks : sent(c)' = sent(c) /\ made(c)' = made(c) /\ packed(c)' = packed(c)
    BY <2>1 DEF sent, made, packed, Streams, LongStreams, ShortStreams
  <2>a. /\ packed(d) = 0 /\ taken["lzw_encode_out_flag"][d] = 0
        /\ made(d) = 0 /\ put["bit_pack_out_flag"][d] = 0
    BY <1>4, <1>b, <1>f DEF PackAhead, Packing
  <2>b. CASE is_unique[d]
    <3>1. pack' \in PackType /\ pack'.chunk = d /\ pack'.pc = "flag" /\ pack'.rem = 0
          /\ pack' = [pack EXCEPT !.pc = "flag", !.rem = 0]
      BY <1>0, <1>4, <1>b, <1>c, <2>0, <2>b DEF PackType, PackPcs
    <3>3. PackLocals'
      BY <1>0, <1>4, <1>b, <1>d, <2>b, <3>1 DEF PackInv, PackLocals, Packing, PackType, dup_chunk_head
    <3>4. PackInfos'
      BY <1>0, <1>4, <1>b, <1>d, <1>e, <2>1, <3>1
      DEF PackInv, PackInfos, OnePut, OneTaken, Past, Streams, LongStreams, ShortStreams
    <3>5. PackBytes'
      <4>t. PICK t : t = packed(d)'
        OBVIOUS
      <4>2. PackAhead(d)'
        BY <3>1, <1>c DEF PackAhead, Packing
      <4>3. PackHere(d, t)'
        <5>1. t = 0 /\ made(d)' = 0 /\ taken'["lzw_encode_out_flag"][d] = 0
              /\ put'["bit_pack_out_flag"][d] = 0
          BY <2>1, <2>9, <2>a, <4>t
        <5>2. Whole(0) = 0 /\ Rest(0) = 0
          BY NoCodes
        <5> QED
          BY <3>1, <5>1, <5>2 DEF PackHere, Packing, Whole, Rest
      <4> QED
        BY <1>b, <1>c, <2>1, <2>9, <3>1, <4>t, <4>2, <4>3, PackBytesMoved
    <3>8. PackInv'
      BY <3>3, <3>4, <3>5 DEF PackInv
    <3>9. ~ (pack'.chunk = d + 1) /\ pack'.pc # "code"
      BY <3>1, <1>c
    <3> QED
      BY <1>4, <1>b, <1>c, <2>0, <2>6, <2>7, <3>1, <3>8, <3>9, PackWrites
  <2>c. CASE ~ is_unique[d]
    <3>0. pack' = PackNext(pack) /\ put'["uniques_3"] = put["uniques_3"]
      BY <1>4, <2>0, <2>1, <2>c DEF Streams, ShortStreams
    <3>1. /\ pack' \in PackType /\ pack'.chunk = d + 1 /\ pack'.pc = AtChunk(d + 1, "uniques_2")
          /\ pack'.pc \in {"uniques_2", "done"} /\ (pack'.pc = "done" <=> d + 1 = num_chunks + 1)
          /\ PackInfos'
      BY <1>4, <1>b, <2>1, <3>0, PackLeaves
    <3>2. pack'.pc \in {"uniques_2", "done"} /\ (pack'.pc = "done" <=> d + 1 = num_chunks + 1)
      BY <3>1
    <3>3. PackLocals'
      BY <1>d, <3>1, <3>2 DEF PackLocals, Packing
    <3>4. PackInfos'
      BY <3>1
    <3>5. PackBytes'
      <4>t. PICK t : t = packed(d)'
        OBVIOUS
      <4>2. PackBehind(d)'
        BY <1>b, <1>c, <1>d, <2>9, <2>a, <2>c DEF PackBehind
      <4>3. pack'.pc \notin Packing
        BY <3>2 DEF Packing
      <4> QED
        BY <1>b, <1>c, <2>1, <2>9, <3>1, <4>t, <4>2, <4>3, PackBytesMoved
    <3>6. d < encode.chunk /\ sent(d) = 0 /\ put["lzw_encode_out_flag"][d] = 0
      <4>1. taken["head_2"][d] = 1 /\ taken["head_2"][d] <= put["head_2"][d]
        BY <1>0, <1>4, <1>b, <1>c, Numbers DEF PackInv, PackInfos, OneTaken, Past, Streams, ShortStreams
      <4>2. Past(encode, d, {"boundaries_1", "uniques_1", "head_1", "uniques_2", "head_2"})
        BY <4>1 DEF IInv, EncodeInv, EncodeInfos, OnePut
      <4>3. encode.pc \in EncodePcs /\ encode.chunk \in Nat
        BY Numbers DEF FunctionsOK
      <4>4. d # encode.chunk
        <5> SUFFICES ASSUME d = encode.chunk PROVE FALSE
          OBVIOUS
        <5>1. encode.pc \in Encoding \/ encode.pc = "done"
          BY <4>2, <4>3, <1>c DEF Past, EncodePcs, Encoding
        <5>2. ~ (encode.chunk = num_chunks + 1)
          BY <1>c DEF Chunks
        <5> QED
          BY <5>1, <5>2, <2>c DEF IInv, EncodeInv, EncodeLocals
      <4>5. d < encode.chunk
        BY <4>2, <4>4 DEF Past
      <4>6. EncodeBehind(d)
        BY DEF IInv, EncodeInv, EncodeCodes
      <4> QED
        BY <4>5, <4>6, <2>c DEF EncodeBehind
    <3>7. made(d)' = 0
      BY <2>9, <2>a
    <3>8. PackInv'
      BY <3>3, <3>4, <3>5 DEF PackInv
    <3>9. pack'.pc # "code"
      BY <3>2
    <3> QED
      BY <1>4, <1>b, <1>c, <2>0, <2>6, <2>7, <2>a, <3>1, <3>6, <3>7, <3>8, <3>9, PackWrites
  <2> QED
    BY <2>b, <2>c
<1> QED
  BY <1>1, <1>2, <1>3, <1>4 DEF PackInfo

(* Where bit_pack() is when it is packing. *)
LEMMA PackingAt ==
  ASSUME IInv, pack.pc \in Packing, NEW d, d = pack.chunk, NEW t, t = packed(d)
  PROVE  /\ d \in Chunks /\ d \in Nat /\ d \in Places /\ d + 1 \in Places
         /\ PackInv /\ pack \in PackType /\ is_unique[d] /\ PackHere(d, t)
         /\ t \in Nat /\ sent(d) \in Nat /\ made(d) \in Nat /\ t <= sent(d)
         /\ taken["lzw_encode_out_flag"][d] \in Nat /\ put["bit_pack_out_flag"][d] \in Nat
         /\ pack.left \in Nat /\ pack.rem \in Nat /\ pack.code \in Int
<1>1. PackInv /\ pack \in PackType
  BY Numbers DEF IInv, FunctionsOK, PackType
<1>2. pack.pc # "done" /\ pack.pc # "uniques_2"
  BY DEF Packing
<1>3. d \in Chunks
  BY <1>1, <1>2, Numbers DEF PackInv, PackLocals, Places, Chunks
<1>4. d \in Nat /\ d \in Places /\ d + 1 \in Places
  BY <1>3, Numbers, NextStart
<1>5. /\ t \in Nat /\ sent(d) \in Nat /\ made(d) \in Nat /\ t <= sent(d)
      /\ taken["lzw_encode_out_flag"][d] \in Nat /\ put["bit_pack_out_flag"][d] \in Nat
  BY <1>3, Numbers DEF sent, made, packed, Streams, LongStreams, ShortStreams
<1>6. is_unique[d] /\ PackHere(d, t)
  BY <1>1, <1>2 DEF PackInv, PackLocals, PackBytes
<1> QED
  BY <1>1, <1>3, <1>4, <1>5, <1>6 DEF PackType

(* A step from one place of the packing to another keeps what is known of the chunk *)
(* and of the kinds and headers.                                               *)
LEMMA PackStays ==
  ASSUME IInv, UNCHANGED packet, pack.pc \in Packing,
         NEW p \in Packing, NEW co \in Int, NEW r \in Nat, NEW l \in Nat,
         pack' = [pack EXCEPT !.pc = p, !.code = co, !.rem = r, !.left = l],
         put'["uniques_3"] = put["uniques_3"], put'["head_3"] = put["head_3"],
         taken'["uniques_2"] = taken["uniques_2"], taken'["head_2"] = taken["head_2"]
  PROVE  /\ PackLocals' /\ PackInfos' /\ pack' \in PackType
         /\ pack'.chunk = pack.chunk /\ pack'.pc = p
         /\ pack'.code = co /\ pack'.rem = r /\ pack'.left = l
<1> PICK d : d = pack.chunk
  OBVIOUS
<1>0. d \in Chunks /\ d \in Places /\ PackInv /\ pack \in PackType /\ d \in Nat
  BY PackingAt
<1>d. /\ num_chunks' = num_chunks /\ Chunks' = Chunks /\ is_unique' = is_unique
      /\ \A c \in Chunks : c \in Nat
  BY PacketKept, Numbers
<1>1. /\ pack' \in PackType /\ pack'.chunk = d /\ pack'.pc = p
      /\ pack'.code = co /\ pack'.rem = r /\ pack'.left = l
  BY <1>0 DEF PackType, PackPcs, Packing
<1>2. PackLocals'
  BY <1>0, <1>d, <1>1 DEF PackInv, PackLocals, Packing, PackType, dup_chunk_head
<1>3. PackInfos'
  BY <1>0, <1>d, <1>1 DEF PackInv, PackInfos, OnePut, OneTaken, Past, Packing
<1> QED
  BY <1>1, <1>2, <1>3

(* The record with some of its fields. *)
LEMMA PackFields ==
  ASSUME pack \in PackType, NEW p
  PROVE  /\ [pack EXCEPT !.pc = p]
              = [pack EXCEPT !.pc = p, !.code = pack.code, !.rem = pack.rem, !.left = pack.left]
         /\ \A l : [pack EXCEPT !.left = l, !.pc = p]
              = [pack EXCEPT !.pc = p, !.code = pack.code, !.rem = pack.rem, !.left = l]
         /\ \A co, l, r : [pack EXCEPT !.pc = p, !.code = co, !.left = l, !.rem = r]
              = [pack EXCEPT !.pc = p, !.code = co, !.rem = r, !.left = l]
  BY DEF PackType

(* bit_pack() reads a flag: a code follows, or the chunk has no more.             *)
LEMMA PackFlagStep ==
  ASSUME IInv, PackFlag, UNCHANGED <<packet, load, encode, store, output>>
  PROVE  IInv'
<1> PICK d : d = pack.chunk
  OBVIOUS
<1> PICK t : t = packed(d)
  OBVIOUS
<1>0. pack.pc \in Packing /\ pack.pc = "flag"
  BY DEF Packing, PackFlag
<1>1. /\ d \in Chunks /\ d \in Nat
      /\ PackInv /\ pack \in PackType /\ is_unique[d] /\ PackHere(d, t)
      /\ t \in Nat /\ sent(d) \in Nat /\ made(d) \in Nat /\ t <= sent(d)
      /\ pack.left \in Nat /\ pack.rem \in Nat /\ pack.code \in Int
  BY <1>0, PackingAt
<1>2. /\ taken["lzw_encode_out_flag"][d] = t /\ put["bit_pack_out_flag"][d] = made(d)
      /\ pack.rem = Rest(t) /\ made(d) = Whole(t) /\ (t # 0 => pack.code = d)
  BY <1>0, <1>1 DEF PackHere, Packing
<1>3. PICK p : pack' = [pack EXCEPT !.pc = p] /\ Take("lzw_encode_out_flag")
               /\ p = IF Peek("lzw_encode_out_flag") = 1 THEN "code"
                      ELSE IF Pads(pack.rem) THEN "padflag" ELSE "end"
  BY DEF PackFlag
<1>4. p \in Packing /\ pack'.chunk = d
  BY <1>1, <1>3 DEF Packing, PackType
<1>5. PackDue("lzw_encode_out_flag", d) /\ "lzw_encode_out_flag" \in PackIn
  <2>1. ASSUME d < encode.chunk PROVE t < put["lzw_encode_out_flag"][d]
    <3>1. EncodeBehind(d)
      BY <1>1 DEF IInv, EncodeInv, EncodeCodes
    <3> QED
      BY <2>1, <3>1, <1>1 DEF EncodeBehind
  <2> QED
    BY <2>1, <1>2 DEF PackDue, PackIn
<1>6. /\ put' = put
      /\ taken'["lzw_encode_out_flag"][d] = t + 1
      /\ \A c \in Chunks : c # d => taken'["lzw_encode_out_flag"][c] = taken["lzw_encode_out_flag"][c]
      /\ \A x \in Streams : x # "lzw_encode_out_flag" => taken'[x] = taken[x]
      /\ Peek("lzw_encode_out_flag") = Meant("lzw_encode_out_flag", d, t + 1)
  BY <1>1, <1>2, <1>3, <1>4, <1>5, PackTakes
<1>7. Peek("lzw_encode_out_flag") = IF d < encode.chunk /\ t = sent(d) THEN 0 ELSE 1
  BY <1>1, <1>6 DEF Meant, What, sent
<1>8. /\ PackLocals' /\ PackInfos' /\ pack' \in PackType
      /\ pack'.chunk = d /\ pack'.pc = p /\ pack'.code = pack.code
      /\ pack'.rem = pack.rem /\ pack'.left = pack.left
  <2>1. pack' = [pack EXCEPT !.pc = p, !.code = pack.code, !.rem = pack.rem, !.left = pack.left]
    BY <1>1, <1>3, PackFields
  <2>2. taken'["uniques_2"] = taken["uniques_2"] /\ taken'["head_2"] = taken["head_2"]
    BY <1>6 DEF Streams, ShortStreams
  <2>3. put'["uniques_3"] = put["uniques_3"] /\ put'["head_3"] = put["head_3"]
    BY <1>6
  <2> QED
    <3>1. PICK co \in Int, r \in Nat, l \in Nat : co = pack.code /\ r = pack.rem /\ l = pack.left
      BY <1>1
    <3>2. pack' = [pack EXCEPT !.pc = p, !.code = co, !.rem = r, !.left = l]
      BY <2>1, <3>1
    <3>3. UNCHANGED packet
      OBVIOUS
    <3>4. /\ PackLocals' /\ PackInfos' /\ pack' \in PackType
          /\ pack'.chunk = pack.chunk /\ pack'.pc = p
          /\ pack'.code = co /\ pack'.rem = r /\ pack'.left = l
      BY <1>0, <1>4, <2>2, <2>3, <3>2, <3>3, PackStays
    <3> QED
      BY <3>1, <3>4
<1>9. \A c \in Chunks : sent(c)' = sent(c) /\ made(c)' = made(c) /\ packed(c)' = packed(c)
  BY <1>6 DEF sent, made, packed, Streams, LongStreams
<1>10. PackHere(d, t)'
  <2>1. CASE p = "code"
    BY <2>1, <1>1, <1>2, <1>6, <1>8, <1>9 DEF PackHere, Packing, Whole, Rest
  <2>2. CASE p = "padflag" \/ p = "end"
    <3>1. d < encode.chunk /\ t = sent(d)
      BY <2>2, <1>3, <1>7
    <3>2. p = "padflag" => pack.rem # 0
      BY <1>3 DEF Pads
    <3>3. p = "end" => made(d) = PackedSize(t)
      <4>1. p = "end" => Rest(t) = 0
        BY <1>2, <1>3 DEF Pads
      <4> QED
        BY <4>1, <1>1, <1>2, SizeIsPacked
    <3> QED
      BY <2>2, <3>1, <3>2, <3>3, <1>1, <1>2, <1>6, <1>8, <1>9 DEF PackHere, Packing, Whole, Rest, PackedSize
  <2> QED
    BY <2>1, <2>2, <1>3
<1>11. PackAhead(d)'
  BY <1>1, <1>4, <1>8 DEF PackAhead
<1>12. PackBytes'
  <2>1. t = packed(d)'
    BY <1>1, <1>9
  <2> QED
    BY <2>1, <1>1, <1>6, <1>8, <1>9, <1>10, <1>11, PackBytesMoved
<1>13. pack'.pc = "code" /\ d < encode.chunk => packed(d)' < sent(d)
  <2>1. pack'.pc = "code" => Peek("lzw_encode_out_flag") = 1
    BY <1>3, <1>8
  <2> QED
    BY <2>1, <1>1, <1>7, <1>9
<1> QED
  BY <1>1, <1>3, <1>5, <1>8, <1>12, <1>13, PackReads DEF PackInv

(* bit_pack() reads a code, and finds how many bytes it can send now.             *)
LEMMA PackCodeStep ==
  ASSUME IInv, PackCode, UNCHANGED <<packet, load, encode, store, output>>
  PROVE  IInv'
<1> PICK d : d = pack.chunk
  OBVIOUS
<1> PICK t : t = packed(d)
  OBVIOUS
<1>0. pack.pc \in Packing /\ pack.pc = "code"
  BY DEF Packing, PackCode
<1>1. /\ d \in Chunks /\ d \in Nat
      /\ PackInv /\ pack \in PackType /\ is_unique[d] /\ PackHere(d, t)
      /\ t \in Nat /\ sent(d) \in Nat /\ made(d) \in Nat /\ t <= sent(d)
      /\ pack.left \in Nat /\ pack.rem \in Nat /\ pack.code \in Int
  BY <1>0, PackingAt
<1>2. /\ taken["lzw_encode_out_flag"][d] = t + 1 /\ put["bit_pack_out_flag"][d] = made(d)
      /\ pack.rem = Rest(t) /\ made(d) = Whole(t)
  BY <1>0, <1>1 DEF PackHere, Packing
<1>3. PICK x, co : /\ x = pack.rem + CODE_LENGTH /\ co = Peek("lzw_encode_out")
                   /\ pack' = [pack EXCEPT !.pc = "byteflag", !.code = co, !.left = WholeBytes(x), !.rem = Rem(x)]
                   /\ Take("lzw_encode_out")
  BY DEF PackCode
<1>4. pack'.chunk = d
  BY <1>1, <1>3 DEF PackType
<1>5. PackDue("lzw_encode_out", d) /\ "lzw_encode_out" \in PackIn
  BY <1>0, <1>1 DEF PackDue, PackIn, IInv, Announced, sent, packed
<1>6. /\ put' = put
      /\ taken'["lzw_encode_out"][d] = t + 1
      /\ \A c \in Chunks : c # d => taken'["lzw_encode_out"][c] = taken["lzw_encode_out"][c]
      /\ \A s \in Streams : s # "lzw_encode_out" => taken'[s] = taken[s]
      /\ Peek("lzw_encode_out") = Meant("lzw_encode_out", d, t + 1)
  BY <1>1, <1>2, <1>3, <1>4, <1>5, PackTakes DEF packed
<1>7. co = d /\ co \in Int
  BY <1>1, <1>3, <1>6 DEF Meant, What
<1>8. /\ Whole(t + 1) = Whole(t) + WholeBytes(x) /\ Rest(t + 1) = Rem(x)
      /\ WholeBytes(x) \in Nat /\ WholeBytes(x) >= 1 /\ Rem(x) \in Nat
  BY <1>1, <1>2, <1>3, OneMoreCode
<1>9. /\ PackLocals' /\ PackInfos' /\ pack' \in PackType
      /\ pack'.chunk = d /\ pack'.pc = "byteflag" /\ pack'.code = d
      /\ pack'.rem = Rest(t + 1) /\ pack'.left = WholeBytes(x)
  <2>1. pack' = [pack EXCEPT !.pc = "byteflag", !.code = co, !.rem = Rem(x), !.left = WholeBytes(x)]
    BY <1>1, <1>3, PackFields
  <2>2. taken'["uniques_2"] = taken["uniques_2"] /\ taken'["head_2"] = taken["head_2"]
    BY <1>6 DEF Streams, ShortStreams
  <2>3. put'["uniques_3"] = put["uniques_3"] /\ put'["head_3"] = put["head_3"]
    BY <1>6
  <2>4. "byteflag" \in Packing
    BY DEF Packing
  <2> QED
    <3>1. PICK r \in Nat, l \in Nat : r = Rem(x) /\ l = WholeBytes(x)
      BY <1>8
    <3>2. pack' = [pack EXCEPT !.pc = "byteflag", !.code = co, !.rem = r, !.left = l]
      BY <2>1, <3>1
    <3>3. UNCHANGED packet
      OBVIOUS
    <3>4. /\ PackLocals' /\ PackInfos' /\ pack' \in PackType
          /\ pack'.chunk = pack.chunk /\ pack'.pc = "byteflag"
          /\ pack'.code = co /\ pack'.rem = r /\ pack'.left = l
      BY <1>0, <1>7, <2>2, <2>3, <2>4, <3>2, <3>3, PackStays
    <3> QED
      BY <1>7, <1>8, <3>1, <3>4
<1>10. /\ taken'["lzw_encode_out_flag"] = taken["lzw_encode_out_flag"] /\ packed(d)' = t + 1
       /\ \A c \in Chunks : sent(c)' = sent(c) /\ made(c)' = made(c) /\ (c # d => packed(c)' = packed(c))
  BY <1>6 DEF sent, made, packed, Streams, ShortStreams
<1>w. PICK w \in Nat, y \in Nat, z \in Nat :
        w = Whole(t + 1) /\ y = Rest(t + 1) /\ z = WholeBytes(x) /\ z >= 1 /\ made(d) + z = w
  BY <1>1, <1>2, <1>8, CodeBits
<1>t. PICK u \in Nat : u = t + 1
  BY <1>1
<1>11. PackHere(d, u)'
  <2>1. Whole(u)' = w /\ Rest(u)' = y
    BY <1>w, <1>t DEF Whole, Rest
  <2>2. pack'.pc = "byteflag" /\ pack'.left = z /\ pack'.rem = y /\ pack'.code = d
    BY <1>9, <1>w
  <2>3. made(d)' = made(d) /\ taken'["lzw_encode_out_flag"][d] = u /\ put'["bit_pack_out_flag"][d] = made(d)
    BY <1>1, <1>2, <1>6, <1>10, <1>t
  <2> QED
    BY <2>1, <2>2, <2>3, <1>1, <1>w DEF PackHere, Packing
<1>12. PackAhead(d)'
  BY <1>1, <1>9 DEF PackAhead, Packing
<1>13. PackBytes'
  BY <1>1, <1>6, <1>9, <1>10, <1>11, <1>12, <1>t, PackBytesMoved
<1> QED
  BY <1>1, <1>3, <1>5, <1>9, <1>13, PackReads DEF PackInv

(* bit_pack() announces a byte, or writes the byte it announced. *)
LEMMA PackByteStep ==
  ASSUME IInv, PackByte, UNCHANGED <<packet, load, encode, store, output>>
  PROVE  IInv'
<1> PICK d : d = pack.chunk
  OBVIOUS
<1> PICK t : t = packed(d)
  OBVIOUS
<1>0. pack.pc \in {"byteflag", "padflag", "byte", "pad"} /\ pack.pc \in Packing
  BY DEF Packing, PackByte
<1>1. /\ d \in Chunks /\ d \in Nat
      /\ PackInv /\ pack \in PackType /\ is_unique[d] /\ PackHere(d, t)
      /\ t \in Nat /\ sent(d) \in Nat /\ made(d) \in Nat /\ t <= sent(d)
      /\ pack.left \in Nat /\ pack.rem \in Nat /\ pack.code \in Int
  BY <1>0, PackingAt
<1>w. PICK w \in Nat, y \in Nat, z \in Nat :
        w = Whole(t) /\ y = Rest(t) /\ z = PackedSize(t) /\ z = (IF y # 0 THEN w + 1 ELSE w)
  <2>1. Whole(t) \in Nat /\ Rest(t) \in Nat
    BY <1>1, CodeBits
  <2>2. PackedSize(t) \in Nat /\ PackedSize(t) = IF Rest(t) # 0 THEN Whole(t) + 1 ELSE Whole(t)
    BY <1>1, SizeIsPacked
  <2> QED
    BY <2>1, <2>2
<1>2. /\ taken["lzw_encode_out_flag"][d] = t + (IF pack.pc \in {"padflag", "pad"} THEN 1 ELSE 0)
      /\ put["bit_pack_out_flag"][d] = made(d) + (IF pack.pc \in {"byte", "pad"} THEN 1 ELSE 0)
      /\ pack.rem = y
      /\ pack.pc \in {"padflag", "pad"} => /\ made(d) = w /\ y # 0
                                          /\ d < encode.chunk /\ t = sent(d)
      /\ pack.pc \in {"byteflag", "byte"} => made(d) + pack.left = w /\ pack.left >= 1
      /\ t # 0 => pack.code = d
  BY <1>0, <1>1, <1>w DEF PackHere, Packing
<1>3. t # 0
  <2>1. w # 0 \/ y # 0
    BY <1>0, <1>1, <1>2
  <2> QED
    BY <2>1, <1>w, NoCodes
<1>4. PICK s, p, l, v :
        /\ pack' = [pack EXCEPT !.left = l, !.pc = p] /\ Put(s, d, v)
        /\ \/ /\ pack.pc = "byteflag" /\ p = "byte" /\ s = "bit_pack_out_flag" /\ v = 1 /\ l = pack.left
           \/ /\ pack.pc = "padflag" /\ p = "pad" /\ s = "bit_pack_out_flag" /\ v = 1 /\ l = pack.left
           \/ /\ pack.pc = "byte" /\ p = (IF pack.left = 1 THEN "flag" ELSE "byteflag")
              /\ s = "bit_pack_out" /\ v = d /\ l = pack.left - 1
           \/ /\ pack.pc = "pad" /\ p = "end" /\ s = "bit_pack_out" /\ v = d /\ l = pack.left
  <2>1. CASE pack.pc \in {"byteflag", "padflag"}
    <3>1. pack' = [pack EXCEPT !.left = pack.left, !.pc = IF pack.pc = "byteflag" THEN "byte" ELSE "pad"]
      BY <2>1, <1>1 DEF PackByte, PackType
    <3> QED
      BY <2>1, <3>1 DEF PackByte
  <2>2. CASE pack.pc = "byte"
    BY <2>2, <1>2, <1>3 DEF PackByte
  <2>3. CASE pack.pc = "pad"
    <3>1. pack' = [pack EXCEPT !.left = pack.left, !.pc = "end"]
      BY <2>3, <1>1 DEF PackByte, PackType
    <3> QED
      BY <2>3, <3>1, <1>2, <1>3 DEF PackByte
  <2> QED
    BY <2>1, <2>2, <2>3, <1>0
<1>5. /\ s \in PackOut /\ s \in Streams /\ v \in Values(s) /\ l \in Nat
      /\ p \in Packing /\ p \notin {"code", "padflag"}
      /\ s \in {"bit_pack_out", "bit_pack_out_flag"}
  BY <1>1, <1>2, <1>4 DEF PackOut, Streams, LongStreams, ShortStreams, Packing, Values
<1>6. /\ put'[s][d] = put[s][d] + 1 /\ taken' = taken
      /\ \A c \in Chunks : c # d => put'[s][c] = put[s][c]
      /\ \A x \in Streams : x # s => put'[x] = put[x]
  BY <1>1, <1>4, <1>5, Numbers, PutCounts
<1>7. /\ PackLocals' /\ PackInfos' /\ pack' \in PackType
      /\ pack'.chunk = d /\ pack'.pc = p /\ pack'.code = pack.code
      /\ pack'.rem = pack.rem /\ pack'.left = l
  <2>1. pack' = [pack EXCEPT !.pc = p, !.code = pack.code, !.rem = pack.rem, !.left = l]
    BY <1>1, <1>4, PackFields
  <2>2. put'["uniques_3"] = put["uniques_3"] /\ put'["head_3"] = put["head_3"]
    BY <1>5, <1>6 DEF Streams, ShortStreams
  <2> QED
    <3>1. PICK co \in Int, r \in Nat : co = pack.code /\ r = pack.rem
      BY <1>1
    <3>2. pack' = [pack EXCEPT !.pc = p, !.code = co, !.rem = r, !.left = l] /\ l \in Nat
      BY <1>5, <2>1, <3>1
    <3>3. UNCHANGED packet /\ taken' = taken
      BY <1>6
    <3>4. /\ PackLocals' /\ PackInfos' /\ pack' \in PackType
          /\ pack'.chunk = pack.chunk /\ pack'.pc = p
          /\ pack'.code = co /\ pack'.rem = r /\ pack'.left = l
      BY <1>0, <1>5, <2>2, <3>2, <3>3, PackStays
    <3> QED
      BY <3>1, <3>4
<1>8. /\ \A c \in Chunks : sent(c)' = sent(c) /\ packed(c)' = packed(c)
      /\ \A c \in Chunks : c # d => /\ made(c)' = made(c)
                                    /\ put'["bit_pack_out_flag"][c] = put["bit_pack_out_flag"][c]
  BY <1>5, <1>6 DEF sent, made, packed, Streams, LongStreams, ShortStreams
<1>9. /\ Whole(t)' = w /\ Rest(t)' = y /\ PackedSize(t)' = z
  BY <1>w DEF Whole, Rest, PackedSize
<1>10. PackHere(d, t)'
  <2>1. CASE s = "bit_pack_out_flag"
    <3>1. /\ put'["bit_pack_out_flag"][d] = put["bit_pack_out_flag"][d] + 1 /\ made(d)' = made(d)
      BY <2>1, <1>6 DEF made, Streams, LongStreams
    <3>2. CASE pack.pc = "byteflag" /\ p = "byte" /\ l = pack.left
      BY <3>1, <3>2, <1>1, <1>2, <1>6, <1>7, <1>8, <1>9 DEF PackHere, Packing
    <3>3. CASE pack.pc = "padflag" /\ p = "pad" /\ l = pack.left
      BY <3>1, <3>3, <1>1, <1>2, <1>6, <1>7, <1>8, <1>9 DEF PackHere, Packing
    <3> QED
      BY <2>1, <3>2, <3>3, <1>4
  <2>2. CASE s = "bit_pack_out"
    <3>1. /\ put'["bit_pack_out_flag"][d] = put["bit_pack_out_flag"][d] /\ made(d)' = made(d) + 1
      BY <2>2, <1>6 DEF made, Streams, ShortStreams
    <3>2. CASE pack.pc = "byte" /\ p = "flag" /\ pack.left = 1
      BY <3>1, <3>2, <1>1, <1>2, <1>6, <1>7, <1>8, <1>9 DEF PackHere, Packing
    <3>3. CASE pack.pc = "byte" /\ p = "byteflag" /\ pack.left # 1 /\ l = pack.left - 1
      BY <3>1, <3>3, <1>1, <1>2, <1>6, <1>7, <1>8, <1>9 DEF PackHere, Packing
    <3>4. CASE pack.pc = "pad" /\ p = "end"
      BY <3>1, <3>4, <1>1, <1>2, <1>w, <1>6, <1>7, <1>8, <1>9 DEF PackHere, Packing
    <3> QED
      BY <2>2, <3>2, <3>3, <3>4, <1>4
  <2> QED
    BY <2>1, <2>2, <1>5
<1>11. PackAhead(d)'
  BY <1>1, <1>5, <1>7 DEF PackAhead
<1>12. PackBytes'
  <2>1. t = packed(d)'
    BY <1>1, <1>8
  <2> QED
    BY <2>1, <1>1, <1>6, <1>7, <1>8, <1>10, <1>11, PackBytesMoved
<1>13. PICK k \in Nat : k = put[s][d] + 1
  BY <1>1, <1>5, Numbers
<1>14. v = Meant(s, d, k)'
  BY <1>1, <1>4, <1>7 DEF Meant, What
<1>15. ~ (pack'.chunk = d + 1) /\ pack'.pc # "code"
  BY <1>1, <1>5, <1>7
<1> QED
  BY <1>1, <1>4, <1>5, <1>7, <1>12, <1>13, <1>14, <1>15, PackWrites DEF PackInv

(* bit_pack() writes the flag that ends its chunk. *)
LEMMA PackEndStep ==
  ASSUME IInv, PackEnd, UNCHANGED <<packet, load, encode, store, output>>
  PROVE  IInv'
<1> PICK d : d = pack.chunk
  OBVIOUS
<1> PICK t : t = packed(d)
  OBVIOUS
<1>0. pack.pc \in Packing /\ pack.pc = "end"
  BY DEF Packing, PackEnd
<1>1. /\ d \in Chunks /\ d \in Nat /\ d + 1 \in Places
      /\ PackInv /\ pack \in PackType /\ is_unique[d] /\ PackHere(d, t)
      /\ t \in Nat /\ sent(d) \in Nat /\ made(d) \in Nat
  BY <1>0, PackingAt
<1>d. num_chunks' = num_chunks /\ Chunks' = Chunks /\ is_unique' = is_unique /\ num_chunks \in Nat
  BY PacketKept, Numbers
<1>e. \A c \in Chunks : c \in Nat
  BY Numbers
<1>2. /\ taken["lzw_encode_out_flag"][d] = t + 1 /\ put["bit_pack_out_flag"][d] = made(d)
      /\ d < encode.chunk /\ t = sent(d) /\ made(d) = PackedSize(t)
  BY <1>0, <1>1 DEF PackHere, Packing
<1>3. put["lzw_encode_out_flag"][d] = t + 1
  <2>1. EncodeBehind(d)
    BY <1>1 DEF IInv, EncodeInv, EncodeCodes
  <2> QED
    BY <2>1, <1>1, <1>2 DEF EncodeBehind
<1>4. "bit_pack_out_flag" \in PackOut /\ "bit_pack_out_flag" \in Streams /\ 0 \in Values("bit_pack_out_flag")
  BY DEF PackOut, Streams, ShortStreams, Values
<1>5. Put("bit_pack_out_flag", d, 0) /\ pack' = PackNext(pack)
  BY DEF PackEnd
<1>6. /\ put'["bit_pack_out_flag"][d] = put["bit_pack_out_flag"][d] + 1 /\ taken' = taken
      /\ \A c \in Chunks : c # d => put'["bit_pack_out_flag"][c] = put["bit_pack_out_flag"][c]
      /\ \A x \in Streams : x # "bit_pack_out_flag" => put'[x] = put[x]
  BY <1>1, <1>4, <1>5, Numbers, PutCounts
<1>7. \A c \in Chunks : sent(c)' = sent(c) /\ made(c)' = made(c) /\ packed(c)' = packed(c)
  BY <1>6 DEF sent, made, packed, Streams, LongStreams
<1>a. put'["uniques_3"] = put["uniques_3"] /\ put'["head_3"] = put["head_3"]
  BY <1>6 DEF Streams, ShortStreams
<1>8. /\ pack' \in PackType /\ pack'.chunk = d + 1 /\ pack'.pc = AtChunk(d + 1, "uniques_2")
      /\ pack'.pc \in {"uniques_2", "done"} /\ (pack'.pc = "done" <=> d + 1 = num_chunks + 1)
      /\ PackInfos'
  BY <1>0, <1>1, <1>5, <1>6, <1>a, PackLeaves
<1>9. pack'.pc \in {"uniques_2", "done"} /\ (pack'.pc = "done" <=> d + 1 = num_chunks + 1)
  BY <1>8
<1>10. PackLocals'
  BY <1>d, <1>8, <1>9 DEF PackLocals, Packing
<1>11. PackInfos'
  BY <1>8
<1>12. PackBytes'
  <2>1. PackBehind(d)'
    BY <1>1, <1>2, <1>d, <1>6, <1>7 DEF PackBehind, PackedSize
  <2>2. pack'.pc \notin Packing
    BY <1>9 DEF Packing
  <2>3. t = packed(d)'
    BY <1>1, <1>7
  <2> QED
    BY <2>1, <2>2, <2>3, <1>1, <1>6, <1>7, <1>8, PackBytesMoved
<1>13. PICK k \in Nat : k = put["bit_pack_out_flag"][d] + 1
  BY <1>1, <1>2
<1>14. 0 = Meant("bit_pack_out_flag", d, k)'
  <2>1. k = put'["bit_pack_out"][d] + 1
    BY <1>1, <1>2, <1>7, <1>13 DEF made
  <2>2. d < pack'.chunk
    BY <1>1, <1>8
  <2> QED
    BY <2>1, <2>2 DEF Meant, What
<1>15. put["bit_pack_out_flag"][d] <= made(d)' /\ pack'.pc # "code"
  BY <1>1, <1>2, <1>7, <1>9
<1> QED
  BY <1>1, <1>2, <1>3, <1>4, <1>5, <1>8, <1>10, <1>11, <1>12, <1>13, <1>14, <1>15, PackWrites DEF PackInv

(* A step of bit_pack(). *)
LEMMA PackStepKeeps == IInv /\ PackStep => IInv'
  BY PackInfoStep, PackFlagStep, PackCodeStep, PackByteStep, PackEndStep DEF PackStep

-----------------------------------------------------------------------------
(* store() *)

StoreType == [pc : StorePcs, chunk : Places, unique : BOOLEAN, head : Int,
              bytes : Seq(Element("bit_pack_out"))]
Written   == [header : Int, bytes : Seq(Element("bit_pack_out"))]

(* The bytes of a chunk, one by one. *)
LEMMA BytesAppend ==
  ASSUME NEW c, NEW n \in Nat, NEW e, e = [is |-> c, of |-> c, nth |-> n + 1]
  PROVE  /\ Append(BytesOf(c, n), e) = BytesOf(c, n + 1)
         /\ Len(BytesOf(c, n)) = n
         /\ BytesOf(c, 0) = << >>
<1> DEFINE X == {[is |-> c, of |-> c, nth |-> k] : k \in Nat}
<1>1. ASSUME NEW m \in Nat PROVE BytesOf(c, m) \in Seq(X) /\ Len(BytesOf(c, m)) = m
                                 /\ \A k \in 1 .. m : BytesOf(c, m)[k] = [is |-> c, of |-> c, nth |-> k]
  <2>1. BytesOf(c, m) \in [1 .. m -> X]
    BY DEF BytesOf
  <2>2. BytesOf(c, m) \in Seq(X)
    BY <2>1, SeqDef
  <2> QED
    BY <2>1, <2>2 DEF BytesOf
<1>2. e \in X
  OBVIOUS
<1> HIDE DEF X
<1>3. Append(BytesOf(c, n), e) = BytesOf(c, n + 1)
  <2> DEFINE p == BytesOf(c, n)
             q == BytesOf(c, n + 1)
             a == Append(p, e)
  <2>1. p \in Seq(X) /\ Len(p) = n /\ q \in Seq(X) /\ Len(q) = n + 1
    BY <1>1
  <2>2. \A k \in 1 .. n : p[k] = [is |-> c, of |-> c, nth |-> k]
    BY <1>1
  <2>3. \A k \in 1 .. n + 1 : q[k] = [is |-> c, of |-> c, nth |-> k]
    BY <1>1
  <2> HIDE DEF p, q
  <2>4. a \in Seq(X) /\ Len(a) = n + 1 /\ a[n + 1] = e /\ \A k \in 1 .. n : a[k] = p[k]
    BY <2>1, <1>2, AppendProperties
  <2> HIDE DEF a
  <2>5. \A k \in 1 .. n + 1 : a[k] = q[k]
    <3> SUFFICES ASSUME NEW k \in 1 .. n + 1 PROVE a[k] = q[k]
      OBVIOUS
    <3>1. q[k] = [is |-> c, of |-> c, nth |-> k]
      BY <2>3
    <3>2. CASE k \in 1 .. n
      <4>1. a[k] = p[k]
        BY <2>4, <3>2
      <4> QED
        BY <2>2, <3>1, <3>2, <4>1
    <3>3. CASE k = n + 1
      BY <2>4, <3>1, <3>3
    <3> QED
      BY <3>2, <3>3
  <2>6. a = q
    BY <2>1, <2>4, <2>5, SeqEqual
  <2> QED
    BY <2>6 DEF p, q, a
<1>4. BytesOf(c, 0) = << >>
  BY <1>1, EmptySeq
<1> QED
  BY <1>1, <1>3, <1>4

(* store() reads something of its chunk that it is due. *)
StoreDue(s, d) ==
  IF s \in {"uniques_3", "head_3"} THEN taken[s][d] = 0
  ELSE d < pack.chunk => taken[s][d] < put[s][d]

(* Then it finds an element about its chunk in the stream, the next of them. *)
LEMMA StoreTakes ==
  ASSUME IInv, UNCHANGED <<packet, load, encode, pack>>,
         NEW s \in StoreIn, NEW d \in Chunks, d = store.chunk, Take(s), StoreDue(s, d)
  PROVE  /\ Flows /\ put' = put
         /\ taken'[s][d] = taken[s][d] + 1
         /\ \A c \in Chunks : c # d => taken'[s][c] = taken[s][c]
         /\ \A x \in Streams : x # s => taken'[x] = taken[x]
         /\ Head(streams[s]) \in Element(s) /\ Head(streams[s]).of = d
         /\ Head(streams[s]).nth = taken[s][d] + 1
         /\ Peek(s) = Meant(s, d, taken[s][d] + 1)
         /\ Peek(s) \in Values(s) /\ taken[s][d] < put[s][d]
<1>1. s \in Streams
  BY DEF StoreIn, Streams, LongStreams, ShortStreams
<1>2. put' = put
  BY DEF Take
<1>3. d \in Nat
  BY Numbers
<1>4. MeantKept
  <2>1. \A c \in Chunks : ~ (c >= encode.chunk /\ c < encode'.chunk) /\ ~ (c >= pack.chunk /\ c < pack'.chunk)
    BY Numbers
  <2> QED
    BY <2>1, <1>2, Numbers, MeantKeeps DEF FlowOK, sent, made
<1>5. \A c \in Chunks : c < d => taken[s][c] = put[s][c]
  <2> SUFFICES ASSUME NEW c \in Chunks, c < d PROVE taken[s][c] = put[s][c]
    OBVIOUS
  <2>1. CASE s \notin {"uniques_3", "head_3"}
    BY <2>1 DEF StoreIn, IInv, Passed
  <2>2. CASE s \in {"uniques_3", "head_3"}
    <3>1. taken[s][c] = 1
      BY <2>2 DEF IInv, StoreInv, StoreInfos, OneTaken, Past
    <3>2. put[s][c] = 0 \/ put[s][c] = 1
      BY <2>2 DEF IInv, PackInv, PackInfos, OnePut
    <3>3. taken[s][c] <= put[s][c]
      BY <1>1, Numbers
    <3> QED
      BY <3>1, <3>2, <3>3
  <2> QED
    BY <2>1, <2>2
<1>6. \A c \in Chunks : c > d /\ taken[s][c] < put[s][c] => taken[s][d] < put[s][d]
  <2> SUFFICES ASSUME NEW c \in Chunks, c > d, taken[s][c] < put[s][c] PROVE taken[s][d] < put[s][d]
    OBVIOUS
  <2>0. c \in Nat /\ d \in Nat /\ pack.chunk \in Nat /\ put[s][c] # 0
    BY <1>1, Numbers
  <2>1. pack.chunk > d
    <3>1. ~ (c > pack.chunk)
      BY <2>0 DEF StoreIn, IInv, PackInv, PackInfos, PackBytes, PackAhead, OnePut, Past, made
    <3> QED
      BY <3>1, <2>0
  <2>2. CASE s \notin {"uniques_3", "head_3"}
    BY <2>1, <2>2, <2>0 DEF StoreDue
  <2>3. CASE s \in {"uniques_3", "head_3"}
    <3>1. put[s][d] = 1
      BY <2>1, <2>3, <2>0 DEF IInv, PackInv, PackInfos, OnePut, Past
    <3> QED
      BY <3>1, <2>3 DEF StoreDue
  <2> QED
    BY <2>2, <2>3
<1> QED
  BY <1>1, <1>2, <1>4, <1>5, <1>6, Numbers, TakeStep DEF Flows, IInv

(* A read by which store() goes on with its chunk. *)
LEMMA StoreReads ==
  ASSUME IInv, UNCHANGED <<packet, load, encode, pack, output>>,
         NEW s \in StoreIn, NEW d \in Chunks, d = store.chunk, store'.chunk = d, Take(s), StoreDue(s, d),
         store' \in StoreType, StoreInv',
         store'.pc = "byte" /\ d < pack.chunk => taken'["bit_pack_out"][d] < made(d)
  PROVE  IInv'
<1>1. /\ Flows /\ put' = put
      /\ \A c \in Chunks : c # d => taken'[s][c] = taken[s][c]
      /\ \A x \in Streams : x # s => taken'[x] = taken[x]
  BY StoreTakes
<1>2. \A x \in EncodeIn \cup PackIn : taken'[x] = taken[x]
  BY <1>1 DEF EncodeIn, PackIn, StoreIn, Streams, LongStreams, ShortStreams
<1>3. \A c \in Chunks : c < store'.chunk =>
        /\ taken'["bit_pack_out"][c] = put["bit_pack_out"][c]
        /\ taken'["bit_pack_out_flag"][c] = put["bit_pack_out_flag"][c]
  <2>1. \A c \in Chunks : c < store'.chunk => c # d /\ c < store.chunk
    BY Numbers
  <2> QED
    BY <2>1, <1>1 DEF IInv, Passed, Streams, LongStreams, ShortStreams
<1>4. d \in Nat /\ d <= pack.chunk
  BY Numbers
<1>5. \A c \in Chunks : sent(c)' = sent(c)
  BY <1>1 DEF sent
<1>6. OutputIsSequential'
  <2>2. Len(output) = store.chunk - 1
    BY DEF IInv, StoreInv, StoreBytes
  <2> QED
    BY <2>2, <1>5, Numbers, OutputFrame DEF Places, IInv
<1>7. FunctionsOK'
  BY Numbers, PacketKept DEF FunctionsOK, StoreType, Streams, LongStreams
<1> QED
  BY <1>1, <1>2, <1>3, <1>4, <1>6, <1>7, ByStore DEF made

(* store() leaves a chunk: where it is then, and the kinds and headers it has read. *)
LEMMA StoreGoesOn ==
  ASSUME IInv, UNCHANGED packet, NEW d \in Chunks, d = store.chunk, store' = StoreNext(store),
         store.pc \in {"head_3", "flag"}, taken'["uniques_3"] = taken["uniques_3"],
         \A c \in Chunks : c # d => taken'["head_3"][c] = taken["head_3"][c],
         taken'["head_3"][d] = IF store.pc = "head_3" THEN taken["head_3"][d] + 1 ELSE taken["head_3"][d]
  PROVE  /\ store' \in StoreType /\ store'.chunk = d + 1 /\ store'.pc = AtChunk(d + 1, "uniques_3")
         /\ store'.bytes = << >>
         /\ store'.pc \in {"uniques_3", "done"}
         /\ store'.pc = "done" <=> d + 1 = num_chunks + 1
         /\ StoreInfos'
<1>0. StoreInv /\ PacketOK /\ d \in Nat /\ num_chunks \in Nat /\ store \in StoreType
  BY Numbers DEF IInv, FunctionsOK, StoreType
<1>1. PICK w : w = AtChunk(d + 1, "uniques_3")
  OBVIOUS
<1>2. /\ w \in {"uniques_3", "done"} /\ (w = "done" <=> d + 1 = num_chunks + 1)
      /\ d + 1 \in Chunks => w = "uniques_3"
  BY <1>0, <1>1, NextPlace
<1>3. PICK x \in Places : x = d + 1
  BY <1>0, NextStart
<1>4. PICK b \in Seq(Element("bit_pack_out")) : b = << >>
  BY EmptySeq
<1>5. store' = [store EXCEPT !.pc = w, !.chunk = x, !.bytes = b]
  BY <1>0, <1>1, <1>3, <1>4 DEF StoreNext
<1>6. w \in StorePcs
  BY <1>2 DEF StorePcs
<1>7. store' \in StoreType
  BY <1>0, <1>5, <1>6 DEF StoreType
<1>8. store'.chunk = d + 1 /\ store'.pc = w /\ store'.bytes = b
  BY <1>0, <1>3, <1>5 DEF StoreType
<1>9. /\ OneEach(taken["uniques_3"], store, {"uniques_3"})
      /\ OneEach(taken["head_3"], store, {"uniques_3", "head_3"})
  BY <1>0 DEF StoreInv, StoreInfos, OneTaken, OneEach
<1>10. taken["uniques_3"][d] = 1 /\ taken'["head_3"][d] = 1
  BY <1>0, <1>9 DEF OneEach, Past
<1>11. OneEach(taken["uniques_3"], store', {"uniques_3"})
  BY <1>0, <1>2, <1>8, <1>9, <1>10, OneLeft
<1>12. OneEach(taken'["head_3"], store', {"uniques_3", "head_3"})
  BY <1>0, <1>2, <1>8, <1>9, <1>10, OneLeft
<1>13. Chunks' = Chunks
  BY PacketKept, Numbers
<1>14. StoreInfos'
  BY <1>11, <1>12, <1>13 DEF StoreInfos, OneTaken, OneEach, Past
<1> QED
  BY <1>1, <1>2, <1>4, <1>7, <1>8, <1>14

(* What store() writes of a chunk of kind u with n bytes, and that the output has   *)
(* nothing else is what OutputIsSequential says.                              *)
ChunkWritten(o, c, u, n) ==
  IF u THEN o = [header |-> 2 * n, bytes |-> BytesOf(c, n)]
       ELSE o = [header |-> dup_chunk_head(c), bytes |-> << >>]

(* OutputIsSequential chunk by chunk, before a step and after it. *)
LEMMA WrittenChunks ==
  /\ OutputIsSequential
       <=> \A c \in 1 .. Len(output) : ChunkWritten(output[c], c, is_unique[c], PackedSize(sent(c)))
  /\ OutputIsSequential'
       <=> \A c \in 1 .. Len(output') : ChunkWritten(output'[c], c, is_unique'[c], PackedSize(sent(c)'))
  BY DEF OutputIsSequential, ChunkWritten, BytesOf, PackedSize, dup_chunk_head

(* store() has written its chunk and goes to the next.                          *)
LEMMA StoreLeaves ==
  ASSUME IInv, UNCHANGED <<packet, load, encode, pack>>,
         NEW s \in StoreIn, NEW d \in Chunks, d = store.chunk, d < pack.chunk, Take(s), StoreDue(s, d),
         \/ store.pc = "head_3" /\ s = "head_3"
         \/ store.pc = "flag" /\ s = "bit_pack_out_flag",
         store' = StoreNext(store), NEW e \in Written, output' = Append(output, e),
         e = IF is_unique[d]
               THEN [header |-> 2 * PackedSize(sent(d)), bytes |-> BytesOf(d, PackedSize(sent(d)))]
               ELSE [header |-> dup_chunk_head(d), bytes |-> << >>],
         taken'["bit_pack_out"][d] = put["bit_pack_out"][d],
         taken'["bit_pack_out_flag"][d] = put["bit_pack_out_flag"][d]
  PROVE  IInv'
<1>1. /\ Flows /\ put' = put
      /\ taken'[s][d] = taken[s][d] + 1
      /\ \A c \in Chunks : c # d => taken'[s][c] = taken[s][c]
      /\ \A x \in Streams : x # s => taken'[x] = taken[x]
  BY StoreTakes
<1>2. /\ d \in Nat /\ d \in Places /\ d + 1 \in Places /\ d + 1 <= pack.chunk /\ num_chunks \in Nat
      /\ d <= num_chunks /\ \A c \in Chunks : c \in Nat
  BY Numbers, NextStart DEF Chunks
<1>d. num_chunks' = num_chunks /\ Chunks' = Chunks /\ is_unique' = is_unique /\ Places' = Places
  BY PacketKept, Numbers
<1>3. StoreInv /\ store \in StoreType /\ output \in Seq(Written) /\ Len(output) = d - 1
  BY Numbers DEF IInv, FunctionsOK, StoreType, Written, StoreInv, StoreBytes
<1>4. \A x \in EncodeIn \cup PackIn : taken'[x] = taken[x]
  BY <1>1 DEF EncodeIn, PackIn, StoreIn, Streams, LongStreams, ShortStreams
<1>a. taken'["uniques_3"] = taken["uniques_3"]
  BY <1>1 DEF Streams, ShortStreams
<1>b. /\ \A c \in Chunks : c # d => taken'["head_3"][c] = taken["head_3"][c]
      /\ taken'["head_3"][d] = IF store.pc = "head_3" THEN taken["head_3"][d] + 1 ELSE taken["head_3"][d]
  BY <1>1 DEF Streams, ShortStreams
<1>5. /\ store'.chunk = d + 1 /\ store'.pc = AtChunk(d + 1, "uniques_3") /\ store'.bytes = << >>
      /\ store' \in StoreType /\ StoreInfos'
      /\ store'.pc \in {"uniques_3", "done"} /\ (store'.pc = "done" <=> d + 1 = num_chunks + 1)
  BY <1>a, <1>b, StoreGoesOn
<1>6. store'.pc \in {"uniques_3", "done"} /\ (store'.pc = "done" <=> d + 1 = num_chunks + 1)
  BY <1>5
<1>7. /\ output' \in Seq(Written) /\ Len(output') = d
      /\ output'[d] = e /\ \A c \in 1 .. d - 1 : output'[c] = output[c]
  <2>1. (d - 1) + 1 = d
    BY <1>2
  <2> QED
    BY <2>1, <1>3, AppendProperties
<1>8. \A c \in Chunks : sent(c)' = sent(c)
  BY <1>1 DEF sent
<1>9. OutputIsSequential'
  <2> SUFFICES ASSUME NEW c \in 1 .. Len(output')
               PROVE  ChunkWritten(output'[c], c, is_unique'[c], PackedSize(sent(c)'))
    BY WrittenChunks
  <2>0. c \in 1 .. d /\ c \in Chunks /\ sent(c)' = sent(c)
    BY <1>2, <1>7, <1>8 DEF Chunks
  <2>1. CASE c = d
    BY <2>0, <2>1, <1>7, <1>d DEF ChunkWritten
  <2>2. CASE c # d
    <3>1. c \in 1 .. d - 1 /\ c \in 1 .. Len(output)
      BY <2>0, <2>2, <1>2, <1>3
    <3>2. ChunkWritten(output[c], c, is_unique[c], PackedSize(sent(c)))
      BY <3>1, WrittenChunks DEF IInv
    <3> QED
      BY <2>0, <3>1, <3>2, <1>7, <1>d
  <2> QED
    BY <2>1, <2>2
<1>10. StoreLocals'
  BY <1>d, <1>5, <1>6 DEF StoreLocals, Storing
<1>11. StoreInfos'
  BY <1>5
<1>12. StoreBytes'
  <2>1. Len(<< >>) = 0 /\ << >> = BytesOf(d + 1, 0)
    <3>1. 0 \in Nat
      OBVIOUS
    <3> QED
      BY <3>1, BytesAppend
  <2>2. store'.bytes = BytesOf(store'.chunk, Len(store'.bytes)) /\ Len(store'.bytes) = 0
    BY <2>1, <1>5
  <2>3. \A c \in Chunks : c > d => /\ taken'["bit_pack_out"][c] = taken["bit_pack_out"][c]
                                   /\ taken'["bit_pack_out_flag"][c] = taken["bit_pack_out_flag"][c]
    BY <1>1, <1>2 DEF Streams, LongStreams, ShortStreams
  <2>4. \A c \in Chunks : c > d => /\ taken'["bit_pack_out"][c] = 0 /\ taken'["bit_pack_out_flag"][c] = 0
    BY <2>3, <1>3 DEF StoreInv, StoreBytes
  <2>5. \A c \in Chunks : c >= d + 1 => c > d
    BY <1>2
  <2> QED
    BY <2>2, <2>4, <2>5, <1>2, <1>d, <1>5, <1>6, <1>7 DEF StoreBytes, Storing, BytesOf
<1>13. \A c \in Chunks : c < store'.chunk =>
        /\ taken'["bit_pack_out"][c] = put["bit_pack_out"][c]
        /\ taken'["bit_pack_out_flag"][c] = put["bit_pack_out_flag"][c]
  <2>1. \A c \in Chunks : c < store'.chunk => c = d \/ (c # d /\ c < store.chunk)
    BY <1>2, <1>5
  <2> QED
    BY <2>1, <1>1 DEF IInv, Passed, Streams, LongStreams, ShortStreams
<1>14. FunctionsOK'
  BY <1>5, <1>7, Numbers, PacketKept DEF FunctionsOK, StoreType, Written, Streams, LongStreams
<1>15. StoreInv'
  BY <1>10, <1>11, <1>12 DEF StoreInv
<1> QED
  BY <1>1, <1>2, <1>4, <1>5, <1>6, <1>9, <1>13, <1>14, <1>15, ByStore

(* store() reads a chunk's kind and header. *)
LEMMA StoreInfoStep ==
  ASSUME IInv, StoreInfo, UNCHANGED <<packet, load, encode, pack>>
  PROVE  IInv'
<1>0. StoreInv /\ store \in StoreType
  BY Numbers DEF IInv, FunctionsOK, StoreType
<1>a. store.chunk \in Chunks
  BY <1>0, Numbers DEF StoreInfo, StoreInv, StoreLocals, Places, Chunks
<1>b. PICK d \in Chunks : d = store.chunk
  BY <1>a
<1>c. d \in Nat /\ num_chunks \in Nat /\ is_unique[d] \in BOOLEAN /\ \A c \in Chunks : c \in Nat
  BY Numbers DEF PacketOK
<1>d. num_chunks' = num_chunks /\ Chunks' = Chunks /\ is_unique' = is_unique
  BY PacketKept, Numbers
<1>e. /\ Len(store.bytes) = 0 /\ Len(output) = d - 1
      /\ taken["bit_pack_out"][d] = 0 /\ taken["bit_pack_out_flag"][d] = 0
      /\ store.bytes = BytesOf(d, Len(store.bytes))
  <2>1. store.pc \notin Storing
    BY DEF StoreInfo, Storing
  <2>2. StoreBytes
    BY <1>0 DEF StoreInv
  <2>3. Len(store.bytes) = 0 /\ Len(output) = d - 1 /\ store.bytes = BytesOf(d, Len(store.bytes))
    BY <2>1, <2>2, <1>b DEF StoreBytes
  <2>4. taken["bit_pack_out"][d] = 0
    BY <2>2, <2>3, <1>b DEF StoreBytes
  <2>5. taken["bit_pack_out_flag"][d] = 0
    BY <2>1, <2>2, <2>3, <1>b DEF StoreBytes, Storing
  <2> QED
    BY <2>3, <2>4, <2>5
<1>1. CASE store.pc = "uniques_3" /\ Take("uniques_3")
           /\ store' = [store EXCEPT !.pc = "head_3", !.unique = Peek("uniques_3")] /\ UNCHANGED output
  <2>0. /\ StoreDue("uniques_3", d) /\ store'.chunk = d /\ "uniques_3" \in StoreIn
        /\ store'.pc = "head_3" /\ store'.unique = Peek("uniques_3")
        /\ store' = [store EXCEPT !.pc = "head_3", !.unique = store'.unique]
        /\ store'.bytes = store.bytes /\ taken["uniques_3"][d] = 0
    BY <1>0, <1>1, <1>b, <1>c DEF StoreDue, StoreInv, StoreInfos, OneTaken, Past, StoreIn, StoreType
  <2>1. /\ put' = put /\ taken'["uniques_3"][d] = 1
        /\ \A c \in Chunks : c # d => taken'["uniques_3"][c] = taken["uniques_3"][c]
        /\ \A x \in Streams : x # "uniques_3" => taken'[x] = taken[x]
        /\ Peek("uniques_3") = Meant("uniques_3", d, taken["uniques_3"][d] + 1)
    BY <1>1, <1>b, <2>0, StoreTakes
  <2>2. store'.unique = is_unique[d] /\ store' \in StoreType
    BY <1>0, <1>c, <2>0, <2>1 DEF StoreType, StorePcs, Meant, What
  <2>3. StoreLocals'
    BY <1>0, <1>1, <1>b, <1>d, <2>0, <2>2 DEF StoreInv, StoreLocals, Storing
  <2>4. StoreInfos'
    BY <1>0, <1>1, <1>b, <1>c, <1>d, <2>0, <2>1
    DEF StoreInv, StoreInfos, OneTaken, Past, Streams, LongStreams, ShortStreams
  <2>5. StoreBytes'
    BY <1>0, <1>1, <1>b, <1>d, <1>e, <2>0, <2>1
    DEF StoreInv, StoreBytes, Storing, BytesOf, Streams, LongStreams, ShortStreams
  <2> QED
    BY <1>1, <1>b, <2>0, <2>2, <2>3, <2>4, <2>5, StoreReads DEF StoreInv
<1>2. CASE store.pc = "head_3" /\ Take("head_3")
  <2>0. /\ StoreDue("head_3", d) /\ "head_3" \in StoreIn /\ "head_3" \in Streams
        /\ taken["head_3"][d] = 0 /\ store.unique = is_unique[d]
    BY <1>0, <1>2, <1>b, <1>c
    DEF StoreDue, StoreInv, StoreLocals, StoreInfos, OneTaken, Past, StoreIn, Streams, ShortStreams
  <2>1. /\ put' = put /\ taken'["head_3"][d] = 1
        /\ \A c \in Chunks : c # d => taken'["head_3"][c] = taken["head_3"][c]
        /\ \A x \in Streams : x # "head_3" => taken'[x] = taken[x]
        /\ Peek("head_3") = Meant("head_3", d, taken["head_3"][d] + 1)
        /\ 0 < put["head_3"][d]
    BY <1>2, <1>b, <2>0, StoreTakes
  <2>2. Peek("head_3") = dup_chunk_head(d) /\ dup_chunk_head(d) \in Int
    BY <1>c, <2>1 DEF Meant, What, dup_chunk_head
  <2>3. CASE is_unique[d]
    <3>0. store' = [store EXCEPT !.pc = "flag", !.head = Peek("head_3")] /\ UNCHANGED output
      BY <1>2, <2>0, <2>3 DEF StoreInfo
    <3>1. /\ store'.chunk = d /\ store'.pc = "flag" /\ store'.unique = store.unique
          /\ store'.bytes = store.bytes /\ store' \in StoreType
      BY <1>0, <1>b, <2>2, <3>0 DEF StoreType, StorePcs
    <3>2. StoreLocals'
      BY <1>0, <1>2, <1>b, <1>d, <2>0, <2>3, <3>1 DEF StoreInv, StoreLocals, Storing
    <3>3. StoreInfos'
      BY <1>0, <1>2, <1>b, <1>c, <1>d, <2>1, <3>1
      DEF StoreInv, StoreInfos, OneTaken, Past, Streams, LongStreams, ShortStreams
    <3>4. StoreBytes'
      BY <1>0, <1>2, <1>b, <1>d, <1>e, <2>1, <3>0, <3>1
      DEF StoreInv, StoreBytes, Storing, BytesOf, Streams, LongStreams, ShortStreams
    <3> QED
      BY <1>2, <1>b, <2>0, <3>0, <3>1, <3>2, <3>3, <3>4, StoreReads DEF StoreInv
  <2>4. CASE ~ is_unique[d]
    <3>0. PICK e : /\ e = [header |-> Peek("head_3"), bytes |-> << >>]
                   /\ store' = StoreNext(store) /\ output' = Append(output, e)
      BY <1>2, <2>0, <2>4 DEF StoreInfo
    <3>1. e = [header |-> dup_chunk_head(d), bytes |-> << >>] /\ e \in Written
      BY <2>2, <3>0, EmptySeq DEF Written
    <3>2. d < pack.chunk
      <4>1. Past(pack, d, {"uniques_2", "head_2", "uniques_3", "head_3"})
        BY <2>1 DEF IInv, PackInv, PackInfos, OnePut
      <4>2. pack.pc \in PackPcs /\ pack.chunk \in Nat
        BY Numbers DEF FunctionsOK
      <4>3. d # pack.chunk
        <5> SUFFICES ASSUME d = pack.chunk PROVE FALSE
          OBVIOUS
        <5>1. pack.pc \in Packing \/ pack.pc = "done"
          BY <4>1, <4>2, <1>c DEF Past, PackPcs, Packing
        <5>2. ~ (pack.chunk = num_chunks + 1)
          BY <1>c DEF Chunks
        <5> QED
          BY <5>1, <5>2, <2>4 DEF IInv, PackInv, PackLocals
      <4> QED
        BY <4>1, <4>3 DEF Past
    <3>3. made(d) = 0 /\ put["bit_pack_out_flag"][d] = 0
      <4>1. PackBehind(d)
        BY DEF IInv, PackInv, PackBytes
      <4> QED
        BY <4>1, <3>2, <2>4 DEF PackBehind
    <3>4. /\ taken'["bit_pack_out"][d] = put["bit_pack_out"][d]
          /\ taken'["bit_pack_out_flag"][d] = put["bit_pack_out_flag"][d]
      BY <1>e, <2>1, <3>3 DEF made, Streams, LongStreams, ShortStreams
    <3> QED
      BY <1>2, <1>b, <2>0, <2>4, <3>0, <3>1, <3>2, <3>4, StoreLeaves
  <2> QED
    BY <2>3, <2>4
<1> QED
  BY <1>1, <1>2 DEF StoreInfo

(* Where store() is when it is writing a unique chunk. *)
LEMMA StoringAt ==
  ASSUME IInv, store.pc \in Storing, NEW d, d = store.chunk, NEW n, n = Len(store.bytes)
  PROVE  /\ d \in Chunks /\ d \in Nat /\ n \in Nat
         /\ StoreInv /\ store \in StoreType /\ is_unique[d]
         /\ store.bytes = BytesOf(d, n) /\ Len(output) = d - 1
         /\ taken["bit_pack_out"][d] = n /\ n <= made(d) /\ made(d) \in Nat
         /\ taken["bit_pack_out_flag"][d] = n + (IF store.pc = "byte" THEN 1 ELSE 0)
         /\ d < pack.chunk => /\ made(d) = PackedSize(sent(d))
                              /\ put["bit_pack_out_flag"][d] = made(d) + 1
<1>1. StoreInv /\ store \in StoreType
  BY Numbers DEF IInv, FunctionsOK, StoreType
<1>2. store.pc # "done" /\ store.pc # "uniques_3"
  BY DEF Storing
<1>3. d \in Chunks
  BY <1>1, <1>2, Numbers DEF StoreInv, StoreLocals, Places, Chunks
<1>4. d \in Nat /\ n \in Nat /\ made(d) \in Nat
  BY <1>1, <1>3, Numbers, LenProperties DEF StoreType, made, Streams, LongStreams
<1>5. is_unique[d]
  BY <1>1 DEF StoreInv, StoreLocals
<1>6. /\ store.bytes = BytesOf(d, n) /\ Len(output) = d - 1
      /\ taken["bit_pack_out"][d] = n
      /\ taken["bit_pack_out_flag"][d] = n + (IF store.pc = "byte" THEN 1 ELSE 0)
  BY <1>1, <1>3 DEF StoreInv, StoreBytes
<1>7. n <= made(d)
  BY <1>3, <1>6, Numbers DEF made, Streams, LongStreams
<1>8. PackBehind(d)
  BY <1>3 DEF IInv, PackInv, PackBytes
<1> QED
  BY <1>1, <1>3, <1>4, <1>5, <1>6, <1>7, <1>8 DEF PackBehind

(* store() goes on with its chunk. *)
LEMMA StoreStays ==
  ASSUME IInv, UNCHANGED packet, store.pc \in Storing, NEW p \in Storing,
         NEW b \in Seq(Element("bit_pack_out")),
         store' = [store EXCEPT !.pc = p, !.bytes = b],
         \A s \in {"uniques_3", "head_3"} : taken'[s] = taken[s]
  PROVE  /\ StoreLocals' /\ StoreInfos' /\ store' \in StoreType
         /\ store'.chunk = store.chunk /\ store'.pc = p /\ store'.bytes = b
<1> PICK d : d = store.chunk
  OBVIOUS
<1>0. StoreInv /\ store \in StoreType /\ d \in Chunks
  BY StoringAt
<1>d. /\ num_chunks' = num_chunks /\ Chunks' = Chunks /\ is_unique' = is_unique
      /\ \A c \in Chunks : c \in Nat
  BY PacketKept, Numbers
<1>1. /\ store' \in StoreType /\ store'.chunk = d /\ store'.pc = p /\ store'.bytes = b
      /\ store'.unique = store.unique
  BY <1>0 DEF StoreType, StorePcs, Storing
<1>2. StoreLocals'
  BY <1>0, <1>d, <1>1 DEF StoreInv, StoreLocals, Storing
<1>3. StoreInfos'
  BY <1>0, <1>d, <1>1 DEF StoreInv, StoreInfos, OneTaken, Past, Storing
<1> QED
  BY <1>1, <1>2, <1>3

(* store() reads a flag: a byte follows, or the chunk is complete.                *)
LEMMA StoreFlagStep ==
  ASSUME IInv, StoreFlag, UNCHANGED <<packet, load, encode, pack>>
  PROVE  IInv'
<1> PICK d : d = store.chunk
  OBVIOUS
<1> PICK n : n = Len(store.bytes)
  OBVIOUS
<1>0. store.pc \in Storing /\ store.pc = "flag" /\ Take("bit_pack_out_flag")
  BY DEF Storing, StoreFlag
<1>1. /\ d \in Chunks /\ d \in Nat /\ n \in Nat
      /\ StoreInv /\ store \in StoreType /\ is_unique[d]
      /\ store.bytes = BytesOf(d, n) /\ Len(output) = d - 1
      /\ taken["bit_pack_out"][d] = n /\ n <= made(d) /\ made(d) \in Nat
      /\ taken["bit_pack_out_flag"][d] = n
      /\ d < pack.chunk => /\ made(d) = PackedSize(sent(d))
                           /\ put["bit_pack_out_flag"][d] = made(d) + 1
  BY <1>0, StoringAt
<1>2. StoreDue("bit_pack_out_flag", d) /\ "bit_pack_out_flag" \in StoreIn
  <2>1. ASSUME d < pack.chunk PROVE taken["bit_pack_out_flag"][d] < put["bit_pack_out_flag"][d]
    <3>1. PICK m \in Nat : m = made(d) /\ n <= m
      BY <1>1
    <3>2. put["bit_pack_out_flag"][d] = m + 1
      BY <1>1, <2>1, <3>1
    <3>3. taken["bit_pack_out_flag"][d] = n /\ n \in Nat
      BY <1>1
    <3> QED
      BY <3>1, <3>2, <3>3
  <2> QED
    BY <2>1 DEF StoreDue, StoreIn
<1>3. /\ put' = put
      /\ taken'["bit_pack_out_flag"][d] = n + 1
      /\ \A c \in Chunks : c # d => taken'["bit_pack_out_flag"][c] = taken["bit_pack_out_flag"][c]
      /\ \A x \in Streams : x # "bit_pack_out_flag" => taken'[x] = taken[x]
      /\ Peek("bit_pack_out_flag") = Meant("bit_pack_out_flag", d, n + 1)
  BY <1>0, <1>1, <1>2, StoreTakes
<1>4. Peek("bit_pack_out_flag") = IF d < pack.chunk /\ n = made(d) THEN 0 ELSE 1
  BY <1>1, <1>3 DEF Meant, What, made
<1>5. taken'["bit_pack_out"] = taken["bit_pack_out"]
  BY <1>3 DEF Streams, LongStreams
<1>6. CASE Peek("bit_pack_out_flag") = 1
  <2>1. store' = [store EXCEPT !.pc = "byte", !.bytes = store.bytes] /\ UNCHANGED output
    BY <1>1, <1>6 DEF StoreFlag, StoreType
  <2>2. /\ StoreLocals' /\ StoreInfos' /\ store' \in StoreType
        /\ store'.chunk = d /\ store'.pc = "byte" /\ store'.bytes = store.bytes
    <3>1. \A s \in {"uniques_3", "head_3"} : taken'[s] = taken[s]
      BY <1>3 DEF Streams, ShortStreams
    <3>2. "byte" \in Storing /\ store.bytes \in Seq(Element("bit_pack_out"))
      BY <1>1 DEF Storing, StoreType
    <3> QED
      BY <3>1, <3>2, <2>1, <1>0, StoreStays
  <2>3. StoreBytes'
    <3>1. Chunks' = Chunks
      BY Numbers, PacketKept
    <3> QED
      BY <3>1, <2>1, <2>2, <1>0, <1>1, <1>3, <1>5 DEF StoreInv, StoreBytes, Storing, BytesOf
  <2>4. d < pack.chunk => taken'["bit_pack_out"][d] < made(d)
    BY <1>1, <1>4, <1>5, <1>6
  <2> QED
    BY <2>1, <2>2, <2>3, <2>4, <1>0, <1>1, <1>2, StoreReads DEF StoreInv
<1>7. CASE Peek("bit_pack_out_flag") # 1
  <2>1. d < pack.chunk /\ n = made(d) /\ n = PackedSize(sent(d))
    BY <1>1, <1>4, <1>7
  <2>2. PICK e : /\ e = [header |-> 2 * n, bytes |-> store.bytes]
                 /\ store' = StoreNext(store) /\ output' = Append(output, e)
    BY <1>7 DEF StoreFlag
  <2>3. e \in Written
    <3>1. 2 * n \in Int
      BY <1>1
    <3>2. store.bytes \in Seq(Element("bit_pack_out"))
      BY <1>1 DEF StoreType
    <3> QED
      BY <2>2, <3>1, <3>2 DEF Written
  <2>4. e = [header |-> 2 * PackedSize(sent(d)), bytes |-> BytesOf(d, PackedSize(sent(d)))]
    BY <1>1, <2>1, <2>2
  <2>5. /\ taken'["bit_pack_out"][d] = put["bit_pack_out"][d]
        /\ taken'["bit_pack_out_flag"][d] = put["bit_pack_out_flag"][d]
    BY <1>1, <1>3, <1>5, <2>1 DEF made
  <2> QED
    BY <2>1, <2>2, <2>3, <2>4, <2>5, <1>0, <1>1, <1>2, StoreLeaves
<1> QED
  BY <1>6, <1>7

(* store() reads a byte.                                                       *)
LEMMA StoreByteStep ==
  ASSUME IInv, StoreByte, UNCHANGED <<packet, load, encode, pack>>
  PROVE  IInv'
<1> PICK d : d = store.chunk
  OBVIOUS
<1> PICK n : n = Len(store.bytes)
  OBVIOUS
<1>0. store.pc \in Storing /\ store.pc = "byte" /\ Take("bit_pack_out") /\ UNCHANGED output
  BY DEF Storing, StoreByte
<1>1. /\ d \in Chunks /\ d \in Nat /\ n \in Nat
      /\ StoreInv /\ store \in StoreType /\ is_unique[d]
      /\ store.bytes = BytesOf(d, n) /\ Len(output) = d - 1
      /\ taken["bit_pack_out"][d] = n /\ n <= made(d) /\ made(d) \in Nat
      /\ taken["bit_pack_out_flag"][d] = n + 1
  BY <1>0, StoringAt
<1>2. StoreDue("bit_pack_out", d) /\ "bit_pack_out" \in StoreIn
  BY <1>0, <1>1 DEF StoreDue, StoreIn, IInv, Announced, made
<1>3. PICK e : e = Head(streams["bit_pack_out"])
  OBVIOUS
<1>4. /\ put' = put
      /\ taken'["bit_pack_out"][d] = n + 1
      /\ \A c \in Chunks : c # d => taken'["bit_pack_out"][c] = taken["bit_pack_out"][c]
      /\ \A x \in Streams : x # "bit_pack_out" => taken'[x] = taken[x]
      /\ e \in Element("bit_pack_out") /\ e.of = d /\ e.nth = n + 1
      /\ e.is = Meant("bit_pack_out", d, n + 1)
  BY <1>0, <1>1, <1>2, <1>3, StoreTakes DEF Peek
<1>5. e = [is |-> d, of |-> d, nth |-> n + 1]
  BY <1>4 DEF Element, Meant, What
<1>6. PICK b \in Seq(Element("bit_pack_out")) :
        b = Append(store.bytes, e) /\ b = BytesOf(d, n + 1) /\ Len(b) = n + 1
  <2>1. Append(store.bytes, e) \in Seq(Element("bit_pack_out")) /\ Len(Append(store.bytes, e)) = n + 1
    <3>1. store.bytes \in Seq(Element("bit_pack_out"))
      BY <1>1 DEF StoreType
    <3> QED
      BY <3>1, <1>4, AppendProperties
  <2>2. Append(store.bytes, e) = BytesOf(d, n + 1)
    BY <1>1, <1>5, BytesAppend
  <2> QED
    BY <2>1, <2>2
<1>7. store' = [store EXCEPT !.pc = "flag", !.bytes = b]
  BY <1>1, <1>3, <1>6 DEF StoreByte, StoreType
<1>8. /\ StoreLocals' /\ StoreInfos' /\ store' \in StoreType
      /\ store'.chunk = d /\ store'.pc = "flag" /\ store'.bytes = b
  <2>1. \A s \in {"uniques_3", "head_3"} : taken'[s] = taken[s]
    BY <1>4 DEF Streams, ShortStreams
  <2>2. "flag" \in Storing
    BY DEF Storing
  <2> QED
    BY <2>1, <2>2, <1>0, <1>6, <1>7, StoreStays
<1>9. StoreBytes'
  <2>1. Chunks' = Chunks
    BY Numbers, PacketKept
  <2>2. taken'["bit_pack_out_flag"] = taken["bit_pack_out_flag"]
    BY <1>4 DEF Streams, ShortStreams
  <2>3. \A c \in Chunks : c > d => c # d
    BY <1>1
  <2> QED
    BY <2>1, <2>2, <2>3, <1>0, <1>1, <1>4, <1>6, <1>8 DEF StoreInv, StoreBytes, Storing, BytesOf
<1> QED
  BY <1>0, <1>1, <1>2, <1>8, <1>9, StoreReads DEF StoreInv

(* A step of store(). *)
LEMMA StoreStepKeeps == IInv /\ StoreStep => IInv'
  BY StoreInfoStep, StoreFlagStep, StoreByteStep DEF StoreStep

-----------------------------------------------------------------------------
(* The kernel's beginning *)

(* A packet of Init's: the bounds of its chunks are those of its bytes.          *)
LEMMA InitPacket ==
  ASSUME Init
  PROVE  PacketOK
<1>1. PICK n \in 0 .. MAX_CHUNKS : chunk_bndry \in [1 .. n -> 0 .. n * MAX_SIZE]
  BY DEF Init
<1>2. n \in Nat /\ MAX_SIZE \in Nat
  BY SizeAssumption
<1>3. n * MAX_SIZE \in Nat
  BY <1>2, SMT
<1>4. PICK m \in Nat : m = n * MAX_SIZE
  BY <1>3
<1>5. chunk_bndry \in Seq(Nat) /\ num_chunks = n
  <2>1. chunk_bndry \in [1 .. n -> Nat]
    BY <1>1, <1>4
  <2>2. chunk_bndry \in Seq(Nat)
    BY <2>1, <1>2, SeqDef
  <2>3. DOMAIN chunk_bndry = 1 .. n /\ DOMAIN chunk_bndry = 1 .. Len(chunk_bndry) /\ Len(chunk_bndry) \in Nat
    BY <2>1, <2>2, LenProperties
  <2> QED
    BY <2>2, <2>3, <1>2 DEF num_chunks
<1>6. Chunks = 1 .. n /\ chunk_bndry \in [Chunks -> Nat]
  BY <1>1, <1>4, <1>5 DEF Chunks
<1>7. \A c \in Places : StartOf(c) \in Nat
  <2> SUFFICES ASSUME NEW c \in Places PROVE StartOf(c) \in Nat
    OBVIOUS
  <2>1. CASE c = 1
    BY <2>1 DEF StartOf
  <2>2. CASE c # 1
    <3>1. c - 1 \in Chunks
      BY <2>2, <1>2, <1>5, <1>6 DEF Places
    <3>2. chunk_bndry[c - 1] \in Nat
      BY <3>1, <1>6
    <3> QED
      BY <2>2, <3>2 DEF StartOf
  <2> QED
    BY <2>1, <2>2
<1>8. \A c \in Chunks : SizeOf(c) \in Nat /\ SizeOf(c) >= 1
  BY <1>2 DEF Init
<1> QED
  BY <1>2, <1>5, <1>6, <1>7, <1>8 DEF PacketOK, Init

(* Nothing has been written or read, and every function is at the first chunk.    *)
LEMMA InitInvariant == Init => IInv
<1> SUFFICES ASSUME Init PROVE IInv
  OBVIOUS
<1>1. PacketOK
  BY InitPacket
<1>2. /\ num_chunks \in Nat /\ 1 \in Places /\ \A c \in Chunks : c \in Nat /\ c >= 1
  BY <1>1 DEF PacketOK, Places, Chunks
<1>3. /\ streams = [s \in Streams |-> << >>]
      /\ put = [s \in Streams |-> [c \in Chunks |-> 0]] /\ taken = put
  BY DEF Init
<1>4. /\ \A s \in Streams : streams[s] = << >> /\ put[s] = [c \in Chunks |-> 0] /\ taken[s] = put[s]
      /\ \A s \in Streams, c \in Chunks : put[s][c] = 0 /\ taken[s][c] = 0
  BY <1>3
<1>5. FlowOK
  <2>1. \A s \in Streams : streams[s] \in Seq(Element(s))
    BY <1>4, EmptySeq
  <2>2. put \in [Streams -> [Chunks -> Nat]] /\ taken \in [Streams -> [Chunks -> Nat]]
    BY <1>3
  <2> QED
    BY <1>3, <2>1, <2>2 DEF FlowOK
<1>6. Len(<< >>) = 0
  BY EmptySeq
<1>7. Fifo
  <2> SUFFICES ASSUME NEW s \in Streams PROVE Holds(streams[s], taken[s], put[s], num_chunks)
    BY DEF Fifo
  <2>1. streams[s] = << >> /\ \A c \in 1 .. num_chunks : taken[s][c] = 0 /\ put[s][c] = 0
    BY <1>4 DEF Chunks
  <2> QED
    BY <2>1, <1>6 DEF Holds
<1>8. Meaning
  BY <1>4, <1>6 DEF Meaning
<1>9. /\ load   = [pc |-> AtChunk(1, "boundaries_1"), chunk |-> 1, j |-> 0]
      /\ encode = [pc |-> AtChunk(1, "boundaries_1"), chunk |-> 1, bound |-> 0, last |-> 0,
                   unique |-> FALSE, head |-> 0, left |-> 0]
      /\ pack   = [pc |-> AtChunk(1, "uniques_2"), chunk |-> 1, unique |-> FALSE, head |-> 0,
                   code |-> 0, rem |-> 0, left |-> 0]
      /\ store  = [pc |-> AtChunk(1, "uniques_3"), chunk |-> 1, unique |-> FALSE, head |-> 0,
                   bytes |-> << >>]
      /\ output = << >>
  BY DEF Init
<1>10. /\ load.pc \in {"boundaries_1", "done"} /\ encode.pc \in {"boundaries_1", "done"}
       /\ pack.pc \in {"uniques_2", "done"} /\ store.pc \in {"uniques_3", "done"}
       /\ load.pc = "done" <=> 1 = num_chunks + 1
       /\ encode.pc = "done" <=> 1 = num_chunks + 1
       /\ pack.pc = "done" <=> 1 = num_chunks + 1
       /\ store.pc = "done" <=> 1 = num_chunks + 1
       /\ load.chunk = 1 /\ encode.chunk = 1 /\ pack.chunk = 1 /\ store.chunk = 1
       /\ load.j = 0 /\ encode.last = 0 /\ store.bytes = << >>
  BY <1>2, <1>9 DEF AtChunk
<1>11. FunctionsOK
  BY <1>2, <1>9, <1>10, EmptySeq DEF FunctionsOK, LoadPcs, EncodePcs, PackPcs, StorePcs
<1>12. StartOf(1) = 0
  BY DEF StartOf
<1>a. /\ \A s \in {"boundaries_1", "uniques_1", "head_1", "uniques_2", "head_2", "uniques_3", "head_3"} :
            \A c \in Chunks : put[s][c] = 0 /\ taken[s][c] = 0
  BY <1>4 DEF Streams, ShortStreams
<1>13. LoadInv
  <2>1. OneEach(put["boundaries_1"], load, {"boundaries_1"})
    BY <1>1, <1>10, <1>a, NoneYet
  <2>2. OneEach(put["uniques_1"], load, {"boundaries_1", "uniques_1"})
    BY <1>1, <1>10, <1>a, NoneYet
  <2>3. OneEach(put["head_1"], load, {"boundaries_1", "uniques_1", "head_1"})
    BY <1>1, <1>10, <1>a, NoneYet
  <2>4. \A c \in Chunks : put["input"][c] = 0
    BY <1>4 DEF Streams, LongStreams
  <2> QED
    BY <1>2, <1>10, <1>12, <2>1, <2>2, <2>3, <2>4 DEF LoadInv, OnePut, OneEach
<1>14. EncodeInv
  <2>1. EncodeLocals
    BY <1>10, <1>12 DEF EncodeLocals, Encoding
  <2>2. EncodeInfos
    <3>1. OneEach(taken["boundaries_1"], encode, {"boundaries_1"})
      BY <1>1, <1>10, <1>a, NoneYet
    <3>2. OneEach(taken["uniques_1"], encode, {"boundaries_1", "uniques_1"})
      BY <1>1, <1>10, <1>a, NoneYet
    <3>3. OneEach(taken["head_1"], encode, {"boundaries_1", "uniques_1", "head_1"})
      BY <1>1, <1>10, <1>a, NoneYet
    <3>4. OneEach(put["uniques_2"], encode, {"boundaries_1", "uniques_1", "head_1", "uniques_2"})
      BY <1>1, <1>10, <1>a, NoneYet
    <3>5. OneEach(put["head_2"], encode, {"boundaries_1", "uniques_1", "head_1", "uniques_2", "head_2"})
      BY <1>1, <1>10, <1>a, NoneYet
    <3> QED
      BY <3>1, <3>2, <3>3, <3>4, <3>5 DEF EncodeInfos, OnePut, OneTaken, OneEach
  <2>3. EncodeCodes
    <3>1. encode.pc \notin Encoding
      BY <1>10 DEF Encoding
    <3> QED
      BY <3>1, <1>2, <1>4, <1>10
      DEF EncodeCodes, EncodeAhead, EncodeBehind, EncodeHere, Encoding, sent, Streams, LongStreams, ShortStreams
  <2> QED
    BY <2>1, <2>2, <2>3 DEF EncodeInv
<1>15. PackInv
  <2>1. PackLocals
    BY <1>10 DEF PackLocals, Packing
  <2>2. PackInfos
    <3>1. OneEach(taken["uniques_2"], pack, {"uniques_2"})
      BY <1>1, <1>10, <1>a, NoneYet
    <3>2. OneEach(taken["head_2"], pack, {"uniques_2", "head_2"})
      BY <1>1, <1>10, <1>a, NoneYet
    <3>3. OneEach(put["uniques_3"], pack, {"uniques_2", "head_2", "uniques_3"})
      BY <1>1, <1>10, <1>a, NoneYet
    <3>4. OneEach(put["head_3"], pack, {"uniques_2", "head_2", "uniques_3", "head_3"})
      BY <1>1, <1>10, <1>a, NoneYet
    <3> QED
      BY <3>1, <3>2, <3>3, <3>4 DEF PackInfos, OnePut, OneTaken, OneEach
  <2>3. PackBytes
    <3>1. pack.pc \notin Packing
      BY <1>10 DEF Packing
    <3>2. PackHere(pack.chunk, packed(pack.chunk))
      BY <3>1 DEF PackHere
    <3>3. \A c \in Chunks : PackAhead(c) /\ PackBehind(c)
      BY <1>2, <1>4, <1>10
      DEF PackAhead, PackBehind, packed, made, Streams, LongStreams, ShortStreams
    <3> QED
      BY <3>2, <3>3 DEF PackBytes
  <2> QED
    BY <2>1, <2>2, <2>3 DEF PackInv
<1>16. StoreInv
  <2>1. StoreLocals
    BY <1>10 DEF StoreLocals, Storing
  <2>2. StoreInfos
    <3>1. OneEach(taken["uniques_3"], store, {"uniques_3"})
      BY <1>1, <1>10, <1>a, NoneYet
    <3>2. OneEach(taken["head_3"], store, {"uniques_3", "head_3"})
      BY <1>1, <1>10, <1>a, NoneYet
    <3> QED
      BY <3>1, <3>2 DEF StoreInfos, OneTaken, OneEach
  <2>3. StoreBytes
    <3>1. << >> = BytesOf(1, 0)
      BY BytesAppend
    <3> QED
      BY <3>1, <1>2, <1>4, <1>6, <1>9, <1>10 DEF StoreBytes, Storing, Streams, LongStreams, ShortStreams
  <2> QED
    BY <2>1, <2>2, <2>3 DEF StoreInv
<1>17. Order /\ Passed /\ Announced
  <2>1. ~ (pack.pc = "code") /\ ~ (store.pc = "byte")
    BY <1>10
  <2> QED
    BY <2>1, <1>2, <1>4, <1>10 DEF Order, Passed, Announced, Streams, LongStreams, ShortStreams
<1>18. OutputIsSequential
  BY <1>6, <1>9 DEF OutputIsSequential
<1> QED
  BY <1>1, <1>5, <1>7, <1>8, <1>11, <1>13, <1>14, <1>15, <1>16, <1>17, <1>18 DEF IInv, TypeOK

(* Nothing changes when the kernel has returned, or when none of it moves.        *)
LEMMA StutterKeeps == IInv /\ UNCHANGED vars => IInv'
<1> SUFFICES ASSUME IInv, UNCHANGED vars PROVE IInv'
  OBVIOUS
<1>1. /\ UNCHANGED packet /\ chunk_bndry' = chunk_bndry /\ is_unique' = is_unique
      /\ streams' = streams /\ put' = put /\ taken' = taken
      /\ load' = load /\ encode' = encode /\ pack' = pack /\ store' = store /\ output' = output
  BY DEF vars, packet, flow
<1>2. Flows
  <2>1. PacketOK /\ FlowOK /\ Fifo /\ Meaning
    BY DEF IInv, TypeOK
  <2>2. Chunks' = Chunks /\ num_chunks' = num_chunks /\ \A s \in Streams : Element(s)' = Element(s)
    BY <1>1, <2>1, PacketKept
  <2>3. FlowOK' /\ Fifo'
    BY <1>1, <2>1, <2>2 DEF FlowOK, Fifo
  <2>4. Meaning'
    BY <1>1, <2>1 DEF Meaning, Meant, packet, StartOf
  <2> QED
    BY <2>3, <2>4 DEF Flows
<1>3. LoadInv'
  BY <1>1, Numbers, LoadFrame DEF IInv
<1>4. load' \in LoadType /\ load.chunk <= load'.chunk
  BY <1>1, Numbers DEF FunctionsOK, LoadType
<1> QED
  BY <1>1, <1>2, <1>3, <1>4, ByLoad

(* The invariant holds in every reachable state, whatever the depths and the speeds. *)
THEOREM Invariance == Spec => []IInv
<1>1. Init => IInv
  BY InitInvariant
<1>2. IInv /\ [Next]_vars => IInv'
  BY LoadStep, EncodeStepKeeps, PackStepKeeps, StoreStepKeeps, StutterKeeps DEF Next, Returned
<1> QED
  BY <1>1, <1>2, PTL DEF Spec

-----------------------------------------------------------------------------
(* What follows for the output and the streams *)

(* The types of every variable, from the invariant. *)
THEOREM TypesCorrect == Spec => []TypeOK
<1>1. IInv => TypeOK
  BY DEF IInv
<1> QED
  BY <1>1, Invariance, PTL

(* Every chunk's entry in the output is the one that the functions would write if they ran *)
(* one after the other: store()'s header and bytes for a unique chunk, the header alone for a *)
(* duplicate.                                                                *)
THEOREM OutputSequential == Spec => []OutputIsSequential
<1>1. IInv => OutputIsSequential
  BY DEF IInv
<1> QED
  BY <1>1, Invariance, PTL

(* No chunk has more codes than bytes. *)
LEMMA CodesBounded ==
  ASSUME IInv, NEW c \in Chunks
  PROVE  sent(c) \in Nat /\ SizeOf(c) \in Nat /\ sent(c) <= SizeOf(c)
<1>1. sent(c) \in Nat /\ SizeOf(c) \in Nat /\ SizeOf(c) >= 1 /\ c \in Nat /\ encode.chunk \in Nat
  BY Numbers DEF PacketOK, sent, Streams, LongStreams
<1>2. EncodeAhead(c) /\ EncodeBehind(c)
  BY DEF IInv, EncodeInv, EncodeCodes
<1>3. CASE c < encode.chunk
  BY <1>1, <1>2, <1>3 DEF EncodeBehind
<1>4. CASE c = encode.chunk /\ encode.pc \in Encoding \ {"first"}
  <2>1. EncodeHere(c)
    BY <1>4 DEF IInv, EncodeInv, EncodeCodes, Encoding
  <2>2. encode.left \in Nat
    BY Numbers DEF FunctionsOK
  <2> QED
    BY <2>1, <2>2, <1>1, <1>4 DEF EncodeHere
<1>5. CASE c > encode.chunk \/ (c = encode.chunk /\ encode.pc \notin Encoding \ {"first"})
  BY <1>1, <1>2, <1>5 DEF EncodeAhead
<1> QED
  BY <1>1, <1>3, <1>4, <1>5

(* bit_pack() has made no more bytes than its codes need. *)
LEMMA BytesBounded ==
  ASSUME IInv, NEW c \in Chunks
  PROVE  made(c) \in Nat /\ made(c) <= PackedSize(sent(c)) /\ PackedSize(sent(c)) \in Nat
<1>1. /\ sent(c) \in Nat /\ made(c) \in Nat /\ packed(c) \in Nat /\ packed(c) <= sent(c)
      /\ c \in Nat /\ pack.chunk \in Nat
  BY Numbers DEF sent, made, packed, Streams, LongStreams
<1>2. PackAhead(c) /\ PackBehind(c)
  BY DEF IInv, PackInv, PackBytes
<1>3. PackedSize(sent(c)) \in Nat
  BY <1>1, SizeIsPacked
<1>4. CASE c < pack.chunk
  BY <1>1, <1>2, <1>3, <1>4 DEF PackBehind
<1>5. CASE c = pack.chunk /\ pack.pc \in Packing
  <2>1. PICK t \in Nat : t = packed(c) /\ PackHere(c, t)
    BY <1>1, <1>5, PackingAt
  <2>2. PICK w \in Nat, z \in Nat : w = Whole(t) /\ z = PackedSize(t) /\ w <= z
    BY CodeBits, SizeIsPacked
  <2>3. pack.left \in Nat
    BY Numbers DEF FunctionsOK
  <2>4. made(c) <= z
    BY <2>1, <2>2, <2>3, <1>1, <1>5 DEF PackHere, Packing
  <2>5. z <= PackedSize(sent(c))
    BY <2>1, <2>2, <1>1, PackedGrows
  <2> QED
    BY <2>2, <2>4, <2>5, <1>1, <1>3
<1>6. CASE c > pack.chunk \/ (c = pack.chunk /\ pack.pc \notin Packing)
  BY <1>1, <1>2, <1>3, <1>6 DEF PackAhead
<1> QED
  BY <1>1, <1>3, <1>4, <1>5, <1>6

(* What store() writes for a packet is bounded by its size: no chunk's bytes are more than   *)
(* CODE_LENGTH bits for each of its own, so the kernel's output buffer has room for them.     *)
THEOREM Bounded == Spec => []OutputBounded
<1>1. ASSUME IInv PROVE OutputBounded
  <2>1. ASSUME NEW c \in Chunks
        PROVE  /\ sent(c) <= SizeOf(c) /\ PackedSize(sent(c)) <= PackedSize(SizeOf(c))
               /\ PackedSize(sent(c)) \in Nat /\ PackedSize(SizeOf(c)) \in Nat
               /\ made(c) <= PackedSize(SizeOf(c)) /\ made(c) \in Nat
    <3>1. sent(c) \in Nat /\ SizeOf(c) \in Nat /\ sent(c) <= SizeOf(c)
      BY <1>1, CodesBounded
    <3>2. made(c) \in Nat /\ made(c) <= PackedSize(sent(c)) /\ PackedSize(sent(c)) \in Nat
      BY <1>1, BytesBounded
    <3>3. PackedSize(sent(c)) <= PackedSize(SizeOf(c)) /\ PackedSize(SizeOf(c)) \in Nat
      BY <3>1, PackedGrows, SizeIsPacked
    <3> QED
      BY <3>1, <3>2, <3>3
  <2>2. ASSUME NEW c \in 1 .. Len(output) PROVE Len(output[c].bytes) <= PackedSize(SizeOf(c))
    <3>1. c \in Chunks
      <4>1. Len(output) = store.chunk - 1
        BY <1>1 DEF IInv, StoreInv, StoreBytes
      <4> QED
        BY <1>1, <4>1, Numbers DEF Places, Chunks
    <3>2. PICK n \in Nat : n = PackedSize(sent(c)) /\ n <= PackedSize(SizeOf(c))
      BY <2>1, <3>1
    <3>a. ChunkWritten(output[c], c, is_unique[c], n)
      BY <1>1, <3>2, WrittenChunks DEF IInv
    <3>3. CASE is_unique[c]
      <4>1. output[c].bytes = BytesOf(c, n)
        BY <3>3, <3>a DEF ChunkWritten
      <4>2. Len(BytesOf(c, n)) = n
        BY BytesAppend
      <4> QED
        BY <3>2, <4>1, <4>2
    <3>4. CASE ~ is_unique[c]
      <4>1. output[c].bytes = << >>
        BY <3>4, <3>a DEF ChunkWritten
      <4> QED
        BY <2>1, <3>1, <4>1, EmptySeq
    <3> QED
      BY <3>3, <3>4
  <2>3. ASSUME store.pc \in Storing PROVE Len(store.bytes) <= PackedSize(SizeOf(store.chunk))
    <3>1. PICK d \in Chunks, n \in Nat : d = store.chunk /\ n = Len(store.bytes) /\ n <= made(d)
      BY <1>1, <2>3, StoringAt
    <3> QED
      BY <2>1, <3>1
  <2> QED
    BY <2>1, <2>2, <2>3 DEF OutputBounded, Storing
<1> QED
  BY <1>1, Invariance, PTL

(* lzw_encode() reads the next byte of its own chunk, never another chunk's, however far      *)
(* load() is ahead of it.                                                   *)
THEOREM OwnBytes == Spec => []BytesOfOwnChunk
<1>1. ASSUME IInv, encode.pc = "first" \/ (encode.pc = "input" /\ encode.left > 1), streams["input"] # << >>
      PROVE  Peek("input") = NextByte /\ NextByte \in StartOf(encode.chunk) .. chunk_bndry[encode.chunk]
  <2> PICK d : d = encode.chunk
    OBVIOUS
  <2>0. encode.pc \in Encoding
    BY <1>1 DEF Encoding
  <2>1. /\ d \in Chunks /\ d \in Nat /\ EncodeInv /\ is_unique[d] /\ EncodeHere(d)
        /\ SizeOf(d) \in Nat /\ SizeOf(d) >= 1 /\ encode.left \in Nat /\ taken["input"][d] \in Nat
        /\ encode.bound = chunk_bndry[d]
    BY <1>1, <2>0, EncodingAt
  <2>2. /\ StartOf(d) \in Nat /\ chunk_bndry[d] \in Nat /\ SizeOf(d) = chunk_bndry[d] + 1 - StartOf(d)
    BY <1>1, <2>1, Numbers, NextStart
  <2>3. /\ taken["input"][d] = SizeOf(d) - encode.left + (IF encode.pc = "first" THEN 0 ELSE 1)
        /\ taken["input"][d] < SizeOf(d)
    <3>1. CASE encode.pc = "first"
      <4>1. taken["input"][d] = 0
        BY <3>1, <2>1 DEF EncodeInv, EncodeCodes, EncodeAhead
      <4> QED
        BY <3>1, <4>1, <2>1 DEF EncodeHere
    <3>2. CASE encode.pc = "input" /\ encode.left > 1
      BY <3>2, <2>1 DEF EncodeHere, Encoding, Taken
    <3> QED
      BY <1>1, <3>1, <3>2
  <2>4. PICK q, lo, hi : q = streams["input"] /\ lo = taken["input"] /\ hi = put["input"]
    OBVIOUS
  <2>5. FirstTaken(q, lo, hi, d, num_chunks)
    <3>1. EncodeDue("input", d) /\ "input" \in EncodeIn
      BY <2>1, <2>3 DEF EncodeDue, EncodeIn
    <3>2. /\ "input" \in Streams /\ PacketOK /\ FlowOK /\ Fifo
          /\ \A c \in Chunks : c < d => lo[c] = hi[c]
          /\ \A c \in Chunks : c > d /\ lo[c] < hi[c] => lo[d] < hi[d]
      BY <1>1, <2>1, <2>4, <3>1, EncodeInOrder DEF IInv, TypeOK
    <3>3. /\ Chunks = 1 .. num_chunks /\ Elements(Element("input"), num_chunks) /\ num_chunks \in Nat
      BY <3>2, ElementsOfStream DEF PacketOK
    <3>4. Oldest(lo, hi, d, num_chunks)
      BY <3>2, <3>3 DEF Oldest
    <3>5. /\ q \in Seq(Element("input")) /\ q # << >> /\ Holds(q, lo, hi, num_chunks)
          /\ lo \in [1 .. num_chunks -> Nat] /\ hi \in [1 .. num_chunks -> Nat] /\ d \in 1 .. num_chunks
      BY <1>1, <2>1, <2>4, <3>2, <3>3 DEF FlowOK, Fifo
    <3> QED
      BY <3>3, <3>4, <3>5, TakeKeeps
  <2>6. PICK e : e = Head(q)
    OBVIOUS
  <2>7. e.of = d /\ e.nth = taken["input"][d] + 1
    BY <2>4, <2>5, <2>6 DEF FirstTaken
  <2>8. 1 \in 1 .. Len(q) /\ e = q[1]
    <3>1. q \in Seq(Element("input"))
      BY <1>1, <2>4 DEF IInv, TypeOK, FlowOK, Streams, LongStreams
    <3> QED
      BY <3>1, <1>1, <2>4, <2>6, HeadTailProperties, EmptySeq, LenProperties
  <2>9. e.is = Meant("input", d, taken["input"][d] + 1)
    BY <1>1, <2>4, <2>7, <2>8 DEF IInv, Meaning, Streams, LongStreams
  <2>10. Peek("input") = StartOf(d) + taken["input"][d]
    BY <2>1, <2>2, <2>4, <2>6, <2>9 DEF Peek, Meant, What
  <2>11. Peek("input") = NextByte
    <3>1. CASE encode.pc = "first"
      BY <3>1, <2>1, <2>2, <2>3, <2>10 DEF NextByte
    <3>2. CASE encode.pc = "input"
      BY <3>2, <2>1, <2>2, <2>3, <2>10 DEF NextByte
    <3> QED
      BY <1>1, <3>1, <3>2
  <2>12. Peek("input") \in StartOf(d) .. chunk_bndry[d]
    BY <2>1, <2>2, <2>3, <2>10
  <2> QED
    BY <2>11, <2>12
<1>2. IInv => BytesOfOwnChunk
  BY <1>1 DEF BytesOfOwnChunk
<1> QED
  BY <1>2, Invariance, PTL

(* When all four functions are done nothing is left in any stream.                        *)
THEOREM Drained == Spec => []DrainedAtReturn
<1>1. ASSUME IInv, Done, NEW s \in Streams PROVE streams[s] = << >>
  <2>1. /\ encode.chunk = num_chunks + 1 /\ pack.chunk = num_chunks + 1 /\ store.chunk = num_chunks + 1
        /\ load.chunk = num_chunks + 1
    BY <1>1 DEF Done, IInv, LoadInv, EncodeInv, EncodeLocals, PackInv, PackLocals, StoreInv, StoreLocals
  <2>2. ASSUME NEW c \in Chunks PROVE taken[s][c] = put[s][c]
    <3>1. c < encode.chunk /\ c < pack.chunk /\ c < store.chunk /\ c < load.chunk
      BY <1>1, <2>1, Numbers DEF Chunks
    <3>2. CASE s \in {"boundaries_1", "uniques_1", "head_1"}
      BY <1>1, <3>1, <3>2 DEF IInv, LoadInv, EncodeInv, EncodeInfos, OnePut, OneTaken, Past
    <3>3. CASE s \in {"uniques_2", "head_2"}
      BY <1>1, <3>1, <3>3 DEF IInv, EncodeInv, EncodeInfos, PackInv, PackInfos, OnePut, OneTaken, Past
    <3>4. CASE s \in {"uniques_3", "head_3"}
      BY <1>1, <3>1, <3>4 DEF IInv, PackInv, PackInfos, StoreInv, StoreInfos, OnePut, OneTaken, Past
    <3>5. CASE s \in {"input", "lzw_encode_out", "lzw_encode_out_flag", "bit_pack_out", "bit_pack_out_flag"}
      BY <1>1, <3>1, <3>5 DEF IInv, Passed
    <3> QED
      BY <3>2, <3>3, <3>4, <3>5 DEF Streams, LongStreams, ShortStreams
  <2>3. PICK q : q = streams[s] /\ q \in Seq(Element(s)) /\ Holds(q, taken[s], put[s], num_chunks)
    BY <1>1 DEF IInv, TypeOK, FlowOK, Fifo
  <2> SUFFICES ASSUME q # << >> PROVE FALSE
    BY <2>3
  <2>4. 1 \in 1 .. Len(q)
    BY <2>3, EmptySeq, LenProperties
  <2>5. q[1] \in Element(s)
    BY <2>3, <2>4, ElementOfSeq
  <2>6. PICK c \in Chunks, m \in Nat : c = q[1].of /\ m = q[1].nth
    BY <2>5 DEF Element
  <2>7. taken[s][c] < m /\ m <= put[s][c] /\ taken[s][c] \in Nat /\ put[s][c] \in Nat
    BY <1>1, <2>3, <2>4, <2>6, Numbers DEF Holds
  <2> QED
    BY <2>2, <2>7
<1>2. IInv => DrainedAtReturn
  BY <1>1 DEF DrainedAtReturn
<1> QED
  BY <1>2, Invariance, PTL

=============================================================================
