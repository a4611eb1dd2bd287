# The deduplicating encoder, in TLA+

This directory is the verification project of `src/project`: an encoder that
receives a file over UDP, cuts it into chunks by content, recognises chunks it
has seen, compresses the others with LZW on an FPGA and writes the result, and
the client and decoder at its two ends. The rest of the repository (`hw1` to
`hw7`, the tutorials, the vendored wolfSSL headers) is not part of that program
and is not modelled.

Paths below are relative to `src/project/`; `Server/` is left out where the file
name says enough.

## The system

```
 client ==UDP==> main: get_packet -> slot writer of the ring
                   | sem_cdc      ^ sem_getpacket
                   v              |
                  cdc -> sha -> dedup -> lzw_host ==OpenCL queue==> 2 LZW kernels
                    sem_sha  sem_dedup  sem_lzw |                        |
                                                file[] <== outputs =======
                                                  | after all threads joined
                                                compressed.bin ==> decoder
```

| Component | State | Operations | Interacts through |
|---|---|---|---|
| Client (`Client/client.cpp`) | file position, block count, remainder | cut the file into blocks, set the done bit on the last | UDP datagrams |
| UDP server (`server.cpp`) | socket | `get_packet` | fills `input[writer]` |
| Encoder main loop (`encoder.cpp`) | `writer`, `count`, `done`, the ring `input[]` and `packarray[]`, `total_packets`, five semaphores | take a slot, receive, decode the header, fill, post; store the total, join, write the file | semaphores, ring, global |
| Chunking (`CDC/cdc.cpp`) | `count`, a rolling hash, chunk bounds | `cdc_eff` | ring slot, semaphores |
| SHA-256 (`SHA/sha_neon_software/sha.cpp`) | `count` | digest of each chunk | ring slot, semaphores |
| Deduplication (`Dedup/dedup.cpp`) | `count`, `chunks_map`, `unique_chunks` | number a chunk or refer to an earlier one | ring slot, semaphores |
| LZW host stage (`LZW/fpga/lzw_host.cpp`) | `count`, two half rings of buffers, event vectors, read counters, `file`, `offset` | copy in, enqueue, read when full, drain | ring slot, semaphores, command queue |
| LZW kernel (`LZW/fpga/lzw_kernel.cpp`) | four dataflow processes, streams, a hash map with an associative overflow | load, encode, pack bits, store | streams, device buffers |
| LZW on the CPU (`LZW/cpu/lzw.cpp`) | table | encode, pack bits | none: not linked into the pipeline |
| Decoder (`Decoder/Decoder.cpp`) | list of chunks, code table, bit position | read a header, decompress or copy | the file |
| Timers, logs, test benches | none that results depend on | | |

What is hard in it: five threads share the slots of a ring without a lock, and
only the counts of five semaphores keep them apart; the end of the stream is
announced through a plain global that the stages poll; `recvfrom` may fail and
UDP may lose; three commands per packet run on an out-of-order queue, and their
outputs are collected by two loops with counters of their own; the
chunker computes in unsigned arithmetic over arrays sized for the usual case;
encoder and decoder number chunks and codes independently and must agree.
`PROJECT.json` lists these hazards line by line.

## Modules

| Module | What it is |
|---|---|
| `FileTransfer` | Abstract: a file is taken piece by piece until its end, or until something goes wrong. |
| `Transport` | Client, UDP network, `get_packet()` and the decoding of the header: from the file to the ring. |
| `TransportProofs` | The theorems about `Transport`. |
| `PacketPipe` | Abstract: a bounded FIFO of packets. What the thread pipeline promises. |
| `LzwFeed` | Abstract: what the lzw stage and the rest of the encoder promise each other. |
| `Encoder` | `main()` and the four stage threads: ring, semaphores, `total_packets`, exit. |
| `EncoderProofs` | The theorems about `Encoder`. |
| `LzwHost` | The lzw stage in detail: two kernels, the command queue, the two reading loops. |
| `LzwHostProofs` | The theorems about `LzwHost`, and the invariant that carries them. |
| `OutputOrder` | Where in the file `lzw_host()` puts each packet's output. |
| `Chunker` | `cdc_eff` on one packet: rolling hash, cuts, unsigned arithmetic. |
| `ShaBlocks` | Which blocks `sha()` compresses for each chunk of a packet. |
| `PacketProofs` | The theorems about `Chunker` and `ShaBlocks`, the two stages that read a packet's bytes. |
| `ChunkFile` | The file's records and the decoder's main loop over them. |
| `Dedup` | `chunk_matching` over the ring's slots, the kernel's records, the file, the decoder. |
| `DedupProofs` | The theorems about `Dedup`. |
| `LzwReference` | LZW with a table of strings (the CPU version) and the packing of codes, as functions. |
| `LzwKernel` | One unique chunk through the kernel's hashed table, the packing and `Decompress`. |
| `LzwKernelProofs` | The theorems about `LzwKernel`, and the invariants that carry them. |
| `KernelDataflow` | One run of the kernel: four functions at the same time over bounded streams. |
| `KernelDataflowProofs` | The theorems about `KernelDataflow`, and the invariant that carries them. |
| `Basics` | Lemmas of all the proofs: the arithmetic of a ring, induction over the naturals for a set, what `FlattenSeq` gives. |
| `MC...` | The same modules for TLC, with one `.cfg` for each run. |

How they fit together. `Transport` ends where `Encoder` begins: with a datagram in the slot `writer`, or with the
slot as it was after a failed receive. `Encoder` and `LzwHost` share the
interface `LzwFeed`. `Encoder` implements all of it (`ImplementsFeed`); `LzwHost` takes the environment's part (`Post`,
`SetTotal`) as its own environment's actions, and is shown to keep to the rest (`KeepsFeed`: its only step of the interface is
`Release`, once for each packet). So what holds of `LzwHost` holds of the stage inside the encoder,
without a product of the two state spaces. Both facts are proved, for every ring.
`LzwHost` and `Dedup` both take the order of the file from `OutputOrder`: `LzwHost` is checked against it
(`PlacesAreFixed`), `Dedup` relies on it. `Dedup` takes from `ShaBlocks` that a chunk's digest is a
function of its bytes alone (not that it is SHA-256's, which it is not for all lengths), from `Chunker` that the chunks of a packet are its bytes. `Dedup` and `LzwKernel` meet at a unique chunk: `Dedup` takes it as
a whole, and `LzwKernel` says that it comes back. `KernelDataflow` says that the concurrent kernel writes what the
sequential one would, which both assume.

Definitions whose name contains `Wrong` stand just before the definition they are
a faulty variant of. No specification uses them; they are there to show that the properties
notice such a slip, and `PROJECT.json` ("mutants") says which property notices which.

### Transport and FileTransfer

`SendBlock`, `SendLastBlock` and `SendRemainder` are the three places where the client sends: its
loop of `loops - 1` rounds, the block after it, which carries the done bit if there is no remainder, and the remainder.
`Lose`, `Overtake` and `Duplicate` are what UDP may do to a datagram; a full socket buffer and a failing `sendto()`
are losses too. `Receive` is `recvfrom()` with room for the encoder's own block size, into a slot that keeps what the
datagram does not reach, followed by what `main()` makes of the two header bytes; `ReceiveFails` decodes whatever the slot held. A byte of the file is its offset, so that
a byte in the wrong place or of another packet shows.

The client's and the encoder's block sizes are independent parameters of the two programs (`-b`), as in the code. That
`main()` also waits for a free slot is left out here and is in `Encoder`: it only delays a receive.

Properties that hold:

* `SentIsFile`: what is sent is the file, with no byte twice or missing, exactly when the file is at least a block long. A shorter file is
  preceded by a block that the client reads from behind its data.
* `ImplementsTransfer`: without a fault, client, network and `get_packet()` implement `FileTransfer`; a fault, a shorter block size
  of the encoder's and a short file free it from the promise.
* `PacketsAreDatagrams`: whatever the network does, what is taken for a packet has the length of one datagram and, if the encoder's block
  is not the shorter one, none but its bytes.
* `EndsWithLast`: the loop ends with the client's last datagram, and then nothing is missing that was not lost unless something overtook, or
  after a failed receive into memory in which no packet had ever been received.
* `EndsUnlessLastLost`: `main()` leaves its loop unless every copy of the last datagram is lost. Then it waits for ever:
  there is no timeout, no second try and no acknowledgement.

### Encoder

`main` and `stage[s]` say where each thread is; the code's blocking calls and
shared accesses separate the steps. `main()` goes round `AwaitSlot` (the wrap of
`writer` and `sem_wait(sem_getpacket)`), `GetPacket` or `GetPacketFails`, `FillPacket`
(`packarray[writer]->size`) and `PostPacket` (`sem_post(sem_cdc)`, `count++`, `writer++`,
test of `done`), then `SetTotal` and `JoinAndWrite`. The first packet is handled before
the loop in the code, with the same steps, and starts the threads after it. Each stage goes round
`Await`, `Work`, `Post`, `CheckTotal`.

A datagram is its number. A slot has five fields, `input` (main), `size` (main),
`chunks` (cdc), `sha` (sha) and `header` (dedup), and holds for each the number of the datagram it was
computed from; `NONE` stands for memory never written and for results that mix
two datagrams. That is all that the pipeline's properties tell apart, and it is
what would show a race. `got` and `delivered` are history: what main received and what
the lzw stage passed on.

Simplifications, each of which only removes detail that the properties do not see: a
stage's body is one step (SlotStable says that nothing it reads is changed
while it is at work, which is why that loses nothing); the stack and the counters of bytes are
left out; the counters do not overflow (the run's bound is five packets, the code's 2^32).
`datagrams < MaxPackets` and `errors < MaxRecvErrors` are the two bounds.
The order of datagrams on the network is `Transport`'s: here a datagram
is numbered when it is received.

Fairness is weak fairness of `main()` and of each stage: the threads are ordinary
POSIX threads under a fair scheduler, semaphores that stay positive let their
only waiter through, and the client sends all of the file, so that
a datagram that main is blocked on comes. The last assumption is about the network, not
about the code; without it nothing that needs a next packet can be promised.

Properties that hold:

* `SlotStable`: what a working stage reads in its slot is its own packet's, whatever the others do.
* `CompleteAtExit`: when the file is written, everything received has been handed on and every stage has stopped on the last packet.
* `ImplementsPipe`: with `got` and `delivered` as its state the encoder implements `PacketPipe` with `Capacity = NUM_PACKETS`: packets reach the kernels once, in order, each with results made from its own bytes.
* `ImplementsFeed`: what it posts to the lzw stage, takes back and stores in `total_packets` is as `LzwFeed` says.
* `IInv`: the inductive invariant of the proofs, with `Accounting` (each semaphore equals the distance between its poster and its waiter) as a part.
* `AllDelivered`, `EndsUnlessMissed`: every packet is delivered; the encoder ends unless a stage has *missed* the total.

Violated, against a comment of the code (`you can use diff tool on board`): `Termination`.
`total_packets` is stored after the last packet is posted; a stage that has
finished that packet before the store waits for one more. `GetPacketFails` also shows what follows a failed
`recvfrom`: the slot's old content goes down the pipeline as a new packet.

### LzwHost

This is the `lzw` stage of `Encoder` opened up. Packet `p` goes to kernel `p % 2 + 1` and buffer
`(p % NUM_PACKETS) / 2`. `Run` enqueues three commands; `Write(p)`, `Exec(p)` and `Read(p)` are
their completions, each enabled when the events in its wait list are complete
(the wait lists are the whole vectors of earlier events, as they were when the command was enqueued)
and otherwise in any order. The host reads and writes its own buffers
meanwhile, so that a migration picks up what is there when it happens. `ReadWhenFull` is
the one read per packet from packet `NUM_PACKETS - 1` on, `Drain(k)` the two halves of the
emptying loop. `DedupPosts` and `MainSetsTotal` stand for the rest of the encoder and are `LzwFeed`'s `Post` and `SetTotal`: no
more than `NUM_PACKETS` packets beyond those released are in flight, and the total is stored at any
time after the last packet can have been received.

A buffer's content is the number of the packet that it stems from. Kernel 1's buffers are given to the next packet before the
last one has been read (see below), and no event orders the commands of the two. `Mix(k, i)` is what then stems from no packet alone: a copy
or a migration that ran while another one wrote (`CopyIn` while an earlier `Write` is under way, a `Write` beside the earlier packet's `Exec`, a `CopyOut` beside a `Read`), and what the kernel makes of one
packet's data with another's `num_chunks`, which is an argument by value, captured by `set_args_k` when the command is enqueued.
`Outcomes` says when a command may leave a mix: when it finds another packet's content than its own, or when the commands of two packets were in the queue for its
buffers (`crossed`). It may leave what it finds as well: the other packet may have as many chunks, and the two need not meet.

An index outside the arrays is modelled as reading `NONE`; `IndexInRange` says for which streams that happens.

The length of the stream is any from one packet to `MaxLast + 1`. Properties that hold for all of
them:

* `WaitsOnRealEvent`: no vector of events is indexed past its end. `AllReadAtEnd`: as many outputs are copied as packets were given. `EndsIfTimely`: the draining loop ends.
* `KernelTwoInTurn`: what is read from kernel 2 with the ring full is each packet's own output, whole and in turn. It rests on `KernelTwoSlotsSafe`: its buffers are reused only after they were read.
* `KernelOneNeverStale`: kernel 1's output is that of the packet whose turn it is, or of the one a lap later, or a mix of the two, never one of a lap before. Kernel 1 has no
  counterpart of `KernelTwoSlotsSafe`: the first read is that of kernel 2, so that packet `NUM_PACKETS` takes kernel 1's buffer 0 before it has been read.
* `PlacesAreFixed`: whatever the queue does, each place of the file belongs to the same packet, though it may hold the output of a lap before or after, a mix, or nothing.
* `IndexInRange`: the reads with the ring full stay inside the arrays, and so does the draining loop for a stream that is no longer than the ring or whose last packet has one of the ring's last two
  slots (`DrainFits`). For every other stream it does not: with the code's 50 slots, all streams of more than 50 packets but two in 50.
* `KeepsFeed`: the stage gives slots back as `LzwFeed` promises.

Violated, against a comment of the code (`Writing compressed chunk reveived from fpga`):
`WritesReceivedOnly`. The draining loop does not count up the index of the event that it waits for.

### Chunker

One packet: `Start`, `Cut` and `Slide` (the two branches of the loop), `Close`.
Offsets are taken modulo `UINT_RANGE` and the hash modulo `HASH_RANGE`, as the C
types do. Where an iteration would leave `curr_chunk[]` or the buffer the
behaviour is undefined, and the model stops there (`Undefined`). `buff` holds any
bytes also beyond the packet's end: the window of the last search may reach into
what an earlier packet left there.

Properties that hold: `RollingIsDirect` (the incremental hash equals the hash computed
afresh), `ChunksTile` (the chunks cover the packet without gap or overlap and none is too short), `ContentDefined` (cuts are at the first hit
after the minimum and only there), and `OverrunsOnlyOutside`: the loop leaves its arrays
only for a packet shorter than `MIN_CHUNK_SIZE`, and for such a one always, or for one more than `MIN_CHUNK_SIZE` longer than
`BLOCKSIZE`, which a block size given with `-b` allows.

`SizesAssumption` says what these rest on: `BLOCKSIZE` is a multiple of `MIN_CHUNK_SIZE` (8192 and 256
in the code), so that `curr_chunk[]`, of `BLOCKSIZE / MIN_CHUNK_SIZE` entries, holds the most chunks that the loop can cut. Without it
a packet of the longest length could write one entry more.

### ShaBlocks

`sha()` over the chunks of a packet (`packet_chunks` is its `curr_chunk[]`, `sha_num` its `chunk_num`): `NextChunk`, `Pad` (how many zeros, with the C arithmetic; `padded_data[]`), `FullBlock`,
`FinalBlock`, `OverflowBlock`, `Store`. The rounds of `sha_comp()` on NEON registers are abstracted: the state is told by the blocks that
were compressed, each with the state that was added to the rounds' result, which is all that padding, offsets, lengths and the saving of the state can get wrong.
`saved` is `ABEF_SAVE` and `CDGH_SAVE`, as the number of blocks they are the state of: `Save` is in `FullBlock` and `FinalBlock`, and not in `OverflowBlock`.

Properties that hold: `HashesTheChunks` compares a digest with the one that SHA-256 defines, for every chunk whose length in bits fits in 32 bits:
it is that one whenever a single padded block is enough; for a length of 56 to 63 modulo 64 the message's blocks are all there and in order, but the state added after the
last is that of one block before (`OldStateAdded`). So a digest is always made from the chunk's whole message and nothing else, and equal chunks have equal digests;
that different ones have different digests is assumed (`Dedup`).
`StaysInside` says that neither the padding nor a full block leaves its array, for every length.

Violated, against `README.md` of the program (`Hashes for dedup table calculated using SHA256`): `DigestsAreSHA256`, for those lengths.
The encoder compares its digests only with each other, so that deduplication does not notice.

### Dedup, ChunkFile and OutputOrder

`Receive` stands for `main()`, `cdc` and `sha`: it fills a slot's chunks and their digests and leaves
`num`, `header` and `is_unique` as an earlier packet left them. `MatchUnique`, `MatchDuplicate` and `MatchEnds` are the
dedup loop, a chunk at a time, while later packets arrive and earlier ones are being stored.
`Store` is the copying in of `lzw_host` and the kernel's `store()`: one record for each chunk, as `is_unique` says, into the packet's own output (`outputs`); `records` are those of all packets put together.
`stream` and `starts` are history: the chunks received, and where each packet's begin.
A chunk is a member of `Contents`; that no two contents have the same digest is an assumption, as it is
in the code. `Decode` is the decoder's loop as a fold over records.

`File` puts the packets' outputs in the order of `PacketAt`, which is what the two reading loops do with a
stream of `n` packets: in place while `n < NUM_PACKETS`, in pairs the wrong way round from then on, but in
place again during the draining of an odd `n`. `PlacesAreFixed` checks it against `LzwHost`, up to
outputs that are a lap early or late, mixed, or have not arrived (see `LzwHost`).

Properties that hold: `ReferencesPointBack` (each record has the chunk, or the number that an earlier record of the same
chunk has among the unique ones), `RecordsDecode`, `NumbersAgree`, `StoredOnce`, and `ShortFileDecodes` for a stream
shorter than the ring. `NothingIgnored` (the decoder's `Likely encoder error`) is violated by a longer one.

### LzwReference and LzwKernel

The kernel goes through a chunk in `Match` and `Emit`, one round of its loop each, by what the search finds;
`EncodeEnds` is what is left after the loop, `PackBytes` the packing. `Put` is `hashmap_put` and, when the
bucket is full, `associative_insert`; `associative_map` is the set of bits of each word. Memory that the
kernel does not initialise (codes of empty entries, `values[]`) holds any of `Stale`. `XorByte` is the one operation on bits in the hash, a
parameter that TLC takes from `Bitwise`: what is said of the kernel does not depend on which hash it is. `DecodeFirst` and `DecodeNext` are
`Decompress`; where it would index past its table the model stops in `"undefined"`.

Properties that hold: `RoundTrip` and `DecoderInStep`, also when buckets and associative memory
overflow and the kernel forgets strings (it still counts `code` up, which is what keeps the decoder in
step), and `CodesAreReference` while there is room. Their three conditions are where the kernel stops being LZW. `HashTellsApart`: the kernel compares hashes, never strings, and 0 is its empty key
(`SearchIsFind` is violated without it). `ShiftsFit`: `1 << counter` is a shift of an `int` while `counter` goes up to
71, so that from the 32nd entry of the associative memory on entries are lost or stand for others. `INT_BITS` is 3 or 32 in the run, with 4 entries, so that both sides of the limit occur.
With the code's own sizes, 72 entries and an `int` of 32 bits, `ShiftsFit` ends before the associative memory is full: that strings are dropped from a full one and the chunk comes back all the same
is shown of other sizes (4 entries in the run, any in the proofs), and in the code the 32nd entry is the end of what is promised.
`HashTellsApart` ranges over all parts of the chunk, of which there are about n*n/2: by the birthday bound a 32-bit hash that behaves like a random one tells those of a chunk of a few hundred bytes apart more often
than not, of one of more than about 800 bytes hardly ever. What is proved is therefore of short chunks in practice; the kernel needs it only of the strings that it looks up, which are fewer, but which ones those are depends on the run.
The third, `LongestSafe`, is a chunk short enough for codes of 13 bits: 7938 bytes, less than `MAX_CHUNK_SIZE`.
All three are proved, for every chunk and all sizes, under these conditions and no other. The bytes are smaller than 128 in the run, so that the sign of `char` in
`FNVHash` makes no difference; in the proofs `XorByte` may extend it or not.

### KernelDataflow

Each function is a process whose `pc` is the stream it reads or writes next; `Put` blocks on a full
stream and `Take` on an empty one. A byte of the packet is its position, a code and a byte made of codes the number of its chunk. An element
also carries its chunk and its number there, and `put` and `taken` count the elements about each chunk, on which
no step depends. After each byte a code may or may not go out (`LzwKernel` says which), but `bit_pack` makes bytes of codes as in the code, so that the numbers of
flags and of bytes are right. `Returned` is the end; TLC checks that nothing else stops.

Fairness is weak fairness of each function: they are circuits of their own. Properties that hold:
`OutputIsSequential`, `OutputBounded` (a chunk makes no more codes than it has bytes, nor more bytes than those need),
`BytesOfOwnChunk`, `DrainedAtReturn` and `Returns`. That a packet's records fit in the output buffer follows from `OutputBounded` by arithmetic, which no property repeats: of 8192 bytes
come at most 13 bits each, 13,312 bytes, and of each of at most 32 chunks a header of 4 bytes and less than one byte of padding, while `NUM_ELEMENTS` is 16,384.
The test bench `lzw_pkt_TB.cpp` notes in its line 172 a warning that the stream `bit_pack_out_flag` was read while empty: flags written and flags read match in the code as it is now (`DrainedAtReturn`, `OutputIsSequential`), so that
a read on an empty stream only ever waits.

## Runs

| Run | Instance | Question |
|---|---|---|
| `transport` | 2 slots, block sizes 2 and 5 against 3 and 5, files of 0 to 11 bytes, 3 faults, fair | what arrives of a file, refinement, ending |
| `encoder` | 3 slots, 4 datagrams, 1 error, fair | safety, both refinements, delivery and ending |
| `encoder_ends` | 2 slots, 2 datagrams, fair | violation of `Termination` |
| `lzwhost` | 4 slots, streams of 1 to 8 packets, fair | the reads when the ring is full, the draining and its end |
| `lzwhost_early` | 6 slots, up to 4 packets | violation of `WritesReceivedOnly` |
| `packet` | packets of 0 to 11 bytes of 2 values, block 8, minimum 2, window 2; chunks of 0 to 192 bytes, pairs of chunks | chunking of every content and length; hashing of every length and every place of the padding |
| `sha_overflow` | chunks of 0 to 192 bytes, pairs of chunks | violation of `DigestsAreSHA256` |
| `dedup` | 4 slots, 5 packets of up to 2 chunks of 2 contents | numbering and references on both sides, the file of a short stream |
| `dedup_file` | 2 slots, 2 packets of a chunk | violation of `NothingIgnored` |
| `lzw` | chunks of up to 8 bytes of 2 values, up to 5 of 3, up to 3 of 0 and 1; 2 buckets of 1, 4 associative entries, an int of 3 or of 32 bits | coding, packing and decoding |
| `lzw_zero` | chunks of 0 and 1 | violation of `SearchIsFind` |
| `dataflow` | 2 chunks of up to 3 bytes, depths 1 and 2, fair | output, return and deadlock of the kernel |

Bounds. In `transport` a byte of a header has two bits and the highest is the done bit, so that lengths up to 6
need both bytes, and the high byte of a full block may collide with the done bit if it is put in the wrong place. Files of 0 to 11
bytes are shorter than a block, one to five blocks exactly, and all remainders; a slot of the ring of two is reused up to three
times. Three faults are any three of loss, overtaking, duplicate and failed receive, at any time.

Three slots, four datagrams and an error (five packets) let the ring fill, empty and wrap, and all
four stages and main be in different packets at once; an error may come before, on and after the wrap, on
memory never written and on an old packet. `MaxPackets` bounds the last datagram, not the only one:
every shorter stream is in the run too, as it is in `lzwhost`. With 4 slots each kernel has two buffers, the fewest for which the
order within a kernel matters; 8 packets are two laps, with ends on every slot of the second one, so that all four cases of `DrainFits` occur after a full ring, and kernel 2's reads come round to its first buffer
again. Kernel 1's, which are one packet later, do so only in the draining loop; for more laps there are the proofs.
`INT_MAX` is the code's own initial value (`encoder.h:22`). In the chunker a block of 8 bytes
and a minimum of 2 give room for four chunks, and the lengths go from 0 past `BLOCKSIZE + MIN_CHUNK_SIZE`, both sides of the two limits;
a hash modulus of 4 makes hits and misses about equally common; the hash
stays below `HASH_RANGE`, as it stays below 2^64 in the code. In the hashing 0 to 192 bytes are up to three
full blocks and every remainder; the range of a length in bits is 1024, so that it wraps round from 128 bytes on. Both
stages are in one run, `packet`: they work at the same time on different slots and share no state, so that it is enough when one of the two packets is empty.

In `dedup` the fifth packet takes a slot that has been used, so that stale fields of both kinds meet chunks of both kinds; streams of one to three packets are shorter than the ring. In `lzw`
a hash of 16 bits is wide enough to tell the strings of most chunks apart, two buckets of one entry and
four associative entries overflow within a chunk of 8 bytes, and 3-bit bytes and 4-bit codes have the
same kind of remainders as 8 and 13. In `dataflow` every stream is shorter than what
is written to it for a chunk, which the code's depths of 512 and 4096 also are for a packet; bytes and codes there have 8 and 13
bits.

Fairness. In `encoder` weak fairness of `main()` and of each stage (see above), in `lzwhost` of the whole system: as long as the stage, the queue or the
thread that posts packets to it can go on, one of them does,
in `dataflow` of each function, in `transport` of the client and of the receive: the
network delivers what it does not lose. No fairness is assumed of faults, and none is strong.

Deadlock is checked in the run `dataflow` only: elsewhere the system ends, and `Termination` shows that the encoder also hangs.

## Proofs

Every theorem is of the module's `Spec`, for all values of its constants that satisfy the module's assumptions; each is derived
from an inductive invariant, with one lemma for each action: `IInv` (theorem `Invariance` of each module), `ShaIInv` (`ShaInvariance`) of `ShaBlocks`,
and in `LzwKernelProofs` four that build on each other, `Sync`, `Divided`, `Decoded` and `Refers`, with `TypeOK`.

| Module | Theorems | For every |
|---|---|---|
| `EncoderProofs` | `TypeCorrect`, `SemaphoresBalance`, `SlotsAreStable`, `DeliversInOrder`, `CompletesBeforeExit`; refinements `PipelineImplementsPipe`, `EncoderImplementsFeed` | ring size, number of datagrams and of receive errors |
| `LzwHostProofs` | `KernelTwoStaysInTurn`, `KernelOneIsNeverStale`, `KernelTwoNeverLosesOutput`, `FilePlacesFixed`, `WaitsOnEnqueued`, `EndsWithAllRead`, `IndicesStayInside`; refinement `LzwHostKeepsFeed` | even ring, stream length, order in which the queue completes commands |
| `TransportProofs` | `TakesDatagrams`, `LoopEndsWithLast`, `ClientSendsFile`; refinement `TransportImplementsTransfer` | ring, file, block sizes, memory never written, number of losses, overtakings, duplicates and failed receives |
| `PacketProofs` | of `Chunker`: `ChunksAlwaysTile`, `InsideForLegalLengths`, `RollingStaysDirect`, `CutsAreContentDefined` | content, length, hash and sizes |
| | of `ShaBlocks`: `HashesOwnChunk`, `NeverOutside` | packet, length of chunk |
| `DedupProofs` | `PointsBack`, `EachContentOnce`, `DecoderNumbersAlike`, `RecordsGiveStream`, `ShortFileIsStream` | ring, contents, number of chunks and packets |
| `KernelDataflowProofs` | `OutputSequential`, `Bounded`, `OwnBytes`, `Drained` | number, sizes and kinds of chunks, depth of the streams, bits of a byte and of a code, choice of the bytes that make a code go out |
| `LzwKernelProofs` | `TypeCorrect`, `DecoderStaysInStep`, `ChunkComesBack`, `KernelIsReference` | chunk, hash, number and size of buckets, size of the associative memory, width of an int, bits of a byte and of a code, content of uninitialised memory |

Assumptions. `Encoder`: `NUM_PACKETS` and `MaxPackets` are positive and `INT_MAX`, the value that `total_packets` starts with, is larger than any
packet's number. `LzwHost`: the ring is even (it has 2 kernels with half of the buffers each). `Transport`: the done bit is the highest
of a byte, and a block's length fits in the other bits of the header. `Chunker`: `BLOCKSIZE` is a multiple of `MIN_CHUNK_SIZE` and the buffer has room for a block,
a minimum chunk and a window. `ShaBlocks`: the range of `unsigned` (`BITS_RANGE`) is a multiple of 512. `Dedup`: no two contents have one digest, and the
headers' range is even and large enough for the number of every chunk. `KernelDataflow`: a stream has room for an element, and a code at least the bits of a byte.
`LzwKernel`: chunks are not empty (every chunk of `ChunksTile` has a byte); a code is longer than a byte and has room for the codes of single bytes; four fields cover a hash (36 bits for 32 in the code), so that
hashes that differ differ in one of them; `XorByte` stays in the range of a hash. That strings are told apart is not assumed: it is the condition `HashTellsApart` of the properties.

The arguments:

*Encoder.* `SlotStable` and `InOrderDelivery` are not inductive: when a stage starts on a packet, what it finds in the slot depends on all stages before it. The invariant says
how the semaphores count the packets between two stages (`Accounting`), that `writer` is the slot of the next packet (`RingIndex`),
and that a slot which the lzw stage has not given back holds its packet's own data in each field that has been written so
far (`Contents`). A step of one stage keeps the other packets' slots because packets less than `NUM_PACKETS` apart are in
different slots (`ModInjective`), and `Accounting` says that they are. `History` and `Ending` relate what was received to
`total_packets` and the exits. Both refinements follow from the order of delivery and `Accounting`.

*LzwHost.* What a buffer holds when it is read depends on commands of two laps that the queue completes in any order. `Counting`, `RingReads` and `DrainCounts` relate the packets taken,
copied in, enqueued, passed and given back to the two kernels' reads, in closed form; `Commands` says that each packet's three commands complete in order. `Laps` says of the latest packet in each buffer that the buffer holds it once its command
has completed, and its content, the packet's a lap before, or a mix from when the latter's has (`InTurn`); for kernel 1 a mix is possible in either case. Kernel 2's output is copied before its buffer is given away, so
that nothing meets in its buffers (`Apart`, from `ReadsAwaited`: the reads that the full ring called for were awaited; `UnreadIsLatest`), and no command of kernel 2 leaves a mix (`OutcomesType`). Kernel 1's is copied
only after the packet a lap later was started, and may be that one's or a mix.
For the order in the file (`FilePlacesFixed`) a second invariant, `PlaceInv`, is built on `IInv`: a buffer that is
in its first lap holds nothing, its packet or a mix (`FirstLap`), and what the draining loop has copied belongs to its place (`DrainedInPlace`). `DrainContent` is the core of it: the loop awaits no
event of its own, but its two indices go on from the ring's without a wrap for less than a lap (`DrainCounts`, `DrainsFew`), so that a read either is outside the
arrays or takes the slot of the packet whose place in the file comes next; that packet is the last one in its slot, and the one a lap before was awaited, so that the slot holds one of the two or a mix of them.
For the indices (`IndicesStayInside`) `DrainStarts` computes from the length of the stream where the loop's two indices begin: kernel 1's at the arrays' begin exactly for the streams of `DrainFits`.

*Transport.* A header gives back the length and the done bit that were put into it (`HeaderRoundTrip`): the two do not overlap. `Headers` says so of
every datagram sent; `Ring`, that while the loop runs no slot's header has the done bit unless nothing was ever received in it, so
that a failed receive can end the loop only on memory that was never written; `NothingVanishes` and `InOrder`, that a datagram is taken, lost or
on its way, in order until something overtakes: nothing is on its way before the last one when it is taken.
What is sent and what is taken are sequences put together, which `TransferInv` describes in closed form: the client's loop is after `n` blocks at `Offset(n)` of the file (`Blocks`, `Loops`), each datagram is the
piece between two offsets and the last one, and no other, ends where the file ends (`Pieces`), or a block of a shorter file is already too long (`TooLong`). `Progress` says that without a fault the datagrams taken and
those on their way are all that were sent, in order, so that main() has taken the file up to an offset. Each receive then is the abstract `Take` of one piece; whatever makes a step go wrong makes `Faulty` true, and
the step is `Fault` or `TakeAnything`.

*Chunker.* `Position` says how far into the packet the loop is, whatever the hash: each chunk cut is at least a minimum size, so that the number of chunks is bounded by that of
minimum sizes in a block. `TiledSoFar` is the tiling up to the current chunk. Whether a length overruns then depends on
the two limits only.
For the hash a second invariant, `HashInv`, is built on `IInv`: `hash` is `hash_func` of the window at `count`, and what the search has passed since the chunk's minimum was no hit (`Searched`). That a slide keeps it is
`WindowSlides`: both hashes are sums defined by recursion (`WindowSum`, `PowerTable`), and by induction on the number of bytes added the new one is the old one, less the first byte's power, times the base,
plus the new byte (`ProductMoves`); a remainder may stand for its number in all of this (`ModFactor`). `CutBounds` and `CloseBounds` give where the chunks end.

*ShaBlocks.* The invariant says which of the message's blocks have been compressed, and what the padding of the chunk is, the
arithmetic on `unsigned` included; whether there is an overflow block is a matter of the length modulo 64. `Chained` says which state was added to each
block, and that before the overflow block the saved state is one block old.

*Dedup.* The slots cannot be said to be right by themselves, since the numbers in them are given while other packets are in flight.
`Places` says where in the stream each packet's chunks begin, and where the dedup thread is. `Map` says that the map has the contents up to there,
and that the first chunk of each has as its number how many firsts are before it. `InSlots` says that a slot not yet stored has the chunks
of its packet, and those that the thread has passed are unique exactly when they are the first of their content, the others
refer to that one's number. The records are then what the stream makes of them (`Recorded`), whatever else an earlier packet left in the slot.
The decoder is a fold over the records, which `DecodeByRounds` unrolls into a sequence of its states; by induction on the records read (`Decoded`) its list of chunks has the first chunk of each content, in the order
in which the encoder numbered them, and its output is the stream. `HeaderTells` is what a header gives back. In a stream shorter than the ring every packet has its own place in the file, which then is the records.

*KernelDataflow.* No function knows how far the others are; what it reads is what the one before it has written, in turn, because of the counts only. `Holds` says
that the two counts of a stream for each chunk, what was put and what was taken, tell which elements are in it, in the order of the chunks and of their numbers;
`Meaning`, what the element with a number says: of the flags that is a 0 exactly behind the last code, or byte, of a chunk that the writer has left.
`LoadInv`, `EncodeInv`, `PackInv` and `StoreInv` derive each function's own counts from where it is: `bit_pack` has made `Whole(t)` bytes of `t` codes and has
`Rest(t)` bits left, so that a chunk ends with `PackedSize` bytes, and `EncodeHere` bounds the codes by the bytes. `Order`, `Passed` and
`Announced` say that no function is ahead of the one before it, has left anything behind, or waits for a code or a byte that will not come. A write and a read keep `Holds`
(`PutKeeps`, `TakeKeeps`: the element read is the oldest, about the reader's own chunk); each function's part is kept by the other functions' steps (`LoadFrame` and the
other frame lemmas), so that `ByLoad`, `ByEncode`, `ByPack` and `ByStore` leave for an action only its own function's part.

*LzwKernel.* The kernel's table, the list of codes, the packed bytes and the decoder's table are four descriptions of one division of the chunk into phrases, and the proof goes from one to the next.
*Packing:* `bit_pack` as a fold is unrolled (`PackByRounds`); the bits of the codes are those of the bytes, in order, with less than a byte of padding behind them (`Packing`), so that the decoder's
`position / BYTE_BITS < size - 1` holds exactly while a code is left (`CodesLeft`), and what it reads there is that code (`ReadIs`). With it `Sync` says that the decoder has read `k` codes, its table has one entry for each
of them, and it stops behind the last: `DecoderInStep`.
*The kernel's table:* `HashTellsApart` is stated with cardinalities; from equal ones it follows that no two strings of the chunk have one hash (`Apart`). `Divided` says that the strings put in the table so far are the first, second, ... of
the phrases with the byte behind them (`Added`), that each entry has the hash and the code of one of them (`Kept`), and that each code sent is that of its phrase (`Means`). A string that the table
has lost makes the phrase shorter and the code different, but not wrong: an entry that is found is the string's own (`GetSound`), and a `Put`, into a bucket, the associative memory or nowhere, keeps that
(`PutKept`). These two are where `ShiftsFit` and the four fields are needed.
*The decoder's table:* `Decoded` says that it has the same strings with the same numbers, one string behind the encoder (`TableAt`), so that a code is either in it already or is the very next one, whose string is the last phrase and
its own first byte (`OneMore`); `LongestSafe` says that none of the numbers outgrows its bits (`CodesFit`). So the output is the phrases put together, which is the chunk: `RoundTrip`.
*The reference:* `EncodeByRounds` unrolls the reference encoder into a sequence of states, and `Refers` says that the kernel is in the one of its own round while `counter` is less than `ASSOC_SIZE`, that is, while no string has been
lost: then the table is complete, not only sound (`TableFinds`), and both search with the same result: `CodesAreReference`.

Induction over data. The library's rules for it need an operator as a parameter, which the provers cannot instantiate; `Basics` has it for a set (`Induct`: a set that has 0, and `n + 1` with every `n`, has every natural number),
from which follow that functions by recursion exist (`RecursionExists`) and what `FlattenSeq` gives for one sequence more (`FlattenAppend`). That is enough for the hash, the decoder and the transport.
The folds of `LzwKernel` go over sets of indices; `FoldExists` is the same fact for them.

Only model-checked: the liveness properties `AllDelivered`, `EndsUnlessMissed`, `EndsIfTimely`, `Returns` and `EndsUnlessLastLost`, which are outside what the prover can do. Every invariant, every
action property and every refinement that the passing runs check is proved.

## Not modelled

The rounds of SHA-256 on NEON registers (what is added to them and when is modelled), the FPGA's timing, a chunk's bytes in memory beyond
what is said above, allocation, thread pinning, the file names and sockets, statistics, a truncated file in the decoder. A block size
of 0 given with `-b` (the client would divide by it) is not considered. A value torn by the unsynchronised access to
`total_packets` is not considered: it is an aligned 32-bit word that is written once. That `file[]` has room for 70,000,000 bytes
is not compared with anything in the code, and no property covers it: the number of bytes is data that no
action depends on.

Timers and logs have no state that a result depends on. The test benches, `hw1` to `hw7` and `vitis_tutorials` are programs of their own, and the headers under
`include/` are wolfSSL's: most of the repository's lines are in these, and none of them runs in the encoder, the client or the decoder.

## Plan

What is left: a composition of `Dedup`, `OutputOrder` and the decoder behind a bounded number of `LzwHost` outputs that are a lap late, to say which references survive.
