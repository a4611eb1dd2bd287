------------------------------ MODULE LzwHost ------------------------------
(***************************************************************************)
(* The lzw stage in detail: lzw_host() hands packet p to one of two LZW      *)
(* kernels, by the parity of p, through a ring of NUM_PACKETS/2 buffers each *)
(* and an out-of-order OpenCL command queue, and copies what the kernels     *)
(* give back to the output file.                                            *)
(*                                                                         *)
(* Three commands run for a packet: Write migrates its input to the device, *)
(* Exec runs the kernel, Read migrates the output back.  A buffer's content  *)
(* is the number of the packet it stems from; NONE is memory that nothing    *)
(* has been written to, or that lies outside the arrays; Mix(k, i) is what   *)
(* stems from no packet alone: parts of several that had slot i of kernel k, *)
(* or what the kernel makes of one packet's data with another's chunk count. *)
(***************************************************************************)
EXTENDS Sequences, OutputOrder

CONSTANTS
  INT_MAX,      \* the value of total_packets until the end is known
  MaxLast       \* bound: the number a stream's last packet may have

ASSUME NumPacketsAssumption == NUM_PACKETS \in Nat \ {0} /\ NUM_PACKETS % 2 = 0
ASSUME LastAssumption       == MaxLast \in Nat /\ INT_MAX \in Nat /\ INT_MAX > MaxLast

NONE == -1
Mix(k, i) == -2 - (2 * i + (k - 1))

Kernels   == {1, 2}
HalfSlots == 0 .. (NUM_PACKETS \div 2) - 1
Packets   == 0 .. MaxLast

KernelOf(p) == (p % 2) + 1
SlotOf(p)   == (p % NUM_PACKETS) \div 2

VARIABLES
  posted,          \* packets the dedup stage has posted
  sem_lzw,         \* the stage's semaphore
  released,        \* slots given back to main(): posts of sem_getpacket
  total_packets,   \* the global that tells which packet is the last
  lzw,             \* where lzw_host() is
  count,           \* its static count
  input_to_fpga,   \* [kernel][slot]: host input buffers (data, bounds, headers)
  device_in,       \* [kernel][slot]: the device's copy of them
  device_out,      \* [kernel][slot]: the kernel's output on the device
  output_from_fpga,\* [kernel][slot]: host output buffers (data and size)
  enqueued,        \* packets whose commands are in the queue
  crossed,         \* [kernel][slot]: commands of two packets were in the queue for it
  finished,        \* the packets whose Write, Exec, Read command has completed
  read_counter,    \* read_counter_1, read_counter_2
  pkts_read,       \* total_pkts_read_1, total_pkts_read_2
  total_pkts_read, \* total_pkts_read
  file             \* what was copied to file[], in order

env     == <<posted, total_packets>>
buffers == <<input_to_fpga, device_in, device_out, output_from_fpga>>
reading == <<read_counter, pkts_read, total_pkts_read, file>>
queue   == <<enqueued, crossed>>
vars == <<env, sem_lzw, released, lzw, count, buffers, queue, finished, reading>>

(* How packets and the total come to this stage, and slots go from it. *)
Feed == INSTANCE LzwFeed

Untouched == [k \in Kernels |-> [i \in HalfSlots |-> NONE]]

Init ==
  /\ Feed!Init
  /\ sem_lzw = 0
  /\ lzw = "wait"
  /\ count = 0
  /\ input_to_fpga = Untouched
  /\ device_in = Untouched
  /\ device_out = Untouched
  /\ output_from_fpga = Untouched
  /\ enqueued = 0
  /\ crossed = [k \in Kernels |-> [i \in HalfSlots |-> FALSE]]
  /\ finished = [c \in {"write", "exec", "read"} |-> {}]
  /\ read_counter = [k \in Kernels |-> 0]
  /\ pkts_read = [k \in Kernels |-> 0]
  /\ total_pkts_read = 0
  /\ file = << >>

-----------------------------------------------------------------------------
(* The rest of the encoder, as this stage sees it: what LzwFeed allows *)

DedupPosts ==
  /\ Feed!Post
  /\ sem_lzw' = sem_lzw + 1
  /\ UNCHANGED <<lzw, count, buffers, queue, finished, reading>>

MainSetsTotal ==
  /\ Feed!SetTotal
  /\ UNCHANGED <<sem_lzw, lzw, count, buffers, queue, finished, reading>>

-----------------------------------------------------------------------------
(* lzw_host(): feeding the kernels *)

PacketReadyWrong == TRUE

(* sem_wait(sem_lzw) *)
PacketReady == sem_lzw > 0

AwaitPacket ==
  /\ lzw = "wait"
  /\ PacketReady
  /\ sem_lzw' = sem_lzw - 1
  /\ lzw' = "copy"
  /\ UNCHANGED <<env, released, count, buffers, queue, finished, reading>>

(* Copy bounds, headers and data to the kernel's buffers for this slot.  What a  *)
(* Write that is under way makes of them, Outcomes says.                       *)
CopyIn ==
  /\ lzw = "copy"
  /\ input_to_fpga' = [input_to_fpga EXCEPT ![KernelOf(count)][SlotOf(count)] = count]
  /\ lzw' = "run"
  /\ UNCHANGED <<env, sem_lzw, released, count, device_in, device_out, output_from_fpga,
                 queue, finished, reading>>

RingFullWrongLate(p) == p > NUM_PACKETS

(* From the packet that fills the ring on, each one is followed by a read. *)
RingFull(p) == p >= NUM_PACKETS - 1

(* The packets before p whose commands use the buffers of kernel k's slot i and *)
(* may be under way.                                                         *)
Unread(k, i, p) == {q \in 0 .. p - 1 : KernelOf(q) = k /\ SlotOf(q) = i /\ q \notin finished["read"]}

(* set_args_k() and run_k(): the packet's three commands enter the queue, with  *)
(* its number of chunks as an argument by value.  No event orders them after the *)
(* commands of the packet that had the slot before; crossed keeps that there    *)
(* were some.                                                                *)
Run ==
  LET k == KernelOf(count)
      i == SlotOf(count)
  IN
  /\ lzw = "run"
  /\ enqueued' = count + 1
  /\ crossed' = [crossed EXCEPT ![k][i] = (Unread(k, i, count) # {})]
  /\ lzw' = IF RingFull(count) THEN "full" ELSE "release"
  /\ UNCHANGED <<env, sem_lzw, released, count, buffers, finished, reading>>

(* sem_post(sem_getpacket) *)
Release ==
  /\ lzw = "release"
  /\ released' = released + 1
  /\ lzw' = "check"
  /\ UNCHANGED <<env, sem_lzw, count, buffers, queue, finished, reading>>

AtLastWrong == count > total_packets

(* The packet just given to a kernel is the stream's last, if that is known. *)
AtLast == count = total_packets

CheckTotal ==
  /\ lzw = "check"
  /\ IF AtLast
       THEN lzw' = "drain1" /\ UNCHANGED count
       ELSE lzw' = "wait" /\ count' = count + 1
  /\ UNCHANGED <<env, sem_lzw, released, buffers, queue, finished, reading>>

-----------------------------------------------------------------------------
(* lzw_host(): reading the outputs *)

(* The packet whose read event has index i in read_events_k, and waiting for it. *)
EventPacket(k, i) == 2 * i + (k - 1)

HasEvent(k) == EventPacket(k, pkts_read[k]) < enqueued
AwaitRead(k) == EventPacket(k, pkts_read[k]) \in finished["read"]

(* memcpy(&file[offset], output_from_fpga_k[i], *ptr_output_size_k[i]): if a     *)
(* packet's output is still to come into these buffers, its Read may be writing *)
(* the data and the size while they are copied.                               *)
CopyOut(k) ==
  LET i == read_counter[k] IN
  /\ \E v \in {IF i \in HalfSlots THEN output_from_fpga[k][i] ELSE NONE}
                \cup (IF Unread(k, i, enqueued) = {} THEN {} ELSE {Mix(k, i)}) :
       file' = Append(file, v)
  /\ total_pkts_read' = total_pkts_read + 1

(* The two reading loops wrap the kernel's slot index at different ends. *)
WrapAt(i, end) == IF i < end THEN i + 1 ELSE 0

KernelToReadWrong(p) == 1

(* The kernel that is read after packet p when the ring is full. *)
KernelToRead(p) == KernelOf(p)

(* The ring is full: one output is read, of the kernel of this packet's parity. *)
ReadWhenFull ==
  LET k == KernelToRead(count) IN
  /\ lzw = "full"
  /\ AwaitRead(k)
  /\ CopyOut(k)
  /\ read_counter' = [read_counter EXCEPT ![k] = WrapAt(@, (NUM_PACKETS \div 2) - 1)]
  /\ pkts_read' = [pkts_read EXCEPT ![k] = @ + 1]
  /\ lzw' = "release"
  /\ UNCHANGED <<env, sem_lzw, released, count, buffers, queue, finished>>

Draining(k) == lzw = IF k = 1 THEN "drain1" ELSE "drain2"

AllReadWrongEarly == total_pkts_read = total_packets
AllReadWrongLate  == total_pkts_read = total_packets + 2

(* The test of the draining loop, made before each of its reads. *)
AllRead == total_pkts_read = total_packets + 1

(* Emptying the pipeline: kernel 1 and kernel 2 in turn.  pkts_read[k], the     *)
(* index of the event to wait for, is not counted up here.                    *)
Drain(k) ==
  /\ Draining(k)
  /\ ~AllRead
  /\ AwaitRead(k)
  /\ CopyOut(k)
  /\ read_counter' = [read_counter EXCEPT ![k] = WrapAt(@, NUM_PACKETS - 1)]
  /\ lzw' = IF k = 1 THEN "drain2" ELSE "drain1"
  /\ UNCHANGED <<env, sem_lzw, released, count, buffers, queue, finished, pkts_read>>

DrainEnds ==
  /\ \E k \in Kernels : Draining(k)
  /\ AllRead
  /\ lzw' = "finish"
  /\ UNCHANGED <<env, sem_lzw, released, count, buffers, queue, finished, reading>>

(* q.finish() waits for every command; then the stage returns. *)
Finish ==
  /\ lzw = "finish"
  /\ \A c \in DOMAIN finished : finished[c] = 0 .. enqueued - 1
  /\ lzw' = "done"
  /\ UNCHANGED <<env, sem_lzw, released, count, buffers, queue, finished, reading>>

LzwHost == \/ AwaitPacket \/ CopyIn \/ Run \/ ReadWhenFull \/ Release \/ CheckTotal
           \/ (\E k \in Kernels : Drain(k)) \/ DrainEnds \/ Finish

-----------------------------------------------------------------------------
(* The command queue: a command may complete once the events it was enqueued   *)
(* with have, in any order otherwise.                                         *)

Pending(c, p) == p < enqueued /\ p \notin finished[c]
SameKernelUpTo(p) == {q \in 0 .. p : KernelOf(q) = KernelOf(p)}

(* What a command of packet p may leave where it writes: what it finds in the   *)
(* buffer it reads.  If that is not packet p's, it came while the command could  *)
(* run, or the kernel works on it with p's number of chunks: unless it has as    *)
(* many, the result is neither packet's.  Nor need it be either's if commands of  *)
(* another packet used the buffers at the same time.                           *)
Outcomes(p, from) ==
  LET k == KernelOf(p)
      i == SlotOf(p)
  IN  {from[k][i]} \cup (IF from[k][i] # p \/ crossed[k][i] THEN {Mix(k, i)} ELSE {})

(* enqueueMigrateMemObjects to the device: no wait list. *)
Write(p) ==
  /\ Pending("write", p)
  /\ \E v \in Outcomes(p, input_to_fpga) :
       device_in' = [device_in EXCEPT ![KernelOf(p)][SlotOf(p)] = v]
  /\ finished' = [finished EXCEPT !["write"] = @ \cup {p}]
  /\ UNCHANGED <<env, sem_lzw, released, lzw, count, input_to_fpga, device_out,
                 output_from_fpga, queue, reading>>

ExecReadyWrong(p) == TRUE

(* enqueueTask, with the arguments set_args_k() has set, waits for all of        *)
(* write_events_k, as it was then.                                           *)
ExecReady(p) == SameKernelUpTo(p) \subseteq finished["write"]

Exec(p) ==
  /\ Pending("exec", p)
  /\ ExecReady(p)
  /\ \E v \in Outcomes(p, device_in) :
       device_out' = [device_out EXCEPT ![KernelOf(p)][SlotOf(p)] = v]
  /\ finished' = [finished EXCEPT !["exec"] = @ \cup {p}]
  /\ UNCHANGED <<env, sem_lzw, released, lzw, count, input_to_fpga, device_in,
                 output_from_fpga, queue, reading>>

(* enqueueMigrateMemObjects to the host waits for all of exec_events_k. *)
Read(p) ==
  /\ Pending("read", p)
  /\ SameKernelUpTo(p) \subseteq finished["exec"]
  /\ \E v \in Outcomes(p, device_out) :
       output_from_fpga' = [output_from_fpga EXCEPT ![KernelOf(p)][SlotOf(p)] = v]
  /\ finished' = [finished EXCEPT !["read"] = @ \cup {p}]
  /\ UNCHANGED <<env, sem_lzw, released, lzw, count, input_to_fpga, device_in,
                 device_out, queue, reading>>

Queue == \E p \in Packets : Write(p) \/ Exec(p) \/ Read(p)

Next == DedupPosts \/ MainSetsTotal \/ LzwHost \/ Queue

Spec == Init /\ [][Next]_vars

(* As long as the stage before this one, this thread or the device can go on,   *)
(* one of them does.                                                         *)
Fairness == WF_vars(Next)

FairSpec == Spec /\ Fairness

-----------------------------------------------------------------------------
(* Safety *)

(* About to read kernel k, the stage waits for an event that is in the vector. *)
AboutToRead(k) ==
  \/ lzw = "full" /\ k = KernelToRead(count)
  \/ Draining(k) /\ ~AllRead

WaitsOnRealEvent == \A k \in Kernels : AboutToRead(k) => HasEvent(k)

(* When the stage ends, it has copied out as many outputs as it was given      *)
(* packets, those of the ring's reads and of the draining loop together, and   *)
(* the queue is empty.                                                         *)
AllReadAtEnd ==
  lzw = "done" => /\ Len(file) = total_packets + 1
                  /\ \A p \in 0 .. total_packets : p \in finished["read"]

(* The stream is no longer than the ring, or its last packet has one of the    *)
(* ring's last two slots.                                                      *)
DrainFits == total_packets < NUM_PACKETS \/ total_packets % NUM_PACKETS >= NUM_PACKETS - 2

(* A read that the ring being full calls for never indexes past the arrays.     *)
(* The draining loop wraps its indices too late and stays inside for the streams  *)
(* that DrainFits says, and for no other: of those the last output of kernel 1 is *)
(* taken from past the arrays.                                                 *)
IndexInRange ==
  /\ \A k \in Kernels :
       AboutToRead(k) /\ (lzw = "full" \/ DrainFits) => read_counter[k] \in HalfSlots
  /\ lzw = "done" /\ ~DrainFits => read_counter[1] - 1 \notin HalfSlots

(* However often the ring goes round, the reads made when it is full take      *)
(* kernel 2's outputs in turn: each made from its own packet's input alone,    *)
(* finished, whole and not yet overwritten ...                                *)
KernelTwoInTurn ==
  \A j \in 1 .. pkts_read[2] : file[2 * j - 1] = 2 * j - 1

(* ... and kernel 1's in turn too, never one of a lap before, but the packet a   *)
(* lap later is started before the read: its output may have come instead, or a  *)
(* mix of the two.                                                            *)
KernelOneNeverStale ==
  \A j \in 1 .. pkts_read[1] :
    LET p == 2 * j - 2 IN file[2 * j] \in {p, p + NUM_PACKETS, Mix(1, SlotOf(p))}

(* Place j of the file is always that of the same packet: whatever the queue    *)
(* did, it holds that packet's output, or what its buffer held a lap before or   *)
(* after, or a mix of these, or nothing, but never another buffer's.             *)
PlacesAreFixed ==
  total_packets # INT_MAX =>
    \A j \in 1 .. Len(file) :
      LET p == PacketAt(j - 1, total_packets + 1) IN
        file[j] \in {p, p - NUM_PACKETS, p + NUM_PACKETS, Mix(KernelOf(p), SlotOf(p)), NONE}

(* A kernel's buffers are given to a packet only when the output of the packet *)
(* that had them one lap before has been copied to the file.                   *)
ReusedAfterRead(k) ==
  CopyIn /\ KernelOf(count) = k /\ count >= NUM_PACKETS
    => pkts_read[k] > (count - NUM_PACKETS) \div 2

KernelTwoSlotsSafe == [][ReusedAfterRead(2)]_vars

-----------------------------------------------------------------------------
(* What this stage promises the others: it gives each packet's slot back once,  *)
(* after the packet was posted, and never one more, while the ring fills and    *)
(* drains and however the total comes.                                        *)
KeepsFeed == Feed!Spec

-----------------------------------------------------------------------------
(* What comments of the code say, and it does not do *)

(* "Writing compressed chunk reveived from fpga to global file pointer": only  *)
(* what has been received is written.                                          *)
WritesReceivedOnly == \A i \in 1 .. Len(file) : file[i] # NONE

-----------------------------------------------------------------------------
(* Liveness *)

(* The stage ends whenever main() has stored the total before it checks the    *)
(* last packet: the draining loop meets its count exactly.                     *)
EndsIfTimely == (total_packets # INT_MAX /\ count <= total_packets) ~> lzw = "done"

=============================================================================
