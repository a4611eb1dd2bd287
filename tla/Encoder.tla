------------------------------ MODULE Encoder ------------------------------
(***************************************************************************)
(* The encoder process: main() receives datagrams into a ring of           *)
(* NUM_PACKETS buffers, and four stage threads (cdc, sha, dedup, lzw) work  *)
(* on each packet in turn, in place.  Five semaphores order them: every     *)
(* stage waits on its own and posts the next one's; the lzw stage posts     *)
(* sem_getpacket, which gives the slot back to main().                      *)
(*                                                                         *)
(* The bytes of a datagram are abstracted to its number, and what a stage   *)
(* stores in packarray[] to the number of the datagram it was computed      *)
(* from, or NONE when it mixes two or when the memory was never written.    *)
(***************************************************************************)
EXTENDS Integers, Sequences

CONSTANTS
  NUM_PACKETS,    \* slots of the ring (50 in Common/common.h)
  INT_MAX,        \* the value of total_packets until the end is known
  MaxPackets,     \* bound: the datagram that carries the done bit at the latest
  MaxRecvErrors   \* bound: how often recvfrom() may return a negative value

ASSUME NumPacketsAssumption == NUM_PACKETS \in Nat \ {0}
ASSUME MaxPacketsAssumption == MaxPackets \in Nat \ {0}
ASSUME MaxErrorsAssumption  == MaxRecvErrors \in Nat
ASSUME IntMaxAssumption     == INT_MAX \in Nat /\ INT_MAX > MaxPackets + MaxRecvErrors

NONE == -1
Origins == 0 .. MaxPackets - 1 \cup {NONE}

Slots  == 0 .. NUM_PACKETS - 1
Stages == {"cdc", "sha", "dedup", "lzw"}

(* Definitions named ..Wrong.. are faulty variants of the one that follows     *)
(* them: each is a slip that some property below must notice.                 *)

(* The semaphore a stage posts; the one it waits on has its own name. *)
Posts == [cdc |-> "sha", sha |-> "dedup", dedup |-> "lzw", lzw |-> "getpacket"]
Sems  == Stages \cup {"getpacket"}

(* A slot's fields: the datagram buffer input[i], and packarray[i]'s size    *)
(* (main), chunk bounds (cdc), SHA strings (sha), numbers and headers (dedup). *)
Fields == {"input", "size", "chunks", "sha", "header"}
Reads  == [cdc   |-> {"input", "size"},
           sha   |-> {"input", "chunks"},
           dedup |-> {"chunks", "sha"},
           lzw   |-> {"input", "size", "chunks", "header"}]
Writes == [cdc |-> "chunks", sha |-> "sha", dedup |-> "header"]

StageStates == {"unborn", "wait", "work", "post", "check", "done"}

VARIABLES
  sems,           \* the five semaphores
  main,           \* where main() is
  writer,         \* main()'s slot index
  sent,           \* main()'s count: packets posted to cdc
  done,           \* the done bit of the last datagram decoded
  errors,         \* recvfrom() failures so far (bounded by MaxRecvErrors)
  datagrams,      \* datagrams received so far
  total_packets,  \* the global that tells the stages which packet is the last
  stage,          \* where each stage thread is
  count,          \* each stage's static count
  buf,            \* buf[f][i]: the datagram that field f of slot i stems from
  got,            \* history: input[] after each get_packet(), in order
  delivered       \* history: what the lzw stage handed to the kernels, in order

mainVars == <<main, writer, sent, done, errors, datagrams>>
vars == <<sems, mainVars, total_packets, stage, count, buf, got, delivered>>

InitialSemsWrongCredit == [s \in Sems |-> IF s = "getpacket" THEN NUM_PACKETS + 1 ELSE 0]

(* sem_init(): every slot is main()'s to begin with. *)
InitialSems == [s \in Sems |-> IF s = "getpacket" THEN NUM_PACKETS ELSE 0]

Init ==
  /\ sems = InitialSems
  /\ main = "wait"
  /\ writer = 0
  /\ sent = 0
  /\ done = FALSE
  /\ errors = 0
  /\ datagrams = 0
  /\ total_packets = INT_MAX
  /\ stage = [s \in Stages |-> "unborn"]
  /\ count = [s \in Stages |-> 0]
  /\ buf = [f \in Fields |-> [i \in Slots |-> NONE]]
  /\ got = << >>
  /\ delivered = << >>

-----------------------------------------------------------------------------
(* main() *)

WrapWrongEarly(w) == IF w = NUM_PACKETS - 1 THEN 0 ELSE w

(* The ring index wraps just before it is used. *)
Wrap(w) == IF w = NUM_PACKETS THEN 0 ELSE w

(* Wrap the ring index and take a credit. *)
AwaitSlot ==
  /\ main = "wait"
  /\ sems["getpacket"] > 0
  /\ sems' = [sems EXCEPT !["getpacket"] = @ - 1]
  /\ writer' = Wrap(writer)
  /\ main' = "recv"
  /\ UNCHANGED <<sent, done, errors, datagrams, total_packets, stage, count, buf,
                 got, delivered>>

(* get_packet() fills input[writer]; main decodes the done bit.  The sender  *)
(* sets it on its last datagram.                                            *)
GetPacket ==
  /\ main = "recv"
  /\ datagrams < MaxPackets
  /\ buf' = [buf EXCEPT !["input"][writer] = datagrams]
  /\ got' = Append(got, datagrams)
  /\ datagrams' = datagrams + 1
  /\ \E last \in BOOLEAN :
       /\ datagrams + 1 = MaxPackets => last
       /\ done' = last
  /\ main' = "fill"
  /\ UNCHANGED <<sems, writer, sent, errors, total_packets, stage, count, delivered>>

(* recvfrom() fails: get_packet() reports it and returns, main does not look *)
(* at the result and decodes whatever the slot held.  A datagram that is     *)
(* still there had no done bit, or the loop would have ended with it; memory *)
(* that was never written may hold any.                                      *)
GetPacketFails ==
  /\ main = "recv"
  /\ errors < MaxRecvErrors
  /\ errors' = errors + 1
  /\ got' = Append(got, buf["input"][writer])
  /\ done' \in IF buf["input"][writer] = NONE THEN BOOLEAN ELSE {FALSE}
  /\ main' = "fill"
  /\ UNCHANGED <<sems, writer, sent, datagrams, total_packets, stage, count, buf,
                 delivered>>

(* packarray[writer]->size = length; the first packet also starts the stages. *)
FillPacket ==
  /\ main = "fill"
  /\ buf' = [buf EXCEPT !["size"][writer] = buf["input"][writer]]
  /\ stage' = IF sent = 0 THEN [s \in Stages |-> "wait"] ELSE stage
  /\ main' = "post"
  /\ UNCHANGED <<sems, writer, sent, done, errors, datagrams, total_packets, count,
                 got, delivered>>

(* sem_post(sem_cdc), count++, writer++ and the loop's test of done. *)
PostPacket ==
  /\ main = "post"
  /\ sems' = [sems EXCEPT !["cdc"] = @ + 1]
  /\ sent' = sent + 1
  /\ writer' = writer + 1
  /\ main' = IF done THEN "total" ELSE "wait"
  /\ UNCHANGED <<done, errors, datagrams, total_packets, stage, count, buf, got,
                 delivered>>

LastPacketWrongCount == sent
LastPacketWrongShort == sent - 2

(* The number of the last packet. *)
LastPacket == sent - 1

(* total_packets = count - 1, a plain store the stages read without a lock. *)
SetTotal ==
  /\ main = "total"
  /\ total_packets' = LastPacket
  /\ main' = "join"
  /\ UNCHANGED <<sems, writer, sent, done, errors, datagrams, stage, count, buf, got,
                 delivered>>

JoinedWrongOne == stage["lzw"] = "done"

(* What th.join() for all four waits for. *)
Joined == \A s \in Stages : stage[s] = "done"

(* Join every stage, then write the file. *)
JoinAndWrite ==
  /\ main = "join"
  /\ Joined
  /\ main' = "exit"
  /\ UNCHANGED <<sems, writer, sent, done, errors, datagrams, total_packets, stage,
                 count, buf, got, delivered>>

Main == AwaitSlot \/ GetPacket \/ GetPacketFails \/ FillPacket \/ PostPacket
          \/ SetTotal \/ JoinAndWrite

-----------------------------------------------------------------------------
(* The stage threads *)

(* What a result computed from values with the origins S stems from. *)
Origin(S) == IF \A p, q \in S : p = q THEN CHOOSE p \in S : TRUE ELSE NONE

(* The slot a stage works on, and what it finds there. *)
Slot(s) == count[s] % NUM_PACKETS
Seen(s) == Origin({buf[f][Slot(s)] : f \in Reads[s]})

(* sem_wait() on the stage's own semaphore. *)
Await(s) ==
  /\ stage[s] = "wait"
  /\ sems[s] > 0
  /\ sems' = [sems EXCEPT ![s] = @ - 1]
  /\ stage' = [stage EXCEPT ![s] = "work"]
  /\ UNCHANGED <<mainVars, total_packets, count, buf, got, delivered>>

(* The stage's body: read the slot, and write the stage's field of it; the   *)
(* lzw stage copies the packet to the kernel's buffers and enqueues it.      *)
Work(s) ==
  /\ stage[s] = "work"
  /\ stage' = [stage EXCEPT ![s] = "post"]
  /\ IF s = "lzw"
       THEN /\ delivered' = Append(delivered, Seen(s))
            /\ UNCHANGED buf
       ELSE /\ buf' = [buf EXCEPT ![Writes[s]][Slot(s)] = Seen(s)]
            /\ UNCHANGED delivered
  /\ UNCHANGED <<sems, mainVars, total_packets, count, got>>

(* sem_post() on the next stage's semaphore. *)
Post(s) ==
  /\ stage[s] = "post"
  /\ sems' = [sems EXCEPT ![Posts[s]] = @ + 1]
  /\ stage' = [stage EXCEPT ![s] = "check"]
  /\ UNCHANGED <<mainVars, total_packets, count, buf, got, delivered>>

(* if (count == total_packets) return; else count++ and around again. *)
CheckTotal(s) ==
  /\ stage[s] = "check"
  /\ IF count[s] = total_packets
       THEN /\ stage' = [stage EXCEPT ![s] = "done"]
            /\ UNCHANGED count
       ELSE /\ stage' = [stage EXCEPT ![s] = "wait"]
            /\ count' = [count EXCEPT ![s] = @ + 1]
  /\ UNCHANGED <<sems, mainVars, total_packets, buf, got, delivered>>

Stage(s) == Await(s) \/ Work(s) \/ Post(s) \/ CheckTotal(s)

Next == Main \/ \E s \in Stages : Stage(s)

Spec == Init /\ [][Next]_vars

(* Every runnable thread is scheduled in the end; a datagram that main() is    *)
(* blocked on arrives in the end (the client sends all of the file).          *)
Fairness == WF_vars(Main) /\ \A s \in Stages : WF_vars(Stage(s))

FairSpec == Spec /\ Fairness

-----------------------------------------------------------------------------
(* How far each thread has come, in packets *)

MainTaken == sent + (IF main \in {"recv", "fill", "post"} THEN 1 ELSE 0)
Received  == sent + (IF main \in {"fill", "post"} THEN 1 ELSE 0)
Filled    == sent + (IF main = "post" THEN 1 ELSE 0)

Taken(s)  == count[s] + (IF stage[s] \in {"work", "post", "check", "done"} THEN 1 ELSE 0)
Worked(s) == count[s] + (IF stage[s] \in {"post", "check", "done"} THEN 1 ELSE 0)
Posted(s) == count[s] + (IF stage[s] \in {"check", "done"} THEN 1 ELSE 0)

(* How many packets have had a field written since the start. *)
Upto == [input  |-> Received,
         size   |-> Filled,
         chunks |-> Worked("cdc"),
         sha    |-> Worked("sha"),
         header |-> Worked("dedup")]

-----------------------------------------------------------------------------
(* Safety *)

TypeOK ==
  /\ sems \in [Sems -> Nat]
  /\ main \in {"wait", "recv", "fill", "post", "total", "join", "exit"}
  /\ writer \in 0 .. NUM_PACKETS
  /\ main \in {"recv", "fill", "post"} => writer \in Slots
  /\ sent \in Nat
  /\ done \in BOOLEAN
  /\ errors \in 0 .. MaxRecvErrors
  /\ datagrams \in 0 .. MaxPackets
  /\ total_packets \in Nat
  /\ stage \in [Stages -> StageStates]
  /\ count \in [Stages -> Nat]
  /\ buf \in [Fields -> [Slots -> Origins]]
  /\ got \in Seq(Origins)
  /\ delivered \in Seq(Origins)

(* Each semaphore holds exactly the packets its poster is ahead of its waiter: *)
(* no post is lost and none is made twice, on any path round the ring.         *)
Accounting ==
  /\ sems["cdc"]   = sent - Taken("cdc")
  /\ sems["sha"]   = Posted("cdc") - Taken("sha")
  /\ sems["dedup"] = Posted("sha") - Taken("dedup")
  /\ sems["lzw"]   = Posted("dedup") - Taken("lzw")
  /\ sems["getpacket"] = NUM_PACKETS + Posted("lzw") - MainTaken

(* main() and the stages never meet in a slot: while a stage works, all that   *)
(* it reads in its slot belongs to the packet it has counted up to, whatever   *)
(* main() and the other three are doing.                                      *)
SlotStable ==
  \A s \in Stages : stage[s] = "work" =>
    /\ count[s] < Len(got)
    /\ \A f \in Reads[s] : buf[f][Slot(s)] = got[count[s] + 1]

(* The kernels are fed what was received: every packet, once, in the order     *)
(* of its arrival, its chunks, hashes and headers made from its own bytes.     *)
InOrderDelivery ==
  /\ Len(delivered) <= Len(got)
  /\ \A i \in 1 .. Len(delivered) : delivered[i] = got[i]

(* main() writes the output file only when no packet is left anywhere in the   *)
(* pipeline; in particular the value it stored in total_packets late has not   *)
(* stopped a stage too early or too late.                                     *)
CompleteAtExit ==
  main = "exit" =>
    /\ delivered = got
    /\ \A s \in Stages : count[s] = total_packets
    /\ \A s \in Stages : sems[s] = 0

(* The pipeline is a bounded FIFO. *)
Pipe == INSTANCE PacketPipe WITH Capacity <- NUM_PACKETS, Packets <- Origins

ImplementsPipe == Pipe!Spec

(* What the lzw stage may expect of the others, and they of it, is what LzwHost *)
(* assumes: packets come no further than the ring and the total allow, and the   *)
(* total is stored with every packet of the stream received.                  *)
Feed == INSTANCE LzwFeed WITH posted <- Posted("dedup"), released <- Posted("lzw"),
                              MaxLast <- MaxPackets + MaxRecvErrors - 1

ImplementsFeed == Feed!Spec

-----------------------------------------------------------------------------
(* The invariant that carries the proofs *)

RingIndex ==
  /\ writer % NUM_PACKETS = sent % NUM_PACKETS
  /\ main \in {"recv", "fill", "post"} => writer < NUM_PACKETS

(* A slot that the lzw stage has not given back holds its packet's data, in    *)
(* every field that has been written for that packet.                         *)
Contents ==
  \A f \in Fields : \A p \in Posted("lzw") .. Upto[f] - 1 :
    buf[f][p % NUM_PACKETS] = got[p + 1]

History ==
  /\ Len(got) = Received
  /\ Len(got) <= datagrams + errors
  /\ Len(delivered) = Worked("lzw")

(* The threads exist once the first packet has been filled in, and a stage     *)
(* that has stopped has seen total_packets set, on the last packet.            *)
Ending ==
  /\ \A s \in Stages : stage[s] = "unborn" <=> main # "post" /\ sent = 0
  /\ total_packets = IF main \in {"join", "exit"} THEN sent - 1 ELSE INT_MAX
  /\ main \in {"total", "join", "exit"} => sent > 0
  /\ \A s \in Stages : stage[s] = "done" => count[s] = total_packets
  /\ main = "exit" => \A s \in Stages : stage[s] = "done"

IInv == TypeOK /\ Accounting /\ RingIndex /\ History /\ Contents /\ Ending /\ InOrderDelivery

-----------------------------------------------------------------------------
(* Liveness *)

(* Every packet received reaches the kernels, also when main() has ended the   *)
(* loop and however late the total is known.                                  *)
AllDelivered ==
  \A k \in 1 .. MaxPackets + MaxRecvErrors : Len(got) >= k ~> Len(delivered) >= k

(* The encoder ends, unless a stage had gone past the last packet before       *)
(* main() stored total_packets: that stage waits for a packet for ever, and    *)
(* main() for it.                                                             *)
Missed(s) == main = "join" /\ count[s] > total_packets

EndsUnlessMissed == <>(main = "exit" \/ \E s \in Stages : Missed(s))

(* "write file to root and you can use diff tool on board": main() gets there. *)
Termination == <>(main = "exit")

=============================================================================
