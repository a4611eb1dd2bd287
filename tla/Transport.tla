----------------------------- MODULE Transport -----------------------------
(***************************************************************************)
(* From the file to the ring: the client cuts a file into blocks and sends    *)
(* each in a datagram behind a header of two bytes, the length and, in its    *)
(* highest bit, whether it is the last; UDP carries them; get_packet() fills   *)
(* a slot of the ring, and main() decodes the header and takes the packet.    *)
(*                                                                         *)
(* A byte of the file is its offset; JUNK is memory that is not the file's.    *)
(* What the stages do with a packet is in Encoder; here a slot only keeps     *)
(* what the last datagram in it did not overwrite.                           *)
(***************************************************************************)
EXTENDS Integers, SequencesExt

CONSTANTS
  NUM_PACKETS,     \* slots of the ring
  BYTE,            \* 2^8, the values of a header byte
  DONE_BIT,        \* 2^7, the highest bit of one
  MAX_BLOCKSIZE,   \* bytes of the client's buffer and of a slot, without headers
  ClientBlocks,    \* block sizes the client may be run with
  ServerBlocks,    \* block sizes the encoder may be run with
  FileSizes,       \* the sizes of a file
  StaleHeaders,    \* header bytes that memory never written may hold
  MaxFaults        \* bound: network faults and failed receives together

ASSUME RingAssumption   == NUM_PACKETS \in Nat \ {0}
ASSUME HeaderAssumption ==
  /\ DONE_BIT \in Nat \ {0} /\ BYTE = 2 * DONE_BIT
  /\ MAX_BLOCKSIZE \in Nat /\ MAX_BLOCKSIZE < BYTE * DONE_BIT
  /\ StaleHeaders \subseteq (0 .. BYTE - 1) \X (0 .. BYTE - 1)
ASSUME BlocksAssumption ==
  /\ ClientBlocks \subseteq 1 .. MAX_BLOCKSIZE /\ ServerBlocks \subseteq 1 .. MAX_BLOCKSIZE
  /\ FileSizes \subseteq Nat /\ MaxFaults \in Nat

JUNK == -1

Slots == 0 .. NUM_PACKETS - 1

VARIABLES
  file_size,   \* the client's bytes_read
  blocksize,   \* the client's -b
  client,      \* where the client is: "blocks", "remainder", "closed"
  n,           \* its loop index
  sent,        \* history: the datagrams it has sent
  net,         \* those on their way, as indices into sent, the next one first
  faults,      \* [kind]: what has gone wrong so far
  lost,        \* history: the datagrams of which a copy was lost
  avg_blocksize, \* the encoder's -b: what get_packet() receives at most
  input,       \* [slot]: the header bytes and the bytes behind them
  writer,      \* main()'s slot index
  done,        \* its done
  got          \* history: the packets main() took, each with its datagram's index, 0 for none

clientVars == <<file_size, blocksize, client, n, sent>>
netVars    == <<net, faults, lost>>
mainVars   == <<avg_blocksize, input, writer, done, got>>
vars == <<clientVars, netVars, mainVars>>

FaultKinds == {"loss", "overtaking", "duplicate", "error"}

Init ==
  /\ file_size \in FileSizes /\ blocksize \in ClientBlocks
  /\ client = "blocks" /\ n = 0 /\ sent = << >>
  /\ net = << >> /\ lost = {}
  /\ faults = [k \in FaultKinds |-> 0]
  /\ avg_blocksize \in ServerBlocks
  /\ \E h \in StaleHeaders :
       input = [s \in Slots |-> [header |-> h, body |-> [k \in 1 .. MAX_BLOCKSIZE |-> JUNK]]]
  /\ writer = 0 /\ done = FALSE /\ got = << >>

-----------------------------------------------------------------------------
(* client.cpp *)

remainder == file_size % blocksize
loops     == file_size \div blocksize

(* memcpy(&local[HEADER], &buff[from], len) *)
Copied(from, len) == [k \in 1 .. len |-> IF from + k <= file_size THEN from + k - 1 ELSE JUNK]

EncodedWrong(len, last) == <<len % BYTE, len \div BYTE>>

(* The header bytes: low, high | DONE_BIT. *)
Encoded(len, last) == <<len % BYTE, (len \div BYTE) + (IF last THEN DONE_BIT ELSE 0)>>

(* sendto() *)
Send(from, len, last) ==
  /\ sent' = Append(sent, [header |-> Encoded(len, last), body |-> Copied(from, len)])
  /\ net' = Append(net, Len(sent) + 1)

MoreBlocksWrong == n < loops

(* All full blocks but one go out in the loop. *)
MoreBlocks == n < loops - 1

SendBlock ==
  /\ client = "blocks" /\ MoreBlocks
  /\ Send(n * blocksize, blocksize, FALSE)
  /\ n' = n + 1
  /\ UNCHANGED <<file_size, blocksize, client, faults, lost, mainVars>>

LastIsFullWrong == TRUE

(* if (remainder == 0) *)
LastIsFull == remainder = 0

(* One more block, of which n does not say that it is in the file; it is the   *)
(* last datagram unless a remainder follows.                                 *)
SendLastBlock ==
  /\ client = "blocks" /\ ~MoreBlocks
  /\ Send(n * blocksize, blocksize, LastIsFull)
  /\ n' = n + 1
  /\ client' = IF remainder # 0 THEN "remainder" ELSE "closed"
  /\ UNCHANGED <<file_size, blocksize, faults, lost, mainVars>>

SendRemainder ==
  /\ client = "remainder"
  /\ Send(loops * blocksize, remainder, TRUE)
  /\ n' = n + 1
  /\ client' = "closed"
  /\ UNCHANGED <<file_size, blocksize, faults, lost, mainVars>>

Client == SendBlock \/ SendLastBlock \/ SendRemainder

-----------------------------------------------------------------------------
(* UDP, and the socket's buffer, which drops what finds no room *)

FaultsSoFar == faults["loss"] + faults["overtaking"] + faults["duplicate"] + faults["error"]

Goes(kind) ==
  /\ FaultsSoFar < MaxFaults
  /\ faults' = [faults EXCEPT ![kind] = @ + 1]

Lose ==
  /\ Goes("loss")
  /\ \E j \in DOMAIN net : net' = RemoveAt(net, j) /\ lost' = lost \cup {net[j]}
  /\ UNCHANGED <<clientVars, mainVars>>

(* A datagram arrives before the one sent before it. *)
Overtake ==
  /\ Goes("overtaking")
  /\ \E j \in 1 .. Len(net) - 1 : net' = [net EXCEPT ![j] = net[j + 1], ![j + 1] = net[j]]
  /\ UNCHANGED <<clientVars, lost, mainVars>>

Duplicate ==
  /\ Goes("duplicate")
  /\ \E j \in DOMAIN net : net' = InsertAt(net, j, net[j])
  /\ UNCHANGED <<clientVars, lost, mainVars>>

Network == Lose \/ Overtake \/ Duplicate

-----------------------------------------------------------------------------
(* main() and get_packet() *)

(* The ring index wraps just before it is used. *)
Slot == IF writer = NUM_PACKETS THEN 0 ELSE writer

(* recvfrom() with room for avg_blocksize + HEADER bytes: a longer datagram is *)
(* cut off, and what a shorter one does not reach stays.                      *)
Filled(slot, d) ==
  [header |-> d.header,
   body   |-> [k \in 1 .. MAX_BLOCKSIZE |->
                 IF k <= Len(d.body) /\ k <= avg_blocksize THEN d.body[k] ELSE slot.body[k]]]

DoneOfWrong(header) == header[1] >= DONE_BIT

DoneOf(header) == header[2] >= DONE_BIT

LengthOfWrong(header) == header[1] + BYTE * header[2]

(* buffer[0] | (buffer[1] << 8), without the done bit. *)
LengthOf(header) == header[1] + BYTE * (header[2] % DONE_BIT)

(* The packet that main() finds in a slot, and what it does with it.  Its      *)
(* length is what the header says; behind the slot there is JUNK.            *)
Taken(slot, index) ==
  [from  |-> index,
   bytes |-> [k \in 1 .. LengthOf(slot.header) |->
                IF k <= MAX_BLOCKSIZE THEN slot.body[k] ELSE JUNK]]

Decode(slot, index) ==
  /\ got' = Append(got, Taken(slot, index))
  /\ done' = DoneOf(slot.header)
  /\ writer' = Slot + 1

Receive ==
  /\ ~done /\ net # << >>
  /\ input' = [input EXCEPT ![Slot] = Filled(@, sent[Head(net)])]
  /\ Decode(input'[Slot], Head(net))
  /\ net' = Tail(net)
  /\ UNCHANGED <<clientVars, faults, lost, avg_blocksize>>

(* recvfrom() fails; get_packet() says so, and main() decodes what is there. *)
ReceiveFails ==
  /\ ~done
  /\ Goes("error")
  /\ Decode(input[Slot], 0)
  /\ UNCHANGED <<clientVars, net, lost, avg_blocksize, input>>

Next == Client \/ Network \/ Receive \/ ReceiveFails

Spec == Init /\ [][Next]_vars

(* Client and encoder run, and the network delivers what it does not lose.  *)
Fairness == WF_vars(Client) /\ WF_vars(Receive)

FairSpec == Spec /\ Fairness

-----------------------------------------------------------------------------
(* Safety *)

FileBytes == [k \in 1 .. file_size |-> k - 1]

SentBytes == FlattenSeq([k \in DOMAIN sent |-> sent[k].body])
Stream    == FlattenSeq([k \in DOMAIN got |-> got[k].bytes])

(* The client sends the file, no more and no less, exactly when it is at least *)
(* a block long: a shorter one is preceded by a block that runs past its       *)
(* buffer.                                                                   *)
SentIsFile == client = "closed" => (SentBytes = FileBytes <=> file_size >= blocksize)

(* As long as nothing goes wrong on the way and the encoder's block is as long *)
(* as the client's, main() takes the file piece by piece and its loop ends     *)
(* with the last one: whatever the sizes, and whatever the header's bytes are.  *)
Faulty == FaultsSoFar > 0 \/ blocksize > avg_blocksize \/ file_size < blocksize

Transfer == INSTANCE FileTransfer WITH
              file <- FileBytes, stream <- Stream, ended <- done, faulty <- Faulty

ImplementsTransfer == Transfer!Spec

(* Whatever the network does, a packet has the length of one datagram, and     *)
(* nothing of another one's bytes if "BLOCKSIZE ... must match the transmitter  *)
(* side" is kept at least this far: the client's block is not the longer one.   *)
PacketsAreDatagrams ==
  \A k \in DOMAIN got : got[k].from # 0 =>
    /\ Len(got[k].bytes) = Len(sent[got[k].from].body)
    /\ Len(got[k].bytes) <= avg_blocksize => got[k].bytes = sent[got[k].from].body

(* The loop ends with the client's last datagram, in whatever order they came,  *)
(* or after a failed receive into a slot that nothing had been received in; and *)
(* if none overtook another, what is missing then has been lost.               *)
Fresh(k) == \A j \in 1 .. k - 1 : j % NUM_PACKETS = k % NUM_PACKETS => got[j].from = 0
Took(i)  == \E k \in DOMAIN got : got[k].from = i

EndsWithLast ==
  done =>
    \/ /\ Last(got).from = Len(sent) /\ client = "closed"
       /\ faults["overtaking"] = 0 => \A i \in DOMAIN sent : Took(i) \/ i \in lost
    \/ Last(got).from = 0 /\ Fresh(Len(got))

-----------------------------------------------------------------------------
(* Liveness *)

(* main() leaves its loop unless every copy of the last datagram was lost: there *)
(* is no second one, and recvfrom() has no timeout.                            *)
LastLost ==
  client = "closed" /\ Len(sent) \in lost /\ \A j \in DOMAIN net : net[j] # Len(sent)

EndsUnlessLastLost == <>(done \/ LastLost)

=============================================================================
