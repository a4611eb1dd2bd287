-------------------------- MODULE TransportProofs --------------------------
(***************************************************************************)
(* Proofs about the transport, for every ring, block sizes, file and number  *)
(* of faults: what main() takes for a packet, when its loop ends, what the    *)
(* client sends, and that until a fault this is a file's transfer.           *)
(***************************************************************************)
EXTENDS Transport, Basics, SequenceTheorems, TLAPS

-----------------------------------------------------------------------------
(* The invariant that carries the proofs *)

Header   == (0 .. BYTE - 1) \X (0 .. BYTE - 1)
Datagram == [header : Header, body : Seq(Int)]
Packet   == [from : Nat, bytes : Seq(Int)]

TypeOK ==
  /\ file_size \in Nat /\ n \in Nat
  /\ blocksize \in 1 .. MAX_BLOCKSIZE /\ avg_blocksize \in 1 .. MAX_BLOCKSIZE
  /\ client \in {"blocks", "remainder", "closed"}
  /\ sent \in Seq(Datagram) /\ net \in Seq(Nat)
  /\ faults \in [FaultKinds -> Nat] /\ lost \subseteq Nat
  /\ input \in [Slots -> [header : Header, body : [1 .. MAX_BLOCKSIZE -> Int]]]
  /\ writer \in 0 .. NUM_PACKETS /\ done \in BOOLEAN
  /\ got \in Seq(Packet)

(* Each datagram's header tells its length, and that it is the last one when it *)
(* is.                                                                       *)
IsLast(i) == client = "closed" /\ i = Len(sent)

Headers ==
  /\ \A i \in 1 .. Len(sent) :
       /\ Len(sent[i].body) \in 1 .. MAX_BLOCKSIZE
       /\ sent[i].header = Encoded(Len(sent[i].body), IsLast(i))
  /\ client = "remainder" => remainder # 0
  /\ client = "closed" => sent # << >>

(* Only what was sent is on its way, or was taken. *)
Origins ==
  /\ \A j \in 1 .. Len(net) : net[j] \in 1 .. Len(sent)
  /\ \A k \in 1 .. Len(got) : got[k].from \in 0 .. Len(sent)

(* The ring index, and the slots of a loop that has not ended: a slot holds a   *)
(* header without the done bit, or nothing has been received in it.           *)
Unused(s) == \A k \in 1 .. Len(got) : k % NUM_PACKETS = s => got[k].from = 0

Ring ==
  /\ writer % NUM_PACKETS = Len(got) % NUM_PACKETS
  /\ ~done => \A s \in Slots : ~DoneOf(input[s].header) \/ Unused((s + 1) % NUM_PACKETS)

(* Nothing is missing that was not lost, and what is on its way is in order     *)
(* until something overtakes.                                                *)
OnItsWay(i) == \E j \in 1 .. Len(net) : net[j] = i

NothingVanishes == \A i \in 1 .. Len(sent) : Took(i) \/ i \in lost \/ OnItsWay(i)

InOrder ==
  faults["overtaking"] = 0 =>
    \A j, l \in 1 .. Len(net) : j <= l => net[j] <= net[l]

(* EndsWithLast, and that a loop that has ended has taken a packet. *)
Ends == EndsWithLast /\ (done => got # << >>)

IInv == /\ TypeOK /\ Headers /\ Origins /\ Ring /\ NothingVanishes /\ InOrder
        /\ PacketsAreDatagrams /\ Ends

-----------------------------------------------------------------------------
(* The header *)

(* The sizes, as the assumptions give them. *)
LEMMA Sizes ==
  /\ NUM_PACKETS \in Nat \ {0} /\ DONE_BIT \in Nat \ {0} /\ BYTE \in Nat \ {0}
  /\ BYTE = 2 * DONE_BIT /\ MAX_BLOCKSIZE \in Nat
BY RingAssumption, HeaderAssumption

(* Behind a header's two bytes is the length that was put into them, and the     *)
(* done bit does not touch it.                                               *)
LEMMA HeaderRoundTrip ==
  ASSUME NEW len \in 1 .. MAX_BLOCKSIZE, NEW last \in BOOLEAN
  PROVE  /\ Encoded(len, last) \in Header
         /\ LengthOf(Encoded(len, last)) = len
         /\ DoneOf(Encoded(len, last)) <=> last
<1> DEFINE low  == len % BYTE
           high == len \div BYTE
           top  == high + (IF last THEN DONE_BIT ELSE 0)
<1>1. low \in 0 .. BYTE - 1 /\ high \in Nat /\ len = BYTE * high + low /\ len \in Nat
  <2>1. len \in Nat /\ BYTE \in Nat \ {0}
    BY Sizes
  <2> HIDE DEF low, high
  <2> QED
    BY <2>1, DivMod DEF low, high
<1>2. high < DONE_BIT
  <2>1. len < BYTE * DONE_BIT
    BY HeaderAssumption, Sizes
  <2> HIDE DEF low, high
  <2>2. SUFFICES ASSUME high >= DONE_BIT PROVE FALSE
    BY <1>1, Sizes
  <2>3. high - DONE_BIT \in Nat
    BY <1>1, <2>2, Sizes
  <2>4. /\ BYTE * (high - DONE_BIT) \in Nat
        /\ BYTE * high = BYTE * DONE_BIT + BYTE * (high - DONE_BIT)
        /\ BYTE * DONE_BIT \in Nat
    BY <1>1, <2>3, Sizes, SMT
  <2> QED
    BY <1>1, <2>1, <2>4, Sizes
<1> HIDE DEF low, high
<1>3. top \in 0 .. BYTE - 1 /\ (top >= DONE_BIT <=> last)
  BY <1>1, <1>2, Sizes
<1>4. top % DONE_BIT = high
  <2> DEFINE q == IF last THEN 1 ELSE 0
  <2>1. q \in Nat /\ top = DONE_BIT * q + high /\ high \in 0 .. DONE_BIT - 1
    BY <1>1, <1>2, Sizes
  <2>2. /\ top = DONE_BIT * (top \div DONE_BIT) + (top % DONE_BIT)
        /\ top \div DONE_BIT \in Nat /\ top % DONE_BIT \in 0 .. DONE_BIT - 1
    <3>1. top \in Nat /\ DONE_BIT \in Nat \ {0}
      BY <1>3, Sizes
    <3> HIDE DEF top
    <3> QED
      BY <3>1, DivMod
  <2> DEFINE r == top % DONE_BIT
             t == top \div DONE_BIT
  <2> HIDE DEF q, r, t
  <2>3. DONE_BIT * q + high = DONE_BIT * t + r
    BY <2>1, <2>2 DEF r, t
  <2> QED
    BY <2>1, <2>2, <2>3, Sizes, QuotientRemainder DEF r, t
<1>5. Encoded(len, last) = <<low, top>>
  BY DEF Encoded, low, high
<1> HIDE DEF top
<1>6. Encoded(len, last) \in Header /\ (DoneOf(Encoded(len, last)) <=> last)
  BY <1>1, <1>3, <1>5 DEF Header, DoneOf
<1>7. LengthOf(Encoded(len, last)) = low + BYTE * high
  BY <1>4, <1>5 DEF LengthOf
<1>8. low + BYTE * high = len
  <2> DEFINE x == BYTE * high
  <2>1. x \in Nat
    BY <1>1, Sizes, SMT
  <2> HIDE DEF x
  <2> QED
    BY <1>1, <2>1 DEF x
<1> QED
  BY <1>6, <1>7, <1>8

(* Whatever a header's bytes are, they make a length. *)
LEMMA LengthIsNat ==
  ASSUME NEW header \in Header
  PROVE  LengthOf(header) \in Nat
<1>1. header[1] \in Nat /\ header[2] \in Nat
  BY Sizes DEF Header
<1>2. header[2] % DONE_BIT \in Nat
  BY <1>1, Sizes, DivMod
<1> DEFINE m == header[2] % DONE_BIT
<1> HIDE DEF m
<1>3. BYTE * m \in Nat
  BY <1>2, Sizes, SMT DEF m
<1> QED
  BY <1>1, <1>3 DEF LengthOf, m

-----------------------------------------------------------------------------
(* What the network does to a sequence *)

(* Without its j-th member a sequence closes up. *)
LEMMA Removed ==
  ASSUME NEW S, NEW s \in Seq(S), NEW j \in 1 .. Len(s)
  PROVE  /\ RemoveAt(s, j) \in Seq(S) /\ Len(RemoveAt(s, j)) = Len(s) - 1
         /\ \A i \in 1 .. Len(s) - 1 : RemoveAt(s, j)[i] = IF i < j THEN s[i] ELSE s[i + 1]
<1> DEFINE a == SubSeq(s, 1, j - 1)
           b == SubSeq(s, j + 1, Len(s))
<1>1. Len(s) \in Nat /\ \A i \in 1 .. Len(s) : s[i] \in S
  BY LenProperties, ElementOfSeq
<1>2. a \in Seq(S) /\ Len(a) = j - 1 /\ \A i \in 1 .. j - 1 : a[i] = s[i]
  <2>1. \A i \in 1 .. j - 1 : s[i] \in S
    BY <1>1
  <2> QED
    BY <1>1, <2>1, SubSeqProperties
<1>3. b \in Seq(S) /\ Len(b) = Len(s) - j /\ \A i \in 1 .. Len(s) - j : b[i] = s[j + i]
  <2>1. \A i \in j + 1 .. Len(s) : s[i] \in S
    BY <1>1
  <2>2. /\ b \in Seq(S) /\ Len(b) = IF j + 1 <= Len(s) THEN Len(s) - (j + 1) + 1 ELSE 0
        /\ \A i \in 1 .. Len(s) - (j + 1) + 1 : b[i] = s[(j + 1) + i - 1]
    BY <1>1, <2>1, SubSeqProperties
  <2> HIDE DEF b
  <2>3. \A i \in 1 .. Len(s) - j : b[i] = s[j + i]
    <3> SUFFICES ASSUME NEW i \in 1 .. Len(s) - j PROVE b[i] = s[j + i]
      OBVIOUS
    <3>1. i \in 1 .. Len(s) - (j + 1) + 1 /\ (j + 1) + i - 1 = j + i
      BY <1>1
    <3> QED
      BY <2>2, <3>1
  <2> QED
    BY <1>1, <2>2, <2>3
<1>4. RemoveAt(s, j) = a \o b
  BY DEF RemoveAt
<1> HIDE DEF a, b
<1>5. /\ a \o b \in Seq(S) /\ Len(a \o b) = Len(a) + Len(b)
      /\ \A i \in 1 .. Len(a) + Len(b) : (a \o b)[i] = IF i <= Len(a) THEN a[i] ELSE b[i - Len(a)]
  BY <1>2, <1>3, ConcatProperties
<1>6. Len(a) + Len(b) = Len(s) - 1
  BY <1>1, <1>2, <1>3
<1>7. ASSUME NEW i \in 1 .. Len(s) - 1
      PROVE  (a \o b)[i] = IF i < j THEN s[i] ELSE s[i + 1]
  <2>1. CASE i < j
    <3>1. i <= Len(a) /\ i \in 1 .. j - 1
      BY <1>1, <1>2, <2>1
    <3> QED
      BY <1>2, <1>5, <1>6, <2>1, <3>1
  <2>2. CASE ~(i < j)
    <3>1. ~(i <= Len(a)) /\ i - Len(a) \in 1 .. Len(s) - j /\ j + (i - Len(a)) = i + 1
      BY <1>1, <1>2, <2>2
    <3> QED
      BY <1>3, <1>5, <1>6, <2>2, <3>1
  <2> QED
    BY <2>1, <2>2
<1> QED
  BY <1>4, <1>5, <1>6, <1>7

(* With a copy of its j-th member put in at j, those behind it move up. *)
Original(i, j) == IF i <= j THEN i ELSE i - 1

(* InsertAt() of a copy, in these terms. *)
LEMMA Doubled ==
  ASSUME NEW S, NEW s \in Seq(S), NEW j \in 1 .. Len(s)
  PROVE  /\ InsertAt(s, j, s[j]) \in Seq(S) /\ Len(InsertAt(s, j, s[j])) = Len(s) + 1
         /\ \A i \in 1 .. Len(s) + 1 : InsertAt(s, j, s[j])[i] = s[Original(i, j)]
<1> DEFINE e == s[j]
           a == SubSeq(s, 1, j - 1)
           b == SubSeq(s, j, Len(s))
           c == a \o <<e>>
<1>1. Len(s) \in Nat /\ \A i \in 1 .. Len(s) : s[i] \in S
  BY LenProperties, ElementOfSeq
<1>2. a \in Seq(S) /\ Len(a) = j - 1 /\ \A i \in 1 .. j - 1 : a[i] = s[i]
  <2>1. \A i \in 1 .. j - 1 : s[i] \in S
    BY <1>1
  <2> QED
    BY <1>1, <2>1, SubSeqProperties
<1>3. /\ b \in Seq(S) /\ Len(b) = Len(s) - j + 1
      /\ \A i \in 1 .. Len(s) - j + 1 : b[i] = s[j + i - 1]
  <2>1. \A i \in j .. Len(s) : s[i] \in S
    BY <1>1
  <2> QED
    BY <1>1, <2>1, SubSeqProperties
<1>e. e \in S
  BY <1>1
<1> HIDE DEF a, b, e
<1>4. /\ c \in Seq(S) /\ Len(c) = j
      /\ \A i \in 1 .. j : c[i] = IF i < j THEN s[i] ELSE e
  <2>1. /\ c = Append(a, e) /\ Append(a, e) \in Seq(S) /\ Len(Append(a, e)) = Len(a) + 1
        /\ \A i \in 1 .. Len(a) : Append(a, e)[i] = a[i]
        /\ Append(a, e)[Len(a) + 1] = e
    BY <1>2, <1>e, AppendProperties, AppendIsConcat
  <2> HIDE DEF c
  <2> QED
    BY <1>2, <2>1
<1>5. InsertAt(s, j, e) = c \o b
  BY DEF InsertAt, a, b, e
<1> HIDE DEF c
<1>6. /\ c \o b \in Seq(S) /\ Len(c \o b) = Len(c) + Len(b)
      /\ \A i \in 1 .. Len(c) + Len(b) : (c \o b)[i] = IF i <= Len(c) THEN c[i] ELSE b[i - Len(c)]
  BY <1>3, <1>4, ConcatProperties
<1>7. Len(c) + Len(b) = Len(s) + 1
  BY <1>1, <1>3, <1>4
<1>8. ASSUME NEW i \in 1 .. Len(s) + 1
      PROVE  (c \o b)[i] = s[Original(i, j)]
  <2>1. CASE i <= j
    <3>1. i <= Len(c) /\ i \in 1 .. j
      BY <1>1, <1>4, <2>1
    <3>2. (c \o b)[i] = IF i < j THEN s[i] ELSE s[j]
      BY <1>4, <1>6, <1>7, <3>1 DEF e
    <3> QED
      BY <2>1, <3>2 DEF Original
  <2>2. CASE ~(i <= j)
    <3>1. ~(i <= Len(c)) /\ i - Len(c) \in 1 .. Len(s) - j + 1 /\ j + (i - Len(c)) - 1 = i - 1
      BY <1>1, <1>4, <2>2
    <3>2. (c \o b)[i] = s[i - 1]
      BY <1>3, <1>6, <1>7, <3>1
    <3> QED
      BY <2>2, <3>2 DEF Original
  <2> QED
    BY <2>1, <2>2
<1> QED
  BY <1>5, <1>6, <1>7, <1>8 DEF e

-----------------------------------------------------------------------------
(* The initial states *)

(* Nothing has been sent, received or gone wrong. *)
LEMMA Initially == Init => IInv
<1> SUFFICES ASSUME Init PROVE IInv
  OBVIOUS
<1>1. /\ client = "blocks" /\ n = 0 /\ sent = << >> /\ net = << >> /\ lost = {}
      /\ faults = [k \in FaultKinds |-> 0] /\ writer = 0 /\ done = FALSE /\ got = << >>
  BY DEF Init
<1>2. TypeOK
  <2>1. file_size \in Nat /\ blocksize \in 1 .. MAX_BLOCKSIZE /\ avg_blocksize \in 1 .. MAX_BLOCKSIZE
    BY BlocksAssumption DEF Init
  <2>2. input \in [Slots -> [header : Header, body : [1 .. MAX_BLOCKSIZE -> Int]]]
    <3>1. PICK h \in StaleHeaders :
            input = [s \in Slots |-> [header |-> h, body |-> [k \in 1 .. MAX_BLOCKSIZE |-> JUNK]]]
      BY DEF Init
    <3>2. h \in Header
      BY HeaderAssumption DEF Header
    <3> QED
      BY <3>1, <3>2 DEF JUNK
  <2>3. sent \in Seq(Datagram) /\ net \in Seq(Nat) /\ got \in Seq(Packet)
    BY <1>1, EmptySeq
  <2>4. faults \in [FaultKinds -> Nat]
    BY <1>1
  <2>5. lost \subseteq Nat /\ done \in BOOLEAN
    BY <1>1
  <2>6. n \in Nat /\ writer \in 0 .. NUM_PACKETS
    BY <1>1, Sizes
  <2> QED
    BY <1>1, <2>1, <2>2, <2>3, <2>4, <2>5, <2>6 DEF TypeOK
<1>3. Ring
  BY <1>1 DEF Ring, Unused
<1> QED
  BY <1>1, <1>2, <1>3
  DEF IInv, Headers, Origins, NothingVanishes, InOrder, PacketsAreDatagrams, Ends, EndsWithLast

-----------------------------------------------------------------------------
(* The client *)

(* What the invariant says of one variable after the other. *)
LEMMA Typed ==
  ASSUME IInv
  PROVE  /\ n \in Nat /\ file_size \in Nat
         /\ blocksize \in 1 .. MAX_BLOCKSIZE /\ avg_blocksize \in 1 .. MAX_BLOCKSIZE
         /\ sent \in Seq(Datagram) /\ Len(sent) \in Nat
         /\ net \in Seq(Nat) /\ Len(net) \in Nat
         /\ got \in Seq(Packet) /\ Len(got) \in Nat
         /\ DOMAIN sent = 1 .. Len(sent) /\ DOMAIN net = 1 .. Len(net)
         /\ DOMAIN got = 1 .. Len(got)
BY LenProperties DEF IInv, TypeOK

(* One more datagram, with its length and whether it is the last in its header. *)
LEMMA SendKeepsIInv ==
  ASSUME IInv, NEW from \in Int, NEW len \in 1 .. MAX_BLOCKSIZE, NEW last \in BOOLEAN,
         Send(from, len, last), client # "closed",
         client' \in {"blocks", "remainder", "closed"}, client' = "closed" <=> last,
         client' = "remainder" => remainder # 0, n' = n + 1,
         UNCHANGED <<file_size, blocksize, faults, lost, mainVars>>
  PROVE  IInv'
<1> DEFINE body == Copied(from, len)
           d    == [header |-> Encoded(len, last), body |-> body]
<1>1. body \in Seq(Int) /\ Len(body) = len
  <2>1. len \in Nat /\ \A k \in 1 .. len : (IF from + k <= file_size THEN from + k - 1 ELSE JUNK) \in Int
    BY Sizes DEF JUNK
  <2>2. body \in [1 .. len -> Int]
    BY <2>1 DEF Copied
  <2> QED
    BY <2>1, <2>2 DEF Copied
<1>2. d \in Datagram
  BY <1>1, HeaderRoundTrip DEF Datagram
<1> HIDE DEF body
<1>3. /\ sent' = Append(sent, d) /\ sent' \in Seq(Datagram) /\ Len(sent') = Len(sent) + 1
      /\ \A i \in 1 .. Len(sent) : sent'[i] = sent[i]
      /\ sent'[Len(sent) + 1] = d
  <2>1. sent' = Append(sent, d)
    BY DEF Send, body
  <2> HIDE DEF d
  <2> QED
    BY <1>2, <2>1, Typed, AppendProperties
<1>n. sent' # << >>
  <2>1. sent' = Append(sent, d)
    BY DEF Send, d, body
  <2> HIDE DEF d
  <2> QED
    BY <1>2, <2>1, Typed, AppendProperties
<1>4. /\ net' \in Seq(Nat) /\ Len(net') = Len(net) + 1
      /\ \A j \in 1 .. Len(net) : net'[j] = net[j]
      /\ net'[Len(net) + 1] = Len(sent) + 1
  BY Typed, AppendProperties DEF Send
<1>5. /\ blocksize' = blocksize /\ file_size' = file_size /\ avg_blocksize' = avg_blocksize
      /\ faults' = faults /\ lost' = lost /\ input' = input /\ writer' = writer
      /\ done' = done /\ got' = got
  BY DEF mainVars
<1>6. d.header = Encoded(len, last) /\ d.body = body
  OBVIOUS
<1> HIDE DEF d
<1>7. TypeOK'
  BY <1>3, <1>4, <1>5, Typed DEF IInv, TypeOK
<1>8. Headers'
  <2>1. ASSUME NEW i \in 1 .. Len(sent')
        PROVE  /\ Len(sent'[i].body) \in 1 .. MAX_BLOCKSIZE
               /\ sent'[i].header = Encoded(Len(sent'[i].body), IsLast(i)')
    <3>1. CASE i = Len(sent) + 1
      <4>1. IsLast(i)' = last
        BY <1>3, <3>1 DEF IsLast
      <4> QED
        BY <1>1, <1>3, <1>6, <3>1, <4>1
    <3>2. CASE i \in 1 .. Len(sent)
      <4>1. i # Len(sent')
        BY <1>3, <3>2, Typed
      <4>2. IsLast(i) = FALSE /\ IsLast(i)' = FALSE
        BY <4>1, Zenon DEF IsLast
      <4> QED
        BY <1>3, <3>2, <4>2 DEF IInv, Headers
    <3> QED
      BY <1>3, <3>1, <3>2, Typed
  <2>3. remainder' = remainder
    BY <1>5 DEF remainder
  <2> QED
    BY <1>n, <2>1, <2>3 DEF Headers
<1>9. Origins'
  <2>1. \A j \in 1 .. Len(net') : net'[j] \in 1 .. Len(sent')
    <3> SUFFICES ASSUME NEW j \in 1 .. Len(net') PROVE net'[j] \in 1 .. Len(sent) + 1
      BY <1>3
    <3>1. CASE j \in 1 .. Len(net)
      <4>1. net[j] \in 1 .. Len(sent)
        BY <3>1 DEF IInv, Origins
      <4> QED
        BY <1>4, <3>1, <4>1, Typed
    <3> QED
      BY <1>4, <3>1, Typed
  <2>2. \A k \in 1 .. Len(got) : got[k].from \in 0 .. Len(sent')
    <3> SUFFICES ASSUME NEW k \in 1 .. Len(got) PROVE got[k].from \in 0 .. Len(sent) + 1
      BY <1>3
    <3>1. got[k].from \in 0 .. Len(sent)
      BY DEF IInv, Origins
    <3> QED
      BY <3>1, Typed
  <2> QED
    BY <1>5, <2>1, <2>2 DEF Origins
<1>10. Ring'
  BY <1>5 DEF IInv, Ring, Unused
<1>11. NothingVanishes'
  <2> SUFFICES ASSUME NEW i \in 1 .. Len(sent')
               PROVE  Took(i) \/ i \in lost \/ \E j \in 1 .. Len(net') : net'[j] = i
    BY <1>5 DEF NothingVanishes, OnItsWay, Took
  <2>1. CASE i = Len(sent) + 1
    <3>1. Len(net) + 1 \in 1 .. Len(net')
      BY <1>4, Typed
    <3> QED
      BY <1>4, <2>1, <3>1
  <2>2. CASE i \in 1 .. Len(sent)
    <3>1. Took(i) \/ i \in lost \/ OnItsWay(i)
      BY <2>2 DEF IInv, NothingVanishes
    <3>2. 1 .. Len(net) \subseteq 1 .. Len(net')
      BY <1>4, Typed
    <3> QED
      BY <1>4, <3>1, <3>2 DEF OnItsWay
  <2> QED
    BY <1>3, <2>1, <2>2, Typed
<1>12. InOrder'
  <2> SUFFICES ASSUME faults["overtaking"] = 0,
                      NEW j \in 1 .. Len(net'), NEW l \in 1 .. Len(net'), j <= l
               PROVE  net'[j] <= net'[l]
    BY <1>5 DEF InOrder
  <2>1. CASE l \in 1 .. Len(net)
    <3>1. j \in 1 .. Len(net)
      BY <2>1, Typed
    <3>2. net[j] <= net[l]
      BY <2>1, <3>1 DEF IInv, InOrder
    <3> QED
      BY <1>4, <2>1, <3>1, <3>2
  <2>2. CASE l = Len(net) + 1
    <3>1. net'[l] = Len(sent) + 1 /\ net'[j] \in 1 .. Len(sent) + 1
      BY <1>3, <1>4, <1>9, <2>2 DEF Origins
    <3> QED
      BY <3>1, Typed
  <2> QED
    BY <1>4, <2>1, <2>2, Typed
<1>13. PacketsAreDatagrams'
  <2> SUFFICES ASSUME NEW k \in 1 .. Len(got), got[k].from # 0
               PROVE  /\ Len(got[k].bytes) = Len(sent'[got[k].from].body)
                      /\ Len(got[k].bytes) <= avg_blocksize
                           => got[k].bytes = sent'[got[k].from].body
    BY <1>5, Typed DEF PacketsAreDatagrams
  <2>1. got[k].from \in 1 .. Len(sent)
    <3>1. got[k].from \in 0 .. Len(sent)
      BY DEF IInv, Origins
    <3> QED
      BY <3>1, Typed
  <2>2. sent'[got[k].from] = sent[got[k].from]
    BY <1>3, <2>1
  <2> QED
    BY <2>2, Typed DEF IInv, PacketsAreDatagrams
<1>14. Ends'
  BY <1>5 DEF IInv, Ends, EndsWithLast, Fresh, Took
<1> QED
  BY <1>7, <1>8, <1>9, <1>10, <1>11, <1>12, <1>13, <1>14 DEF IInv

(* The three places where it sends. *)
LEMMA ClientStep == IInv /\ Client => IInv'
<1> SUFFICES ASSUME IInv, Client PROVE IInv'
  OBVIOUS
<1>1. /\ blocksize \in Nat \ {0} /\ blocksize \in 1 .. MAX_BLOCKSIZE
      /\ file_size \in Nat /\ n \in Nat /\ n * blocksize \in Int
  <2>1. blocksize \in Nat \ {0} /\ n \in Nat
    BY Typed, Sizes
  <2>2. n * blocksize \in Int
    BY <2>1, SMT
  <2> QED
    BY <2>1, <2>2, Typed
<1>2. CASE SendBlock
  BY <1>1, <1>2, SendKeepsIInv DEF SendBlock
<1>3. CASE SendLastBlock
  <2>1. LastIsFull \in BOOLEAN
    BY DEF LastIsFull
  <2>2. /\ client' \in {"blocks", "remainder", "closed"}
        /\ client' = "closed" <=> LastIsFull
        /\ client' = "remainder" => remainder # 0
    BY <1>3 DEF SendLastBlock, LastIsFull
  <2> QED
    BY <1>1, <1>3, <2>1, <2>2, SendKeepsIInv DEF SendLastBlock
<1>4. CASE SendRemainder
  <2>1. remainder \in 0 .. blocksize - 1 /\ loops \in Nat
    BY <1>1, DivMod DEF remainder, loops
  <2>2. client = "remainder" /\ remainder # 0
    BY <1>4 DEF SendRemainder, IInv, Headers
  <2>3. remainder \in 1 .. MAX_BLOCKSIZE
    BY <1>1, <2>1, <2>2, Sizes
  <2>4. loops * blocksize \in Int
    BY <1>1, <2>1, SMT
  <2> QED
    BY <1>4, <2>2, <2>3, <2>4, SendKeepsIInv DEF SendRemainder
<1> QED
  BY <1>2, <1>3, <1>4 DEF Client

-----------------------------------------------------------------------------
(* The network *)

(* It leaves the client and main() alone, and nothing leaves it but what it      *)
(* loses.                                                                    *)
LEMMA NetworkKeepsIInv ==
  ASSUME IInv, UNCHANGED <<clientVars, mainVars>>,
         net' \in Seq(Nat), faults' \in [FaultKinds -> Nat], lost' \subseteq Nat,
         lost \subseteq lost',
         faults'["overtaking"] = 0 => faults["overtaking"] = 0,
         \A j \in 1 .. Len(net') : \E l \in 1 .. Len(net) : net'[j] = net[l],
         \A l \in 1 .. Len(net) :
           net[l] \in lost' \/ \E j \in 1 .. Len(net') : net'[j] = net[l],
         InOrder'
  PROVE  IInv'
<1>1. /\ file_size' = file_size /\ blocksize' = blocksize /\ client' = client /\ n' = n
      /\ sent' = sent /\ avg_blocksize' = avg_blocksize /\ input' = input /\ writer' = writer
      /\ done' = done /\ got' = got
  BY DEF clientVars, mainVars
<1>2. TypeOK'
  BY <1>1 DEF IInv, TypeOK
<1>3. Headers' /\ Ring' /\ PacketsAreDatagrams'
  BY <1>1 DEF IInv, Headers, Ring, PacketsAreDatagrams, IsLast, Unused, remainder
<1>4. Origins'
  BY <1>1 DEF IInv, Origins
<1>5. NothingVanishes'
  <2> SUFFICES ASSUME NEW i \in 1 .. Len(sent) PROVE Took(i) \/ i \in lost' \/ OnItsWay(i)'
    BY <1>1 DEF NothingVanishes, Took
  <2>1. Took(i) \/ i \in lost \/ OnItsWay(i)
    BY DEF IInv, NothingVanishes
  <2> QED
    BY <2>1 DEF OnItsWay
<1>6. Ends'
  <2>1. (\A i \in DOMAIN sent : Took(i) \/ i \in lost)
          => \A i \in DOMAIN sent : Took(i) \/ i \in lost'
    OBVIOUS
  <2> QED
    BY <1>1, <2>1 DEF IInv, Ends, EndsWithLast, Fresh, Took
<1> QED
  BY <1>2, <1>3, <1>4, <1>5, <1>6 DEF IInv

(* A fault is counted. *)
LEMMA FaultCounted ==
  ASSUME IInv, NEW kind \in FaultKinds, Goes(kind)
  PROVE  /\ faults' \in [FaultKinds -> Nat]
         /\ faults'["overtaking"] =
              IF kind = "overtaking" THEN faults["overtaking"] + 1 ELSE faults["overtaking"]
         /\ faults["overtaking"] \in Nat
<1>1. faults \in [FaultKinds -> Nat] /\ faults' = [faults EXCEPT ![kind] = @ + 1]
  BY DEF IInv, TypeOK, Goes
<1>2. "overtaking" \in FaultKinds /\ faults[kind] + 1 \in Nat
  BY <1>1 DEF FaultKinds
<1> QED
  BY <1>1, <1>2

(* The members behind a lost one close up. *)
LEMMA LoseStep == IInv /\ Lose => IInv'
<1> SUFFICES ASSUME IInv, Lose PROVE IInv'
  OBVIOUS
<1>1. PICK j \in 1 .. Len(net) : net' = RemoveAt(net, j) /\ lost' = lost \cup {net[j]}
  BY Typed DEF Lose
<1>2. "loss" \in FaultKinds /\ Goes("loss") /\ UNCHANGED <<clientVars, mainVars>>
  BY DEF Lose, FaultKinds
<1>3. faults' \in [FaultKinds -> Nat] /\ faults'["overtaking"] = faults["overtaking"]
  BY <1>2, FaultCounted
<1>4. /\ net' \in Seq(Nat) /\ Len(net') = Len(net) - 1
      /\ \A i \in 1 .. Len(net) - 1 : net'[i] = IF i < j THEN net[i] ELSE net[i + 1]
  BY <1>1, Typed, Removed
<1>5. net[j] \in Nat /\ lost \subseteq Nat
  BY <1>1, Typed, ElementOfSeq DEF IInv, TypeOK
<1>6. ASSUME NEW i \in 1 .. Len(net')
      PROVE  \E l \in 1 .. Len(net) : net'[i] = net[l]
  <2>1. i \in 1 .. Len(net) - 1 /\ i \in 1 .. Len(net) /\ i + 1 \in 1 .. Len(net)
    BY <1>4, Typed
  <2> QED
    BY <1>4, <2>1
<1>7. ASSUME NEW l \in 1 .. Len(net)
      PROVE  net[l] \in lost' \/ \E i \in 1 .. Len(net') : net'[i] = net[l]
  <2>1. CASE l = j
    BY <1>1, <2>1
  <2>2. CASE l < j
    <3>1. l \in 1 .. Len(net) - 1
      BY <2>2, Typed
    <3> QED
      BY <1>4, <2>2, <3>1
  <2>3. CASE l > j
    <3>1. l - 1 \in 1 .. Len(net) - 1 /\ ~(l - 1 < j) /\ (l - 1) + 1 = l
      BY <2>3, Typed
    <3> QED
      BY <1>4, <3>1
  <2> QED
    BY <2>1, <2>2, <2>3, Typed
<1>8. InOrder'
  <2> SUFFICES ASSUME faults["overtaking"] = 0,
                      NEW i \in 1 .. Len(net'), NEW l \in 1 .. Len(net'), i <= l
               PROVE  net'[i] <= net'[l]
    BY <1>3 DEF InOrder
  <2> DEFINE f(x) == IF x < j THEN x ELSE x + 1
  <2>1. f(i) \in 1 .. Len(net) /\ f(l) \in 1 .. Len(net) /\ f(i) <= f(l)
    <3>1. Len(net) \in Nat /\ Len(net') = Len(net) - 1 /\ j \in Nat
      BY <1>1, <1>4, Typed
    <3> QED
      BY <3>1
  <2>2. net'[i] = net[f(i)] /\ net'[l] = net[f(l)]
    BY <1>4
  <2> HIDE DEF f
  <2> QED
    BY <2>1, <2>2 DEF IInv, InOrder
<1> QED
  BY <1>1, <1>2, <1>3, <1>4, <1>5, <1>6, <1>7, <1>8, NetworkKeepsIInv

(* Two neighbours change places. *)
LEMMA OvertakeStep == IInv /\ Overtake => IInv'
<1> SUFFICES ASSUME IInv, Overtake PROVE IInv'
  OBVIOUS
<1>1. PICK j \in 1 .. Len(net) - 1 :
        net' = [net EXCEPT ![j] = net[j + 1], ![j + 1] = net[j]]
  BY DEF Overtake
<1>2. "overtaking" \in FaultKinds /\ Goes("overtaking")
      /\ UNCHANGED <<clientVars, mainVars>> /\ lost' = lost
  BY DEF Overtake, FaultKinds
<1>3. faults' \in [FaultKinds -> Nat] /\ faults'["overtaking"] # 0
  BY <1>2, FaultCounted
<1>4. net \in [1 .. Len(net) -> Nat] /\ Len(net) \in Nat /\ net \in Seq(Nat)
      /\ j \in 1 .. Len(net) /\ j + 1 \in 1 .. Len(net)
  <2>1. net \in Seq(Nat)
    BY Typed
  <2>2. net \in [1 .. Len(net) -> Nat] /\ Len(net) \in Nat
    BY <2>1, LenProperties
  <2>3. j \in 1 .. Len(net) /\ j + 1 \in 1 .. Len(net)
    BY <2>2
  <2> QED
    BY <2>1, <2>2, <2>3
<1>5. /\ net' \in Seq(Nat) /\ Len(net') = Len(net)
      /\ \A i \in 1 .. Len(net) :
           net'[i] = IF i = j THEN net[j + 1] ELSE IF i = j + 1 THEN net[j] ELSE net[i]
  <2> DEFINE m == [net EXCEPT ![j] = net[j + 1]]
  <2>1. /\ m \in Seq(Nat) /\ Len(m) = Len(net)
        /\ \A i \in 1 .. Len(net) : m[i] = IF i = j THEN net[j + 1] ELSE net[i]
    BY <1>4, ExceptSeq, ElementOfSeq
  <2>2. net' = [m EXCEPT ![j + 1] = net[j]]
    BY <1>1
  <2>3. j + 1 \in 1 .. Len(m) /\ net[j] \in Nat
    BY <1>4, <2>1
  <2> HIDE DEF m
  <2>4. /\ net' \in Seq(Nat) /\ Len(net') = Len(m)
        /\ \A i \in 1 .. Len(m) : net'[i] = IF i = j + 1 THEN net[j] ELSE m[i]
    BY <2>1, <2>2, <2>3, ExceptSeq
  <2> QED
    BY <1>4, <2>1, <2>4
<1>6. \A i \in 1 .. Len(net') : \E l \in 1 .. Len(net) : net'[i] = net[l]
  BY <1>4, <1>5
<1>7. \A l \in 1 .. Len(net) : \E i \in 1 .. Len(net') : net'[i] = net[l]
  <2> SUFFICES ASSUME NEW l \in 1 .. Len(net) PROVE \E i \in 1 .. Len(net) : net'[i] = net[l]
    BY <1>5
  <2>1. net'[j] = net[j + 1] /\ net'[j + 1] = net[j]
    BY <1>4, <1>5
  <2> QED
    BY <1>4, <1>5, <2>1
<1>8. InOrder' /\ lost \subseteq Nat
  BY <1>3 DEF InOrder, IInv, TypeOK
<1> QED
  BY <1>2, <1>3, <1>5, <1>6, <1>7, <1>8, NetworkKeepsIInv

(* A copy is put in front of the datagram. *)
LEMMA DuplicateStep == IInv /\ Duplicate => IInv'
<1> SUFFICES ASSUME IInv, Duplicate PROVE IInv'
  OBVIOUS
<1>1. PICK j \in 1 .. Len(net) : net' = InsertAt(net, j, net[j])
  BY Typed DEF Duplicate
<1>2. "duplicate" \in FaultKinds /\ Goes("duplicate")
      /\ UNCHANGED <<clientVars, mainVars>> /\ lost' = lost
  BY DEF Duplicate, FaultKinds
<1>3. faults' \in [FaultKinds -> Nat] /\ faults'["overtaking"] = faults["overtaking"]
  BY <1>2, FaultCounted
<1> DEFINE f(x) == Original(x, j)
<1>4. net \in Seq(Nat) /\ j \in 1 .. Len(net) /\ Len(net) \in Nat
  BY Typed
<1>5. /\ net' \in Seq(Nat) /\ Len(net') = Len(net) + 1
      /\ \A i \in 1 .. Len(net) + 1 : net'[i] = net[f(i)]
  BY <1>1, <1>4, Doubled
<1>6. ASSUME NEW i \in 1 .. Len(net')
      PROVE  f(i) \in 1 .. Len(net) /\ net'[i] = net[f(i)]
  <2>1. i \in 1 .. Len(net) + 1
    BY <1>5
  <2>2. f(i) \in 1 .. Len(net)
    BY <1>4, <2>1 DEF Original
  <2> QED
    BY <1>5, <2>1, <2>2
<1>7. ASSUME NEW l \in 1 .. Len(net)
      PROVE  \E i \in 1 .. Len(net') : net'[i] = net[l]
  <2>1. CASE l <= j
    <3>1. l \in 1 .. Len(net') /\ f(l) = l
      BY <1>5, <2>1, Typed DEF Original
    <3> QED
      BY <1>6, <3>1
  <2>2. CASE l > j
    <3>1. l + 1 \in 1 .. Len(net') /\ f(l + 1) = l
      BY <1>5, <2>2, Typed DEF Original
    <3> QED
      BY <1>6, <3>1
  <2> QED
    BY <2>1, <2>2, Typed
<1>8. InOrder'
  <2> SUFFICES ASSUME faults["overtaking"] = 0,
                      NEW i \in 1 .. Len(net'), NEW l \in 1 .. Len(net'), i <= l
               PROVE  net'[i] <= net'[l]
    BY <1>3 DEF InOrder
  <2>1. f(i) <= f(l)
    <3>1. Len(net') \in Nat /\ j \in Nat
      BY <1>1, <1>5, Typed
    <3> QED
      BY <3>1 DEF Original
  <2>2. f(i) \in 1 .. Len(net) /\ f(l) \in 1 .. Len(net)
        /\ net'[i] = net[f(i)] /\ net'[l] = net[f(l)]
    BY <1>6
  <2> HIDE DEF f
  <2> QED
    BY <2>1, <2>2 DEF IInv, InOrder
<1>9. \A i \in 1 .. Len(net') : \E l \in 1 .. Len(net) : net'[i] = net[l]
  BY <1>6
<1>10. lost \subseteq Nat
  BY DEF IInv, TypeOK
<1> QED
  BY <1>2, <1>3, <1>5, <1>7, <1>8, <1>9, <1>10, NetworkKeepsIInv

-----------------------------------------------------------------------------
(* main() and get_packet() *)

(* The slot at hand is that of the next packet, and no other slot's packets have *)
(* its numbers.                                                              *)
LEMMA SlotOfNext ==
  ASSUME IInv
  PROVE  /\ Slot \in Slots
         /\ (Slot + 1) % NUM_PACKETS = (Len(got) + 1) % NUM_PACKETS
         /\ Slot + 1 \in 0 .. NUM_PACKETS
         /\ \A s \in Slots : s # Slot => (s + 1) % NUM_PACKETS # (Len(got) + 1) % NUM_PACKETS
<1>1. /\ writer \in 0 .. NUM_PACKETS /\ writer % NUM_PACKETS = Len(got) % NUM_PACKETS
      /\ NUM_PACKETS \in Nat \ {0} /\ Len(got) \in Nat
  BY Typed, Sizes DEF IInv, TypeOK, Ring
<1>2. Slot \in 0 .. NUM_PACKETS - 1
  BY <1>1 DEF Slot
<1>3. Slot % NUM_PACKETS = Len(got) % NUM_PACKETS
  <2>1. CASE writer = NUM_PACKETS
    <3>1. Slot = 0 /\ 0 \in 0 .. NUM_PACKETS - 1
      BY <1>1, <2>1 DEF Slot
    <3> QED
      BY <1>1, <2>1, <3>1, ModSmall
  <2>2. CASE writer # NUM_PACKETS
    BY <1>1, <2>2 DEF Slot
  <2> QED
    BY <2>1, <2>2
<1>4. (Slot + 1) % NUM_PACKETS = (Len(got) + 1) % NUM_PACKETS
  <2>1. Slot \in Nat
    BY <1>1, <1>2
  <2> QED
    BY <1>1, <1>3, <2>1, ModStep
<1>5. ASSUME NEW s \in 0 .. NUM_PACKETS - 1, s # Slot
      PROVE  (s + 1) % NUM_PACKETS # (Slot + 1) % NUM_PACKETS
  <2>1. s + 1 \in Nat /\ Slot + 1 \in Nat
    BY <1>1, <1>2
  <2>2. CASE s < Slot
    <3>1. s + 1 < Slot + 1 /\ (Slot + 1) - (s + 1) < NUM_PACKETS
      BY <1>1, <1>2, <2>2
    <3> QED
      BY <1>1, <2>1, <3>1, ModInjective
  <2>3. CASE s > Slot
    <3>1. Slot + 1 < s + 1 /\ (s + 1) - (Slot + 1) < NUM_PACKETS
      BY <1>1, <1>2, <2>3
    <3> QED
      BY <1>1, <2>1, <3>1, ModInjective
  <2> QED
    BY <1>1, <1>2, <1>5, <2>2, <2>3
<1> QED
  BY <1>1, <1>2, <1>4, <1>5 DEF Slots

(* What main() takes out of a slot is a packet. *)
LEMMA TakenIsPacket ==
  ASSUME NEW slot \in [header : Header, body : [1 .. MAX_BLOCKSIZE -> Int]], NEW index \in Nat
  PROVE  /\ Taken(slot, index) \in Packet /\ Taken(slot, index).from = index
         /\ Len(Taken(slot, index).bytes) = LengthOf(slot.header)
         /\ \A k \in 1 .. LengthOf(slot.header) :
              Taken(slot, index).bytes[k] = IF k <= MAX_BLOCKSIZE THEN slot.body[k] ELSE JUNK
<1> DEFINE len == LengthOf(slot.header)
           bytes == [k \in 1 .. len |-> IF k <= MAX_BLOCKSIZE THEN slot.body[k] ELSE JUNK]
<1>1. len \in Nat
  BY LengthIsNat
<1>2. Taken(slot, index) = [from |-> index, bytes |-> bytes]
  BY DEF Taken
<1> HIDE DEF len
<1>3. \A k \in 1 .. len : (IF k <= MAX_BLOCKSIZE THEN slot.body[k] ELSE JUNK) \in Int
  BY <1>1, Sizes DEF JUNK
<1>4. bytes \in Seq(Int) /\ Len(bytes) = len
  BY <1>1, <1>3
<1>5. \A k \in 1 .. len : bytes[k] = IF k <= MAX_BLOCKSIZE THEN slot.body[k] ELSE JUNK
  OBVIOUS
<1> HIDE DEF bytes
<1> QED
  BY <1>2, <1>4, <1>5 DEF Packet, len

(* What main() does with the slot is the same after both; what differs is what   *)
(* the slot holds.                                                           *)
LEMMA DecodeKeeps ==
  ASSUME IInv, ~done,
         NEW slot \in [header : Header, body : [1 .. MAX_BLOCKSIZE -> Int]],
         NEW index \in 0 .. Len(sent),
         Decode(slot, index), UNCHANGED <<clientVars, avg_blocksize>>,
         input' = [input EXCEPT ![Slot] = slot]
  PROVE  /\ got' \in Seq(Packet) /\ Len(got') = Len(got) + 1
         /\ \A k \in 1 .. Len(got) : got'[k] = got[k]
         /\ got'[Len(got) + 1] = Taken(slot, index)
         /\ input' \in [Slots -> [header : Header, body : [1 .. MAX_BLOCKSIZE -> Int]]]
         /\ writer' \in 0 .. NUM_PACKETS /\ done' \in BOOLEAN
         /\ Ring'
         /\ \A k \in 1 .. Len(got') : got'[k].from \in 0 .. Len(sent')
<1>1. index \in Nat /\ sent' = sent
  BY Typed DEF clientVars
<1>2. /\ got' \in Seq(Packet) /\ Len(got') = Len(got) + 1
      /\ \A k \in 1 .. Len(got) : got'[k] = got[k]
      /\ got'[Len(got) + 1] = Taken(slot, index)
  <2> DEFINE p == Taken(slot, index)
  <2>1. p \in Packet /\ got' = Append(got, p)
    BY <1>1, TakenIsPacket DEF Decode
  <2> HIDE DEF p
  <2>2. /\ got' \in Seq(Packet) /\ Len(got') = Len(got) + 1
        /\ \A k \in 1 .. Len(got) : got'[k] = got[k]
        /\ got'[Len(got) + 1] = p
    BY <2>1, Typed, AppendProperties
  <2> QED
    BY <2>2 DEF p
<1>3. got'[Len(got) + 1].from = index
  BY <1>1, <1>2, TakenIsPacket
<1>4. Slot \in Slots /\ input \in [Slots -> [header : Header, body : [1 .. MAX_BLOCKSIZE -> Int]]]
  BY SlotOfNext DEF IInv, TypeOK
<1>5. /\ input' \in [Slots -> [header : Header, body : [1 .. MAX_BLOCKSIZE -> Int]]]
      /\ input'[Slot] = slot /\ \A s \in Slots : s # Slot => input'[s] = input[s]
  BY <1>4
<1>6. done' = DoneOf(slot.header) /\ writer' = Slot + 1
  BY DEF Decode
<1>7. writer' \in 0 .. NUM_PACKETS /\ writer' % NUM_PACKETS = Len(got') % NUM_PACKETS
  BY <1>2, <1>6, SlotOfNext
<1>8. ASSUME ~done', NEW s \in Slots
      PROVE  ~DoneOf(input'[s].header) \/ Unused((s + 1) % NUM_PACKETS)'
  <2>1. CASE s = Slot
    BY <1>5, <1>6, <1>8, <2>1
  <2>2. CASE s # Slot
    <3>1. ~DoneOf(input[s].header) \/ Unused((s + 1) % NUM_PACKETS)
      BY DEF IInv, Ring
    <3>2. ASSUME Unused((s + 1) % NUM_PACKETS), NEW k \in 1 .. Len(got'),
                 k % NUM_PACKETS = (s + 1) % NUM_PACKETS
          PROVE  got'[k].from = 0
      <4>1. k # Len(got) + 1
        BY <2>2, <3>2, SlotOfNext
      <4>2. k \in 1 .. Len(got)
        BY <1>2, <4>1, Typed
      <4> QED
        BY <1>2, <3>2, <4>2 DEF Unused
    <3>3. Unused((s + 1) % NUM_PACKETS) => Unused((s + 1) % NUM_PACKETS)'
      BY <3>2 DEF Unused
    <3> QED
      BY <1>5, <2>2, <3>1, <3>3
  <2> QED
    BY <2>1, <2>2
<1>9. Ring'
  BY <1>7, <1>8 DEF Ring
<1>10. ASSUME NEW k \in 1 .. Len(got') PROVE got'[k].from \in 0 .. Len(sent')
  <2>1. CASE k = Len(got) + 1
    BY <1>1, <1>3, <2>1
  <2>2. CASE k \in 1 .. Len(got)
    <3>1. got[k].from \in 0 .. Len(sent)
      BY <2>2 DEF IInv, Origins
    <3> QED
      BY <1>1, <1>2, <2>2, <3>1
  <2> QED
    BY <1>2, <2>1, <2>2, Typed
<1> QED
  BY <1>2, <1>5, <1>6, <1>7, <1>9, <1>10 DEF DoneOf

(* What was taken before stays taken. *)
LEMMA StillTaken ==
  ASSUME Len(got) \in Nat, DOMAIN got = 1 .. Len(got), DOMAIN got' = 1 .. Len(got'),
         Len(got') = Len(got) + 1, \A k \in 1 .. Len(got) : got'[k] = got[k],
         NEW i, Took(i)
  PROVE  Took(i)'
<1>1. PICK k \in 1 .. Len(got) : got[k].from = i
  BY DEF Took
<1>2. k \in 1 .. Len(got') /\ got'[k].from = i
  BY <1>1
<1> QED
  BY <1>2 DEF Took

(* The packets taken before are the datagrams they were. *)
LEMMA StillDatagrams ==
  ASSUME IInv, sent' = sent, avg_blocksize' = avg_blocksize,
         got' \in Seq(Packet), Len(got') = Len(got) + 1,
         \A k \in 1 .. Len(got) : got'[k] = got[k],
         NEW p, got'[Len(got) + 1] = p,
         p.from # 0 =>
           /\ Len(p.bytes) = Len(sent[p.from].body)
           /\ Len(p.bytes) <= avg_blocksize => p.bytes = sent[p.from].body
  PROVE  PacketsAreDatagrams'
<1> SUFFICES ASSUME NEW k \in 1 .. Len(got'), got'[k].from # 0
             PROVE  /\ Len(got'[k].bytes) = Len(sent[got'[k].from].body)
                    /\ Len(got'[k].bytes) <= avg_blocksize
                         => got'[k].bytes = sent[got'[k].from].body
  BY LenProperties DEF PacketsAreDatagrams
<1>1. CASE k = Len(got) + 1
  BY <1>1
<1>2. CASE k \in 1 .. Len(got)
  BY <1>2, Typed DEF IInv, PacketsAreDatagrams
<1> QED
  BY <1>1, <1>2, Typed

(* A datagram fills the slot, its header and bytes are the packet's, and the last *)
(* one ends the loop.                                                        *)
LEMMA ReceiveStep == IInv /\ Receive => IInv'
<1> SUFFICES ASSUME IInv, Receive PROVE IInv'
  OBVIOUS
<1>h. PICK h : h = Head(net)
  OBVIOUS
<1> DEFINE d == sent[h]
           slot == Filled(input[Slot], d)
           p == Taken(slot, h)
<1>1. /\ ~done /\ net # << >> /\ net' = Tail(net)
      /\ input' = [input EXCEPT ![Slot] = slot] /\ Decode(input'[Slot], h)
      /\ UNCHANGED <<clientVars, avg_blocksize>> /\ faults' = faults /\ lost' = lost
      /\ avg_blocksize' = avg_blocksize
  BY <1>h DEF Receive
<1>2. /\ net' \in Seq(Nat) /\ Len(net') = Len(net) - 1 /\ Len(net) >= 1
      /\ \A j \in 1 .. Len(net) - 1 : net'[j] = net[j + 1]
      /\ h = net[1]
  BY <1>h, <1>1, Typed, HeadTailProperties, EmptySeq
<1>3. h \in 1 .. Len(sent)
  BY <1>2, Typed DEF IInv, Origins
<1>4. /\ d.header \in Header /\ d.body \in Seq(Int) /\ Len(d.body) \in 1 .. MAX_BLOCKSIZE
      /\ d.header = Encoded(Len(d.body), IsLast(h)) /\ IsLast(h) \in BOOLEAN
  <2>1. d \in Datagram
    BY <1>3, Typed, ElementOfSeq
  <2>2. Len(d.body) \in 1 .. MAX_BLOCKSIZE /\ d.header = Encoded(Len(d.body), IsLast(h))
    BY <1>3 DEF IInv, Headers
  <2> QED
    BY <2>1, <2>2 DEF Datagram, IsLast
<1>5. LengthOf(d.header) = Len(d.body) /\ (DoneOf(d.header) <=> IsLast(h))
  BY <1>4, HeaderRoundTrip
<1>6. Slot \in Slots /\ input[Slot] \in [header : Header, body : [1 .. MAX_BLOCKSIZE -> Int]]
  BY SlotOfNext DEF IInv, TypeOK
<1>7. /\ slot \in [header : Header, body : [1 .. MAX_BLOCKSIZE -> Int]]
      /\ slot.header = d.header
      /\ \A k \in 1 .. MAX_BLOCKSIZE :
           k <= Len(d.body) /\ k <= avg_blocksize => slot.body[k] = d.body[k]
  <2> DEFINE e(k) == IF k <= Len(d.body) /\ k <= avg_blocksize THEN d.body[k]
                     ELSE input[Slot].body[k]
  <2>1. slot = [header |-> d.header, body |-> [k \in 1 .. MAX_BLOCKSIZE |-> e(k)]]
    BY DEF Filled
  <2>2. ASSUME NEW k \in 1 .. MAX_BLOCKSIZE PROVE e(k) \in Int
    <3>1. k <= Len(d.body) => d.body[k] \in Int
      BY <1>4, Sizes, ElementOfSeq
    <3> QED
      BY <1>6, <3>1
  <2>3. \A k \in 1 .. MAX_BLOCKSIZE :
          k <= Len(d.body) /\ k <= avg_blocksize => e(k) = d.body[k]
    OBVIOUS
  <2> HIDE DEF e, d, slot
  <2> QED
    BY <1>4, <2>1, <2>2, <2>3
<1>8. Decode(slot, h)
  BY <1>1, <1>6 DEF IInv, TypeOK
<1>9. h \in 0 .. Len(sent) /\ h \in Nat /\ h # 0
  BY <1>3, Typed
<1>10. /\ p \in Packet /\ p.from = h /\ Len(p.bytes) = Len(d.body)
       /\ \A k \in 1 .. Len(d.body) :
            p.bytes[k] = IF k <= MAX_BLOCKSIZE THEN slot.body[k] ELSE JUNK
  BY <1>5, <1>7, <1>9, TakenIsPacket
<1>11. /\ got' \in Seq(Packet) /\ Len(got') = Len(got) + 1
       /\ \A k \in 1 .. Len(got) : got'[k] = got[k]
       /\ got'[Len(got) + 1] = p
       /\ input' \in [Slots -> [header : Header, body : [1 .. MAX_BLOCKSIZE -> Int]]]
       /\ writer' \in 0 .. NUM_PACKETS /\ done' \in BOOLEAN
       /\ Ring'
       /\ \A k \in 1 .. Len(got') : got'[k].from \in 0 .. Len(sent')
  <2> HIDE DEF slot
  <2> QED
    BY <1>1, <1>7, <1>8, <1>9, DecodeKeeps
<1>12. done' <=> IsLast(h)
  BY <1>5, <1>7, <1>8 DEF Decode
<1>13. /\ sent' = sent /\ client' = client /\ file_size' = file_size
       /\ blocksize' = blocksize /\ n' = n
  BY <1>1 DEF clientVars
<1>14. p.bytes = d.body \/ ~(Len(p.bytes) <= avg_blocksize)
  <2> SUFFICES ASSUME Len(d.body) <= avg_blocksize PROVE p.bytes = d.body
    BY <1>10
  <2>1. p.bytes \in Seq(Int)
    BY <1>10 DEF Packet
  <2>2. ASSUME NEW k \in 1 .. Len(d.body) PROVE p.bytes[k] = d.body[k]
    <3>1. k \in 1 .. MAX_BLOCKSIZE /\ k <= avg_blocksize /\ k <= Len(d.body)
      BY <1>4, Typed, Sizes
    <3> QED
      BY <1>7, <1>10, <3>1
  <2> HIDE DEF p, d
  <2> QED
    BY <1>4, <1>10, <2>1, <2>2, SeqEqual
<1> HIDE DEF p, slot, d
<1>15. TypeOK'
  BY <1>1, <1>2, <1>11, <1>13 DEF IInv, TypeOK
<1>16. Headers'
  BY <1>13 DEF IInv, Headers, IsLast, remainder
<1>17. Origins'
  <2>1. ASSUME NEW j \in 1 .. Len(net') PROVE net'[j] \in 1 .. Len(sent)
    <3>1. j + 1 \in 1 .. Len(net) /\ j \in 1 .. Len(net) - 1
      BY <1>2, Typed
    <3> QED
      BY <1>2, <3>1 DEF IInv, Origins
  <2> QED
    BY <1>11, <1>13, <2>1 DEF Origins
<1>18. PacketsAreDatagrams'
  BY <1>1, <1>10, <1>11, <1>13, <1>14, StillDatagrams DEF d
<1>19. DOMAIN got' = 1 .. Len(got') /\ Len(got) + 1 \in 1 .. Len(got')
  BY <1>11, Typed, LenProperties
<1>20. Took(h)'
  BY <1>10, <1>11, <1>19 DEF Took
<1>21. NothingVanishes'
  <2> SUFFICES ASSUME NEW i \in 1 .. Len(sent), ~Took(i)', i \notin lost
               PROVE  OnItsWay(i)'
    BY <1>1, <1>13 DEF NothingVanishes
  <2>1. ~Took(i)
    BY <1>11, <1>19, Typed, StillTaken
  <2>2. PICK j \in 1 .. Len(net) : net[j] = i
    BY <2>1 DEF IInv, NothingVanishes, OnItsWay
  <2>3. j # 1
    BY <1>2, <1>20, <2>2
  <2>4. j - 1 \in 1 .. Len(net) - 1 /\ (j - 1) + 1 = j
    BY <2>3, Typed
  <2>5. j - 1 \in 1 .. Len(net') /\ net'[j - 1] = i
    BY <1>2, <2>2, <2>4
  <2> QED
    BY <2>5 DEF OnItsWay
<1>22. InOrder'
  <2> SUFFICES ASSUME faults["overtaking"] = 0,
                      NEW j \in 1 .. Len(net'), NEW l \in 1 .. Len(net'), j <= l
               PROVE  net'[j] <= net'[l]
    BY <1>1 DEF InOrder
  <2>1. /\ j \in 1 .. Len(net) - 1 /\ l \in 1 .. Len(net) - 1 /\ j + 1 \in 1 .. Len(net)
        /\ l + 1 \in 1 .. Len(net) /\ j + 1 <= l + 1
    BY <1>2, Typed
  <2>2. net[j + 1] <= net[l + 1]
    BY <2>1 DEF IInv, InOrder
  <2> QED
    BY <1>2, <2>1, <2>2
<1>23. Ends'
  <2> SUFFICES ASSUME IsLast(h) PROVE EndsWithLast' /\ got' # << >>
    BY <1>12 DEF Ends, EndsWithLast
  <2>1. h = Len(sent) /\ client' = "closed"
    BY <1>13 DEF IsLast
  <2>2. Last(got)'.from = Len(sent')
    BY <1>10, <1>11, <1>13, <2>1 DEF Last
  <2>3. ASSUME faults["overtaking"] = 0, NEW i \in 1 .. Len(sent), i \notin lost
        PROVE  Took(i)'
    <3> SUFFICES ASSUME ~Took(i)' PROVE FALSE
      OBVIOUS
    <3>1. PICK j \in 1 .. Len(net') : net'[j] = i
      BY <1>1, <1>13, <1>21, <2>3 DEF NothingVanishes, OnItsWay
    <3>2. j \in 1 .. Len(net) - 1 /\ j + 1 \in 1 .. Len(net) /\ 1 \in 1 .. Len(net) /\ 1 <= j + 1
      BY <1>2, Typed
    <3>3. h <= i
      BY <1>2, <2>3, <3>1, <3>2 DEF IInv, InOrder
    <3>4. i = h
      BY <2>1, <3>3, Typed
    <3> QED
      BY <1>20, <3>4
  <2>4. got' # << >>
    BY <1>11, Typed, EmptySeq
  <2> QED
    BY <1>1, <1>13, <2>1, <2>2, <2>3, <2>4, Typed DEF EndsWithLast
<1> QED
  BY <1>11, <1>15, <1>16, <1>17, <1>18, <1>21, <1>22, <1>23 DEF IInv

(* What is in the slot is taken again, and has a done bit only if no datagram was *)
(* ever received in it.                                                      *)
LEMMA ReceiveFailsStep == IInv /\ ReceiveFails => IInv'
<1> SUFFICES ASSUME IInv, ReceiveFails PROVE IInv'
  OBVIOUS
<1> DEFINE slot == input[Slot]
           p == Taken(slot, 0)
<1>1. /\ ~done /\ Goes("error") /\ Decode(slot, 0) /\ input' = input
      /\ net' = net /\ lost' = lost
      /\ UNCHANGED <<clientVars, avg_blocksize>> /\ avg_blocksize' = avg_blocksize
  BY DEF ReceiveFails
<1>2. faults' \in [FaultKinds -> Nat] /\ faults'["overtaking"] = faults["overtaking"]
  BY <1>1, FaultCounted DEF FaultKinds
<1>3. /\ Slot \in Slots /\ slot \in [header : Header, body : [1 .. MAX_BLOCKSIZE -> Int]]
      /\ input' = [input EXCEPT ![Slot] = slot] /\ 0 \in 0 .. Len(sent)
  BY <1>1, SlotOfNext, Typed DEF IInv, TypeOK
<1>4. p \in Packet /\ p.from = 0
  BY <1>3, TakenIsPacket
<1>5. /\ got' \in Seq(Packet) /\ Len(got') = Len(got) + 1
      /\ \A k \in 1 .. Len(got) : got'[k] = got[k]
      /\ got'[Len(got) + 1] = p
      /\ input' \in [Slots -> [header : Header, body : [1 .. MAX_BLOCKSIZE -> Int]]]
      /\ writer' \in 0 .. NUM_PACKETS /\ done' \in BOOLEAN
      /\ Ring'
      /\ \A k \in 1 .. Len(got') : got'[k].from \in 0 .. Len(sent')
  <2> HIDE DEF slot
  <2> QED
    BY <1>1, <1>3, DecodeKeeps
<1>6. /\ sent' = sent /\ client' = client /\ file_size' = file_size
      /\ blocksize' = blocksize /\ n' = n
  BY <1>1 DEF clientVars
<1> HIDE DEF p
<1>7. TypeOK'
  BY <1>1, <1>2, <1>5, <1>6 DEF IInv, TypeOK
<1>8. Headers'
  BY <1>6 DEF IInv, Headers, IsLast, remainder
<1>9. Origins'
  BY <1>1, <1>5, <1>6 DEF IInv, Origins
<1>10. PacketsAreDatagrams'
  BY <1>1, <1>4, <1>5, <1>6, StillDatagrams
<1>11. DOMAIN got' = 1 .. Len(got') /\ Len(got) + 1 \in 1 .. Len(got')
  BY <1>5, Typed, LenProperties
<1>12. NothingVanishes'
  <2> SUFFICES ASSUME NEW i \in 1 .. Len(sent) PROVE Took(i)' \/ i \in lost \/ OnItsWay(i)'
    BY <1>1, <1>6 DEF NothingVanishes
  <2>1. Took(i) \/ i \in lost \/ OnItsWay(i)
    BY DEF IInv, NothingVanishes
  <2>2. OnItsWay(i) => OnItsWay(i)'
    BY <1>1 DEF OnItsWay
  <2>3. Took(i) => Took(i)'
    BY <1>5, <1>11, Typed, StillTaken
  <2> QED
    BY <2>1, <2>2, <2>3
<1>13. InOrder'
  BY <1>1, <1>2 DEF IInv, InOrder
<1>14. Ends'
  <2> SUFFICES ASSUME DoneOf(slot.header) PROVE EndsWithLast' /\ got' # << >>
    BY <1>1 DEF Ends, EndsWithLast, Decode
  <2>1. Unused((Slot + 1) % NUM_PACKETS)
    BY <1>1, <1>3 DEF IInv, Ring
  <2>2. Last(got)'.from = 0
    BY <1>4, <1>5 DEF Last
  <2>3. ASSUME NEW j \in 1 .. Len(got), j % NUM_PACKETS = (Len(got) + 1) % NUM_PACKETS
        PROVE  got'[j].from = 0
    BY <1>5, <2>1, <2>3, SlotOfNext DEF Unused
  <2>4. Fresh(Len(got))'
    <3>1. 1 .. Len(got') - 1 = 1 .. Len(got)
      BY <1>5, Typed
    <3> QED
      BY <1>5, <2>3, <3>1 DEF Fresh
  <2>5. got' # << >>
    BY <1>5, Typed, EmptySeq
  <2> QED
    BY <2>2, <2>4, <2>5 DEF EndsWithLast
<1> QED
  BY <1>5, <1>7, <1>8, <1>9, <1>10, <1>12, <1>13, <1>14 DEF IInv

-----------------------------------------------------------------------------
(* The file, piece by piece *)

(* Where the i-th datagram's piece of the file ends, and the piece.             *)
Offset(i) == IF i * blocksize <= file_size THEN i * blocksize ELSE file_size
Between(a, b) == [k \in 1 .. b - a |-> a + k - 1]
Piece(i)  == Between(Offset(i - 1), Offset(i))
Upto(m)   == [k \in 1 .. m |-> k - 1]

(* The client's loop: how far it is.                                           *)
Blocks ==
  /\ Len(sent) = n
  /\ client = "blocks" => n = 0 \/ n < loops
  /\ client = "remainder" => n = IF loops = 0 THEN 1 ELSE loops

(* A file of at least a block is sent piece by piece, the last piece last.       *)
Pieces ==
  file_size >= blocksize =>
    /\ \A i \in 1 .. Len(sent) : /\ sent[i].body = Piece(i) /\ Offset(i - 1) < Offset(i)
                                 /\ Offset(i) = file_size <=> IsLast(i)
    /\ SentBytes = Upto(Offset(Len(sent)))

(* A shorter file is sent with a block too much. *)
TooLong == file_size < blocksize /\ client # "blocks" => Len(SentBytes) > file_size

(* Until a fault what was sent is either taken or on its way, in order.          *)
Progress ==
  ~Faulty =>
    /\ Len(sent) = Len(got) + Len(net)
    /\ \A j \in 1 .. Len(net) : net[j] = Len(got) + j
    /\ Stream = Upto(Offset(Len(got)))

TransferInv == Blocks /\ Pieces /\ TooLong /\ Progress

(* A piece ends behind the one before it, and none is longer than a block.        *)
LEMMA Offsets ==
  ASSUME IInv, NEW i \in Nat
  PROVE  /\ Offset(i) \in 0 .. file_size /\ Offset(0) = 0
         /\ Offset(i) <= Offset(i + 1) /\ Offset(i + 1) - Offset(i) <= blocksize
<1>1. blocksize \in Nat \ {0} /\ file_size \in Nat
  BY Typed, Sizes
<1> DEFINE x == i * blocksize
           y == (i + 1) * blocksize
<1>2. x \in Nat /\ y = x + blocksize /\ 0 * blocksize = 0
  BY <1>1, SMT
<1>3. /\ Offset(i) = IF x <= file_size THEN x ELSE file_size
      /\ Offset(i + 1) = IF y <= file_size THEN y ELSE file_size
      /\ Offset(0) = IF 0 * blocksize <= file_size THEN 0 * blocksize ELSE file_size
  BY DEF Offset
<1> HIDE DEF x, y
<1> QED
  BY <1>1, <1>2, <1>3

(* Where the client's loop ends. *)
LEMMA Loops ==
  ASSUME IInv
  PROVE  /\ loops \in Nat /\ remainder \in 0 .. blocksize - 1
         /\ loops * blocksize \in Nat /\ file_size = loops * blocksize + remainder
         /\ loops = 0 <=> file_size < blocksize
<1>1. blocksize \in Nat \ {0} /\ file_size \in Nat
  BY Typed, Sizes
<1>2. /\ file_size = blocksize * loops + remainder /\ loops \in Nat
      /\ remainder \in 0 .. blocksize - 1
  BY <1>1, DivMod DEF loops, remainder
<1> DEFINE q == loops
           x == blocksize * q
<1> HIDE DEF q
<1>3. x \in Nat /\ q * blocksize = x /\ (q = 0 => x = 0) /\ (q # 0 => x >= blocksize)
  <2>1. q \in Nat
    BY <1>2 DEF q
  <2>2. q # 0 => x >= blocksize
    BY <1>1, <2>1, MultipleAtLeast
  <2>3. x \in Nat /\ q * blocksize = x /\ (q = 0 => x = 0)
    BY <1>1, <2>1, SMT
  <2> QED
    BY <2>2, <2>3
<1> HIDE DEF x
<1> QED
  BY <1>1, <1>2, <1>3 DEF q, x

(* With the piece that follows it the file's beginning grows. *)
LEMMA PieceFollows ==
  ASSUME NEW a \in Nat, NEW b \in Nat, a <= b
  PROVE  /\ Upto(a) \in Seq(Int) /\ Len(Upto(a)) = a
         /\ Between(a, b) \in Seq(Int) /\ Len(Between(a, b)) = b - a
         /\ Upto(a) \o Between(a, b) = Upto(b)
<1> DEFINE u == Upto(a)
           v == Between(a, b)
           w == Upto(b)
<1>1. u \in Seq(Int) /\ Len(u) = a /\ \A k \in 1 .. a : u[k] = k - 1
  BY DEF Upto
<1>2. v \in Seq(Int) /\ Len(v) = b - a /\ \A k \in 1 .. b - a : v[k] = a + k - 1
  <2>1. b - a \in Nat
    OBVIOUS
  <2> QED
    BY <2>1 DEF Between
<1>3. w \in Seq(Int) /\ Len(w) = b /\ \A k \in 1 .. b : w[k] = k - 1
  BY DEF Upto
<1> HIDE DEF u, v, w
<1>4. /\ u \o v \in Seq(Int) /\ Len(u \o v) = Len(u) + Len(v)
      /\ \A k \in 1 .. Len(u) + Len(v) : (u \o v)[k] = IF k <= Len(u) THEN u[k] ELSE v[k - Len(u)]
  BY <1>1, <1>2, ConcatProperties
<1>5. Len(u) + Len(v) = b
  BY <1>1, <1>2
<1>6. ASSUME NEW k \in 1 .. b PROVE (u \o v)[k] = w[k]
  <2>1. CASE k <= a
    BY <1>1, <1>3, <1>4, <1>5, <2>1
  <2>2. CASE ~(k <= a)
    <3>1. k - a \in 1 .. b - a /\ a + (k - a) - 1 = k - 1
      BY <2>2
    <3>2. (u \o v)[k] = v[k - a]
      BY <1>1, <1>4, <1>5, <2>2
    <3> QED
      BY <1>2, <1>3, <3>1, <3>2
  <2> QED
    BY <2>1, <2>2
<1>7. u \o v = w
  BY <1>3, <1>4, <1>5, <1>6, SeqEqual
<1> QED
  BY <1>1, <1>2, <1>7 DEF u, v, w

(* What F makes of the members of a sequence, put together; and for one more.    *)
Parts(F, R)  == F \in [R -> Seq(Int)]
Joined(F, s) == FlattenSeq([k \in DOMAIN s |-> F[s[k]]])

(* One member more is its part more. *)
LEMMA PutTogether ==
  ASSUME NEW R, NEW F, Parts(F, R), NEW s \in Seq(R), NEW x \in R
  PROVE  Joined(F, s) \in Seq(Int) /\ Joined(F, Append(s, x)) = Joined(F, s) \o F[x]
<1> DEFINE f == [k \in DOMAIN s |-> F[s[k]]]
           g == [k \in DOMAIN Append(s, x) |-> F[Append(s, x)[k]]]
           h == Append(f, F[x])
<1>1. /\ Len(s) \in Nat /\ DOMAIN s = 1 .. Len(s) /\ F[x] \in Seq(Int)
      /\ \A k \in 1 .. Len(s) : F[s[k]] \in Seq(Int)
  BY LenProperties, ElementOfSeq DEF Parts
<1>2. f \in Seq(Seq(Int)) /\ Len(f) = Len(s) /\ \A k \in 1 .. Len(s) : f[k] = F[s[k]]
  BY <1>1
<1>3. /\ Append(s, x)[Len(s) + 1] = x /\ \A k \in 1 .. Len(s) : Append(s, x)[k] = s[k]
      /\ DOMAIN Append(s, x) = 1 .. Len(s) + 1
  BY <1>1, AppendProperties, LenProperties
<1>4. /\ h \in Seq(Seq(Int)) /\ Len(h) = Len(s) + 1 /\ h[Len(s) + 1] = F[x]
      /\ \A k \in 1 .. Len(s) : h[k] = F[s[k]]
  <2> HIDE DEF f
  <2> QED
    BY <1>1, <1>2, AppendProperties
<1> HIDE DEF h
<1>5. ASSUME NEW k \in 1 .. Len(s) + 1 PROVE h[k] = F[Append(s, x)[k]]
  <2>1. CASE k = Len(s) + 1
    BY <1>3, <1>4, <2>1
  <2>2. CASE k \in 1 .. Len(s)
    BY <1>3, <1>4, <2>2
  <2> QED
    BY <1>1, <2>1, <2>2
<1>6. h = [k \in 1 .. Len(s) + 1 |-> h[k]]
  BY <1>1, <1>4
<1>7. h = g
  BY <1>3, <1>5, <1>6
<1> HIDE DEF f, g
<1>8. FlattenSeq(f) \in Seq(Int) /\ FlattenSeq(g) = FlattenSeq(f) \o F[x]
  BY <1>1, <1>2, <1>7, FlattenAppend DEF h
<1> QED
  BY <1>8 DEF f, g, Joined

(* So it is with the bytes of one datagram more. *)
LEMMA SentBytesGrow ==
  ASSUME IInv, NEW d \in Datagram, sent' = Append(sent, d)
  PROVE  SentBytes \in Seq(Int) /\ SentBytes' = SentBytes \o d.body
<1> DEFINE F == [e \in Datagram |-> e.body]
<1>1. Parts(F, Datagram)
  BY DEF Datagram, Parts
<1>2. sent \in Seq(Datagram) /\ Append(sent, d) \in Seq(Datagram)
  BY Typed, AppendProperties
<1>3. /\ [k \in DOMAIN sent |-> F[sent[k]]] = [k \in DOMAIN sent |-> sent[k].body]
      /\ [k \in DOMAIN Append(sent, d) |-> F[Append(sent, d)[k]]]
           = [k \in DOMAIN Append(sent, d) |-> Append(sent, d)[k].body]
  BY <1>2, LenProperties, ElementOfSeq
<1>4. F[d] = d.body
  OBVIOUS
<1> HIDE DEF F
<1>5. Joined(F, sent) \in Seq(Int) /\ Joined(F, Append(sent, d)) = Joined(F, sent) \o F[d]
  BY <1>1, <1>2, PutTogether
<1>6. SentBytes' = FlattenSeq([k \in DOMAIN Append(sent, d) |-> Append(sent, d)[k].body])
  BY DEF SentBytes
<1> QED
  BY <1>3, <1>4, <1>5, <1>6 DEF SentBytes, Joined

(* And with those of one packet more. *)
LEMMA StreamGrows ==
  ASSUME IInv, NEW p \in Packet, got' = Append(got, p)
  PROVE  Stream \in Seq(Int) /\ Stream' = Stream \o p.bytes
<1> DEFINE F == [e \in Packet |-> e.bytes]
<1>1. Parts(F, Packet)
  BY DEF Packet, Parts
<1>2. got \in Seq(Packet) /\ Append(got, p) \in Seq(Packet)
  BY Typed, AppendProperties
<1>3. /\ [k \in DOMAIN got |-> F[got[k]]] = [k \in DOMAIN got |-> got[k].bytes]
      /\ [k \in DOMAIN Append(got, p) |-> F[Append(got, p)[k]]]
           = [k \in DOMAIN Append(got, p) |-> Append(got, p)[k].bytes]
  BY <1>2, LenProperties, ElementOfSeq
<1>4. F[p] = p.bytes
  OBVIOUS
<1> HIDE DEF F
<1>5. Joined(F, got) \in Seq(Int) /\ Joined(F, Append(got, p)) = Joined(F, got) \o F[p]
  BY <1>1, <1>2, PutTogether
<1>6. Stream' = FlattenSeq([k \in DOMAIN Append(got, p) |-> Append(got, p)[k].bytes])
  BY DEF Stream
<1> QED
  BY <1>3, <1>4, <1>5, <1>6 DEF Stream, Joined

(* Nothing has been sent. *)
LEMMA TransferInitially == Init => TransferInv
<1> SUFFICES ASSUME Init PROVE TransferInv
  OBVIOUS
<1>1. /\ client = "blocks" /\ n = 0 /\ sent = << >> /\ net = << >> /\ got = << >>
      /\ file_size \in Nat /\ blocksize \in Nat
  BY BlocksAssumption, Sizes DEF Init
<1>2. 0 * blocksize = 0
  BY <1>1, SMT
<1>3. Offset(0) = 0
  BY <1>1, <1>2 DEF Offset
<1>4. SentBytes = << >> /\ Stream = << >>
  <2>1. [k \in DOMAIN sent |-> sent[k].body] = << >> /\ [k \in DOMAIN got |-> got[k].bytes] = << >>
    BY <1>1
  <2>2. FlattenSeq(<< >>) = << >>
    BY DEF FlattenSeq
  <2> QED
    BY <2>1, <2>2 DEF SentBytes, Stream
<1>5. Upto(0) = << >>
  BY DEF Upto
<1>6. Len(sent) = 0 /\ Len(got) = 0 /\ Len(net) = 0
  BY <1>1, EmptySeq
<1> QED
  BY <1>1, <1>3, <1>4, <1>5, <1>6 DEF TransferInv, Blocks, Pieces, TooLong, Progress

(* Each of the client's steps sends one datagram. *)
LEMMA SentOneMore ==
  ASSUME IInv, NEW from, NEW len, NEW last, Send(from, len, last)
  PROVE  Len(sent') = Len(sent) + 1
<1> DEFINE d == [header |-> Encoded(len, last), body |-> Copied(from, len)]
<1>1. sent' = Append(sent, d)
  BY DEF Send
<1> HIDE DEF d
<1> QED
  BY <1>1, Typed, AppendProperties

(* A datagram more with the file's next piece in it, if the file is a block long.  *)
LEMMA SendKeepsTransfer ==
  ASSUME IInv, TransferInv, NEW from \in Nat, NEW len \in 1 .. MAX_BLOCKSIZE, NEW last \in BOOLEAN,
         Send(from, len, last), client # "closed", client' = "closed" <=> last,
         file_size >= blocksize =>
           /\ Offset(n) = from /\ Offset(n + 1) = from + len
           /\ from + len = file_size <=> last,
         client = "blocks" /\ client' # "blocks" => len = blocksize,
         Blocks', n' = n + 1, UNCHANGED <<file_size, blocksize, faults, lost, mainVars>>
  PROVE  TransferInv'
<1> DEFINE d == [header |-> Encoded(len, last), body |-> Copied(from, len)]
<1>1. /\ blocksize' = blocksize /\ file_size' = file_size /\ avg_blocksize' = avg_blocksize
      /\ faults' = faults /\ got' = got /\ Len(sent) = n /\ n \in Nat
      /\ file_size \in Nat /\ blocksize \in Nat
  BY Typed, Sizes DEF mainVars, TransferInv, Blocks
<1>2. Copied(from, len) \in Seq(Int) /\ Len(Copied(from, len)) = len
  <2>1. len \in Nat /\ \A k \in 1 .. len : (IF from + k <= file_size THEN from + k - 1 ELSE JUNK) \in Int
    BY Sizes DEF JUNK
  <2> QED
    BY <2>1 DEF Copied
<1>3. d \in Datagram /\ sent' = Append(sent, d) /\ d.body = Copied(from, len)
  BY <1>2, HeaderRoundTrip DEF Datagram, Send
<1> HIDE DEF d
<1>4. /\ Len(sent') = n + 1 /\ \A i \in 1 .. n : sent'[i] = sent[i]
      /\ sent'[n + 1] = d
  <2>1. /\ Len(sent') = Len(sent) + 1 /\ \A i \in 1 .. Len(sent) : sent'[i] = sent[i]
        /\ sent'[Len(sent) + 1] = d
    BY <1>3, Typed, AppendProperties
  <2> QED
    BY <1>1, <2>1
<1>5. /\ SentBytes \in Seq(Int) /\ SentBytes' = SentBytes \o d.body
      /\ Len(SentBytes') = Len(SentBytes) + len /\ Len(SentBytes) \in Nat
  <2>1. SentBytes \in Seq(Int) /\ SentBytes' = SentBytes \o d.body
    BY <1>3, SentBytesGrow
  <2>2. d.body \in Seq(Int) /\ Len(d.body) = len
    BY <1>2, <1>3
  <2>3. Len(SentBytes \o d.body) = Len(SentBytes) + Len(d.body) /\ Len(SentBytes) \in Nat
    <3>1. PICK s \in Seq(Int) : s = SentBytes
      BY <2>1
    <3>2. PICK b \in Seq(Int) : b = d.body
      BY <2>2
    <3>3. Len(s \o b) = Len(s) + Len(b) /\ Len(s) \in Nat
      BY ConcatProperties, LenProperties
    <3> QED
      BY <3>1, <3>2, <3>3
  <2> QED
    BY <2>1, <2>2, <2>3
<1>6. Pieces'
  <2> SUFFICES ASSUME file_size >= blocksize
               PROVE  /\ \A i \in 1 .. n + 1 :
                           /\ sent'[i].body = Piece(i) /\ Offset(i - 1) < Offset(i)
                           /\ Offset(i) = file_size <=> IsLast(i)'
                      /\ SentBytes' = Upto(Offset(n + 1))
    BY <1>1, <1>4 DEF Pieces, Piece, Offset, Between, Upto
  <2>1. Offset(n) = from /\ Offset(n + 1) = from + len /\ (from + len = file_size <=> last)
    OBVIOUS
  <2>2. from + len <= file_size
    BY <1>1, <2>1, Offsets
  <2>3. d.body = Between(from, from + len)
    <3>1. (from + len) - from = len
      OBVIOUS
    <3>2. \A k \in 1 .. len : from + k <= file_size
      BY <1>1, <2>2
    <3> QED
      BY <1>3, <3>1, <3>2 DEF Copied, Between
  <2>4. ASSUME NEW i \in 1 .. n + 1
        PROVE  /\ sent'[i].body = Piece(i) /\ Offset(i - 1) < Offset(i)
               /\ Offset(i) = file_size <=> IsLast(i)'
    <3>1. CASE i = n + 1
      <4>1. i - 1 = n
        BY <1>1, <3>1
      <4>2. IsLast(i)' <=> last
        BY <1>4, <3>1 DEF IsLast
      <4> QED
        BY <1>4, <2>1, <2>3, <3>1, <4>1, <4>2 DEF Piece
    <3>2. CASE i \in 1 .. n
      <4>1. i # Len(sent')
        BY <1>1, <1>4, <3>2
      <4>2. ~IsLast(i) /\ ~IsLast(i)'
        BY <4>1, Zenon DEF IsLast
      <4> QED
        BY <1>1, <1>4, <3>2, <4>2 DEF TransferInv, Pieces
    <3> QED
      BY <1>1, <3>1, <3>2
  <2>5. SentBytes' = Upto(Offset(n + 1))
    <3>1. SentBytes = Upto(from)
      BY <1>1, <2>1 DEF TransferInv, Pieces
    <3>2. from + len \in Nat /\ from <= from + len
      OBVIOUS
    <3>3. Upto(from) \o Between(from, from + len) = Upto(from + len)
      BY <3>2, PieceFollows
    <3>4. SentBytes' = Upto(from + len)
      BY <1>5, <2>3, <3>1, <3>3, Zenon
    <3> QED
      BY <2>1, <3>4, Zenon
  <2> QED
    BY <2>4, <2>5
<1>7. TooLong'
  <2> SUFFICES ASSUME file_size < blocksize, client' # "blocks"
               PROVE  Len(SentBytes') > file_size
    BY <1>1 DEF TooLong
  <2>1. CASE client = "blocks"
    BY <1>1, <1>5, <2>1
  <2>2. CASE client # "blocks"
    BY <1>1, <1>5, <2>2 DEF TransferInv, TooLong
  <2> QED
    BY <2>1, <2>2
<1>8. Progress'
  <2> SUFFICES ASSUME ~Faulty
               PROVE  /\ Len(sent') = Len(got) + Len(net')
                      /\ \A j \in 1 .. Len(net') : net'[j] = Len(got) + j
                      /\ Stream = Upto(Offset(Len(got)))
    BY <1>1 DEF Progress, Faulty, FaultsSoFar, Stream, Upto, Offset
  <2>1. /\ Len(sent) = Len(got) + Len(net)
        /\ \A j \in 1 .. Len(net) : net[j] = Len(got) + j
        /\ Stream = Upto(Offset(Len(got)))
    BY DEF TransferInv, Progress
  <2>2. /\ net' \in Seq(Nat) /\ Len(net') = Len(net) + 1
        /\ \A j \in 1 .. Len(net) : net'[j] = net[j]
        /\ net'[Len(net) + 1] = Len(sent) + 1
    BY Typed, AppendProperties DEF Send
  <2>3. ASSUME NEW j \in 1 .. Len(net') PROVE net'[j] = Len(got) + j
    <3>1. CASE j = Len(net) + 1
      BY <2>1, <2>2, <3>1, Typed
    <3>2. CASE j \in 1 .. Len(net)
      BY <2>1, <2>2, <3>2
    <3> QED
      BY <2>2, <3>1, <3>2, Typed
  <2> QED
    BY <1>1, <1>4, <2>1, <2>2, <2>3, Typed
<1> QED
  BY <1>6, <1>7, <1>8 DEF TransferInv

(* The three places where the client sends. *)
LEMMA ClientTransfers == IInv /\ TransferInv /\ Client => TransferInv'
<1> SUFFICES ASSUME IInv, TransferInv, Client PROVE TransferInv'
  OBVIOUS
<1> DEFINE from == n * blocksize
           end  == loops * blocksize
<1>1. /\ blocksize \in Nat \ {0} /\ blocksize \in 1 .. MAX_BLOCKSIZE
      /\ file_size \in Nat /\ n \in Nat /\ Len(sent) = n
      /\ from \in Nat /\ (n + 1) * blocksize = from + blocksize
  <2>1. blocksize \in Nat \ {0} /\ n \in Nat
    BY Typed, Sizes
  <2>2. from \in Nat /\ (n + 1) * blocksize = from + blocksize
    BY <2>1, SMT
  <2> QED
    BY <2>1, <2>2, Typed DEF TransferInv, Blocks
<1>2. /\ loops \in Nat /\ remainder \in 0 .. blocksize - 1 /\ end \in Nat
      /\ file_size = end + remainder /\ (loops = 0 <=> file_size < blocksize)
  BY Loops
<1>3. /\ client = "blocks" => n = 0 \/ n < loops
      /\ client = "remainder" => remainder # 0 /\ n = IF loops = 0 THEN 1 ELSE loops
  BY DEF TransferInv, Blocks, IInv, Headers
<1>4. /\ Offset(n) = IF from <= file_size THEN from ELSE file_size
      /\ Offset(n + 1) = IF from + blocksize <= file_size THEN from + blocksize ELSE file_size
  BY <1>1 DEF Offset
<1>5. CASE SendBlock
  <2>1. client = "blocks" /\ client' = "blocks" /\ n < loops - 1 /\ n' = n + 1
    BY <1>5 DEF SendBlock, MoreBlocks
  <2>2. from + blocksize < end
    <3>1. (loops - (n + 1)) \in Nat /\ loops - (n + 1) >= 1
      BY <1>1, <1>2, <2>1
    <3>2. (loops - (n + 1)) * blocksize >= blocksize
      BY <1>1, <3>1, SMT
    <3>3. (loops - (n + 1)) * blocksize = end - (n + 1) * blocksize
      BY <1>1, <1>2, SMT
    <3> QED
      BY <1>1, <1>2, <3>2, <3>3
  <2> HIDE DEF from, end
  <2>3. /\ Offset(n) = from /\ Offset(n + 1) = from + blocksize
        /\ (from + blocksize = file_size <=> FALSE)
    BY <1>1, <1>2, <1>4, <2>2
  <2>4. Blocks'
    <3>1. Len(sent') = n + 1
      BY <1>1, <1>5, SentOneMore DEF SendBlock
    <3> QED
      BY <1>1, <1>2, <1>5, <2>1, <3>1 DEF SendBlock, Blocks, loops
  <2> QED
    BY <1>1, <1>5, <2>1, <2>3, <2>4, SendKeepsTransfer DEF SendBlock, from
<1>6. CASE SendLastBlock
  <2>1. /\ client = "blocks" /\ ~(n < loops - 1) /\ n' = n + 1
        /\ client' = IF remainder # 0 THEN "remainder" ELSE "closed"
    BY <1>6 DEF SendLastBlock, MoreBlocks
  <2>2. file_size >= blocksize => n + 1 = loops /\ from + blocksize = end
    BY <1>1, <1>2, <1>3, <2>1
  <2> HIDE DEF from, end
  <2>3. file_size >= blocksize =>
          /\ Offset(n) = from /\ Offset(n + 1) = from + blocksize
          /\ (from + blocksize = file_size <=> LastIsFull)
    BY <1>1, <1>2, <1>4, <2>2 DEF LastIsFull
  <2>4. Blocks'
    <3>1. Len(sent') = n + 1
      BY <1>1, <1>6, SentOneMore DEF SendLastBlock
    <3>2. client' # "blocks" /\ loops' = loops
      BY <1>6, <2>1 DEF SendLastBlock, loops
    <3>3. n + 1 = IF loops = 0 THEN 1 ELSE loops
      BY <1>1, <1>2, <1>3, <2>1
    <3> QED
      BY <2>1, <3>1, <3>2, <3>3 DEF Blocks
  <2>5. LastIsFull \in BOOLEAN /\ (client' = "closed" <=> LastIsFull)
    BY <2>1 DEF LastIsFull
  <2> QED
    BY <1>1, <1>6, <2>1, <2>3, <2>4, <2>5, SendKeepsTransfer DEF SendLastBlock, from
<1>7. CASE SendRemainder
  <2>1. client = "remainder" /\ client' = "closed" /\ n' = n + 1
    BY <1>7 DEF SendRemainder
  <2>2. remainder \in 1 .. MAX_BLOCKSIZE
    BY <1>1, <1>2, <1>3, <2>1, Sizes
  <2>3. file_size >= blocksize => n = loops /\ from = end
    BY <1>1, <1>2, <1>3, <2>1
  <2> HIDE DEF from, end
  <2>4. file_size >= blocksize =>
          /\ Offset(n) = end /\ Offset(n + 1) = end + remainder
          /\ (end + remainder = file_size <=> TRUE)
    BY <1>1, <1>2, <1>4, <2>3
  <2>5. Blocks'
    <3>1. Len(sent') = n + 1
      BY <1>1, <1>2, <1>7, <2>2, SentOneMore DEF SendRemainder, end
    <3> QED
      BY <2>1, <3>1 DEF Blocks
  <2> QED
    BY <1>1, <1>2, <1>7, <2>1, <2>2, <2>4, <2>5, SendKeepsTransfer DEF SendRemainder, end
<1> QED
  BY <1>5, <1>6, <1>7 DEF Client

(* What the client has sent does not change but by its steps. *)
LEMMA StillSent ==
  ASSUME clientVars' = clientVars
  PROVE  (Blocks => Blocks') /\ (Pieces => Pieces') /\ (TooLong => TooLong')
<1>1. /\ file_size' = file_size /\ blocksize' = blocksize /\ client' = client /\ n' = n
      /\ sent' = sent
  BY DEF clientVars
<1>2. Blocks => Blocks'
  BY <1>1 DEF Blocks, loops
<1>3. SentBytes' = SentBytes
  BY <1>1 DEF SentBytes
<1>4. Pieces => Pieces'
  <2>1. \A i : IsLast(i)' <=> IsLast(i)
    BY <1>1 DEF IsLast
  <2>2. \A i : Offset(i)' = Offset(i)
    BY <1>1 DEF Offset
  <2>3. \A i : Piece(i)' = Piece(i)
    BY <1>1 DEF Piece, Between, Offset
  <2>4. Upto(Offset(Len(sent)))' = Upto(Offset(Len(sent)))
    BY <1>1 DEF Upto, Offset
  <2>5. ASSUME Pieces, file_size >= blocksize
        PROVE  /\ \A i \in 1 .. Len(sent) :
                    /\ sent[i].body = Piece(i)' /\ Offset(i - 1)' < Offset(i)'
                    /\ Offset(i)' = file_size <=> IsLast(i)'
               /\ SentBytes = Upto(Offset(Len(sent)))'
    BY <2>1, <2>2, <2>3, <2>4, <2>5 DEF Pieces
  <2> QED
    BY <1>1, <1>3, <2>5 DEF Pieces
<1>5. TooLong => TooLong'
  BY <1>1, <1>3 DEF TooLong
<1> QED
  BY <1>2, <1>4, <1>5

(* Where something goes wrong, it is a fault from then on. *)
LEMMA GoesWrong ==
  ASSUME IInv, NEW kind \in FaultKinds, Goes(kind)
  PROVE  Faulty'
<1>1. faults \in [FaultKinds -> Nat] /\ faults' = [faults EXCEPT ![kind] = @ + 1]
  BY DEF IInv, TypeOK, Goes
<1>2. /\ faults["loss"] \in Nat /\ faults["overtaking"] \in Nat
      /\ faults["duplicate"] \in Nat /\ faults["error"] \in Nat
  BY <1>1 DEF FaultKinds
<1>3. FaultsSoFar' = faults'["loss"] + faults'["overtaking"] + faults'["duplicate"] + faults'["error"]
  BY DEF FaultsSoFar
<1>4. \A k \in FaultKinds : faults'[k] = IF k = kind THEN faults[k] + 1 ELSE faults[k]
  BY <1>1
<1>5. FaultsSoFar' > 0
  BY <1>2, <1>3, <1>4 DEF FaultKinds
<1> QED
  BY <1>5 DEF Faulty

(* The network and a failed receive leave the client alone. *)
LEMMA WrongTransfers ==
  ASSUME IInv, TransferInv, Network \/ ReceiveFails
  PROVE  TransferInv' /\ Faulty' /\ clientVars' = clientVars /\ avg_blocksize' = avg_blocksize
<1>1. PICK kind \in FaultKinds : Goes(kind)
  BY DEF Network, Lose, Overtake, Duplicate, ReceiveFails, FaultKinds
<1>2. Faulty'
  BY <1>1, GoesWrong
<1>3. clientVars' = clientVars /\ avg_blocksize' = avg_blocksize
  BY DEF Network, Lose, Overtake, Duplicate, ReceiveFails, mainVars
<1>4. Blocks' /\ Pieces' /\ TooLong'
  BY <1>3, StillSent DEF TransferInv
<1> QED
  BY <1>2, <1>3, <1>4 DEF TransferInv, Progress

(* What main() takes if nothing has gone wrong: the next datagram, and with it the *)
(* file's next piece.                                                        *)
LEMMA TakesNext ==
  ASSUME IInv, IInv', TransferInv, Receive
  PROVE  /\ clientVars' = clientVars /\ (Faulty' <=> Faulty)
         /\ net' \in Seq(Nat) /\ Len(net) >= 1 /\ Len(net') = Len(net) - 1
         /\ \A j \in 1 .. Len(net') : net'[j] = net[j + 1]
         /\ Len(got') = Len(got) + 1
         /\ \E bytes \in Seq(Int) : Stream \in Seq(Int) /\ Stream' = Stream \o bytes
         /\ ~Faulty =>
              /\ Len(got) + 1 \in 1 .. Len(sent)
              /\ done' <=> IsLast(Len(got) + 1)
              /\ Stream' = Stream \o Piece(Len(got) + 1)
<1>h. PICK h : h = Head(net)
  OBVIOUS
<1> DEFINE slot == Filled(input[Slot], sent[h])
           p    == Taken(slot, h)
<1>1. /\ ~done /\ net # << >> /\ net' = Tail(net)
      /\ input' = [input EXCEPT ![Slot] = slot] /\ Decode(input'[Slot], h)
      /\ clientVars' = clientVars /\ avg_blocksize' = avg_blocksize /\ faults' = faults
  BY <1>h DEF Receive
<1>2. /\ net' \in Seq(Nat) /\ Len(net') = Len(net) - 1 /\ Len(net) >= 1
      /\ \A j \in 1 .. Len(net) - 1 : net'[j] = net[j + 1]
      /\ h = net[1] /\ h \in Nat
  BY <1>h, <1>1, Typed, HeadTailProperties, EmptySeq, ElementOfSeq
<1>3. Faulty' <=> Faulty
  BY <1>1 DEF Faulty, FaultsSoFar, clientVars
<1>4. PICK q \in Packet : got' = Append(got, q) /\ q.from = h /\ (done' <=> DoneOf(sent[h].header))
  <2>1. Slot \in Slots /\ input'[Slot] = slot
    BY <1>1, SlotOfNext DEF IInv, TypeOK
  <2>2. slot.header = sent[h].header
    BY DEF Filled
  <2> HIDE DEF slot
  <2>3. input'[Slot] \in [header : Header, body : [1 .. MAX_BLOCKSIZE -> Int]]
    <3>1. Slots' = Slots
      BY DEF Slots
    <3> QED
      BY <2>1 DEF IInv, TypeOK
  <2>4. p \in Packet /\ p.from = h
    BY <1>2, <2>1, <2>3, TakenIsPacket
  <2>5. got' = Append(got, p) /\ (done' <=> DoneOf(sent[h].header))
    BY <1>1, <2>1, <2>2 DEF Decode
  <2> QED
    BY <2>4, <2>5
<1> HIDE DEF slot, p
<1>5. /\ got' \in Seq(Packet) /\ Len(got') = Len(got) + 1 /\ got'[Len(got) + 1] = q
  BY <1>4, Typed, AppendProperties
<1>6. /\ Stream \in Seq(Int) /\ Stream' = Stream \o q.bytes /\ q.bytes \in Seq(Int)
  BY <1>4, StreamGrows DEF Packet
<1>7. ASSUME ~Faulty
      PROVE  /\ Len(got) + 1 \in 1 .. Len(sent)
             /\ done' <=> IsLast(Len(got) + 1)
             /\ Stream' = Stream \o Piece(Len(got) + 1)
  <2>1. /\ Len(sent) = Len(got) + Len(net) /\ h = Len(got) + 1
        /\ file_size >= blocksize /\ blocksize <= avg_blocksize
    <3>1. 1 \in 1 .. Len(net)
      BY <1>2, Typed
    <3> QED
      BY <1>2, <1>7, <3>1, Typed DEF TransferInv, Progress, Faulty
  <2>2. h \in 1 .. Len(sent) /\ h # 0
    BY <1>2, <2>1, Typed
  <2>3. /\ Len(sent[h].body) \in 1 .. MAX_BLOCKSIZE
        /\ sent[h].header = Encoded(Len(sent[h].body), IsLast(h)) /\ IsLast(h) \in BOOLEAN
        /\ sent[h].body = Piece(h)
    BY <2>1, <2>2 DEF IInv, Headers, IsLast, TransferInv, Pieces
  <2>4. done' <=> IsLast(h)
    BY <1>4, <2>3, HeaderRoundTrip
  <2>5. Len(Piece(h)) <= blocksize
    <3>1. Len(got) \in Nat
      BY Typed
    <3>2. /\ Offset(Len(got)) \in Nat /\ Offset(h) \in Nat /\ Offset(Len(got)) <= Offset(h)
          /\ Offset(h) - Offset(Len(got)) <= blocksize /\ h - 1 = Len(got)
      BY <2>1, <3>1, Offsets, Typed
    <3> QED
      BY <3>2, PieceFollows DEF Piece
  <2>6. q.bytes = sent[h].body
    <3>1. /\ Len(got'[Len(got) + 1].bytes) = Len(sent'[h].body)
          /\ Len(got'[Len(got) + 1].bytes) <= avg_blocksize'
               => got'[Len(got) + 1].bytes = sent'[h].body
      <4>1. Len(got) + 1 \in DOMAIN got' /\ got'[Len(got) + 1].from = h
        BY <1>4, <1>5, Typed, LenProperties
      <4> QED
        BY <2>2, <4>1 DEF IInv, PacketsAreDatagrams
    <3>2. sent' = sent /\ avg_blocksize' = avg_blocksize
      BY <1>1 DEF clientVars
    <3>3. Len(q.bytes) <= avg_blocksize
      BY <1>5, <2>1, <2>3, <2>5, <3>1, <3>2, Typed
    <3> QED
      BY <1>5, <3>1, <3>2, <3>3
  <2> QED
    BY <1>6, <2>1, <2>2, <2>3, <2>4, <2>6
<1> QED
  BY <1>1, <1>2, <1>3, <1>5, <1>6, <1>7, Typed

(* So the stream stays the file's beginning. *)
LEMMA ReceiveTransfers == IInv /\ IInv' /\ TransferInv /\ Receive => TransferInv'
<1> SUFFICES ASSUME IInv, IInv', TransferInv, Receive PROVE TransferInv'
  OBVIOUS
<1>1. clientVars' = clientVars /\ (Faulty' <=> Faulty) /\ Len(got') = Len(got) + 1
  BY TakesNext
<1>2. Blocks' /\ Pieces' /\ TooLong'
  BY <1>1, StillSent DEF TransferInv
<1>3. Progress'
  <2> SUFFICES ASSUME ~Faulty
               PROVE  /\ Len(sent) = Len(got') + Len(net')
                      /\ \A j \in 1 .. Len(net') : net'[j] = Len(got') + j
                      /\ Stream' = Upto(Offset(Len(got) + 1))
    BY <1>1 DEF Progress, clientVars, Upto, Offset
  <2>1. /\ Len(sent) = Len(got) + Len(net)
        /\ \A j \in 1 .. Len(net) : net[j] = Len(got) + j
        /\ Stream = Upto(Offset(Len(got)))
    BY DEF TransferInv, Progress
  <2>2. /\ Len(net) >= 1 /\ Len(net') = Len(net) - 1
        /\ \A j \in 1 .. Len(net') : net'[j] = net[j + 1]
        /\ Stream' = Stream \o Piece(Len(got) + 1)
    BY TakesNext
  <2>3. ASSUME NEW j \in 1 .. Len(net') PROVE net'[j] = Len(got') + j
    <3>1. Len(got) \in Nat /\ Len(net) \in Nat
      BY Typed
    <3>2. j \in Nat /\ j + 1 \in 1 .. Len(net)
      BY <2>2, <3>1
    <3>3. net'[j] = Len(got) + (j + 1)
      BY <2>1, <2>2, <3>2
    <3> QED
      BY <1>1, <3>1, <3>2, <3>3
  <2>4. /\ Offset(Len(got)) \in Nat /\ Offset(Len(got) + 1) \in Nat
        /\ Offset(Len(got)) <= Offset(Len(got) + 1) /\ (Len(got) + 1) - 1 = Len(got)
    BY Offsets, Typed
  <2>5. Stream' = Upto(Offset(Len(got) + 1))
    BY <2>1, <2>2, <2>4, PieceFollows DEF Piece
  <2>6. Len(sent) = Len(got') + Len(net')
    BY <1>1, <2>1, <2>2, Typed
  <2> QED
    BY <2>3, <2>5, <2>6
<1> QED
  BY <1>2, <1>3 DEF TransferInv

(* What is taken is put behind what was, so that this stays a prefix. *)
LEMMA PrefixStays ==
  ASSUME NEW S, NEW s \in Seq(S), NEW t \in Seq(S)
  PROVE  IsPrefix(s, s \o t)
<1> DEFINE u == s \o t
<1>1. /\ Len(s) \in Nat /\ Len(t) \in Nat /\ Len(u) = Len(s) + Len(t) /\ u \in Seq(S)
      /\ \A k \in 1 .. Len(s) : u[k] = s[k]
  BY ConcatProperties, LenProperties
<1>2. SubSeq(u, 1, Len(s)) = s
  <2> DEFINE v == SubSeq(u, 1, Len(s))
  <2>1. v \in Seq(S) /\ Len(v) = Len(s) /\ \A k \in 1 .. Len(s) : v[k] = u[k]
    <3>1. \A k \in 1 .. Len(s) : u[k] \in S
      BY <1>1, ElementOfSeq
    <3> HIDE DEF u
    <3> QED
      BY <1>1, <3>1, SubSeqProperties
  <2> HIDE DEF u, v
  <2> QED
    BY <1>1, <2>1, SeqEqual DEF v
<1>3. SubSeq(s, 1, Len(s)) = s
  <2> DEFINE v == SubSeq(s, 1, Len(s))
  <2>1. v \in Seq(S) /\ Len(v) = Len(s) /\ \A k \in 1 .. Len(s) : v[k] = s[k]
    <3>1. \A k \in 1 .. Len(s) : s[k] \in S
      BY <1>1, ElementOfSeq
    <3> QED
      BY <1>1, <3>1, SubSeqProperties
  <2> HIDE DEF v
  <2> QED
    BY <1>1, <2>1, SeqEqual DEF v
<1> HIDE DEF u
<1> QED
  BY <1>1, <1>2, <1>3 DEF IsPrefix, u

(* A piece of the file, as the file has it. *)
LEMMA PieceOfFile ==
  ASSUME NEW N \in Nat, NEW a \in 0 .. N, NEW b \in 0 .. N, a < b
  PROVE  SubSeq(Upto(N), a + 1, a + (b - a)) = Between(a, b)
<1> DEFINE f == Upto(N)
           v == SubSeq(f, a + 1, b)
           w == Between(a, b)
<1>1. f \in Seq(Int) /\ Len(f) = N /\ \A k \in 1 .. N : f[k] = k - 1
  BY DEF Upto
<1>2. w \in Seq(Int) /\ Len(w) = b - a /\ \A k \in 1 .. b - a : w[k] = a + k - 1
  <2>1. b - a \in Nat
    OBVIOUS
  <2> QED
    BY <2>1 DEF Between
<1> HIDE DEF f, w
<1>3. /\ v \in Seq(Int) /\ Len(v) = b - a
      /\ \A k \in 1 .. b - a : v[k] = f[(a + 1) + k - 1]
  <2>1. \A k \in a + 1 .. b : f[k] \in Int
    BY <1>1
  <2>2. /\ v \in Seq(Int) /\ Len(v) = IF a + 1 <= b THEN b - (a + 1) + 1 ELSE 0
        /\ \A k \in 1 .. b - (a + 1) + 1 : v[k] = f[(a + 1) + k - 1]
    BY <1>1, <2>1, SubSeqProperties
  <2>3. b - (a + 1) + 1 = b - a /\ a + 1 <= b
    OBVIOUS
  <2> HIDE DEF v
  <2> QED
    BY <2>2, <2>3
<1>4. ASSUME NEW k \in 1 .. b - a PROVE v[k] = w[k]
  <2>1. (a + 1) + k - 1 \in 1 .. N
    OBVIOUS
  <2> HIDE DEF v
  <2> QED
    BY <1>1, <1>2, <1>3, <2>1
<1> HIDE DEF v
<1>5. v = w
  BY <1>2, <1>3, <1>4, SeqEqual
<1>6. a + (b - a) = b
  OBVIOUS
<1> QED
  BY <1>5, <1>6 DEF v, w, f

(* What main() takes after a failed get_packet() is put behind the rest, too.     *)
LEMMA FailsTakes ==
  ASSUME IInv, ReceiveFails
  PROVE  ~done /\ \E bytes \in Seq(Int) : Stream \in Seq(Int) /\ Stream' = Stream \o bytes
<1> DEFINE p == Taken(input[Slot], 0)
<1>1. ~done /\ got' = Append(got, p)
  BY DEF ReceiveFails, Decode
<1>2. input[Slot] \in [header : Header, body : [1 .. MAX_BLOCKSIZE -> Int]]
  BY SlotOfNext DEF IInv, TypeOK
<1>3. p \in Packet
  BY <1>2, TakenIsPacket
<1> HIDE DEF p
<1>4. Stream \in Seq(Int) /\ Stream' = Stream \o p.bytes /\ p.bytes \in Seq(Int)
  BY <1>1, <1>3, StreamGrows DEF Packet
<1> QED
  BY <1>1, <1>4

-----------------------------------------------------------------------------
(* Theorems *)

(* The invariant holds, whatever the sizes and however often the network or     *)
(* recvfrom() fails.                                                          *)
THEOREM Invariance == Spec => []IInv
<1>1. ASSUME IInv, UNCHANGED vars PROVE IInv'
  BY <1>1
  DEF vars, clientVars, netVars, mainVars, IInv, TypeOK, Headers, Origins, Ring, NothingVanishes,
      InOrder, PacketsAreDatagrams, Ends, EndsWithLast, IsLast, remainder, Unused, OnItsWay,
      Took, Fresh
<1>2. IInv /\ [Next]_vars => IInv'
  BY <1>1, ClientStep, LoseStep, OvertakeStep, DuplicateStep, ReceiveStep, ReceiveFailsStep
  DEF Next, Network
<1> QED
  BY Initially, <1>2, PTL DEF Spec

(* Every packet main() takes after a successful get_packet() has one datagram's  *)
(* length, and none but its bytes if the encoder's block is long enough.         *)
THEOREM TakesDatagrams == Spec => []PacketsAreDatagrams
<1>1. IInv => PacketsAreDatagrams
  BY DEF IInv
<1> QED
  BY <1>1, Invariance, PTL

(* main()'s loop ends with the client's last datagram and with nothing missing   *)
(* that was not lost, or after a failed receive into a slot never received in.   *)
THEOREM LoopEndsWithLast == Spec => []EndsWithLast
<1>1. IInv => EndsWithLast
  BY DEF IInv, Ends
<1> QED
  BY <1>1, Invariance, PTL

(* A file of at least a block is sent piece by piece, a shorter one with a block   *)
(* too much; and until a fault main() has taken the file's beginning.           *)
THEOREM TransferInvariance == Spec => []TransferInv
<1>1. IInv /\ TransferInv /\ UNCHANGED vars => TransferInv'
  <2> SUFFICES ASSUME TransferInv, UNCHANGED vars PROVE TransferInv'
    OBVIOUS
  <2>1. Blocks' /\ Pieces' /\ TooLong'
    BY StillSent DEF vars, TransferInv
  <2>2. Progress'
    BY DEF vars, clientVars, netVars, mainVars, TransferInv, Progress, Faulty, FaultsSoFar, Stream,
           Upto, Offset
  <2> QED
    BY <2>1, <2>2 DEF TransferInv
<1>2. IInv /\ IInv' /\ TransferInv /\ [Next]_vars => TransferInv'
  BY <1>1, ClientTransfers, WrongTransfers, ReceiveTransfers DEF Next
<1> QED
  BY TransferInitially, <1>2, Invariance, PTL DEF Spec

(* The client sends the file, byte for byte, exactly when the file is at least a    *)
(* block long.                                                               *)
THEOREM ClientSendsFile == Spec => []SentIsFile
<1>1. IInv /\ TransferInv => SentIsFile
  <2> SUFFICES ASSUME IInv, TransferInv, client = "closed"
               PROVE  SentBytes = FileBytes <=> file_size >= blocksize
    BY DEF SentIsFile
  <2>1. /\ Len(sent) \in Nat /\ Len(sent) \in 1 .. Len(sent) /\ IsLast(Len(sent))
        /\ file_size \in Nat /\ blocksize \in Nat
    BY Typed, EmptySeq, Sizes DEF IInv, Headers, IsLast
  <2>2. FileBytes = Upto(file_size) /\ Len(FileBytes) = file_size
    BY <2>1 DEF FileBytes, Upto
  <2>3. CASE file_size >= blocksize
    <3>1. Offset(Len(sent)) = file_size /\ SentBytes = Upto(Offset(Len(sent)))
      BY <2>1, <2>3 DEF TransferInv, Pieces
    <3> QED
      BY <2>2, <2>3, <3>1
  <2>4. CASE ~(file_size >= blocksize)
    <3>1. Len(SentBytes) > file_size
      BY <2>1, <2>4 DEF TransferInv, TooLong
    <3> QED
      BY <2>1, <2>2, <2>4, <3>1
  <2> QED
    BY <2>3, <2>4
<1> QED
  BY <1>1, Invariance, TransferInvariance, PTL

(* Client, network and get_packet() implement the transfer: a receive is its Take *)
(* until something goes wrong, the client's steps leave it alone, and what goes  *)
(* wrong is its Fault, or its TakeAnything if main() takes a packet then.        *)
THEOREM TransportImplementsTransfer == Spec => ImplementsTransfer
<1>1. Init => Transfer!Init
  <2> SUFFICES ASSUME Init PROVE Transfer!Init
    OBVIOUS
  <2>1. got = << >> /\ done = FALSE
    BY DEF Init
  <2>2. [k \in DOMAIN got |-> got[k].bytes] = << >> /\ FlattenSeq(<< >>) = << >>
    BY <2>1 DEF FlattenSeq
  <2>3. Stream = << >>
    BY <2>2 DEF Stream
  <2> QED
    BY <2>1, <2>3 DEF Transfer!Init, Faulty
<1>2. ASSUME IInv, IInv', TransferInv, TransferInv', Client
      PROVE  UNCHANGED Transfer!vars
  <2>1. /\ got' = got /\ done' = done /\ faults' = faults /\ avg_blocksize' = avg_blocksize
        /\ file_size' = file_size /\ blocksize' = blocksize
    BY <1>2 DEF Client, SendBlock, SendLastBlock, SendRemainder, mainVars
  <2>2. Stream' = Stream /\ FileBytes' = FileBytes
    BY <2>1 DEF Stream, FileBytes
  <2>3. Faulty' = Faulty
    BY <2>1 DEF Faulty, FaultsSoFar
  <2> QED
    BY <2>1, <2>2, <2>3 DEF Transfer!vars
<1>3. ASSUME IInv, IInv', TransferInv, TransferInv', Network
      PROVE  Transfer!Fault
  <2>1. Faulty' /\ clientVars' = clientVars
    BY <1>3, WrongTransfers
  <2>2. got' = got /\ done' = done
    BY <1>3 DEF Network, Lose, Overtake, Duplicate, mainVars
  <2>3. Stream' = Stream /\ FileBytes' = FileBytes
    BY <2>1, <2>2 DEF Stream, FileBytes, clientVars
  <2>4. Faulty' = TRUE
    BY <2>1 DEF Faulty
  <2> QED
    BY <2>2, <2>3, <2>4 DEF Transfer!Fault
<1>4. ASSUME IInv, IInv', TransferInv, TransferInv', ReceiveFails
      PROVE  Transfer!TakeAnything
  <2>1. Faulty' /\ clientVars' = clientVars
    BY <1>4, WrongTransfers
  <2>2. PICK bytes \in Seq(Int) : Stream \in Seq(Int) /\ Stream' = Stream \o bytes
    BY <1>4, FailsTakes
  <2>3. IsPrefix(Stream, Stream')
    BY <2>2, PrefixStays
  <2>4. FileBytes' = FileBytes /\ done' \in BOOLEAN /\ ~done
    BY <1>4, <2>1, FailsTakes DEF FileBytes, clientVars, IInv, TypeOK
  <2> QED
    BY <2>1, <2>3, <2>4 DEF Transfer!TakeAnything, Transfer!IsPrefix, IsPrefix
<1>5. ASSUME IInv, IInv', TransferInv, TransferInv', Receive
      PROVE  Transfer!Take \/ Transfer!TakeAnything
  <2>1. /\ clientVars' = clientVars /\ (Faulty' <=> Faulty) /\ ~done
        /\ file_size' = file_size /\ blocksize' = blocksize /\ client' = client /\ sent' = sent
    BY <1>5, TakesNext DEF Receive, clientVars
  <2>2. PICK bytes \in Seq(Int) : Stream \in Seq(Int) /\ Stream' = Stream \o bytes
    BY <1>5, TakesNext
  <2>3. FileBytes' = FileBytes /\ done' \in BOOLEAN
    BY <1>5, <2>1 DEF FileBytes, IInv, TypeOK
  <2>4. CASE Faulty
    <3>1. IsPrefix(Stream, Stream')
      BY <2>2, PrefixStays
    <3> QED
      BY <2>1, <2>3, <2>4, <3>1 DEF Transfer!TakeAnything, Transfer!IsPrefix, IsPrefix
  <2>5. CASE ~Faulty
    <3> DEFINE m == Len(got)
               a == Offset(m)
               b == Offset(m + 1)
    <3>1. /\ m + 1 \in 1 .. Len(sent) /\ (done' <=> IsLast(m + 1))
          /\ Stream' = Stream \o Piece(m + 1) /\ Len(got') = m + 1 /\ m \in Nat /\ (m + 1) - 1 = m
      <4>1. m \in Nat /\ (m + 1) - 1 = m
        BY <1>5, Typed
      <4> QED
        BY <1>5, <2>5, <4>1, TakesNext
    <3>2. /\ a \in 0 .. file_size /\ b \in 0 .. file_size /\ a < b /\ file_size \in Nat
          /\ b = file_size <=> IsLast(m + 1)
      <4>1. a \in 0 .. file_size /\ b \in 0 .. file_size /\ file_size \in Nat
        BY <1>5, <3>1, Offsets, Typed
      <4>2. file_size >= blocksize
        <5>1. blocksize \in Nat
          BY <1>5, Typed, Sizes
        <5> QED
          BY <2>5, <4>1, <5>1 DEF Faulty
      <4>3. Offset((m + 1) - 1) < b /\ (b = file_size <=> IsLast(m + 1))
        BY <1>5, <3>1, <4>2 DEF TransferInv, Pieces
      <4> QED
        BY <3>1, <4>1, <4>3
    <3>3. Stream = Upto(a) /\ Stream' = Upto(b)
      <4>1. Stream = Upto(a)
        BY <1>5, <2>5 DEF TransferInv, Progress
      <4>2. Stream' = Upto(a) \o Between(a, b)
        BY <3>1, <4>1 DEF Piece
      <4>3. a \in Nat /\ b \in Nat /\ a <= b
        BY <3>2
      <4> HIDE DEF a, b
      <4> QED
        BY <4>1, <4>2, <4>3, PieceFollows
    <3>4. FileBytes = Upto(file_size)
      BY DEF FileBytes, Upto
    <3>5. Piece(m + 1) = Between(a, b)
      BY <3>1 DEF Piece
    <3> HIDE DEF a, b, m
    <3>6. Len(Stream) = a /\ Len(FileBytes) = file_size
      BY <3>2, <3>3, <3>4, PieceFollows
    <3>7. b - a \in 1 .. Len(FileBytes) - Len(Stream)
      BY <3>2, <3>6
    <3>8. Stream' = Stream \o SubSeq(FileBytes, Len(Stream) + 1, Len(Stream) + (b - a))
      BY <3>1, <3>2, <3>4, <3>5, <3>6, PieceOfFile
    <3>9. done' <=> Stream' = FileBytes
      <4>1. \A x \in Nat : Len(Upto(x)) = x
        BY PieceFollows
      <4>2. b \in Nat /\ Len(Upto(b)) = b /\ Len(Upto(file_size)) = file_size
        BY <3>2, <4>1
      <4> QED
        BY <3>1, <3>2, <3>3, <3>4, <4>2
    <3>10. done' = (Stream' = FileBytes)
      BY <2>3, <3>9
    <3>11. Faulty' = Faulty
      BY <2>1 DEF Faulty
    <3> QED
      BY <2>1, <2>3, <2>5, <3>7, <3>8, <3>10, <3>11 DEF Transfer!Take
  <2> QED
    BY <2>4, <2>5
<1>6. ASSUME UNCHANGED vars PROVE UNCHANGED Transfer!vars
  BY <1>6 DEF vars, clientVars, netVars, mainVars, Transfer!vars, Stream, FileBytes, Faulty, FaultsSoFar
<1>7. IInv /\ IInv' /\ TransferInv /\ TransferInv' /\ [Next]_vars => [Transfer!Next]_(Transfer!vars)
  BY <1>2, <1>3, <1>4, <1>5, <1>6 DEF Next, Transfer!Next
<1> QED
  BY <1>1, <1>7, Invariance, TransferInvariance, PTL DEF Spec, ImplementsTransfer, Transfer!Spec

=============================================================================
