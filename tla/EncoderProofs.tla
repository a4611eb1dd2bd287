---------------------------- MODULE EncoderProofs ----------------------------
(***************************************************************************)
(* Proofs about the encoder's pipeline, for every ring size and every       *)
(* number of datagrams and receive errors.                                  *)
(***************************************************************************)
EXTENDS Encoder, Basics, TLAPS

USE NumPacketsAssumption, MaxPacketsAssumption, MaxErrorsAssumption, IntMaxAssumption

-----------------------------------------------------------------------------
(* Operators of the model *)

(* Every stage reads some field, and no stage reads one that does not exist. *)
LEMMA ReadsFields ==
  ASSUME NEW s \in Stages
  PROVE  Reads[s] \subseteq Fields /\ Reads[s] # {} /\ "input" \in Fields /\ "size" \in Fields
         /\ (s # "lzw" => Writes[s] \in Fields)
  BY DEF Stages, Reads, Fields, Writes

(* What is computed from data of a single origin has that origin. *)
LEMMA SameOrigin ==
  ASSUME NEW S, S # {}, NEW v, \A x \in S : x = v
  PROVE  Origin(S) = v
  BY DEF Origin

(* The slot of a stage is a slot, and what it sees there is an origin. *)
LEMMA SeenType ==
  ASSUME TypeOK, NEW s \in Stages
  PROVE  Slot(s) \in Slots /\ Seen(s) \in Origins
<1>1. Slot(s) \in Slots
  <2>1. count[s] \in Nat
    BY DEF TypeOK
  <2> QED
    BY <2>1, DivMod DEF Slot, Slots
<1>2. \A f \in Reads[s] : buf[f][Slot(s)] \in Origins
  BY <1>1, ReadsFields DEF TypeOK
<1> DEFINE S == {buf[f][Slot(s)] : f \in Reads[s]}
<1>3. \A x \in S : x \in Origins
  BY <1>2
<1>4. S # {}
  BY ReadsFields
<1>5. Origin(S) \in Origins
  BY <1>3, <1>4 DEF Origin, Origins
<1> QED
  BY <1>1, <1>5 DEF Seen

(* Storing an origin in one field of one slot changes that and nothing else. *)
LEMMA BufUpdate ==
  ASSUME NEW b \in [Fields -> [Slots -> Origins]],
         NEW f \in Fields, NEW i \in Slots, NEW v \in Origins,
         NEW c, c = [b EXCEPT ![f][i] = v]
  PROVE  /\ c \in [Fields -> [Slots -> Origins]]
         /\ c[f][i] = v
         /\ \A g \in Fields, j \in Slots : g # f \/ j # i => c[g][j] = b[g][j]
  OBVIOUS

(* Appending an origin to a history. *)
LEMMA HistoryAppend ==
  ASSUME NEW h \in Seq(Origins), NEW v \in Origins, NEW k, k = Append(h, v)
  PROVE  /\ k \in Seq(Origins)
         /\ Len(k) = Len(h) + 1
         /\ k[Len(h) + 1] = v
         /\ \A i \in 1 .. Len(h) : k[i] = h[i]
  OBVIOUS

(* The order of the threads round the ring: main() is ahead of cdc, cdc of     *)
(* sha, and so on to lzw, and main() less than a ring ahead of lzw.            *)
LEMMA RingOrder ==
  ASSUME TypeOK, Accounting
  PROVE  /\ \A s \in Stages : /\ Posted(s) \in Nat /\ Worked(s) \in Nat /\ Taken(s) \in Nat
                              /\ count[s] <= Posted(s) /\ Posted(s) <= Worked(s)
                              /\ Worked(s) <= Taken(s) /\ Taken(s) <= count[s] + 1
         /\ Taken("cdc") <= sent
         /\ Taken("sha") <= Posted("cdc")
         /\ Taken("dedup") <= Posted("sha")
         /\ Taken("lzw") <= Posted("dedup")
         /\ sent <= Filled /\ Filled <= Received /\ Received <= MainTaken
         /\ MainTaken <= NUM_PACKETS + Posted("lzw")
         /\ {sent, Filled, Received, MainTaken} \subseteq Nat
<1>1. \A s \in Stages : count[s] \in Nat
  BY DEF TypeOK
<1>2. \A s \in Sems : sems[s] \in Nat
  BY DEF TypeOK
<1>3. sent \in Nat
  BY DEF TypeOK
<1>4. \A s \in Stages : /\ Posted(s) \in Nat /\ Worked(s) \in Nat /\ Taken(s) \in Nat
                        /\ count[s] <= Posted(s) /\ Posted(s) <= Worked(s)
                        /\ Worked(s) <= Taken(s) /\ Taken(s) <= count[s] + 1
  BY <1>1 DEF Posted, Worked, Taken
<1>5. /\ sent <= Filled /\ Filled <= Received /\ Received <= MainTaken
      /\ {sent, Filled, Received, MainTaken} \subseteq Nat
  BY <1>3 DEF Filled, Received, MainTaken
<1>6. {"cdc", "sha", "dedup", "lzw"} = Stages /\ Stages \subseteq Sems /\ "getpacket" \in Sems
  BY DEF Stages, Sems
<1> QED
  BY <1>2, <1>3, <1>4, <1>5, <1>6 DEF Accounting

(* Two packets that the ring holds at once are in different slots. *)
LEMMA DistinctSlots ==
  ASSUME TypeOK, Accounting,
         NEW p \in Posted("lzw") .. Received, NEW q \in Posted("lzw") .. Received,
         p # q, q < MainTaken, p < MainTaken
  PROVE  p % NUM_PACKETS # q % NUM_PACKETS
<1>1. p \in Nat /\ q \in Nat /\ Posted("lzw") \in Nat /\ MainTaken \in Nat
      /\ MainTaken <= NUM_PACKETS + Posted("lzw")
  BY RingOrder DEF Stages
<1>2. CASE p < q
  BY <1>1, <1>2, ModInjective
<1>3. CASE q < p
  BY <1>1, <1>3, ModInjective
<1> QED
  BY <1>1, <1>2, <1>3

-----------------------------------------------------------------------------
(* The invariant holds initially *)

LEMMA InitIInv == Init => IInv
<1> SUFFICES ASSUME Init PROVE IInv
  OBVIOUS
<1> USE DEF Init
<1>1. TypeOK
  <2>1. sems \in [Sems -> Nat]
    BY DEF InitialSems, Sems, Stages
  <2>2. buf \in [Fields -> [Slots -> Origins]]
    BY DEF Origins
  <2>3. stage \in [Stages -> StageStates] /\ count \in [Stages -> Nat]
    BY DEF StageStates
  <2>4. got \in Seq(Origins) /\ delivered \in Seq(Origins)
    OBVIOUS
  <2>5. /\ main \in {"wait", "recv", "fill", "post", "total", "join", "exit"}
        /\ writer \in 0 .. NUM_PACKETS
        /\ main \in {"recv", "fill", "post"} => writer \in Slots
        /\ sent \in Nat
        /\ errors \in 0 .. MaxRecvErrors /\ datagrams \in 0 .. MaxPackets
        /\ total_packets \in Nat
    OBVIOUS
  <2>6. done \in BOOLEAN
    OBVIOUS
  <2> HIDE DEF Init
  <2> QED
    BY <2>1, <2>2, <2>3, <2>4, <2>5, <2>6 DEF TypeOK
<1>2. Accounting
  BY DEF Accounting, InitialSems, Sems, Stages, Taken, Posted, MainTaken
<1>3. RingIndex
  BY DEF RingIndex
<1>4. History
  BY DEF History, Received, Worked, Stages
<1>5. Contents
  BY DEF Contents, Fields, Upto, Posted, Worked, Received, Filled, Stages
<1>6. Ending
  BY DEF Ending, Stages
<1>7. InOrderDelivery
  BY DEF InOrderDelivery
<1> QED
  BY <1>1, <1>2, <1>3, <1>4, <1>5, <1>6, <1>7 DEF IInv

-----------------------------------------------------------------------------
(* Every step preserves it, conjunct by conjunct *)

LEMMA NextTypeOK == IInv /\ [Next]_vars => TypeOK'
<1> SUFFICES ASSUME TypeOK, Ending, [Next]_vars PROVE TypeOK'
  BY DEF IInv
<1> USE DEF TypeOK
<1>1. CASE AwaitSlot
  <2>1. Wrap(writer) \in Slots
    BY DEF Wrap, Slots
  <2>2. sems' \in [Sems -> Nat]
    BY <1>1 DEF AwaitSlot, Sems
  <2> QED
    BY <1>1, <2>1, <2>2 DEF AwaitSlot, Slots
<1>2. CASE GetPacket
  <2>1. datagrams \in Origins /\ "input" \in Fields /\ writer \in Slots
    BY <1>2 DEF GetPacket, Fields, Origins
  <2>2. buf' \in [Fields -> [Slots -> Origins]]
    <3>1. buf' = [buf EXCEPT !["input"][writer] = datagrams]
      BY <1>2 DEF GetPacket
    <3> QED
      BY <2>1, <3>1, BufUpdate
  <2>3. got' \in Seq(Origins)
    <3>1. got' = Append(got, datagrams)
      BY <1>2 DEF GetPacket
    <3> QED
      BY <2>1, <3>1, HistoryAppend
  <2> QED
    BY <1>2, <2>1, <2>2, <2>3 DEF GetPacket
<1>3. CASE GetPacketFails
  <2>1. buf["input"][writer] \in Origins
    BY <1>3 DEF GetPacketFails, Fields
  <2>2. got' \in Seq(Origins)
    <3>1. got' = Append(got, buf["input"][writer])
      BY <1>3 DEF GetPacketFails
    <3> QED
      BY <2>1, <3>1, HistoryAppend
  <2>3. done' \in BOOLEAN
    BY <1>3 DEF GetPacketFails
  <2> QED
    BY <1>3, <2>2, <2>3 DEF GetPacketFails
<1>4. CASE FillPacket
  <2>1. buf["input"][writer] \in Origins /\ "size" \in Fields /\ writer \in Slots
    BY <1>4 DEF FillPacket, Fields
  <2>2. buf' \in [Fields -> [Slots -> Origins]]
    <3>1. buf' = [buf EXCEPT !["size"][writer] = buf["input"][writer]]
      BY <1>4 DEF FillPacket
    <3> QED
      BY <2>1, <3>1, BufUpdate
  <2>3. stage' \in [Stages -> StageStates]
    BY <1>4 DEF FillPacket, StageStates
  <2> QED
    BY <1>4, <2>1, <2>2, <2>3 DEF FillPacket
<1>5. CASE PostPacket
  <2>1. sems' \in [Sems -> Nat]
    BY <1>5 DEF PostPacket, Sems, Stages
  <2>2. writer' \in 0 .. NUM_PACKETS
    BY <1>5 DEF PostPacket, Slots
  <2> QED
    BY <1>5, <2>1, <2>2 DEF PostPacket
<1>6. CASE SetTotal
  <2>1. total_packets' \in Nat
    BY <1>6 DEF SetTotal, LastPacket, Ending
  <2> QED
    BY <1>6, <2>1 DEF SetTotal
<1>7. CASE JoinAndWrite
  BY <1>7 DEF JoinAndWrite
<1>8. ASSUME NEW s \in Stages, Await(s) PROVE TypeOK'
  <2>1. sems' \in [Sems -> Nat]
    BY <1>8 DEF Await, Sems
  <2>2. stage' \in [Stages -> StageStates]
    BY <1>8 DEF Await, StageStates
  <2> QED
    BY <1>8, <2>1, <2>2 DEF Await, mainVars
<1>9. ASSUME NEW s \in Stages, Work(s) PROVE TypeOK'
  <2> HIDE DEF TypeOK
  <2>1. Slot(s) \in Slots /\ Seen(s) \in Origins
    BY SeenType
  <2>2. s # "lzw" => Writes[s] \in Fields
    BY ReadsFields
  <2>3. stage' \in [Stages -> StageStates]
    BY <1>9 DEF Work, StageStates, TypeOK
  <2>4. delivered' \in Seq(Origins)
    <3>1. delivered' = delivered \/ delivered' = Append(delivered, Seen(s))
      BY <1>9 DEF Work
    <3>2. delivered \in Seq(Origins)
      BY DEF TypeOK
    <3> QED
      BY <2>1, <3>1, <3>2, HistoryAppend
  <2>5. buf' \in [Fields -> [Slots -> Origins]]
    <3>1. buf \in [Fields -> [Slots -> Origins]]
      BY DEF TypeOK
    <3>2. CASE s = "lzw"
      BY <1>9, <3>1, <3>2 DEF Work
    <3>3. CASE s # "lzw"
      <4>1. buf' = [buf EXCEPT ![Writes[s]][Slot(s)] = Seen(s)]
        BY <1>9, <3>3 DEF Work
      <4> QED
        BY <2>1, <2>2, <3>1, <3>3, <4>1, BufUpdate
    <3> QED
      BY <3>2, <3>3
  <2> QED
    BY <1>9, <2>3, <2>4, <2>5 DEF Work, mainVars, TypeOK
<1>10. ASSUME NEW s \in Stages, Post(s) PROVE TypeOK'
  <2>1. Posts[s] \in Sems
    BY DEF Posts, Sems, Stages
  <2>2. sems' \in [Sems -> Nat]
    BY <1>10, <2>1 DEF Post
  <2>3. stage' \in [Stages -> StageStates]
    BY <1>10 DEF Post, StageStates
  <2> QED
    BY <1>10, <2>2, <2>3 DEF Post, mainVars
<1>11. ASSUME NEW s \in Stages, CheckTotal(s) PROVE TypeOK'
  <2>1. count' \in [Stages -> Nat]
    <3>1. count' = count \/ count' = [count EXCEPT ![s] = @ + 1]
      BY <1>11 DEF CheckTotal
    <3> QED
      BY <3>1
  <2>2. stage' \in [Stages -> StageStates]
    BY <1>11 DEF CheckTotal, StageStates
  <2> QED
    BY <1>11, <2>1, <2>2 DEF CheckTotal, mainVars
<1>12. CASE UNCHANGED vars
  BY <1>12 DEF vars, mainVars
<1> QED
  BY <1>1, <1>2, <1>3, <1>4, <1>5, <1>6, <1>7, <1>8, <1>9, <1>10, <1>11, <1>12
     DEF Next, Main, Stage

LEMMA NextAccounting == IInv /\ [Next]_vars => Accounting'
<1> SUFFICES ASSUME TypeOK, Accounting, Ending, [Next]_vars PROVE Accounting'
  BY DEF IInv
<1> USE DEF Accounting, Taken, Posted, MainTaken
<1>0. /\ sems \in [Sems -> Nat] /\ count \in [Stages -> Nat] /\ sent \in Nat
      /\ stage \in [Stages -> StageStates]
  BY DEF TypeOK
<1>1. CASE AwaitSlot
  <2>1. /\ sems'["getpacket"] = sems["getpacket"] - 1
        /\ \A s \in Stages : sems'[s] = sems[s]
    BY <1>0, <1>1 DEF AwaitSlot, Sems, Stages
  <2>2. MainTaken' = MainTaken + 1
    BY <1>0, <1>1 DEF AwaitSlot
  <2>3. \A s \in Stages : Taken(s)' = Taken(s) /\ Posted(s)' = Posted(s)
    BY <1>1 DEF AwaitSlot
  <2>4. MainTaken \in Nat /\ Posted("lzw") \in Nat /\ sent' = sent
    BY <1>0, <1>1 DEF Stages, AwaitSlot
  <2> HIDE DEF Taken, Posted, MainTaken
  <2> QED
    BY <1>0, <2>1, <2>2, <2>3, <2>4 DEF Stages, Sems
<1>2. CASE GetPacket
  BY <1>0, <1>2 DEF GetPacket
<1>3. CASE GetPacketFails
  BY <1>0, <1>3 DEF GetPacketFails
<1>4. CASE FillPacket
  <2>1. \A s \in Stages : Taken(s)' = Taken(s) /\ Posted(s)' = Posted(s)
    <3>1. CASE sent = 0
      <4>1. \A s \in Stages : stage[s] = "unborn" /\ stage'[s] = "wait"
        BY <1>4, <3>1 DEF FillPacket, Ending
      <4> QED
        BY <1>4, <4>1 DEF FillPacket
    <3>2. CASE sent # 0
      BY <1>4, <3>2 DEF FillPacket
    <3> QED
      BY <3>1, <3>2
  <2>2. MainTaken' = MainTaken /\ sent' = sent /\ sems' = sems
    BY <1>4 DEF FillPacket
  <2> HIDE DEF Taken, Posted, MainTaken
  <2> QED
    BY <2>1, <2>2 DEF Stages
<1>5. CASE PostPacket
  <2>1. /\ sems'["cdc"] = sems["cdc"] + 1
        /\ \A s \in Sems : s # "cdc" => sems'[s] = sems[s]
    BY <1>0, <1>5 DEF PostPacket, Sems, Stages
  <2>2. MainTaken' = MainTaken /\ sent' = sent + 1
    BY <1>0, <1>5 DEF PostPacket
  <2>3. \A s \in Stages : Taken(s)' = Taken(s) /\ Posted(s)' = Posted(s)
    BY <1>5 DEF PostPacket
  <2>4. \A s \in Stages : Taken(s) \in Nat
    BY <1>0
  <2> HIDE DEF Taken, Posted, MainTaken
  <2> QED
    BY <1>0, <2>1, <2>2, <2>3, <2>4 DEF Stages, Sems
<1>6. CASE SetTotal
  BY <1>0, <1>6 DEF SetTotal
<1>7. CASE JoinAndWrite
  BY <1>0, <1>7 DEF JoinAndWrite
<1>8. ASSUME NEW s \in Stages, Await(s) PROVE Accounting'
  BY <1>0, <1>8 DEF Await, mainVars, Sems, Stages
<1>9. ASSUME NEW s \in Stages, Work(s) PROVE Accounting'
  BY <1>0, <1>9 DEF Work, mainVars, Stages
<1>10. ASSUME NEW s \in Stages, Post(s) PROVE Accounting'
  BY <1>0, <1>10 DEF Post, Posts, mainVars, Sems, Stages
<1>11. ASSUME NEW s \in Stages, CheckTotal(s) PROVE Accounting'
  BY <1>0, <1>11 DEF CheckTotal, mainVars, Stages
<1>12. CASE UNCHANGED vars
  BY <1>12 DEF vars, mainVars
<1> QED
  BY <1>1, <1>2, <1>3, <1>4, <1>5, <1>6, <1>7, <1>8, <1>9, <1>10, <1>11, <1>12
     DEF Next, Main, Stage

LEMMA NextRingIndex == IInv /\ [Next]_vars => RingIndex'
<1> SUFFICES ASSUME TypeOK, RingIndex, [Next]_vars PROVE RingIndex'
  BY DEF IInv
<1> USE DEF RingIndex
<1>0. writer \in 0 .. NUM_PACKETS /\ sent \in Nat
  BY DEF TypeOK
<1>1. CASE AwaitSlot
  <2>1. Wrap(writer) < NUM_PACKETS
    BY <1>0 DEF Wrap
  <2>2. Wrap(writer) % NUM_PACKETS = writer % NUM_PACKETS
    <3>1. CASE writer = NUM_PACKETS
      <4>1. Wrap(writer) = 0 /\ 0 \in 0 .. NUM_PACKETS - 1
        BY <3>1 DEF Wrap
      <4> QED
        BY <3>1, <4>1, ModSmall
    <3>2. CASE writer # NUM_PACKETS
      BY <3>2 DEF Wrap
    <3> QED
      BY <3>1, <3>2
  <2> QED
    BY <1>1, <2>1, <2>2 DEF AwaitSlot
<1>2. CASE PostPacket
  <2>1. (writer + 1) % NUM_PACKETS = (sent + 1) % NUM_PACKETS
    <3>1. writer \in Nat /\ writer % NUM_PACKETS = sent % NUM_PACKETS
      BY <1>0
    <3> HIDE DEF RingIndex
    <3> QED
      BY <1>0, <3>1, ModStep
  <2> QED
    BY <1>2, <2>1 DEF PostPacket
<1>3. CASE \/ GetPacket \/ GetPacketFails \/ FillPacket \/ SetTotal \/ JoinAndWrite
  BY <1>3 DEF GetPacket, GetPacketFails, FillPacket, SetTotal, JoinAndWrite
<1>4. ASSUME NEW s \in Stages, Stage(s) PROVE RingIndex'
  BY <1>4 DEF Stage, Await, Work, Post, CheckTotal, mainVars
<1>5. CASE UNCHANGED vars
  BY <1>5 DEF vars, mainVars
<1> QED
  BY <1>1, <1>2, <1>3, <1>4, <1>5 DEF Next, Main

LEMMA NextHistory == IInv /\ [Next]_vars => History'
<1> SUFFICES ASSUME TypeOK, History, Ending, [Next]_vars PROVE History'
  BY DEF IInv
<1> USE DEF History, Received, Worked
<1>0. /\ count \in [Stages -> Nat] /\ sent \in Nat /\ errors \in Nat /\ datagrams \in Nat
      /\ stage \in [Stages -> StageStates]
      /\ got \in Seq(Origins) /\ delivered \in Seq(Origins)
  BY DEF TypeOK
<1>1. CASE AwaitSlot
  BY <1>0, <1>1 DEF AwaitSlot
<1>2. CASE GetPacket
  BY <1>0, <1>2 DEF GetPacket
<1>3. CASE GetPacketFails
  BY <1>0, <1>3 DEF GetPacketFails
<1>4. CASE FillPacket
  <2>1. Worked("lzw")' = Worked("lzw")
    <3>1. CASE sent = 0
      <4>1. stage["lzw"] = "unborn" /\ stage'["lzw"] = "wait"
        BY <1>4, <3>1 DEF FillPacket, Stages, Ending
      <4> QED
        BY <1>4, <4>1 DEF FillPacket
    <3>2. CASE sent # 0
      BY <1>4, <3>2 DEF FillPacket
    <3> QED
      BY <3>1, <3>2
  <2> QED
    BY <1>0, <1>4, <2>1 DEF FillPacket
<1>5. CASE PostPacket
  BY <1>0, <1>5 DEF PostPacket
<1>6. CASE SetTotal
  BY <1>0, <1>6 DEF SetTotal
<1>7. CASE JoinAndWrite
  BY <1>0, <1>7 DEF JoinAndWrite
<1>8. ASSUME NEW s \in Stages, Await(s) PROVE History'
  BY <1>0, <1>8 DEF Await, mainVars, Stages
<1>9. ASSUME NEW s \in Stages, Work(s) PROVE History'
  <2>1. Seen(s) \in Origins
    BY SeenType
  <2>2. CASE s = "lzw"
    <3>0. delivered' = Append(delivered, Seen(s))
      BY <1>9, <2>2 DEF Work
    <3>1. Len(delivered') = Len(delivered) + 1
      BY <1>0, <2>1, <3>0, HistoryAppend
    <3>2. Worked("lzw")' = Worked("lzw") + 1
      <4>1. stage["lzw"] = "work" /\ stage' = [stage EXCEPT !["lzw"] = "post"]
            /\ count' = count
        BY ONLY <1>9, <2>2 DEF Work, mainVars
      <4>2. stage'["lzw"] = "post"
        BY <1>0, <4>1, <2>2
      <4>3. count["lzw"] \in Nat
        BY <1>0, <2>2
      <4> QED
        BY ONLY <4>1, <4>2, <4>3
    <3> QED
      BY <1>0, <1>9, <3>1, <3>2 DEF Work, mainVars
  <2>3. CASE s # "lzw"
    BY <1>0, <1>9, <2>3 DEF Work, mainVars
  <2> QED
    BY <2>2, <2>3
<1>10. ASSUME NEW s \in Stages, Post(s) PROVE History'
  BY <1>0, <1>10 DEF Post, mainVars, Stages
<1>11. ASSUME NEW s \in Stages, CheckTotal(s) PROVE History'
  BY <1>0, <1>11 DEF CheckTotal, mainVars, Stages
<1>12. CASE UNCHANGED vars
  BY <1>12 DEF vars, mainVars
<1> QED
  BY <1>1, <1>2, <1>3, <1>4, <1>5, <1>6, <1>7, <1>8, <1>9, <1>10, <1>11, <1>12
     DEF Next, Main, Stage

-----------------------------------------------------------------------------
(* The contents of the ring *)

(* No field is ahead of what has been received. *)
LEMMA UptoBound ==
  ASSUME TypeOK, Accounting, NEW f \in Fields
  PROVE  Upto[f] \in Nat /\ Upto[f] <= Received
<1>1. /\ Worked("cdc") \in Nat /\ Worked("sha") \in Nat /\ Worked("dedup") \in Nat
      /\ Worked("cdc") <= Received /\ Worked("sha") <= Received /\ Worked("dedup") <= Received
      /\ Filled \in Nat /\ Received \in Nat /\ Filled <= Received
  BY RingOrder DEF Stages
<1> QED
  BY <1>1 DEF Upto, Fields

(* A stage at work is behind every stage whose data it reads, and has not been *)
(* passed by the lzw stage.                                                    *)
LEMMA AtWork ==
  ASSUME TypeOK, Accounting, NEW s \in Stages, stage[s] = "work"
  PROVE  /\ count[s] \in Nat /\ Posted("lzw") <= count[s] /\ count[s] < sent
         /\ Worked(s) = count[s]
         /\ \A f \in Reads[s] : count[s] \in Posted("lzw") .. Upto[f] - 1
<1>1. count[s] \in Nat /\ Posted(s) = count[s] /\ Worked(s) = count[s] /\ Taken(s) = count[s] + 1
  BY DEF TypeOK, Posted, Worked, Taken
<1>2. /\ Posted("lzw") \in Nat /\ Worked("cdc") \in Nat /\ Worked("sha") \in Nat
      /\ Worked("dedup") \in Nat /\ Filled \in Nat /\ Received \in Nat /\ sent \in Nat
  BY RingOrder DEF Stages
<1>3. CASE s = "cdc"
  <2>1. Posted("lzw") <= Posted("cdc") /\ Taken("cdc") <= Filled /\ Filled <= Received
        /\ Taken("cdc") <= sent
    BY RingOrder DEF Stages
  <2> QED
    BY <1>1, <1>2, <1>3, <2>1 DEF Reads, Upto
<1>4. CASE s = "sha"
  <2>1. Posted("lzw") <= Posted("sha") /\ Taken("sha") <= Worked("cdc")
        /\ Taken("sha") <= Received /\ Taken("sha") <= sent
    BY RingOrder DEF Stages
  <2> QED
    BY <1>1, <1>2, <1>4, <2>1 DEF Reads, Upto
<1>5. CASE s = "dedup"
  <2>1. Posted("lzw") <= Posted("dedup") /\ Taken("dedup") <= Worked("sha")
        /\ Taken("dedup") <= Worked("cdc") /\ Taken("dedup") <= sent
    BY RingOrder DEF Stages
  <2> QED
    BY <1>1, <1>2, <1>5, <2>1 DEF Reads, Upto
<1>6. CASE s = "lzw"
  <2>1. /\ Taken("lzw") <= Worked("dedup") /\ Taken("lzw") <= Worked("cdc")
        /\ Taken("lzw") <= Received /\ Taken("lzw") <= Filled /\ Taken("lzw") <= sent
    BY RingOrder DEF Stages
  <2> QED
    BY <1>1, <1>2, <1>6, <2>1 DEF Reads, Upto
<1> QED
  BY <1>3, <1>4, <1>5, <1>6 DEF Stages

(* So all it reads is the packet's, and so is what it makes of it. *)
LEMMA SeenIsReceived ==
  ASSUME TypeOK, Accounting, History, Contents, NEW s \in Stages, stage[s] = "work"
  PROVE  /\ count[s] < Len(got)
         /\ \A f \in Reads[s] : buf[f][Slot(s)] = got[count[s] + 1]
         /\ Seen(s) = got[count[s] + 1]
<1>1. count[s] < Len(got)
  BY AtWork, RingOrder DEF History
<1>2. ASSUME NEW f \in Reads[s] PROVE buf[f][Slot(s)] = got[count[s] + 1]
  <2>1. count[s] \in Posted("lzw") .. Upto[f] - 1 /\ f \in Fields
    BY AtWork, ReadsFields
  <2> QED
    BY <2>1 DEF Contents, Slot
<1> DEFINE S == {buf[f][Slot(s)] : f \in Reads[s]}
<1>3. S # {} /\ \A x \in S : x = got[count[s] + 1]
  BY <1>2, ReadsFields
<1>4. Origin(S) = got[count[s] + 1]
  BY <1>3, SameOrigin
<1> QED
  BY <1>1, <1>2, <1>4 DEF Seen

(* A step that neither writes a slot nor receives keeps the contents right. *)
LEMMA ContentsFrame ==
  ASSUME TypeOK, Accounting, Contents, buf' = buf, got' = got,
         \A f \in Fields : Upto'[f] = Upto[f],
         Posted("lzw")' \in Nat, Posted("lzw") <= Posted("lzw")'
  PROVE  Contents'
<1>1. \A f \in Fields : Upto[f] \in Nat
  BY UptoBound
<1>2. Posted("lzw") \in Nat
  BY RingOrder DEF Stages
<1>3. ASSUME NEW f \in Fields, NEW p \in Posted("lzw")' .. Upto'[f] - 1
      PROVE  buf'[f][p % NUM_PACKETS] = got'[p + 1]
  <2>1. p \in Posted("lzw") .. Upto[f] - 1
    BY <1>1, <1>2
  <2> QED
    BY <2>1 DEF Contents
<1> QED
  BY <1>3 DEF Contents

(* A step that writes the next packet's value of one field does too: the slot  *)
(* it writes is not one that still holds an earlier packet.                    *)
LEMMA ContentsUpdate ==
  ASSUME TypeOK, Accounting, Contents, History,
         NEW g \in Fields, Upto'[g] = Upto[g] + 1, Upto[g] < MainTaken,
         \A f \in Fields : f # g => Upto'[f] = Upto[f],
         \A f \in Fields, j \in Slots :
            f # g \/ j # Upto[g] % NUM_PACKETS => buf'[f][j] = buf[f][j],
         buf'[g][Upto[g] % NUM_PACKETS] = got'[Upto[g] + 1],
         \A i \in 1 .. Len(got) : got'[i] = got[i],
         Posted("lzw")' = Posted("lzw")
  PROVE  Contents'
<1>1. \A f \in Fields : Upto[f] \in Nat /\ Upto[f] <= Received
  BY UptoBound
<1>2. Posted("lzw") \in Nat /\ MainTaken \in Nat /\ Received \in Nat /\ Received = Len(got)
      /\ Received <= MainTaken
  BY RingOrder DEF Stages, History
<1>3. ASSUME NEW f \in Fields, NEW p \in Posted("lzw")' .. Upto'[f] - 1
      PROVE  buf'[f][p % NUM_PACKETS] = got'[p + 1]
  <2>1. p \in Nat /\ p >= Posted("lzw")
    BY <1>1, <1>2
  <2>2. p % NUM_PACKETS \in Slots
    BY <2>1, DivMod DEF Slots
  <2>3. CASE f = g /\ p = Upto[g]
    BY <2>3
  <2>4. CASE f = g /\ p # Upto[g]
    <3>1. p < Upto[g] /\ p \in Posted("lzw") .. Upto[g] - 1
      BY <1>1, <1>2, <2>1, <2>4
    <3>2. p \in Posted("lzw") .. Received /\ Upto[g] \in Posted("lzw") .. Received /\ p < MainTaken
      BY <1>1, <1>2, <2>1, <3>1
    <3>3. p % NUM_PACKETS # Upto[g] % NUM_PACKETS
      BY <2>4, <3>2, DistinctSlots
    <3>4. buf'[f][p % NUM_PACKETS] = buf[f][p % NUM_PACKETS]
      BY <2>2, <3>3
    <3>5. buf[f][p % NUM_PACKETS] = got[p + 1]
      BY <2>4, <3>1 DEF Contents
    <3>6. p + 1 \in 1 .. Len(got)
      BY <1>1, <1>2, <2>1, <3>1
    <3> QED
      BY <3>4, <3>5, <3>6
  <2>5. CASE f # g
    <3>1. p \in Posted("lzw") .. Upto[f] - 1
      BY <1>1, <1>2, <2>5
    <3>2. buf'[f][p % NUM_PACKETS] = buf[f][p % NUM_PACKETS]
      BY <2>2, <2>5
    <3>3. buf[f][p % NUM_PACKETS] = got[p + 1]
      BY <3>1 DEF Contents
    <3>4. p + 1 \in 1 .. Len(got)
      BY <1>1, <1>2, <2>1, <3>1
    <3> QED
      BY <3>2, <3>3, <3>4
  <2> QED
    BY <2>3, <2>4, <2>5
<1> QED
  BY <1>3 DEF Contents

(* Where main() writes is the slot of the packet it is at. *)
LEMMA WriterSlot ==
  ASSUME TypeOK, RingIndex, main \in {"recv", "fill", "post"}
  PROVE  writer \in Slots /\ writer = sent % NUM_PACKETS
<1>1. writer \in 0 .. NUM_PACKETS - 1
  BY DEF TypeOK, Slots
<1> QED
  BY <1>1, ModSmall DEF RingIndex, Slots

(* Starting the threads moves none of them forward. *)
LEMMA StartIsFrame ==
  ASSUME TypeOK, Ending, FillPacket, NEW s \in Stages
  PROVE  Worked(s)' = Worked(s) /\ Posted(s)' = Posted(s)
<1>1. CASE sent = 0
  <2>1. stage[s] = "unborn" /\ stage'[s] = "wait"
    BY <1>1 DEF FillPacket, Ending
  <2> QED
    BY <2>1 DEF FillPacket, Worked, Posted
<1>2. CASE sent # 0
  BY <1>2 DEF FillPacket, Worked, Posted
<1> QED
  BY <1>1, <1>2

LEMMA NextContents == IInv /\ [Next]_vars => Contents'
<1> SUFFICES ASSUME TypeOK, Accounting, RingIndex, History, Contents, Ending, [Next]_vars
             PROVE  Contents'
  BY DEF IInv
<1>0. /\ count \in [Stages -> Nat] /\ stage \in [Stages -> StageStates] /\ sent \in Nat
      /\ buf \in [Fields -> [Slots -> Origins]] /\ got \in Seq(Origins)
  BY DEF TypeOK
<1>1. Posted("lzw") \in Nat
  BY RingOrder DEF Stages
<1>2. CASE AwaitSlot \/ SetTotal \/ JoinAndWrite \/ PostPacket
  <2>1. Received' = Received /\ Filled' = Filled /\ buf' = buf /\ got' = got
    BY <1>0, <1>2 DEF AwaitSlot, SetTotal, JoinAndWrite, PostPacket, Received, Filled
  <2>2. \A s \in Stages : Worked(s)' = Worked(s) /\ Posted(s)' = Posted(s)
    BY <1>2 DEF AwaitSlot, SetTotal, JoinAndWrite, PostPacket, Worked, Posted
  <2>3. \A f \in Fields : Upto'[f] = Upto[f]
    BY <2>1, <2>2 DEF Upto, Fields, Stages
  <2>4. Posted("lzw")' = Posted("lzw")
    BY <2>2 DEF Stages
  <2> QED
    BY <1>1, <2>1, <2>3, <2>4, ContentsFrame
<1>3. CASE GetPacket \/ GetPacketFails
  <2>1. main = "recv" /\ main' = "fill" /\ sent' = sent /\ count' = count /\ stage' = stage
    BY <1>3 DEF GetPacket, GetPacketFails
  <2>2. /\ Upto["input"] = sent /\ Upto'["input"] = sent + 1 /\ MainTaken = sent + 1
        /\ Received = sent
    BY <2>1, <1>0 DEF Upto, Received, MainTaken
  <2>3. \A f \in Fields : f # "input" => Upto'[f] = Upto[f]
    BY <2>1 DEF Upto, Filled, Fields, Worked
  <2>4. Posted("lzw")' = Posted("lzw")
    BY <2>1 DEF Posted
  <2>5. writer \in Slots /\ writer = Upto["input"] % NUM_PACKETS
    BY <2>1, <2>2, WriterSlot
  <2>6. \E v \in Origins : got' = Append(got, v) /\ v = buf'["input"][writer]
    <3>1. CASE GetPacket
      <4>1. datagrams \in Origins
        BY <3>1 DEF GetPacket, TypeOK, Origins
      <4>2. buf' = [buf EXCEPT !["input"][writer] = datagrams]
        BY <3>1 DEF GetPacket
      <4>3. buf'["input"][writer] = datagrams
        BY <1>0, <2>5, <4>1, <4>2, BufUpdate DEF Fields
      <4> QED
        BY <3>1, <4>1, <4>3 DEF GetPacket
    <3>2. CASE GetPacketFails
      <4>1. buf["input"][writer] \in Origins
        BY <1>0, <2>5 DEF Fields
      <4> QED
        BY <3>2, <4>1 DEF GetPacketFails
    <3> QED
      BY <1>3, <3>1, <3>2
  <2>7. \A f \in Fields, j \in Slots : f # "input" \/ j # writer => buf'[f][j] = buf[f][j]
    <3>1. CASE GetPacket
      <4>1. datagrams \in Origins
        BY <3>1 DEF GetPacket, TypeOK, Origins
      <4>2. buf' = [buf EXCEPT !["input"][writer] = datagrams]
        BY <3>1 DEF GetPacket
      <4> QED
        BY <1>0, <2>5, <4>1, <4>2, BufUpdate DEF Fields
    <3>2. CASE GetPacketFails
      BY <3>2 DEF GetPacketFails
    <3> QED
      BY <1>3, <3>1, <3>2
  <2>8. Len(got) = sent
    BY <2>2 DEF History
  <2>9. got'[sent + 1] = buf'["input"][writer] /\ \A i \in 1 .. Len(got) : got'[i] = got[i]
    BY <1>0, <2>6, <2>8, HistoryAppend
  <2>10. "input" \in Fields /\ Upto'["input"] = Upto["input"] + 1 /\ Upto["input"] < MainTaken
    BY <1>0, <2>2 DEF Fields
  <2>11. buf'["input"][Upto["input"] % NUM_PACKETS] = got'[Upto["input"] + 1]
    BY <2>2, <2>5, <2>9
  <2>12. \A f \in Fields, j \in Slots :
            f # "input" \/ j # Upto["input"] % NUM_PACKETS => buf'[f][j] = buf[f][j]
    BY <2>5, <2>7
  <2> QED
    BY <2>3, <2>4, <2>9, <2>10, <2>11, <2>12, ContentsUpdate
<1>4. CASE FillPacket
  <2>1. main = "fill" /\ main' = "post" /\ sent' = sent /\ got' = got
    BY <1>4 DEF FillPacket
  <2>2. /\ Upto["size"] = sent /\ Upto'["size"] = sent + 1 /\ MainTaken = sent + 1
        /\ Upto["input"] = sent + 1 /\ Upto'["input"] = sent + 1
    BY <2>1, <1>0 DEF Upto, Received, Filled, MainTaken
  <2>3. \A s \in Stages : Worked(s)' = Worked(s) /\ Posted(s)' = Posted(s)
    BY <1>4, StartIsFrame
  <2>4. \A f \in Fields : f # "size" => Upto'[f] = Upto[f]
    BY <2>2, <2>3 DEF Upto, Fields, Stages
  <2>5. writer \in Slots /\ writer = sent % NUM_PACKETS
    BY <2>1, WriterSlot
  <2>6. buf["input"][writer] = got[sent + 1]
    <3>1. Posted("lzw") <= sent
      BY RingOrder DEF Stages
    <3>2. sent \in Posted("lzw") .. Upto["input"] - 1
      BY <1>0, <1>1, <2>2, <3>1
    <3> QED
      BY <2>5, <3>2 DEF Contents, Fields
  <2>7. /\ buf'["size"][writer] = got'[sent + 1]
        /\ \A f \in Fields, j \in Slots : f # "size" \/ j # writer => buf'[f][j] = buf[f][j]
    <3>1. buf' = [buf EXCEPT !["size"][writer] = buf["input"][writer]]
      BY <1>4 DEF FillPacket
    <3>2. buf["input"][writer] \in Origins /\ "size" \in Fields
      BY <1>0, <2>5 DEF Fields
    <3> QED
      BY <1>0, <2>1, <2>5, <2>6, <3>1, <3>2, BufUpdate
  <2>8. "size" \in Fields /\ Upto'["size"] = Upto["size"] + 1 /\ Upto["size"] < MainTaken
    BY <1>0, <2>2 DEF Fields
  <2>9. \A f \in Fields, j \in Slots :
           f # "size" \/ j # Upto["size"] % NUM_PACKETS => buf'[f][j] = buf[f][j]
    BY <2>2, <2>5, <2>7
  <2>10. buf'["size"][Upto["size"] % NUM_PACKETS] = got'[Upto["size"] + 1]
    BY <2>2, <2>5, <2>7
  <2>11. Posted("lzw")' = Posted("lzw") /\ \A i \in 1 .. Len(got) : got'[i] = got[i]
    BY <2>1, <2>3 DEF Stages
  <2> QED
    BY <2>4, <2>8, <2>9, <2>10, <2>11, ContentsUpdate
<1>5. ASSUME NEW s \in Stages, Await(s) \/ Post(s) \/ CheckTotal(s) PROVE Contents'
  <2>1. buf' = buf /\ got' = got /\ Received' = Received /\ Filled' = Filled
    BY <1>5 DEF Await, Post, CheckTotal, mainVars, Received, Filled
  <2>2. \A t \in Stages : Worked(t)' = Worked(t)
    <3>1. CASE Await(s)
      BY <1>0, <3>1 DEF Await, Worked
    <3>2. CASE Post(s)
      BY <1>0, <3>2 DEF Post, Worked
    <3>3. CASE CheckTotal(s)
      BY <1>0, <3>3 DEF CheckTotal, Worked
    <3> QED
      BY <1>5, <3>1, <3>2, <3>3
  <2>3. \A f \in Fields : Upto'[f] = Upto[f]
    BY <2>1, <2>2 DEF Upto, Fields, Stages
  <2>4. Posted("lzw")' \in Nat /\ Posted("lzw") <= Posted("lzw")'
    BY <1>0, <1>5 DEF Await, Post, CheckTotal, Posted, Stages
  <2> QED
    BY <2>1, <2>3, <2>4, ContentsFrame
<1>6. ASSUME NEW s \in Stages, Work(s) PROVE Contents'
  <2>1. /\ stage[s] = "work" /\ stage' = [stage EXCEPT ![s] = "post"] /\ count' = count
        /\ got' = got /\ sent' = sent /\ main' = main
    BY <1>6 DEF Work, mainVars
  <2>2. Posted("lzw")' = Posted("lzw")
    BY <1>0, <2>1 DEF Posted
  <2>3. Received' = Received /\ Filled' = Filled
    BY <2>1 DEF Received, Filled
  <2>4. Worked(s)' = Worked(s) + 1 /\ \A t \in Stages : t # s => Worked(t)' = Worked(t)
    BY <1>0, <2>1 DEF Worked
  <2>5. CASE s = "lzw"
    <3>1. buf' = buf
      BY <1>6, <2>5 DEF Work
    <3>2. \A f \in Fields : Upto'[f] = Upto[f]
      BY <2>3, <2>4, <2>5 DEF Upto, Fields, Stages
    <3> QED
      BY <1>1, <2>1, <2>2, <3>1, <3>2, ContentsFrame
  <2>6. CASE s # "lzw"
    <3> DEFINE g == Writes[s]
    <3>1. g \in Fields
      BY <2>6, ReadsFields
    <3>2. Upto[g] = Worked(s) /\ Upto'[g] = Worked(s)'
      BY <2>6 DEF Upto, Writes, Stages
    <3>3. \A f \in Fields : f # g => Upto'[f] = Upto[f]
      BY <2>3, <2>4, <2>6 DEF Upto, Writes, Fields, Stages
    <3>4. Worked(s) = count[s] /\ count[s] < sent /\ count[s] \in Nat
      BY <2>1, AtWork
    <3>5. Upto[g] = count[s] /\ Upto'[g] = Upto[g] + 1 /\ Upto[g] < MainTaken
      <4>1. sent <= MainTaken /\ MainTaken \in Nat
        BY RingOrder
      <4> QED
        BY <1>0, <2>4, <3>2, <3>4, <4>1
    <3>6. Slot(s) = Upto[g] % NUM_PACKETS /\ Slot(s) \in Slots /\ Seen(s) \in Origins
      BY <3>5, SeenType DEF Slot
    <3>7. Seen(s) = got[count[s] + 1]
      BY <2>1, SeenIsReceived
    <3>8. buf' = [buf EXCEPT ![g][Slot(s)] = Seen(s)]
      BY <1>6, <2>6 DEF Work
    <3> HIDE DEF g
    <3>9. /\ buf'[g][Slot(s)] = Seen(s)
          /\ \A f \in Fields, j \in Slots : f # g \/ j # Slot(s) => buf'[f][j] = buf[f][j]
      BY <1>0, <3>1, <3>6, <3>8, BufUpdate
    <3>10. buf'[g][Upto[g] % NUM_PACKETS] = got'[Upto[g] + 1]
      BY <2>1, <3>5, <3>6, <3>7, <3>9
    <3>11. \A f \in Fields, j \in Slots :
              f # g \/ j # Upto[g] % NUM_PACKETS => buf'[f][j] = buf[f][j]
      BY <3>6, <3>9
    <3>12. \A i \in 1 .. Len(got) : got'[i] = got[i]
      BY <2>1
    <3> QED
      BY <2>2, <3>1, <3>3, <3>5, <3>10, <3>11, <3>12, ContentsUpdate
  <2> QED
    BY <2>5, <2>6
<1>7. CASE UNCHANGED vars
  <2>1. buf' = buf /\ got' = got /\ Received' = Received /\ Filled' = Filled
    BY <1>7 DEF vars, mainVars, Received, Filled
  <2>2. \A s \in Stages : Worked(s)' = Worked(s) /\ Posted(s)' = Posted(s)
    BY <1>7 DEF vars, Worked, Posted
  <2>3. \A f \in Fields : Upto'[f] = Upto[f]
    BY <2>1, <2>2 DEF Upto, Fields, Stages
  <2>4. Posted("lzw")' = Posted("lzw")
    BY <2>2 DEF Stages
  <2> QED
    BY <1>1, <2>1, <2>3, <2>4, ContentsFrame
<1> QED
  BY <1>2, <1>3, <1>4, <1>5, <1>6, <1>7 DEF Next, Main, Stage

-----------------------------------------------------------------------------
(* Order and end *)

LEMMA NextInOrder == IInv /\ [Next]_vars => InOrderDelivery'
<1> SUFFICES ASSUME TypeOK, Accounting, History, Contents, InOrderDelivery, [Next]_vars
             PROVE  InOrderDelivery'
  BY DEF IInv
<1>0. got \in Seq(Origins) /\ delivered \in Seq(Origins) /\ buf \in [Fields -> [Slots -> Origins]]
  BY DEF TypeOK
<1>1. CASE GetPacket \/ GetPacketFails
  <2>1. delivered' = delivered /\ \E v \in Origins : got' = Append(got, v)
    <3>1. CASE GetPacket
      BY <3>1 DEF GetPacket, TypeOK, Origins
    <3>2. CASE GetPacketFails
      <4>1. buf["input"][writer] \in Origins
        BY <1>0, <3>2 DEF GetPacketFails, TypeOK, Fields
      <4> QED
        BY <3>2, <4>1 DEF GetPacketFails
    <3> QED
      BY <1>1, <3>1, <3>2
  <2>2. Len(got') = Len(got) + 1 /\ \A i \in 1 .. Len(got) : got'[i] = got[i]
    BY <1>0, <2>1, HistoryAppend
  <2> QED
    BY <1>0, <2>1, <2>2 DEF InOrderDelivery
<1>2. CASE AwaitSlot \/ FillPacket \/ PostPacket \/ SetTotal \/ JoinAndWrite
  BY <1>2 DEF AwaitSlot, FillPacket, PostPacket, SetTotal, JoinAndWrite, InOrderDelivery
<1>3. ASSUME NEW s \in Stages, Await(s) \/ Post(s) \/ CheckTotal(s) PROVE InOrderDelivery'
  BY <1>3 DEF Await, Post, CheckTotal, InOrderDelivery
<1>4. ASSUME NEW s \in Stages, Work(s) PROVE InOrderDelivery'
  <2>1. got' = got
    BY <1>4 DEF Work
  <2>2. CASE s # "lzw"
    BY <1>4, <2>1, <2>2 DEF Work, InOrderDelivery
  <2>3. CASE s = "lzw"
    <3>1. stage[s] = "work" /\ delivered' = Append(delivered, Seen(s))
      BY <1>4, <2>3 DEF Work
    <3>2. Seen(s) = got[count[s] + 1] /\ count[s] < Len(got) /\ Seen(s) \in Origins
      BY <3>1, SeenIsReceived, SeenType
    <3>3. Len(delivered) = count[s] /\ count[s] \in Nat
      BY <2>3, <3>1, AtWork DEF History
    <3>4. /\ Len(delivered') = Len(delivered) + 1
          /\ delivered'[Len(delivered) + 1] = Seen(s)
          /\ \A i \in 1 .. Len(delivered) : delivered'[i] = delivered[i]
      BY <1>0, <3>1, <3>2, HistoryAppend
    <3> QED
      BY <1>0, <2>1, <3>2, <3>3, <3>4 DEF InOrderDelivery
  <2> QED
    BY <2>2, <2>3
<1>5. CASE UNCHANGED vars
  BY <1>5 DEF vars, InOrderDelivery
<1> QED
  BY <1>1, <1>2, <1>3, <1>4, <1>5 DEF Next, Main, Stage

(* Until main() has stored the total, no stage can have counted up to it. *)
LEMMA NotYetTotal ==
  ASSUME TypeOK, Accounting, History, Ending, main \notin {"join", "exit"}, NEW s \in Stages
  PROVE  stage[s] # "done" /\ count[s] # total_packets
<1>1. count[s] <= sent /\ sent <= Received /\ count[s] \in Nat /\ sent \in Nat /\ Received \in Nat
  <2>1. count[s] \in Nat /\ Taken(s) \in Nat /\ count[s] <= Taken(s)
    BY RingOrder DEF TypeOK
  <2>2. Taken(s) <= sent
    BY RingOrder DEF Stages
  <2> QED
    BY <2>1, <2>2, RingOrder
<1>2. Received <= MaxPackets + MaxRecvErrors
  BY <1>1 DEF History, TypeOK
<1>3. total_packets = INT_MAX
  BY DEF Ending
<1>4. count[s] # total_packets
  BY <1>1, <1>2, <1>3
<1> QED
  BY <1>4 DEF Ending

LEMMA NextEnding == IInv /\ [Next]_vars => Ending'
<1> SUFFICES ASSUME TypeOK, Accounting, History, Ending, [Next]_vars PROVE Ending'
  BY DEF IInv
<1>0. count \in [Stages -> Nat] /\ stage \in [Stages -> StageStates] /\ sent \in Nat
  BY DEF TypeOK
<1>1. CASE AwaitSlot \/ GetPacket \/ GetPacketFails
  BY <1>1 DEF AwaitSlot, GetPacket, GetPacketFails, Ending
<1>2. CASE FillPacket
  <2>1. \A s \in Stages : stage'[s] \notin {"unborn", "done"}
    BY <1>0, <1>2, NotYetTotal DEF FillPacket, Ending
  <2> QED
    BY <1>2, <2>1 DEF FillPacket, Ending
<1>3. CASE PostPacket
  <2>1. \A s \in Stages : stage[s] \notin {"unborn", "done"}
    BY <1>3, NotYetTotal DEF PostPacket, Ending
  <2> QED
    BY <1>0, <1>3, <2>1 DEF PostPacket, Ending
<1>4. CASE SetTotal
  <2>1. \A s \in Stages : stage[s] # "done"
    BY <1>4, NotYetTotal DEF SetTotal
  <2> QED
    BY <1>0, <1>4, <2>1 DEF SetTotal, LastPacket, Ending
<1>5. CASE JoinAndWrite
  BY <1>5 DEF JoinAndWrite, Joined, Ending
<1>6. ASSUME NEW s \in Stages, Await(s) \/ Work(s) \/ Post(s) PROVE Ending'
  <2>1. stage[s] \in {"wait", "work", "post"}
    BY <1>6 DEF Await, Work, Post
  <2>2. \E x \in {"work", "post", "check"} : stage' = [stage EXCEPT ![s] = x]
    BY <1>6 DEF Await, Work, Post
  <2>3. /\ main' = main /\ sent' = sent /\ total_packets' = total_packets /\ count' = count
    BY <1>6 DEF Await, Work, Post, mainVars
  <2> QED
    BY <1>0, <2>1, <2>2, <2>3 DEF Ending
<1>7. ASSUME NEW s \in Stages, CheckTotal(s) PROVE Ending'
  <2>1. stage[s] = "check"
    BY <1>7 DEF CheckTotal
  <2>2. \/ /\ stage' = [stage EXCEPT ![s] = "done"]
           /\ count' = count
           /\ count[s] = total_packets
        \/ /\ stage' = [stage EXCEPT ![s] = "wait"]
           /\ count' = [count EXCEPT ![s] = @ + 1]
    BY <1>7 DEF CheckTotal
  <2>3. main' = main /\ sent' = sent /\ total_packets' = total_packets
    BY <1>7 DEF CheckTotal, mainVars
  <2> QED
    BY <1>0, <2>1, <2>2, <2>3 DEF Ending
<1>8. CASE UNCHANGED vars
  BY <1>8 DEF vars, mainVars, Ending
<1> QED
  BY <1>1, <1>2, <1>3, <1>4, <1>5, <1>6, <1>7, <1>8 DEF Next, Main, Stage

-----------------------------------------------------------------------------
(* Theorems *)

(* The inductive invariant holds in every reachable state. *)
THEOREM Invariance == Spec => []IInv
<1>1. Init => IInv
  BY InitIInv
<1>2. IInv /\ [Next]_vars => IInv'
  BY NextTypeOK, NextAccounting, NextRingIndex, NextHistory, NextContents, NextEnding,
     NextInOrder DEF IInv
<1> QED
  BY <1>1, <1>2, PTL DEF Spec

(* Every variable keeps its type: no semaphore is taken below zero and main()  *)
(* never receives outside the ring.                                           *)
THEOREM TypeCorrect == Spec => []TypeOK
  BY Invariance, PTL DEF IInv

(* Posts and waits balance on every semaphore. *)
THEOREM SemaphoresBalance == Spec => []Accounting
  BY Invariance, PTL DEF IInv

(* No slot is overwritten while a stage works on it, for every ring size. *)
THEOREM SlotsAreStable == Spec => []SlotStable
<1>1. IInv => SlotStable
  BY SeenIsReceived DEF IInv, SlotStable
<1> QED
  BY <1>1, Invariance, PTL

(* Packets reach the kernels in order, once, and with their own data. *)
THEOREM DeliversInOrder == Spec => []InOrderDelivery
  BY Invariance, PTL DEF IInv

(* When main() writes the file, every packet it received has been through      *)
(* every stage, and the pipeline is empty.                                    *)
THEOREM CompletesBeforeExit == Spec => []CompleteAtExit
<1>1. ASSUME IInv PROVE CompleteAtExit
  <2> SUFFICES ASSUME main = "exit"
               PROVE  /\ delivered = got
                      /\ \A s \in Stages : count[s] = total_packets
                      /\ \A s \in Stages : sems[s] = 0
    BY DEF CompleteAtExit
  <2>1. /\ sent \in Nat /\ sems \in [Sems -> Nat] /\ count \in [Stages -> Nat]
        /\ got \in Seq(Origins) /\ delivered \in Seq(Origins)
    BY <1>1 DEF IInv, TypeOK
  <2>2. \A s \in Stages : stage[s] = "done" /\ count[s] = sent - 1
    BY <1>1 DEF IInv, Ending
  <2>3. \A s \in Stages : Taken(s) = sent /\ Worked(s) = sent /\ Posted(s) = sent
    BY <2>1, <2>2 DEF Taken, Worked, Posted
  <2>4. \A s \in Stages : sems[s] = 0
    BY <1>1, <2>1, <2>3 DEF IInv, Accounting, Stages, Sems
  <2>5. \A s \in Stages : count[s] = total_packets
    BY <1>1, <2>2 DEF IInv, Ending
  <2>6. Len(delivered) = Len(got)
    BY <1>1, <2>1, <2>3 DEF IInv, History, Received, Stages
  <2>7. \A i \in 1 .. Len(got) : delivered[i] = got[i]
    BY <1>1, <2>6 DEF IInv, InOrderDelivery
  <2>8. delivered = got
    BY <2>1, <2>6, <2>7
  <2> QED
    BY <2>4, <2>5, <2>8
<1> QED
  BY <1>1, Invariance, PTL

(* The pipeline implements the bounded FIFO: receiving is the FIFO's Arrive,   *)
(* the lzw stage's work its Deliver, and every other step leaves it alone.     *)
THEOREM PipelineImplementsPipe == Spec => ImplementsPipe
<1>1. Init => Pipe!Init
  BY DEF Init, Pipe!Init
<1>2. ASSUME IInv, [Next]_vars PROVE [Pipe!Next]_(Pipe!vars)
  <2> USE <1>2 DEF IInv
  <2>0. got \in Seq(Origins) /\ delivered \in Seq(Origins) /\ buf \in [Fields -> [Slots -> Origins]]
    BY DEF TypeOK
  <2>1. CASE GetPacket \/ GetPacketFails
    <3>1. main = "recv" /\ delivered' = delivered
      BY <2>1 DEF GetPacket, GetPacketFails
    <3>2. Len(got) - Len(delivered) < NUM_PACKETS
      <4>1. Len(got) = sent /\ MainTaken = sent + 1 /\ sent \in Nat
        BY <3>1 DEF History, Received, MainTaken, TypeOK
      <4>2. Len(delivered) = Worked("lzw") /\ Posted("lzw") <= Worked("lzw")
            /\ Posted("lzw") \in Nat /\ Worked("lzw") \in Nat
            /\ MainTaken <= NUM_PACKETS + Posted("lzw")
        BY RingOrder DEF History, Stages
      <4> QED
        BY <4>1, <4>2
    <3>3. \E v \in Origins : got' = Append(got, v)
      <4>1. CASE GetPacket
        BY <4>1 DEF GetPacket, TypeOK, Origins
      <4>2. CASE GetPacketFails
        <5>1. buf["input"][writer] \in Origins
          BY <2>0, <4>2 DEF GetPacketFails, TypeOK, Fields
        <5> QED
          BY <4>2, <5>1 DEF GetPacketFails
      <4> QED
        BY <2>1, <4>1, <4>2
    <3> QED
      BY <3>1, <3>2, <3>3 DEF Pipe!Next, Pipe!Arrive
  <2>2. ASSUME NEW s \in Stages, Work(s) PROVE [Pipe!Next]_(Pipe!vars)
    <3>1. got' = got /\ stage[s] = "work"
      BY <2>2 DEF Work
    <3>2. CASE s = "lzw"
      <4>1. delivered' = Append(delivered, Seen(s))
        BY <2>2, <3>2 DEF Work
      <4>2. Seen(s) = got[count[s] + 1] /\ count[s] < Len(got)
        BY <3>1, SeenIsReceived
      <4>3. Len(delivered) = count[s]
        BY <3>1, <3>2, AtWork DEF History
      <4> QED
        BY <3>1, <4>1, <4>2, <4>3 DEF Pipe!Next, Pipe!Deliver
    <3>3. CASE s # "lzw"
      BY <2>2, <3>1, <3>3 DEF Work, Pipe!vars
    <3> QED
      BY <3>2, <3>3
  <2>3. CASE \/ AwaitSlot \/ FillPacket \/ PostPacket \/ SetTotal \/ JoinAndWrite
             \/ \E s \in Stages : Await(s) \/ Post(s) \/ CheckTotal(s)
             \/ UNCHANGED vars
    BY <2>3 DEF AwaitSlot, FillPacket, PostPacket, SetTotal, JoinAndWrite, Await, Post,
                CheckTotal, vars, Pipe!vars
  <2> QED
    BY <2>1, <2>2, <2>3 DEF Next, Main, Stage
<1> QED
  BY <1>1, <1>2, Invariance, PTL DEF Spec, ImplementsPipe, Pipe!Spec

(* The packets that a thread has finished with have been received, and there    *)
(* are no more of them than the bounds allow.                                 *)
LEMMA PostedBound ==
  ASSUME IInv
  PROVE  /\ Posted("lzw") \in Nat /\ Posted("dedup") \in Nat /\ sent \in Nat
         /\ Taken("lzw") \in Nat /\ Taken("dedup") \in Nat
         /\ Posted("lzw") <= Taken("lzw") /\ Taken("lzw") <= Posted("dedup")
         /\ Posted("dedup") <= Taken("dedup") /\ Taken("dedup") <= sent
         /\ sent <= NUM_PACKETS + Posted("lzw")
         /\ sent <= MaxPackets + MaxRecvErrors
<1> USE DEF IInv
<1>1. /\ \A s \in Stages : /\ Posted(s) \in Nat /\ Worked(s) \in Nat /\ Taken(s) \in Nat
                           /\ Posted(s) <= Worked(s) /\ Worked(s) <= Taken(s)
      /\ Taken("cdc") <= sent /\ Taken("sha") <= Posted("cdc")
      /\ Taken("dedup") <= Posted("sha") /\ Taken("lzw") <= Posted("dedup")
      /\ sent <= Received /\ Received <= MainTaken /\ MainTaken <= NUM_PACKETS + Posted("lzw")
      /\ {sent, Received, MainTaken} \subseteq Nat
  BY RingOrder
<1>2. Received <= MaxPackets + MaxRecvErrors
  <2>1. Len(got) = Received /\ Len(got) <= datagrams + errors
    BY DEF History
  <2>2. datagrams \in 0 .. MaxPackets /\ errors \in 0 .. MaxRecvErrors
    BY DEF TypeOK
  <2> QED
    BY <1>1, <2>1, <2>2
<1> QED
  BY <1>1, <1>2 DEF Stages

(* The pipeline implements the feed that LzwHost assumes: dedup's post is the   *)
(* feed's Post, main()'s store its SetTotal, the lzw stage's post its Release,   *)
(* and every other step leaves it alone.                                      *)
THEOREM EncoderImplementsFeed == Spec => ImplementsFeed
<1>1. ASSUME Init PROVE Feed!Init
  BY <1>1 DEF Init, Feed!Init, Posted, Stages
<1>2. ASSUME IInv, [Next]_vars PROVE [Feed!Next]_(Feed!vars)
  <2> USE <1>2
  <2>0. /\ stage \in [Stages -> StageStates] /\ count \in [Stages -> Nat]
        /\ {"dedup", "lzw"} \subseteq Stages
        /\ total_packets = IF main \in {"join", "exit"} THEN sent - 1 ELSE INT_MAX
    BY DEF IInv, TypeOK, Ending, Stages
  <2>1. CASE SetTotal
    <3>1. /\ main = "total" /\ total_packets' = sent - 1
          /\ UNCHANGED <<stage, count>>
      BY <2>1 DEF SetTotal, LastPacket
    <3>2. sent > 0
      BY <3>1 DEF IInv, Ending
    <3>3. Posted("dedup")' = Posted("dedup") /\ Posted("lzw")' = Posted("lzw")
      BY <3>1 DEF Posted
    <3>4. total_packets' \in 0 .. MaxPackets + MaxRecvErrors - 1
      BY <3>1, <3>2, PostedBound
    <3>5. Posted("dedup") - 1 <= total_packets' /\ total_packets' < NUM_PACKETS + Posted("lzw")
      BY <3>1, <3>2, PostedBound
    <3>6. total_packets = INT_MAX
      BY <2>0, <3>1
    <3> QED
      BY <3>3, <3>4, <3>5, <3>6 DEF Feed!Next, Feed!SetTotal
  <2>2. ASSUME NEW s \in Stages, Post(s) PROVE [Feed!Next]_(Feed!vars)
    <3>1. /\ stage[s] = "post" /\ stage' = [stage EXCEPT ![s] = "check"]
          /\ UNCHANGED <<count, total_packets>>
      BY <2>2 DEF Post
    <3>2. \A t \in Stages : Posted(t)' = IF t = s THEN Posted(t) + 1 ELSE Posted(t)
      BY <2>0, <3>1 DEF Posted
    <3>3. Taken(s) = Posted(s) + 1
      BY <2>0, <3>1 DEF Posted, Taken
    <3>4. CASE s = "dedup"
      <4>1. Posted("dedup")' = Posted("dedup") + 1 /\ Posted("lzw")' = Posted("lzw")
        BY <2>0, <3>2, <3>4
      <4>2. Posted("dedup") + 1 <= sent
        BY <3>3, <3>4, PostedBound
      <4>3. total_packets # INT_MAX => Posted("dedup") <= total_packets
        BY <2>0, <4>2, PostedBound
      <4>4. /\ Posted("dedup") < NUM_PACKETS + Posted("lzw")
            /\ Posted("dedup") <= MaxPackets + MaxRecvErrors - 1
        BY <4>2, PostedBound
      <4> QED
        BY <3>1, <4>1, <4>3, <4>4 DEF Feed!Next, Feed!Post
    <3>5. CASE s = "lzw"
      <4>1. Posted("lzw")' = Posted("lzw") + 1 /\ Posted("dedup")' = Posted("dedup")
        BY <2>0, <3>2, <3>5
      <4>2. Posted("lzw") < Posted("dedup")
        BY <3>3, <3>5, PostedBound
      <4> QED
        BY <3>1, <4>1, <4>2 DEF Feed!Next, Feed!Release
    <3>6. CASE s \notin {"dedup", "lzw"}
      <4>1. Posted("lzw")' = Posted("lzw") /\ Posted("dedup")' = Posted("dedup")
        BY <2>0, <3>2, <3>6
      <4> QED
        BY <3>1, <4>1 DEF Feed!vars
    <3> QED
      BY <3>4, <3>5, <3>6
  <2>3. ASSUME UNCHANGED total_packets,
               \A s \in Stages : Posted(s)' = Posted(s)
        PROVE  [Feed!Next]_(Feed!vars)
    BY <2>0, <2>3 DEF Feed!vars
  <2>4. ASSUME NEW s \in Stages, Await(s) \/ Work(s) \/ CheckTotal(s)
        PROVE  [Feed!Next]_(Feed!vars)
    <3>1. total_packets' = total_packets
      BY <2>4 DEF Await, Work, CheckTotal
    <3>2. \A t \in Stages : Posted(t)' = Posted(t)
      <4>1. CASE Await(s)
        BY <2>0, <4>1 DEF Await, Posted
      <4>2. CASE Work(s)
        BY <2>0, <4>2 DEF Work, Posted
      <4>3. CASE CheckTotal(s)
        BY <2>0, <4>3 DEF CheckTotal, Posted
      <4> QED
        BY <2>4, <4>1, <4>2, <4>3
    <3> QED
      BY <2>3, <3>1, <3>2
  <2>5. CASE FillPacket
    <3>1. \A s \in Stages : stage[s] # "check" /\ stage[s] # "done"
                            <=> stage'[s] # "check" /\ stage'[s] # "done"
      <4>1. CASE sent = 0
        <5>1. \A s \in Stages : stage[s] = "unborn"
          BY <2>5, <4>1 DEF FillPacket, IInv, Ending
        <5> QED
          BY <2>5, <4>1, <5>1 DEF FillPacket
      <4>2. CASE sent # 0
        BY <2>5, <4>2 DEF FillPacket
      <4> QED
        BY <4>1, <4>2
    <3>2. count' = count /\ total_packets' = total_packets
      BY <2>5 DEF FillPacket
    <3>3. \A s \in Stages : Posted(s)' = Posted(s)
      BY <3>1, <3>2 DEF Posted
    <3> QED
      BY <2>3, <3>2, <3>3
  <2>6. CASE AwaitSlot \/ GetPacket \/ GetPacketFails \/ PostPacket \/ JoinAndWrite
             \/ UNCHANGED vars
    <3>1. UNCHANGED <<stage, count, total_packets>>
      BY <2>6 DEF AwaitSlot, GetPacket, GetPacketFails, PostPacket, JoinAndWrite, vars
    <3>2. \A s \in Stages : Posted(s)' = Posted(s)
      BY <3>1 DEF Posted
    <3> QED
      BY <2>3, <3>1, <3>2
  <2> QED
    BY <2>1, <2>2, <2>4, <2>5, <2>6 DEF Next, Main, Stage
<1> QED
  BY <1>1, <1>2, Invariance, PTL DEF Spec, ImplementsFeed, Feed!Spec

=============================================================================
