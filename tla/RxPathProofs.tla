---------------------------- MODULE RxPathProofs ----------------------------
(* Proofs about RxPath, for every size of packets, blocks and rings, every *)
(* amount asked for, and every way TCP cuts the stream.                    *)
EXTENDS RxPath, SequenceTheorems, TLAPS

-----------------------------------------------------------------------------
(* Positions.                                                              *)

LEMMA Mono ==
  ASSUME NEW d \in Nat, NEW a \in Int, NEW b \in Int, a <= b
  PROVE  a * d <= b * d
OBVIOUS

(* The quotient and the remainder are the only ones.                       *)
LEMMA Euclid ==
  ASSUME NEW d \in Nat \ {0}, NEW q \in Nat, NEW r \in 0 .. d - 1
  PROVE  (q * d + r) \div d = q /\ (q * d + r) % d = r
<1> DEFINE x == q * d + r
           p == x \div d
<1>1. x \in Nat /\ p \in Int /\ x % d \in 0 .. d - 1 /\ x = d * p + (x % d)
  OBVIOUS
<1>2. CASE p < q
  <2>1. (p + 1) * d <= q * d
    BY <1>1, <1>2, Mono
  <2> QED BY <1>1, <2>1
<1>3. CASE p > q
  <2>1. (q + 1) * d <= p * d
    BY <1>1, <1>3, Mono
  <2> QED BY <1>1, <2>1
<1> QED BY <1>1, <1>2, <1>3

LEMMA Division ==
  ASSUME NEW d \in Nat \ {0}, NEW x \in Nat
  PROVE  x \div d \in Nat /\ x % d \in 0 .. d - 1 /\ x = (x \div d) * d + (x % d)
OBVIOUS

(* Two sequences, one after the other.                                     *)
LEMMA Appended ==
  ASSUME NEW s \in Seq(Nat), NEW t \in Seq(Nat)
  PROVE  /\ s \o t \in Seq(Nat) /\ Len(s \o t) = Len(s) + Len(t)
         /\ \A i \in 1 .. Len(s) + Len(t) :
              (s \o t)[i] = IF i <= Len(s) THEN s[i] ELSE t[i - Len(s)]
OBVIOUS

-----------------------------------------------------------------------------
(* The ring.                                                               *)

(* How far block b is from block t on the way round; the blocks handed     *)
(* over are the first ones from tail on.                                   *)
Far(b, t) == IF b >= t THEN b - t ELSE b - t + BlkCount
Dist(b) == Far(b, tail)
Handed(b) == Dist(b) < count

LEMMA FarType ==
  ASSUME NEW b \in Slots, NEW t \in Slots
  PROVE  Far(b, t) \in 0 .. BlkCount - 1 /\ (Far(b, t) = 0 <=> b = t)
BY BlkCountAssumption DEF Far, Slots

LEMMA FarOne ==
  ASSUME NEW a \in Slots, NEW b \in Slots, NEW t \in Slots, Far(a, t) = Far(b, t)
  PROVE  a = b
BY BlkCountAssumption DEF Far, Slots

(* The block after the last one that counts.                               *)
LEMMA FarHead ==
  ASSUME NEW h \in Slots, NEW t \in Slots
  PROVE  /\ PINC(h) \in Slots
         /\ Far(h, t) < BlkCount - 1 => Far(PINC(h), t) = Far(h, t) + 1
         /\ Far(h, t) = BlkCount - 1 <=> PINC(h) = t
<1>1. PINC(h) = IF h = BlkCount - 1 THEN 0 ELSE h + 1
  BY BlkCountAssumption, SMT DEF PINC, Slots
<1> QED BY <1>1, BlkCountAssumption DEF Far, Slots

(* When the first one is released, the others move up.                     *)
LEMMA FarTail ==
  ASSUME NEW b \in Slots, NEW t \in Slots
  PROVE  Far(b, PINC(t)) = IF b = t THEN BlkCount - 1 ELSE Far(b, t) - 1
<1>1. PINC(t) = IF t = BlkCount - 1 THEN 0 ELSE t + 1
  BY BlkCountAssumption, SMT DEF PINC, Slots
<1> QED BY <1>1, BlkCountAssumption DEF Far, Slots

(* What the tests of the fifo see.                                         *)
LEMMA Tests ==
  ASSUME FifoTypeOK, count = Dist(head), count < BlkCount
  PROVE  /\ Empty <=> count = 0
         /\ Full <=> count = BlkCount - 1
         /\ Dist(tail) = 0 /\ Dist(head) = count
         /\ \A b \in Slots : Dist(b) \in Nat
         /\ \A b \in Slots : Handed(b) => b # head
<1>1. head \in Slots /\ tail \in Slots
  BY DEF FifoTypeOK
<1>2. Dist(tail) = 0 /\ Dist(head) = count /\ \A b \in Slots : Dist(b) \in Nat
  BY <1>1, FarType DEF Dist
<1>3. Empty <=> count = 0
  BY <1>1, <1>2, FarType DEF Dist, Empty
<1>4. Full <=> count = BlkCount - 1
  BY <1>1, <1>2, FarHead DEF Dist, Full
<1>5. \A b \in Slots : Handed(b) => b # head
  BY <1>2, BlkCountAssumption DEF Handed, FifoTypeOK
<1> QED BY <1>2, <1>3, <1>4, <1>5

-----------------------------------------------------------------------------
(* The inductive invariant.                                                *)

(* Samples put out, and the packets they are from: those that are done     *)
(* with, and those that have been looked at.                               *)
Out == nwritten + recv
Done == Out \div Payload
Seen == IF partial > 0 \/ blk = "copy" THEN Done + 1 ELSE Done

(* TypeOK without the bounds that only the data give.                      *)
Types ==
  /\ FifoTypeOK
  /\ pump \in {"select", "start", "recv", "complete", "ended"}
  /\ done \in BOOLEAN /\ amount \in 0 .. BlkSize /\ received \in 0 .. MaxUnits
  /\ blk \in {"idle", "loop", "copy", "finished", "joining", "stopped"}
  /\ want \in 0 .. MaxItems /\ recv \in 0 .. want
  /\ partial \in 0 .. Payload - 1 /\ packet \in Nat
  /\ nwritten \in Nat
  /\ useFracSec \in BOOLEAN /\ rateKnown \in BOOLEAN

(* The blocks from tail to head are full ones, and one stays free; only    *)
(* the one in the reader's hands can be read in part.                      *)
Ring ==
  /\ count = Dist(head) /\ count < BlkCount
  /\ outBlk # NoBlk => /\ outBlk = head /\ count < BlkCount - 1
                       /\ len[head] < BlkSize /\ read[head] = 0
  /\ inBlk # NoBlk => inBlk = tail /\ count > 0
  /\ \A b \in Slots : Handed(b) =>
       len[b] = BlkSize /\ read[b] < BlkSize /\ (inBlk # b => read[b] = 0)

PumpOK ==
  /\ pump \in {"recv", "complete"} => outBlk # NoBlk
  /\ IF pump = "complete" THEN amount > 0 /\ len[outBlk] + amount <= BlkSize
                          ELSE amount = 0

(* With m blocks released, the memory of each block handed over is the     *)
(* stream from the beginning of its own block on, and that of the block in *)
(* hand from the end of those; what is read next is the first packet not   *)
(* done with.                                                              *)
Memory(m) ==
  /\ Published = (m + count) * BlkSize
  /\ Done * PktSize = m * BlkSize + (IF Empty THEN 0 ELSE read[tail])
  /\ \A b \in Slots : Handed(b) =>
       \A i \in Cells : buf[b][i] = (m + Dist(b)) * BlkSize + i
  /\ outBlk # NoBlk =>
       \A i \in Cells : i < len[outBlk] + amount => buf[outBlk][i] = Published + i

(* The packet at hand is in the block in hand.                             *)
PacketOK ==
  /\ partial = Out % Payload /\ packet <= received
  /\ blk = "copy" => partial = 0 /\ recv < want /\ packet = Done * PktSize
  /\ partial > 0 \/ blk = "copy" => inBlk # NoBlk

(* What this work call has, and that no call has anything between two.     *)
CallOK ==
  /\ rBuf \in Seq(Nat) /\ Len(rBuf) = recv
  /\ SamplesInOrder
  /\ tList = [i \in 1 .. Seen - Begun |->
                [offset |-> (Begun + i - 1) * Payload - nwritten,
                 packet |-> (Begun + i - 1) * PktSize]]
  /\ blk = "idle" => want = 0

(* No tag comes before the rate is known, and none is left out after.      *)
TagsOK ==
  \E first \in 0 .. Begun :
    /\ tags = {[at |-> k * Payload, packet |-> k * PktSize] : k \in first .. Begun - 1}
    /\ ~useFracSec => first = 0
    /\ useFracSec /\ ~rateKnown => first = Begun

Inv ==
  /\ Types /\ Ring /\ PumpOK
  /\ \E m \in Nat : Memory(m)
  /\ PacketOK /\ CallOK /\ TagsOK

-----------------------------------------------------------------------------
(* What the tests of the fifo see.                                         *)
LEMMA RingTests ==
  ASSUME Types, Ring
  PROVE  /\ Empty <=> count = 0
         /\ Full <=> count = BlkCount - 1
         /\ Dist(tail) = 0 /\ Dist(head) = count
         /\ \A b \in Slots : Dist(b) \in Nat
         /\ \A b \in Slots : Handed(b) => b # head
BY Tests DEF Types, Ring

-----------------------------------------------------------------------------
(* Packets.                                                                *)

LEMMA Sizes ==
  /\ PktSize \in Nat \ {0} /\ Payload \in Nat \ {0} /\ PktSize = Payload + 1
  /\ BlkSize \in Nat \ {0} /\ BlkCount \in Nat /\ BlkCount >= 2
  /\ Cells = 0 .. BlkSize - 1
BY PktSizeAssumption, BlkSizeAssumption, BlkCountAssumption DEF Payload, Cells

(* A packet that begins in a block ends in it.                             *)
LEMMA Whole ==
  ASSUME NEW n \in Nat, NEW m \in Nat, NEW r \in 0 .. BlkSize - 1,
         n * PktSize = m * BlkSize + r
  PROVE  /\ r + PktSize <= BlkSize
         /\ (BlkSize - r) % PktSize = 0
<1> DEFINE W == BlkSize \div PktSize
           k == n - m * W
<1> USE Sizes
<1>1. W \in Nat /\ BlkSize = W * PktSize
  <2>1. /\ BlkSize \div PktSize \in Nat
        /\ BlkSize = (BlkSize \div PktSize) * PktSize + (BlkSize % PktSize)
    BY Division
  <2> QED BY ONLY <2>1, BlkSizeIsPackets, Sizes
<1>2. k \in Int /\ r = k * PktSize
  <2>1. m * BlkSize = (m * W) * PktSize
    <3> HIDE DEF W
    <3> QED BY ONLY <1>1, Sizes
  <2>2. k * PktSize = n * PktSize - (m * W) * PktSize /\ k \in Int
    BY <1>1
  <2> QED BY <2>1, <2>2
<1> HIDE DEF k, W
<1>3. k < W
  <2>1. CASE W <= k
    <3>1. W * PktSize <= k * PktSize
      BY <1>1, <1>2, <2>1, Mono
    <3> QED BY <1>1, <1>2, <3>1
  <2> QED BY <1>1, <1>2, <2>1
<1>4. (k + 1) * PktSize <= W * PktSize
  <2>1. k + 1 \in Int /\ k + 1 <= W
    BY <1>1, <1>2, <1>3
  <2> QED BY ONLY <1>1, <2>1, Mono, Sizes
<1>5. (k + 1) * PktSize = r + PktSize
  BY <1>2
<1>6. (BlkSize - r) % PktSize = 0
  <2>1. W - k \in Nat
    BY <1>1, <1>2, <1>3
  <2>2. (W - k) * PktSize = W * PktSize - k * PktSize
    BY <1>1, <1>2
  <2>3. ((W - k) * PktSize + 0) % PktSize = 0
    BY ONLY <2>1, Euclid, Sizes
  <2> QED BY <1>1, <1>2, <2>2, <2>3
<1> QED BY <1>1, <1>4, <1>5, <1>6

(* Sample r of packet n.                                                   *)
LEMMA SampleOf ==
  ASSUME NEW n \in Nat, NEW r \in 0 .. Payload - 1
  PROVE  SampleAt(n * Payload + r) = n * PktSize + 1 + r
BY Euclid, Sizes DEF SampleAt

(* Packets that are begun when those before sample n * Payload + r are.    *)
LEMMA BegunAt ==
  ASSUME NEW n \in Nat, NEW r \in 0 .. Payload - 1
  PROVE  ((n * Payload + r) + Payload - 1) \div Payload = IF r = 0 THEN n ELSE n + 1
<1>1. CASE r = 0
  <2>1. (n * Payload + r) + Payload - 1 = n * Payload + (Payload - 1)
    BY <1>1, Sizes
  <2> QED BY <1>1, <2>1, Euclid, Sizes
<1>2. CASE r > 0
  <2>1. (n * Payload + r) + Payload - 1 = (n + 1) * Payload + (r - 1)
    BY <1>2, Sizes
  <2>2. n + 1 \in Nat /\ r - 1 \in 0 .. Payload - 1
    BY <1>2, Sizes
  <2>3. ((n + 1) * Payload + (r - 1)) \div Payload = n + 1
    BY ONLY <2>2, Euclid, Sizes
  <2> QED BY <1>2, <2>1, <2>3
<1> QED BY <1>1, <1>2

-----------------------------------------------------------------------------
(* The invariant holds at first.                                           *)

LEMMA InvInit == Init => Inv
<1> SUFFICES ASSUME Init PROVE Inv
  OBVIOUS
<1> USE Sizes
<1>1. Out = 0 /\ Done = 0 /\ Begun = 0 /\ Seen = 0 /\ Out % Payload = 0
  <2>1. (0 * Payload + 0) \div Payload = 0 /\ (0 * Payload + 0) % Payload = 0
    BY Euclid
  <2>2. ((0 * Payload + 0) + Payload - 1) \div Payload = 0
    BY BegunAt
  <2> QED BY <2>1, <2>2 DEF Init, Out, Done, Begun, Seen
<1>2. Types
  BY SMTT(60), BoundsAssumption DEF Init, FifoInit, Types, FifoTypeOK, Slots, NoBlk
<1>3. Ring
  BY DEF Init, FifoInit, Ring, Handed, Dist, Far, Slots
<1>4. PumpOK
  BY DEF Init, PumpOK
<1>5. Memory(0)
  BY <1>1 DEF Init, FifoInit, Memory, Handed, Dist, Far, Slots, Empty, Published
<1>6. PacketOK
  BY <1>1 DEF Init, PacketOK
<1>7. CallOK
  BY <1>1 DEF Init, CallOK, SamplesInOrder
<1>8. TagsOK
  BY <1>1 DEF Init, TagsOK
<1> QED BY <1>2, <1>3, <1>4, <1>5, <1>6, <1>7, <1>8 DEF Inv

-----------------------------------------------------------------------------
(* Steps that only move a thread.                                          *)

LEMMA Moves ==
  ASSUME Inv, UNCHANGED <<fifoVars, amount, received, workVars, outVars>>,
         pump' \in {"select", "start", "recv", "complete", "ended"}, PumpOK',
         done' \in BOOLEAN,
         blk' \in {"idle", "loop", "copy", "finished", "joining", "stopped"},
         blk' = "copy" <=> blk = "copy", blk' = "idle" => blk = "idle"
  PROVE  Inv'
<1> USE DEF fifoVars, workVars, outVars
<1>1. Out' = Out /\ Done' = Done /\ Seen' = Seen /\ Begun' = Begun
  BY DEF Out, Done, Seen, Begun
<1>2. Types'
  BY DEF Inv, Types, FifoTypeOK
<1>3. Ring'
  BY DEF Inv, Ring, Handed, Dist
<1>4. \A m \in Nat : Memory(m) => Memory(m)'
  BY <1>1 DEF Memory, Handed, Dist, Published, Empty
<1>5. PacketOK'
  BY <1>1 DEF Inv, PacketOK
<1>6. CallOK'
  BY <1>1 DEF Inv, CallOK, SamplesInOrder
<1>7. TagsOK'
  BY <1>1 DEF Inv, TagsOK
<1> QED BY <1>2, <1>3, <1>4, <1>5, <1>6, <1>7 DEF Inv

LEMMA PumpMoves ==
  ASSUME Inv, Select \/ PumpSeesDone \/ RecvNothing \/ RecvEnds
  PROVE  Inv'
<1>1. /\ UNCHANGED <<fifoVars, amount, received, blk, workVars, outVars>>
      /\ pump' \in {"select", "start", "ended"} /\ done' \in BOOLEAN
  BY DEF Inv, Types, Select, PumpSeesDone, RecvNothing, RecvEnds, PumpAt
<1>2. PumpOK'
  BY <1>1 DEF Inv, PumpOK, Select, PumpSeesDone, RecvNothing, RecvEnds
<1> QED BY <1>1, <1>2, Moves DEF Inv, Types

LEMMA BlockMoves ==
  ASSUME Inv, WaitTimesOut \/ Joined \/ Detach
  PROVE  Inv'
<1>1. /\ UNCHANGED <<fifoVars, pump, amount, received, workVars, outVars>>
      /\ blk # "copy" /\ blk' \in {"finished", "joining", "stopped"} /\ done' \in BOOLEAN
  BY DEF Inv, Types, WaitTimesOut, NeedsPacket, Joined, Detach, BlockAt, pumpVars
<1>2. PumpOK'
  BY <1>1 DEF Inv, PumpOK, fifoVars
<1> QED BY <1>1, <1>2, Moves DEF Inv, Types

-----------------------------------------------------------------------------
(* The pump's steps in the fifo.                                           *)

(* What the block's thread has is its own.                                 *)
LEMMA PumpKeeps ==
  ASSUME Inv, UNCHANGED <<blk, workVars, outVars>>, UNCHANGED inBlk,
         received' = received \/ (received' \in Nat /\ received <= received')
  PROVE  /\ Out' = Out /\ Done' = Done /\ Seen' = Seen
         /\ PacketOK' /\ CallOK' /\ TagsOK'
<1> USE DEF workVars, outVars
<1>1. Out' = Out /\ Done' = Done /\ Seen' = Seen /\ Begun' = Begun
  BY DEF Out, Done, Seen, Begun
<1>2. PacketOK'
  <2>1. packet' <= received'
    BY DEF Inv, PacketOK, Types
  <2> QED BY <1>1, <2>1 DEF Inv, PacketOK
<1>3. CallOK'
  BY <1>1 DEF Inv, CallOK, SamplesInOrder
<1>4. TagsOK'
  BY <1>1 DEF Inv, TagsOK
<1> QED BY <1>1, <1>2, <1>3, <1>4

LEMMA InvWriteStart ==
  ASSUME Inv, WriteStart
  PROVE  Inv'
<1>1. CASE UNCHANGED fifoVars
  <2>1. /\ UNCHANGED <<fifoVars, amount, received, blk, workVars, outVars, done>>
        /\ pump' \in {"select", "recv"} /\ (pump' = "recv" => outBlk # NoBlk)
    BY <1>1 DEF WriteStart, PumpAt, TakeOut, fifoVars, NoBlk, Inv, Types, FifoTypeOK, Slots
  <2>2. PumpOK'
    BY <2>1 DEF Inv, PumpOK, WriteStart, fifoVars
  <2> QED BY <2>1, <2>2, Moves DEF Inv, Types
<1>2. CASE outBlk = NoBlk /\ ~Full /\ TakeOut /\ PumpAt("recv")
  <2> USE Sizes
  <2>1. /\ head \in Slots /\ tail \in Slots /\ NoBlk \notin Slots
        /\ \A b \in Slots : Handed(b) => b # head
        /\ count < BlkCount - 1
    <3>1. head \in Slots /\ tail \in Slots /\ count \in Nat /\ NoBlk \notin Slots
      BY DEF Inv, Types, FifoTypeOK, Slots, NoBlk
    <3>2. count < BlkCount /\ count # BlkCount - 1
      BY <1>2, RingTests DEF Inv, Ring
    <3> QED BY <3>1, <3>2, RingTests DEF Inv
  <2>2. /\ UNCHANGED <<head, tail, count, buf, inBlk, done, amount, received, blk,
                       workVars, outVars>>
        /\ outBlk' = head /\ len' = [len EXCEPT ![head] = 0]
        /\ read' = [read EXCEPT ![head] = 0] /\ pump' = "recv"
    BY <1>2 DEF WriteStart, TakeOut, PumpAt
  <2>3. Types'
    <3>1. len' \in [Slots -> 0 .. BlkSize] /\ read' \in [Slots -> 0 .. BlkSize]
      BY SMTT(60), <2>2 DEF Inv, Types, FifoTypeOK
    <3>2. FifoTypeOK'
      BY <2>1, <2>2, <3>1 DEF Inv, Types, FifoTypeOK, Slots
    <3> QED BY <2>2, <3>2 DEF Inv, Types, workVars, outVars
  <2>4. \A b \in Slots : (Handed(b)' <=> Handed(b)) /\ Dist(b)' = Dist(b)
    BY <2>2 DEF Handed, Dist
  <2>5. Ring'
    <3>1. count' = Dist(head)' /\ count' < BlkCount
      BY <2>1, <2>2, <2>4 DEF Inv, Ring
    <3>2. /\ outBlk' = head' /\ count' < BlkCount - 1
          /\ len'[head] < BlkSize /\ read'[head] = 0
      BY <2>1, <2>2 DEF Inv, Types, FifoTypeOK
    <3>3. inBlk' # NoBlk => inBlk' = tail' /\ count' > 0
      BY <2>2 DEF Inv, Ring
    <3>4. \A b \in Slots : Handed(b)' =>
            len'[b] = BlkSize /\ read'[b] < BlkSize /\ (inBlk' # b => read'[b] = 0)
      BY <2>1, <2>2, <2>4 DEF Inv, Ring, Types, FifoTypeOK
    <3> QED BY <2>2, <3>1, <3>2, <3>3, <3>4 DEF Ring
  <2>6. PumpOK'
    BY <1>2, <2>1, <2>2 DEF Inv, PumpOK, WriteStart
  <2>7. ASSUME NEW m \in Nat, Memory(m)
        PROVE  Memory(m)'
    <3>1. amount = 0 /\ len'[head] = 0 /\ received \in Nat
      BY <2>1, <2>2, <1>2 DEF Inv, PumpOK, Types, FifoTypeOK, WriteStart
    <3>2. Published' = Published
      BY <1>2, <2>1, <2>2, <3>1 DEF Published
    <3>3. Empty' = Empty /\ (~Empty => read'[tail] = read[tail])
      BY <2>1, <2>2 DEF Empty, Inv, Types, FifoTypeOK
    <3>4. Done' = Done
      BY <2>2, PumpKeeps
    <3>5. Published' = (m + count') * BlkSize
      BY <2>2, <2>7, <3>2 DEF Memory
    <3>6. Done' * PktSize = m * BlkSize + (IF Empty' THEN 0 ELSE read'[tail'])
      BY <2>2, <2>7, <3>3, <3>4 DEF Memory
    <3>7. \A b \in Slots : Handed(b)' =>
            \A i \in Cells : buf'[b][i] = (m + Dist(b)') * BlkSize + i
      BY <2>2, <2>4, <2>7 DEF Memory
    <3>8. \A i \in Cells : ~(i < len'[outBlk'] + amount')
      BY <2>2, <3>1
    <3> QED BY <3>5, <3>6, <3>7, <3>8 DEF Memory
  <2> QED BY <2>2, <2>3, <2>5, <2>6, <2>7, PumpKeeps DEF Inv
<1> QED BY <1>1, <1>2 DEF WriteStart

LEMMA InvRecv ==
  ASSUME Inv, NEW amt \in 1 .. BlkSize, Recv(amt)
  PROVE  Inv'
<1> USE Sizes
<1>1. /\ head \in Slots /\ outBlk = head /\ outBlk # NoBlk /\ amount = 0
      /\ len[head] \in 0 .. BlkSize /\ received \in Nat
      /\ \A b \in Slots : Handed(b) => b # head
  BY RingTests DEF Inv, Types, FifoTypeOK, PumpOK, Ring, Recv
<1>2. /\ UNCHANGED <<head, tail, count, len, read, outBlk, inBlk, done, blk,
                     workVars, outVars>>
      /\ amount' = amt /\ received' = received + amt /\ pump' = "complete"
      /\ len[head] + amt <= BlkSize /\ received + amt <= MaxUnits
      /\ buf' = [buf EXCEPT ![head] =
                   [i \in Cells |-> IF i \in len[head] .. len[head] + amt - 1
                                    THEN received + (i - len[head]) ELSE @[i]]]
  BY <1>1 DEF Recv, PumpAt
<1> received' \in Nat /\ received <= received'
  BY <1>1, <1>2
<1>3. Types'
  <2>1. buf' \in [Slots -> [Cells -> Nat]]
    <3>1. buf[head] \in [Cells -> Nat]
      BY <1>1 DEF Inv, Types, FifoTypeOK
    <3>2. \A i \in Cells : i \in len[head] .. len[head] + amt - 1
                             => received + (i - len[head]) \in Nat
      BY <1>1
    <3>3. [i \in Cells |-> IF i \in len[head] .. len[head] + amt - 1
                           THEN received + (i - len[head]) ELSE buf[head][i]]
            \in [Cells -> Nat]
      BY <3>1, <3>2
    <3> QED BY <1>1, <1>2, <3>3 DEF Inv, Types, FifoTypeOK
  <2>2. FifoTypeOK'
    BY <1>2, <2>1 DEF Inv, Types, FifoTypeOK
  <2>3. amount' \in 0 .. BlkSize /\ received' \in 0 .. MaxUnits
    BY <1>1, <1>2, BoundsAssumption
  <2> QED BY <1>2, <2>2, <2>3 DEF Inv, Types, workVars, outVars
<1>4. \A b \in Slots : (Handed(b)' <=> Handed(b)) /\ Dist(b)' = Dist(b)
  BY <1>2 DEF Handed, Dist
<1>5. Ring'
  <2>1. count' = Dist(head)'
    BY <1>2 DEF Inv, Ring, Dist
  <2> QED BY <1>2, <1>4, <2>1 DEF Inv, Ring
<1>6. PumpOK'
  BY <1>1, <1>2 DEF PumpOK
<1>7. ASSUME NEW m \in Nat, Memory(m)
      PROVE  Memory(m)'
  <2>1. Published' = Published /\ Published = received - len[head]
    BY <1>1, <1>2 DEF Published
  <2>2. Done' = Done
    BY <1>2, PumpKeeps
  <2>3. \A b \in Slots : Handed(b) => buf'[b] = buf[b]
    BY <1>1, <1>2 DEF Inv, Types, FifoTypeOK
  <2>4. ASSUME NEW i \in Cells, i < len'[outBlk'] + amount'
        PROVE  buf'[outBlk'][i] = Published' + i
    <3>1. buf'[head][i] = IF i \in len[head] .. len[head] + amt - 1
                          THEN received + (i - len[head]) ELSE buf[head][i]
      BY <1>1, <1>2 DEF Inv, Types, FifoTypeOK
    <3>2. i < len[head] => buf[head][i] = Published + i
      BY <1>1, <1>7 DEF Memory
    <3> QED BY SMTT(60), <1>1, <1>2, <2>1, <2>4, <3>1, <3>2
  <2>5. Published' = (m + count') * BlkSize
    BY <1>2, <1>7, <2>1 DEF Memory
  <2>6. Done' * PktSize = m * BlkSize + (IF Empty' THEN 0 ELSE read'[tail'])
    BY <1>2, <1>7, <2>2 DEF Memory, Empty
  <2>7. \A b \in Slots : Handed(b)' =>
          \A i \in Cells : buf'[b][i] = (m + Dist(b)') * BlkSize + i
    <3>1. \A b \in Slots : Handed(b) =>
            \A i \in Cells : buf[b][i] = (m + Dist(b)) * BlkSize + i
      BY <1>7 DEF Memory
    <3> QED BY ONLY <1>4, <2>3, <3>1
  <2> QED BY <2>4, <2>5, <2>6, <2>7 DEF Memory
<1> QED BY <1>2, <1>3, <1>5, <1>6, <1>7, PumpKeeps DEF Inv

LEMMA InvWriteComplete ==
  ASSUME Inv, WriteComplete
  PROVE  Inv'
<1> USE Sizes
<1>1. /\ head \in Slots /\ tail \in Slots /\ count \in Nat /\ NoBlk \notin Slots
      /\ outBlk = head /\ outBlk # NoBlk /\ count < BlkCount - 1 /\ count = Dist(head)
      /\ len[head] \in 0 .. BlkSize - 1 /\ amount > 0 /\ len[head] + amount <= BlkSize
      /\ amount \in Nat /\ received \in Nat
  BY SMTT(60) DEF Inv, Types, FifoTypeOK, PumpOK, Ring, WriteComplete, Slots, NoBlk
<1>2. /\ UNCHANGED <<tail, read, buf, inBlk, done, received, blk, workVars, outVars>>
      /\ len' = [len EXCEPT ![head] = @ + amount] /\ amount' = 0 /\ pump' = "start"
  BY <1>1 DEF WriteComplete, CommitOut, PumpAt
<1>3. PumpOK'
  BY <1>2 DEF PumpOK
<1>4. len' \in [Slots -> 0 .. BlkSize] /\ len'[head] = len[head] + amount
      /\ \A b \in Slots : b # head => len'[b] = len[b]
  <2>1. len \in [Slots -> 0 .. BlkSize]
    BY DEF Inv, Types, FifoTypeOK
  <2>2. len[head] + amount \in 0 .. BlkSize
    BY <1>1
  <2> QED BY ONLY <1>1, <1>2, <2>1, <2>2
<1>5. \A b \in Slots : Handed(b) => b # head
  BY RingTests DEF Inv
<1>6. CASE Closes(amount)
  <2>1. count' = count + 1 /\ head' = PINC(head) /\ outBlk' = NoBlk
        /\ len'[head] = BlkSize
    BY <1>1, <1>4, <1>6 DEF WriteComplete, CommitOut, Closes
  <2>2. head' \in Slots /\ Far(head', tail) = count + 1
    BY <1>1, <2>1, FarHead DEF Dist
  <2>3. Types'
    <3>1. count' \in 0 .. BlkCount /\ outBlk' \in Slots \cup {NoBlk}
      BY <1>1, <2>1
    <3>2. FifoTypeOK'
      BY <1>2, <1>4, <2>2, <3>1 DEF Inv, Types, FifoTypeOK
    <3> QED BY <1>2, <3>2 DEF Inv, Types, workVars, outVars
  <2>4. \A b \in Slots : Dist(b)' = Dist(b)
    BY <1>2 DEF Dist
  <2>5. ASSUME NEW b \in Slots, Handed(b)'
        PROVE  Handed(b) \/ (b = head /\ Dist(b) = count)
    <3>1. Dist(b) \in Nat /\ Dist(b) < count + 1
      BY <2>1, <2>4, <2>5, RingTests DEF Handed, Inv
    <3>2. Dist(b) = count => b = head
      BY <1>1, FarOne DEF Dist
    <3> QED BY <1>1, <3>1, <3>2 DEF Handed
  <2>6. Ring'
    <3>1. count' = Dist(head)' /\ count' < BlkCount
      BY <1>1, <1>2, <2>1, <2>2 DEF Dist
    <3>2. inBlk' # NoBlk => inBlk' = tail' /\ count' > 0
      BY <1>1, <1>2, <2>1 DEF Inv, Ring
    <3>3. ASSUME NEW b \in Slots, Handed(b)'
          PROVE  len'[b] = BlkSize /\ read'[b] < BlkSize /\ (inBlk' # b => read'[b] = 0)
      <4>1. CASE Handed(b)
        BY <1>2, <1>4, <1>5, <4>1 DEF Inv, Ring
      <4>2. CASE b = head
        BY <1>1, <1>2, <2>1, <4>2 DEF Inv, Ring
      <4> QED BY <2>5, <3>3, <4>1, <4>2
    <3> QED BY <2>1, <3>1, <3>2, <3>3 DEF Ring
  <2>7. ASSUME NEW m \in Nat, Memory(m)
        PROVE  Memory(m)'
    <3>1. /\ Published = received - amount - len[head] /\ Published' = received
          /\ Published = (m + count) * BlkSize
          /\ len[head] + amount = BlkSize
      BY <1>1, <1>2, <1>4, <2>1, <2>7 DEF Published, Memory
    <3>2. Published' = (m + count') * BlkSize
      <4>1. (m + (count + 1)) * BlkSize = (m + count) * BlkSize + BlkSize
        BY <1>1
      <4> QED BY SMTT(60), <1>1, <2>1, <3>1, <4>1
    <3>3. Done' * PktSize = m * BlkSize + (IF Empty' THEN 0 ELSE read'[tail'])
      <4>1. Done' = Done
        BY <1>2, PumpKeeps
      <4>2. Done * PktSize = m * BlkSize + (IF Empty THEN 0 ELSE read[tail])
        BY <2>7 DEF Memory
      <4>3. ~Empty'
        BY <1>1, <1>2, <2>1, <2>2, FarType DEF Empty
      <4>4. Empty => read[tail] = 0
        <5>1. Empty => tail = head
          BY DEF Empty
        <5>2. read[head] = 0
          BY <1>1 DEF Inv, Ring
        <5> QED BY <5>1, <5>2
      <4> QED BY <1>2, <4>1, <4>2, <4>3, <4>4
    <3>4. ASSUME NEW b \in Slots, Handed(b)', NEW i \in Cells
          PROVE  buf'[b][i] = (m + Dist(b)') * BlkSize + i
      <4>1. CASE Handed(b)
        BY <1>2, <2>4, <2>7, <4>1 DEF Memory
      <4>2. CASE b = head /\ Dist(b) = count
        <5>1. buf[head][i] = Published + i
          BY SMTT(60), <1>1, <2>7, <3>1 DEF Memory
        <5> QED BY <1>2, <2>4, <3>1, <4>2, <5>1
      <4> QED BY <2>5, <3>4, <4>1, <4>2
    <3> QED BY <2>1, <3>2, <3>3, <3>4 DEF Memory
  <2> QED BY <1>2, <1>3, <2>3, <2>6, <2>7, PumpKeeps DEF Inv
<1>7. CASE ~Closes(amount)
  <2>1. UNCHANGED <<head, count, outBlk>> /\ len'[head] < BlkSize
    BY <1>1, <1>4, <1>7 DEF WriteComplete, CommitOut, Closes
  <2>2. Types'
    <3>1. FifoTypeOK'
      BY <1>1, <1>2, <1>4, <2>1 DEF Inv, Types, FifoTypeOK
    <3> QED BY <1>2, <3>1 DEF Inv, Types, workVars, outVars
  <2>3. \A b \in Slots : (Handed(b)' <=> Handed(b)) /\ Dist(b)' = Dist(b)
    BY <1>2, <2>1 DEF Handed, Dist
  <2>4. Ring'
    <3>1. count' = Dist(head)'
      BY <1>1, <1>2, <2>1 DEF Dist
    <3> QED BY <1>1, <1>2, <1>4, <1>5, <2>1, <2>3, <3>1 DEF Inv, Ring
  <2>5. ASSUME NEW m \in Nat, Memory(m)
        PROVE  Memory(m)'
    <3>1. Published' = Published
      BY <1>1, <1>2, <1>4, <2>1 DEF Published
    <3>2. Done' = Done
      BY <1>2, PumpKeeps
    <3>3. len'[outBlk'] + amount' = len[outBlk] + amount
      BY <1>1, <1>2, <1>4, <2>1
    <3> QED BY <1>2, <2>1, <2>3, <2>5, <3>1, <3>2, <3>3 DEF Memory, Empty
  <2> QED BY <1>2, <1>3, <2>2, <2>4, <2>5, PumpKeeps DEF Inv
<1> QED BY <1>6, <1>7

-----------------------------------------------------------------------------
(* The steps of the block's thread in a work call.                         *)

(* The samples put out are those of the packets done with, and those taken *)
(* from the one at hand.                                                   *)
LEMMA Progress ==
  ASSUME Inv
  PROVE  /\ Done \in Nat /\ Out \in Nat /\ nwritten \in Nat /\ recv \in Nat
         /\ partial \in 0 .. Payload - 1 /\ Out = Done * Payload + partial
         /\ Begun \in Nat /\ Seen \in Nat
<1>1. nwritten \in Nat /\ recv \in Nat /\ partial \in 0 .. Payload - 1 /\ Out \in Nat
      /\ want \in Nat
  BY Sizes, BoundsAssumption DEF Inv, Types, Out
<1>2. Done \in Nat /\ Out = Done * Payload + partial
  BY <1>1, Sizes, Division DEF Inv, PacketOK, Done
<1>3. Begun \in Nat
  <2>1. nwritten + Payload - 1 \in Nat
    BY <1>1, Sizes
  <2> QED BY <2>1, Sizes, Division DEF Begun
<1> QED BY <1>1, <1>2, <1>3 DEF Seen

(* No packet has given a sample to the output that was not looked at.      *)
LEMMA BegunIsSeen ==
  ASSUME Inv
  PROVE  Begun <= Seen
<1> USE Sizes
<1>1. Begun \in Nat /\ Seen \in Nat /\ Done \in Nat /\ nwritten \in Nat /\ Out \in Nat
      /\ nwritten <= Out
  BY Progress DEF Out
<1>2. Begun * Payload <= nwritten + Payload - 1
  <2> DEFINE x == nwritten + Payload - 1
  <2>1. x \in Nat
    BY <1>1
  <2> HIDE DEF x
  <2>2. x = (x \div Payload) * Payload + (x % Payload) /\ x % Payload \in Nat
    BY <2>1, Division
  <2>3. (x \div Payload) * Payload <= x
    BY <2>1, <2>2
  <2> QED BY <2>3 DEF Begun, x
<1>3. Out <= Seen * Payload
  <2>1. (Done + 1) * Payload = Done * Payload + Payload
    BY <1>1
  <2> QED BY <2>1, Progress DEF Seen
<1>4. CASE Seen + 1 <= Begun
  <2>1. (Seen + 1) * Payload <= Begun * Payload
    BY <1>1, <1>4, Mono
  <2>2. (Seen + 1) * Payload = Seen * Payload + Payload
    BY <1>1
  <2> QED BY <1>1, <1>2, <1>3, <2>1, <2>2
<1> QED BY <1>1, <1>4

(* What is looked at has been received.                                    *)
LEMMA SeenIsReceived ==
  ASSUME Inv
  PROVE  /\ Done * PktSize <= received
         /\ ~Empty => (Done + 1) * PktSize <= received
<1> USE Sizes
<1>1. PICK m \in Nat : Memory(m)
  BY DEF Inv
<1>2. Published <= received /\ received \in Nat
  <2>1. amount \in Nat /\ received \in Nat
    BY DEF Inv, Types
  <2>2. outBlk # NoBlk => len[outBlk] \in Nat
    BY DEF Inv, Types, FifoTypeOK
  <2> QED BY <2>1, <2>2 DEF Published
<1>3. Published = (m + count) * BlkSize /\ count \in Nat /\ Done \in Nat
  <2>1. count \in Nat
    BY DEF Inv, Types, FifoTypeOK
  <2>2. Published = (m + count) * BlkSize
    BY <1>1 DEF Memory
  <2> QED BY <2>1, <2>2, Progress
<1>4. m * BlkSize <= (m + count) * BlkSize
  BY <1>3, Mono
<1>5. CASE Empty
  <2>1. Done * PktSize = m * BlkSize
    BY <1>1, <1>5 DEF Memory
  <2> QED BY <1>2, <1>3, <1>4, <1>5, <2>1
<1>6. CASE ~Empty
  <2>1. count > 0 /\ tail \in Slots /\ Handed(tail)
    <3>1. count # 0 /\ tail \in Slots /\ Dist(tail) = 0
      BY <1>6, RingTests DEF Inv, Types, FifoTypeOK
    <3> QED BY <1>3, <3>1 DEF Handed
  <2>2. read[tail] \in 0 .. BlkSize - 1
    <3>1. read[tail] \in 0 .. BlkSize /\ read[tail] < BlkSize
      BY <2>1 DEF Inv, Types, FifoTypeOK, Ring
    <3> QED BY <3>1
  <2>3. Done * PktSize = m * BlkSize + read[tail]
    BY <1>1, <1>6 DEF Memory
  <2>4. read[tail] + PktSize <= BlkSize
    BY ONLY <1>3, <2>2, <2>3, Whole
  <2>5. (m + 1) * BlkSize <= (m + count) * BlkSize
    BY <1>3, <2>1, Mono
  <2>6. (m + 1) * BlkSize = m * BlkSize + BlkSize
        /\ (Done + 1) * PktSize = Done * PktSize + PktSize
    BY <1>3
  <2>7. Done * PktSize \in Nat /\ m * BlkSize \in Nat
    BY <1>3
  <2> QED BY <1>2, <1>3, <2>2, <2>3, <2>4, <2>5, <2>6, <2>7
<1> QED BY <1>5, <1>6

(* Between two calls no packet is ahead of the tags.                       *)
LEMMA SeenIsBegun ==
  ASSUME Inv, recv = 0, blk # "copy"
  PROVE  Seen = Begun
<1>1. nwritten = Done * Payload + partial /\ Done \in Nat /\ partial \in 0 .. Payload - 1
  BY Progress DEF Out
<1>2. Begun = IF partial = 0 THEN Done ELSE Done + 1
  BY <1>1, BegunAt DEF Begun
<1> QED BY <1>1, <1>2, Sizes DEF Seen

LEMMA InvWork ==
  ASSUME Inv, NEW n \in 1 .. MaxItems, Work(n)
  PROVE  Inv'
<1> USE Sizes
<1>1. /\ UNCHANGED <<fifoVars, pumpVars, partial, packet, outVars>>
      /\ want' = n /\ recv' = 0 /\ tList' = <<>> /\ rBuf' = <<>>
      /\ blk = "idle" /\ blk' = "loop" /\ recv = 0
  BY DEF Work, BlockAt, Inv, Types, CallOK
<1>2. Out' = Out /\ Done' = Done /\ Seen' = Seen /\ Begun' = Begun
  BY <1>1 DEF Out, Done, Seen, Begun, outVars
<1>3. Types'
  <2>1. FifoTypeOK'
    BY <1>1 DEF Inv, Types, FifoTypeOK, fifoVars
  <2>2. want' \in 0 .. MaxItems /\ recv' \in 0 .. want'
    BY <1>1, BoundsAssumption
  <2> QED BY <1>1, <2>1, <2>2 DEF Inv, Types, pumpVars, outVars
<1>4. Ring' /\ PumpOK'
  BY <1>1 DEF Inv, Ring, PumpOK, Handed, Dist, fifoVars, pumpVars
<1>5. \A m \in Nat : Memory(m) => Memory(m)'
  BY <1>1, <1>2 DEF Memory, Handed, Dist, Published, Empty, fifoVars, pumpVars
<1>6. PacketOK'
  BY <1>1, <1>2 DEF Inv, PacketOK, fifoVars, pumpVars
<1>7. CallOK'
  <2>1. Seen' - Begun' = 0
    BY <1>1, <1>2, SeenIsBegun, Progress
  <2>2. rBuf' \in Seq(Nat) /\ Len(rBuf') = recv'
    BY <1>1
  <2>3. SamplesInOrder'
    BY <1>1 DEF SamplesInOrder
  <2> QED BY <1>1, <2>1, <2>2, <2>3 DEF CallOK
<1>8. TagsOK'
  BY <1>1, <1>2 DEF Inv, TagsOK, outVars
<1> QED BY <1>3, <1>4, <1>5, <1>6, <1>7, <1>8 DEF Inv

(* What ReceiveStart points at is the packet that is next.                 *)
LEMMA PeekedPacket ==
  ASSUME Inv, Peek
  PROVE  packet' = Done * PktSize /\ inBlk' = tail /\ tail \in Slots
<1> USE Sizes
<1>1. PICK m \in Nat : Memory(m)
  BY DEF Inv
<1>2. count > 0 /\ Handed(tail) /\ Dist(tail) = 0 /\ tail \in Slots /\ ~Empty
  <2>1. tail \in Slots /\ count \in Nat
    BY DEF Inv, Types, FifoTypeOK
  <2>2. count # 0 /\ Dist(tail) = 0 /\ ~Empty
    BY RingTests DEF Peek, Inv
  <2> QED BY <2>1, <2>2 DEF Handed
<1>3. read[tail] \in Cells /\ (inBlk = NoBlk => read[tail] = 0)
  <2>1. read[tail] \in 0 .. BlkSize /\ read[tail] < BlkSize /\ tail # NoBlk
    BY <1>2 DEF Inv, Types, FifoTypeOK, Ring, Slots, NoBlk
  <2> QED BY <1>2, <2>1 DEF Inv, Ring
<1>4. buf[tail][read[tail]] = Done * PktSize
  <2>1. buf[tail][read[tail]] = (m + Dist(tail)) * BlkSize + read[tail]
    BY <1>1, <1>2, <1>3 DEF Memory
  <2>2. Done * PktSize = m * BlkSize + read[tail]
    BY <1>1, <1>2 DEF Memory
  <2> QED BY <1>2, <2>1, <2>2
<1> QED BY <1>2, <1>3, <1>4 DEF Peek, TakeIn, fifoVars, Inv, Ring

LEMMA InvPeek ==
  ASSUME Inv, Peek
  PROVE  Inv'
<1> USE Sizes
<1>1. /\ UNCHANGED <<head, tail, count, len, read, buf, outBlk>>
      /\ UNCHANGED <<pumpVars, want, recv, partial, rBuf, outVars>>
      /\ blk = "loop" /\ blk' = "copy" /\ partial = 0 /\ recv < want
      /\ inBlk' = tail /\ packet' = Done * PktSize /\ tail \in Slots
      /\ tList' = Append(tList, [offset |-> recv, packet |-> packet'])
      /\ ~Empty
  BY PeekedPacket DEF Peek, NeedsPacket, BlockAt, TakeIn, fifoVars, Tag
<1>2. Out' = Out /\ Done' = Done /\ Begun' = Begun /\ Seen = Done /\ Seen' = Seen + 1
  BY <1>1, Progress DEF Out, Done, Seen, Begun, outVars
<1>3. Types'
  <2>1. Done * PktSize \in Nat
    BY Progress
  <2> QED BY <1>1, <2>1 DEF Inv, Types, FifoTypeOK, pumpVars, outVars
<1>4. Ring' /\ PumpOK'
  <2>1. count # 0 /\ count \in Nat
    BY <1>1, RingTests DEF Inv, Types, FifoTypeOK
  <2>2. \A b \in Slots : Handed(b)' = Handed(b) /\ Dist(b)' = Dist(b)
    BY <1>1 DEF Handed, Dist
  <2>3. \A b \in Slots : Handed(b) => (tail # b => read[b] = 0)
    BY DEF Inv, Ring, Slots, NoBlk
  <2>4. count' = Dist(head)'
    BY <1>1 DEF Inv, Ring, Dist
  <2> QED BY <1>1, <2>1, <2>2, <2>3, <2>4 DEF Inv, Ring, PumpOK, pumpVars
<1>5. \A m \in Nat : Memory(m) => Memory(m)'
  BY <1>1, <1>2 DEF Memory, Handed, Dist, Published, Empty, pumpVars
<1>6. PacketOK'
  BY <1>1, <1>2, SeenIsReceived DEF Inv, PacketOK, Slots, NoBlk, pumpVars
<1>7. CallOK'
  <2>1. rBuf' \in Seq(Nat) /\ Len(rBuf') = recv' /\ SamplesInOrder'
    BY <1>1 DEF Inv, CallOK, SamplesInOrder, outVars
  <2>2. tList' = [i \in 1 .. Seen' - Begun' |->
                    [offset |-> (Begun' + i - 1) * Payload - nwritten',
                     packet |-> (Begun' + i - 1) * PktSize]]
    <3> DEFINE Entry(i) == [offset |-> (Begun + i - 1) * Payload - nwritten,
                            packet |-> (Begun + i - 1) * PktSize]
               k == Seen - Begun
    <3>1. tList = [i \in 1 .. k |-> Entry(i)] /\ k \in Nat
      BY Progress, BegunIsSeen DEF Inv, CallOK
    <3>2. [offset |-> recv, packet |-> packet'] = Entry(k + 1)
      <4>1. Begun + (k + 1) - 1 = Done
        BY <1>2, Progress
      <4>2. Done * Payload - nwritten = recv
        BY <1>1, Progress DEF Out
      <4> QED BY <1>1, <4>1, <4>2
    <3> HIDE DEF Entry, k
    <3>3. tList' = [i \in 1 .. k + 1 |-> Entry(i)]
      BY <1>1, <3>1, <3>2
    <3>4. Seen' - Begun' = k + 1 /\ Begun' = Begun /\ nwritten' = nwritten
      BY <1>1, <1>2, Progress DEF k, outVars
    <3> QED BY <3>3, <3>4 DEF Entry
  <2> QED BY <1>1, <2>1, <2>2 DEF CallOK
<1>8. TagsOK'
  BY <1>1, <1>2 DEF Inv, TagsOK, outVars
<1> QED BY <1>3, <1>4, <1>5, <1>6, <1>7, <1>8 DEF Inv

(* Copy's amount, and the rest of the packet at hand.                      *)
Left == Payload - partial
Amount == IF want - recv > Left THEN Left ELSE want - recv

(* While a packet is at hand it lies whole in the block at tail.           *)
LEMMA PacketAtHand ==
  ASSUME Inv, NEW m \in Nat, Memory(m), partial > 0 \/ blk = "copy"
  PROVE  /\ inBlk = tail /\ tail \in Slots /\ ~Empty /\ count \in Nat /\ count > 0
         /\ Handed(tail) /\ Dist(tail) = 0
         /\ len[tail] = BlkSize /\ read[tail] \in 0 .. BlkSize - 1
         /\ read[tail] + PktSize <= BlkSize
         /\ (BlkSize - read[tail]) % PktSize = 0
         /\ Done * PktSize = m * BlkSize + read[tail]
<1> USE Sizes
<1>1. inBlk = tail /\ count > 0 /\ tail \in Slots /\ count \in Nat
  BY DEF Inv, PacketOK, Ring, Types, FifoTypeOK
<1>2. ~Empty /\ Dist(tail) = 0 /\ Handed(tail)
  BY <1>1, RingTests DEF Inv, Handed
<1>3. len[tail] = BlkSize /\ read[tail] \in 0 .. BlkSize - 1
  <2>1. read[tail] \in 0 .. BlkSize
    BY <1>1 DEF Inv, Types, FifoTypeOK
  <2> QED BY <1>1, <1>2, <2>1 DEF Inv, Ring
<1>4. Done * PktSize = m * BlkSize + read[tail]
  BY <1>2 DEF Memory
<1>5. read[tail] + PktSize <= BlkSize /\ (BlkSize - read[tail]) % PktSize = 0
  <2>1. Done \in Nat
    BY Progress
  <2> QED BY ONLY <1>3, <1>4, <2>1, Whole, Sizes
<1> QED BY <1>1, <1>2, <1>3, <1>4, <1>5

LEMMA CopyIs ==
  ASSUME Inv, Copy
  PROVE  /\ partial > 0 \/ blk = "copy"
         /\ Amount \in 1 .. Left /\ recv + Amount <= want /\ Left \in 1 .. Payload
         /\ blk' = "loop" /\ recv' = recv + Amount
         /\ rBuf' = rBuf \o [i \in 1 .. Amount |->
                               buf[inBlk][(read[inBlk] + 1 + partial) + i - 1]]
         /\ Advances(Amount, Left)
         /\ UNCHANGED <<pumpVars, want, packet, tList, outVars>>
<1>1. /\ want \in Nat /\ recv \in Nat /\ recv < want /\ partial \in 0 .. Payload - 1
      /\ partial > 0 \/ blk = "copy"
  BY Progress, BoundsAssumption DEF Inv, Types, Copy, PacketOK
<1>2. Left \in 1 .. Payload /\ Amount \in 1 .. Left /\ recv + Amount <= want
  BY <1>1, Sizes DEF Left, Amount
<1> QED BY <1>1, <1>2 DEF Copy, BlockAt, Left, Amount

(* How far Copy gets in the packet at hand.                                *)
LEMMA CopyProgress ==
  ASSUME Inv, Copy
  PROVE  /\ Seen = Done + 1 /\ Seen' = Seen /\ Begun' = Begun
         /\ partial' \in 0 .. Payload - 1 /\ partial' = Out' % Payload
         /\ IF Amount = Left THEN Done' = Done + 1 /\ partial' = 0
                             ELSE Done' = Done /\ partial' > 0
<1> USE Sizes
<1>1. /\ Out = Done * Payload + partial /\ Done \in Nat /\ partial \in 0 .. Payload - 1
      /\ nwritten \in Nat /\ recv \in Nat
  BY Progress
<1>2. /\ partial > 0 \/ blk = "copy"
      /\ Amount \in 1 .. Left /\ Left \in 1 .. Payload /\ Left = Payload - partial
      /\ blk' = "loop" /\ recv' = recv + Amount /\ nwritten' = nwritten
      /\ Advances(Amount, Left)
  BY CopyIs DEF outVars, Left
<1>3. Out' = Done * Payload + partial + Amount /\ Begun' = Begun
  BY <1>1, <1>2 DEF Out, Begun
<1>4. Seen = Done + 1
  BY <1>2 DEF Seen
<1>5. CASE Amount = Left
  <2>1. partial' = 0
    BY <1>2, <1>5 DEF Advances
  <2>2. Out' = (Done + 1) * Payload + 0
    BY <1>1, <1>2, <1>3, <1>5
  <2>3. ((Done + 1) * Payload + 0) \div Payload = Done + 1
        /\ ((Done + 1) * Payload + 0) % Payload = 0
    <3>1. Done + 1 \in Nat /\ 0 \in 0 .. Payload - 1
      BY <1>1
    <3> QED BY ONLY <3>1, Euclid, Sizes
  <2>4. Done' = Done + 1 /\ Out' % Payload = 0
    BY <2>2, <2>3 DEF Done
  <2>5. Seen' = Done + 1
    BY <1>2, <2>1, <2>4 DEF Seen
  <2> QED BY <1>3, <1>4, <1>5, <2>1, <2>4, <2>5
<1>6. CASE Amount # Left
  <2>1. partial' = partial + Amount /\ partial' \in 1 .. Payload - 1
    BY <1>1, <1>2, <1>6 DEF Advances
  <2>2. Out' = Done * Payload + partial'
    BY <1>1, <1>2, <1>3, <2>1
  <2>3. Done' = Done /\ Out' % Payload = partial'
    <3>1. partial' \in 0 .. Payload - 1
      BY <2>1
    <3>2. (Done * Payload + partial') \div Payload = Done
          /\ (Done * Payload + partial') % Payload = partial'
      BY ONLY <1>1, <3>1, Euclid, Sizes
    <3> QED BY <2>2, <3>2 DEF Done
  <2>4. Seen' = Done + 1
    BY <1>2, <2>1, <2>3 DEF Seen
  <2> QED BY <1>3, <1>4, <1>6, <2>1, <2>3, <2>4
<1> QED BY <1>5, <1>6

(* The samples copied are the next ones of the stream.                     *)
LEMMA CopySamples ==
  ASSUME Inv, Copy
  PROVE  /\ rBuf' \in Seq(Nat) /\ Len(rBuf') = recv'
         /\ SamplesInOrder'
<1> USE Sizes
<1>1. PICK m \in Nat : Memory(m)
  BY DEF Inv
<1>2. /\ Done \in Nat /\ partial \in 0 .. Payload - 1 /\ Out = Done * Payload + partial
      /\ nwritten \in Nat /\ recv \in Nat /\ Out = nwritten + recv
  BY Progress DEF Out
<1>3. /\ Amount \in 1 .. Left /\ Left = Payload - partial /\ recv' = recv + Amount
      /\ nwritten' = nwritten /\ inBlk = tail
      /\ rBuf' = rBuf \o [i \in 1 .. Amount |->
                            buf[tail][(read[tail] + 1 + partial) + i - 1]]
  BY CopyIs, PacketAtHand, <1>1 DEF outVars, Left
<1>4. /\ Handed(tail) /\ Dist(tail) = 0 /\ tail \in Slots
      /\ read[tail] \in Nat /\ read[tail] + PktSize <= BlkSize
      /\ Done * PktSize = m * BlkSize + read[tail]
  BY CopyIs, PacketAtHand, <1>1
<1>5. ASSUME NEW i \in 1 .. Amount
      PROVE  /\ buf[tail][(read[tail] + 1 + partial) + i - 1]
                  = SampleAt(nwritten + (recv + i) - 1)
             /\ SampleAt(nwritten + (recv + i) - 1) \in Nat
  <2>1. read[tail] + partial + i \in Cells /\ partial + i - 1 \in 0 .. Payload - 1
    BY SMTT(60), <1>2, <1>3, <1>4
  <2>2. buf[tail][read[tail] + partial + i]
          = (m + Dist(tail)) * BlkSize + (read[tail] + partial + i)
    BY <1>1, <1>4, <2>1 DEF Memory
  <2>3. buf[tail][read[tail] + partial + i] = Done * PktSize + 1 + (partial + i - 1)
    <3>1. (m + Dist(tail)) * BlkSize = m * BlkSize
      BY <1>4
    <3>2. m * BlkSize \in Nat /\ Done * PktSize \in Nat
      BY <1>2
    <3> QED BY ONLY <1>2, <1>4, <2>2, <3>1, <3>2
  <2>4. SampleAt(Done * Payload + (partial + i - 1))
          = Done * PktSize + 1 + (partial + i - 1)
    BY <1>2, <2>1, SampleOf
  <2>5. /\ nwritten + (recv + i) - 1 = Done * Payload + (partial + i - 1)
        /\ (read[tail] + 1 + partial) + i - 1 = read[tail] + partial + i
    BY SMTT(60), <1>2, <1>4
  <2>6. Done * PktSize + 1 + (partial + i - 1) \in Nat
    BY <1>2
  <2> QED BY <2>3, <2>4, <2>5, <2>6
<1> DEFINE new == [i \in 1 .. Amount |-> buf[tail][(read[tail] + 1 + partial) + i - 1]]
<1>6. new \in Seq(Nat) /\ Len(new) = Amount
  <2>1. Amount \in Nat
    BY <1>2, <1>3
  <2>2. new \in [1 .. Amount -> Nat]
    BY <1>5
  <2> QED BY ONLY <2>1, <2>2
<1>7. \A i \in 1 .. Amount : new[i] = SampleAt(nwritten + (recv + i) - 1)
  BY <1>5
<1>8. rBuf \in Seq(Nat) /\ Len(rBuf) = recv /\ rBuf' = rBuf \o new
      /\ \A i \in 1 .. recv : rBuf[i] = SampleAt(nwritten + i - 1)
  BY <1>3 DEF Inv, CallOK, SamplesInOrder
<1> HIDE DEF new
<1>9. rBuf' \in Seq(Nat) /\ Len(rBuf') = recv + Amount
  BY <1>6, <1>8, Appended
<1>10. Amount \in Nat
  BY <1>2, <1>3
<1>11. ASSUME NEW i \in 1 .. recv + Amount
       PROVE  rBuf'[i] = SampleAt(nwritten + i - 1)
  <2>1. CASE i <= recv
    <3>1. rBuf'[i] = rBuf[i]
      BY <1>6, <1>8, <1>11, <2>1, Appended
    <3> QED BY <1>2, <1>3, <1>8, <2>1, <3>1
  <2>2. CASE i > recv
    <3>1. i - recv \in 1 .. Amount
      BY ONLY <1>2, <1>10, <1>11, <2>2
    <3>2. rBuf'[i] = new[i - recv]
      <4>1. i \in 1 .. Len(rBuf) + Len(new) /\ ~(i <= Len(rBuf))
        BY <1>2, <1>6, <1>8, <1>10, <1>11, <2>2
      <4>2. (rBuf \o new)[i] = new[i - Len(rBuf)]
        BY ONLY <1>6, <1>8, <4>1, Appended
      <4> QED BY <1>8, <4>2
    <3>3. new[i - recv] = SampleAt(nwritten + (recv + (i - recv)) - 1)
      BY <1>7, <3>1
    <3>4. recv + (i - recv) = i
      BY <1>2, <1>10
    <3> QED BY <1>3, <3>2, <3>3, <3>4
  <2> QED BY <1>2, <1>10, <2>1, <2>2
<1> QED BY <1>3, <1>9, <1>11 DEF SamplesInOrder

(* ReceiveComplete, when a packet that lies in the block is done with.     *)
LEMMA ReleaseKeeps ==
  ASSUME Inv, CommitIn(PktSize), inBlk = tail,
         NEW m \in Nat, Memory(m), partial > 0 \/ blk = "copy",
         Done' = Done + 1, UNCHANGED <<amount, received>>
  PROVE  FifoTypeOK' /\ Ring' /\ \E n \in Nat : Memory(n)'
<1> USE Sizes
<1>1. /\ tail \in Slots /\ head \in Slots /\ ~Empty /\ count \in Nat /\ count > 0
      /\ Handed(tail) /\ Dist(tail) = 0 /\ NoBlk \notin Slots
      /\ len[tail] = BlkSize /\ read[tail] \in 0 .. BlkSize - 1
      /\ read[tail] + PktSize <= BlkSize
      /\ Done * PktSize = m * BlkSize + read[tail]
      /\ count = Dist(head) /\ count < BlkCount /\ tail # head
  <2>1. head \in Slots /\ NoBlk \notin Slots
    BY DEF Inv, Types, FifoTypeOK, Slots, NoBlk
  <2>2. count = Dist(head) /\ count < BlkCount
    BY DEF Inv, Ring
  <2> QED BY <2>1, <2>2, PacketAtHand DEF Empty
<1>2. /\ UNCHANGED <<head, len, buf, outBlk>>
      /\ read' = [read EXCEPT ![tail] = @ + PktSize]
  BY DEF CommitIn
<1>3. read' \in [Slots -> 0 .. BlkSize] /\ read'[tail] = read[tail] + PktSize
      /\ \A b \in Slots : b # tail => read'[b] = read[b]
  <2>1. read \in [Slots -> 0 .. BlkSize]
    BY DEF Inv, Types, FifoTypeOK
  <2>2. read[tail] + PktSize \in 0 .. BlkSize
    BY <1>1
  <2> QED BY ONLY <1>1, <1>2, <2>1, <2>2
<1>4. Published' = Published
  BY <1>2 DEF Published
<1>5. Done \in Nat /\ Done' * PktSize = m * BlkSize + read'[tail]
  <2>1. Done \in Nat
    BY Progress
  <2>2. (Done + 1) * PktSize = Done * PktSize + PktSize
    BY <2>1
  <2>3. Done' * PktSize = Done * PktSize + PktSize
    BY <2>2
  <2>4. Done * PktSize + PktSize = m * BlkSize + read'[tail]
    BY <1>1, <1>3
  <2> QED BY <2>1, <2>3, <2>4
<1>6. CASE Drains(PktSize)
  <2>1. count' = count - 1 /\ tail' = PINC(tail) /\ inBlk' = NoBlk
        /\ read'[tail] = BlkSize
    BY <1>1, <1>3, <1>6 DEF CommitIn, Drains
  <2>2. tail' \in Slots
    BY <1>1, <2>1, FarHead
  <2>3. \A b \in Slots : /\ b # tail => Dist(b)' = Dist(b) - 1
                         /\ Handed(b)' => b # tail /\ Handed(b)
    <3>1. \A b \in Slots : Dist(b)' = IF b = tail THEN BlkCount - 1 ELSE Dist(b) - 1
      BY <1>1, <2>1, FarTail DEF Dist
    <3> QED BY SMTT(60), <1>1, <2>1, <3>1, RingTests DEF Handed, Inv
  <2>4. FifoTypeOK'
    <3>1. count' \in 0 .. BlkCount
      BY <1>1, <2>1
    <3> QED BY <1>2, <1>3, <2>1, <2>2, <3>1 DEF Inv, Types, FifoTypeOK
  <2>5. count' = Dist(head)'
    BY <1>1, <1>2, <2>1, <2>3 DEF Dist
  <2>6. Ring'
    <3>1. \A b \in Slots : Handed(b)' =>
            len'[b] = BlkSize /\ read'[b] < BlkSize /\ read'[b] = 0
      BY <1>1, <1>2, <1>3, <2>3 DEF Inv, Ring
    <3>2. outBlk' # NoBlk => /\ outBlk' = head' /\ count' < BlkCount - 1
                             /\ len'[head'] < BlkSize /\ read'[head'] = 0
      BY <1>1, <1>2, <1>3, <2>1 DEF Inv, Ring
    <3> QED BY <1>1, <2>1, <2>5, <3>1, <3>2 DEF Ring
  <2>7. Memory(m + 1)'
    <3>1. Published' = ((m + 1) + count') * BlkSize
      <4>1. (m + 1) + count' = m + count
        BY <1>1, <2>1
      <4> QED BY <1>4, <4>1 DEF Memory
    <3>2. Done' * PktSize = (m + 1) * BlkSize + (IF Empty' THEN 0 ELSE read'[tail'])
      <4>1. (m + 1) * BlkSize = m * BlkSize + BlkSize
        OBVIOUS
      <4>2. ~Empty' => read'[tail'] = 0
        <5>1. ~Empty' => Dist(head)' # 0
          BY <1>1, <1>2, <2>2, FarType DEF Empty, Dist
        <5>2. ~Empty' => Far(tail', tail') < count'
          BY SMTT(60), <1>1, <2>1, <2>2, <2>5, <5>1, FarType
        <5>3. ASSUME ~Empty', NEW b \in Slots, b = tail'
              PROVE  read'[b] = 0
          <6>1. Handed(b)'
            BY <5>2, <5>3 DEF Handed, Dist
          <6>2. b # tail /\ Handed(b)
            BY <2>3, <6>1
          <6> QED BY <1>3, <6>2 DEF Inv, Ring
        <5> QED BY <2>2, <5>3
      <4>3. m * BlkSize \in Nat
        OBVIOUS
      <4> QED BY <1>5, <2>1, <4>1, <4>2, <4>3
    <3>3. ASSUME NEW b \in Slots, Handed(b)', NEW i \in Cells
          PROVE  buf'[b][i] = ((m + 1) + Dist(b)') * BlkSize + i
      <4>1. b # tail /\ Handed(b) /\ Dist(b)' = Dist(b) - 1 /\ Dist(b) \in Nat
        BY <2>3, <3>3, RingTests DEF Inv
      <4>2. (m + 1) + Dist(b)' = m + Dist(b)
        BY <4>1
      <4>3. buf[b][i] = (m + Dist(b)) * BlkSize + i
        BY <4>1 DEF Memory
      <4> QED BY <1>2, <4>2, <4>3
    <3>4. outBlk' # NoBlk =>
            \A i \in Cells : i < len'[outBlk'] + amount' => buf'[outBlk'][i] = Published' + i
      BY <1>2, <1>4 DEF Memory
    <3> QED BY <3>1, <3>2, <3>3, <3>4 DEF Memory
  <2> QED BY <2>4, <2>6, <2>7
<1>7. CASE ~Drains(PktSize)
  <2>1. UNCHANGED <<tail, count, inBlk>> /\ read'[tail] < BlkSize
    BY <1>1, <1>3, <1>7 DEF CommitIn, Drains
  <2>2. FifoTypeOK'
    BY <1>2, <1>3, <2>1 DEF Inv, Types, FifoTypeOK
  <2>3. \A b \in Slots : (Handed(b)' <=> Handed(b)) /\ Dist(b)' = Dist(b)
    BY <2>1 DEF Handed, Dist
  <2>4. Ring'
    <3>1. count' = Dist(head)'
      BY <1>1, <1>2, <2>1 DEF Dist
    <3>2. ASSUME NEW b \in Slots, Handed(b)'
          PROVE  len'[b] = BlkSize /\ read'[b] < BlkSize /\ (inBlk' # b => read'[b] = 0)
      BY <1>2, <1>3, <2>1, <2>3, <3>2 DEF Inv, Ring
    <3>3. outBlk' # NoBlk => /\ outBlk' = head' /\ count' < BlkCount - 1
                             /\ len'[head'] < BlkSize /\ read'[head'] = 0
      BY <1>1, <1>2, <1>3, <2>1 DEF Inv, Ring
    <3> QED BY <1>1, <2>1, <3>1, <3>2, <3>3 DEF Inv, Ring
  <2>5. Memory(m)'
    <3>1. Done' * PktSize = m * BlkSize + (IF Empty' THEN 0 ELSE read'[tail'])
      BY <1>1, <1>2, <1>5, <2>1 DEF Empty
    <3> QED BY <1>2, <1>4, <2>1, <2>3, <3>1 DEF Memory
  <2> QED BY <2>2, <2>4, <2>5
<1> QED BY <1>6, <1>7

LEMMA InvCopy ==
  ASSUME Inv, Copy
  PROVE  Inv'
<1> USE Sizes
<1>1. PICK m \in Nat : Memory(m)
  BY DEF Inv
<1>2. /\ partial > 0 \/ blk = "copy"
      /\ recv' = recv + Amount /\ recv + Amount <= want /\ Amount \in 1 .. Left
      /\ Left \in 1 .. Payload /\ blk' = "loop" /\ Advances(Amount, Left)
      /\ UNCHANGED <<pumpVars, want, packet, tList, outVars>>
  BY CopyIs
<1>3. inBlk = tail /\ NoBlk # tail
  BY <1>1, <1>2, PacketAtHand DEF Slots, NoBlk
<1>4. /\ Seen' = Seen /\ Begun' = Begun /\ partial' \in 0 .. Payload - 1
      /\ partial' = Out' % Payload
      /\ IF Amount = Left THEN Done' = Done + 1 /\ partial' = 0
                          ELSE Done' = Done /\ partial' > 0
  BY CopyProgress
<1>5. /\ FifoTypeOK' /\ Ring' /\ \E n \in Nat : Memory(n)'
      /\ UNCHANGED <<outBlk, len>> /\ (partial' > 0 => inBlk' # NoBlk)
  <2>1. CASE Amount = Left
    <3>1. CommitIn(PktSize)
      BY <1>2, <2>1 DEF Advances, Release
    <3>2. FifoTypeOK' /\ Ring' /\ \E n \in Nat : Memory(n)'
      BY <1>1, <1>2, <1>3, <1>4, <2>1, <3>1, ReleaseKeeps DEF pumpVars
    <3> QED BY <1>4, <2>1, <3>1, <3>2 DEF CommitIn
  <2>2. CASE Amount # Left
    <3>1. UNCHANGED fifoVars
      BY <1>2, <2>2 DEF Advances
    <3>2. FifoTypeOK' /\ Ring'
      BY <3>1 DEF Inv, Types, FifoTypeOK, Ring, Handed, Dist, fifoVars
    <3>3. Memory(m)'
      BY <1>1, <1>2, <1>4, <2>2, <3>1
         DEF Memory, Handed, Dist, Published, Empty, fifoVars, pumpVars
    <3> QED BY <1>3, <3>1, <3>2, <3>3 DEF fifoVars
  <2> QED BY <2>1, <2>2
<1>6. Types'
  <2>1. recv' \in 0 .. want
    BY <1>2, Progress, BoundsAssumption DEF Inv, Types
  <2> QED BY <1>2, <1>4, <1>5, <2>1 DEF Inv, Types, pumpVars, outVars
<1>7. PumpOK'
  BY <1>2, <1>5 DEF Inv, PumpOK, pumpVars
<1>8. PacketOK'
  BY <1>2, <1>4, <1>5 DEF Inv, PacketOK, pumpVars
<1>9. CallOK'
  BY <1>2, <1>4, CopySamples DEF Inv, CallOK, outVars
<1>10. TagsOK'
  BY <1>2, <1>4 DEF Inv, TagsOK, outVars
<1> QED BY <1>5, <1>6, <1>7, <1>8, <1>9, <1>10 DEF Inv

(* The tags of a work call go on where those before ended.                 *)
LEMMA TagsGoOn ==
  ASSUME Inv, WorkReturns
  PROVE  TagsOK'
<1> USE Sizes
<1> DEFINE T(k) == [at |-> k * Payload, packet |-> k * PktSize]
<1>1. PICK first \in 0 .. Begun :
        /\ tags = {T(k) : k \in first .. Begun - 1}
        /\ ~useFracSec => first = 0
        /\ useFracSec /\ ~rateKnown => first = Begun
  BY DEF Inv, TagsOK
<1>2. /\ blk = "loop" /\ recv = want /\ nwritten' = nwritten + recv /\ recv' = 0
      /\ useFracSec' = useFracSec /\ Done' = Done /\ partial' = partial /\ blk' = "idle"
      /\ Begun \in Nat /\ Seen \in Nat /\ Begun <= Seen /\ nwritten \in Nat
  <2>1. blk = "loop" /\ recv = want /\ nwritten' = nwritten + recv /\ recv' = 0
        /\ useFracSec' = useFracSec /\ partial' = partial /\ blk' = "idle"
    BY DEF WorkReturns, BlockAt
  <2>2. Done' = Done
    BY <2>1, Progress DEF Done, Out
  <2> QED BY <2>1, <2>2, Progress, BegunIsSeen
<1>3. Begun' = Seen
  <2>1. nwritten + recv = Done * Payload + partial /\ Done \in Nat
        /\ partial \in 0 .. Payload - 1
    BY Progress DEF Out
  <2>2. ((Done * Payload + partial) + Payload - 1) \div Payload
          = IF partial = 0 THEN Done ELSE Done + 1
    BY <2>1, BegunAt
  <2>3. Begun' = ((nwritten + recv) + Payload - 1) \div Payload
    BY <1>2 DEF Begun
  <2>4. Seen = IF partial = 0 THEN Done ELSE Done + 1
    BY <1>2, <2>1 DEF Seen
  <2> QED BY <2>1, <2>2, <2>3, <2>4
<1>4. Len(tList) = Seen - Begun
      /\ \A i \in 1 .. Seen - Begun :
           /\ nwritten + tList[i].offset = (Begun + i - 1) * Payload
           /\ tList[i].packet = (Begun + i - 1) * PktSize
  <2>1. tList = [i \in 1 .. Seen - Begun |->
                   [offset |-> (Begun + i - 1) * Payload - nwritten,
                    packet |-> (Begun + i - 1) * PktSize]]
    BY DEF Inv, CallOK
  <2>2. Seen - Begun \in Nat
    BY <1>2
  <2>3. Len(tList) = Seen - Begun
    BY ONLY <2>1, <2>2
  <2> QED BY <1>2, <2>1, <2>2, <2>3
<1>5. PICK skipped \in 0 .. Len(tList) :
        /\ ~useFracSec \/ rateKnown => skipped = 0
        /\ tags' = tags \cup Added(skipped)
        /\ rateKnown' = (rateKnown \/ (useFracSec /\ skipped < Len(tList)))
  BY DEF WorkReturns
<1>6. Added(skipped) = {T(k) : k \in Begun + skipped .. Seen - 1}
  <2> DEFINE n == Seen - Begun
             A(i) == [at |-> nwritten + tList[i].offset, packet |-> tList[i].packet]
  <2>1. Len(tList) = n /\ n \in Nat /\ skipped \in 0 .. n /\ Seen = Begun + n
    BY <1>2, <1>4, <1>5
  <2>2. \A i \in 1 .. n : A(i) = T(Begun + i - 1)
    BY <1>4
  <2>3. Added(skipped) = {A(i) : i \in skipped + 1 .. n}
    BY <2>1 DEF Added
  <2> HIDE DEF T, n, A
  <2>4. ASSUME NEW i \in skipped + 1 .. n
        PROVE  A(i) \in {T(k) : k \in Begun + skipped .. Seen - 1}
    <3>1. Begun + i - 1 \in Begun + skipped .. Seen - 1 /\ i \in 1 .. n
      BY <1>2, <2>1
    <3> QED BY <2>2, <3>1
  <2>5. ASSUME NEW k \in Begun + skipped .. Seen - 1
        PROVE  T(k) \in {A(i) : i \in skipped + 1 .. n}
    <3>1. /\ k - Begun + 1 \in skipped + 1 .. n /\ k - Begun + 1 \in 1 .. n
          /\ Begun + (k - Begun + 1) - 1 = k
      BY <1>2, <2>1
    <3> QED BY <2>2, <3>1
  <2> QED BY <2>3, <2>4, <2>5
<1> HIDE DEF T
<1>7. CASE skipped = 0
  <2>1. tags' = {T(k) : k \in first .. Begun' - 1}
    <3>1. first .. Begun' - 1 = (first .. Begun - 1) \cup (Begun + skipped .. Seen - 1)
      BY <1>1, <1>2, <1>3, <1>7
    <3>2. tags' = {T(k) : k \in first .. Begun - 1}
                    \cup {T(k) : k \in Begun + skipped .. Seen - 1}
      BY <1>1, <1>5, <1>6
    <3> QED BY ONLY <3>1, <3>2
  <2>2. first \in 0 .. Begun' /\ (~useFracSec' => first = 0)
    BY <1>1, <1>2, <1>3
  <2>3. useFracSec' /\ ~rateKnown' => first = Begun'
    <3>1. useFracSec' /\ ~rateKnown' =>
            useFracSec /\ ~rateKnown /\ ~(skipped < Len(tList))
      BY <1>2, <1>5, Zenon
    <3> QED BY <1>1, <1>2, <1>3, <1>4, <1>7, <3>1
  <2> QED BY <2>1, <2>2, <2>3 DEF TagsOK, T
<1>8. CASE skipped # 0
  <2>1. useFracSec /\ ~rateKnown /\ first = Begun /\ tags = {}
    BY <1>1, <1>2, <1>5, <1>8
  <2>2. tags' = {T(k) : k \in Begun + skipped .. Begun' - 1}
    BY <1>3, <1>5, <1>6, <2>1
  <2>3. Begun + skipped \in 0 .. Begun'
    BY <1>2, <1>3, <1>4, <1>5
  <2>4. ~rateKnown' => Begun + skipped = Begun'
    <3>1. ~rateKnown' => ~(skipped < Len(tList))
      BY <1>5, <2>1, Zenon
    <3> QED BY <1>2, <1>3, <1>4, <1>5, <3>1
  <2> QED BY <1>2, <2>1, <2>2, <2>3, <2>4 DEF TagsOK, T
<1> QED BY <1>7, <1>8

LEMMA InvWorkReturns ==
  ASSUME Inv, WorkReturns
  PROVE  Inv'
<1> USE Sizes
<1>1. /\ UNCHANGED <<fifoVars, pumpVars, partial, packet>>
      /\ blk = "loop" /\ blk' = "idle" /\ recv = want /\ useFracSec' = useFracSec
      /\ nwritten' = nwritten + want /\ want' = 0 /\ recv' = 0
      /\ tList' = <<>> /\ rBuf' = <<>> /\ rateKnown' \in BOOLEAN
  BY DEF WorkReturns, BlockAt, Inv, Types
<1>2. Out' = Out /\ Done' = Done /\ Seen' = Seen
  <2>1. Out' = Out
    BY <1>1, Progress DEF Out
  <2> QED BY <1>1, <2>1 DEF Done, Seen
<1>3. Types'
  <2>1. FifoTypeOK'
    BY <1>1 DEF Inv, Types, FifoTypeOK, fifoVars
  <2>2. nwritten' \in Nat /\ want' \in 0 .. MaxItems /\ recv' \in 0 .. want'
    BY <1>1, Progress, BoundsAssumption
  <2> QED BY <1>1, <2>1, <2>2 DEF Inv, Types, pumpVars
<1>4. Ring' /\ PumpOK'
  BY <1>1 DEF Inv, Ring, PumpOK, Handed, Dist, fifoVars, pumpVars
<1>5. \A m \in Nat : Memory(m) => Memory(m)'
  BY <1>1, <1>2 DEF Memory, Handed, Dist, Published, Empty, fifoVars, pumpVars
<1>6. PacketOK'
  BY <1>1, <1>2 DEF Inv, PacketOK, fifoVars, pumpVars
<1>7. CallOK'
  <2>1. Seen' - Begun' = 0
    <3>1. nwritten + recv = Done * Payload + partial /\ Done \in Nat
          /\ partial \in 0 .. Payload - 1
      BY Progress DEF Out
    <3>2. ((Done * Payload + partial) + Payload - 1) \div Payload
            = IF partial = 0 THEN Done ELSE Done + 1
      BY <3>1, BegunAt
    <3>3. Begun' = Seen
      BY <1>1, <3>1, <3>2 DEF Begun, Seen
    <3> QED BY <1>2, <3>3, Progress
  <2>2. SamplesInOrder'
    BY <1>1 DEF SamplesInOrder
  <2> QED BY <1>1, <2>1, <2>2 DEF CallOK
<1> QED BY <1>3, <1>4, <1>5, <1>6, <1>7, TagsGoOn DEF Inv

-----------------------------------------------------------------------------
(* The inductive invariant holds, whatever the sizes and however the two   *)
(* threads take turns.                                                     *)
THEOREM InvHolds == Spec => []Inv
<1>1. Inv /\ [Next]_vars => Inv'
  <2> SUFFICES ASSUME Inv, [Next]_vars PROVE Inv'
    OBVIOUS
  <2>1. CASE Pump
    BY <2>1, PumpMoves, InvWriteStart, InvRecv, InvWriteComplete DEF Pump
  <2>2. CASE Working
    BY <2>2, InvWork, InvPeek, InvCopy, InvWorkReturns, BlockMoves DEF Working
  <2>3. CASE Detach
    BY <2>3, BlockMoves
  <2>4. CASE UNCHANGED vars
    <3>1. PumpOK'
      BY <2>4 DEF Inv, PumpOK, vars, fifoVars, pumpVars
    <3> QED BY <2>4, <3>1, Moves DEF vars, pumpVars, Inv, Types
  <2> QED BY <2>1, <2>2, <2>3, <2>4 DEF Next
<1> QED BY <1>1, InvInit, PTL DEF Spec

-----------------------------------------------------------------------------
(* The properties.                                                         *)

(* Where the packets looked at lie: what was received holds them, and the  *)
(* output is about them.                                                   *)
LEMMA SeenBounds ==
  ASSUME Inv
  PROVE  /\ received \in 0 .. MaxUnits /\ Seen * PktSize <= received
         /\ Out <= Seen * Payload /\ nwritten <= Begun * Payload
         /\ \A k \in 0 .. Seen - 1 : /\ k * Payload \in 0 .. Out
                                     /\ k * PktSize + PktSize <= received
                                     /\ k * PktSize \in 0 .. MaxUnits
                                     /\ k * Payload \in 0 .. MaxUnits
<1> USE Sizes
<1>1. /\ Done \in Nat /\ Out \in Nat /\ nwritten \in Nat /\ Begun \in Nat /\ Seen \in Nat
      /\ partial \in 0 .. Payload - 1 /\ Out = Done * Payload + partial
      /\ Seen \in {Done, Done + 1} /\ (partial > 0 => Seen = Done + 1)
  BY Progress DEF Seen
<1>2. received \in 0 .. MaxUnits /\ MaxUnits \in Nat
  BY BoundsAssumption DEF Inv, Types
<1>3. Seen * PktSize <= received
  <2>1. Seen = Done + 1 => ~Empty
    <3>1. PICK m \in Nat : Memory(m)
      BY DEF Inv
    <3>2. Seen = Done + 1 => partial > 0 \/ blk = "copy"
      BY <1>1 DEF Seen
    <3> QED BY <3>1, <3>2, PacketAtHand
  <2> QED BY <1>1, <2>1, SeenIsReceived
<1>4. Out <= Seen * Payload
  <2>1. (Done + 1) * Payload = Done * Payload + Payload
    BY <1>1
  <2> QED BY <1>1, <2>1
<1>5. nwritten <= Begun * Payload
  <2> DEFINE x == nwritten + Payload - 1
  <2>1. x \in Nat
    BY <1>1
  <2> HIDE DEF x
  <2>2. x = (x \div Payload) * Payload + (x % Payload) /\ x % Payload \in 0 .. Payload - 1
    BY <2>1, Division
  <2>3. (x \div Payload) * Payload >= x - (Payload - 1)
    BY <2>1, <2>2, Division
  <2>4. Begun = x \div Payload
    BY DEF Begun, x
  <2>5. x - (Payload - 1) = nwritten
    BY <1>1 DEF x
  <2> QED BY <2>3, <2>4, <2>5
<1>6. ASSUME NEW k \in 0 .. Seen - 1
      PROVE  /\ k * Payload \in 0 .. Out /\ k * PktSize + PktSize <= received
             /\ k * PktSize \in 0 .. MaxUnits /\ k * Payload \in 0 .. MaxUnits
  <2>1. k \in Nat /\ k <= Done /\ k + 1 <= Seen
    BY <1>1
  <2>2. k * Payload <= Done * Payload /\ (k + 1) * PktSize <= Seen * PktSize
    BY <1>1, <2>1, Mono
  <2>3. /\ (k + 1) * PktSize = k * PktSize + PktSize
        /\ k * PktSize = k * Payload + k /\ k * Payload \in Nat
        /\ Seen * PktSize \in Nat /\ Done * Payload \in Nat
    BY <1>1, <2>1
  <2>4. k * PktSize + PktSize <= received
    BY <1>2, <1>3, <2>1, <2>2, <2>3
  <2> QED BY <1>1, <1>2, <2>1, <2>2, <2>3, <2>4
<1> QED BY <1>2, <1>3, <1>4, <1>5, <1>6

(* Every variable has its type.  What the counters, the tags and the       *)
(* samples hold is bounded by what the device has sent, so none of them    *)
(* is ever about something that was not received.                          *)
THEOREM TypeCorrect == Spec => []TypeOK
<1>1. Inv => TypeOK
  <2> SUFFICES ASSUME Inv PROVE TypeOK
    OBVIOUS
  <2> USE Sizes
  <2>1. /\ received \in 0 .. MaxUnits /\ MaxUnits \in Nat /\ recv \in 0 .. want
        /\ want \in 0 .. MaxItems /\ MaxItems \in Nat /\ Out = nwritten + recv
        /\ nwritten \in Nat /\ Begun \in Nat /\ Seen \in Nat /\ Begun <= Seen
    BY Progress, BegunIsSeen, BoundsAssumption DEF Inv, Types, Out
  <2>2. packet \in 0 .. MaxUnits
    BY <2>1 DEF Inv, Types, PacketOK
  <2>3. tList \in Seq([offset : 0 .. MaxItems, packet : 0 .. MaxUnits])
    <3> DEFINE n == Seen - Begun
               E(i) == [offset |-> (Begun + i - 1) * Payload - nwritten,
                        packet |-> (Begun + i - 1) * PktSize]
    <3>1. n \in Nat /\ tList = [i \in 1 .. n |-> E(i)]
      BY <2>1 DEF Inv, CallOK
    <3>2. ASSUME NEW i \in 1 .. n
          PROVE  E(i) \in [offset : 0 .. MaxItems, packet : 0 .. MaxUnits]
      <4> DEFINE k == Begun + i - 1
      <4>1. k \in 0 .. Seen - 1 /\ k \in Nat /\ Begun <= k
        BY <2>1
      <4>2. k * Payload \in 0 .. Out /\ k * PktSize \in 0 .. MaxUnits
        BY <4>1, SeenBounds
      <4>3. nwritten <= Begun * Payload /\ Begun * Payload <= k * Payload
        BY <2>1, <4>1, SeenBounds, Mono
      <4>4. k * Payload - nwritten \in 0 .. MaxItems
        <5> HIDE DEF k
        <5>1. Begun * Payload \in Nat
          BY <2>1
        <5> QED BY <2>1, <4>2, <4>3, <5>1
      <4> QED BY <4>2, <4>4
    <3> HIDE DEF n, E
    <3> QED BY <3>1, <3>2
  <2>4. rBuf \in Seq(0 .. MaxUnits)
    <3>1. ASSUME NEW i \in 1 .. Len(rBuf)
          PROVE  rBuf[i] \in 0 .. MaxUnits
      <4> DEFINE x == nwritten + i - 1
                 k == x \div Payload
      <4>1. rBuf[i] = SampleAt(x) /\ x \in Nat /\ x < Out
        BY <2>1 DEF Inv, CallOK, SamplesInOrder
      <4> HIDE DEF x
      <4>2. /\ k \in Nat /\ x = k * Payload + (x % Payload)
            /\ x % Payload \in 0 .. Payload - 1
        BY <4>1, Division
      <4> HIDE DEF k
      <4>3. CASE Seen <= k
        <5>1. Seen * Payload <= k * Payload /\ Out <= Seen * Payload
          BY <2>1, <4>2, <4>3, Mono, SeenBounds
        <5>2. Seen * Payload \in Nat /\ k * Payload \in Nat
          BY <2>1, <4>2
        <5> QED BY <2>1, <4>1, <4>2, <5>1, <5>2
      <4>4. CASE k < Seen
        <5>1. k * PktSize + PktSize <= received /\ k * PktSize \in 0 .. MaxUnits
          BY <2>1, <4>2, <4>4, SeenBounds
        <5>2. SampleAt(x) = k * PktSize + 1 + (x % Payload)
          BY DEF SampleAt, k
        <5> QED BY <2>1, <4>1, <4>2, <5>1, <5>2
      <4> QED BY <2>1, <4>2, <4>3, <4>4
    <3> DEFINE n == Len(rBuf)
    <3>2. rBuf \in [1 .. n -> Nat] /\ n \in Nat
      BY DEF Inv, CallOK
    <3>3. rBuf \in [1 .. n -> 0 .. MaxUnits]
      BY <3>1, <3>2
    <3> HIDE DEF n
    <3> QED BY ONLY <3>2, <3>3, SeqDef
  <2>5. nwritten \in 0 .. MaxUnits
    <3>1. Out <= Seen * Payload /\ Seen * PktSize <= received
      BY SeenBounds
    <3>2. Seen * PktSize = Seen * Payload + Seen /\ Seen * Payload \in Nat
      BY <2>1
    <3> QED BY <2>1, <3>1, <3>2
  <2>6. tags \subseteq [at : 0 .. MaxUnits, packet : 0 .. MaxUnits]
    <3>1. PICK first \in 0 .. Begun :
            tags = {[at |-> k * Payload, packet |-> k * PktSize] : k \in first .. Begun - 1}
      BY DEF Inv, TagsOK
    <3>2. \A k \in first .. Begun - 1 : k \in 0 .. Seen - 1
      BY <2>1
    <3> QED BY <3>1, <3>2, SeenBounds
  <2> QED BY <2>1, <2>2, <2>3, <2>4, <2>5, <2>6 DEF Inv, Types, TypeOK
<1> QED BY <1>1, InvHolds, PTL

(* Whatever the sizes, work sees packets from their beginning, and whole.  *)
THEOREM PacketsAlignedHold == Spec => []PacketsAligned
<1>1. Inv => PacketsAligned
  <2> SUFFICES ASSUME Inv, blk = "copy" PROVE
                 /\ packet % PktSize = 0
                 /\ len[inBlk] > read[inBlk]
                 /\ (len[inBlk] - read[inBlk]) % PktSize = 0
    BY DEF PacketsAligned
  <2> USE Sizes
  <2>1. PICK m \in Nat : Memory(m)
    BY DEF Inv
  <2>2. packet = Done * PktSize + 0 /\ Done \in Nat
    BY Progress DEF Inv, PacketOK
  <2>3. packet % PktSize = 0
    <3>1. 0 \in 0 .. PktSize - 1
      OBVIOUS
    <3> QED BY ONLY <2>2, <3>1, Euclid, Sizes
  <2>4. /\ inBlk = tail /\ len[tail] = BlkSize /\ read[tail] \in 0 .. BlkSize - 1
        /\ (BlkSize - read[tail]) % PktSize = 0
    BY <2>1, PacketAtHand
  <2> QED BY <2>3, <2>4
<1> QED BY <1>1, InvHolds, PTL

(* The samples of a work call are the next ones of the device's stream.    *)
THEOREM SamplesHold == Spec => []SamplesInOrder
<1>1. Inv => SamplesInOrder
  BY DEF Inv, CallOK
<1> QED BY <1>1, InvHolds, PTL

(* One tag for each packet, where it begins in the output.                 *)
THEOREM TagsHold == Spec => []TagsExact
<1>1. Inv => TagsExact
  BY DEF Inv, TagsOK, TagsExact
<1> QED BY <1>1, InvHolds, PTL

(* When work gives up on a stream that has ended, what it has not looked   *)
(* at is in the block that was never closed.                               *)
THEOREM LittleLost == Spec => LittleIsLost
<1>1. ASSUME Inv, [Next]_vars
      PROVE  [blk' = "finished" /\ blk # "finished" /\ pump = "ended"
                => received - ((nwritten + recv) \div Payload) * PktSize < BlkSize]_vars
  <2> SUFFICES ASSUME Next, blk' = "finished", blk # "finished", pump = "ended"
               PROVE  received - Done * PktSize < BlkSize
    BY <1>1 DEF Done, Out, vars
  <2> USE Sizes
  <2>1. WaitTimesOut
    BY DEF Next, Pump, Working, Detach, Select, PumpSeesDone, WriteStart, Recv,
       RecvNothing, RecvEnds, WriteComplete, PumpAt, Work, Peek, Copy, WorkReturns,
       Joined, BlockAt
  <2>2. PICK m \in Nat : Memory(m)
    BY <1>1 DEF Inv
  <2>3. Empty /\ count = 0 /\ amount = 0
    BY <1>1, <2>1, RingTests DEF WaitTimesOut, NothingComes, Inv, PumpOK
  <2>4. Done * PktSize = m * BlkSize /\ Published = m * BlkSize
    BY <2>2, <2>3 DEF Memory
  <2>5. received \in Nat /\ (outBlk # NoBlk => len[outBlk] \in 0 .. BlkSize - 1)
    <3>1. outBlk # NoBlk => len[outBlk] \in 0 .. BlkSize
      BY <1>1 DEF Inv, Types, FifoTypeOK
    <3>2. outBlk # NoBlk => len[outBlk] < BlkSize
      BY <1>1 DEF Inv, Ring
    <3> QED BY <1>1, <3>1, <3>2 DEF Inv, Types
  <2>6. received - Published < BlkSize
    BY <2>3, <2>5 DEF Published
  <2> QED BY <2>4, <2>6
<1> QED BY <1>1, InvHolds, PTL DEF Spec, LittleIsLost

=============================================================================
