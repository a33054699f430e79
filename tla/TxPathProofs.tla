---------------------------- MODULE TxPathProofs ----------------------------
(* Proofs about TxPath, for every size of packets, blocks and rings, every *)
(* width of the header's count and its variable, every way work is called  *)
(* and the socket takes what it is sent, and any number of sessions.       *)
EXTENDS TxPath, SequenceTheorems, TLAPS

-----------------------------------------------------------------------------
(* Positions.                                                              *)

LEMMA Mono ==
  ASSUME NEW d \in Nat, NEW a \in Int, NEW b \in Int, a <= b
  PROVE  a * d <= b * d
OBVIOUS

(* The quotient and the remainder are the only ones.                       *)
LEMMA Euclid ==
  ASSUME NEW d \in Nat \ {0}, NEW q \in Nat, NEW r \in 0 .. d - 1
  PROVE  (q * d + r) \div d = q /\ (q * d + r) % d = r
<1> DEFINE x == q * d + r
           p == x \div d
<1>1. x \in Nat /\ p \in Int /\ x % d \in 0 .. d - 1 /\ x = d * p + (x % d)
  OBVIOUS
<1>2. CASE p < q
  <2>1. (p + 1) * d <= q * d
    BY <1>1, <1>2, Mono
  <2> QED BY <1>1, <2>1
<1>3. CASE p > q
  <2>1. (q + 1) * d <= p * d
    BY <1>1, <1>3, Mono
  <2> QED BY <1>1, <2>1
<1> QED BY <1>1, <1>2, <1>3

LEMMA Division ==
  ASSUME NEW d \in Nat \ {0}, NEW x \in Nat
  PROVE  x \div d \in Nat /\ x % d \in 0 .. d - 1 /\ x = (x \div d) * d + (x % d)
OBVIOUS

(* Two sequences, one after the other.                                     *)
LEMMA Appended ==
  ASSUME NEW s \in Seq(Nat), NEW t \in Seq(Nat)
  PROVE  /\ s \o t \in Seq(Nat) /\ Len(s \o t) = Len(s) + Len(t)
         /\ \A i \in 1 .. Len(s) + Len(t) :
              (s \o t)[i] = IF i <= Len(s) THEN s[i] ELSE t[i - Len(s)]
OBVIOUS

-----------------------------------------------------------------------------
(* The ring.                                                               *)

(* How far block b is from block t on the way round; the blocks handed     *)
(* over are the first ones from tail on.                                   *)
Far(b, t) == IF b >= t THEN b - t ELSE b - t + BlkCount
Dist(b) == Far(b, tail)
Handed(b) == Dist(b) < count

LEMMA FarType ==
  ASSUME NEW b \in Slots, NEW t \in Slots
  PROVE  Far(b, t) \in 0 .. BlkCount - 1 /\ (Far(b, t) = 0 <=> b = t)
BY BlkCountAssumption DEF Far, Slots

LEMMA FarOne ==
  ASSUME NEW a \in Slots, NEW b \in Slots, NEW t \in Slots, Far(a, t) = Far(b, t)
  PROVE  a = b
BY BlkCountAssumption DEF Far, Slots

(* The block after the last one that counts.                               *)
LEMMA FarHead ==
  ASSUME NEW h \in Slots, NEW t \in Slots
  PROVE  /\ PINC(h) \in Slots
         /\ Far(h, t) < BlkCount - 1 => Far(PINC(h), t) = Far(h, t) + 1
         /\ Far(h, t) = BlkCount - 1 <=> PINC(h) = t
<1>1. PINC(h) = IF h = BlkCount - 1 THEN 0 ELSE h + 1
  BY BlkCountAssumption, SMT DEF PINC, Slots
<1> QED BY <1>1, BlkCountAssumption DEF Far, Slots

(* When the first one is released, the others move up.                     *)
LEMMA FarTail ==
  ASSUME NEW b \in Slots, NEW t \in Slots
  PROVE  Far(b, PINC(t)) = IF b = t THEN BlkCount - 1 ELSE Far(b, t) - 1
<1>1. PINC(t) = IF t = BlkCount - 1 THEN 0 ELSE t + 1
  BY BlkCountAssumption, SMT DEF PINC, Slots
<1> QED BY <1>1, BlkCountAssumption DEF Far, Slots

(* What the tests of the fifo see.                                         *)
LEMMA Tests ==
  ASSUME FifoTypeOK, count = Dist(head), count < BlkCount
  PROVE  /\ Empty <=> count = 0
         /\ Full <=> count = BlkCount - 1
         /\ Dist(tail) = 0 /\ Dist(head) = count
         /\ \A b \in Slots : Dist(b) \in Nat
         /\ \A b \in Slots : Handed(b) => b # head
<1>1. head \in Slots /\ tail \in Slots
  BY DEF FifoTypeOK
<1>2. Dist(tail) = 0 /\ Dist(head) = count /\ \A b \in Slots : Dist(b) \in Nat
  BY <1>1, FarType DEF Dist
<1>3. Empty <=> count = 0
  BY <1>1, <1>2, FarType DEF Dist, Empty
<1>4. Full <=> count = BlkCount - 1
  BY <1>1, <1>2, FarHead DEF Dist, Full
<1>5. \A b \in Slots : Handed(b) => b # head
  BY <1>2, BlkCountAssumption DEF Handed, FifoTypeOK
<1> QED BY <1>2, <1>3, <1>4, <1>5

-----------------------------------------------------------------------------
(* The inductive invariant.                                                *)

(* Units of a block that is closed: the whole packets it has room for.     *)
Fill == (BlkSize \div PktSize) * PktSize

(* The u-th unit of the packets that the samples a make.                   *)
Unit(a, u) ==
  LET n == u \div PktSize
      i == u % PktSize
  IN IF i = 0 THEN HeaderUnit(n % FieldMod) ELSE SampleUnit(a[n * Payload + i])

(* A packet is begun and not full; its units are past the block's len.     *)
AtHand == blk = "copy" \/ plen > 0
Begun == IF AtHand THEN 1 + plen ELSE 0
InHand == IF outBlk = NoBlk THEN 0 ELSE len[outBlk]

Types ==
  /\ FifoTypeOK
  /\ blk \in {"idle", "loop", "start", "restart", "attach", "copy", "complete",
              "finished", "joining", "stopped"}
  /\ want \in Nat /\ sent \in 0 .. want /\ plen \in 0 .. Payload
  /\ nextCount \in Nat /\ consumed \in Nat /\ accepted \in Seq(Nat)
  /\ pump \in {"select", "start", "send", "ended"} /\ done \in BOOLEAN
  /\ wire \in Seq(Nat)

(* As in RxPath, but a block that is closed has no room for a packet, and  *)
(* the one in hand always has.                                             *)
Ring ==
  /\ count = Dist(head) /\ count < BlkCount
  /\ outBlk # NoBlk => /\ outBlk = head /\ count < BlkCount - 1
                       /\ len[head] < BlkSize /\ read[head] = 0
  /\ inBlk # NoBlk => inBlk = tail /\ count > 0
  /\ \A b \in Slots : Handed(b) =>
       len[b] = Fill /\ read[b] < Fill /\ (inBlk # b => read[b] = 0)

(* What the place in Send says of the packet at hand and its block.        *)
PlaceOK ==
  /\ plen = Payload <=> blk = "complete"
  /\ blk \in {"start", "restart", "attach", "copy"} => plen = 0 /\ sent < want
  /\ blk = "start" => count < BlkCount - 1
  /\ blk = "restart" => outBlk = NoBlk
  /\ AtHand \/ blk = "attach" => outBlk # NoBlk /\ len[outBlk] + PktSize <= BlkSize
  /\ pump = "send" => inBlk # NoBlk

(* With m blocks released and k packets packed: what is in the blocks      *)
(* handed over, in the block in hand, and on the wire, are the units of    *)
(* one stream, and no unit is in two of these or in none.                  *)
Memory(m, k) ==
  /\ k * PktSize = (m + count) * Fill + InHand
  /\ Len(accepted) = k * Payload + plen
  /\ nextCount % FieldMod = (k + (IF AtHand THEN 1 ELSE 0)) % FieldMod
  /\ \A b \in Slots : Handed(b) =>
       \A i \in Cells : i < Fill => buf[b][i] = Unit(accepted, (m + Dist(b)) * Fill + i)
  /\ outBlk # NoBlk =>
       \A i \in Cells : i < len[outBlk] + Begun =>
         buf[outBlk][i] = Unit(accepted, (m + count) * Fill + i)
  /\ Len(wire) = m * Fill + (IF Empty THEN 0 ELSE read[tail])
  /\ \A i \in 1 .. Len(wire) : wire[i] = Unit(accepted, i - 1)

Inv ==
  /\ Types /\ Ring /\ PlaceOK
  /\ \E m, k \in Nat : Memory(m, k)

(* What txRetry counts, and how far it gets before work gives up.          *)
RetryInv ==
  /\ txRetry \in Nat /\ empties \in Nat /\ carried \in Nat /\ session \in Nat \ {0}
  /\ txRetry = empties + carried
  /\ session = 1 => carried = 0
  /\ session = 1 /\ blk \notin {"finished", "joining", "stopped"} => txRetry <= MaxRetry
  /\ blk = "finished" => /\ empties > 0 /\ txRetry > MaxRetry
                         /\ session = 1 => txRetry = MaxRetry + 1

-----------------------------------------------------------------------------
(* Giving up.                                                              *)

LEMMA RetryStep == RetryInv /\ [Next]_vars => RetryInv'
<1> SUFFICES ASSUME RetryInv, [Next]_vars PROVE RetryInv'
  OBVIOUS
<1> USE BoundsAssumption DEF retryVars
<1>1. ASSUME UNCHANGED <<retryVars, session>>,
             blk' = "finished" => blk = "finished",
             blk \in {"finished", "joining", "stopped"}
               => blk' \in {"finished", "joining", "stopped"}
      PROVE  RetryInv'
  BY <1>1 DEF RetryInv
<1>2. ASSUME ReturnsShort, blk \in {"loop", "restart"}
      PROVE  RetryInv'
  BY <1>2 DEF RetryInv, ReturnsShort, GivesUp, BlockAt
<1>3. CASE Pump \/ UNCHANGED vars
  <2>1. UNCHANGED <<blk, retryVars, session>>
    BY <1>3 DEF Pump, Select, PumpSeesDone, ReadStart, Send, SendNothing, SendEnds,
       PumpAt, workVars, vars
  <2> QED BY <2>1 DEF RetryInv
<1>4. CASE Working
  <2>1. ASSUME NEW n \in 1 .. MaxItems, Work(n) PROVE RetryInv'
    BY <2>1, <1>1 DEF Work, BlockAt
  <2>2. CASE WaitForReadySend
    BY <2>2, <1>1, <1>2 DEF WaitForReadySend, NeedsPacket, BlockAt, workVars
  <2>3. CASE SendStart
    BY <2>3, <1>1 DEF SendStart, BlockAt, workVars
  <2>4. CASE SendRestart
    BY <2>4, <1>1, <1>2 DEF SendRestart, BlockAt, workVars
  <2>5. CASE Attach \/ SendComplete \/ Joined
    BY <2>5, <1>1 DEF Attach, SendComplete, Joined, BlockAt, workVars
  <2>6. CASE Copy
    <3>1. /\ blk \in {"copy", "loop"} /\ blk' \in {"complete", "loop"}
          /\ UNCHANGED <<retryVars, session>>
      BY <2>6 DEF Copy, BlockAt
    <3> QED BY <3>1, <1>1
  <2>7. CASE WorkReturns
    BY <2>7 DEF WorkReturns, RetryReset, BlockAt, RetryInv
  <2> QED BY <1>4, <2>1, <2>2, <2>3, <2>4, <2>5, <2>6, <2>7 DEF Working
<1>5. CASE Stop \/ StopFails
  BY <1>5, <1>1 DEF Stop, StopFails, BlockAt, workVars
<1>6. CASE Start
  BY <1>6 DEF Start, RetryInv
<1> QED BY <1>3, <1>4, <1>5, <1>6 DEF Next

(* work returns -1 only for more than MaxRetry calls in a row that sent    *)
(* nothing; in the first session exactly one more.  txRetry outlives a     *)
(* session, so that those before the last start count as well.             *)
THEOREM EndsForCauseHolds == Spec => []EndsForCause
<1>1. Init => RetryInv
  BY BoundsAssumption DEF Init, RetryInv
<1>2. RetryInv => EndsForCause
  BY BoundsAssumption DEF RetryInv, EndsForCause
<1> QED BY <1>1, <1>2, RetryStep, PTL DEF Spec

-----------------------------------------------------------------------------
(* Packets and blocks.                                                     *)

LEMMA Sizes ==
  /\ PktSize \in Nat \ {0} /\ Payload \in Nat \ {0} /\ PktSize = Payload + 1
  /\ BlkSize \in Nat \ {0} /\ BlkCount \in Nat /\ BlkCount >= 2
  /\ Cells = 0 .. BlkSize - 1 /\ FieldMod \in Nat \ {0} /\ VarMod \in Nat \ {0}
BY PktSizeAssumption, BlkSizeAssumption, BlkCountAssumption, ModAssumption
   DEF Payload, Cells

(* A block closed has room for one packet, and for no further one.         *)
LEMMA FillIs ==
  /\ Fill \in Nat /\ PktSize <= Fill /\ Fill <= BlkSize /\ BlkSize < Fill + PktSize
<1> DEFINE W == BlkSize \div PktSize
<1> USE Sizes
<1>1. /\ W \in Nat /\ BlkSize % PktSize \in 0 .. PktSize - 1
      /\ BlkSize = W * PktSize + (BlkSize % PktSize)
  BY Division
<1>2. W # 0
  BY <1>1, PktSizeAssumption
<1>3. Fill = W * PktSize
  BY DEF Fill
<1> HIDE DEF W
<1>4. 1 * PktSize <= W * PktSize
  BY <1>1, <1>2, Mono
<1>5. W * PktSize \in Nat
  BY <1>1
<1> QED BY <1>1, <1>3, <1>4, <1>5

(* Whole packets that leave no room for another fill a block.              *)
LEMMA FullBlock ==
  ASSUME NEW j \in Int, j * PktSize <= BlkSize, BlkSize < j * PktSize + PktSize
  PROVE  j * PktSize = Fill
<1> DEFINE W == BlkSize \div PktSize
<1> USE Sizes
<1>1. W \in Nat /\ Fill = W * PktSize
  BY Division DEF Fill
<1> HIDE DEF W
<1>2. CASE j < W
  <2>1. (j + 1) * PktSize <= W * PktSize
    BY <1>1, <1>2, Mono
  <2>2. (j + 1) * PktSize = j * PktSize + PktSize
    OBVIOUS
  <2> QED BY <1>1, <2>1, <2>2, FillIs
<1>3. CASE W < j
  <2>1. (W + 1) * PktSize <= j * PktSize
    BY <1>1, <1>3, Mono
  <2>2. (W + 1) * PktSize = W * PktSize + PktSize
    BY <1>1
  <2> QED BY <1>1, <2>1, <2>2, FillIs
<1> QED BY <1>1, <1>2, <1>3

(* What lies behind n closed blocks in a stream of whole packets is whole  *)
(* packets itself.                                                         *)
LEMMA WholePackets ==
  ASSUME NEW k \in Nat, NEW n \in Nat, NEW r \in Nat, k * PktSize = n * Fill + r
  PROVE  \E j \in Int : r = j * PktSize
<1> DEFINE W == BlkSize \div PktSize
<1> USE Sizes
<1>1. W \in Nat /\ Fill = W * PktSize
  BY Division DEF Fill
<1> HIDE DEF W
<1>2. n * Fill = (n * W) * PktSize
  BY ONLY <1>1, Sizes
<1>3. n * W \in Nat
  BY <1>1
<1> DEFINE a == n * W
<1>4. a \in Nat /\ n * Fill = a * PktSize
  BY <1>2, <1>3
<1> HIDE DEF a
<1>5. (k - a) * PktSize = k * PktSize - a * PktSize /\ k - a \in Int
  BY <1>4
<1>6. r = (k - a) * PktSize
  BY <1>4, <1>5
<1> QED BY <1>5, <1>6

(* Unit i of packet n.                                                     *)
LEMMA UnitAt ==
  ASSUME NEW a, NEW n \in Nat, NEW i \in 0 .. Payload
  PROVE  Unit(a, n * PktSize + i) = IF i = 0 THEN n % FieldMod
                                 ELSE FieldMod + a[n * Payload + i]
<1>1. i \in 0 .. PktSize - 1
  BY Sizes
<1>2. (n * PktSize + i) \div PktSize = n /\ (n * PktSize + i) % PktSize = i
  BY <1>1, Sizes, Euclid
<1> QED BY <1>2 DEF Unit, HeaderUnit, SampleUnit

(* The samples of the units packed are samples that Send has taken.        *)
LEMMA Known ==
  ASSUME NEW k \in Nat, NEW p \in 0 .. Payload, NEW d \in Nat, NEW i \in 0 .. Payload,
         d * PktSize + i <= k * PktSize + p
  PROVE  d * Payload + i <= k * Payload + p
<1> USE Sizes
<1>1. CASE d < k
  <2>1. (d + 1) * Payload <= k * Payload /\ (d + 1) * Payload = d * Payload + Payload
    BY <1>1, Mono
  <2>2. d * Payload \in Nat /\ k * Payload \in Nat
    OBVIOUS
  <2> QED BY <1>1, <2>1, <2>2
<1>2. CASE d = k
  <2>1. k * PktSize \in Nat
    OBVIOUS
  <2> QED BY <1>2, <2>1
<1>3. CASE k < d
  <2>1. (k + 1) * PktSize <= d * PktSize /\ (k + 1) * PktSize = k * PktSize + PktSize
    BY <1>3, Mono
  <2>2. k * PktSize \in Nat /\ d * PktSize \in Nat
    OBVIOUS
  <2> QED BY <2>1, <2>2
<1> QED BY <1>1, <1>2, <1>3

(* What has been packed does not depend on what Send takes next.           *)
LEMMA UnitStays ==
  ASSUME NEW a \in Seq(Nat), NEW b \in Seq(Nat), Len(a) <= Len(b),
         \A i \in 1 .. Len(a) : b[i] = a[i],
         NEW k \in Nat, NEW p \in 0 .. Payload, Len(a) = k * Payload + p,
         NEW u \in Nat, u <= k * PktSize + p
  PROVE  Unit(b, u) = Unit(a, u)
<1> DEFINE d == u \div PktSize
           i == u % PktSize
<1> USE Sizes
<1>1. d \in Nat /\ i \in 0 .. PktSize - 1 /\ u = d * PktSize + i
  BY Division
<1> HIDE DEF d, i
<1>2. d * Payload + i <= Len(a) /\ d * Payload \in Nat
  BY <1>1, Known
<1>3. i # 0 => d * Payload + i \in 1 .. Len(a)
  BY <1>1, <1>2
<1>4. i # 0 => b[d * Payload + i] = a[d * Payload + i]
  BY <1>1, <1>3
<1> QED BY <1>4 DEF Unit, SampleUnit, d, i

(* A sample's unit is not taken for a header's.                            *)
LEMMA UnitType ==
  ASSUME NEW a \in Seq(Nat), NEW k \in Nat, NEW p \in 0 .. Payload,
         Len(a) = k * Payload + p, NEW u \in Nat, u <= k * PktSize + p
  PROVE  /\ Unit(a, u) \in Nat
         /\ IF u % PktSize = 0 THEN Unit(a, u) = (u \div PktSize) % FieldMod
                               ELSE Unit(a, u) >= FieldMod
<1> DEFINE d == u \div PktSize
           i == u % PktSize
<1> USE Sizes
<1>1. d \in Nat /\ i \in 0 .. PktSize - 1 /\ u = d * PktSize + i /\ d % FieldMod \in Nat
  <2>1. d \in Nat /\ i \in 0 .. PktSize - 1 /\ u = d * PktSize + i
    BY Division
  <2> HIDE DEF d
  <2> QED BY <2>1, Division
<1> HIDE DEF d, i
<1>2. d * Payload + i <= Len(a) /\ d * Payload \in Nat
  BY <1>1, Known
<1>3. i # 0 => a[d * Payload + i] \in Nat
  <2>1. i # 0 => d * Payload + i \in 1 .. Len(a)
    BY <1>1, <1>2
  <2> QED BY <2>1
<1> QED BY SMTT(60), <1>1, <1>3 DEF Unit, HeaderUnit, SampleUnit, d, i

LEMMA SameField ==
  ASSUME NEW q \in Nat, NEW x \in Nat, NEW y \in Nat, x = q * FieldMod + y
  PROVE  x % FieldMod = y % FieldMod
<1> DEFINE r == y % FieldMod
           e == y \div FieldMod
<1> USE Sizes
<1>1. e \in Nat /\ r \in 0 .. FieldMod - 1 /\ y = e * FieldMod + r
  BY Division
<1> HIDE DEF r, e
<1>2. x = (q + e) * FieldMod + r /\ q + e \in Nat
  BY <1>1
<1>3. ((q + e) * FieldMod + r) % FieldMod = r
  BY <1>1, <1>2, Euclid
<1> QED BY <1>2, <1>3 DEF r

(* The header's count goes on over the wrap of its field and its variable. *)
LEMMA NextInField ==
  ASSUME NEW a \in Nat, NEW b \in Nat, a % FieldMod = b % FieldMod
  PROVE  ((a + 1) % VarMod) % FieldMod = (b + 1) % FieldMod
<1> USE Sizes
<1> DEFINE v == VarMod \div FieldMod
<1>1. v \in Nat /\ VarMod = v * FieldMod
  <2>1. VarMod \div FieldMod \in Nat
        /\ VarMod = (VarMod \div FieldMod) * FieldMod + (VarMod % FieldMod)
    BY Division
  <2> QED BY <2>1, ModAssumption
<1> HIDE DEF v
<1>2. ((a + 1) % VarMod) % FieldMod = (a + 1) % FieldMod
  <2> DEFINE x == a + 1
             y == x % VarMod
             q == x \div VarMod
  <2>1. x \in Nat /\ q \in Nat /\ y \in Nat /\ x = q * VarMod + y
    <3>1. x \in Nat
      OBVIOUS
    <3> HIDE DEF x
    <3>2. q \in Nat /\ y \in 0 .. VarMod - 1 /\ x = q * VarMod + y
      BY <3>1, Division
    <3> QED BY <3>1, <3>2
  <2> HIDE DEF x, y, q
  <2>2. q * VarMod = (q * v) * FieldMod /\ q * v \in Nat
    BY <1>1, <2>1
  <2> DEFINE w == q * v
  <2>3. w \in Nat /\ x = w * FieldMod + y
    BY <2>1, <2>2
  <2> HIDE DEF w
  <2>4. x % FieldMod = y % FieldMod
    BY ONLY <2>1, <2>3, SameField
  <2> QED BY <2>4 DEF x, y
<1>3. (a + 1) % FieldMod = (b + 1) % FieldMod
  <2> DEFINE r == a % FieldMod
             d == a \div FieldMod
             e == b \div FieldMod
  <2>1. /\ r \in Nat /\ d \in Nat /\ e \in Nat
        /\ a = d * FieldMod + r /\ b = e * FieldMod + r
    <3>1. d \in Nat /\ r \in 0 .. FieldMod - 1 /\ a = d * FieldMod + r
      BY Division
    <3>2. /\ e \in Nat /\ b % FieldMod \in 0 .. FieldMod - 1
          /\ b = e * FieldMod + (b % FieldMod)
      BY Division
    <3> QED BY <3>1, <3>2
  <2> HIDE DEF r, d, e
  <2>2. a + 1 = d * FieldMod + (r + 1) /\ b + 1 = e * FieldMod + (r + 1)
    BY <2>1
  <2>3. a + 1 \in Nat /\ b + 1 \in Nat /\ r + 1 \in Nat
    BY <2>1
  <2>4. (a + 1) % FieldMod = (r + 1) % FieldMod
    BY ONLY <2>1, <2>2, <2>3, SameField
  <2>5. (b + 1) % FieldMod = (r + 1) % FieldMod
    BY ONLY <2>1, <2>2, <2>3, SameField
  <2> QED BY <2>4, <2>5
<1> QED BY <1>2, <1>3

(* Where the units lie that are not in the packet at hand.                 *)
LEMMA Extents ==
  ASSUME Inv, NEW m \in Nat, NEW k \in Nat, Memory(m, k)
  PROVE  /\ (m + count) * Fill \in Nat /\ (m + count) * Fill <= k * PktSize
         /\ InHand \in 0 .. BlkSize /\ count \in Nat
         /\ Len(wire) \in Nat /\ Len(wire) <= (m + count) * Fill
         /\ \A b \in Slots, i \in Cells : Handed(b) /\ i < Fill =>
              /\ (m + Dist(b)) * Fill + i \in Nat
              /\ (m + Dist(b)) * Fill + i < (m + count) * Fill
<1> USE Sizes, FillIs
<1>1. count \in Nat /\ InHand \in 0 .. BlkSize /\ tail \in Slots
  BY DEF Inv, Types, FifoTypeOK, InHand
<1>2. (m + count) * Fill \in Nat
  BY <1>1
<1>3. (m + count) * Fill <= k * PktSize
  BY <1>1, <1>2 DEF Memory
<1>4. ASSUME NEW n \in Nat, n < count
      PROVE  (m + n) * Fill + Fill <= (m + count) * Fill /\ (m + n) * Fill \in Nat
  <2>1. ((m + n) + 1) * Fill <= (m + count) * Fill
    BY <1>1, <1>4, Mono
  <2>2. ((m + n) + 1) * Fill = (m + n) * Fill + Fill
    OBVIOUS
  <2> QED BY <2>1, <2>2
<1>5. \A b \in Slots, i \in Cells : Handed(b) /\ i < Fill =>
        /\ (m + Dist(b)) * Fill + i \in Nat
        /\ (m + Dist(b)) * Fill + i < (m + count) * Fill
  <2> SUFFICES ASSUME NEW b \in Slots, NEW i \in Cells, Handed(b), i < Fill
               PROVE  /\ (m + Dist(b)) * Fill + i \in Nat
                      /\ (m + Dist(b)) * Fill + i < (m + count) * Fill
    OBVIOUS
  <2>1. Dist(b) \in Nat /\ Dist(b) < count
    BY Tests DEF Inv, Types, Ring, Handed
  <2>2. (m + Dist(b)) * Fill + Fill <= (m + count) * Fill
        /\ (m + Dist(b)) * Fill \in Nat
    BY <1>4, <2>1
  <2> QED BY <1>2, <2>2
<1>6. Len(wire) \in Nat /\ Len(wire) <= (m + count) * Fill
  <2>1. m * Fill <= (m + count) * Fill /\ m * Fill \in Nat
    BY <1>1, Mono
  <2>2. ~Empty => /\ 0 < count /\ read[tail] \in Nat /\ read[tail] < Fill
    <3>1. Dist(tail) = 0 /\ (~Empty => count # 0)
      BY Tests DEF Inv, Types, Ring
    <3>2. ~Empty => Handed(tail)
      BY <1>1, <3>1 DEF Handed
    <3> QED BY <1>1, <3>1, <3>2 DEF Inv, Types, FifoTypeOK, Ring
  <2>3. ~Empty => m * Fill + Fill <= (m + count) * Fill
    <3>1. 0 < count => (m + 0) * Fill + Fill <= (m + count) * Fill
      BY <1>4
    <3> QED BY <2>2, <3>1
  <2> QED BY <1>2, <2>1, <2>2, <2>3 DEF Memory
<1> QED BY <1>1, <1>2, <1>3, <1>5, <1>6

-----------------------------------------------------------------------------
(* A new client, and steps that only move a thread.                        *)

LEMMA FreshClient ==
  ASSUME head = 0, tail = 0, count = 0, outBlk = NoBlk, inBlk = NoBlk,
         len = [b \in Slots |-> 0], read = [b \in Slots |-> 0],
         buf = [b \in Slots |-> [i \in Cells |-> 0]],
         blk = "idle", want = 0, sent = 0, plen = 0, nextCount = 0, consumed = 0,
         accepted = <<>>, pump \in {"select", "ended"}, done = FALSE, wire = <<>>
  PROVE  Inv
<1> USE Sizes
<1>1. Types
  BY SMTT(60) DEF Types, FifoTypeOK, Slots, NoBlk
<1>2. Ring
  BY DEF Ring, Handed, Dist, Far
<1>3. PlaceOK
  BY DEF PlaceOK, AtHand
<1>4. Memory(0, 0)
  <2>1. 0 * PktSize = 0 /\ 0 * Fill = 0 /\ 0 * Payload = 0
    BY FillIs
  <2> QED BY <2>1 DEF Memory, Handed, Dist, Far, Slots, Empty, AtHand, InHand
<1> QED BY <1>1, <1>2, <1>3, <1>4 DEF Inv

LEMMA InvInit == Init => Inv
BY FreshClient DEF Init, FifoInit

LEMMA InvStart ==
  ASSUME Start
  PROVE  Inv'
<1>1. /\ head' = 0 /\ tail' = 0 /\ count' = 0 /\ outBlk' = NoBlk /\ inBlk' = NoBlk
      /\ len' = [b \in Slots |-> 0] /\ read' = [b \in Slots |-> 0]
      /\ buf' = [b \in Slots |-> [i \in Cells |-> 0]]
      /\ blk' = "idle" /\ want' = 0 /\ sent' = 0 /\ plen' = 0 /\ nextCount' = 0
      /\ consumed' = 0 /\ accepted' = <<>> /\ pump' \in {"select", "ended"}
      /\ done' = FALSE /\ wire' = <<>>
  BY DEF Start
<1> USE Sizes
<1>2. Types'
  <2>1. FifoTypeOK'
    BY <1>1 DEF FifoTypeOK, Slots, NoBlk
  <2>2. /\ want' \in Nat /\ sent' \in 0 .. want' /\ plen' \in 0 .. Payload
        /\ nextCount' \in Nat /\ consumed' \in Nat
        /\ accepted' \in Seq(Nat) /\ wire' \in Seq(Nat)
    BY <1>1
  <2>3. done' \in BOOLEAN
    BY <1>1, Zenon
  <2> QED BY <1>1, <2>1, <2>2, <2>3 DEF Types
<1>3. Ring'
  BY <1>1 DEF Ring, Handed, Dist, Far
<1>4. PlaceOK'
  BY <1>1 DEF PlaceOK, AtHand
<1>5. Memory(0, 0)'
  <2>1. 0 * PktSize = 0 /\ 0 * Fill = 0 /\ 0 * Payload = 0
    BY FillIs
  <2> QED BY <1>1, <2>1 DEF Memory, Handed, Dist, Far, Slots, Empty, AtHand, InHand
<1> QED BY <1>2, <1>3, <1>4, <1>5 DEF Inv

LEMMA Moves ==
  ASSUME Inv, UNCHANGED <<fifoVars, plen, nextCount, accepted, wire>>,
         AtHand' <=> AtHand, PlaceOK',
         blk' \in {"idle", "loop", "start", "restart", "attach", "copy", "complete",
                   "finished", "joining", "stopped"},
         want' \in Nat, sent' \in 0 .. want', consumed' \in Nat,
         pump' \in {"select", "start", "send", "ended"}, done' \in BOOLEAN
  PROVE  Inv'
<1> USE DEF fifoVars
<1>1. Types'
  BY DEF Inv, Types, FifoTypeOK
<1>2. Ring'
  BY DEF Inv, Ring, Handed, Dist
<1>3. \A m, k \in Nat : Memory(m, k) => Memory(m, k)'
  BY DEF Memory, Handed, Dist, InHand, Begun, Empty, Unit
<1> QED BY <1>1, <1>2, <1>3 DEF Inv

(* The pump's moves leave the block's thread alone.                        *)
LEMMA PumpMoves ==
  ASSUME Inv, UNCHANGED <<fifoVars, blk, workVars, wire>>,
         pump' \in {"select", "start", "send", "ended"}, done' \in BOOLEAN,
         pump' = "send" => inBlk # NoBlk
  PROVE  Inv'
<1> USE DEF fifoVars, workVars
<1>1. PlaceOK'
  BY DEF Inv, PlaceOK, AtHand
<1>2. AtHand' <=> AtHand
  BY DEF AtHand
<1> QED BY <1>1, <1>2, Moves DEF Inv, Types

LEMMA InvPumpMoves ==
  ASSUME Inv, Select \/ PumpSeesDone \/ SendNothing \/ SendEnds
  PROVE  Inv'
<1>1. /\ UNCHANGED <<fifoVars, blk, workVars, wire>>
      /\ pump' \in {"select", "start", "ended"} /\ done' \in BOOLEAN
  BY DEF Inv, Types, Select, PumpSeesDone, SendNothing, SendEnds, PumpAt
<1> QED BY <1>1, PumpMoves

(* The block's thread between the packets.                                 *)
LEMMA BlockMoves ==
  ASSUME Inv, UNCHANGED <<fifoVars, plen, nextCount, accepted, pump, wire>>,
         done' \in BOOLEAN, blk # "copy",
         plen < Payload, want' \in Nat, sent' \in 0 .. want', consumed' \in Nat,
         \/ blk' \in {"idle", "loop", "finished", "joining", "stopped"}
         \/ /\ blk' = "start" /\ count < BlkCount - 1 /\ plen = 0 /\ sent' < want'
         \/ /\ blk' = "attach" /\ plen = 0 /\ sent' < want'
            /\ outBlk # NoBlk /\ len[outBlk] + PktSize <= BlkSize
  PROVE  Inv'
<1> USE Sizes DEF fifoVars
<1>1. AtHand' <=> AtHand
  BY DEF AtHand
<1>2. PlaceOK'
  <2>1. plen \in 0 .. Payload
    BY DEF Inv, Types
  <2> QED BY <2>1 DEF Inv, PlaceOK, AtHand
<1> QED BY <1>1, <1>2, Moves DEF Inv, Types

LEMMA InvBlockMoves ==
  ASSUME Inv, \/ \E n \in 1 .. MaxItems : Work(n)
              \/ WaitForReadySend \/ WorkReturns \/ Joined \/ Stop \/ StopFails
              \/ SendRestart /\ Full
  PROVE  Inv'
<1>1. /\ blk \in {"idle", "loop", "restart", "finished", "joining"} /\ plen < Payload
      /\ want \in Nat /\ sent \in 0 .. want /\ consumed \in Nat /\ done \in BOOLEAN
  <2>1. blk \in {"idle", "loop", "restart", "finished", "joining"}
    BY DEF Work, WaitForReadySend, NeedsPacket, WorkReturns, Joined, Stop, StopFails,
       SendRestart
  <2>2. plen # Payload /\ plen \in 0 .. Payload
    BY <2>1 DEF Inv, Types, PlaceOK
  <2> QED BY <2>1, <2>2, Sizes DEF Inv, Types
<1>2. ASSUME ReturnsShort PROVE Inv'
  <2>1. /\ UNCHANGED <<fifoVars, plen, nextCount, accepted, pump, done, wire>>
        /\ blk' \in {"idle", "finished"} /\ want' = 0 /\ sent' = 0
        /\ consumed' \in Nat
    BY <1>1, <1>2 DEF ReturnsShort, BlockAt, pumpVars
  <2> QED BY <1>1, <2>1, BlockMoves
<1>3. ASSUME NEW n \in 1 .. MaxItems, Work(n) PROVE Inv'
  <2>1. /\ UNCHANGED <<fifoVars, plen, nextCount, accepted, pump, done, wire, consumed>>
        /\ blk' = "loop" /\ want' = n /\ sent' = 0
    BY <1>3 DEF Work, BlockAt, pumpVars
  <2>2. n \in Nat /\ 0 \in 0 .. n
    BY BoundsAssumption
  <2> QED BY <1>1, <2>1, <2>2, BlockMoves
<1>4. CASE WaitForReadySend
  <2>1. CASE ~Full /\ BlockAt("start") /\ UNCHANGED <<fifoVars, workVars>>
    <3>1. /\ UNCHANGED <<fifoVars, plen, nextCount, accepted, pump, done, wire>>
          /\ UNCHANGED <<want, sent, consumed>>
          /\ blk' = "start" /\ sent < want /\ plen = 0
      BY <1>4, <2>1 DEF WaitForReadySend, NeedsPacket, BlockAt, pumpVars, workVars
    <3>2. count < BlkCount - 1
      <4>1. count # BlkCount - 1
        BY <2>1, Tests DEF Inv, Types, Ring
      <4> QED BY <4>1, Sizes DEF Inv, Types, FifoTypeOK, Ring
    <3> QED BY <1>1, <3>1, <3>2, BlockMoves
  <2> QED BY <1>2, <1>4, <2>1 DEF WaitForReadySend
<1>5. CASE WorkReturns
  <2>1. /\ UNCHANGED <<fifoVars, plen, nextCount, accepted, pump, done, wire>>
        /\ blk' = "idle" /\ want' = 0 /\ sent' = 0 /\ consumed' \in Nat
    BY <1>1, <1>5 DEF WorkReturns, BlockAt, pumpVars
  <2> QED BY <1>1, <2>1, BlockMoves
<1>6. CASE Joined \/ Stop \/ StopFails
  <2>1. /\ UNCHANGED <<fifoVars, plen, nextCount, accepted, pump, wire>>
        /\ UNCHANGED <<want, sent, consumed>>
        /\ blk' \in {"joining", "stopped"} /\ done' \in BOOLEAN
    BY <1>1, <1>6 DEF Joined, Stop, StopFails, BlockAt, pumpVars, workVars
  <2> QED BY <1>1, <2>1, BlockMoves
<1>7. CASE SendRestart /\ Full
  BY <1>2, <1>7 DEF SendRestart
<1> QED BY <1>3, <1>4, <1>5, <1>6, <1>7, <1>2

-----------------------------------------------------------------------------
(* The block's thread takes a block.                                       *)

LEMMA InvTakes ==
  ASSUME Inv, (SendStart /\ outBlk = NoBlk) \/ (SendRestart /\ ~Full)
  PROVE  Inv'
<1> USE Sizes
<1>1. /\ outBlk = NoBlk /\ plen = 0 /\ blk # "copy" /\ sent < want
      /\ TakeOut /\ blk' = "attach"
      /\ UNCHANGED <<workVars, pumpVars>> /\ count < BlkCount - 1
  <2>1. CASE SendStart /\ outBlk = NoBlk
    BY <2>1 DEF Inv, PlaceOK, SendStart, BlockAt
  <2>2. CASE SendRestart /\ ~Full
    <3>1. count # BlkCount - 1
      BY <2>2, Tests DEF Inv, Types, Ring
    <3>2. count < BlkCount - 1
      BY <3>1 DEF Inv, Types, FifoTypeOK, Ring
    <3> QED BY <2>2, <3>2 DEF Inv, PlaceOK, SendRestart, BlockAt
  <2> QED BY <2>1, <2>2
<1>2. /\ UNCHANGED <<head, tail, count, buf, inBlk, want, sent, plen, nextCount,
                     consumed, accepted, pump, done, wire>>
      /\ outBlk' = head /\ len' = [len EXCEPT ![head] = 0]
      /\ read' = [read EXCEPT ![head] = 0]
  BY <1>1 DEF TakeOut, workVars, pumpVars
<1>3. /\ head \in Slots /\ tail \in Slots /\ NoBlk \notin Slots
      /\ \A b \in Slots : Handed(b) => b # head
  <2>1. head \in Slots /\ tail \in Slots /\ NoBlk \notin Slots
    BY DEF Inv, Types, FifoTypeOK, Slots, NoBlk
  <2> QED BY <2>1, Tests DEF Inv, Types, Ring
<1>4. /\ len' \in [Slots -> 0 .. BlkSize] /\ read' \in [Slots -> 0 .. BlkSize]
      /\ len'[head] = 0 /\ read'[head] = 0
      /\ \A b \in Slots : b # head => len'[b] = len[b] /\ read'[b] = read[b]
  <2>1. len \in [Slots -> 0 .. BlkSize] /\ read \in [Slots -> 0 .. BlkSize]
    BY DEF Inv, Types, FifoTypeOK
  <2> QED BY ONLY <1>2, <1>3, <2>1, Sizes
<1>5. Types'
  <2>1. FifoTypeOK'
    BY <1>2, <1>3, <1>4 DEF Inv, Types, FifoTypeOK, Slots
  <2> QED BY <1>1, <1>2, <2>1 DEF Inv, Types
<1>6. \A b \in Slots : (Handed(b)' <=> Handed(b)) /\ Dist(b)' = Dist(b)
  BY <1>2 DEF Handed, Dist
<1>7. Ring'
  <2>1. count' = Dist(head)' /\ count' < BlkCount
    BY <1>2, <1>3, <1>6 DEF Inv, Ring
  <2>2. inBlk' # NoBlk => inBlk' = tail' /\ count' > 0
    BY <1>2 DEF Inv, Ring
  <2>3. \A b \in Slots : Handed(b)' =>
          len'[b] = Fill /\ read'[b] < Fill /\ (inBlk' # b => read'[b] = 0)
    BY <1>2, <1>3, <1>4, <1>6 DEF Inv, Ring
  <2> QED BY <1>1, <1>2, <1>4, <2>1, <2>2, <2>3 DEF Ring
<1>8. PlaceOK'
  <2>1. pump' = "send" => inBlk' # NoBlk
    BY <1>2 DEF Inv, PlaceOK
  <2>2. outBlk' # NoBlk /\ len'[outBlk'] + PktSize <= BlkSize
    BY <1>2, <1>3, <1>4, PktSizeAssumption
  <2> QED BY <1>1, <1>2, <2>1, <2>2 DEF PlaceOK, AtHand
<1>9. ASSUME NEW m \in Nat, NEW k \in Nat, Memory(m, k)
      PROVE  Memory(m, k)'
  <2>1. ~AtHand /\ ~AtHand' /\ Begun' = 0 /\ InHand = 0 /\ InHand' = 0
    BY <1>1, <1>2, <1>4 DEF AtHand, Begun, InHand
  <2>2. Empty' = Empty /\ (~Empty => read'[tail] = read[tail])
    BY <1>2, <1>3, <1>4 DEF Empty
  <2>3. k * PktSize = (m + count') * Fill + InHand'
    BY <1>2, <1>9, <2>1 DEF Memory
  <2>4. /\ Len(accepted') = k * Payload + plen'
        /\ nextCount' % FieldMod = (k + (IF AtHand' THEN 1 ELSE 0)) % FieldMod
    BY <1>2, <1>9, <2>1 DEF Memory
  <2>5. accepted' = accepted
    BY <1>2
  <2>6. \A b \in Slots : Handed(b)' =>
          \A i \in Cells : i < Fill => buf'[b][i] = Unit(accepted', (m + Dist(b)') * Fill + i)
    BY <1>2, <1>6, <1>9, <2>5 DEF Memory
  <2>7. \A i \in Cells : ~(i < len'[outBlk'] + Begun')
    BY <1>2, <1>4, <2>1
  <2>8. /\ Len(wire') = m * Fill + (IF Empty' THEN 0 ELSE read'[tail'])
        /\ \A i \in 1 .. Len(wire') : wire'[i] = Unit(accepted', i - 1)
    BY <1>2, <1>9, <2>2, <2>5 DEF Memory
  <2> QED BY <2>3, <2>4, <2>6, <2>7, <2>8 DEF Memory
<1> QED BY <1>5, <1>7, <1>8, <1>9 DEF Inv

-----------------------------------------------------------------------------
(* SendComplete, of the packet at hand or, to close the block, of nothing. *)

(* Where the block in hand ends when it is committed.                      *)
LEMMA Commits ==
  ASSUME Inv, NEW amt \in {0, PktSize}, CommitOut(amt),
         IF amt = 0 THEN plen = 0 /\ blk # "copy" /\ BlkSize - len[outBlk] < PktSize
                    ELSE plen = Payload /\ len[outBlk] + PktSize <= BlkSize,
         blk' \in {"loop", "restart"}, blk' = "restart" => sent < want /\ amt = 0,
         plen' = 0,
         UNCHANGED <<want, sent, nextCount, consumed, accepted, pumpVars>>
  PROVE  Inv'
<1> USE Sizes, FillIs
<1>1. /\ head \in Slots /\ tail \in Slots /\ count \in Nat /\ NoBlk \notin Slots
      /\ outBlk = head /\ outBlk # NoBlk /\ count < BlkCount - 1 /\ count = Dist(head)
      /\ len[head] \in 0 .. BlkSize - 1 /\ read[head] = 0
      /\ len[head] + amt <= BlkSize /\ amt \in Nat /\ amt = Begun
      /\ \A b \in Slots : Handed(b) => b # head
  <2>1. /\ head \in Slots /\ tail \in Slots /\ count \in Nat /\ NoBlk \notin Slots
        /\ outBlk = head /\ outBlk # NoBlk /\ count < BlkCount - 1 /\ count = Dist(head)
        /\ len[head] \in 0 .. BlkSize - 1 /\ read[head] = 0
    BY SMTT(60) DEF Inv, Types, FifoTypeOK, Ring, CommitOut, Slots, NoBlk
  <2>2. \A b \in Slots : Handed(b) => b # head
    BY Tests DEF Inv, Types, Ring
  <2>3. len[head] + amt <= BlkSize /\ amt \in Nat /\ amt = Begun
    BY <2>1 DEF Begun, AtHand
  <2> QED BY <2>1, <2>2, <2>3
<1>2. /\ UNCHANGED <<tail, read, buf, inBlk, pump, done, wire>>
      /\ len' = [len EXCEPT ![head] = @ + amt]
  BY <1>1 DEF CommitOut, pumpVars
<1>3. len' \in [Slots -> 0 .. BlkSize] /\ len'[head] = len[head] + amt
      /\ \A b \in Slots : b # head => len'[b] = len[b]
  <2>1. len \in [Slots -> 0 .. BlkSize]
    BY DEF Inv, Types, FifoTypeOK
  <2>2. len[head] + amt \in 0 .. BlkSize
    BY <1>1
  <2> QED BY ONLY <1>1, <1>2, <2>1, <2>2
<1>4. ~AtHand' /\ Begun' = 0 /\ plen' = 0
  BY DEF AtHand, Begun
<1>5. ASSUME NEW m \in Nat, NEW k \in Nat, Memory(m, k)
      PROVE  \E n \in Nat :
               /\ n * PktSize = (m + count) * Fill + (len[head] + amt)
               /\ Len(accepted') = n * Payload + plen'
               /\ nextCount' % FieldMod = (n + 0) % FieldMod
  <2>1. /\ k * PktSize = (m + count) * Fill + len[head]
        /\ Len(accepted) = k * Payload + plen
        /\ nextCount % FieldMod = (k + (IF AtHand THEN 1 ELSE 0)) % FieldMod
    BY <1>1, <1>5 DEF Memory, InHand
  <2>2. CASE amt = 0
    <3>1. /\ Len(accepted') = k * Payload + plen'
          /\ nextCount' % FieldMod = (k + 0) % FieldMod
      BY <2>1, <2>2 DEF AtHand
    <3>2. len[head] + amt = len[head]
      BY <1>1, <2>2
    <3> QED BY <2>1, <3>1, <3>2
  <2>3. CASE amt = PktSize
    <3>1. (k + 1) * PktSize = k * PktSize + PktSize
          /\ (k + 1) * Payload = k * Payload + Payload
      OBVIOUS
    <3>2. (m + count) * Fill \in Nat /\ len[head] \in Nat
      BY SMTT(60), <1>1
    <3>3. (k + 1) * PktSize = (m + count) * Fill + (len[head] + amt)
      BY ONLY SMTT(60), <2>1, <2>3, <3>1, <3>2, Sizes
    <3>4. Len(accepted') = (k + 1) * Payload + 0
      BY <2>1, <2>3, <3>1
    <3>5. nextCount' % FieldMod = ((k + 1) + 0) % FieldMod
      BY <2>1, <2>3 DEF AtHand
    <3>6. k + 1 \in Nat
      OBVIOUS
    <3> QED BY <3>3, <3>4, <3>5, <3>6
  <2> QED BY <2>2, <2>3
<1>6. accepted' = accepted
  OBVIOUS
<1>7. ASSUME FifoTypeOK' PROVE Types'
  BY <1>2, <1>7 DEF Inv, Types
<1>8. CASE Closes(amt)
  <2>1. count' = count + 1 /\ head' = PINC(head) /\ outBlk' = NoBlk
    BY <1>1, <1>8 DEF CommitOut, Closes
  <2>2. head' \in Slots /\ Far(head', tail) = count + 1
    BY <1>1, <2>1, FarHead DEF Dist
  <2>3. len'[head] = Fill
    <3>1. BlkSize < (len[head] + amt) + PktSize
      BY <1>1, <1>8 DEF Closes
    <3>2. PICK m \in Nat, n \in Nat : n * PktSize = (m + count) * Fill + (len[head] + amt)
      <4>1. PICK m \in Nat, k \in Nat : Memory(m, k)
        BY DEF Inv
      <4>2. \E n \in Nat : n * PktSize = (m + count) * Fill + (len[head] + amt)
        BY <1>5, <4>1
      <4> QED BY ONLY <4>1, <4>2
    <3>3. \E j \in Int : len[head] + amt = j * PktSize
      <4>1. m + count \in Nat /\ len[head] + amt \in Nat
        BY <1>1
      <4> QED BY ONLY <3>2, <4>1, WholePackets
    <3> QED BY <1>1, <1>3, <3>1, <3>3, FullBlock
  <2>4. \A b \in Slots : Dist(b)' = Dist(b)
    BY <1>2 DEF Dist
  <2>5. ASSUME NEW b \in Slots, Handed(b)'
        PROVE  Handed(b) \/ (b = head /\ Dist(b) = count)
    <3>1. Dist(b) \in Nat /\ Dist(b) < count + 1
      BY <2>1, <2>4, <2>5, Tests DEF Handed, Inv, Types, Ring
    <3>2. Dist(b) = count => b = head
      BY <1>1, FarOne DEF Dist
    <3> QED BY <1>1, <3>1, <3>2 DEF Handed
  <2>6. Types'
    <3>1. count' \in 0 .. BlkCount /\ outBlk' \in Slots \cup {NoBlk}
      BY SMTT(60), <1>1, <2>1
    <3> QED BY <1>2, <1>3, <1>7, <2>2, <3>1 DEF Inv, Types, FifoTypeOK
  <2>7. Ring'
    <3>1. count' = Dist(head)' /\ count' < BlkCount
      BY <1>1, <1>2, <2>1, <2>2 DEF Dist
    <3>2. inBlk' # NoBlk => inBlk' = tail' /\ count' > 0
      BY <1>1, <1>2, <2>1 DEF Inv, Ring
    <3>3. ASSUME NEW b \in Slots, Handed(b)'
          PROVE  len'[b] = Fill /\ read'[b] < Fill /\ (inBlk' # b => read'[b] = 0)
      <4>1. CASE Handed(b)
        BY <1>1, <1>2, <1>3, <4>1 DEF Inv, Ring
      <4>2. CASE b = head
        BY <1>1, <1>2, <2>3, <4>2
      <4> QED BY <2>5, <3>3, <4>1, <4>2
    <3> QED BY <2>1, <3>1, <3>2, <3>3 DEF Ring
  <2>8. PlaceOK'
    BY <1>2, <1>4, <2>1 DEF Inv, PlaceOK
  <2>9. ASSUME NEW m \in Nat, NEW k \in Nat, Memory(m, k)
        PROVE  \E n \in Nat : Memory(m, n)'
    <3>1. PICK n \in Nat : /\ n * PktSize = (m + count) * Fill + (len[head] + amt)
                           /\ Len(accepted') = n * Payload + plen'
                           /\ nextCount' % FieldMod = (n + 0) % FieldMod
      BY <1>5, <2>9
    <3>2. n * PktSize = (m + count') * Fill + InHand'
      <4>1. (m + (count + 1)) * Fill = (m + count) * Fill + Fill
        BY SMTT(60), <1>1
      <4> QED BY <1>3, <2>1, <2>3, <3>1, <4>1 DEF InHand
    <3>3. nextCount' % FieldMod = (n + (IF AtHand' THEN 1 ELSE 0)) % FieldMod
      BY <1>4, <3>1
    <3>4. ASSUME NEW b \in Slots, Handed(b)', NEW i \in Cells, i < Fill
          PROVE  buf'[b][i] = Unit(accepted', (m + Dist(b)') * Fill + i)
      <4>1. CASE Handed(b)
        BY <1>2, <1>6, <2>4, <2>9, <3>4, <4>1 DEF Memory
      <4>2. CASE b = head /\ Dist(b) = count
        <5>1. i < len[head] + Begun
          BY <1>1, <1>3, <2>3, <3>4
        <5>2. buf[head][i] = Unit(accepted, (m + count) * Fill + i)
          BY <1>1, <2>9, <5>1 DEF Memory
        <5> QED BY <1>2, <1>6, <2>4, <4>2, <5>2
      <4> QED BY <2>5, <3>4, <4>1, <4>2
    <3>5. Len(wire') = m * Fill + (IF Empty' THEN 0 ELSE read'[tail'])
      <4>1. Len(wire) = m * Fill + (IF Empty THEN 0 ELSE read[tail])
        BY <2>9 DEF Memory
      <4>2. ~Empty'
        BY <1>1, <1>2, <2>1, <2>2, FarType DEF Empty
      <4>3. Empty => read[tail] = 0
        BY <1>1 DEF Empty
      <4> QED BY <1>2, <4>1, <4>2, <4>3
    <3>6. \A i \in 1 .. Len(wire') : wire'[i] = Unit(accepted', i - 1)
      BY <1>2, <1>6, <2>9 DEF Memory
    <3> QED BY <2>1, <3>1, <3>2, <3>3, <3>4, <3>5, <3>6 DEF Memory
  <2> QED BY <2>6, <2>7, <2>8, <2>9 DEF Inv
<1>9. CASE ~Closes(amt)
  <2>1. UNCHANGED <<head, count, outBlk>> /\ len'[head] < BlkSize /\ amt = PktSize
    BY <1>1, <1>3, <1>9 DEF CommitOut, Closes
  <2>2. Types'
    BY <1>1, <1>2, <1>3, <1>7, <2>1 DEF Inv, Types, FifoTypeOK
  <2>3. \A b \in Slots : (Handed(b)' <=> Handed(b)) /\ Dist(b)' = Dist(b)
    BY <1>2, <2>1 DEF Handed, Dist
  <2>4. Ring'
    <3>1. count' = Dist(head)'
      BY <1>1, <1>2, <2>1 DEF Dist
    <3>2. inBlk' # NoBlk => inBlk' = tail' /\ count' > 0
      BY <1>2, <2>1 DEF Inv, Ring
    <3>3. \A b \in Slots : Handed(b)' =>
            len'[b] = Fill /\ read'[b] < Fill /\ (inBlk' # b => read'[b] = 0)
      BY <1>1, <1>2, <1>3, <2>3 DEF Inv, Ring
    <3> QED BY <1>1, <1>2, <2>1, <3>1, <3>2, <3>3 DEF Ring
  <2>5. PlaceOK'
    BY <1>2, <1>4, <2>1 DEF Inv, PlaceOK
  <2>6. ASSUME NEW m \in Nat, NEW k \in Nat, Memory(m, k)
        PROVE  \E n \in Nat : Memory(m, n)'
    <3>1. PICK n \in Nat : /\ n * PktSize = (m + count) * Fill + (len[head] + amt)
                           /\ Len(accepted') = n * Payload + plen'
                           /\ nextCount' % FieldMod = (n + 0) % FieldMod
      BY <1>5, <2>6
    <3>2. n * PktSize = (m + count') * Fill + InHand'
      BY <1>1, <1>3, <2>1, <3>1 DEF InHand
    <3>3. nextCount' % FieldMod = (n + (IF AtHand' THEN 1 ELSE 0)) % FieldMod
      BY <1>4, <3>1
    <3>4. \A b \in Slots : Handed(b)' =>
            \A i \in Cells : i < Fill => buf'[b][i] = Unit(accepted', (m + Dist(b)') * Fill + i)
      BY SMTT(60), <1>2, <1>6, <2>3, <2>6 DEF Memory
    <3>5. \A i \in Cells : i < len'[outBlk'] + Begun' =>
            buf'[outBlk'][i] = Unit(accepted', (m + count') * Fill + i)
      <4>1. len'[outBlk'] + Begun' = len[outBlk] + Begun
        BY <1>1, <1>3, <1>4, <2>1
      <4> QED BY <1>1, <1>2, <1>6, <2>1, <2>6, <4>1 DEF Memory
    <3>6. /\ Len(wire') = m * Fill + (IF Empty' THEN 0 ELSE read'[tail'])
          /\ \A i \in 1 .. Len(wire') : wire'[i] = Unit(accepted', i - 1)
      BY <1>2, <1>6, <2>1, <2>6 DEF Memory, Empty
    <3> QED BY <3>1, <3>2, <3>3, <3>4, <3>5, <3>6 DEF Memory
  <2> QED BY <2>2, <2>4, <2>5, <2>6 DEF Inv
<1> QED BY <1>8, <1>9

LEMMA InvSendStart ==
  ASSUME Inv, SendStart
  PROVE  Inv'
<1> USE Sizes
<1>1. /\ plen = 0 /\ sent < want /\ blk = "start"
      /\ outBlk # NoBlk => len[outBlk] \in 0 .. BlkSize - 1
  <2>1. outBlk # NoBlk => len[outBlk] \in 0 .. BlkSize /\ len[outBlk] < BlkSize
    BY DEF Inv, Types, FifoTypeOK, Ring
  <2> QED BY <2>1 DEF SendStart, Inv, PlaceOK
<1>2. CASE outBlk # NoBlk /\ BlkSize - len[outBlk] >= PktSize
  <2>1. /\ UNCHANGED <<fifoVars, workVars, pumpVars>> /\ blk' = "attach"
    BY <1>1, <1>2 DEF SendStart, BlockAt
  <2>2. len[outBlk] + PktSize <= BlkSize
    BY <1>1, <1>2
  <2>3. want \in Nat /\ sent \in 0 .. want /\ consumed \in Nat /\ done \in BOOLEAN
    BY DEF Inv, Types
  <2> QED BY <1>1, <1>2, <2>1, <2>2, <2>3, BlockMoves DEF workVars, pumpVars
<1>3. CASE outBlk # NoBlk /\ BlkSize - len[outBlk] < PktSize
  <2>1. CommitOut(0) /\ blk' = "restart" /\ UNCHANGED <<workVars, pumpVars>>
    BY <1>1, <1>3 DEF SendStart, BlockAt
  <2> QED BY <1>1, <1>3, <2>1, Commits DEF workVars
<1> QED BY <1>2, <1>3, InvTakes DEF SendStart

LEMMA InvSendComplete ==
  ASSUME Inv, SendComplete
  PROVE  Inv'
<1> USE Sizes
<1>1. /\ CommitOut(PktSize) /\ blk' = "loop" /\ plen = Payload /\ plen' = 0
      /\ len[outBlk] + PktSize <= BlkSize
      /\ UNCHANGED <<want, sent, nextCount, consumed, accepted, pumpVars>>
  BY DEF SendComplete, BlockAt, Inv, PlaceOK, AtHand
<1> QED BY <1>1, Commits

-----------------------------------------------------------------------------
(* The header and the samples, written into the block in hand.             *)

(* Where the packet at hand lies.                                          *)
LEMMA AtHandLies ==
  ASSUME Inv, AtHand \/ blk = "attach", NEW m \in Nat, NEW k \in Nat, Memory(m, k)
  PROVE  /\ head \in Slots /\ outBlk = head /\ head # NoBlk
         /\ len[head] \in Nat /\ len[head] + PktSize <= BlkSize
         /\ (m + count) * Fill \in Nat
         /\ k * PktSize = (m + count) * Fill + len[head]
         /\ \A b \in Slots : Handed(b) => b # head
<1>1. /\ head \in Slots /\ outBlk = head /\ head # NoBlk /\ len[head] \in 0 .. BlkSize
      /\ len[head] + PktSize <= BlkSize
  BY DEF Inv, Types, FifoTypeOK, PlaceOK, Ring, Slots, NoBlk
<1>2. \A b \in Slots : Handed(b) => b # head
  BY Tests DEF Inv, Types, Ring
<1>3. (m + count) * Fill \in Nat
  BY Extents
<1> QED BY <1>1, <1>2, <1>3, Sizes DEF Memory, InHand

(* A write past what the block in hand has, while nothing else in the fifo *)
(* changes, keeps the rest.                                                *)
LEMMA Writes ==
  ASSUME Inv, AtHand \/ blk = "attach",
         UNCHANGED <<head, tail, count, len, read, outBlk, inBlk>>,
         NEW c \in [Cells -> Nat], buf' = [buf EXCEPT ![outBlk] = c]
  PROVE  /\ FifoTypeOK' /\ Ring'
         /\ buf'[outBlk] = c /\ \A b \in Slots : Handed(b) => buf'[b] = buf[b]
<1>1. /\ outBlk \in Slots /\ buf \in [Slots -> [Cells -> Nat]]
      /\ \A b \in Slots : Handed(b) => b # outBlk
  BY AtHandLies DEF Inv, Types, FifoTypeOK
<1>2. buf' \in [Slots -> [Cells -> Nat]] /\ buf'[outBlk] = c
      /\ \A b \in Slots : Handed(b) => buf'[b] = buf[b]
  BY <1>1
<1>3. FifoTypeOK'
  BY <1>2 DEF Inv, Types, FifoTypeOK
<1>4. Ring'
  BY DEF Inv, Ring, Handed, Dist
<1> QED BY <1>2, <1>3, <1>4

(* V49Packet::Attach.                                                      *)
LEMMA InvAttach ==
  ASSUME Inv, Attach
  PROVE  Inv'
<1> USE Sizes
<1>1. /\ blk = "attach" /\ blk' = "copy" /\ plen = 0 /\ plen' = 0 /\ sent < want
      /\ nextCount' = (nextCount + 1) % VarMod /\ nextCount \in Nat
      /\ UNCHANGED <<head, tail, count, len, read, outBlk, inBlk, want, sent,
                     consumed, accepted, pump, done, wire>>
  BY DEF Attach, BlockAt, NextCount, pumpVars, Inv, PlaceOK, Types
<1>2. PICK m0 \in Nat, k0 \in Nat : Memory(m0, k0)
  BY DEF Inv
<1>3. outBlk = head /\ head \in Slots /\ head # NoBlk /\ len[head] \in Cells
      /\ len[head] + PktSize <= BlkSize
  <2>1. /\ outBlk = head /\ head \in Slots /\ head # NoBlk /\ len[head] \in Nat
        /\ len[head] + PktSize <= BlkSize
    BY <1>1, <1>2, AtHandLies
  <2> QED BY <2>1
<1> DEFINE h == nextCount % FieldMod
           c == [buf[head] EXCEPT ![len[head]] = h]
<1>4. h \in Nat /\ buf[head] \in [Cells -> Nat]
  <2>1. h \in 0 .. FieldMod - 1
    BY <1>1, Division
  <2>2. buf \in [Slots -> [Cells -> Nat]]
    BY DEF Inv, Types, FifoTypeOK
  <2> QED BY <1>3, <2>1, <2>2
<1>5. buf' = [buf EXCEPT ![outBlk] = c]
  BY <1>3 DEF Attach, PutCell, HeaderUnit
<1> HIDE DEF h
<1>6. /\ c \in [Cells -> Nat] /\ c[len[head]] = h
      /\ \A i \in Cells : i # len[head] => c[i] = buf[head][i]
  BY <1>3, <1>4
<1> HIDE DEF c
<1>7. /\ FifoTypeOK' /\ Ring'
      /\ buf'[outBlk] = c /\ \A b \in Slots : Handed(b) => buf'[b] = buf[b]
  BY <1>1, <1>5, <1>6, Writes
<1>8. Types'
  <2>1. nextCount' \in 0 .. VarMod - 1
    BY <1>1, Division
  <2> QED BY <1>1, <1>7, <2>1 DEF Inv, Types
<1>9. PlaceOK'
  BY <1>1, <1>3 DEF Inv, PlaceOK
<1>10. ASSUME NEW m \in Nat, NEW k \in Nat, Memory(m, k)
       PROVE  Memory(m, k)'
  <2>1. ~AtHand /\ AtHand' /\ Begun = 0 /\ Begun' = 1
    BY <1>1 DEF AtHand, Begun
  <2>2. nextCount % FieldMod = k % FieldMod
    BY <1>10, <2>1 DEF Memory
  <2>3. nextCount' % FieldMod = (k + 1) % FieldMod
    BY <1>1, <2>2, NextInField
  <2>4. k * PktSize = (m + count) * Fill + len[head] /\ (m + count) * Fill \in Nat
    BY <1>1, <1>10, AtHandLies
  <2>5. ASSUME NEW i \in Cells, i < len[head] + 1
        PROVE  c[i] = Unit(accepted, (m + count) * Fill + i)
    <3>1. CASE i = len[head]
      <4>1. Unit(accepted, k * PktSize + 0) = k % FieldMod
        <5>1. 0 \in 0 .. Payload
          OBVIOUS
        <5> QED BY <5>1, UnitAt
      <4>2. (m + count) * Fill + i = k * PktSize + 0
        BY <2>4, <3>1
      <4> QED BY <1>6, <2>2, <3>1, <4>1, <4>2 DEF h
    <3>2. CASE i # len[head]
      <4>1. i < len[outBlk] + Begun
        BY <1>3, <2>1, <2>5, <3>2
      <4> QED BY <1>3, <1>6, <1>10, <3>2, <4>1 DEF Memory
    <3> QED BY <3>1, <3>2
  <2>6. \A b \in Slots : Handed(b)' =>
          \A i \in Cells : i < Fill => buf'[b][i] = Unit(accepted', (m + Dist(b)') * Fill + i)
    BY <1>1, <1>7, <1>10 DEF Memory, Handed, Dist
  <2>7. InHand' = InHand /\ Empty' = Empty
    BY <1>1 DEF InHand, Empty
  <2>8. /\ k * PktSize = (m + count') * Fill + InHand'
        /\ Len(accepted') = k * Payload + plen'
        /\ Len(wire') = m * Fill + (IF Empty' THEN 0 ELSE read'[tail'])
        /\ \A i \in 1 .. Len(wire') : wire'[i] = Unit(accepted', i - 1)
    BY <1>1, <1>10, <2>7 DEF Memory
  <2>9. outBlk' # NoBlk => \A i \in Cells : i < len'[outBlk'] + Begun' =>
          buf'[outBlk'][i] = Unit(accepted', (m + count') * Fill + i)
    BY <1>1, <1>3, <1>7, <2>1, <2>5
  <2>10. nextCount' % FieldMod = (k + (IF AtHand' THEN 1 ELSE 0)) % FieldMod
    BY <2>1, <2>3
  <2> QED BY <2>6, <2>8, <2>9, <2>10 DEF Memory
<1> QED BY <1>7, <1>8, <1>9, <1>10 DEF Inv

(* Copy's amount, and the samples it copies.                               *)
Left == Payload - plen
Amount == IF want - sent > Left THEN Left ELSE want - sent
New == [i \in 1 .. Amount |-> consumed + sent + i - 1]

LEMMA CopyIs ==
  ASSUME Inv, Copy
  PROVE  /\ AtHand /\ blk \in {"copy", "loop"} /\ Amount \in 1 .. Left
         /\ plen \in 0 .. Payload - 1 /\ plen' = plen + Amount /\ plen' \in 1 .. Payload
         /\ sent' = sent + Amount /\ sent' \in 0 .. want
         /\ blk' = (IF plen' = Payload THEN "complete" ELSE "loop")
         /\ accepted' = accepted \o New /\ New \in Seq(Nat) /\ Len(New) = Amount
         /\ accepted' \in Seq(Nat) /\ Len(accepted') = Len(accepted) + Amount
         /\ \A i \in 1 .. Len(accepted) : accepted'[i] = accepted[i]
         /\ \A i \in 1 .. Amount : accepted'[Len(accepted) + i] = New[i]
         /\ UNCHANGED <<head, tail, count, len, read, outBlk, inBlk, want, nextCount,
                        consumed, pump, done, wire>>
         /\ buf' = [buf EXCEPT ![outBlk] =
              [i \in Cells |->
                 IF i \in len[outBlk] + 1 + plen .. len[outBlk] + 1 + plen + Amount - 1
                 THEN SampleUnit(New[i - (len[outBlk] + 1 + plen) + 1])
                 ELSE buf[outBlk][i]]]
<1> USE Sizes
<1>1. /\ blk \in {"copy", "loop"} /\ AtHand /\ sent < want /\ plen # Payload
      /\ plen \in 0 .. Payload /\ want \in Nat /\ sent \in Nat /\ consumed \in Nat
      /\ accepted \in Seq(Nat)
  BY DEF Copy, AtHand, Inv, Types, PlaceOK
<1>2. Amount \in 1 .. Left /\ Amount \in Nat /\ sent + Amount <= want
  BY <1>1 DEF Amount, Left
<1>3. New \in Seq(Nat) /\ Len(New) = Amount
  <2>1. \A i \in 1 .. Amount : consumed + sent + i - 1 \in Nat
    BY <1>1, <1>2
  <2> QED BY <1>2, <2>1 DEF New
<1>4. /\ outBlk \in Slots
      /\ plen' = plen + Amount /\ sent' = sent + Amount /\ accepted' = accepted \o New
      /\ blk' = (IF plen' = Payload THEN "complete" ELSE "loop")
      /\ UNCHANGED <<head, tail, count, len, read, outBlk, inBlk, want, nextCount,
                     consumed, pump, done, wire>>
  <2>1. outBlk \in Slots
    BY <1>1, AtHandLies DEF Inv
  <2> QED BY <2>1 DEF Copy, BlockAt, Left, Amount, New, pumpVars
<1>5. buf' = [buf EXCEPT ![outBlk] =
        [i \in Cells |->
           IF i \in len[outBlk] + 1 + plen .. len[outBlk] + 1 + plen + Amount - 1
           THEN SampleUnit(New[i - (len[outBlk] + 1 + plen) + 1])
           ELSE buf[outBlk][i]]]
  BY <1>4 DEF Inv, Types, FifoTypeOK, Copy, Left, Amount, New
<1>6. /\ accepted' \in Seq(Nat) /\ Len(accepted') = Len(accepted) + Amount
      /\ \A i \in 1 .. Len(accepted) : accepted'[i] = accepted[i]
      /\ \A i \in 1 .. Amount : accepted'[Len(accepted) + i] = New[i]
  <2> HIDE DEF New, Amount
  <2>1. accepted \o New \in Seq(Nat) /\ Len(accepted \o New) = Len(accepted) + Amount
    BY <1>1, <1>2, <1>3
  <2>2. \A i \in 1 .. Len(accepted) + Amount :
          (accepted \o New)[i] = IF i <= Len(accepted) THEN accepted[i]
                                                     ELSE New[i - Len(accepted)]
    BY <1>1, <1>2, <1>3
  <2>3. Len(accepted) \in Nat
    BY <1>1
  <2> QED BY ONLY SMTT(60), <1>2, <1>4, <2>1, <2>2, <2>3
<1>7. plen \in 0 .. Payload - 1 /\ plen' \in 1 .. Payload /\ sent' \in 0 .. want
  BY <1>1, <1>2, <1>4 DEF Left
<1> HIDE DEF New, Amount
<1> QED BY ONLY <1>1, <1>2, <1>3, <1>4, <1>5, <1>6, <1>7

(* Send's memcpy of samples.                                               *)
LEMMA InvCopy ==
  ASSUME Inv, Copy
  PROVE  Inv'
<1> USE Sizes
<1>1. PICK m0 \in Nat, k0 \in Nat : Memory(m0, k0)
  BY DEF Inv
<1>2. /\ AtHand /\ outBlk = head /\ head \in Slots /\ head # NoBlk
      /\ len[head] \in Nat /\ len[head] + PktSize <= BlkSize
  BY <1>1, CopyIs, AtHandLies
<1>3. /\ plen \in Nat /\ Amount \in Nat /\ Amount > 0 /\ plen' = plen + Amount
      /\ plen' <= Payload /\ AtHand' /\ Begun = 1 + plen /\ Begun' = 1 + plen'
  <2>1. /\ plen \in Nat /\ Amount \in Nat /\ Amount > 0 /\ plen' = plen + Amount
        /\ plen' <= Payload
    BY CopyIs DEF Left
  <2> QED BY <1>2, <2>1 DEF AtHand, Begun
<1> DEFINE first == len[head] + 1 + plen
           c == [i \in Cells |-> IF i \in first .. first + Amount - 1
                                 THEN SampleUnit(New[i - first + 1])
                                 ELSE buf[head][i]]
<1>4. buf' = [buf EXCEPT ![outBlk] = c]
  BY <1>2, CopyIs
<1>5. first \in Nat /\ first = len[head] + 1 + plen
  BY <1>2, <1>3
<1> HIDE DEF first
<1>6. c \in [Cells -> Nat]
  <2>1. buf[head] \in [Cells -> Nat]
    BY <1>2 DEF Inv, Types, FifoTypeOK
  <2>2. ASSUME NEW i \in first .. first + Amount - 1
        PROVE  SampleUnit(New[i - first + 1]) \in Nat
    <3>1. i - first + 1 \in 1 .. Amount
      BY <1>3, <1>5
    <3>2. New \in Seq(Nat) /\ Len(New) = Amount
      BY CopyIs
    <3>3. New[i - first + 1] \in Nat
      BY ONLY <3>1, <3>2
    <3> QED BY <3>3 DEF SampleUnit
  <2> QED BY <2>1, <2>2
<1>7. \A i \in Cells : c[i] = IF i \in first .. first + Amount - 1
                              THEN SampleUnit(New[i - first + 1]) ELSE buf[head][i]
  OBVIOUS
<1> HIDE DEF c
<1>8. /\ FifoTypeOK' /\ Ring'
      /\ buf'[outBlk] = c /\ \A b \in Slots : Handed(b) => buf'[b] = buf[b]
  BY <1>2, <1>4, <1>6, CopyIs, Writes
<1>9. Types'
  <2>1. blk' \in {"complete", "loop"} /\ plen' \in 0 .. Payload
    BY SMTT(60), CopyIs
  <2> QED BY <1>8, <2>1, CopyIs DEF Inv, Types
<1>10. PlaceOK'
  <2>1. plen' = Payload <=> blk' = "complete"
    BY CopyIs
  <2>2. blk' \in {"complete", "loop"} /\ outBlk' # NoBlk
        /\ len'[outBlk'] + PktSize <= BlkSize
    BY <1>2, CopyIs
  <2>3. pump' = "send" => inBlk' # NoBlk
    BY CopyIs DEF Inv, PlaceOK
  <2> QED BY <2>1, <2>2, <2>3 DEF PlaceOK
<1>11. ASSUME NEW m \in Nat, NEW k \in Nat, Memory(m, k)
       PROVE  Memory(m, k)'
  <2>1. /\ k * PktSize = (m + count) * Fill + len[head] /\ (m + count) * Fill \in Nat
        /\ Len(accepted) = k * Payload + plen
    BY <1>2, <1>11, AtHandLies DEF Memory
  <2>2. ASSUME NEW u \in Nat, u <= k * PktSize + plen
        PROVE  Unit(accepted', u) = Unit(accepted, u)
    <3>1. /\ accepted \in Seq(Nat) /\ accepted' \in Seq(Nat) /\ plen \in 0 .. Payload
          /\ Len(accepted') = Len(accepted) + Amount
          /\ \A i \in 1 .. Len(accepted) : accepted'[i] = accepted[i]
      BY CopyIs DEF Inv, Types
    <3>2. Len(accepted) <= Len(accepted')
      BY ONLY <1>3, <3>1
    <3> QED BY ONLY <2>1, <2>2, <3>1, <3>2, UnitStays
  <2>3. ASSUME NEW b \in Slots, Handed(b)', NEW i \in Cells, i < Fill
        PROVE  buf'[b][i] = Unit(accepted', (m + Dist(b)') * Fill + i)
    <3>1. Handed(b) /\ Dist(b)' = Dist(b)
      BY <2>3, CopyIs DEF Handed, Dist
    <3> DEFINE u == (m + Dist(b)) * Fill + i
    <3>2. u \in Nat /\ u < (m + count) * Fill
      BY <1>11, <2>3, <3>1, Extents
    <3>3. buf[b][i] = Unit(accepted, u)
      BY <1>11, <2>3, <3>1 DEF Memory
    <3> HIDE DEF u
    <3>4. u <= k * PktSize + plen
      BY <1>2, <1>3, <2>1, <3>2
    <3>5. Unit(accepted', u) = Unit(accepted, u)
      BY <2>2, <3>2, <3>4
    <3> QED BY <1>8, <3>1, <3>3, <3>5 DEF u
  <2>4. ASSUME NEW i \in Cells, i < len[head] + (1 + plen')
        PROVE  c[i] = Unit(accepted', (m + count) * Fill + i)
    <3> DEFINE u == (m + count) * Fill + i
    <3>1. u \in Nat /\ i \in Nat /\ i < len[head] + (1 + plen')
      BY <2>1, <2>4
    <3>2. CASE i < first
      <4>1. buf[head][i] = Unit(accepted, u)
        <5>1. i < len[outBlk] + Begun
          BY <1>2, <1>3, <1>5, <3>2
        <5> QED BY <1>2, <1>11, <5>1 DEF Memory
      <4>2. u <= k * PktSize + plen
        BY SMTT(60), <1>2, <1>3, <1>5, <2>1, <3>2
      <4>3. c[i] = buf[head][i]
        BY <1>5, <1>7, <3>2
      <4> HIDE DEF u
      <4> QED BY <2>2, <3>1, <4>1, <4>2, <4>3 DEF u
    <3>3. CASE i >= first
      <4> DEFINE j == i - first + 1
      <4> HIDE DEF u
      <4>1. j \in 1 .. Amount /\ i \in first .. first + Amount - 1
        BY ONLY <1>2, <1>3, <1>5, <3>1, <3>3
      <4>2. c[i] = FieldMod + New[j]
        BY <1>7, <4>1 DEF SampleUnit
      <4>3. u = k * PktSize + (plen + j) /\ plen + j \in 1 .. Payload
        <5>1. j \in Nat /\ i = len[head] + (plen + j)
          BY ONLY <1>2, <1>3, <1>5, <3>1, <4>1
        <5>2. plen + j \in 1 .. Payload
          BY ONLY <1>3, <4>1, Sizes
        <5>3. k * PktSize \in Nat
          OBVIOUS
        <5> HIDE DEF j
        <5> QED BY ONLY <1>2, <1>3, <2>1, <5>1, <5>2, <5>3 DEF u
      <4>4. accepted'[Len(accepted) + j] = New[j]
        BY <4>1, CopyIs
      <4>5. k * Payload + (plen + j) = Len(accepted) + j
        <5>1. k * Payload \in Nat
          OBVIOUS
        <5> QED BY ONLY <1>3, <2>1, <4>1, <5>1
      <4> HIDE DEF j
      <4>6. Unit(accepted', k * PktSize + (plen + j))
              = FieldMod + accepted'[k * Payload + (plen + j)]
        <5>1. plen + j \in 0 .. Payload /\ plen + j # 0
          BY <4>3
        <5> QED BY <5>1, UnitAt
      <4> QED BY <4>2, <4>3, <4>4, <4>5, <4>6 DEF u
    <3> QED BY <1>5, <3>2, <3>3
  <2>5. InHand' = InHand /\ Empty' = Empty
    BY CopyIs DEF InHand, Empty
  <2>6. /\ k * PktSize = (m + count') * Fill + InHand'
        /\ Len(wire') = m * Fill + (IF Empty' THEN 0 ELSE read'[tail'])
        /\ nextCount' % FieldMod = (k + (IF AtHand' THEN 1 ELSE 0)) % FieldMod
    BY <1>2, <1>3, <1>11, <2>5, CopyIs DEF Memory
  <2>7. Len(accepted') = k * Payload + plen'
    <3>1. k * Payload \in Nat
      OBVIOUS
    <3>2. Len(accepted') = Len(accepted) + Amount
      BY CopyIs
    <3> QED BY ONLY <1>3, <2>1, <3>1, <3>2
  <2>8. ASSUME NEW i \in 1 .. Len(wire')
        PROVE  wire'[i] = Unit(accepted', i - 1)
    <3>1. Len(wire) \in Nat /\ Len(wire) <= (m + count) * Fill /\ wire' = wire
      BY <1>11, CopyIs, Extents
    <3>2. i - 1 \in Nat /\ i - 1 <= k * PktSize + plen
      BY <1>2, <1>3, <2>1, <2>8, <3>1
    <3>3. wire[i] = Unit(accepted, i - 1)
      BY <1>11, <2>8, <3>1 DEF Memory
    <3> QED BY <2>2, <3>1, <3>2, <3>3
  <2>9. outBlk' # NoBlk => \A i \in Cells : i < len'[outBlk'] + Begun' =>
          buf'[outBlk'][i] = Unit(accepted', (m + count') * Fill + i)
    BY <1>2, <1>3, <1>8, <2>4, CopyIs
  <2> QED BY <2>3, <2>6, <2>7, <2>8, <2>9 DEF Memory
<1> QED BY <1>1, <1>8, <1>9, <1>10, <1>11 DEF Inv

-----------------------------------------------------------------------------
(* The pump.                                                               *)

LEMMA InvReadStart ==
  ASSUME Inv, ReadStart
  PROVE  Inv'
<1> USE Sizes
<1>1. CASE inBlk # NoBlk /\ UNCHANGED fifoVars
  <2>1. UNCHANGED <<fifoVars, blk, workVars, wire, done>> /\ pump' = "send"
    BY <1>1 DEF ReadStart, PumpAt
  <2> QED BY <1>1, <2>1, PumpMoves DEF Inv, Types
<1>2. CASE ~Empty /\ inBlk = NoBlk /\ TakeIn
  <2>1. /\ UNCHANGED <<head, tail, count, len, read, buf, outBlk>>
        /\ UNCHANGED <<blk, want, sent, plen, nextCount, consumed, accepted, done, wire>>
        /\ inBlk' = tail /\ pump' = "send"
    BY <1>2 DEF ReadStart, TakeIn, PumpAt, workVars
  <2>2. tail \in Slots /\ tail # NoBlk /\ count > 0
    <3>1. count # 0
      BY <1>2, Tests DEF Inv, Types, Ring
    <3> QED BY <3>1 DEF Inv, Types, FifoTypeOK, Slots, NoBlk
  <2>3. Types'
    BY <2>1, <2>2 DEF Inv, Types, FifoTypeOK
  <2>4. \A b \in Slots : (Handed(b)' <=> Handed(b)) /\ Dist(b)' = Dist(b)
    BY <2>1 DEF Handed, Dist
  <2>5. Ring'
    <3>1. count' = Dist(head)'
      BY <2>1 DEF Inv, Ring, Dist
    <3>2. \A b \in Slots : Handed(b)' =>
            len'[b] = Fill /\ read'[b] < Fill /\ (inBlk' # b => read'[b] = 0)
      BY <1>2, <2>1, <2>4 DEF Inv, Ring, Slots, NoBlk
    <3> QED BY <2>1, <2>2, <3>1, <3>2 DEF Inv, Ring
  <2>6. (AtHand' <=> AtHand) /\ Begun' = Begun /\ InHand' = InHand /\ Empty' = Empty
    BY <2>1 DEF AtHand, Begun, InHand, Empty
  <2>7. PlaceOK'
    BY <2>1, <2>2, <2>6 DEF Inv, PlaceOK
  <2>8. \A m, k \in Nat : Memory(m, k) => Memory(m, k)'
    BY <2>1, <2>4, <2>6 DEF Memory
  <2> QED BY <2>3, <2>5, <2>7, <2>8 DEF Inv
<1> QED BY <1>1, <1>2 DEF ReadStart

(* send takes what is next in the block in hand.                           *)
LEMMA InvSend ==
  ASSUME Inv, NEW amt \in 1 .. BlkSize, Send(amt)
  PROVE  Inv'
<1> USE Sizes, FillIs
<1>1. /\ inBlk = tail /\ inBlk # NoBlk /\ tail \in Slots /\ head \in Slots
      /\ count \in Nat /\ count > 0 /\ count = Dist(head) /\ count < BlkCount
      /\ ~Empty /\ tail # head /\ Dist(tail) = 0 /\ Handed(tail) /\ NoBlk \notin Slots
      /\ len[tail] = Fill /\ read[tail] \in Nat /\ read[tail] + amt <= Fill
  <2>1. /\ inBlk # NoBlk /\ inBlk = tail /\ count > 0 /\ amt <= len[inBlk] - read[inBlk]
        /\ count = Dist(head) /\ count < BlkCount
    BY DEF Send, Inv, PlaceOK, Ring
  <2>2. /\ tail \in Slots /\ head \in Slots /\ count \in Nat /\ NoBlk \notin Slots
        /\ read[tail] \in 0 .. BlkSize
    <3>1. /\ tail \in Slots /\ head \in Slots /\ count \in Nat
          /\ read \in [Slots -> 0 .. BlkSize]
      BY DEF Inv, Types, FifoTypeOK
    <3> QED BY <3>1 DEF Slots, NoBlk
  <2>3. ~Empty /\ Dist(tail) = 0 /\ Handed(tail)
    <3>1. (Empty <=> count = 0) /\ Dist(tail) = 0
      BY Tests DEF Inv, Types, Ring
    <3> QED BY <2>1, <2>2, <3>1 DEF Handed
  <2>4. len[tail] = Fill
    BY <2>2, <2>3 DEF Inv, Ring
  <2> QED BY <2>1, <2>2, <2>3, <2>4 DEF Empty
<1> DEFINE piece == [i \in 1 .. amt |-> buf[tail][read[tail] + i - 1]]
<1>2. /\ UNCHANGED <<head, len, buf, outBlk, blk, want, sent, plen, nextCount,
                     consumed, accepted, done>>
      /\ read' = [read EXCEPT ![tail] = @ + amt] /\ pump' = "select"
      /\ wire' = wire \o piece
  BY <1>1 DEF Send, Sent, CommitIn, PumpAt, workVars
<1>3. read' \in [Slots -> 0 .. BlkSize] /\ read'[tail] = read[tail] + amt
      /\ \A b \in Slots : b # tail => read'[b] = read[b]
  <2>1. read \in [Slots -> 0 .. BlkSize]
    BY DEF Inv, Types, FifoTypeOK
  <2>2. read[tail] + amt \in 0 .. BlkSize
    BY <1>1
  <2> QED BY ONLY <1>1, <1>2, <2>1, <2>2
<1>4. piece \in Seq(Nat) /\ Len(piece) = amt /\ amt \in Nat /\ amt > 0
      /\ \A i \in 1 .. amt : /\ piece[i] = buf[tail][read[tail] + i - 1]
                             /\ read[tail] + i - 1 \in Cells /\ read[tail] + i - 1 < Fill
  <2>1. amt \in Nat /\ amt > 0
    OBVIOUS
  <2>2. \A i \in 1 .. amt : read[tail] + i - 1 \in Cells /\ read[tail] + i - 1 < Fill
    BY <1>1
  <2>3. buf[tail] \in [Cells -> Nat]
    BY <1>1 DEF Inv, Types, FifoTypeOK
  <2>4. \A i \in 1 .. amt : buf[tail][read[tail] + i - 1] \in Nat
    BY <2>2, <2>3
  <2> QED BY ONLY <2>1, <2>2, <2>4
<1> HIDE DEF piece
<1>5. /\ wire' \in Seq(Nat) /\ Len(wire') = Len(wire) + amt /\ Len(wire) \in Nat
      /\ \A i \in 1 .. Len(wire) + amt :
           wire'[i] = IF i <= Len(wire) THEN wire[i] ELSE piece[i - Len(wire)]
  <2>1. wire \in Seq(Nat)
    BY DEF Inv, Types
  <2>2. Len(wire) \in Nat
    BY <2>1
  <2> QED BY ONLY <1>2, <1>4, <2>1, <2>2, Appended
<1>6. (AtHand' <=> AtHand) /\ Begun' = Begun /\ InHand' = InHand
  BY <1>2 DEF AtHand, Begun, InHand
<1>7. PlaceOK'
  <2>1. count' <= count
    BY <1>1 DEF Send, Sent, CommitIn
  <2>2. count' \in Int
    BY <1>1 DEF Send, Sent, CommitIn
  <2>3. /\ plen' = Payload <=> blk' = "complete"
        /\ blk' \in {"start", "restart", "attach", "copy"} => plen' = 0 /\ sent' < want'
        /\ blk' = "restart" => outBlk' = NoBlk
        /\ AtHand' \/ blk' = "attach" => outBlk' # NoBlk /\ len'[outBlk'] + PktSize <= BlkSize
    BY <1>2, <1>6 DEF Inv, PlaceOK
  <2>4. blk' = "start" => count' < BlkCount - 1
    BY <1>1, <1>2, <2>1, <2>2 DEF Inv, PlaceOK
  <2> QED BY <1>2, <2>3, <2>4 DEF PlaceOK
<1>8. ASSUME NEW m \in Nat, NEW k \in Nat, Memory(m, k)
      PROVE  /\ Len(wire) = m * Fill + read[tail] /\ m * Fill \in Nat
             /\ Len(wire') = m * Fill + read'[tail]
             /\ \A i \in 1 .. Len(wire') : wire'[i] = Unit(accepted', i - 1)
  <2>1. Len(wire) = m * Fill + read[tail] /\ m * Fill \in Nat
    BY <1>1, <1>8 DEF Memory
  <2>2. Len(wire') = m * Fill + read'[tail]
    BY ONLY SMTT(60), <1>1, <1>3, <1>4, <1>5, <2>1
  <2>3. ASSUME NEW i \in 1 .. Len(wire')
        PROVE  wire'[i] = Unit(accepted', i - 1)
    <3>1. CASE i <= Len(wire)
      BY SMTT(60), <1>2, <1>5, <1>8, <2>3, <3>1 DEF Memory
    <3>2. CASE i > Len(wire)
      <4> DEFINE j == i - Len(wire)
      <4>1. j \in 1 .. amt /\ i \in 1 .. Len(wire) + amt /\ ~(i <= Len(wire))
        BY SMTT(60), <1>4, <1>5, <2>3, <3>2
      <4>2. wire'[i] = buf[tail][read[tail] + j - 1]
        BY <1>4, <1>5, <4>1
      <4>3. read[tail] + j - 1 \in Cells /\ read[tail] + j - 1 < Fill
        BY <1>4, <4>1
      <4>4. buf[tail][read[tail] + j - 1]
              = Unit(accepted, (m + Dist(tail)) * Fill + (read[tail] + j - 1))
        BY <1>1, <1>8, <4>3 DEF Memory
      <4>5. (m + Dist(tail)) * Fill + (read[tail] + j - 1) = i - 1
        <5>1. (m + Dist(tail)) * Fill = m * Fill
          BY <1>1
        <5>2. i \in Nat
          OBVIOUS
        <5>3. read[tail] + j - 1 = (i - 1) - m * Fill /\ read[tail] + j - 1 \in Int
          <6>1. read[tail] \in Nat /\ Len(wire) \in Nat
            BY <1>1, <1>5
          <6>2. j = i - Len(wire)
            OBVIOUS
          <6> HIDE DEF j
          <6> QED BY ONLY <2>1, <5>2, <6>1, <6>2
        <5> HIDE DEF j
        <5> QED BY ONLY <2>1, <5>1, <5>2, <5>3
      <4> QED BY <1>2, <4>2, <4>4, <4>5
    <3> QED BY <1>5, <3>1, <3>2
  <2> QED BY <2>1, <2>2, <2>3
<1>9. CASE Drains(amt)
  <2>1. count' = count - 1 /\ tail' = PINC(tail) /\ inBlk' = NoBlk
        /\ read'[tail] = Fill
    BY <1>1, <1>3, <1>9 DEF Send, Sent, CommitIn, Drains
  <2>2. tail' \in Slots
    BY <1>1, <2>1, FarHead
  <2>3. \A b \in Slots : /\ b # tail => Dist(b)' = Dist(b) - 1
                         /\ Handed(b)' => b # tail /\ Handed(b)
    <3>1. \A b \in Slots : Dist(b)' = IF b = tail THEN BlkCount - 1 ELSE Dist(b) - 1
      BY <1>1, <2>1, FarTail DEF Dist
    <3>2. \A b \in Slots : Dist(b) \in Nat
      BY Tests DEF Inv, Types, Ring
    <3> QED BY <1>1, <2>1, <3>1, <3>2 DEF Handed
  <2>4. Types'
    <3>1. count' \in 0 .. BlkCount
      BY <1>1, <2>1
    <3> QED BY <1>2, <1>3, <1>5, <2>1, <2>2, <3>1 DEF Inv, Types, FifoTypeOK
  <2>5. count' = Dist(head)' /\ count' < BlkCount
    BY <1>1, <1>2, <2>1, <2>3 DEF Dist
  <2>6. \A b \in Slots : Handed(b)' => len'[b] = Fill /\ read'[b] < Fill /\ read'[b] = 0
    BY <1>1, <1>2, <1>3, <2>3 DEF Inv, Ring
  <2>7. Ring'
    <3>1. outBlk' # NoBlk => /\ outBlk' = head' /\ count' < BlkCount - 1
                             /\ len'[head'] < BlkSize /\ read'[head'] = 0
      BY <1>1, <1>2, <1>3, <2>1 DEF Inv, Ring
    <3> QED BY <2>1, <2>5, <2>6, <3>1 DEF Ring
  <2>8. ASSUME NEW m \in Nat, NEW k \in Nat, Memory(m, k)
        PROVE  Memory(m + 1, k)'
    <3>1. k * PktSize = ((m + 1) + count') * Fill + InHand'
      <4>1. (m + 1) + count' = m + count
        BY <1>1, <2>1
      <4> QED BY <1>6, <2>8, <4>1 DEF Memory
    <3>2. /\ Len(accepted') = k * Payload + plen'
          /\ nextCount' % FieldMod = (k + (IF AtHand' THEN 1 ELSE 0)) % FieldMod
      BY <1>2, <1>6, <2>8 DEF Memory
    <3>3. ASSUME NEW b \in Slots, Handed(b)', NEW i \in Cells, i < Fill
          PROVE  buf'[b][i] = Unit(accepted', ((m + 1) + Dist(b)') * Fill + i)
      <4>1. b # tail /\ Handed(b) /\ Dist(b)' = Dist(b) - 1 /\ Dist(b) \in Nat
        BY <2>3, <3>3, Tests DEF Inv, Types, Ring
      <4>2. (m + 1) + Dist(b)' = m + Dist(b)
        BY <4>1
      <4>3. buf[b][i] = Unit(accepted, (m + Dist(b)) * Fill + i)
        BY <2>8, <3>3, <4>1 DEF Memory
      <4> QED BY <1>2, <4>2, <4>3
    <3>4. outBlk' # NoBlk => \A i \in Cells : i < len'[outBlk'] + Begun' =>
            buf'[outBlk'][i] = Unit(accepted', ((m + 1) + count') * Fill + i)
      <4>1. (m + 1) + count' = m + count
        BY <1>1, <2>1
      <4> QED BY <1>2, <1>6, <2>8, <4>1 DEF Memory
    <3>5. Len(wire') = (m + 1) * Fill + (IF Empty' THEN 0 ELSE read'[tail'])
      <4>1. (m + 1) * Fill = m * Fill + Fill
        OBVIOUS
      <4>2. ~Empty' => Far(tail', tail') < count'
        <5>1. head' \in Slots
          BY <1>1, <1>2
        <5>2. ~Empty' => Far(head', tail') # 0
          BY <2>2, <5>1, FarType DEF Empty
        <5>3. count' = Far(head', tail') /\ count' \in Nat
          BY <1>1, <2>1, <2>5 DEF Dist
        <5> QED BY <2>2, <5>2, <5>3, FarType
      <4>3. ~Empty' => read'[tail'] = 0
        <5>1. ASSUME NEW b \in Slots, b = tail', ~Empty'
              PROVE  read'[b] = 0
          <6>1. Handed(b)'
            <7>1. Far(b, tail') < count'
              BY <4>2, <5>1
            <7> QED BY <7>1 DEF Handed, Dist
          <6> QED BY <2>6, <6>1
        <5> QED BY <2>2, <5>1
      <4> QED BY SMTT(60), <1>8, <2>1, <2>8, <4>1, <4>3
    <3>6. \A i \in 1 .. Len(wire') : wire'[i] = Unit(accepted', i - 1)
      BY <1>8, <2>8
    <3> QED BY <3>1, <3>2, <3>3, <3>4, <3>5, <3>6 DEF Memory
  <2> QED BY <1>7, <2>4, <2>7, <2>8 DEF Inv
<1>10. CASE ~Drains(amt)
  <2>1. UNCHANGED <<tail, count, inBlk>> /\ read'[tail] < Fill
    BY <1>1, <1>3, <1>10 DEF Send, Sent, CommitIn, Drains
  <2>2. Types'
    BY <1>2, <1>3, <1>5, <2>1 DEF Inv, Types, FifoTypeOK
  <2>3. \A b \in Slots : (Handed(b)' <=> Handed(b)) /\ Dist(b)' = Dist(b)
    BY <2>1 DEF Handed, Dist
  <2>4. Ring'
    <3>1. count' = Dist(head)' /\ count' < BlkCount
      BY <1>1, <1>2, <2>1 DEF Dist
    <3>2. \A b \in Slots : Handed(b)' =>
            len'[b] = Fill /\ read'[b] < Fill /\ (inBlk' # b => read'[b] = 0)
      BY <1>1, <1>2, <1>3, <2>1, <2>3 DEF Inv, Ring
    <3>3. outBlk' # NoBlk => /\ outBlk' = head' /\ count' < BlkCount - 1
                             /\ len'[head'] < BlkSize /\ read'[head'] = 0
      BY <1>1, <1>2, <1>3, <2>1 DEF Inv, Ring
    <3> QED BY <1>1, <2>1, <3>1, <3>2, <3>3 DEF Ring
  <2>5. ASSUME NEW m \in Nat, NEW k \in Nat, Memory(m, k)
        PROVE  Memory(m, k)'
    <3>1. Len(wire') = m * Fill + (IF Empty' THEN 0 ELSE read'[tail'])
      BY <1>1, <1>2, <1>8, <2>1, <2>5 DEF Empty
    <3>2. \A i \in 1 .. Len(wire') : wire'[i] = Unit(accepted', i - 1)
      BY <1>8, <2>5
    <3>3. \A b \in Slots : Handed(b)' =>
            \A i \in Cells : i < Fill => buf'[b][i] = Unit(accepted', (m + Dist(b)') * Fill + i)
      BY <1>2, <2>3, <2>5 DEF Memory
    <3> QED BY <1>2, <1>6, <2>1, <2>5, <3>1, <3>2, <3>3 DEF Memory
  <2> QED BY <1>7, <2>2, <2>4, <2>5 DEF Inv
<1> QED BY <1>9, <1>10

-----------------------------------------------------------------------------
(* The inductive invariant holds, whatever the sizes and however the two   *)
(* threads take turns, over any number of sessions.                        *)
THEOREM InvHolds == Spec => []Inv
<1>1. Inv /\ [Next]_vars => Inv'
  <2> SUFFICES ASSUME Inv, [Next]_vars PROVE Inv'
    OBVIOUS
  <2>1. CASE Working
    <3>1. CASE SendRestart
      BY <3>1, InvTakes, InvBlockMoves DEF SendRestart
    <3> QED BY <2>1, <3>1, InvBlockMoves, InvSendStart, InvAttach, InvCopy,
               InvSendComplete DEF Working
  <2>2. CASE Stop \/ StopFails \/ Start
    BY <2>2, InvBlockMoves, InvStart
  <2>3. CASE Pump
    BY <2>3, InvPumpMoves, InvReadStart, InvSend DEF Pump
  <2>4. CASE UNCHANGED vars
    <3>1. PlaceOK' /\ (AtHand' <=> AtHand)
      BY <2>4 DEF Inv, PlaceOK, AtHand, vars, fifoVars, workVars, pumpVars
    <3> QED BY <2>4, <3>1, Moves DEF vars, workVars, pumpVars, Inv, Types
  <2> QED BY <2>1, <2>2, <2>3, <2>4 DEF Next
<1> QED BY <1>1, InvInit, PTL DEF Spec

-----------------------------------------------------------------------------
(* The properties.                                                         *)

(* Whatever the sizes, the device reads whole packets, each counted one    *)
(* more than the one before, over the wraps of the field and the variable. *)
THEOREM WireIsPacketsHolds == Spec => []WireIsPackets
<1>1. Inv => WireIsPackets
  <2> SUFFICES ASSUME Inv, NEW i \in DOMAIN wire
               PROVE  IF IsHeader(i) THEN wire[i] = ((i - 1) \div PktSize) % FieldMod
                                     ELSE wire[i] >= FieldMod
    BY DEF WireIsPackets
  <2> USE Sizes
  <2>1. PICK m \in Nat, k \in Nat : Memory(m, k)
    BY DEF Inv
  <2>2. /\ wire \in Seq(Nat) /\ accepted \in Seq(Nat) /\ plen \in 0 .. Payload
        /\ i \in 1 .. Len(wire)
    BY DEF Inv, Types
  <2>3. wire[i] = Unit(accepted, i - 1) /\ Len(accepted) = k * Payload + plen
    BY <2>1, <2>2 DEF Memory
  <2>4. i - 1 \in Nat /\ i - 1 <= k * PktSize + plen
    <3>1. /\ Len(wire) <= (m + count) * Fill /\ (m + count) * Fill <= k * PktSize
          /\ (m + count) * Fill \in Nat
      BY <2>1, Extents
    <3> QED BY <2>2, <3>1
  <2>5. IF (i - 1) % PktSize = 0
        THEN Unit(accepted, i - 1) = ((i - 1) \div PktSize) % FieldMod
        ELSE Unit(accepted, i - 1) >= FieldMod
    BY ONLY <2>2, <2>3, <2>4, UnitType
  <2> QED BY <2>3, <2>5 DEF IsHeader
<1> QED BY <1>1, InvHolds, PTL

(* Sample k of the wire is in packet q, as its sample r.                   *)
LEMMA SampleLies ==
  ASSUME NEW L \in Nat, NEW k \in Nat, k > 0, k <= L - (L + Payload) \div PktSize
  PROVE  \E q \in Nat, r \in 1 .. Payload :
           /\ k = q * Payload + r /\ (k + Payload - 1) \div Payload = q + 1
           /\ q * PktSize + r + 1 <= L
<1> USE Sizes
<1> DEFINE q == (k - 1) \div Payload
           s == (k - 1) % Payload
           a == L \div PktSize
           b == L % PktSize
<1>1. q \in Nat /\ s \in 0 .. Payload - 1 /\ k - 1 = q * Payload + s
  <2>1. k - 1 \in Nat
    OBVIOUS
  <2> QED BY <2>1, Division
<1>2. a \in Nat /\ b \in 0 .. PktSize - 1 /\ L = a * PktSize + b
  BY Division
<1> HIDE DEF q, s, a, b
<1>3. (L + Payload) \div PktSize = IF b = 0 THEN a ELSE a + 1
  <2>1. CASE b = 0
    <3>1. L + Payload = a * PktSize + Payload /\ Payload \in 0 .. PktSize - 1
      BY <1>2, <2>1
    <3>2. (a * PktSize + Payload) \div PktSize = a
      BY ONLY <1>2, <3>1, Euclid, Sizes
    <3> QED BY <2>1, <3>1, <3>2
  <2>2. CASE b # 0
    <3>1. (a + 1) * PktSize = a * PktSize + PktSize
      BY <1>2
    <3>2. L + Payload = (a + 1) * PktSize + (b - 1) /\ b - 1 \in 0 .. PktSize - 1
      BY <1>2, <2>2, <3>1
    <3>3. ((a + 1) * PktSize + (b - 1)) \div PktSize = a + 1
      <4>1. a + 1 \in Nat
        BY <1>2
      <4> QED BY ONLY <3>2, <4>1, Euclid, Sizes
    <3> QED BY <2>2, <3>2, <3>3
  <2> QED BY <2>1, <2>2
<1>4. /\ a * PktSize = a * Payload + a /\ q * PktSize = q * Payload + q
      /\ a * Payload \in Nat /\ q * Payload \in Nat
  BY <1>1, <1>2
<1>5. q * PktSize + (s + 1) + 1 <= L
  <2>1. CASE q < a
    <3>1. (q + 1) * PktSize <= a * PktSize /\ (q + 1) * PktSize = q * PktSize + PktSize
      BY <1>1, <1>2, <2>1, Mono
    <3> QED BY <1>1, <1>2, <1>4, <3>1
  <2>2. CASE q = a
    BY <1>1, <1>2, <1>3, <1>4, <2>2
  <2>3. CASE a < q
    <3>1. (a + 1) * Payload <= q * Payload /\ (a + 1) * Payload = a * Payload + Payload
      BY <1>1, <1>2, <2>3, Mono
    <3> QED BY <1>1, <1>2, <1>3, <1>4, <3>1
  <2> QED BY <1>1, <1>2, <2>1, <2>2, <2>3
<1>6. (k + Payload - 1) \div Payload = q + 1
  <2>1. k + Payload - 1 = (q + 1) * Payload + s
    <3>1. (q + 1) * Payload = q * Payload + Payload
      BY <1>1
    <3> QED BY <1>1, <1>4, <3>1
  <2>2. ((q + 1) * Payload + s) \div Payload = q + 1
    <3>1. q + 1 \in Nat
      BY <1>1
    <3> QED BY ONLY <1>1, <3>1, Euclid, Sizes
  <2> QED BY <2>1, <2>2
<1>7. k = q * Payload + (s + 1) /\ s + 1 \in 1 .. Payload
  BY <1>1, <1>4
<1> QED BY <1>1, <1>5, <1>6, <1>7

(* The samples on the wire are those Send has taken, in order, each once.  *)
THEOREM WireIsAcceptedHolds == Spec => []WireIsAccepted
<1>1. Inv => WireIsAccepted
  <2> SUFFICES ASSUME Inv PROVE WireIsAccepted
    OBVIOUS
  <2> USE Sizes
  <2>1. PICK m \in Nat, k \in Nat : Memory(m, k)
    BY DEF Inv
  <2> DEFINE L == Len(wire)
             n == L - (L + Payload) \div PktSize
             on == [i \in 1 .. n |-> wire[i + (i + Payload - 1) \div Payload]]
  <2>2. /\ L \in Nat /\ L <= k * PktSize /\ plen \in Nat
        /\ Len(accepted) = k * Payload + plen /\ k * Payload \in Nat
    <3>1. /\ Len(wire) \in Nat /\ Len(wire) <= (m + count) * Fill
          /\ (m + count) * Fill <= k * PktSize /\ (m + count) * Fill \in Nat
      BY <2>1, Extents
    <3>2. plen \in Nat /\ k * Payload \in Nat /\ k * PktSize \in Nat
      BY DEF Inv, Types
    <3>3. Len(accepted) = k * Payload + plen
      BY <2>1 DEF Memory
    <3> QED BY <3>1, <3>2, <3>3
  <2>3. n \in Nat /\ n <= L
    <3>1. /\ L + Payload \in Nat
          /\ L + Payload = ((L + Payload) \div PktSize) * PktSize + ((L + Payload) % PktSize)
          /\ (L + Payload) \div PktSize \in Nat /\ (L + Payload) % PktSize \in 0 .. PktSize - 1
      <4>1. L + Payload \in Nat
        BY <2>2
      <4> HIDE DEF L
      <4> QED BY <4>1, Division
    <3> DEFINE d == (L + Payload) \div PktSize
               r == (L + Payload) % PktSize
    <3>2. L + Payload = d * PktSize + r /\ d \in Nat /\ r \in Nat /\ n = L - d
      BY <3>1
    <3> HIDE DEF L, d, r, n
    <3>3. CASE L < d
      <4>1. (L + 1) * PktSize <= d * PktSize /\ (L + 1) * PktSize = L * PktSize + PktSize
        BY <2>2, <3>2, <3>3, Mono
      <4>2. L <= L * PktSize /\ d * PktSize \in Nat
        <5>1. L * PktSize = L * Payload + L /\ L * Payload \in Nat
          BY <2>2
        <5> QED BY <2>2, <3>2, <5>1
      <4> QED BY <2>2, <3>2, <4>1, <4>2
    <3> QED BY <2>2, <3>2, <3>3
  <2> HIDE DEF L, n
  <2>4. ASSUME NEW i \in 1 .. n
        PROVE  i <= Len(accepted) /\ on[i] = SampleUnit(accepted[i])
    <3>1. i \in Nat /\ i > 0 /\ i <= L - (L + Payload) \div PktSize
      BY <2>3 DEF n
    <3>2. PICK q \in Nat, r \in 1 .. Payload :
            /\ i = q * Payload + r /\ (i + Payload - 1) \div Payload = q + 1
            /\ q * PktSize + r + 1 <= L
      BY <2>2, <3>1, SampleLies
    <3>3. on[i] = wire[i + (q + 1)]
      BY <3>2
    <3>4. i + (q + 1) = q * PktSize + r + 1 /\ q * PktSize \in Nat
      BY <3>2
    <3>5. q * PktSize + r + 1 \in 1 .. Len(wire)
      BY <2>2, <3>2, <3>4 DEF L
    <3>6. wire[q * PktSize + r + 1] = Unit(accepted, q * PktSize + r)
      <4>1. wire[q * PktSize + r + 1] = Unit(accepted, (q * PktSize + r + 1) - 1)
        BY <2>1, <3>5 DEF Memory
      <4>2. (q * PktSize + r + 1) - 1 = q * PktSize + r
        BY <3>4
      <4> QED BY <4>1, <4>2
    <3>7. Unit(accepted, q * PktSize + r) = FieldMod + accepted[q * Payload + r]
      <4>1. r \in 0 .. Payload /\ r # 0
        BY <3>2
      <4> QED BY <4>1, UnitAt
    <3>8. i <= Len(accepted)
      <4>1. q * PktSize + r <= k * PktSize + 0
        BY <2>2, <3>2, <3>4
      <4>2. q * Payload + r <= k * Payload + 0
        <5>1. 0 \in 0 .. Payload /\ r \in 0 .. Payload
          OBVIOUS
        <5> QED BY <4>1, <5>1, Known
      <4> QED BY <2>2, <3>2, <4>2
    <3> QED BY <3>2, <3>3, <3>4, <3>6, <3>7, <3>8 DEF SampleUnit
  <2>5. Len(on) = n /\ DOMAIN on = 1 .. n
    BY <2>3
  <2>6. n <= Len(accepted)
    <3>1. n > 0 => n \in 1 .. n
      BY <2>3
    <3>2. CASE n > 0
      BY <2>4, <3>1, <3>2
    <3> QED BY <2>2, <2>3, <3>2
  <2>7. on = WireSamples
    BY DEF WireSamples, n, L
  <2> HIDE DEF on
  <2> QED BY <2>4, <2>5, <2>6, <2>7 DEF WireIsAccepted
<1> QED BY <1>1, InvHolds, PTL
=============================================================================
