-------------------------- MODULE BlockFifoProofs --------------------------
(* Proofs about BlockFifoThreads, for every ring and block size: that its  *)
(* invariants hold, and that it implements StreamChannel.                  *)
EXTENDS BlockFifoStream, FiniteSetTheorems, TLAPS

(* PINC without the modulus.                                               *)
LEMMA PINCIs ==
  ASSUME NEW p \in Slots
  PROVE  PINC(p) = IF p = BlkCount - 1 THEN 0 ELSE p + 1
BY BlkCountAssumption, SMT DEF PINC, Slots

-----------------------------------------------------------------------------
(* The inductive invariant: control.                                       *)

Busy == {"copy", "complete"}

(* What the producer knows at each place.                                  *)
ProducerOK ==
  /\ outBlk # NoBlk => /\ outBlk = head /\ ~Full
                       /\ len[head] < BlkSize /\ read[head] = 0
  /\ pc["P"] \in {"wait", "waiting"} /\ "P" \notin probing => outBlk = NoBlk
  /\ pc["P"] = "take" => outBlk = NoBlk /\ ~Full
  /\ pc["P"] = "resume" => outBlk # NoBlk
  /\ pc["P"] \in Busy =>
       /\ outBlk # NoBlk /\ wp.blk = outBlk
       /\ wp.off = len[outBlk] /\ wp.max = BlkSize - wp.off
       /\ wp.amt <= wp.max
  /\ pc["P"] = "complete" => wp.amt > 0 \/ wp.off > 0

(* What the consumer knows at each place.                                  *)
ConsumerOK ==
  /\ inBlk # NoBlk => inBlk = tail /\ ~Empty
  /\ pc["C"] \in {"wait", "waiting"} /\ "C" \notin probing => inBlk = NoBlk
  /\ pc["C"] = "take" => inBlk = NoBlk /\ ~Empty
  /\ pc["C"] = "resume" => inBlk # NoBlk
  /\ pc["C"] \in Busy =>
       /\ inBlk # NoBlk /\ rp.blk = inBlk
       /\ rp.off = read[inBlk] /\ rp.max = len[inBlk] - rp.off
       /\ rp.amt <= rp.max
  /\ pc["C"] = "complete" => rp.amt > 0

(* The wait sets.                                                          *)
WaitOK ==
  /\ \A t \in asleep : pc[t] = "waiting"
  /\ \A t \in ready : pc[t] \in {"idle", "wait"} /\ t \notin probing
  /\ ReadyHolds
  /\ NoLostWakeup

(* How far block b is from tail; the blocks handed over are the first      *)
(* count ones.                                                             *)
Dist(b) == IF b >= tail THEN b - tail ELSE b - tail + BlkCount
Handed(b) == Dist(b) < count

(* A block handed over has something left to read, and nothing of it has   *)
(* been read unless it is the one in hand.                                 *)
BlocksOK ==
  \A b \in Slots : Handed(b) =>
    /\ read[b] < len[b]
    /\ inBlk # b => read[b] = 0

(* count, which HalfFull and Count report, is the distance from tail to    *)
(* head, and one block always stays free.                                  *)
CountIsDistance ==
  /\ count = IF head >= tail THEN head - tail ELSE head - tail + BlkCount
  /\ count < BlkCount

Control ==
  /\ TypeOK
  /\ CountIsDistance
  /\ ProducerOK
  /\ ConsumerOK
  /\ WaitOK
  /\ BlocksOK

LEMMA ControlInit == Init => Control
<1> SUFFICES ASSUME Init PROVE Control
  OBVIOUS
<1> USE BlkCountAssumption, BlkSizeAssumption DEF Init, FifoInit, NoPtr, NoBlk,
        Slots, Cells
<1>1. TypeOK
  BY DEF TypeOK, FifoTypeOK, Threads, Places, Ptrs
<1>2. CountIsDistance /\ WaitOK
  BY DEF CountIsDistance, WaitOK, ReadyHolds, NoLostWakeup
<1>3. ProducerOK /\ ConsumerOK
  BY DEF ProducerOK, ConsumerOK, Busy, Threads
<1>4. BlocksOK
  BY DEF BlocksOK, Handed, Dist
<1> QED BY <1>1, <1>2, <1>3, <1>4 DEF Control

(* The steps of either thread's waits change nothing but where it is.      *)
LEMMA ControlWait ==
  ASSUME NEW t \in Threads, Control, Wait(t)
  PROVE  Control'
<1> USE DEF Control
<1>1. UNCHANGED <<fifoVars, wp, rp, sent, taken>>
  BY DEF Wait, WaitForReady, WaitBegins, WaitWakes, WaitTimesOut, Start,
         WaitReturns
<1>2. TypeOK'
  <2>1. FifoTypeOK' /\ wp' \in Ptrs /\ rp' \in Ptrs /\ sent' \in Nat /\ taken' \in Nat
    BY <1>1 DEF TypeOK, FifoTypeOK, fifoVars, Slots, Cells
  <2>2. pc' \in [Threads -> Places]
    BY DEF TypeOK, Wait, WaitForReady, WaitBegins, WaitWakes, WaitTimesOut,
         Start, WaitReturns, Goto, Places
  <2>3. asleep' \subseteq Threads /\ probing' \subseteq Threads /\ ready' \subseteq Threads
    BY DEF TypeOK, Wait, WaitForReady, WaitBegins, WaitWakes, WaitTimesOut,
         Start, WaitReturns
  <2> QED BY <2>1, <2>2, <2>3 DEF TypeOK, Ptrs, Slots
<1>3. CountIsDistance' /\ BlocksOK'
  BY <1>1 DEF CountIsDistance, BlocksOK, Handed, Dist, fifoVars
<1>4. ProducerOK' /\ ConsumerOK'
  BY <1>1 DEF TypeOK, ProducerOK, ConsumerOK, fifoVars, Wait, WaitForReady,
       WaitBegins, WaitWakes, WaitTimesOut, Start, WaitReturns, Goto, Busy,
       Threads, Held, Available, Full, Empty, PINC
<1>5. WaitOK'
  BY <1>1 DEF TypeOK, WaitOK, ReadyHolds, NoLostWakeup, fifoVars, Wait,
       WaitForReady, WaitBegins, WaitWakes, WaitTimesOut, Start, WaitReturns,
       Goto, Threads, Available, Full, Empty, PINC
<1> QED BY <1>2, <1>3, <1>4, <1>5

(* The copies and the starts with a block in hand move only the caller.    *)
LEMMA ControlCopy ==
  ASSUME Control,
         \/ WriteResume \/ FillNothing \/ \E amt \in 0 .. BlkSize : Fill(amt)
         \/ ReadResume \/ DrainNothing \/ \E amt \in 1 .. BlkSize : Drain(amt)
  PROVE  Control'
<1> USE BlkSizeAssumption DEF Control
<1>1. CASE WriteResume
  <2> USE <1>1 DEF WriteResume, fifoVars, Ptr, Goto
  <2>0. len[outBlk] \in 0 .. BlkSize /\ outBlk \in Slots
    BY DEF TypeOK, FifoTypeOK, NoBlk
  <2>1. TypeOK'
    <3>1. wp' \in Ptrs
      BY <2>0 DEF Ptrs
    <3>2. pc' \in [Threads -> Places]
      BY DEF TypeOK, Places
    <3> QED BY <3>1, <3>2 DEF TypeOK, FifoTypeOK, Ptrs, Slots, Cells
  <2>2. CountIsDistance' /\ BlocksOK' /\ ConsumerOK'
    BY DEF CountIsDistance, BlocksOK, Handed, Dist, ConsumerOK, TypeOK, Threads,
         Busy, Empty
  <2>3. ProducerOK'
    BY DEF ProducerOK, Busy, TypeOK, FifoTypeOK, Threads, Slots, Full, PINC, NoBlk
  <2>4. WaitOK'
    BY DEF WaitOK, ReadyHolds, NoLostWakeup, TypeOK, Threads, Available, Full,
         Empty, PINC
  <2> QED BY <2>1, <2>2, <2>3, <2>4
<1>2. CASE FillNothing
  <2> USE <1>2 DEF FillNothing, fifoVars, NoPtr, Goto
  <2>1. TypeOK'
    BY DEF TypeOK, FifoTypeOK, Ptrs, Places, Threads, Slots, NoBlk
  <2>2. CountIsDistance' /\ BlocksOK' /\ ConsumerOK'
    BY DEF CountIsDistance, BlocksOK, Handed, Dist, ConsumerOK, TypeOK, Threads,
         Busy, Empty
  <2>3. ProducerOK'
    BY DEF ProducerOK, Busy, TypeOK, Threads, Full, PINC
  <2>4. WaitOK'
    BY DEF WaitOK, ReadyHolds, NoLostWakeup, TypeOK, Threads, Available, Full,
         Empty, PINC
  <2> QED BY <2>1, <2>2, <2>3, <2>4
<1>3. ASSUME NEW amt \in 0 .. BlkSize, Fill(amt)
      PROVE  Control'
  <2> USE <1>3 DEF Fill, Goto
  <2>0. wp.blk \in Slots
    BY DEF ProducerOK, Busy, TypeOK, FifoTypeOK, NoBlk
  <2>1. TypeOK'
    <3> DEFINE new(i) == IF i \in wp.off .. wp.off + amt - 1
                         THEN sent + (i - wp.off) ELSE buf[wp.blk][i]
    <3>a. ASSUME NEW i \in Cells PROVE new(i) \in Nat
      <4>1. wp.off \in Int /\ sent \in Nat /\ i \in Int
        BY DEF TypeOK, Ptrs, Cells
      <4>2. buf[wp.blk][i] \in Nat
        BY <2>0 DEF TypeOK, FifoTypeOK
      <4> QED BY <4>1, <4>2
    <3>b. [i \in Cells |-> new(i)] \in [Cells -> Nat]
      BY <3>a
    <3>c. buf' = [buf EXCEPT ![wp.blk] = [i \in Cells |-> new(i)]]
      OBVIOUS
    <3> HIDE DEF new
    <3>1. buf' \in [Slots -> [Cells -> Nat]]
      BY <2>0, <3>b, <3>c DEF TypeOK, FifoTypeOK
    <3>2. wp' \in Ptrs
      BY DEF TypeOK, Ptrs
    <3>3. pc' \in [Threads -> Places]
      BY DEF TypeOK, Places
    <3> QED BY <3>1, <3>2, <3>3 DEF TypeOK, FifoTypeOK, Ptrs, Slots
  <2>2. CountIsDistance' /\ BlocksOK' /\ ConsumerOK'
    BY DEF CountIsDistance, BlocksOK, Handed, Dist, ConsumerOK, TypeOK, Threads,
         Busy, Empty
  <2>3. ProducerOK'
    BY DEF ProducerOK, Busy, TypeOK, Ptrs, Threads, Full, PINC
  <2>4. WaitOK'
    BY DEF WaitOK, ReadyHolds, NoLostWakeup, TypeOK, Threads, Available, Full,
         Empty, PINC
  <2> QED BY <2>1, <2>2, <2>3, <2>4
<1>4. CASE ReadResume
  <2> USE <1>4 DEF ReadResume, fifoVars, Ptr, Goto
  <2>0. inBlk \in Slots /\ read[inBlk] < len[inBlk]
    BY BlkCountAssumption DEF ConsumerOK, BlocksOK, Handed, Dist, TypeOK,
         FifoTypeOK, Empty, CountIsDistance, Slots, NoBlk
  <2>1. TypeOK'
    BY <2>0 DEF TypeOK, FifoTypeOK, Ptrs, Places, Threads
  <2>2. CountIsDistance' /\ BlocksOK' /\ ProducerOK'
    BY DEF CountIsDistance, BlocksOK, Handed, Dist, ProducerOK, TypeOK, Threads,
         Busy, Full, PINC
  <2>3. ConsumerOK'
    BY <2>0 DEF ConsumerOK, Busy, TypeOK, FifoTypeOK, Threads, Slots, Empty, NoBlk
  <2>4. WaitOK'
    BY DEF WaitOK, ReadyHolds, NoLostWakeup, TypeOK, Threads, Available, Full,
         Empty, PINC
  <2> QED BY <2>1, <2>2, <2>3, <2>4
<1>5. CASE DrainNothing
  <2> USE <1>5 DEF DrainNothing, fifoVars, NoPtr, Goto
  <2>1. TypeOK'
    BY DEF TypeOK, FifoTypeOK, Ptrs, Places, Threads, Slots, NoBlk
  <2>2. CountIsDistance' /\ BlocksOK' /\ ProducerOK'
    BY DEF CountIsDistance, BlocksOK, Handed, Dist, ProducerOK, TypeOK, Threads,
         Busy, Full, PINC
  <2>3. ConsumerOK'
    BY DEF ConsumerOK, Busy, TypeOK, Threads, Empty
  <2>4. WaitOK'
    BY DEF WaitOK, ReadyHolds, NoLostWakeup, TypeOK, Threads, Available, Full,
         Empty, PINC
  <2> QED BY <2>1, <2>2, <2>3, <2>4
<1>6. ASSUME NEW amt \in 1 .. BlkSize, Drain(amt)
      PROVE  Control'
  <2> USE <1>6 DEF Drain, fifoVars, Goto
  <2>1. TypeOK'
    <3>1. rp' \in Ptrs
      BY DEF TypeOK, Ptrs
    <3>2. pc' \in [Threads -> Places]
      BY DEF TypeOK, Places
    <3> QED BY <3>1, <3>2 DEF TypeOK, FifoTypeOK, Ptrs, Slots, Cells
  <2>2. CountIsDistance' /\ BlocksOK' /\ ProducerOK'
    BY DEF CountIsDistance, BlocksOK, Handed, Dist, ProducerOK, TypeOK, Threads,
         Busy, Full, PINC
  <2>3. ConsumerOK'
    BY DEF ConsumerOK, Busy, TypeOK, Ptrs, Threads, Empty
  <2>4. WaitOK'
    BY DEF WaitOK, ReadyHolds, NoLostWakeup, TypeOK, Threads, Available, Full,
         Empty, PINC
  <2> QED BY <2>1, <2>2, <2>3, <2>4
<1> QED BY <1>1, <1>2, <1>3, <1>4, <1>5, <1>6

(* WriteStart on a new block, and WriteComplete.                           *)
LEMMA ControlWriteTake ==
  ASSUME Control, WriteTake
  PROVE  Control'
<1> USE BlkSizeAssumption DEF Control, WriteTake, TakeOut, Ptr, Goto
<1>0. head \in Slots /\ outBlk = NoBlk /\ ~Full /\ ~Handed(head)
  BY DEF TypeOK, FifoTypeOK, ProducerOK, Handed, Dist, CountIsDistance, Slots
<1>1. TypeOK'
  BY <1>0 DEF TypeOK, FifoTypeOK, Ptrs, Places, Threads
<1>2. CountIsDistance' /\ BlocksOK'
  BY <1>0 DEF CountIsDistance, BlocksOK, Handed, Dist, TypeOK, FifoTypeOK
<1>3. ProducerOK'
  <2>1. len'[head] = 0 /\ read'[head] = 0 /\ ~Full'
    BY <1>0 DEF TypeOK, FifoTypeOK, Full, PINC
  <2> QED BY <1>0, <2>1 DEF ProducerOK, Busy, TypeOK, Threads, NoBlk, Slots
<1>4. ConsumerOK'
  <2>1. inBlk # NoBlk => inBlk # head
    BY DEF ConsumerOK, Empty
  <2> QED BY <1>0, <2>1 DEF ConsumerOK, Busy, TypeOK, FifoTypeOK, Threads, Empty
<1>5. WaitOK'
  BY DEF WaitOK, ReadyHolds, NoLostWakeup, TypeOK, Threads, Available, Full,
       Empty, PINC
<1> QED BY <1>1, <1>2, <1>3, <1>4, <1>5

LEMMA ControlWriteComplete ==
  ASSUME Control, WriteComplete
  PROVE  Control'
<1> USE BlkCountAssumption, BlkSizeAssumption
    DEF Control, WriteComplete, CommitOut, NoPtr, Goto, Notify
<1> DEFINE amt == wp.amt
<1>0. /\ outBlk = head /\ head \in Slots /\ tail \in Slots /\ ~Full
      /\ amt \in 0 .. BlkSize /\ len[head] \in 0 .. BlkSize
      /\ len[head] + amt \in 1 .. BlkSize
      /\ len' = [len EXCEPT ![head] = len[head] + amt]
  BY DEF TypeOK, FifoTypeOK, ProducerOK, Busy, Ptrs
<1>1. ~Handed(head) /\ (inBlk # NoBlk => inBlk # head) /\ read[head] = 0
  BY <1>0 DEF Handed, Dist, CountIsDistance, ConsumerOK, Empty, ProducerOK,
       TypeOK, FifoTypeOK, Slots
<1>2. CASE ~Closes(amt)
  <2> USE <1>2 DEF Closes
  <2>1. len[head] + amt < BlkSize
    BY <1>0
  <2>2. TypeOK'
    BY <1>0, <2>1 DEF TypeOK, FifoTypeOK, Ptrs, Places, Threads
  <2>3. CountIsDistance' /\ BlocksOK'
    BY <1>0, <1>1 DEF CountIsDistance, BlocksOK, Handed, Dist, TypeOK, FifoTypeOK
  <2>4. ProducerOK'
    BY <1>0, <1>1, <2>1 DEF ProducerOK, Busy, TypeOK, FifoTypeOK, Threads, Full,
         PINC
  <2>5. ConsumerOK'
    BY <1>0, <1>1 DEF ConsumerOK, Busy, TypeOK, FifoTypeOK, Threads, Empty
  <2>6. WaitOK'
    BY DEF WaitOK, ReadyHolds, NoLostWakeup, TypeOK, Threads, Available, Full,
         Empty, PINC
  <2> QED BY <2>2, <2>3, <2>4, <2>5, <2>6
<1>3. CASE Closes(amt)
  <2> USE <1>3 DEF Closes
  <2>0. /\ count' = count + 1 /\ head' = PINC(head) /\ outBlk' = NoBlk
        /\ UNCHANGED <<tail, read, buf, inBlk>>
    BY <1>0
  <2>1. /\ head' = IF head = BlkCount - 1 THEN 0 ELSE head + 1
        /\ head' # tail /\ head' \in Slots
    BY <1>0, <2>0, PINCIs DEF Full, Slots
  <2>2. TypeOK'
    <3>1. count' \in 0 .. BlkCount
      BY <2>0 DEF TypeOK, FifoTypeOK, CountIsDistance
    <3>2. len' \in [Slots -> 0 .. BlkSize]
      BY <1>0 DEF TypeOK, FifoTypeOK
    <3>3. wp' \in Ptrs
      BY DEF Ptrs, NoBlk
    <3>4. pc' \in [Threads -> Places] /\ asleep' \subseteq Threads
      BY DEF TypeOK, Places
    <3>5. FifoTypeOK'
      BY <2>0, <2>1, <3>1, <3>2 DEF TypeOK, FifoTypeOK, Slots, Cells
    <3> QED BY <1>0, <3>3, <3>4, <3>5 DEF TypeOK, Ptrs, Slots
  <2>3. CountIsDistance'
    BY <1>0, <2>0, <2>1 DEF CountIsDistance, TypeOK, FifoTypeOK, Slots
  <2>4. BlocksOK'
    <3> SUFFICES ASSUME NEW b \in Slots, Handed(b)'
                 PROVE  read'[b] < len'[b] /\ (inBlk' # b => read'[b] = 0)
      BY DEF BlocksOK
    <3>1. CASE b = head
      BY <1>0, <1>1, <2>0, <3>1 DEF TypeOK, FifoTypeOK
    <3>2. CASE b # head
      <4>1. Handed(b)
        <5>1. tail' = tail /\ count' = count + 1 /\ head \in Slots /\ tail \in Slots
          BY <1>0, <2>0
        <5>2. count = IF head >= tail THEN head - tail ELSE head - tail + BlkCount
          BY DEF CountIsDistance
        <5> QED BY ONLY BlkCountAssumption, <3>2, <5>1, <5>2, Handed(b)', b \in Slots
                DEF Handed, Dist, Slots
      <4> QED BY <1>0, <2>0, <3>2, <4>1 DEF BlocksOK, TypeOK, FifoTypeOK
    <3> QED BY <3>1, <3>2
  <2>5. ProducerOK'
    BY <2>0 DEF ProducerOK, Busy, TypeOK, Threads
  <2>6. ConsumerOK'
    BY <1>0, <1>1, <2>0, <2>1 DEF ConsumerOK, Busy, TypeOK, FifoTypeOK, Threads,
         Empty
  <2>7. WaitOK'
    <3>1. pc' = [pc EXCEPT !["P"] = "idle"] /\ asleep' = asleep \ {"C"}
          /\ UNCHANGED <<ready, probing>> /\ "P" \notin ready /\ "P" \notin asleep
      BY DEF WaitOK, TypeOK
    <3>2. ~Empty'
      BY <2>0, <2>1 DEF Empty
    <3> QED BY <3>1, <3>2 DEF WaitOK, ReadyHolds, NoLostWakeup, TypeOK, Threads,
              Available
  <2> QED BY <2>2, <2>3, <2>4, <2>5, <2>6, <2>7
<1> QED BY <1>2, <1>3

(* ReadStart on a new block, and ReadComplete.                             *)
LEMMA ControlReadTake ==
  ASSUME Control, ReadTake
  PROVE  Control'
<1> USE BlkCountAssumption, BlkSizeAssumption
    DEF Control, ReadTake, TakeIn, Ptr, Goto
<1>0. /\ tail \in Slots /\ inBlk = NoBlk /\ ~Empty /\ Handed(tail)
      /\ read[tail] = 0 /\ len[tail] \in 1 .. BlkSize
  <2>1. tail \in Slots /\ inBlk = NoBlk /\ ~Empty
    BY DEF TypeOK, FifoTypeOK, ConsumerOK
  <2>2. Handed(tail)
    BY <2>1 DEF Handed, Dist, CountIsDistance, Empty, TypeOK, FifoTypeOK, Slots
  <2>3. inBlk # tail
    BY <2>1 DEF Slots, NoBlk
  <2> QED BY <2>1, <2>2, <2>3 DEF BlocksOK, TypeOK, FifoTypeOK
<1>1. TypeOK'
  BY <1>0 DEF TypeOK, FifoTypeOK, Ptrs, Places, Threads
<1>2. CountIsDistance' /\ BlocksOK'
  BY <1>0 DEF CountIsDistance, BlocksOK, Handed, Dist, NoBlk, Slots
<1>3. ProducerOK'
  BY DEF ProducerOK, Busy, TypeOK, Threads, Full, PINC
<1>4. ConsumerOK'
  BY <1>0 DEF ConsumerOK, Busy, TypeOK, Threads, Empty, NoBlk, Slots
<1>5. WaitOK'
  BY DEF WaitOK, ReadyHolds, NoLostWakeup, TypeOK, Threads, Available, Full,
       Empty, PINC
<1> QED BY <1>1, <1>2, <1>3, <1>4, <1>5

LEMMA ControlReadComplete ==
  ASSUME Control, ReadComplete
  PROVE  Control'
<1> USE BlkCountAssumption, BlkSizeAssumption
    DEF Control, ReadComplete, CommitIn, NoPtr, Goto, Notify
<1> DEFINE amt == rp.amt
<1>0. /\ inBlk = tail /\ head \in Slots /\ tail \in Slots /\ ~Empty
      /\ amt \in 1 .. BlkSize /\ read[tail] \in 0 .. BlkSize
      /\ len[tail] \in 0 .. BlkSize /\ read[tail] + amt <= len[tail]
      /\ read' = [read EXCEPT ![tail] = read[tail] + amt]
  BY DEF TypeOK, FifoTypeOK, ConsumerOK, Busy, Ptrs
<1>1. outBlk # NoBlk => outBlk # tail
  BY <1>0 DEF ProducerOK, Empty
<1>2. CASE ~Drains(amt)
  <2> USE <1>2 DEF Drains
  <2>1. read[tail] + amt < len[tail]
    BY <1>0
  <2>2. TypeOK'
    BY <1>0, <2>1 DEF TypeOK, FifoTypeOK, Ptrs, Places, Threads
  <2>3. CountIsDistance' /\ BlocksOK'
    BY <1>0, <2>1 DEF CountIsDistance, BlocksOK, Handed, Dist, TypeOK, FifoTypeOK
  <2>4. ProducerOK'
    BY <1>0, <1>1 DEF ProducerOK, Busy, TypeOK, FifoTypeOK, Threads, Full, PINC
  <2>5. ConsumerOK'
    BY <1>0, <2>1 DEF ConsumerOK, Busy, TypeOK, FifoTypeOK, Threads, Empty
  <2>6. WaitOK'
    BY DEF WaitOK, ReadyHolds, NoLostWakeup, TypeOK, Threads, Available, Full,
         Empty, PINC
  <2> QED BY <2>2, <2>3, <2>4, <2>5, <2>6
<1>3. CASE Drains(amt)
  <2> USE <1>3 DEF Drains
  <2>0. /\ count' = count - 1 /\ tail' = PINC(tail) /\ inBlk' = NoBlk
        /\ UNCHANGED <<head, len, buf, outBlk>>
    BY <1>0
  <2>1. tail' = (IF tail = BlkCount - 1 THEN 0 ELSE tail + 1) /\ tail' \in Slots
    BY <1>0, <2>0, PINCIs DEF Slots
  <2>2. CountIsDistance'
    BY <1>0, <2>0, <2>1 DEF CountIsDistance, TypeOK, FifoTypeOK, Slots, Empty
  <2>3. TypeOK'
    <3>1. count' \in 0 .. BlkCount
      BY <1>0, <2>0 DEF TypeOK, FifoTypeOK, CountIsDistance, Empty, Slots
    <3>2. read' \in [Slots -> 0 .. BlkSize]
      BY <1>0 DEF TypeOK, FifoTypeOK
    <3>3. rp' \in Ptrs
      BY DEF Ptrs, NoBlk
    <3>4. pc' \in [Threads -> Places] /\ asleep' \subseteq Threads
      BY DEF TypeOK, Places
    <3>5. FifoTypeOK'
      BY <2>0, <2>1, <3>1, <3>2 DEF TypeOK, FifoTypeOK, Slots, Cells
    <3> QED BY <1>0, <3>3, <3>4, <3>5 DEF TypeOK, Ptrs, Slots
  <2>4. BlocksOK'
    <3> SUFFICES ASSUME NEW b \in Slots, Handed(b)'
                 PROVE  read'[b] < len'[b] /\ (inBlk' # b => read'[b] = 0)
      BY DEF BlocksOK
    <3>1. Handed(b) /\ b # tail
      BY <1>0, <2>0, <2>1 DEF Handed, Dist, CountIsDistance, TypeOK,
           FifoTypeOK, Slots
    <3> QED BY <1>0, <2>0, <3>1 DEF BlocksOK, TypeOK, FifoTypeOK
  <2>5. ProducerOK'
    <3>1. ~Full'
      BY <1>0, <2>0, <2>1, PINCIs DEF Full, Empty, Slots
    <3> QED BY <1>0, <1>1, <2>0, <3>1 DEF ProducerOK, Busy, TypeOK, FifoTypeOK,
              Threads
  <2>6. ConsumerOK'
    BY <2>0 DEF ConsumerOK, Busy, TypeOK, Threads
  <2>7. WaitOK'
    <3>1. pc' = [pc EXCEPT !["C"] = "idle"] /\ asleep' = asleep \ {"P"}
          /\ UNCHANGED <<ready, probing>> /\ "C" \notin ready /\ "C" \notin asleep
      BY DEF WaitOK, TypeOK
    <3>2. ~Full'
      BY <1>0, <2>0, <2>1, PINCIs DEF Full, Empty, Slots
    <3> QED BY <3>1, <3>2 DEF WaitOK, ReadyHolds, NoLostWakeup, TypeOK, Threads,
              Available
  <2> QED BY <2>2, <2>3, <2>4, <2>5, <2>6, <2>7
<1> QED BY <1>2, <1>3

(* A stuttering step.                                                      *)
LEMMA ControlStutter ==
  ASSUME Control, UNCHANGED vars
  PROVE  Control'
BY SMTT(60) DEF Control, vars, fifoVars, threadVars, TypeOK, FifoTypeOK, Ptrs, Slots,
   Cells, CountIsDistance, ProducerOK, ConsumerOK, Busy, WaitOK, ReadyHolds,
   NoLostWakeup, Available, Full, Empty, PINC, BlocksOK, Handed, Dist

(* What each thread knows of the fifo, wherever it is, stays true whatever *)
(* the other one does.                                                     *)
THEOREM ControlInvariant == Spec => []Control
<1>1. Init => Control
  BY ControlInit
<1>2. Control /\ [Next]_vars => Control'
  BY ControlWait, ControlCopy, ControlWriteTake, ControlWriteComplete,
     ControlReadTake, ControlReadComplete, ControlStutter
     DEF Next, Producer, Consumer, Threads
<1> QED BY <1>1, <1>2, PTL DEF Spec

(* Every variable of the fifo and its two threads has its type.            *)
THEOREM TypeCorrect == Spec => []TypeOK
BY ControlInvariant, PTL DEF Control

(* The two threads never touch the same block at a time.                   *)
THEOREM ExclusiveHolds == Spec => []Exclusive
<1>1. Control => Exclusive
  BY DEF Control, ProducerOK, ConsumerOK, Busy, Exclusive, Empty
<1> QED BY <1>1, ControlInvariant, PTL

(* No assertion of ReadStart, ReadComplete or WriteComplete can fail.      *)
THEOREM AssertsHold == Spec => []AssertsNeverFail
<1>1. Control => ReadAsserts
  BY SMTT(60), BlkCountAssumption DEF Control, ConsumerOK, Busy, ReadAsserts, Empty,
     CountIsDistance, TypeOK, FifoTypeOK, Slots, Ptrs
<1>2. Control => WriteAsserts
  BY BlkSizeAssumption DEF Control, ProducerOK, Busy, WriteAsserts, TypeOK,
     FifoTypeOK, Ptrs
<1> QED BY <1>1, <1>2, ControlInvariant, PTL DEF AssertsNeverFail

(* A yes of WaitForReady... is still true at the call it was asked for.    *)
THEOREM ReadyAnswersHold == Spec => []ReadyHolds
BY ControlInvariant, PTL DEF Control, WaitOK

(* No wake-up is lost: who sleeps untold has nothing to wake up for.       *)
THEOREM WakeupsArrive == Spec => []NoLostWakeup
BY ControlInvariant, PTL DEF Control, WaitOK

-----------------------------------------------------------------------------
(* The inductive invariant: data.  The memory of the blocks from tail to   *)
(* head, each up to its len, is the stream from taken to Published.        *)

(* The memory of block b counts up from its first unit.                    *)
Counts(b) == \A i \in 0 .. len[b] - 1 : buf[b][i] = buf[b][0] + i

Data ==
  /\ \A b \in Slots : Handed(b) => Counts(b)
  /\ \A b \in Slots : Handed(b) /\ PINC(b) # head =>
       buf[PINC(b)][0] = buf[b][0] + len[b]
  /\ \A b \in Slots : Handed(b) /\ PINC(b) = head =>
       buf[b][0] + len[b] = Published
  /\ IF Empty THEN taken = Published ELSE taken = buf[tail][0] + read[tail]
  /\ outBlk # NoBlk =>
       \A i \in 0 .. len[head] - 1 : buf[head][i] = Published + i
  /\ pc["P"] = "complete" =>
       \A i \in wp.off .. wp.off + wp.amt - 1 :
         buf[head][i] = sent + (i - wp.off)

LEMMA DataInit == Init => Data
BY BlkCountAssumption
   DEF Init, FifoInit, Data, Handed, Dist, Empty, Published, Threads, Slots, NoBlk

(* A step that leaves the fifo alone and fills no pointer.                 *)
LEMMA DataLocal ==
  ASSUME Data, UNCHANGED <<fifoVars, sent, taken>>,
         pc'["P"] = "complete" => pc["P"] = "complete" /\ wp' = wp
  PROVE  Data'
BY DEF Data, fifoVars, Handed, Dist, Counts, Empty, Published, PINC

LEMMA DataStep ==
  ASSUME Control, Control', Data, [Next]_vars
  PROVE  Data'
<1> USE BlkCountAssumption, BlkSizeAssumption
<1>1. ASSUME NEW t \in Threads, Wait(t) PROVE Data'
  <2>1. UNCHANGED <<fifoVars, wp, sent, taken>>
    BY <1>1 DEF Wait, WaitForReady, WaitBegins, WaitWakes, WaitTimesOut, Start,
         WaitReturns
  <2>2. pc'["P"] = "complete" => pc["P"] = "complete"
    BY <1>1 DEF Wait, WaitForReady, WaitBegins, WaitWakes, WaitTimesOut, Start,
         WaitReturns, Goto, Control, TypeOK, Threads
  <2> QED BY <2>1, <2>2, DataLocal
<1>2. CASE WriteResume \/ FillNothing
  BY <1>2, DataLocal DEF WriteResume, FillNothing, Goto, Control, TypeOK, Threads
<1>3. CASE ReadResume \/ DrainNothing \/ \E amt \in 1 .. BlkSize : Drain(amt)
  BY <1>3, DataLocal DEF ReadResume, DrainNothing, Drain, Goto, Control, TypeOK,
     Threads
<1>4. CASE ReadTake
  <2>1. UNCHANGED <<head, tail, count, len, read, buf, outBlk, sent, taken, wp>>
    BY <1>4 DEF ReadTake, TakeIn
  <2>2. pc'["P"] = pc["P"]
    BY <1>4 DEF ReadTake, Goto, Control, TypeOK, Threads
  <2> QED BY <2>1, <2>2 DEF Data, Handed, Dist, Counts, Empty, Published, PINC
<1>5. CASE WriteTake
  <2>1. /\ head \in Slots /\ outBlk = NoBlk /\ outBlk' = head
        /\ len' = [len EXCEPT ![head] = 0]
        /\ read' = [read EXCEPT ![head] = 0]
        /\ UNCHANGED <<head, tail, count, buf, sent, taken>>
    BY <1>5 DEF WriteTake, TakeOut, Control, TypeOK, FifoTypeOK, ProducerOK
  <2>2. pc'["P"] = "copy"
    BY <1>5 DEF WriteTake, Goto, Control, TypeOK, Threads
  <2>3. ~Handed(head) /\ Published' = Published
    BY <2>1 DEF Handed, Dist, Published, Control, CountIsDistance, TypeOK,
         FifoTypeOK, Slots, NoBlk
  <2>4. \A b \in Slots : b # head => len'[b] = len[b] /\ read'[b] = read[b]
    BY <2>1 DEF Control, TypeOK, FifoTypeOK
  <2>5. len'[head] = 0
    BY <2>1 DEF Control, TypeOK, FifoTypeOK
  <2>6. ~Empty => tail # head
    BY DEF Empty
  <2> QED BY <2>1, <2>2, <2>3, <2>4, <2>5, <2>6
          DEF Data, Handed, Dist, Counts, Empty, PINC, Control, TypeOK, FifoTypeOK
<1>6. ASSUME NEW amt \in 0 .. BlkSize, Fill(amt) PROVE Data'
  <2>1. /\ UNCHANGED <<head, tail, count, len, read, outBlk, sent, taken>>
        /\ head \in Slots /\ outBlk = head /\ wp.blk = head
        /\ wp.off = len[head] /\ wp.max = BlkSize - wp.off
        /\ wp'.off = wp.off /\ wp'.amt = amt /\ amt \in 0 .. wp.max
        /\ wp.off \in 0 .. BlkSize
    BY <1>6 DEF Fill, Control, TypeOK, FifoTypeOK, ProducerOK, Busy, Ptrs
  <2>2. \A b \in Slots : b # head => buf'[b] = buf[b]
    BY <1>6, <2>1 DEF Fill, Control, TypeOK, FifoTypeOK
  <2>a. buf'[head] = [i \in Cells |-> IF i \in wp.off .. wp.off + amt - 1
                                     THEN sent + (i - wp.off) ELSE buf[head][i]]
    BY <1>6, <2>1 DEF Fill, Control, TypeOK, FifoTypeOK
  <2>3. \A i \in 0 .. wp.off - 1 : buf'[head][i] = buf[head][i]
    BY <2>1, <2>a DEF Cells
  <2>4. \A i \in wp.off .. wp.off + amt - 1 : buf'[head][i] = sent + (i - wp.off)
    BY <2>1, <2>a DEF Cells
  <2>5. ~Handed(head) /\ Published' = Published
    BY <2>1 DEF Handed, Dist, Published, Control, CountIsDistance, TypeOK,
         FifoTypeOK, Slots, NoBlk
  <2>6. \A b \in Slots : PINC(b) \in Slots
    BY PINCIs DEF Slots
  <2>7. ~Empty => tail # head
    BY DEF Empty
  <2>8. \A b \in Slots : Handed(b)' = Handed(b) /\ PINC(b)' = PINC(b)
    BY <2>1 DEF Handed, Dist, PINC
  <2>9. \A b \in Slots : Handed(b) => b # head
    BY <2>5
  <2> QED
    <3>1. /\ \A b \in Slots : Handed(b)' => Counts(b)'
          /\ IF Empty' THEN taken' = Published' ELSE taken' = buf'[tail'][0] + read'[tail']
      BY <2>1, <2>2, <2>5, <2>7, <2>8, <2>9
         DEF Data, Counts, Empty, Control, TypeOK, FifoTypeOK
    <3>2. \A b \in Slots : Handed(b)' /\ PINC(b)' # head' =>
            buf'[PINC(b)'][0] = buf'[b][0] + len'[b]
      BY <2>1, <2>2, <2>6, <2>8, <2>9 DEF Data
    <3>3. \A b \in Slots : Handed(b)' /\ PINC(b)' = head' =>
            buf'[b][0] + len'[b] = Published'
      BY <2>1, <2>2, <2>5, <2>8, <2>9 DEF Data
    <3>4. \A i \in 0 .. len'[head'] - 1 : buf'[head'][i] = Published' + i
      BY <2>1, <2>3, <2>5 DEF Data, NoBlk, Slots
    <3>5. \A i \in wp'.off .. wp'.off + wp'.amt - 1 :
            buf'[head'][i] = sent' + (i - wp'.off)
      BY <2>1, <2>4
    <3> QED BY <3>1, <3>2, <3>3, <3>4, <3>5 DEF Data
<1>7. CASE WriteComplete
  <2> DEFINE amt == wp.amt
  <2>0. /\ outBlk = head /\ head \in Slots /\ tail \in Slots /\ ~Full
        /\ amt \in 0 .. BlkSize /\ len[head] \in 0 .. BlkSize
        /\ len[head] + amt \in 1 .. BlkSize /\ wp.off = len[head]
        /\ len' = [len EXCEPT ![head] = len[head] + amt]
        /\ sent' = sent + amt /\ sent \in Nat
        /\ UNCHANGED <<tail, read, buf, inBlk, taken>>
    BY <1>7 DEF WriteComplete, CommitOut, Control, TypeOK, FifoTypeOK,
         ProducerOK, Busy, Ptrs
  <2>1. pc'["P"] = "idle"
    BY <1>7 DEF WriteComplete, Goto, Control, TypeOK, Threads
  <2>2. ~Handed(head) /\ Published = sent - len[head]
    BY <2>0 DEF Handed, Dist, Published, Control, CountIsDistance, Slots, NoBlk
  <2>3. \A i \in 0 .. len'[head] - 1 : buf[head][i] = Published + i
    <3> SUFFICES ASSUME NEW i \in 0 .. len[head] + amt - 1
                 PROVE  buf[head][i] = Published + i
      BY <2>0 DEF Control, TypeOK, FifoTypeOK
    <3>1. CASE i < len[head]
      BY <2>0, <3>1 DEF Data, NoBlk, Slots
    <3>2. CASE i >= len[head]
      <4>1. buf[head][i] = sent + (i - len[head])
        BY <1>7, <2>0, <3>2 DEF Data, WriteComplete
      <4> QED BY <2>0, <2>2, <4>1
    <3> QED BY <2>0, <3>1, <3>2
  <2>4. \A b \in Slots : b # head => len'[b] = len[b]
    BY <2>0 DEF Control, TypeOK, FifoTypeOK
  <2>5. len'[head] = len[head] + amt
    BY <2>0 DEF Control, TypeOK, FifoTypeOK
  <2>6. CASE ~Closes(amt)
    <3>1. UNCHANGED <<head, count, outBlk>>
      BY <1>7, <2>6 DEF WriteComplete, CommitOut
    <3>2. Published' = Published
      BY <2>0, <2>2, <2>5, <3>1 DEF Published, NoBlk, Slots
    <3>3. \A b \in Slots : Handed(b)' = Handed(b) /\ PINC(b)' = PINC(b)
      BY <2>0, <3>1 DEF Handed, Dist, PINC
    <3>4. \A b \in Slots : Handed(b) => len'[b] = len[b]
      BY <2>2, <2>4
    <3> QED
      <4>1. \A b \in Slots : Handed(b)' => Counts(b)'
        BY <2>0, <3>3, <3>4 DEF Data, Counts
      <4>2. \A b \in Slots : Handed(b)' /\ PINC(b)' # head' =>
              buf'[PINC(b)'][0] = buf'[b][0] + len'[b]
        BY <2>0, <3>1, <3>3, <3>4 DEF Data
      <4>3. \A b \in Slots : Handed(b)' /\ PINC(b)' = head' =>
              buf'[b][0] + len'[b] = Published'
        BY <2>0, <3>1, <3>2, <3>3, <3>4 DEF Data
      <4>4. IF Empty' THEN taken' = Published' ELSE taken' = buf'[tail'][0] + read'[tail']
        BY <2>0, <3>1, <3>2 DEF Data, Empty
      <4>5. \A i \in 0 .. len'[head'] - 1 : buf'[head'][i] = Published' + i
        BY <2>0, <2>3, <3>1, <3>2
      <4> QED BY <2>1, <4>1, <4>2, <4>3, <4>4, <4>5 DEF Data
  <2>7. CASE Closes(amt)
    <3>1. count' = count + 1 /\ head' = PINC(head) /\ outBlk' = NoBlk
      BY <1>7, <2>0, <2>7 DEF WriteComplete, CommitOut
    <3>2. Published' = sent' /\ sent' = Published + len'[head]
      BY <2>0, <2>2, <2>5, <3>1 DEF Published
    <3>3. /\ head' = IF head = BlkCount - 1 THEN 0 ELSE head + 1
          /\ head' # tail /\ head' # head
      BY <2>0, <3>1, PINCIs DEF Full, Slots
    <3>4. \A b \in Slots : PINC(b)' = PINC(b)
      BY DEF PINC
    <3>5. ASSUME NEW b \in Slots, Handed(b)', b # head PROVE Handed(b)
      <4>1. count = IF head >= tail THEN head - tail ELSE head - tail + BlkCount
        BY DEF Control, CountIsDistance
      <4>2. tail' = tail /\ count' = count + 1 /\ head \in Slots /\ tail \in Slots
        BY <2>0, <3>1
      <4> QED BY ONLY BlkCountAssumption, <3>5, <4>1, <4>2 DEF Handed, Dist, Slots
    <3>6. \A b \in Slots : b # head => PINC(b) # head'
      BY <2>0, <3>3, PINCIs DEF Slots
    <3>7. buf[head][0] = Published /\ len'[head] \in 1 .. BlkSize
      <4>1. len'[head] \in 1 .. BlkSize
        BY <2>0, <2>5
      <4>2. Published \in Int
        BY <2>0, <2>2
      <4> QED BY <2>3, <4>1, <4>2
    <3> QED
      <4>1. \A b \in Slots : Handed(b)' => Counts(b)'
        <5> SUFFICES ASSUME NEW b \in Slots, Handed(b)' PROVE Counts(b)'
          OBVIOUS
        <5>1. CASE b = head
          BY <2>0, <2>3, <3>7, <5>1 DEF Counts
        <5>2. CASE b # head
          BY <2>0, <2>4, <3>5, <5>2 DEF Counts, Data
        <5> QED BY <5>1, <5>2
      <4>2. ASSUME NEW b \in Slots, Handed(b)', PINC(b)' # head'
            PROVE  buf'[PINC(b)'][0] = buf'[b][0] + len'[b]
        <5>1. b # head /\ Handed(b) /\ len'[b] = len[b]
          BY <2>4, <3>1, <3>4, <3>5, <4>2
        <5>2. CASE PINC(b) = head
          BY <2>0, <3>4, <3>7, <5>1, <5>2 DEF Data
        <5>3. CASE PINC(b) # head
          BY <2>0, <3>4, <5>1, <5>3 DEF Data
        <5> QED BY <5>2, <5>3
      <4>3. ASSUME NEW b \in Slots, Handed(b)', PINC(b)' = head'
            PROVE  buf'[b][0] + len'[b] = Published'
        <5>1. b = head
          BY <3>4, <3>6, <4>3
        <5> QED BY <2>0, <3>2, <3>7, <5>1
      <4>4. ~Empty' /\ taken' = buf'[tail'][0] + read'[tail']
        <5>1. ~Empty'
          BY <2>0, <3>3 DEF Empty
        <5>2. CASE Empty
          <6>1. tail = head /\ read[head] = 0 /\ taken = Published
            BY <2>0, <5>2 DEF Data, Empty, Control, ProducerOK, NoBlk, Slots
          <6>2. Published \in Int
            BY <2>0, <2>2
          <6> QED BY <2>0, <3>7, <5>1, <6>1, <6>2
        <5>3. CASE ~Empty
          BY <2>0, <5>1, <5>3 DEF Data
        <5> QED BY <5>2, <5>3
      <4> QED BY <2>1, <3>1, <4>1, <4>2, <4>3, <4>4 DEF Data
  <2> QED BY <2>6, <2>7
<1>8. CASE ReadComplete
  <2> DEFINE amt == rp.amt
  <2>0. /\ inBlk = tail /\ head \in Slots /\ tail \in Slots /\ ~Empty
        /\ amt \in 1 .. BlkSize /\ read[tail] \in 0 .. BlkSize
        /\ len[tail] \in 0 .. BlkSize
        /\ read' = [read EXCEPT ![tail] = read[tail] + amt]
        /\ taken' = taken + amt /\ taken \in Nat
        /\ UNCHANGED <<head, len, buf, outBlk, sent, wp>>
    BY <1>8 DEF ReadComplete, CommitIn, Control, TypeOK, FifoTypeOK,
         ConsumerOK, Busy, Ptrs
  <2>1. pc'["P"] = pc["P"] /\ Published' = Published
    BY <1>8, <2>0 DEF ReadComplete, Goto, Control, TypeOK, Threads, Published
  <2>2. read'[tail] = read[tail] + amt
    BY <2>0 DEF Control, TypeOK, FifoTypeOK
  <2>3. taken = buf[tail][0] + read[tail] /\ buf[tail][0] \in Nat
    BY <2>0 DEF Data, Control, TypeOK, FifoTypeOK, Cells
  <2>4. \A b \in Slots : PINC(b)' = PINC(b)
    BY DEF PINC
  <2>5. CASE ~Drains(amt)
    <3>1. UNCHANGED <<tail, count>>
      BY <1>8, <2>5 DEF ReadComplete, CommitIn
    <3>2. \A b \in Slots : Handed(b)' = Handed(b)
      BY <3>1 DEF Handed, Dist
    <3>3. ~Empty' /\ taken' = buf'[tail'][0] + read'[tail']
      BY <2>0, <2>2, <2>3, <3>1 DEF Empty
    <3> QED BY <2>0, <2>1, <2>4, <3>2, <3>3 DEF Data, Counts
  <2>6. CASE Drains(amt)
    <3>1. count' = count - 1 /\ tail' = PINC(tail)
      BY <1>8, <2>0, <2>6 DEF ReadComplete, CommitIn
    <3>2. tail' = (IF tail = BlkCount - 1 THEN 0 ELSE tail + 1) /\ tail' \in Slots
      BY <2>0, <3>1, PINCIs DEF Slots
    <3>3. ASSUME NEW b \in Slots, Handed(b)' PROVE Handed(b) /\ b # tail
      <4>1. count = IF head >= tail THEN head - tail ELSE head - tail + BlkCount
        BY DEF Control, CountIsDistance
      <4>2. count' = count - 1 /\ head \in Slots /\ tail \in Slots
        BY <2>0, <3>1
      <4> QED BY ONLY BlkCountAssumption, <3>2, <3>3, <4>1, <4>2 DEF Handed, Dist, Slots
    <3>4. Handed(tail)
      BY <2>0 DEF Handed, Dist, Empty, Control, CountIsDistance, Slots
    <3>5. taken' = buf[tail][0] + len[tail]
      BY <2>0, <2>3, <2>6 DEF Drains
    <3>6. IF Empty' THEN taken' = Published' ELSE taken' = buf'[tail'][0] + read'[tail']
      <4>1. CASE Empty'
        BY <2>0, <2>1, <3>1, <3>4, <3>5, <4>1 DEF Data, Empty
      <4>2. CASE ~Empty'
        <5>1. PINC(tail) # head
          BY <2>0, <3>1, <4>2 DEF Empty
        <5>2. buf[tail'][0] = taken'
          BY <2>0, <3>1, <3>4, <3>5, <5>1 DEF Data
        <5>3. tail' # tail /\ Handed(tail')
          <6>1. count = IF head >= tail THEN head - tail ELSE head - tail + BlkCount
            BY DEF Control, CountIsDistance
          <6> QED BY ONLY BlkCountAssumption, <2>0, <3>1, <3>2, <5>1, <6>1
                  DEF Handed, Dist, Slots, Empty
        <5>4. read'[tail'] = 0
          BY <2>0, <3>2, <5>3 DEF Control, BlocksOK, TypeOK, FifoTypeOK
        <5> QED BY <2>0, <2>3, <3>5, <4>2, <5>2, <5>4
      <4> QED BY <4>1, <4>2
    <3> QED BY <2>0, <2>1, <2>4, <3>3, <3>6 DEF Data, Counts
  <2> QED BY <2>5, <2>6
<1>9. CASE UNCHANGED vars
  BY <1>9, DataLocal DEF vars, threadVars
<1> QED
  BY <1>1, <1>2, <1>3, <1>4, <1>5, <1>6, <1>7, <1>8, <1>9
     DEF Next, Producer, Consumer, Threads

(* The memory from tail to head is the stream, whoever writes or reads it. *)
THEOREM DataInvariant == Spec => [](Control /\ Data)
<1>1. Init => Data
  BY DataInit
<1>2. Control /\ Control' /\ Data /\ [Next]_vars => Data'
  BY DataStep
<1> QED BY <1>1, <1>2, ControlInvariant, PTL DEF Spec

(* The consumer is always pointed at exactly the next units of the stream: *)
(* nothing is lost, repeated, reordered or overwritten under it.           *)
THEOREM InOrderHolds == Spec => []InOrder
<1>1. Control /\ Data => InOrder
  <2> SUFFICES ASSUME Control, Data, pc["C"] \in Busy
               PROVE  /\ rp.max > 0
                      /\ \A i \in 0 .. rp.max - 1 : buf[rp.blk][rp.off + i] = taken + i
    BY DEF InOrder, Busy
  <2>1. /\ rp.blk = tail /\ tail \in Slots /\ ~Empty
        /\ rp.off = read[tail] /\ rp.max = len[tail] - read[tail]
        /\ read[tail] \in 0 .. BlkSize /\ len[tail] \in 0 .. BlkSize
    BY DEF Control, ConsumerOK, TypeOK, FifoTypeOK
  <2>2. Handed(tail)
    BY <2>1, BlkCountAssumption DEF Handed, Dist, Empty, Control,
       CountIsDistance, TypeOK, FifoTypeOK, Slots
  <2>3. read[tail] < len[tail]
    BY <2>1, <2>2 DEF Control, BlocksOK
  <2>4. taken = buf[tail][0] + read[tail] /\ buf[tail][0] \in Nat
    BY <2>1, BlkSizeAssumption DEF Data, Control, TypeOK, FifoTypeOK, Cells
  <2>5. Counts(tail)
    BY <2>1, <2>2 DEF Data
  <2> QED BY <2>1, <2>3, <2>4, <2>5, BlkSizeAssumption DEF Counts
<1> QED BY <1>1, DataInvariant, PTL

-----------------------------------------------------------------------------
(* From each block handed over up to head, the stream up to its end fits   *)
(* in what lies between, at BlkSize units for each block.                  *)
Extent ==
  \A b \in Slots : Handed(b) =>
    /\ buf[b][0] + len[b] <= Published
    /\ Published - buf[b][0] <= (count - Dist(b)) * BlkSize

(* No block is handed over at first.                                      *)
LEMMA ExtentInit == Init => Extent
BY BlkCountAssumption DEF Init, FifoInit, Extent, Handed, Dist, Slots

(* One block more holds BlkSize units more.                                *)
LEMMA OneMore ==
  ASSUME NEW n \in Int
  PROVE  (n + 1) * BlkSize = n * BlkSize + BlkSize
BY BlkSizeAssumption

(* The free block is not counted.                                          *)
LEMMA AtMost ==
  ASSUME NEW n \in Int, n <= BlkCount - 1
  PROVE  n * BlkSize <= (BlkCount - 1) * BlkSize
BY BlkSizeAssumption, BlkCountAssumption

(* What the types and Control say, in one place.                           *)
LEMMA Types ==
  ASSUME Control
  PROVE  /\ head \in Slots /\ tail \in Slots /\ count \in Nat
         /\ len \in [Slots -> 0 .. BlkSize] /\ read \in [Slots -> 0 .. BlkSize]
         /\ \A b \in Slots : buf[b][0] \in Nat
         /\ sent \in Nat /\ taken \in Nat /\ Published \in Int
         /\ \A b \in Slots : Dist(b) \in Nat
         /\ count = Dist(head) /\ count <= BlkCount - 1
BY SMTT(60), BlkSizeAssumption, BlkCountAssumption
   DEF Control, TypeOK, FifoTypeOK, Cells, Published, Dist, CountIsDistance, Slots

(* A step that hands no block over keeps the extent of those that stay.    *)
LEMMA ExtentStays ==
  ASSUME Control, Extent, Published' = Published,
         \A b \in Slots : Handed(b)' => /\ Handed(b)
                                        /\ buf'[b][0] = buf[b][0] /\ len'[b] = len[b]
                                        /\ count' - Dist(b)' = count - Dist(b)
  PROVE  Extent'
<1> SUFFICES ASSUME NEW b \in Slots, Handed(b)'
             PROVE  /\ buf'[b][0] + len'[b] <= Published'
                    /\ Published' - buf'[b][0] <= (count' - Dist(b)') * BlkSize
  BY DEF Extent
<1> QED BY DEF Extent

(* Every step but a WriteComplete that closes a block: Published stays,    *)
(* and no block is handed over.                                            *)
LEMMA OthersStay ==
  ASSUME Control, Data, [Next]_vars, ~(WriteComplete /\ Closes(wp.amt))
  PROVE  /\ Published' = Published
         /\ \A b \in Slots : Handed(b)' => /\ Handed(b)
                                           /\ buf'[b][0] = buf[b][0] /\ len'[b] = len[b]
                                           /\ count' - Dist(b)' = count - Dist(b)
         /\ taken' = taken \/ ReadComplete
<1> USE BlkCountAssumption, BlkSizeAssumption
<1>t. /\ head \in Slots /\ tail \in Slots /\ count \in Nat
      /\ len \in [Slots -> 0 .. BlkSize] /\ sent \in Nat
      /\ \A b \in Slots : Dist(b) \in Nat
      /\ ~Handed(head)
  BY Types DEF Handed
<1>1. CASE UNCHANGED <<head, tail, count, len, buf, outBlk, sent, taken>>
  BY <1>1 DEF Handed, Dist, Published
<1>2. CASE WriteTake
  <2>1. /\ outBlk = NoBlk /\ outBlk' = head /\ len' = [len EXCEPT ![head] = 0]
        /\ UNCHANGED <<head, tail, count, buf, sent, taken>>
    BY <1>2 DEF WriteTake, TakeOut, Control, ProducerOK
  <2>2. Published' = Published
    BY <1>t, <2>1 DEF Published, NoBlk, Slots
  <2>3. \A b \in Slots : Handed(b)' = Handed(b) /\ Dist(b)' = Dist(b)
    BY <2>1 DEF Handed, Dist
  <2> QED BY <1>t, <2>1, <2>2, <2>3
<1>3. ASSUME NEW amt \in 0 .. BlkSize, Fill(amt)
      PROVE  /\ Published' = Published /\ taken' = taken
             /\ \A b \in Slots : Handed(b)' => /\ Handed(b)
                                               /\ buf'[b] = buf[b] /\ len'[b] = len[b]
                                               /\ count' - Dist(b)' = count - Dist(b)
  <2>1. UNCHANGED <<head, tail, count, len, outBlk, sent, taken>>
    BY <1>3 DEF Fill
  <2>2. wp.blk = head
    BY <1>3 DEF Fill, Control, ProducerOK, Busy
  <2>3. \A b \in Slots : b # head => buf'[b] = buf[b]
    BY <1>3, <2>2 DEF Fill, Control, TypeOK, FifoTypeOK
  <2>4. Published' = Published /\ \A b \in Slots : Handed(b)' = Handed(b) /\ Dist(b)' = Dist(b)
    BY <2>1 DEF Handed, Dist, Published
  <2> QED BY <1>t, <2>1, <2>3, <2>4
<1>4. CASE WriteComplete /\ ~Closes(wp.amt)
  <2>1. /\ UNCHANGED <<head, tail, count, buf, outBlk, taken>>
        /\ outBlk = head /\ outBlk # NoBlk
        /\ len' = [len EXCEPT ![head] = @ + wp.amt] /\ sent' = sent + wp.amt
        /\ wp.amt \in Nat
    BY <1>4 DEF WriteComplete, CommitOut, Control, ProducerOK, TypeOK, Ptrs
  <2>2. Published' = Published
    BY <1>t, <2>1 DEF Published
  <2>3. \A b \in Slots : Handed(b)' = Handed(b) /\ Dist(b)' = Dist(b)
    BY <2>1 DEF Handed, Dist
  <2> QED BY <1>t, <2>1, <2>2, <2>3
<1>5. CASE ReadComplete
  <2>1. UNCHANGED <<head, len, buf, outBlk, sent>>
    BY <1>5 DEF ReadComplete, CommitIn
  <2>2. CASE UNCHANGED <<tail, count>>
    BY <1>5, <2>1, <2>2 DEF Handed, Dist, Published
  <2>3. CASE count' = count - 1 /\ tail' = PINC(tail)
    <3>1. tail' = IF tail = BlkCount - 1 THEN 0 ELSE tail + 1
      BY <1>t, <2>3, PINCIs
    <3>2. count = IF head >= tail THEN head - tail ELSE head - tail + BlkCount
      BY DEF Control, CountIsDistance
    <3>3. ASSUME NEW b \in Slots, Handed(b)'
          PROVE  Handed(b) /\ count' - Dist(b)' = count - Dist(b)
      BY ONLY BlkCountAssumption, <1>t, <2>3, <3>1, <3>2, <3>3
         DEF Handed, Dist, Slots
    <3> QED BY <1>5, <2>1, <3>3 DEF Published
  <2> QED BY <1>5, <2>2, <2>3 DEF ReadComplete, CommitIn
<1>6. ASSUME NEW t \in Threads, Wait(t)
      PROVE  UNCHANGED <<head, tail, count, len, buf, outBlk, sent, taken>>
  BY <1>6 DEF Wait, WaitForReady, WaitBegins, WaitWakes, WaitTimesOut, Start,
     WaitReturns, fifoVars
<1>7. CASE WriteResume \/ FillNothing \/ ReadResume \/ DrainNothing \/ ReadTake
           \/ \E amt \in 1 .. BlkSize : Drain(amt)
  <2>1. UNCHANGED <<head, tail, count, len, buf, outBlk, sent, taken>>
    BY <1>7 DEF WriteResume, FillNothing, ReadResume, DrainNothing, ReadTake, TakeIn,
       Drain, fifoVars
  <2> QED BY <1>1, <2>1
<1>8. CASE UNCHANGED vars
  BY <1>1, <1>8 DEF vars, fifoVars, threadVars
<1> QED BY <1>1, <1>2, <1>3, <1>4, <1>5, <1>6, <1>7, <1>8
        DEF Next, Producer, Consumer, Threads

(* The block that is closed begins where the channel ended.                *)
LEMMA ClosedBlock ==
  ASSUME Control, Control', Data', WriteComplete, Closes(wp.amt), outBlk = head,
         len'[head] \in 1 .. BlkSize, Published' = Published + len'[head],
         Published \in Int
  PROVE  buf[head][0] = Published
<1> USE BlkCountAssumption, BlkSizeAssumption
<1>1. head \in Slots /\ head' = PINC(head) /\ UNCHANGED <<tail, buf>>
      /\ count' = count + 1 /\ count = Dist(head) /\ buf[head][0] \in Nat
  BY Types DEF WriteComplete, CommitOut
<1>2. PICK b \in Slots : b = head
  BY <1>1
<1>3. Handed(b)' /\ PINC(b)' = head'
  <2>1. Dist(b)' = Dist(b) /\ PINC(b)' = PINC(b)
    BY <1>1 DEF Dist, PINC
  <2>2. count \in Nat /\ Dist(b) = count
    BY <1>1, <1>2, Types
  <2> QED BY <1>1, <1>2, <2>1, <2>2 DEF Handed
<1>4. buf'[b][0] + len'[b] = Published'
  BY <1>3 DEF Data
<1> QED BY <1>1, <1>2, <1>4

(* A WriteComplete that closes its block hands over what is in it.         *)
LEMMA ClosingHandsOver ==
  ASSUME Control, Control', Data, Data', Extent, WriteComplete, Closes(wp.amt)
  PROVE  /\ Extent' /\ taken' = taken
         /\ \E n \in 1 .. BlkSize : Published' = Published + n
<1> USE BlkCountAssumption, BlkSizeAssumption
<1>1. /\ head \in Slots /\ tail \in Slots /\ count \in Nat /\ count = Dist(head)
      /\ len \in [Slots -> 0 .. BlkSize] /\ sent \in Nat /\ Published \in Int
      /\ \A b \in Slots : Dist(b) \in Nat /\ buf[b][0] \in Nat
      /\ ~Handed(head)
  BY Types DEF Handed
<1>2. /\ outBlk = head /\ outBlk # NoBlk /\ outBlk' = NoBlk
      /\ count' = count + 1 /\ head' = PINC(head) /\ UNCHANGED <<tail, buf, taken>>
      /\ len' = [len EXCEPT ![head] = @ + wp.amt] /\ sent' = sent + wp.amt
      /\ wp.amt \in Nat /\ wp.amt <= BlkSize - len[head] /\ len[head] + wp.amt > 0
  BY DEF WriteComplete, CommitOut, Control, ProducerOK, TypeOK, Ptrs, Busy
<1>3. len'[head] \in 1 .. BlkSize /\ Published' = Published + len'[head]
  BY <1>1, <1>2 DEF Published
<1>4. \A b \in Slots : Dist(b)' = Dist(b) /\ (Handed(b)' => Handed(b) \/ b = head)
  <2>1. count = IF head >= tail THEN head - tail ELSE head - tail + BlkCount
    BY DEF Control, CountIsDistance
  <2>2. \A b \in Slots : Dist(b)' = Dist(b)
    BY <1>2 DEF Dist
  <2>3. ASSUME NEW b \in Slots, Dist(b) < count + 1
        PROVE  Dist(b) < count \/ b = head
    BY ONLY BlkCountAssumption, <1>1, <2>1, <2>3 DEF Dist, Slots
  <2> QED BY <1>2, <2>2, <2>3 DEF Handed
<1>5. buf[head][0] = Published
  BY <1>1, <1>2, <1>3, ClosedBlock
<1>6. ASSUME NEW b \in Slots, Handed(b)'
      PROVE  /\ buf'[b][0] + len'[b] <= Published'
             /\ Published' - buf'[b][0] <= (count' - Dist(b)') * BlkSize
  <2>1. (count' - Dist(b)') * BlkSize = (count - Dist(b)) * BlkSize + BlkSize
    <3>1. count - Dist(b) \in Int /\ count' - Dist(b)' = (count - Dist(b)) + 1
      BY <1>1, <1>2, <1>4
    <3> QED BY <3>1, OneMore
  <2>2. CASE Handed(b)
    <3>1. len'[b] = len[b] /\ len[b] \in Nat
      BY <1>1, <1>2, <2>2
    <3>2. buf[b][0] + len[b] <= Published
          /\ Published - buf[b][0] <= (count - Dist(b)) * BlkSize
      BY <2>2 DEF Extent
    <3>3. (count - Dist(b)) * BlkSize \in Int /\ buf'[b][0] = buf[b][0]
      BY <1>1, <1>2
    <3> QED BY ONLY <1>1, <1>3, <2>1, <3>1, <3>2, <3>3, BlkSizeAssumption
  <2>3. CASE b = head
    <3>1. (count - Dist(b)) * BlkSize = 0
      BY <1>1, <2>3
    <3> QED BY <1>1, <1>2, <1>3, <1>5, <2>1, <2>3, <3>1
  <2> QED BY <1>4, <1>6, <2>2, <2>3
<1> QED BY <1>2, <1>3, <1>6 DEF Extent

-----------------------------------------------------------------------------
(* The channel's variables.                                                *)

(* What is ahead of the consumer fits the ring, but for its free block.    *)
Fits ==
  /\ Published \in Int /\ taken \in Nat
  /\ Published >= taken /\ Published - taken <= (BlkCount - 1) * BlkSize

LEMMA AheadFits ==
  ASSUME Control, Data, Extent
  PROVE  Fits
<1> USE BlkCountAssumption, BlkSizeAssumption
<1>1. /\ head \in Slots /\ tail \in Slots /\ count \in Nat /\ count <= BlkCount - 1
      /\ len \in [Slots -> 0 .. BlkSize] /\ read \in [Slots -> 0 .. BlkSize]
      /\ \A b \in Slots : buf[b][0] \in Nat
      /\ taken \in Nat /\ Published \in Int
  BY Types
<1>2. (BlkCount - 1) * BlkSize \in Nat
  OBVIOUS
<1>3. CASE Empty
  BY <1>1, <1>2, <1>3 DEF Data, Fits
<1>4. CASE ~Empty
  <2>1. Handed(tail) /\ Dist(tail) = 0
    BY <1>1, <1>4 DEF Handed, Dist, Empty, Control, CountIsDistance, Slots
  <2>2. taken = buf[tail][0] + read[tail] /\ read[tail] < len[tail]
    BY <1>1, <1>4, <2>1 DEF Data, Control, BlocksOK
  <2>3. buf[tail][0] + len[tail] <= Published
        /\ Published - buf[tail][0] <= (count - Dist(tail)) * BlkSize
    BY <1>1, <2>1 DEF Extent
  <2>4. (count - Dist(tail)) * BlkSize <= (BlkCount - 1) * BlkSize
        /\ (count - Dist(tail)) * BlkSize \in Int
    BY <1>1, <2>1, AtMost
  <2>5. len[tail] \in Nat /\ read[tail] \in Nat /\ buf[tail][0] \in Nat
    BY <1>1
  <2> HIDE DEF Published
  <2> QED BY ONLY <1>1, <1>2, <2>2, <2>3, <2>4, <2>5 DEF Fits
<1> QED BY <1>3, <1>4

-----------------------------------------------------------------------------
(* The units handed over and not taken, by their positions.                *)

Ahead == [i \in 1 .. Published - taken |-> taken + i - 1]

(* 1 .. k, ordered by inclusion.                                           *)
LEMMA First ==
  ASSUME NEW T, T \subseteq Nat, T # {}
  PROVE  \E k \in T : \A j \in T : k <= j
<1> DEFINE R == StrictSubsetOrdering(Nat)
           Uptos == {1 .. k : k \in T}
<1>1. IsWellFoundedOn(R, FiniteSubsetsOf(Nat))
  BY FS_StrictSubsetOrderingWellFounded
<1>2. Uptos \subseteq FiniteSubsetsOf(Nat) /\ Uptos # {}
  <2>1. \A k \in T : IsFiniteSet(1 .. k)
    BY FS_Interval
  <2>2. \A k \in T : 1 .. k \in SUBSET Nat
    OBVIOUS
  <2> QED BY <2>1, <2>2, Zenon DEF FiniteSubsetsOf
<1>3. \E x \in Uptos : \A y \in Uptos : <<y, x>> \notin R
  <2> HIDE DEF R, Uptos
  <2> QED BY <1>1, <1>2, WFMin
<1>4. PICK k \in T : \A j \in T : <<1 .. j, 1 .. k>> \notin R
  BY <1>3
<1>5. ASSUME NEW j \in T, j < k PROVE FALSE
  <2>1. k \in 1 .. k /\ k \notin 1 .. j /\ 1 .. j \subseteq 1 .. k
    BY <1>5
  <2>2. <<1 .. j, 1 .. k>> \in R
    BY <2>1 DEF StrictSubsetOrdering
  <2> QED BY <2>2, <1>4
<1> QED BY <1>5


(* f joins the first sequences of s, one more at each argument.            *)
Joins(f, s, n) ==
  \A i \in 1 .. n : f[i] = IF i = 1 THEN s[i] ELSE f[i - 1] \o s[i]

(* Two functions that do are the same.                                     *)
LEMMA Same ==
  ASSUME NEW n \in Nat, NEW s, NEW f, NEW g, Joins(f, s, n), Joins(g, s, n)
  PROVE  \A i \in 1 .. n : f[i] = g[i]
<1> USE DEF Joins
<1> DEFINE Bad == {i \in 1 .. n : f[i] # g[i]}
<1>1. ASSUME Bad # {} PROVE FALSE
  <2>1. Bad \subseteq Nat
    BY ONLY n \in Nat
  <2>2. \E i \in Bad : \A j \in Bad : i <= j
    <3> HIDE DEF Bad
    <3> QED BY <1>1, <2>1, First
  <2>3. PICK i \in Bad : \A j \in Bad : i <= j
    BY <2>2
  <2>4. i \in 1 .. n /\ f[i] # g[i] /\ i # 1
    OBVIOUS
  <2>5. i - 1 \in 1 .. n /\ ~(i <= i - 1)
    BY <2>4
  <2>6. f[i - 1] = g[i - 1]
    BY <2>3, <2>5
  <2> QED BY <2>4, <2>6
<1> QED BY <1>1

(* FlattenSeq(s) is the last value of any function that joins s.           *)
LEMMA Flattens ==
  ASSUME NEW s, Len(s) \in Nat \ {0}, NEW f,
         f = [i \in 1 .. Len(s) |-> IF i = 1 THEN s[i] ELSE f[i - 1] \o s[i]]
  PROVE  FlattenSeq(s) = f[Len(s)]
<1> DEFINE n == Len(s)
           Flat(g) == g = [i \in 1 .. n |-> IF i = 1 THEN s[i] ELSE g[i - 1] \o s[i]]
           h == CHOOSE g : Flat(g)
<1>1. FlattenSeq(s) = h[n]
  BY DEF FlattenSeq
<1>2. Flat(h)
  BY Zenon
<1> HIDE DEF h
<1>3. Joins(h, s, n)
  BY ONLY <1>2 DEF Joins
<1>4. Joins(f, s, n)
  BY Zenon DEF Joins
<1>5. n \in Nat /\ n \in 1 .. n
  BY ONLY Len(s) \in Nat \ {0}
<1> HIDE DEF n
<1>6. h[n] = f[n]
  BY ONLY <1>3, <1>4, <1>5, Same
<1> QED BY ONLY <1>1, <1>6 DEF n

(* The block k blocks after tail.                                          *)
LEMMA BlockIs ==
  ASSUME Control, NEW k \in 1 .. count
  PROVE  /\ Block(k) \in Slots /\ Handed(Block(k)) /\ Dist(Block(k)) = k - 1
         /\ k = 1 => Block(k) = tail
         /\ k # 1 => PINC(Block(k - 1)) = Block(k) /\ Block(k) # tail
         /\ Block(k) # head
         /\ k = count => PINC(Block(k)) = head
<1> USE BlkCountAssumption
<1>1. /\ head \in Slots /\ tail \in Slots /\ count \in Nat /\ count <= BlkCount - 1
      /\ count = IF head >= tail THEN head - tail ELSE head - tail + BlkCount
  BY Types DEF Control, CountIsDistance
<1> DEFINE At(j) == IF tail + j - 1 < BlkCount THEN tail + j - 1
                    ELSE tail + j - 1 - BlkCount
<1>2. \A j \in 1 .. count : Block(j) = At(j)
  BY <1>1 DEF Block, Slots
<1>3. Block(k) = At(k) /\ Block(k) \in Slots
  BY <1>1, <1>2 DEF Slots
<1>4. k # 1 => Block(k - 1) = At(k - 1) /\ Block(k - 1) \in Slots
  BY <1>1, <1>2 DEF Slots
<1>5. /\ PINC(Block(k)) = IF Block(k) = BlkCount - 1 THEN 0 ELSE Block(k) + 1
      /\ k # 1 => PINC(Block(k - 1)) = IF Block(k - 1) = BlkCount - 1 THEN 0
                                       ELSE Block(k - 1) + 1
  BY <1>3, <1>4, PINCIs
<1> QED BY ONLY BlkCountAssumption, <1>1, <1>3, <1>4, <1>5, k \in 1 .. count
        DEF Slots, Handed, Dist

(* Its length.                                                             *)
LEMMA AheadLen ==
  ASSUME NEW a \in Int, NEW b \in Int, b >= a
  PROVE  Len([i \in 1 .. b - a |-> a + i - 1]) = b - a
OBVIOUS

(* Ahead, n units longer at its end.                                       *)
LEMMA AheadPut ==
  ASSUME NEW a \in Int, NEW b \in Int, NEW n \in Nat, b >= a
  PROVE  [i \in 1 .. (b + n) - a |-> a + i - 1]
           = [i \in 1 .. b - a |-> a + i - 1] \o [i \in 1 .. n |-> b + i - 1]
OBVIOUS

(* And n units shorter at its beginning.                                   *)
LEMMA AheadGet ==
  ASSUME NEW a \in Int, NEW b \in Int, NEW n \in Nat, n <= b - a
  PROVE  LET q == [i \in 1 .. b - a |-> a + i - 1]
         IN /\ Len(q) = b - a
            /\ [i \in 1 .. b - (a + n) |-> (a + n) + i - 1] = SubSeq(q, n + 1, Len(q))
OBVIOUS

(* Where the k-th block handed over ends in the stream.                    *)
End(k) == buf[Block(k)][0] + len[Block(k)]

(* Each block handed over goes on where the one before ended, the first    *)
(* where the consumer is, and the last ends with what is handed over.      *)
LEMMA BlocksFollow ==
  ASSUME Control, Data, NEW k \in 1 .. count
  PROVE  /\ taken \in Nat /\ End(k) \in Nat /\ len[Block(k)] \in Nat
         /\ k = 1 => /\ End(1) >= taken
                    /\ Unread(Block(1)) = [i \in 1 .. End(1) - taken |-> taken + i - 1]
         /\ k # 1 => /\ End(k) = End(k - 1) + len[Block(k)]
                    /\ Unread(Block(k)) = [i \in 1 .. len[Block(k)] |-> End(k - 1) + i - 1]
         /\ k = count => End(k) = Published
<1> USE BlkSizeAssumption
<1> DEFINE b == Block(k)
<1>1. /\ b \in Slots /\ Handed(b) /\ (k = 1 => b = tail) /\ b # head
      /\ (k # 1 => PINC(Block(k - 1)) = b /\ b # tail)
      /\ (k = count => PINC(b) = head)
  BY BlockIs
<1>2. len[b] \in Nat /\ read[b] \in Nat /\ buf[b][0] \in Nat /\ taken \in Nat
  BY <1>1, Types
<1>3. read[b] < len[b] /\ (inBlk # b => read[b] = 0)
  BY <1>1 DEF Control, BlocksOK
<1>4. \A i \in 0 .. len[b] - 1 : buf[b][i] = buf[b][0] + i
  BY <1>1 DEF Data, Counts
<1>5. End(k) = buf[b][0] + len[b] /\ End(k) \in Nat
  BY <1>2 DEF End
<1>6. \A i \in 1 .. len[b] - read[b] : buf[b][read[b] + i - 1] = buf[b][0] + read[b] + i - 1
  <2> SUFFICES ASSUME NEW i \in 1 .. len[b] - read[b]
               PROVE  buf[b][read[b] + i - 1] = buf[b][0] + read[b] + i - 1
    OBVIOUS
  <2>1. read[b] + i - 1 \in 0 .. len[b] - 1
    BY <1>2, <1>3
  <2>2. buf[b][read[b] + i - 1] = buf[b][0] + (read[b] + i - 1)
    BY <1>4, <2>1
  <2> HIDE DEF b
  <2> QED BY ONLY <1>2, <1>3, <2>2, i \in 1 .. len[b] - read[b]
<1>7. Unread(b) = [i \in 1 .. len[b] - read[b] |-> buf[b][0] + read[b] + i - 1]
  BY <1>6 DEF Unread
<1>8. CASE k = 1
  <2>1. tail # head /\ taken = buf[b][0] + read[b]
    BY <1>1, <1>8 DEF Data, Empty
  <2>2. End(1) - taken = len[b] - read[b] /\ End(1) >= taken
    <3> HIDE DEF b
    <3> QED BY <1>2, <1>3, <1>5, <1>8, <2>1
  <2>3. Unread(Block(1)) = [i \in 1 .. End(1) - taken |-> taken + i - 1]
    BY <1>7, <1>8, <2>1, <2>2
  <2> HIDE DEF b
  <2>4. k = count => End(k) = Published
    BY <1>1, <1>5 DEF Data
  <2> QED BY <1>2, <1>5, <1>8, <2>2, <2>3, <2>4 DEF b
<1>9. CASE k # 1
  <2>1. k - 1 \in 1 .. count
    BY <1>9, Types
  <2>2. Block(k - 1) \in Slots /\ Handed(Block(k - 1))
    BY <2>1, BlockIs
  <2>3. buf[b][0] = End(k - 1)
    BY <1>1, <1>9, <2>2 DEF Data, End
  <2>4. read[b] = 0
    BY <1>1, <1>3, <1>9 DEF Control, ConsumerOK, NoBlk, Slots
  <2> HIDE DEF b
  <2>5. Unread(b) = [i \in 1 .. len[b] |-> End(k - 1) + i - 1]
    <3>1. len[b] - read[b] = len[b] /\ buf[b][0] + read[b] = End(k - 1)
      BY <1>2, <2>3, <2>4
    <3> QED BY <1>7, <3>1
  <2>6. End(k) = End(k - 1) + len[b]
    BY <1>5, <2>3
  <2>7. k = count => End(k) = Published
    BY <1>1, <1>5 DEF Data
  <2> QED BY <1>2, <1>5, <1>9, <2>5, <2>6, <2>7 DEF b
<1> QED BY <1>8, <1>9

(* No block handed over ends before the consumer.                          *)
LEMMA EndsLater ==
  ASSUME Control, Data
  PROVE  \A k \in 1 .. count : End(k) >= taken
<1> DEFINE Bad == {k \in 1 .. count : ~(End(k) >= taken)}
<1>1. ASSUME Bad # {} PROVE FALSE
  <2>1. count \in Nat
    BY Types
  <2>2. Bad \subseteq Nat
    BY ONLY <2>1
  <2>3. \E k \in Bad : \A j \in Bad : k <= j
    <3> HIDE DEF Bad
    <3> QED BY <1>1, <2>2, First
  <2>4. PICK k \in Bad : \A j \in Bad : k <= j
    BY <2>3
  <2>5. k \in 1 .. count /\ ~(End(k) >= taken)
    OBVIOUS
  <2>6. k # 1 /\ End(k) = End(k - 1) + len[Block(k)] /\ len[Block(k)] \in Nat
    BY <2>5, BlocksFollow
  <2>7. k - 1 \in 1 .. count /\ ~(k <= k - 1)
    BY <2>1, <2>5, <2>6
  <2>8. End(k - 1) >= taken
    BY <2>4, <2>7
  <2>9. End(k - 1) \in Nat /\ taken \in Nat
    BY <2>7, BlocksFollow
  <2> QED BY ONLY <2>5, <2>6, <2>8, <2>9
<1> QED BY <1>1

(* So the blocks' memory holds the stream from taken to Published.         *)
LEMMA MemoryIsAhead ==
  ASSUME Control, Data
  PROVE  InMemory = Ahead
<1> DEFINE s == [k \in 1 .. count |-> Unread(Block(k))]
           f == [k \in 1 .. count |-> [i \in 1 .. End(k) - taken |-> taken + i - 1]]
<1>1. /\ count \in Nat /\ head \in Slots /\ tail \in Slots /\ taken \in Nat
      /\ count = IF head >= tail THEN head - tail ELSE head - tail + BlkCount
  BY Types DEF Control, CountIsDistance
<1>2. Len(s) = count /\ DOMAIN s = 1 .. count
  BY <1>1
<1>3. CASE count = 0
  <2>1. head = tail
    BY BlkCountAssumption, <1>1, <1>3 DEF Slots
  <2>2. taken = Published
    BY <2>1 DEF Data, Empty
  <2>3. 1 .. Published - taken = {} /\ 1 .. count = {}
    BY <1>1, <1>3, <2>2
  <2>4. InMemory = s
    BY <1>2, <1>3 DEF InMemory, FlattenSeq
  <2> QED BY <2>3, <2>4 DEF Ahead
<1>4. CASE count # 0
  <2>1. count \in Nat \ {0} /\ count \in 1 .. count
    BY <1>1, <1>4
  <2>2. ASSUME NEW k \in 1 .. count
        PROVE  f[k] = IF k = 1 THEN s[k] ELSE f[k - 1] \o s[k]
    <3>1. CASE k = 1
      BY <3>1, BlocksFollow
    <3>2. CASE k # 1
      <4>1. k - 1 \in 1 .. count
        BY <1>1, <3>2
      <4>2. /\ End(k) = End(k - 1) + len[Block(k)]
            /\ s[k] = [i \in 1 .. len[Block(k)] |-> End(k - 1) + i - 1]
            /\ len[Block(k)] \in Nat
        BY <3>2, BlocksFollow
      <4>3. End(k - 1) \in Int /\ taken \in Int /\ End(k - 1) >= taken
        BY <1>1, <4>1, BlocksFollow, EndsLater
      <4>4. f[k] = [i \in 1 .. (End(k - 1) + len[Block(k)]) - taken |-> taken + i - 1]
        BY <4>2
      <4>5. f[k - 1] = [i \in 1 .. End(k - 1) - taken |-> taken + i - 1]
        BY <4>1
      <4> DEFINE e == End(k - 1)
                 n == len[Block(k)]
      <4>6. /\ f[k] = [i \in 1 .. (e + n) - taken |-> taken + i - 1]
            /\ f[k - 1] = [i \in 1 .. e - taken |-> taken + i - 1]
            /\ s[k] = [i \in 1 .. n |-> e + i - 1]
            /\ e \in Int /\ n \in Nat /\ taken \in Int /\ e >= taken
        BY <4>2, <4>3, <4>4, <4>5
      <4> HIDE DEF f, s, e, n
      <4>7. [i \in 1 .. (e + n) - taken |-> taken + i - 1]
              = [i \in 1 .. e - taken |-> taken + i - 1] \o [i \in 1 .. n |-> e + i - 1]
        BY ONLY <4>6, AheadPut
      <4>8. f[k] = f[k - 1] \o s[k]
        BY ONLY <4>6, <4>7, Zenon
      <4> QED BY <3>2, <4>8
    <3> QED BY <3>1, <3>2
  <2>3. f = [k \in 1 .. count |-> IF k = 1 THEN s[k] ELSE f[k - 1] \o s[k]]
    <3> DEFINE h == [k \in 1 .. count |-> IF k = 1 THEN s[k] ELSE f[k - 1] \o s[k]]
    <3>1. DOMAIN f = 1 .. count /\ DOMAIN h = 1 .. count
      OBVIOUS
    <3>2. f = [k \in DOMAIN f |-> f[k]] /\ h = [k \in DOMAIN h |-> h[k]]
      <4>1. f = [k \in DOMAIN f |-> f[k]]
        OBVIOUS
      <4>2. h = [k \in DOMAIN h |-> h[k]]
        <5> HIDE DEF f, s
        <5> QED OBVIOUS
      <4> HIDE DEF f, h
      <4> QED BY <4>1, <4>2
    <3>3. \A k \in 1 .. count : f[k] = h[k]
      <4> HIDE DEF f, s
      <4> QED BY <2>2
    <3> HIDE DEF f, h
    <3>4. f = h
      BY ONLY <3>1, <3>2, <3>3
    <3> QED BY <3>4 DEF h
  <2>4. f[count] = Ahead
    BY <2>1, BlocksFollow DEF Ahead
  <2>5. InMemory = FlattenSeq(s)
    BY DEF InMemory
  <2> HIDE DEF f, s
  <2>6. FlattenSeq(s) = f[count]
    BY <1>2, <2>1, <2>3, Flattens
  <2> QED BY <2>4, <2>5, <2>6
<1> QED BY <1>3, <1>4

(* Each step of the two threads is a step of the channel, or none: closing *)
(* a block puts all that is in it, ReadComplete gets what was copied.      *)
LEMMA StepRefines ==
  ASSUME Control, Control', Data, Data', Extent, Fits, Fits', [Next]_vars,
         InMemory = Ahead, (InMemory = Ahead)'
  PROVE  [Stream!Next]_<<InMemory, Published, taken>>
<1> USE BlkCountAssumption, BlkSizeAssumption
<1> DEFINE Capacity == (BlkCount - 1) * BlkSize
<1>0. InMemory = Ahead /\ InMemory' = Ahead'
  OBVIOUS
<1>1. /\ Published \in Int /\ taken \in Nat /\ Capacity \in Nat
      /\ Published >= taken /\ Len(Ahead) = Published - taken
  <2>1. /\ Published \in Int /\ taken \in Nat /\ Capacity \in Nat
        /\ Published >= taken
    BY DEF Fits
  <2> HIDE DEF Capacity
  <2> QED BY <2>1, AheadLen DEF Ahead
<1>2. Published' >= taken' /\ Published' - taken' <= Capacity
  BY DEF Fits
<1>3. BlkSize <= Capacity
  <2>1. 1 * BlkSize <= (BlkCount - 1) * BlkSize
    BY AtMost
  <2> QED BY <2>1
<1>4. CASE WriteComplete /\ Closes(wp.amt)
  <2>1. PICK n \in 1 .. BlkSize : Published' = Published + n
    BY <1>4, ClosingHandsOver
  <2>2. taken' = taken
    BY <1>4, ClosingHandsOver
  <2>3. Ahead' = Ahead \o [i \in 1 .. n |-> Published + i - 1]
    <3>1. Ahead' = [i \in 1 .. (Published + n) - taken |-> taken + i - 1]
      BY <2>1, <2>2 DEF Ahead
    <3>2. n \in Nat /\ taken \in Int /\ Published \in Int /\ Published >= taken
      BY <1>1
    <3>3. [i \in 1 .. (Published + n) - taken |-> taken + i - 1]
            = [i \in 1 .. Published - taken |-> taken + i - 1]
                \o [i \in 1 .. n |-> Published + i - 1]
      BY ONLY <3>2, AheadPut, Zenon
    <3> QED BY ONLY <3>1, <3>3 DEF Ahead
  <2>4. Len(Ahead) + n <= Capacity
    <3> HIDE DEF Published, Capacity
    <3> QED BY <1>1, <1>2, <2>1, <2>2
  <2>5. Stream!Put(n) /\ n \in 1 .. Capacity
    BY <1>0, <1>1, <1>3, <2>1, <2>2, <2>3, <2>4 DEF Stream!Put
  <2> QED BY <2>5 DEF Stream!Next
<1>5. CASE ~(WriteComplete /\ Closes(wp.amt)) /\ ReadComplete
  <2>1. Published' = Published
    BY <1>5, OthersStay
  <2>2. PICK n \in 1 .. BlkSize : taken' = taken + n
    BY <1>5 DEF ReadComplete, Control, ConsumerOK, TypeOK, Ptrs
  <2>3. n <= Published - taken
    BY <1>1, <1>2, <2>1, <2>2
  <2>4. Ahead' = SubSeq(Ahead, n + 1, Len(Ahead))
    <3>1. Ahead' = [i \in 1 .. Published - (taken + n) |-> (taken + n) + i - 1]
      BY <2>1, <2>2 DEF Ahead
    <3>2. n \in Nat /\ taken \in Int /\ Published \in Int
      BY <1>1
    <3>3. [i \in 1 .. Published - (taken + n) |-> (taken + n) + i - 1]
            = SubSeq(Ahead, n + 1, Len(Ahead))
      BY ONLY <3>2, <2>3, AheadGet, Zenon DEF Ahead
    <3> QED BY ONLY <3>1, <3>3
  <2>5. Stream!Get(n) /\ n \in 1 .. Capacity
    BY <1>0, <1>1, <1>3, <2>1, <2>2, <2>3, <2>4 DEF Stream!Get
  <2> QED BY <2>5 DEF Stream!Next
<1>6. CASE ~(WriteComplete /\ Closes(wp.amt)) /\ ~ReadComplete
  BY <1>0, <1>6, OthersStay DEF Ahead
<1> QED BY <1>4, <1>5, <1>6

(* The fifo implements the stream that is read out of its blocks' memory:  *)
(* what lies between tail and head is the units handed over and not taken, *)
(* in order, and the threads, with their waits, blocks and copies outside  *)
(* the mutex, do to it only what a bounded queue does.                     *)
THEOREM ImplementsStream == Spec => SafeStream
<1>1. Init => Extent /\ Control /\ Data
  BY ExtentInit, ControlInit, DataInit
<1>2. Control /\ Data => InMemory = Ahead
  BY MemoryIsAhead
<1>3. Init => Stream!Init
  <2> SUFFICES ASSUME Init PROVE Stream!Init
    OBVIOUS
  <2>1. InMemory = Ahead
    BY <1>1, <1>2
  <2> QED BY <2>1 DEF Init, FifoInit, Stream!Init, Ahead, Published, NoBlk
<1>4. Control /\ Control' /\ Data /\ Data' /\ Extent /\ [Next]_vars => Extent'
  BY ExtentStays, OthersStay, ClosingHandsOver
<1>5. Control /\ Data /\ Extent => Fits
  BY AheadFits
<1>6. Control /\ Control' /\ Data /\ Data' /\ Extent /\ Fits /\ Fits' /\ [Next]_vars
      /\ InMemory = Ahead /\ (InMemory = Ahead)' => [Stream!Next]_Stream!chVars
  BY StepRefines DEF Stream!chVars
<1> QED BY <1>1, <1>2, <1>3, <1>4, <1>5, <1>6, DataInvariant, PTL
        DEF Spec, SafeStream, Stream!Safety
=============================================================================
