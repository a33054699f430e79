----------------------------- MODULE BlockFifo -----------------------------
(***************************************************************************)
(* class BlockFifo (lib/BlockFifo.h, lib/BlockFifo.cpp): a ring of         *)
(* BlkCount blocks of BlkSize units each, one of which always stays free.  *)
(* The producer fills the block at head and hands it over when it is full  *)
(* (or when it is closed early with an amount of 0); the consumer drains   *)
(* the block at tail.                                                      *)
(*                                                                         *)
(* This module has the object's state and its critical sections, one       *)
(* action per section between a lock and the unlock of the fifo's mutex.   *)
(* BlockFifoThreads has what the callers do between two sections.          *)
(*                                                                         *)
(* A unit stands for the smallest amount the callers hand over; its value  *)
(* is its position in the stream, so that loss, duplication and reordering *)
(* show in the memory of the blocks.                                       *)
(***************************************************************************)
EXTENDS Integers

CONSTANTS
  BlkCount,     \* blkCount: the blocks of the ring
  BlkSize       \* blkSize: the units of a block

\* With one block PINC(head) = tail always holds and nothing can be written;
\* the callers pass 16 (BlockFifo.h:20) or 64 (SocketRxBuffer.h:24).
ASSUME BlkCountAssumption == BlkCount \in Nat /\ BlkCount >= 2
ASSUME BlkSizeAssumption == BlkSize \in Nat \ {0}

VARIABLES
  head, tail,   \* the block the producer fills next, the oldest block handed over
  count,        \* blocks handed over and not yet released
  len, read,    \* Block.len and Block.read of every block
  buf,          \* Block.buf: the memory of every block
  outBlk, inBlk \* the block the producer, the consumer has in hand, or NoBlk

fifoVars == <<head, tail, count, len, read, buf, outBlk, inBlk>>

Slots == 0 .. BlkCount - 1
Cells == 0 .. BlkSize - 1
NoBlk == -1     \* nullptr

(* Mutant: the index runs past the last block.                             *)
PINCNoWrap(ptr) == ptr + 1
PINC(ptr) == (ptr + 1) % BlkCount

Empty == head = tail

(* Mutant: full is not noticed across the end of the ring.                 *)
FullNoWrap == head + 1 = tail
Full == PINC(head) = tail

-----------------------------------------------------------------------------
(* The constructor: every block empty, its memory zeroed by memset.        *)
FifoInit ==
  /\ head = 0 /\ tail = 0 /\ count = 0
  /\ len = [b \in Slots |-> 0]
  /\ read = [b \in Slots |-> 0]
  /\ buf = [b \in Slots |-> [i \in Cells |-> 0]]
  /\ outBlk = NoBlk /\ inBlk = NoBlk

(* WriteStart, the section that takes the block at head.                   *)
TakeOut ==
  /\ outBlk' = head
  /\ len' = [len EXCEPT ![head] = 0]
  /\ read' = [read EXCEPT ![head] = 0]
  /\ UNCHANGED <<head, tail, count, buf, inBlk>>

(* Mutant: the test comes before the amount is added.                      *)
ClosesBeforeAdd(amt) == amt = 0 \/ len[outBlk] = BlkSize

(* The block in hand is closed by this amount: it is full, or amt is 0.    *)
Closes(amt) == amt = 0 \/ len[outBlk] + amt = BlkSize

(* WriteComplete with a block in hand; a closed block is handed over.      *)
CommitOut(amt) ==
  /\ outBlk # NoBlk
  /\ len' = [len EXCEPT ![outBlk] = @ + amt]
  /\ \/ /\ Closes(amt)
        /\ count' = count + 1
        /\ head' = PINC(head)
        /\ outBlk' = NoBlk
     \/ /\ ~Closes(amt)
        /\ UNCHANGED <<head, count, outBlk>>
  /\ UNCHANGED <<tail, read, buf, inBlk>>

(* ReadStart, the section that takes the block at tail.                    *)
TakeIn ==
  /\ inBlk' = tail
  /\ UNCHANGED <<head, tail, count, len, read, buf, outBlk>>

(* Mutants: any read drains the block; no read drains it.                  *)
DrainsAny(amt) == len[inBlk] >= read[inBlk] + amt
DrainsNever(amt) == len[inBlk] < read[inBlk] + amt

(* The block in hand is drained by this amount.                            *)
Drains(amt) == len[inBlk] = read[inBlk] + amt

(* Mutant: the release forgets inBlk.                                      *)
CommitInKeepsBlk(amt) ==
  /\ inBlk # NoBlk
  /\ read' = [read EXCEPT ![inBlk] = @ + amt]
  /\ count' = IF Drains(amt) THEN count - 1 ELSE count
  /\ tail' = IF Drains(amt) THEN PINC(tail) ELSE tail
  /\ UNCHANGED <<inBlk, head, len, buf, outBlk>>

(* ReadComplete with a block in hand; a drained block is released.         *)
CommitIn(amt) ==
  /\ inBlk # NoBlk
  /\ read' = [read EXCEPT ![inBlk] = @ + amt]
  /\ \/ /\ Drains(amt)
        /\ count' = count - 1
        /\ tail' = PINC(tail)
        /\ inBlk' = NoBlk
     \/ /\ ~Drains(amt)
        /\ UNCHANGED <<tail, count, inBlk>>
  /\ UNCHANGED <<head, len, buf, outBlk>>

FifoTypeOK ==
  /\ head \in Slots /\ tail \in Slots
  /\ count \in 0 .. BlkCount
  /\ len \in [Slots -> 0 .. BlkSize]
  /\ read \in [Slots -> 0 .. BlkSize]
  /\ buf \in [Slots -> [Cells -> Nat]]
  /\ outBlk \in Slots \cup {NoBlk}
  /\ inBlk \in Slots \cup {NoBlk}
=============================================================================
