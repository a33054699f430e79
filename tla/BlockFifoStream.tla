-------------------------- MODULE BlockFifoStream --------------------------
(* The stream that a BlockFifo between two threads implements, read out of *)
(* the memory of its blocks.                                               *)
EXTENDS BlockFifoThreads, SequencesExt

(* The units of block b that have not been read, as they are in memory.    *)
Unread(b) == [i \in 1 .. len[b] - read[b] |-> buf[b][read[b] + i - 1]]

(* The k-th block handed over, from tail on.                               *)
Block(k) == (tail + k - 1) % BlkCount

(* The channel's content: all that is unread in the blocks handed over.    *)
InMemory == FlattenSeq([k \in 1 .. count |-> Unread(Block(k))])

Stream == INSTANCE StreamChannel WITH
            Capacity <- (BlkCount - 1) * BlkSize,
            q <- InMemory, written <- Published, delivered <- taken

(* The fifo is a bounded stream in order: its threads, with their waits,   *)
(* blocks and copies outside the mutex, do to what the blocks' memory      *)
(* holds from tail to head only what a bounded queue does (BlockFifo.cpp:  *)
(* 245 checks as much with one thread).                                    *)
SafeStream == Stream!Safety

(* And the consumer gets on: while there is something in the blocks, it    *)
(* takes some of it in the end, as the fairness of the threads makes it.   *)
GetsOn == Stream!Fairness
=============================================================================
