------------------------------- MODULE RxPath -------------------------------
(***************************************************************************)
(* The receive path: the device's byte stream, read from a socket by the   *)
(* pump of a SocketRxBuffer (lib/SocketRxBuffer.cpp) into a BlockFifo, cut *)
(* into packets by TcpRxSignalClient::ReceiveSamples                       *)
(* (lib/TcpRxSignalClient.cpp), and handed to GNU Radio with a time tag    *)
(* per packet by avs4000rx_impl::work (lib/avs4000rx_impl.cc).             *)
(*                                                                         *)
(* Two threads: the pump, and the GNU Radio block's own, which calls work  *)
(* and, when that is over, stop.  A call of WriteStart, WriteComplete,     *)
(* ReceiveStart or ReceiveComplete is one step here: BlockFifoThreads      *)
(* takes them apart, and shows that neither thread sees the other inside   *)
(* one.                                                                    *)
(*                                                                         *)
(* A unit of the stream is its position.  A packet is PktSize units: the   *)
(* first stands for the header, each of the others for a sample (the       *)
(* trailer goes with the last).  A device that is streaming sends whole    *)
(* packets, but TCP delivers them in pieces of any size.                   *)
(***************************************************************************)
EXTENDS BlockFifo, Sequences

CONSTANTS
  PktSize,      \* pktSize: units of a packet
  MaxUnits,     \* bound: units the device sends
  MaxItems      \* bound: samples one work call is asked for

ASSUME PktSizeAssumption == PktSize \in Nat /\ PktSize >= 2
\* A block holds a whole number of packets: 32 KB (SocketRxBuffer.h:23) and
\* 8 KB (TcpRxSignalClient.cpp:96).
ASSUME BlkSizeIsPackets == BlkSize % PktSize = 0
ASSUME BoundsAssumption == MaxUnits \in Nat /\ MaxItems \in Nat \ {0}

VARIABLES
  pump,         \* where the pump is
  done,         \* done: the pump is to end, or has met the stream's end
  amount,       \* what recv returned
  received,     \* history: units read from the socket
  blk,          \* where the block's thread is
  want, recv,   \* samples asked for and received in this work call
  partial,      \* samples taken from the packet at hand
  packet,       \* the header of the packet at hand
  tList,        \* tags of this work call: its offset, and its header
  rBuf,         \* samples of this work call
  nwritten,     \* nitems_written: samples of the work calls before
  useFracSec,   \* a tag needs the device's sample rate
  rateKnown,    \* masterSampleRate is not 0
  tags          \* history: the tags added to the output

pumpVars == <<pump, done, amount, received>>
workVars == <<want, recv, partial, packet, tList, rBuf>>
outVars == <<nwritten, useFracSec, rateKnown, tags>>
vars == <<fifoVars, pumpVars, blk, workVars, outVars>>

Payload == PktSize - 1      \* SamplesLen()

\* The unit of the device's k-th sample.
SampleAt(k) == (k \div Payload) * PktSize + 1 + (k % Payload)

(* TcpRxSignalClient's constructor has connected and attached the buffer,  *)
(* or has not connected: then no pump runs, and IsConnected is still true. *)
Init ==
  /\ FifoInit
  /\ pump \in {"select", "ended"} /\ done = FALSE /\ amount = 0 /\ received = 0
  /\ blk = "idle"
  /\ want = 0 /\ recv = 0 /\ partial = 0 /\ packet = 0
  /\ tList = <<>> /\ rBuf = <<>>
  /\ nwritten = 0 /\ tags = {}
  /\ useFracSec \in BOOLEAN /\ rateKnown = FALSE

-----------------------------------------------------------------------------
(* The pump.                                                               *)

PumpAt(place) == pump' = place /\ UNCHANGED <<blk, workVars, outVars>>

(* select says the socket is readable.                                     *)
Select ==
  /\ pump = "select" /\ ~done
  /\ PumpAt("start")
  /\ UNCHANGED <<fifoVars, done, amount, received>>

(* ReadData's loop is left when done is set, and Pump's too.               *)
PumpSeesDone ==
  /\ done
  /\ \/ pump = "start" /\ PumpAt("select")
     \/ pump = "select" /\ PumpAt("ended")
  /\ UNCHANGED <<fifoVars, done, amount, received>>

(* WriteStart: the block in hand, or the next one unless the fifo is full  *)
(* for 100 ms.                                                             *)
WriteStart ==
  /\ pump = "start" /\ ~done
  /\ \/ outBlk # NoBlk /\ PumpAt("recv") /\ UNCHANGED fifoVars
     \/ outBlk = NoBlk /\ ~Full /\ TakeOut /\ PumpAt("recv")
     \/ outBlk = NoBlk /\ Full /\ PumpAt("select") /\ UNCHANGED fifoVars
  /\ UNCHANGED <<done, amount, received>>

Recv(amt) ==
  /\ pump = "recv"
  /\ len[outBlk] + amt <= BlkSize /\ received + amt <= MaxUnits
  /\ buf' = [buf EXCEPT ![outBlk] =
               [i \in Cells |-> IF i \in len[outBlk] .. len[outBlk] + amt - 1
                                THEN received + (i - len[outBlk]) ELSE @[i]]]
  /\ amount' = amt
  /\ received' = received + amt
  /\ PumpAt("complete")
  /\ UNCHANGED <<head, tail, count, len, read, outBlk, inBlk, done>>

(* EAGAIN: nothing more for now.                                           *)
RecvNothing ==
  /\ pump = "recv"
  /\ PumpAt("select")
  /\ UNCHANGED <<fifoVars, done, amount, received>>

(* The end of the stream, or an error.                                     *)
RecvEnds ==
  /\ pump = "recv"
  /\ done' = TRUE
  /\ PumpAt("select")
  /\ UNCHANGED <<fifoVars, amount, received>>

WriteComplete ==
  /\ pump = "complete"
  /\ CommitOut(amount)
  /\ amount' = 0
  /\ PumpAt("start")
  /\ UNCHANGED <<done, received>>

-----------------------------------------------------------------------------
(* The block's thread.                                                     *)

BlockAt(place) == blk' = place /\ UNCHANGED <<pumpVars>>

(* work is called for n samples, at most as many as rBuf holds.            *)
Work(n) ==
  /\ blk = "idle"
  /\ want' = n /\ recv' = 0
  /\ tList' = <<>> /\ rBuf' = <<>>
  /\ BlockAt("loop")
  /\ UNCHANGED <<fifoVars, partial, packet, outVars>>

NeedsPacket == blk = "loop" /\ recv < want /\ partial = 0

Tag(header) == [offset |-> recv, packet |-> header]

(* WaitForReadyReceive, ReceiveStart, Init of the packet, and its tag.     *)
Peek ==
  /\ NeedsPacket /\ ~Empty
  /\ IF inBlk = NoBlk
     THEN TakeIn /\ packet' = buf[tail][0]
     ELSE UNCHANGED fifoVars /\ packet' = buf[inBlk][read[inBlk]]
  /\ tList' = Append(tList, Tag(packet'))
  /\ BlockAt("copy")
  /\ UNCHANGED <<want, recv, partial, rBuf, outVars>>

(* Mutant: as in SocketRxBuffer::Receive, done ends the loop as well.      *)
NothingComesOrDone == Empty \/ done

NothingComes == Empty

(* No packet in 500 ms: work returns -1, and GNU Radio does not call it    *)
(* again.                                                                  *)
WaitTimesOut ==
  /\ NeedsPacket /\ NothingComes
  /\ BlockAt("finished")
  /\ UNCHANGED <<fifoVars, workVars, outVars>>

(* Mutants: the release forgets the trailer; is of what was copied.        *)
ReleaseShort(amt) == CommitIn(PktSize - 1)
ReleaseCopied(amt) == CommitIn(amt + 1)

(* ReceiveComplete(pktSize), when the packet's last amt samples are taken. *)
Release(amt) == CommitIn(PktSize)

(* Mutant: partial==scount is not noticed.                                 *)
AdvancesOnly(amt, left) == partial' = partial + amt /\ UNCHANGED fifoVars

Advances(amt, left) ==
  \/ amt = left /\ partial' = 0 /\ Release(amt)
  \/ amt < left /\ partial' = partial + amt /\ UNCHANGED fifoVars

(* The memcpy from the packet at hand, which is still in the fifo's block. *)
Copy ==
  /\ \/ blk = "copy"
     \/ blk = "loop" /\ recv < want /\ partial > 0
  /\ LET left == Payload - partial
         amt == IF want - recv > left THEN left ELSE want - recv
         first == read[inBlk] + 1 + partial
     IN /\ rBuf' = rBuf \o [i \in 1 .. amt |-> buf[inBlk][first + i - 1]]
        /\ recv' = recv + amt
        /\ Advances(amt, left)
  /\ BlockAt("loop")
  /\ UNCHANGED <<want, packet, tList, outVars>>

(* Mutant: offsets in the stream are not those in the call.                *)
AddedRelative(skipped) ==
  {[at |-> tList[i].offset, packet |-> tList[i].packet] :
     i \in skipped + 1 .. Len(tList)}

(* The tags added by a work call, but for the first ones skipped.          *)
Added(skipped) ==
  {[at |-> nwritten + tList[i].offset, packet |-> tList[i].packet] :
     i \in skipped + 1 .. Len(tList)}

(* All that was asked for is there.  With useFracSec a tag needs the rate, *)
(* asked of the device for one tag after the other until it answers.       *)
WorkReturns ==
  /\ blk = "loop" /\ recv = want
  /\ \E skipped \in 0 .. Len(tList) :
       /\ ~useFracSec \/ rateKnown => skipped = 0
       /\ tags' = tags \cup Added(skipped)
       /\ rateKnown' = (rateKnown \/ (useFracSec /\ skipped < Len(tList)))
  /\ nwritten' = nwritten + want
  /\ want' = 0 /\ recv' = 0 /\ tList' = <<>> /\ rBuf' = <<>>
  /\ BlockAt("idle")
  /\ UNCHANGED <<fifoVars, partial, packet, useFracSec>>

(* Mutant: the pump is not told.                                           *)
DetachSilent ==
  /\ blk \in {"idle", "finished"}
  /\ blk' = "joining"
  /\ UNCHANGED <<fifoVars, pumpVars, workVars, outVars>>

(* stop, or when its StopRxData fails the deferred delete of the client,   *)
(* deletes the TcpRxSignalClient: Detach sets done and joins the pump.     *)
Detach ==
  /\ blk \in {"idle", "finished"}
  /\ done' = TRUE
  /\ blk' = "joining"
  /\ UNCHANGED <<fifoVars, pump, amount, received, workVars, outVars>>

Joined ==
  /\ blk = "joining" /\ pump = "ended"
  /\ BlockAt("stopped")
  /\ UNCHANGED <<fifoVars, workVars, outVars>>

-----------------------------------------------------------------------------
Pump ==
  \/ Select \/ PumpSeesDone
  \/ WriteStart
  \/ \E amt \in 1 .. BlkSize : Recv(amt)
  \/ RecvNothing \/ RecvEnds
  \/ WriteComplete

Working ==
  \/ \E n \in 1 .. MaxItems : Work(n)
  \/ Peek \/ WaitTimesOut \/ Copy \/ WorkReturns
  \/ Joined

Next == Pump \/ Working \/ Detach
Spec == Init /\ [][Next]_vars

(* Both threads are scheduled, and GNU Radio goes on calling work; nobody  *)
(* has to stop the block.                                                  *)
FairSpec == Spec /\ WF_vars(Pump) /\ WF_vars(Working)

-----------------------------------------------------------------------------
(* Every variable has its type.                                            *)
TypeOK ==
  /\ FifoTypeOK
  /\ pump \in {"select", "start", "recv", "complete", "ended"}
  /\ done \in BOOLEAN /\ amount \in 0 .. BlkSize /\ received \in 0 .. MaxUnits
  /\ blk \in {"idle", "loop", "copy", "finished", "joining", "stopped"}
  /\ want \in 0 .. MaxItems /\ recv \in 0 .. want
  /\ partial \in 0 .. Payload - 1 /\ packet \in 0 .. MaxUnits
  /\ tList \in Seq([offset : 0 .. MaxItems, packet : 0 .. MaxUnits])
  /\ rBuf \in Seq(0 .. MaxUnits)
  /\ nwritten \in 0 .. MaxUnits
  /\ useFracSec \in BOOLEAN /\ rateKnown \in BOOLEAN
  /\ tags \subseteq [at : 0 .. MaxUnits, packet : 0 .. MaxUnits]

(* However TCP cuts the stream, ReceiveStart points at the beginning of a  *)
(* packet, and at whole packets (the assertion at TcpRxSignalClient.cpp:   *)
(* 103, and the "Invalid packet!" warning after it).                       *)
PacketsAligned ==
  blk = "copy" =>
    /\ packet % PktSize = 0
    /\ len[inBlk] > read[inBlk]
    /\ (len[inBlk] - read[inBlk]) % PktSize = 0

(* The samples a work call has are the next ones of the device's stream,   *)
(* across packets, blocks and calls that end inside a packet.              *)
SamplesInOrder ==
  \A i \in 1 .. Len(rBuf) : rBuf[i] = SampleAt(nwritten + i - 1)

(* Packets that have given a sample to the output.                         *)
Begun == (nwritten + Payload - 1) \div Payload

(* The output has one tag per packet, at the packet's first sample in the  *)
(* whole stream; with useFracSec those before the rate was known miss.     *)
TagsExact ==
  \E first \in 0 .. Begun :
    /\ tags = {[at |-> k * Payload, packet |-> k * PktSize] : k \in first .. Begun - 1}
    /\ ~useFracSec => first = 0

(* Of a stream that has ended, less than one fifo block is never looked    *)
(* at: what was handed over is used before work gives up.                  *)
LittleIsLost ==
  [][blk' = "finished" /\ blk # "finished" /\ pump = "ended"
       => received - ((nwritten + recv) \div Payload) * PktSize < BlkSize]_vars

(* Units of the blocks handed over.                                        *)
Published == IF outBlk = NoBlk THEN received - amount ELSE received - amount - len[outBlk]

(* A packet handed over is put out, unless work gives up or is stopped.    *)
PacketsComeOut ==
  \A k \in 1 .. MaxUnits \div PktSize :
    Published >= k * PktSize
      ~> nwritten + recv >= k * Payload \/ blk \in {"finished", "joining", "stopped"}

(* stop returns: the pump ends wherever it is when done is set.            *)
StopReturns == blk = "joining" ~> blk = "stopped"
=============================================================================
