------------------------------- MODULE TxPath -------------------------------
(***************************************************************************)
(* The transmit path: avs4000tx_impl::work (lib/avs4000tx_impl.cc) hands   *)
(* samples to TcpTxSignalClient::Send (lib/TcpTxSignalClient.cpp), which   *)
(* packs them, in place, into packets in the blocks of a BlockFifo; the    *)
(* pump of a SocketTxBuffer (lib/SocketTxBuffer.cpp) writes the blocks to  *)
(* a socket, in pieces of whatever size the socket takes.                  *)
(*                                                                         *)
(* Two threads: the GNU Radio block's own, which calls work and then stop, *)
(* and the pump.  As in RxPath, a call of the fifo is one step.            *)
(*                                                                         *)
(* A packet is PktSize units: a header, that stands for its count, and one *)
(* unit per sample, that stands for the sample's position in the block's   *)
(* input (the trailer goes with the last).                                 *)
(***************************************************************************)
EXTENDS BlockFifo, Sequences

CONSTANTS
  PktSize,      \* pktSize: units of a packet
  FieldMod,     \* values of the header's count: 2^4 (pktCount), 2^12 (frameCount)
  VarMod,       \* values of its variable: 2^8 (nextPacketCount), 2^16
  MaxRetry,     \* calls that may send nothing: 20
  MaxSamples,   \* bound: samples of the input while the pump runs
  MaxLost,      \* bound: more of them when it has ended; with the fifo full
                \* it is enough for work to give up
  MaxItems,     \* bound: samples of one work call
  MaxSessions   \* bound: times the block is started

ASSUME PktSizeAssumption == PktSize \in Nat /\ PktSize >= 2 /\ PktSize <= BlkSize
ASSUME ModAssumption ==
  FieldMod \in Nat \ {0} /\ VarMod \in Nat \ {0} /\ VarMod % FieldMod = 0
ASSUME BoundsAssumption ==
  /\ MaxRetry \in Nat /\ MaxSamples \in Nat /\ MaxLost \in Nat
  /\ MaxItems \in Nat \ {0} /\ MaxSessions \in Nat \ {0}

VARIABLES
  blk,          \* where the block's thread is
  want, sent,   \* samples given and sent in this work call
  plen,         \* samples in the packet at hand
  nextCount,    \* nextPacketCount, nextFrameCount
  txRetry,      \* work calls that sent nothing since one that sent all
  consumed,     \* history: samples of the work calls before
  accepted,     \* history: the samples Send has taken, in order
  session,      \* history: times the block has been started
  empties,      \* history: of this session, calls as txRetry counts them
  carried,      \* history: what txRetry has from the sessions before
  pump,         \* where the pump is
  done,         \* done: the pump is to end, or cannot send any more
  wire          \* history: the units the socket has taken

retryVars == <<txRetry, empties, carried>>
workVars == <<want, sent, plen, nextCount, retryVars, consumed, accepted>>
pumpVars == <<pump, done, wire>>
vars == <<fifoVars, blk, workVars, pumpVars, session>>

Payload == PktSize - 1      \* SamplesLen()
HeaderUnit(c) == c
SampleUnit(k) == FieldMod + k

(* TcpTxSignalClient's constructor has connected and attached the buffer,  *)
(* or has not connected: then no pump runs, and IsConnected is still true. *)
Init ==
  /\ FifoInit
  /\ blk = "idle" /\ want = 0 /\ sent = 0 /\ plen = 0
  /\ nextCount = 0 /\ txRetry = 0 /\ consumed = 0 /\ accepted = <<>>
  /\ pump \in {"select", "ended"} /\ done = FALSE /\ wire = <<>>
  /\ session = 1 /\ empties = 0 /\ carried = 0

-----------------------------------------------------------------------------
(* The block's thread.                                                     *)

BlockAt(place) == blk' = place /\ UNCHANGED <<pumpVars, session>>

(* work is called with n samples, at most as many as tBuf holds.           *)
Work(n) ==
  /\ blk = "idle"
  /\ consumed + n <= MaxSamples + (IF pump = "ended" THEN MaxLost ELSE 0)
  /\ want' = n /\ sent' = 0
  /\ BlockAt("loop")
  /\ UNCHANGED <<fifoVars, plen, nextCount, retryVars, consumed, accepted>>

NeedsPacket == blk = "loop" /\ sent < want /\ plen = 0

(* Mutant: calls that send nothing are not counted.                        *)
GivesUpNever == FALSE

GivesUp == sent = 0 /\ txRetry >= MaxRetry

(* Send ends early: work has used all its samples all the same, or returns *)
(* -1, and GNU Radio does not call it again.                               *)
ReturnsShort ==
  /\ IF sent = 0 THEN txRetry' = txRetry + 1 /\ empties' = empties + 1
                 ELSE UNCHANGED <<txRetry, empties>>
  /\ IF GivesUp THEN BlockAt("finished") /\ UNCHANGED consumed
     ELSE BlockAt("idle") /\ consumed' = consumed + want
  /\ want' = 0 /\ sent' = 0
  /\ UNCHANGED <<fifoVars, plen, nextCount, carried, accepted>>

(* WaitForReadySend: a free block, or none in 500 ms.                      *)
WaitForReadySend ==
  /\ NeedsPacket
  /\ \/ ~Full /\ BlockAt("start") /\ UNCHANGED <<fifoVars, workVars>>
     \/ Full /\ ReturnsShort

(* SendStart.  A block with no room for a packet is closed by a            *)
(* SendComplete(0); with 32 KB blocks and 8 KB packets there is none.      *)
SendStart ==
  /\ blk = "start"
  /\ \/ outBlk = NoBlk /\ TakeOut /\ BlockAt("attach")
     \/ outBlk # NoBlk /\ BlkSize - len[outBlk] >= PktSize
        /\ UNCHANGED fifoVars /\ BlockAt("attach")
     \/ outBlk # NoBlk /\ BlkSize - len[outBlk] < PktSize
        /\ CommitOut(0) /\ BlockAt("restart")
  /\ UNCHANGED workVars

(* SendStart after that: it waits no more.                                 *)
SendRestart ==
  /\ blk = "restart"
  /\ \/ ~Full /\ TakeOut /\ BlockAt("attach") /\ UNCHANGED workVars
     \/ Full /\ ReturnsShort

PutCell(i, unit) == buf' = [buf EXCEPT ![outBlk][i] = unit]

(* Mutant: the count goes on only when its field is full.                  *)
NextCountStays == nextCount

NextCount == (nextCount + 1) % VarMod

(* V49Packet::Attach writes the header into the block.                     *)
Attach ==
  /\ blk = "attach"
  /\ PutCell(len[outBlk], HeaderUnit(nextCount % FieldMod))
  /\ nextCount' = NextCount
  /\ BlockAt("copy")
  /\ UNCHANGED <<head, tail, count, len, read, outBlk, inBlk,
                 want, sent, plen, retryVars, consumed, accepted>>

(* The memcpy of samples into the packet at hand.                          *)
Copy ==
  /\ \/ blk = "copy"
     \/ blk = "loop" /\ sent < want /\ plen > 0
  /\ LET left == Payload - plen
         amt == IF want - sent > left THEN left ELSE want - sent
         first == len[outBlk] + 1 + plen
         new == [i \in 1 .. amt |-> consumed + sent + i - 1]
     IN /\ buf' = [buf EXCEPT ![outBlk] =
                     [i \in Cells |-> IF i \in first .. first + amt - 1
                                      THEN SampleUnit(new[i - first + 1]) ELSE @[i]]]
        /\ plen' = plen + amt
        /\ sent' = sent + amt
        /\ accepted' = accepted \o new
  /\ BlockAt(IF plen' = Payload THEN "complete" ELSE "loop")
  /\ UNCHANGED <<head, tail, count, len, read, outBlk, inBlk,
                 want, nextCount, retryVars, consumed>>

(* SendComplete(pktSize): the packet is full.                              *)
SendComplete ==
  /\ blk = "complete"
  /\ CommitOut(PktSize)
  /\ plen' = 0
  /\ BlockAt("loop")
  /\ UNCHANGED <<want, sent, nextCount, retryVars, consumed, accepted>>

(* Mutant: txRetry is not reset by a call that sends all.                  *)
RetryStays == txRetry

RetryReset == 0

(* Send has taken everything.                                              *)
WorkReturns ==
  /\ blk = "loop" /\ sent = want
  /\ txRetry' = RetryReset /\ empties' = 0 /\ carried' = 0
  /\ consumed' = consumed + want
  /\ want' = 0 /\ sent' = 0
  /\ BlockAt("idle")
  /\ UNCHANGED <<fifoVars, plen, nextCount, accepted>>

(* Mutant: the pump is not told.                                           *)
StopSilent ==
  /\ blk \in {"idle", "finished"}
  /\ blk' = "joining"
  /\ UNCHANGED <<fifoVars, workVars, pumpVars, session>>

(* stop: StopTxData, then DisconnectTx deletes the TcpTxSignalClient, and  *)
(* Detach sets done and joins the pump.                                    *)
Stop ==
  /\ blk \in {"idle", "finished"}
  /\ done' = TRUE
  /\ blk' = "joining"
  /\ UNCHANGED <<fifoVars, workVars, pump, wire, session>>

Joined ==
  /\ blk = "joining" /\ pump = "ended"
  /\ BlockAt("stopped")
  /\ UNCHANGED <<fifoVars, workVars>>

(* stop when StopTxData fails: DisconnectTx is not called, and the client, *)
(* deleted later, does not delete txSig.  The pump goes on.                *)
StopFails ==
  /\ blk \in {"idle", "finished"}
  /\ BlockAt("stopped")
  /\ UNCHANGED <<fifoVars, workVars>>

(* start, once the flow graph has been stopped: ConnectTxTcp makes a new   *)
(* TcpTxSignalClient, with a fifo and a pump of its own; txRetry is the    *)
(* block's, and stays.  A pump that a failed stop left is not followed.    *)
Start ==
  /\ blk = "stopped" /\ session < MaxSessions
  /\ session' = session + 1
  /\ head' = 0 /\ tail' = 0 /\ count' = 0 /\ outBlk' = NoBlk /\ inBlk' = NoBlk
  /\ len' = [b \in Slots |-> 0] /\ read' = [b \in Slots |-> 0]
  /\ buf' = [b \in Slots |-> [i \in Cells |-> 0]]
  /\ blk' = "idle" /\ want' = 0 /\ sent' = 0 /\ plen' = 0
  /\ nextCount' = 0 /\ consumed' = 0 /\ accepted' = <<>>
  /\ pump' \in {"select", "ended"} /\ done' = FALSE /\ wire' = <<>>
  /\ carried' = txRetry /\ empties' = 0 /\ UNCHANGED txRetry

-----------------------------------------------------------------------------
(* The pump.                                                               *)

PumpAt(place) == pump' = place /\ UNCHANGED <<blk, workVars, session>>

(* select says the socket is writable.                                     *)
Select ==
  /\ pump = "select" /\ ~done
  /\ PumpAt("start")
  /\ UNCHANGED <<fifoVars, done, wire>>

(* WriteData's loop, which goes on while there is nothing to send, is left *)
(* when done is set, and Pump's too.                                       *)
PumpSeesDone ==
  /\ done
  /\ \/ pump = "start" /\ PumpAt("select")
     \/ pump = "select" /\ PumpAt("ended")
  /\ UNCHANGED <<fifoVars, done, wire>>

ReadStart ==
  /\ pump = "start" /\ ~done
  /\ \/ inBlk # NoBlk /\ UNCHANGED fifoVars
     \/ inBlk = NoBlk /\ ~Empty /\ TakeIn
  /\ PumpAt("send")
  /\ UNCHANGED <<done, wire>>

(* Mutant: a piece the socket has taken is not released.                   *)
SentKeeps(amt) == CommitIn(0)

Sent(amt) == CommitIn(amt)

(* send takes amt units.                                                   *)
Send(amt) ==
  /\ pump = "send"
  /\ amt <= len[inBlk] - read[inBlk]
  /\ wire' = wire \o [i \in 1 .. amt |-> buf[inBlk][read[inBlk] + i - 1]]
  /\ Sent(amt)
  /\ PumpAt("select")
  /\ UNCHANGED done

(* EAGAIN: once more, unless done is set.                                  *)
SendNothing ==
  /\ pump = "send"
  /\ PumpAt("start")
  /\ UNCHANGED <<fifoVars, done, wire>>

(* An error.                                                               *)
SendEnds ==
  /\ pump = "send"
  /\ done' = TRUE
  /\ PumpAt("select")
  /\ UNCHANGED <<fifoVars, wire>>

-----------------------------------------------------------------------------
Working ==
  \/ \E n \in 1 .. MaxItems : Work(n)
  \/ WaitForReadySend \/ SendStart \/ SendRestart
  \/ Attach \/ Copy \/ SendComplete \/ WorkReturns
  \/ Joined

Pump ==
  \/ Select \/ PumpSeesDone \/ ReadStart
  \/ \E amt \in 1 .. BlkSize : Send(amt)
  \/ SendNothing \/ SendEnds

Next == Working \/ Stop \/ StopFails \/ Start \/ Pump
Spec == Init /\ [][Next]_vars

(* Both threads are scheduled, GNU Radio goes on calling work, and the     *)
(* socket does not answer EAGAIN for ever.  Nobody has to stop the block.  *)
FairSpec ==
  /\ Spec
  /\ WF_vars(Pump) /\ WF_vars(Working)
  /\ SF_vars(\E amt \in 1 .. BlkSize : Send(amt))

-----------------------------------------------------------------------------
IsHeader(i) == (i - 1) % PktSize = 0
WireSamples ==
  LET n == Len(wire) - (Len(wire) + Payload) \div PktSize
  IN [k \in 1 .. n |-> wire[k + (k + Payload - 1) \div Payload]]

(* What the device reads is packets, none cut short or padded, that count  *)
(* on without a gap over the wrap of the header's field, whatever was      *)
(* dropped before they were packed.                                        *)
WireIsPackets ==
  \A i \in DOMAIN wire :
    IF IsHeader(i) THEN wire[i] = ((i - 1) \div PktSize) % FieldMod
                   ELSE wire[i] >= FieldMod

(* Their samples are those Send has taken, in order, each once; samples    *)
(* packed by several work calls into one packet included.                  *)
WireIsAccepted ==
  LET on == WireSamples
  IN /\ Len(on) <= Len(accepted)
     /\ \A k \in DOMAIN on : on[k] = SampleUnit(accepted[k])

(* work gives up only for calls in a row, with none between them that sent *)
(* all, that sent nothing, more than MaxRetry of them; but those before    *)
(* the last start count too, so that after a session that ended so the     *)
(* first empty call of the next, with a socket only slow, ends that one.   *)
EndsForCause ==
  blk = "finished" => /\ empties > 0
                      /\ empties > MaxRetry - carried
                      /\ session = 1 => empties = MaxRetry + 1

(* A full packet goes out, unless the socket fails or the block is         *)
(* stopped or started anew; one that is not the last of its block waits    *)
(* for the others.                                                         *)
Published == IF outBlk = NoBlk THEN Len(accepted) - plen ELSE 0
PacketsGoOut ==
  \A n \in 1 .. MaxSamples, s \in 1 .. MaxSessions :
    Published >= n /\ session = s
      ~> Len(WireSamples) >= n \/ done \/ pump = "ended" \/ session > s

(* A connection that has failed, or that there never was, is noticed:      *)
(* after some calls whose samples are lost, work returns -1.               *)
FailureIsNoticed ==
  pump = "ended" ~> blk \in {"finished", "joining", "stopped"}

(* stop returns: the pump ends wherever it is when done is set.            *)
StopReturns == blk = "joining" ~> blk = "stopped"
=============================================================================
