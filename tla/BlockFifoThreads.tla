-------------------------- MODULE BlockFifoThreads --------------------------
(***************************************************************************)
(* A BlockFifo between the two threads that share one: the producer "P"    *)
(* (SocketRxBuffer::Pump, or the caller of TcpTxSignalClient::Send) and    *)
(* the consumer "C" (the caller of TcpRxSignalClient::ReceiveSamples, or   *)
(* SocketTxBuffer::Pump).  One action per stretch of code between two      *)
(* points where the other thread may run: what WriteStart and ReadStart    *)
(* test before they lock, each section under the mutex, the wait on a      *)
(* condition variable, and the copy into or out of a block, which both     *)
(* threads do with the mutex free.                                         *)
(***************************************************************************)
EXTENDS BlockFifo

CONSTANT MaxUnits   \* bound: units the producer writes

ASSUME MaxUnitsAssumption == MaxUnits \in Nat

VARIABLES
  pc,         \* where each thread is
  asleep,     \* threads waiting on their condition variable and not notified
  probing,    \* threads whose wait is a WaitForReady... call of its own
  ready,      \* threads whose WaitForReady... said yes to the call that follows
  wp, rp,     \* the pointer and amounts P, C hold between two calls
  sent,       \* history: units handed to WriteComplete
  taken       \* history: units handed to ReadComplete

threadVars == <<pc, asleep, probing, ready, wp, rp, sent, taken>>
vars == <<fifoVars, threadVars>>

Threads == {"P", "C"}
NoPtr == [blk |-> NoBlk, off |-> 0, max |-> 0, amt |-> 0]
Ptr(b, off, max) == [blk |-> b, off |-> off, max |-> max, amt |-> 0]

Held(t) == IF t = "P" THEN outBlk ELSE inBlk
Available(t) == IF t = "P" THEN ~Full ELSE ~Empty
Goto(t, place) == pc' = [pc EXCEPT ![t] = place]

(* Mutant: nobody is told.                                                 *)
NotifyNobody(t, change) == asleep' = asleep

(* notify_one on the condition variable of t, when there was a change.     *)
Notify(t, change) == asleep' = IF change THEN asleep \ {t} ELSE asleep

Init ==
  /\ FifoInit
  /\ pc = [t \in Threads |-> "idle"]
  /\ asleep = {} /\ probing = {} /\ ready = {}
  /\ wp = NoPtr /\ rp = NoPtr
  /\ sent = 0 /\ taken = 0

-----------------------------------------------------------------------------
(* WaitNotFull and WaitNotEmpty.                                           *)

(* WaitForReadySend, WaitForReadyReceive: a wait whose answer is kept for  *)
(* the SendStart or ReceiveStart that follows it.                          *)
WaitForReady(t) ==
  /\ pc[t] = "idle" /\ t \notin ready
  /\ Goto(t, "wait")
  /\ probing' = probing \cup {t}
  /\ UNCHANGED <<fifoVars, asleep, ready, wp, rp, sent, taken>>

(* The wait returns ok: to the caller, or to the rest of WriteStart or     *)
(* ReadStart, which returns nullptr when the answer is no.                 *)
WaitReturns(t, ok) ==
  /\ Goto(t, IF ok /\ t \notin probing THEN "take" ELSE "idle")
  /\ ready' = IF ok /\ t \in probing THEN ready \cup {t} ELSE ready \ {t}
  /\ probing' = probing \ {t}
  /\ asleep' = asleep \ {t}
  /\ UNCHANGED <<fifoVars, wp, rp, sent, taken>>

(* The first test under the lock.  A call after a WaitForReady has a       *)
(* timeout of 0 (SocketRxBuffer.h:37, SocketTxBuffer.h:39) and never       *)
(* sleeps; every other one waits for 100, 500 or 1000 ms.                  *)
WaitBegins(t) ==
  /\ pc[t] = "wait"
  /\ \/ /\ Available(t) \/ t \in ready
        /\ WaitReturns(t, Available(t))
     \/ /\ ~Available(t) /\ t \notin ready
        /\ Goto(t, "waiting")
        /\ asleep' = asleep \cup {t}
        /\ UNCHANGED <<fifoVars, probing, ready, wp, rp, sent, taken>>

(* wait_for returns no_timeout, notified or spuriously: test again.        *)
WaitWakes(t) ==
  /\ pc[t] = "waiting"
  /\ \/ Available(t) /\ WaitReturns(t, TRUE)
     \/ /\ ~Available(t) /\ t \notin asleep
        /\ asleep' = asleep \cup {t}
        /\ UNCHANGED <<fifoVars, pc, probing, ready, wp, rp, sent, taken>>

(* Mutant: the condition is not tested again after a timeout.              *)
WaitTimesOutYes(t) ==
  /\ pc[t] = "waiting"
  /\ WaitReturns(t, TRUE)

(* wait_for returns timeout: the answer is what holds by then.             *)
WaitTimesOut(t) ==
  /\ pc[t] = "waiting"
  /\ WaitReturns(t, Available(t))

(* WriteStart and ReadStart test, before they lock, whether a block is in  *)
(* hand.                                                                   *)
Start(t) ==
  /\ pc[t] = "idle"
  /\ \/ Held(t) # NoBlk /\ Goto(t, "resume") /\ ready' = ready \ {t}
     \/ Held(t) = NoBlk /\ Goto(t, "wait") /\ UNCHANGED ready
  /\ UNCHANGED <<fifoVars, asleep, probing, wp, rp, sent, taken>>

-----------------------------------------------------------------------------
(* The producer.                                                           *)

(* WriteStart goes on with the block in hand.                              *)
WriteResume ==
  /\ pc["P"] = "resume" /\ outBlk # NoBlk
  /\ wp' = Ptr(outBlk, len[outBlk], BlkSize - len[outBlk])
  /\ Goto("P", "copy")
  /\ UNCHANGED <<fifoVars, asleep, probing, ready, rp, sent, taken>>

(* WriteStart takes the block at head.                                     *)
WriteTake ==
  /\ pc["P"] = "take"
  /\ TakeOut
  /\ wp' = Ptr(head, 0, BlkSize)
  /\ Goto("P", "copy")
  /\ UNCHANGED <<asleep, probing, ready, rp, sent, taken>>

(* recv, or the memcpy of Send, writes amt units where WriteStart pointed. *)
(* An amount of 0 closes a block that has something in it but no room for  *)
(* the next packet (TcpTxSignalClient.cpp:117).                            *)
Fill(amt) ==
  /\ pc["P"] = "copy"
  /\ amt \in 0 .. wp.max /\ sent + amt <= MaxUnits
  /\ amt = 0 => wp.off > 0
  /\ buf' = [buf EXCEPT ![wp.blk] =
               [i \in Cells |-> IF i \in wp.off .. wp.off + amt - 1
                                THEN sent + (i - wp.off) ELSE @[i]]]
  /\ wp' = [wp EXCEPT !.amt = amt]
  /\ Goto("P", "complete")
  /\ UNCHANGED <<head, tail, count, len, read, outBlk, inBlk,
                 asleep, probing, ready, rp, sent, taken>>

(* recv has nothing (EAGAIN): the block stays in hand.                     *)
FillNothing ==
  /\ pc["P"] = "copy"
  /\ wp' = NoPtr
  /\ Goto("P", "idle")
  /\ UNCHANGED <<fifoVars, asleep, probing, ready, rp, sent, taken>>

(* WriteComplete(amt); handing a block over notifies the consumer.         *)
WriteComplete ==
  /\ pc["P"] = "complete"
  /\ CommitOut(wp.amt)
  /\ Notify("C", Closes(wp.amt))
  /\ sent' = sent + wp.amt
  /\ wp' = NoPtr
  /\ Goto("P", "idle")
  /\ UNCHANGED <<probing, ready, rp, taken>>

-----------------------------------------------------------------------------
(* The consumer.                                                           *)

(* ReadStart goes on with the block in hand.                               *)
ReadResume ==
  /\ pc["C"] = "resume" /\ inBlk # NoBlk
  /\ rp' = Ptr(inBlk, read[inBlk], len[inBlk] - read[inBlk])
  /\ Goto("C", "copy")
  /\ UNCHANGED <<fifoVars, asleep, probing, ready, wp, sent, taken>>

(* ReadStart takes the block at tail.                                      *)
ReadTake ==
  /\ pc["C"] = "take"
  /\ TakeIn
  /\ rp' = Ptr(tail, 0, len[tail])
  /\ Goto("C", "copy")
  /\ UNCHANGED <<asleep, probing, ready, wp, sent, taken>>

(* send, or the memcpy of Receive, takes amt units from where ReadStart    *)
(* pointed.                                                                *)
Drain(amt) ==
  /\ pc["C"] = "copy"
  /\ amt \in 1 .. rp.max
  /\ rp' = [rp EXCEPT !.amt = amt]
  /\ Goto("C", "complete")
  /\ UNCHANGED <<fifoVars, asleep, probing, ready, wp, sent, taken>>

(* send takes nothing (EAGAIN): the block stays in hand.                   *)
DrainNothing ==
  /\ pc["C"] = "copy"
  /\ rp' = NoPtr
  /\ Goto("C", "idle")
  /\ UNCHANGED <<fifoVars, asleep, probing, ready, wp, sent, taken>>

(* ReadComplete(amt); releasing a block notifies the producer.             *)
ReadComplete ==
  /\ pc["C"] = "complete"
  /\ CommitIn(rp.amt)
  /\ Notify("P", Drains(rp.amt))
  /\ taken' = taken + rp.amt
  /\ rp' = NoPtr
  /\ Goto("C", "idle")
  /\ UNCHANGED <<probing, ready, wp, sent>>

-----------------------------------------------------------------------------
Wait(t) ==
  \/ WaitForReady(t)
  \/ WaitBegins(t)
  \/ WaitWakes(t)
  \/ WaitTimesOut(t)
  \/ Start(t)

Producer ==
  \/ Wait("P")
  \/ WriteResume
  \/ WriteTake
  \/ \E amt \in 0 .. BlkSize : Fill(amt)
  \/ FillNothing
  \/ WriteComplete

Consumer ==
  \/ Wait("C")
  \/ ReadResume
  \/ ReadTake
  \/ \E amt \in 1 .. BlkSize : Drain(amt)
  \/ DrainNothing
  \/ ReadComplete

Next == Producer \/ Consumer
Spec == Init /\ [][Next]_vars

(* Each thread is scheduled, and the socket or the application behind it   *)
(* does not answer EAGAIN for ever.                                        *)
Fairness ==
  /\ WF_vars(Producer) /\ WF_vars(Consumer)
  /\ SF_vars(\E amt \in 1 .. BlkSize : Fill(amt))
  /\ SF_vars(\E amt \in 1 .. BlkSize : Drain(amt))
FairSpec == Spec /\ Fairness

-----------------------------------------------------------------------------
Places == {"idle", "wait", "waiting", "take", "resume", "copy", "complete"}
Ptrs == [blk : Slots \cup {NoBlk}, off : 0 .. BlkSize, max : 0 .. BlkSize,
         amt : 0 .. BlkSize]

(* Every variable has its type.                                            *)
TypeOK ==
  /\ FifoTypeOK
  /\ pc \in [Threads -> Places]
  /\ asleep \subseteq Threads
  /\ probing \subseteq Threads
  /\ ready \subseteq Threads
  /\ wp \in Ptrs /\ rp \in Ptrs
  /\ sent \in Nat /\ taken \in Nat

(* The units of the blocks handed over: all but those of the block the     *)
(* producer still has in hand.                                             *)
Published == IF outBlk = NoBlk THEN sent ELSE sent - len[outBlk]

(* Both threads copy with the mutex free: the block one writes is never    *)
(* the block the other reads.                                              *)
Exclusive ==
  pc["P"] \in {"copy", "complete"} /\ pc["C"] \in {"copy", "complete"}
    => wp.blk # rp.blk

(* What the consumer is pointed at is exactly the next units of the        *)
(* stream: nothing lost, repeated, reordered or overwritten.               *)
InOrder ==
  pc["C"] \in {"copy", "complete"}
    => /\ rp.max > 0
       /\ \A i \in 0 .. rp.max - 1 : buf[rp.blk][rp.off + i] = taken + i

(* The assertions of ReadStart and ReadComplete (BlockFifo.cpp:182, 187,   *)
(* 199, 201): whenever the consumer gets to one, a block is handed over,   *)
(* and no more is released than was there.                                 *)
ReadAsserts ==
  /\ pc["C"] \in {"resume", "take", "complete"} => count > 0
  /\ pc["C"] = "complete" => /\ inBlk # NoBlk
                             /\ read[inBlk] + rp.amt <= len[inBlk]

(* The assertions of WriteComplete (BlockFifo.cpp:158, 160), and no        *)
(* "outBlk==NULL" warning: the amount fits the block in hand.              *)
WriteAsserts ==
  /\ pc["P"] = "resume" => outBlk # NoBlk /\ len[outBlk] < BlkSize
  /\ pc["P"] = "complete" => /\ outBlk # NoBlk
                             /\ len[outBlk] + wp.amt <= BlkSize

(* None of the fifo's assertions fails.                                    *)
AssertsNeverFail == ReadAsserts /\ WriteAsserts

(* A yes of WaitForReadySend or WaitForReadyReceive still holds when the   *)
(* caller, which does not check for nullptr again (TcpRxSignalClient.cpp:  *)
(* 104, TcpTxSignalClient.cpp:116), starts.                                *)
ReadyHolds == \A t \in ready : Available(t)

(* No lost wake-up: a thread asleep without a notification under way has   *)
(* nothing to wake up for.                                                 *)
NoLostWakeup == \A t \in asleep : ~Available(t)
=============================================================================
