----------------------------- MODULE JsonClient -----------------------------
(***************************************************************************)
(* class TcpJSONClient (lib/TcpJSONClient.cpp): remote calls to the        *)
(* device, one at a time, over a TCP connection that a worker thread owns. *)
(*                                                                         *)
(* A caller's Call takes the mutex, posts the request to the worker and    *)
(* runs an event loop until a response is there or 15 s have passed.  A    *)
(* Call that finds the mutex taken does not wait: it posts its request as  *)
(* a busy request, which the worker keeps and sends by a Call of its own   *)
(* when a 5 ms timer expires, and returns true.                            *)
(*                                                                         *)
(* The worker runs slots one after the other, and runs them also inside a  *)
(* slot that waits in a nested event loop: its own Call, and ReadAvailable *)
(* when only a part of a line has come.  frames is its stack of these.     *)
(*                                                                         *)
(* A request is its number in the order of the calls; an answer is the     *)
(* number of the request it answers.  The device (external) answers every  *)
(* request it gets, in order.                                              *)
(***************************************************************************)
EXTENDS Integers, Sequences, SequencesExt

CONSTANTS
  Callers,      \* the application's threads
  Worker,       \* the client's thread
  MaxCalls,     \* bound: calls the application makes
  MaxDrops,     \* bound: connections lost
  MaxParts      \* bound: lines that come in two parts

Nobody == "nobody"

ASSUME CallersAssumption == Worker \notin Callers /\ Nobody \notin Callers \cup {Worker}
ASSUME BoundsAssumption == MaxCalls \in Nat /\ MaxDrops \in Nat /\ MaxParts \in Nat

VARIABLES
  lock,         \* mutex: who holds it
  pc, req,      \* where each thread is in Call, and with which request
  posted,       \* slots posted to the worker's event queue
  busyReq, busyTimer,   \* the busy request kept, its timer running
  rsp,          \* the response last read
  woken,        \* threads whose loop got ResponseAvailable
  up,           \* the socket is valid
  toDev, fromDev,       \* requests, answers in the network or the device
  sockBuf, readyRead,   \* lines in the socket's buffer, signal pending
  frames, line, \* the worker's nested slots, the line it has a part of
  issued,       \* history: number of calls
  drops, parts, \* history: connections lost, lines that came in parts
  written,      \* history: requests written to a socket, in order
  result,       \* history: each thread's last result
  answered,     \* history: answers Calls have returned, in order
  late          \* history: a Call gave up while its answer was on the way,
                \* or ReadAvailable while a line was

vars == <<lock, pc, req, posted, busyReq, busyTimer, rsp, woken, up, toDev,
          fromDev, sockBuf, readyRead, frames, line, issued, drops, parts,
          written, result, answered, late>>

Threads == Callers \cup {Worker}
None == 0       \* no request, an invalid response
Junk == -1      \* the rest of a line whose beginning was given up
Requests == 1 .. MaxCalls

netVars == <<up, toDev, fromDev, sockBuf, readyRead, frames, line, drops, parts>>
busyVars == <<busyReq, busyTimer>>
endVars == <<result, answered, late>>

Init ==
  /\ lock = Nobody
  /\ pc = [t \in Threads |-> "idle"] /\ req = [t \in Threads |-> None]
  /\ posted = <<>>
  /\ busyReq = None /\ busyTimer = FALSE
  /\ rsp = None /\ woken = {}
  /\ up = TRUE /\ toDev = <<>> /\ fromDev = <<>>
  /\ sockBuf = <<>> /\ readyRead = FALSE
  /\ frames = <<>> /\ line = None
  /\ issued = 0 /\ drops = 0 /\ parts = 0
  /\ written = <<>> /\ answered = <<>> /\ late = FALSE
  /\ result = [t \in Threads |-> [req |-> None, ans |-> None]]

(* The socket takes the request if there is one; WriteREQ clears rsp.      *)
WriteREQ(r) ==
  /\ rsp' = None
  /\ toDev' = IF up THEN Append(toDev, r) ELSE toDev
  /\ written' = IF up THEN Append(written, r) ELSE written

-----------------------------------------------------------------------------
(* Call, of an application's thread.                                       *)

(* tryLock(0) would succeed.                                               *)
Free == lock = Nobody

CallLocks(c) ==
  /\ pc[c] = "idle" /\ issued < MaxCalls /\ Free
  /\ lock' = c
  /\ issued' = issued + 1
  /\ req' = [req EXCEPT ![c] = issued + 1]
  /\ pc' = [pc EXCEPT ![c] = "locked"]
  /\ UNCHANGED <<posted, busyVars, rsp, woken, netVars, written,
                 endVars>>

(* tryLock(0) fails: emit Busy, return true.                               *)
CallIsBusy(c) ==
  /\ pc[c] = "idle" /\ issued < MaxCalls /\ ~Free
  /\ issued' = issued + 1
  /\ posted' = Append(posted, [slot |-> "BusyREQ", req |-> issued + 1])
  /\ UNCHANGED <<lock, pc, req, busyVars, rsp, woken, netVars, written, endVars>>

(* The worker is in its event loop, or in one nested in a slot.            *)
Innermost == IF frames = <<>> THEN "loop" ELSE Last(frames)
InLoop == Innermost # "call" \/ pc[Worker] = "waiting"

Pending == busyReq # None

(* SendBusyReq has taken the busy request, and gives it back to BusyREQ.   *)
InHand == Pending /\ busyTimer /\ InLoop

(* A busy request that SendBusyReq has in hand is not there to clear.      *)
ClearBusy(c) ==
  /\ pc[c] = "locked"
  /\ busyReq' = None \/ (InHand /\ busyReq' = busyReq)
  /\ pc' = [pc EXCEPT ![c] = "cleared"]
  /\ UNCHANGED <<lock, req, posted, busyTimer, rsp, woken, netVars, issued,
                 written, endVars>>

(* Mutant: the last response is not cleared.                               *)
SendREQUncleared(c) ==
  /\ pc[c] = "cleared"
  /\ posted' = Append(posted, [slot |-> "WriteREQ", req |-> req[c]])
  /\ pc' = [pc EXCEPT ![c] = "sent"]
  /\ UNCHANGED <<lock, req, busyVars, rsp, woken, netVars, issued, written,
                 endVars>>

(* rsp.clear() and SendREQ, which posts Write to the worker.               *)
SendREQ(c) ==
  /\ pc[c] = "cleared"
  /\ rsp' = None
  /\ posted' = Append(posted, [slot |-> "WriteREQ", req |-> req[c]])
  /\ pc' = [pc EXCEPT ![c] = "sent"]
  /\ UNCHANGED <<lock, req, busyVars, woken, netVars, issued, written,
                 endVars>>

(* WaitForResponse connects its loop; a ResponseAvailable from before is   *)
(* not seen.                                                               *)
Listen(c) ==
  /\ pc[c] = "sent"
  /\ pc' = [pc EXCEPT ![c] = "waiting"]
  /\ UNCHANGED <<lock, req, posted, busyVars, rsp, woken, netVars, issued,
                 written, endVars>>

(* A request is on the way to the device, or its answer to rsp; a line may *)
(* stay in the socket's buffer until something else arrives.               *)
OnTheWay(r) ==
  \/ [slot |-> "WriteREQ", req |-> r] \in Range(posted)
  \/ r \in Range(sockBuf \o fromDev \o toDev) \cup {line}

(* The worker's Call goes on when its loop is the innermost one.           *)
Runs(t) == t = Worker => Innermost = "call"

(* Mutant: a Call without an answer returns early, the mutex locked.       *)
ReturnsLocked(t, ans) ==
  /\ result' = [result EXCEPT ![t] = [req |-> req[t], ans |-> ans]]
  /\ answered' = IF ans = None THEN answered ELSE Append(answered, ans)
  /\ lock' = IF ans = None THEN lock ELSE Nobody
  /\ pc' = [pc EXCEPT ![t] = "idle"]
  /\ req' = [req EXCEPT ![t] = None]
  /\ frames' = IF t = Worker THEN Front(frames) ELSE frames

(* Call ends with an answer, or None, and unlocks.                         *)
Returns(t, ans) ==
  /\ result' = [result EXCEPT ![t] = [req |-> req[t], ans |-> ans]]
  /\ answered' = IF ans = None THEN answered ELSE Append(answered, ans)
  /\ lock' = Nobody
  /\ pc' = [pc EXCEPT ![t] = "idle"]
  /\ req' = [req EXCEPT ![t] = None]
  /\ frames' = IF t = Worker THEN Front(frames) ELSE frames

(* The loop ends, by ResponseAvailable or after 15 s; is there a response? *)
LoopEnds(t) ==
  /\ pc[t] = "waiting" /\ Runs(t)
  /\ late' = (late \/ (t \notin woken /\ OnTheWay(req[t])))
  /\ \/ /\ rsp # None
        /\ pc' = [pc EXCEPT ![t] = "valid"]
        /\ UNCHANGED <<lock, req, result, answered, frames>>
     \/ rsp = None /\ Returns(t, None)
  /\ woken' = woken \ {t}
  /\ UNCHANGED <<posted, busyVars, rsp, up, toDev, fromDev, sockBuf, readyRead,
                 line, issued, drops, parts, written>>

(* Call takes the response apart, if it is still there.                    *)
ReadResponse(t) ==
  /\ pc[t] = "valid"
  /\ Returns(t, rsp)
  /\ UNCHANGED <<posted, busyVars, rsp, woken, up, toDev, fromDev, sockBuf,
                 readyRead, line, issued, drops, parts, written, late>>

-----------------------------------------------------------------------------
(* The worker's slots.                                                     *)

PostedIs(slot) == posted # <<>> /\ Head(posted).slot = slot /\ InLoop

WriteSlot ==
  /\ PostedIs("WriteREQ")
  /\ WriteREQ(Head(posted).req)
  /\ posted' = Tail(posted)
  /\ UNCHANGED <<lock, pc, req, busyVars, woken, up, fromDev, sockBuf, readyRead,
                 frames, line, issued, drops, parts, endVars>>

(* Mutant: the timer is not started.                                       *)
BusyREQNoTimer ==
  /\ PostedIs("BusyREQ")
  /\ busyReq' = Head(posted).req
  /\ posted' = Tail(posted)
  /\ UNCHANGED <<lock, pc, req, busyTimer, rsp, woken, netVars, issued,
                 written, endVars>>

BusyREQ ==
  /\ PostedIs("BusyREQ")
  /\ busyReq' = Head(posted).req
  /\ busyTimer' = TRUE
  /\ posted' = Tail(posted)
  /\ UNCHANGED <<lock, pc, req, rsp, woken, netVars, issued, written,
                 endVars>>

(* The timer expires: Call, with every step up to its loop in one slot.    *)
(* While the mutex is taken, Call gives the request straight back to       *)
(* BusyREQ, a direct call in this thread, which keeps it again and starts  *)
(* the timer again: nothing has changed but for a ClearBusy in between,    *)
(* which has found nothing (InHand).                                       *)
SendBusyReq ==
  /\ busyTimer /\ InLoop
  /\ busyTimer' = FALSE
  /\ busyReq' = None
  /\ \/ /\ Pending /\ Free
        /\ lock' = Worker
        /\ req' = [req EXCEPT ![Worker] = busyReq]
        /\ WriteREQ(busyReq)
        /\ pc' = [pc EXCEPT ![Worker] = "waiting"]
        /\ frames' = Append(frames, "call")
     \/ /\ ~Pending
        /\ UNCHANGED <<lock, req, rsp, toDev, written, pc, frames>>
  /\ UNCHANGED <<posted, woken, up, fromDev, sockBuf, readyRead, line, issued,
                 drops, parts, endVars>>

(* ReadAvailable has read the line l: a response, or not JSON at all.      *)
Parse(l) ==
  /\ rsp' = IF l = Junk THEN None ELSE l
  /\ woken' = IF l = Junk THEN woken
              ELSE woken \cup {t \in Threads : pc[t] = "waiting"}

ReadSlot == readyRead /\ InLoop /\ "read" \notin Range(frames)

(* ReadAvailable with a whole line: it takes that one and no more.         *)
ReadLine ==
  /\ ReadSlot
  /\ readyRead' = FALSE
  /\ sockBuf' = Tail(sockBuf)
  /\ Parse(Head(sockBuf))
  /\ UNCHANGED <<lock, pc, req, posted, busyVars, up, toDev, fromDev, frames,
                 line, issued, drops, parts, written, endVars>>

(* Only a part of the last line is there: nested loops until the rest is.  *)
ReadPart ==
  /\ ReadSlot /\ Len(sockBuf) = 1 /\ parts < MaxParts
  /\ parts' = parts + 1
  /\ readyRead' = FALSE
  /\ rsp' = None
  /\ line' = Head(sockBuf)
  /\ sockBuf' = <<>>
  /\ frames' = Append(frames, "read")
  /\ UNCHANGED <<lock, pc, req, posted, busyVars, woken, up, toDev, fromDev,
                 issued, drops, written, endVars>>

Reading == Innermost = "read"

(* The rest has come.  After a reconnection in between, what comes is the  *)
(* next line of the new connection, and the two together do not parse.     *)
ReadRest ==
  /\ Reading
  /\ \/ line # Junk /\ UNCHANGED sockBuf
     \/ line = Junk /\ sockBuf # <<>> /\ sockBuf' = Tail(sockBuf)
  /\ IF line = Junk THEN UNCHANGED <<rsp, woken>> ELSE Parse(line)
  /\ line' = None
  /\ frames' = Front(frames)
  /\ UNCHANGED <<lock, pc, req, posted, busyVars, up, toDev, fromDev, readyRead,
                 issued, drops, parts, written, endVars>>

(* Nothing has in 100 ms: what is there does not parse, nor will the rest. *)
ReadGivesUp ==
  /\ Reading /\ sockBuf = <<>>
  /\ fromDev' = IF line = Junk THEN fromDev ELSE <<Junk>> \o fromDev
  /\ line' = None
  /\ frames' = Front(frames)
  /\ late' = (late \/ line # Junk)
  /\ UNCHANGED <<lock, pc, req, posted, busyVars, rsp, woken, up, toDev, sockBuf,
                 readyRead, issued, drops, parts, written, result, answered>>

(* Disconnected: Uninit deletes the socket and the timer, Init makes new   *)
(* ones and connects within 5 s, or never.                                 *)
Disconnected ==
  /\ up /\ InLoop /\ drops < MaxDrops
  /\ drops' = drops + 1
  /\ up' \in BOOLEAN
  /\ busyTimer' = FALSE
  /\ toDev' = <<>> /\ fromDev' = <<>> /\ sockBuf' = <<>> /\ readyRead' = FALSE
  /\ line' = IF "read" \in Range(frames) THEN Junk ELSE None
  /\ UNCHANGED <<lock, pc, req, posted, busyReq, rsp, woken, frames, issued,
                 parts, written, endVars>>

-----------------------------------------------------------------------------
(* The device and the network (external).                                  *)

DeviceAnswers ==
  /\ toDev # <<>>
  /\ toDev' = Tail(toDev)
  /\ fromDev' = Append(fromDev, Head(toDev))
  /\ UNCHANGED <<lock, pc, req, posted, busyVars, rsp, woken, up, sockBuf,
                 readyRead, frames, line, issued, drops, parts,
                 written, endVars>>

(* n lines arrive together; readyRead is not emitted inside ReadAvailable. *)
Arrive(n) ==
  /\ n <= Len(fromDev)
  /\ sockBuf' = sockBuf \o SubSeq(fromDev, 1, n)
  /\ fromDev' = SubSeq(fromDev, n + 1, Len(fromDev))
  /\ readyRead' = (readyRead \/ "read" \notin Range(frames))
  /\ UNCHANGED <<lock, pc, req, posted, busyVars, rsp, woken, up, toDev, frames,
                 line, issued, drops, parts, written, endVars>>

-----------------------------------------------------------------------------
Caller(c) ==
  \/ CallLocks(c) \/ CallIsBusy(c)
  \/ ClearBusy(c) \/ SendREQ(c) \/ Listen(c)
  \/ LoopEnds(c) \/ ReadResponse(c)

WorkerSlot ==
  \/ WriteSlot \/ BusyREQ \/ SendBusyReq
  \/ ReadLine \/ ReadPart \/ ReadRest \/ ReadGivesUp
  \/ LoopEnds(Worker) \/ ReadResponse(Worker)

Network == DeviceAnswers \/ \E n \in 1 .. MaxCalls : Arrive(n)

Next == (\E c \in Callers : Caller(c)) \/ WorkerSlot \/ Network \/ Disconnected

Spec == Init /\ [][Next]_vars

(* Threads that are in a Call get on with it, and the worker's slots, the  *)
(* device and the network run.  Nobody has to call, or to lose anything.   *)
Fairness ==
  /\ \A c \in Callers :
       /\ WF_vars(ClearBusy(c)) /\ WF_vars(SendREQ(c)) /\ WF_vars(Listen(c))
       /\ WF_vars(LoopEnds(c)) /\ WF_vars(ReadResponse(c))
  /\ WF_vars(WriteSlot) /\ WF_vars(BusyREQ) /\ WF_vars(SendBusyReq)
  /\ WF_vars(ReadLine \/ ReadPart) /\ WF_vars(ReadRest \/ ReadGivesUp)
  /\ WF_vars(LoopEnds(Worker)) /\ WF_vars(ReadResponse(Worker))
  /\ WF_vars(Network)
FairSpec == Spec /\ Fairness

-----------------------------------------------------------------------------
(* A Call that returns an answer returns the answer to its own request     *)
(* (TcpJSONClient.cpp:347: rsp is cleared so that an old response does not *)
(* end the wait for the new one).                                          *)
AnswerIsOwn ==
  \A t \in Threads : result[t].ans \in {None, result[t].req}

RC == INSTANCE RemoteCall WITH
        holder <- lock,
        asking <- IF lock = Nobody THEN None ELSE req[lock],
        given <- answered

(* All of Call, with its mutex, its posted slots and its nested loops,     *)
(* does nothing that RemoteCall does not: there is one call at a time, no  *)
(* answer is given twice, and a call ends with its own answer or with      *)
(* none, until one was given up too early.                                 *)
SafeRemoteCall == RC!Safety

(* A call that has the mutex ends, whatever is lost, late or in parts, and *)
(* whatever slots run inside it; so JsonClient implements RC!Spec.         *)
CallsEnd == RC!Fairness

(* While the connection lasts, a busy request does not wait for ever: it   *)
(* goes out, or a later request takes its place.                           *)
BusyMovesOn == \A r \in Requests : busyReq = r ~> busyReq # r \/ drops > 0

(* "clears any pending busy request" (TcpJSONClient.cpp:345): once a Call  *)
(* has its request written, no request made before that Call goes out.     *)
NewestLast ==
  \A i, j \in DOMAIN written : i < j => written[i] < written[j]
=============================================================================
