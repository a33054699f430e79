---------------------------- MODULE DeviceSession ----------------------------
(***************************************************************************)
(* The control side of the blocks: start, stop and the setters of          *)
(* lib/avs4000rx_impl.cc and lib/avs4000tx_impl.cc, and the remote calls   *)
(* they make through an AVS4000Client (lib/avs4000client.cpp).             *)
(*                                                                         *)
(* Each block has a thread, which runs start, work and stop, and a client  *)
(* of its own while it runs; one more thread, the program's, calls the     *)
(* setters; the worker of each client sends the requests that have found   *)
(* it busy.  One block may be the master of the reference: the others      *)
(* wait for its update.                                                    *)
(*                                                                         *)
(* A remote call is what JsonClient's Call is when answers are prompt: it  *)
(* takes the client's mutex, and ends with an answer, or without one       *)
(* whether or not the device has acted; a call that finds the mutex taken  *)
(* leaves its request with the worker and is told yes.  A request is what  *)
(* the QVariantMap of the code is: a function from names to values.        *)
(***************************************************************************)
EXTENDS Integers

CONSTANTS
  RxBlocks, TxBlocks,
  Masters,      \* blocks whose refMaster is set
  Params,       \* parameters of a block that have a setter
  Tolerant,     \* those whose setter takes apiBusy for a yes: Freq, Gain
  ManualOnly,   \* those that start sends in the manual gain mode only: Gain
  Manual,       \* blocks whose gainMode is Manual
  MaxPolls,     \* times a wait asks again: 200
  MaxStarts,    \* bound: starts of each block
  MaxSets       \* bound: calls of setters

Blocks == RxBlocks \cup TxBlocks
None == "none"

ASSUME BlocksAssumption ==
  RxBlocks \cap TxBlocks = {} /\ Masters \subseteq Blocks /\ None \notin Blocks
ASSUME ParamsAssumption ==
  /\ Tolerant \subseteq Params /\ ManualOnly \subseteq Params /\ Manual \subseteq Blocks
  /\ Params \cap {"Run", "ConEnable", "TimeBase"} = {}
ASSUME BoundsAssumption == MaxPolls \in Nat /\ MaxStarts \in Nat /\ MaxSets \in Nat

VARIABLES
  blk,      \* a block's members, where its thread is, and its history
  link,     \* a client's call and its busy request
  clean,    \* history: no setting of a block's session was left to the
            \* worker or has an unknown outcome
  setter,   \* the setter that is running, or NoSetter
  sets,     \* setters called
  refMode,  \* a block's refMode
  dev,      \* the device's parameters of each block's stream
  updates   \* the device's ref.updateCount

vars == <<blk, link, clean, setter, sets, refMode, dev, updates>>

NoCall == [by |-> None, req |-> <<>>]
NoBusy == [req |-> <<>>, is |-> None]
NoSetter == [b |-> None, p |-> None, v |-> 0, at |-> None]
Idle == [call |-> NoCall, busy |-> NoBusy]

(* at: where the thread is; val: rxFreq, ddcFreq, ...; map: what start is  *)
(* about to set; base: updateCount; sig: rxSig or txSig is there;          *)
(* rate: masterSampleRate is not 0.                                        *)
(* History: started, stopped: start, stop returned true; seen: the count   *)
(* of updates when base was read, or -1; waited: WaitForRefUpdate's        *)
(* result; raced: a setter ran between start's reading of the parameters   *)
(* and its sending; given: parameters that setters have set since start;   *)
(* stray: signal clients with no owner; badStops: stops that returned      *)
(* false.                                                                  *)
Init ==
  /\ blk = [b \in Blocks |->
       [at |-> "off", val |-> [p \in Params |-> 0], map |-> <<>>,
        base |-> 0, polls |-> 0, sig |-> FALSE, rate |-> FALSE,
        starts |-> 0,
        started |-> FALSE, stopped |-> FALSE, seen |-> -1, waited |-> FALSE,
        raced |-> FALSE, given |-> {}, stray |-> 0, badStops |-> 0]]
  /\ link = [b \in Blocks |-> Idle]
  /\ clean = [b \in Blocks |-> TRUE]
  /\ setter = NoSetter /\ sets = 0
  /\ refMode \in [Blocks -> {"internal", "external", "GPSDO"}]
  /\ \A b \in Blocks \ Masters : refMode[b] = "internal"
  /\ dev = [b \in Blocks |->
       [f \in Params \cup {"Run", "ConEnable"} |->
          IF f \in Params THEN -1 ELSE FALSE]]
  /\ updates = 0

-----------------------------------------------------------------------------
(* The remote calls.                                                       *)

Calling(b) == link[b].call.by # None

(* Call has the mutex: a busy request already kept is thrown away; one     *)
(* still posted to the worker is kept after that.                          *)
Locks(b, who, req) ==
  /\ ~Calling(b)
  /\ link' = [link EXCEPT ![b] =
       [call |-> [by |-> who, req |-> req],
        busy |-> IF @.busy.is = "posted" THEN [@.busy EXCEPT !.is = "kept"]
                 ELSE NoBusy]]

(* Call has not got the mutex.                                             *)
LeavesToWorker(b, req) ==
  /\ Calling(b)
  /\ link' = [link EXCEPT ![b].busy = [req |-> req, is |-> "posted"]]

(* What the device makes of a request, if it gets it.                      *)
Acts(b, req, acted) ==
  /\ dev' = IF acted
            THEN [dev EXCEPT ![b] = [f \in DOMAIN @ |-> IF f \in DOMAIN req THEN req[f]
                                                        ELSE @[f]]]
            ELSE dev
  /\ updates' = IF acted /\ "TimeBase" \in DOMAIN req THEN updates + 1 ELSE updates

(* Call ends: with the device's yes or no, or with no answer to a request  *)
(* on which it has acted ("lost") or not (then it is as a no).  "unclear"  *)
(* is a no with apiBusy, or with no error code.                            *)
Ends(b, who, out) ==
  /\ link[b].call.by = who
  /\ Acts(b, link[b].call.req, out \in {"yes", "lost"})
  /\ link' = [link EXCEPT ![b].call = NoCall]

Outcomes == {"yes", "no", "lost"}

(* What Call returns.                                                      *)
Says(out) == out \in {"yes", "told"}

(* The worker: BusyREQ keeps the request, SendBusyReq sends it, or finds   *)
(* the client busy once more.                                              *)
BusyREQ(b) ==
  /\ link[b].busy.is = "posted"
  /\ link' = [link EXCEPT ![b].busy.is = "kept"]
  /\ UNCHANGED <<blk, clean, setter, sets, refMode, dev, updates>>

SendBusyReq(b) ==
  /\ link[b].busy.is = "kept"
  /\ \/ Locks(b, "worker", link[b].busy.req)
     \/ LeavesToWorker(b, link[b].busy.req)
  /\ UNCHANGED <<blk, clean, setter, sets, refMode, dev, updates>>

WorkerReturns(b) ==
  /\ \E out \in Outcomes : Ends(b, "worker", out)
  /\ UNCHANGED <<blk, clean, setter, sets, refMode>>

-----------------------------------------------------------------------------
(* start.                                                                  *)

Goes(b, place) == blk' = [blk EXCEPT ![b].at = place]
Started(b, result) == blk' = [blk EXCEPT ![b].at = "running", ![b].started = result]

(* AVS4000Client::Get: a new client, connected or not.                     *)
Start(b) ==
  /\ blk[b].at = "off" /\ blk[b].starts < MaxStarts
  /\ blk' = [blk EXCEPT ![b] =
       [@ EXCEPT !.at = "StopData", !.starts = blk[b].starts + 1,
                 !.started = FALSE, !.stopped = FALSE, !.seen = -1,
                 !.waited = FALSE, !.raced = FALSE, !.given = {}]]
  /\ clean' = [clean EXCEPT ![b] = TRUE]
  /\ UNCHANGED <<link, setter, sets, refMode, dev, updates>>

(* StopRx, StopTx: whatever the answer.                                    *)
StopData(b) ==
  /\ blk[b].at = "StopData"
  /\ Goes(b, IF b \in Masters THEN "RefMode" ELSE "Count")

(* UpdateRef: the settings one by one, as long as they succeed.  Internal  *)
(* modes pretend to be locked; GPSDO sets no PPS.                          *)
AfterLock(b) == IF refMode[b] = "GPSDO" THEN "SysSync" ELSE "PPSSel"

SetRef(b, place, next, out) ==
  /\ blk[b].at = place
  /\ Goes(b, IF Says(out) THEN next ELSE "Build")

CheckRefLock(b, out) ==
  /\ blk[b].at = "CheckLock"
  /\ \/ out = "yes" /\ Goes(b, AfterLock(b))
     \/ Goes(b, "Build")

UpdateRef(b, out) ==
  \/ SetRef(b, "RefMode",
            IF refMode[b] = "internal" THEN AfterLock(b) ELSE "CheckLock", out)
  \/ CheckRefLock(b, out)
  \/ SetRef(b, "PPSSel", "SysSync", out)
  \/ SetRef(b, "SysSync", "TimeBase", out)
  \/ SetRef(b, "TimeBase", "Build", out)

(* GetUpdateCount is 0 when it has no answer.                              *)
GetUpdateCount(out) == IF out = "yes" THEN updates ELSE 0

(* Mutant: start does not read the count.                                  *)
CountUnread(b, out) ==
  /\ blk[b].at = "Count"
  /\ blk' = [blk EXCEPT ![b].at = "Poll", ![b].polls = 0, ![b].base = 0,
                        ![b].seen = IF out = "yes" THEN updates ELSE -1]

Count(b, out) ==
  /\ blk[b].at = "Count"
  /\ blk' = [blk EXCEPT ![b].at = "Poll", ![b].polls = 0,
                        ![b].base = GetUpdateCount(out),
                        ![b].seen = IF out = "yes" THEN updates ELSE -1]

(* Mutant: the wait has no end.                                            *)
WaitForEver(b, out) ==
  /\ blk[b].at = "Poll"
  /\ IF GetUpdateCount(out) > blk[b].base
     THEN blk' = [blk EXCEPT ![b].at = "Build", ![b].waited = TRUE]
     ELSE blk' = blk

WaitForRefUpdate(b, out) ==
  /\ blk[b].at = "Poll"
  /\ \/ /\ GetUpdateCount(out) > blk[b].base
        /\ blk' = [blk EXCEPT ![b].at = "Build", ![b].waited = TRUE,
                              ![b].base = GetUpdateCount(out)]
     \/ /\ GetUpdateCount(out) <= blk[b].base
        /\ IF blk[b].polls < MaxPolls THEN blk' = [blk EXCEPT ![b].polls = @ + 1]
           ELSE Goes(b, "Build")

(* The parameters are read into the map that Set sends; the gain is not,   *)
(* unless it is set by hand.                                               *)
SetterOn(b) == setter.b = b
Sent(b) == IF b \in Manual THEN Params ELSE Params \ ManualOnly

Build(b) ==
  /\ blk[b].at = "Build"
  /\ blk' = [blk EXCEPT ![b].at = "Set",
                        ![b].map = [p \in Sent(b) |-> blk[b].val[p]],
                        ![b].raced = SetterOn(b)]
  /\ UNCHANGED <<link, clean, setter, sets, refMode, dev, updates>>

Set(b, out) ==
  /\ blk[b].at = "Set"
  /\ \/ Says(out) /\ blk' = [blk EXCEPT ![b].at = "Connect", ![b].map = <<>>]
     \/ ~Says(out) /\ blk' = [blk EXCEPT ![b].at = "running", ![b].map = <<>>]

(* ConnectRxTcp, ConnectTxTcp: a signal client, whose IsConnected is true  *)
(* if it has a socket, be it connected or not.  (The client is new: there  *)
(* is no signal client to disconnect first.)                               *)
Connect(b, out) ==
  /\ blk[b].at = "Connect"
  /\ \/ Says(out) /\ blk' = [blk EXCEPT ![b].at = "StartData", ![b].sig = TRUE]
     \/ Says(out) /\ blk' = [blk EXCEPT ![b].at = "running", ![b].sig = TRUE]
     \/ ~Says(out) /\ Started(b, FALSE)

(* Mutant: start does not look at StartData's result.                      *)
StartDataAnyway(b, out) == blk[b].at = "StartData" /\ Started(b, TRUE)

(* StartRxData, StartTxData.  The transmitter then only sleeps.            *)
StartData(b, out) ==
  /\ blk[b].at = "StartData"
  /\ \/ Says(out) /\ b \in TxBlocks /\ Started(b, TRUE)
     \/ Says(out) /\ b \in RxBlocks
        /\ blk' = [blk EXCEPT ![b].at = "WaitData", ![b].polls = 0]
     \/ ~Says(out) /\ Started(b, FALSE)

(* WaitForRxData: "rxstat" has samples, some time after the device runs.   *)
WaitForRxData(b, out) ==
  /\ blk[b].at = "WaitData"
  /\ \/ out = "yes" /\ dev[b]["Run"] /\ Started(b, TRUE)
     \/ IF blk[b].polls < MaxPolls THEN blk' = [blk EXCEPT ![b].polls = @ + 1]
        ELSE Started(b, FALSE)

-----------------------------------------------------------------------------
(* work asks for the master sample rate when it has a tag, until it has    *)
(* got one.                                                                *)

NeedsRate(b) ==
  /\ blk[b].at = "running" /\ b \in RxBlocks /\ ~blk[b].rate
  /\ Goes(b, "Rate")
  /\ UNCHANGED <<link, clean, setter, sets, refMode, dev, updates>>

GetRealMasterSampleRate(b, out) ==
  /\ blk[b].at = "Rate"
  /\ blk' = [blk EXCEPT ![b].at = "running", ![b].rate = (out = "yes")]

-----------------------------------------------------------------------------
(* stop.  GNU Radio calls it when work has ended, and runs work whatever   *)
(* start has returned.                                                     *)

Stop(b) ==
  /\ blk[b].at = "running"
  /\ Goes(b, "StopRun")
  /\ UNCHANGED <<link, clean, setter, sets, refMode, dev, updates>>

(* client->deleteLater(); client=nullptr.                                  *)
Over(b, result, sig) ==
  blk' = [blk EXCEPT ![b].at = "doomed", ![b].stopped = result, ![b].sig = sig,
                     ![b].badStops = IF result THEN @ ELSE @ + 1]

(* Mutant: stop goes on to DisconnectRx when StopRxData has failed.        *)
StopRunAnyway(b, out) == blk[b].at = "StopRun" /\ Goes(b, "Disconnect")

(* Mutant: stop tries again until it succeeds.                             *)
StopRunAgain(b, out) ==
  /\ blk[b].at = "StopRun"
  /\ IF Says(out) THEN Goes(b, "Disconnect") ELSE blk' = blk

StopRun(b, out) ==
  /\ blk[b].at = "StopRun"
  /\ \/ Says(out) /\ Goes(b, "Disconnect")
     \/ ~Says(out) /\ Over(b, FALSE, blk[b].sig)

(* Mutant: DisconnectTx leaves the signal client.                          *)
DisconnectKeeps(b, out) ==
  blk[b].at = "Disconnect" /\ Over(b, Says(out), blk[b].sig)

Disconnect(b, out) == blk[b].at = "Disconnect" /\ Over(b, Says(out), FALSE)

(* The block's thread ends: the client is deleted, and rxSig with it, but  *)
(* not txSig.  The worker is stopped in whatever it does.  A setter that   *)
(* still uses the client has undefined behaviour: not in this model.       *)
Deleted(b) ==
  /\ blk[b].at = "doomed" /\ ~SetterOn(b)
  /\ blk' = [blk EXCEPT ![b].at = "off", ![b].sig = FALSE,
                        ![b].stray = IF blk[b].sig /\ b \in TxBlocks THEN @ + 1 ELSE @]
  /\ \E acted \in BOOLEAN : Acts(b, link[b].call.req, acted)
  /\ link' = [link EXCEPT ![b] = Idle]
  /\ UNCHANGED <<clean, setter, sets, refMode>>

-----------------------------------------------------------------------------
(* The calls of start, work and stop.                                      *)

Reads == {"Count", "Poll", "CheckLock", "WaitData", "Rate"}
Writes == {"StopData", "RefMode", "PPSSel", "SysSync", "TimeBase",
           "Set", "Connect", "StartData", "StopRun", "Disconnect"}

(* A map that gives each of fields the same value.                         *)
With(fields, value) == [f \in fields |-> value]

(* The maps that are sent; those of DisconnectTx and ConnectTxTcp have a   *)
(* Run that those of the receiver have not.                                *)
Request(b) ==
  LET at == blk[b].at IN
  CASE at \in {"StopData", "StopRun"} -> With({"Run", "ConEnable"}, FALSE)
    [] at = "Set" -> blk[b].map
    [] at \in {"Connect", "Disconnect"} ->
         [f \in {"ConEnable"} \cup (IF b \in TxBlocks THEN {"Run"} ELSE {}) |->
            f = "ConEnable" /\ at = "Connect"]
    [] at = "StartData" -> With({"Run"}, TRUE)
    [] at = "TimeBase" -> With({"TimeBase"}, TRUE)
    [] OTHER -> <<>>

Handles(b, out) ==
  \/ StopData(b) \/ UpdateRef(b, out) \/ Count(b, out) \/ WaitForRefUpdate(b, out)
  \/ Set(b, out) \/ Connect(b, out) \/ StartData(b, out) \/ WaitForRxData(b, out)
  \/ GetRealMasterSampleRate(b, out)
  \/ StopRun(b, out) \/ Disconnect(b, out)

CallBegins(b) ==
  /\ blk[b].at \in Reads \cup Writes
  /\ Locks(b, "block", Request(b))
  /\ UNCHANGED <<blk, clean, setter, sets, refMode, dev, updates>>

CallIsBusy(b) ==
  /\ link[b].call.by # "block"
  /\ Handles(b, "told")
  /\ LeavesToWorker(b, Request(b))
  /\ clean' = [clean EXCEPT ![b] = @ /\ blk[b].at \in Reads]
  /\ UNCHANGED <<setter, sets, refMode, dev, updates>>

CallReturns(b) ==
  /\ \E out \in Outcomes :
       /\ Ends(b, "block", out)
       /\ Handles(b, out)
       /\ clean' = [clean EXCEPT ![b] = @ /\ (blk[b].at \in Reads \/ out # "lost")]
  /\ UNCHANGED <<setter, sets, refMode>>

-----------------------------------------------------------------------------
(* The setters: SetRxFreq, SetDDCFreq, ... They use client, which has to   *)
(* be there when they are called.                                          *)

SetterCalls(b, p) ==
  /\ setter = NoSetter /\ sets < MaxSets
  /\ blk[b].at \notin {"off", "doomed"}
  /\ sets' = sets + 1
  /\ setter' = [b |-> b, p |-> p, v |-> sets + 1, at |-> "calls"]
  /\ blk' = [blk EXCEPT ![b].raced = @ \/ blk[b].at = "Set"]
  /\ UNCHANGED <<link, clean, refMode, dev, updates>>

SetterGoes(place) == setter' = [setter EXCEPT !.at = place]

SetterBegins(b) ==
  /\ SetterOn(b) /\ setter.at = "calls"
  /\ Locks(b, "setter", With({setter.p}, setter.v))
  /\ SetterGoes("waits")
  /\ UNCHANGED <<blk, clean, sets, refMode, dev, updates>>

SetterIsBusy(b) ==
  /\ SetterOn(b) /\ setter.at = "calls"
  /\ LeavesToWorker(b, With({setter.p}, setter.v))
  /\ SetterGoes("keeps")
  /\ clean' = [clean EXCEPT ![b] = FALSE]
  /\ UNCHANGED <<blk, sets, refMode, dev, updates>>

(* Mutant: the value is kept when the device has refused it.               *)
KeepsAlways(out) == TRUE

Keeps(out) == Says(out) \/ (out = "unclear" /\ setter.p \in Tolerant)

SetterReturns(b) ==
  /\ SetterOn(b)
  /\ \E out \in Outcomes \cup {"unclear"} :
       /\ Ends(b, "setter", out)
       /\ IF Keeps(out) THEN SetterGoes("keeps") ELSE setter' = NoSetter
       /\ clean' = [clean EXCEPT ![b] =
                      @ /\ out # "lost" /\ (out = "unclear" => setter.p \notin Tolerant)]
  /\ UNCHANGED <<blk, sets, refMode>>

(* The block's own member is set after the call, with no lock.             *)
SetterKeeps(b) ==
  /\ SetterOn(b) /\ setter.at = "keeps"
  /\ blk' = [blk EXCEPT ![b].val[setter.p] = setter.v, ![b].given = @ \cup {setter.p}]
  /\ setter' = NoSetter
  /\ UNCHANGED <<link, clean, sets, refMode, dev, updates>>

-----------------------------------------------------------------------------
BlockCall(b) == CallBegins(b) \/ CallIsBusy(b) \/ CallReturns(b)
BlockThread(b) == BlockCall(b) \/ Build(b) \/ Deleted(b)
Setter(b) == SetterBegins(b) \/ SetterIsBusy(b) \/ SetterReturns(b) \/ SetterKeeps(b)
Worker(b) == BusyREQ(b) \/ SendBusyReq(b) \/ WorkerReturns(b)

Next ==
  \E b \in Blocks :
    \/ Start(b) \/ BlockThread(b) \/ NeedsRate(b) \/ Stop(b)
    \/ Setter(b) \/ (\E p \in Params : SetterCalls(b, p))
    \/ Worker(b)

Spec == Init /\ [][Next]_vars

(* Threads go on, and every call ends, by its time-out if not before.      *)
(* Nobody has to start or stop a block, or to call a setter.               *)
Fairness ==
  \A b \in Blocks :
    /\ WF_vars(BlockThread(b)) /\ WF_vars(WorkerReturns(b))
    /\ WF_vars(Setter(b)) /\ WF_vars(BusyREQ(b)) /\ WF_vars(SendBusyReq(b))
FairSpec == Spec /\ Fairness

-----------------------------------------------------------------------------
Starting == (Reads \cup Writes \cup {"Build"}) \ {"Rate", "StopRun", "Disconnect"}
Stopping == {"StopRun", "Disconnect", "doomed"}

(* A receiver or transmitter whose start returned true is running in the   *)
(* device and connected to it, as long as no setting was left to the       *)
(* worker or lost: a refused step of start, or a second start after a      *)
(* stop that failed half-way, never makes it look started when it is not.  *)
StartedIsRunning ==
  \A b \in Blocks :
    blk[b].at = "running" /\ blk[b].started /\ clean[b] =>
      dev[b]["Run"] /\ dev[b]["ConEnable"] /\ blk[b].sig

(* When stop returned true, the device neither runs nor connects the       *)
(* stream, until the block starts again, with the same proviso: no         *)
(* setter, and no request the worker still has, undoes it.                 *)
StoppedIsQuiet ==
  \A b \in Blocks :
    blk[b].at \in {"doomed", "off"} /\ blk[b].stopped /\ clean[b] =>
      ~dev[b]["Run"] /\ ~dev[b]["ConEnable"] /\ ~blk[b].sig

(* A block and the device have the same parameters while it runs, however  *)
(* setters met the waits of start, the calls of other threads or an        *)
(* earlier session: those that start sends, unless a setter ran between    *)
(* its reading of them and its sending, and the gain, which start sends in *)
(* the manual mode only, once a setter of this session has set it; unless  *)
(* a setting was left to the worker or lost.                               *)
ParamsAgree ==
  \A b \in Blocks :
    blk[b].at = "running" /\ blk[b].started /\ clean[b] /\ ~SetterOn(b) =>
      \A p \in Params :
        (IF p \in Sent(b) THEN ~blk[b].raced ELSE p \in blk[b].given) =>
          dev[b][p] = blk[b].val[p]

(* A signal client, with its pump and its socket, outlives its block only  *)
(* if it is a transmitter's, and then only after a stop that returned      *)
(* false: one for each at most.                                            *)
StrayByBadStop ==
  \A b \in Blocks :
    /\ blk[b].stray <= blk[b].badStops
    /\ b \in RxBlocks => blk[b].stray = 0

(* A wait for the reference that succeeded means that a master has         *)
(* updated it since the block looked first, if that look was answered.     *)
(* (A look that was not gives 0, and any update ever made ends the wait.)  *)
WaitMeansUpdate ==
  \A b \in Blocks : blk[b].waited /\ blk[b].seen >= 0 => updates > blk[b].seen

(* start comes to an end whatever the device answers, and whether or not   *)
(* the master ever updates the reference; so does stop.                    *)
StartReturns == \A b \in Blocks : blk[b].at \in Starting ~> blk[b].at = "running"
StopReturns == \A b \in Blocks : blk[b].at \in Stopping ~> blk[b].at = "off"

=============================================================================
