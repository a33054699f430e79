------------------------- MODULE DeviceSessionProofs -------------------------
(***************************************************************************)
(* Proofs about DeviceSession, for any blocks, parameters and bounds.      *)
(*                                                                         *)
(* What the device was told last is told apart from what it may still be   *)
(* told: Sound relates a block's place in start, work and stop to its      *)
(* stream in the device, as long as the session is clean; Link says that   *)
(* in a clean session no request but the block's own and the setter's can  *)
(* reach the device.  Each keeps the other going.                          *)
(***************************************************************************)
EXTENDS DeviceSession, TLAPS

Places == Reads \cup Writes \cup {"off", "Build", "running", "doomed"}
Fields == Params \cup {"Run", "ConEnable"}

Maps == {<<>>} \cup UNION {[Sent(b) -> Int] : b \in Blocks}

Members ==
  [at : Places, val : [Params -> Int], map : Maps,
   base : Nat, polls : Nat, sig : BOOLEAN, rate : BOOLEAN, starts : Nat,
   started : BOOLEAN, stopped : BOOLEAN, seen : Int, waited : BOOLEAN,
   raced : BOOLEAN, given : SUBSET Params, stray : Nat, badStops : Nat]
BlkTypes == blk \in [Blocks -> Members]

Types ==
  /\ BlkTypes
  /\ clean \in [Blocks -> BOOLEAN]
  /\ sets \in Nat /\ updates \in Nat
  /\ DOMAIN link = Blocks /\ DOMAIN dev = Blocks

(* A setter is one of a block's that is there.                             *)
SetterOK ==
  \/ setter = NoSetter
  \/ /\ setter \in [b : Blocks, p : Params, v : Nat, at : {"calls", "waits", "keeps"}]
     /\ blk[setter.b].at # "off"

(* Who may be calling, and with what; in a clean session the worker has    *)
(* nothing that changes the device.                                        *)
Link(b) ==
  /\ link[b] = [call |-> [by |-> link[b].call.by, req |-> link[b].call.req],
                busy |-> [req |-> link[b].busy.req, is |-> link[b].busy.is]]
  /\ blk[b].at = "off" => link[b] = Idle
  /\ link[b].call.by \in {None, "block", "setter", "worker"}
  /\ link[b].call.by = None => link[b].call.req = <<>>
  /\ link[b].call.by = "block" =>
       blk[b].at \in Reads \cup Writes /\ link[b].call.req = Request(b)
  /\ link[b].call.by = "setter" =>
       /\ SetterOn(b) /\ setter.at = "waits"
       /\ link[b].call.req = With({setter.p}, setter.v)
  /\ clean[b] => /\ DOMAIN link[b].busy.req = {}
                 /\ link[b].call.by = "worker" => DOMAIN link[b].call.req = {}

(* The block is past StartData, and start has not failed.                  *)
Runs(b) == blk[b].at = "WaitData" \/ (blk[b].at \in {"running", "Rate"} /\ blk[b].started)

(* What the device has for the value of p, when nothing has gone wrong.    *)
Expected(b, p) ==
  IF SetterOn(b) /\ setter.at = "keeps" /\ setter.p = p THEN setter.v ELSE blk[b].val[p]

(* In a clean session the stream is in the device as the place says ...    *)
Stream(b) ==
  /\ blk[b].at \in Starting => ~blk[b].started
  /\ clean[b] =>
       /\ Runs(b) => dev[b]["Run"] = TRUE
       /\ Runs(b) \/ blk[b].at = "StartData" => dev[b]["ConEnable"] = TRUE /\ blk[b].sig
       /\ blk[b].at = "Disconnect" \/ (blk[b].at \in {"doomed", "off"} /\ blk[b].stopped) =>
            dev[b]["Run"] = FALSE /\ dev[b]["ConEnable"] = FALSE
       /\ blk[b].at \in {"doomed", "off"} /\ blk[b].stopped => ~blk[b].sig

(* ... and so are the parameters that Set sends, from its end on.          *)
Settings(b) ==
  clean[b] /\ ~blk[b].raced =>
    /\ blk[b].at = "Set" =>
         ~SetterOn(b) /\ blk[b].map = [p \in Sent(b) |-> blk[b].val[p]]
    /\ Runs(b) \/ blk[b].at \in {"Connect", "StartData"} =>
         \A p \in Sent(b) : dev[b][p] = Expected(b, p)

Device(b) == dev[b] = [f \in Fields |-> dev[b][f]]

Sound(b) == Device(b) /\ Stream(b) /\ Settings(b)

(* A signal client whose block is about to end without it has its bad      *)
(* stop already.                                                           *)
Strays(b) ==
  /\ blk[b].stray + (IF blk[b].at = "doomed" /\ blk[b].sig THEN 1 ELSE 0) <= blk[b].badStops
  /\ b \in RxBlocks => blk[b].stray = 0

(* The count the wait compares with is the one that was seen.              *)
Waits(b) ==
  /\ blk[b].seen <= updates
  /\ blk[b].at \in {"StopData", "Count", "Poll"} => ~blk[b].waited
  /\ blk[b].at = "Poll" /\ blk[b].seen >= 0 => blk[b].base = blk[b].seen
  /\ blk[b].waited /\ blk[b].seen >= 0 => updates > blk[b].seen

Inv ==
  /\ Types /\ SetterOK
  /\ \A b \in Blocks : Link(b) /\ Sound(b) /\ Strays(b) /\ Waits(b)

-----------------------------------------------------------------------------
(* The requests, and what the device makes of them.                        *)

LEMMA SentKnown ==
  ASSUME NEW b \in Blocks
  PROVE  Sent(b) \subseteq Params
BY DEF Sent

(* Neither reads nor the settings of the reference but the time base touch *)
(* a stream.                                                               *)
LEMMA ReadsAsk ==
  ASSUME NEW b \in Blocks,
         blk[b].at \in Reads \cup {"RefMode", "PPSSel", "SysSync"}
  PROVE  Request(b) = <<>>
BY DEF Request, Reads

LEMMA TimeBaseAsks ==
  ASSUME NEW b \in Blocks, blk[b].at = "TimeBase"
  PROVE  DOMAIN Request(b) = {"TimeBase"}
BY DEF Request, With

LEMMA StopsAsk ==
  ASSUME NEW b \in Blocks, blk[b].at \in {"StopData", "StopRun"}
  PROVE  /\ DOMAIN Request(b) = {"Run", "ConEnable"}
         /\ Request(b)["Run"] = FALSE /\ Request(b)["ConEnable"] = FALSE
BY DEF Request, With

LEMMA ConnectsAsk ==
  ASSUME NEW b \in Blocks, blk[b].at \in {"Connect", "Disconnect"}
  PROVE  /\ DOMAIN Request(b) = IF b \in TxBlocks THEN {"Run", "ConEnable"}
                                ELSE {"ConEnable"}
         /\ Request(b)["ConEnable"] = (blk[b].at = "Connect")
         /\ b \in TxBlocks => Request(b)["Run"] = FALSE
BY DEF Request, With

LEMMA StartDataAsks ==
  ASSUME NEW b \in Blocks, blk[b].at = "StartData"
  PROVE  DOMAIN Request(b) = {"Run"} /\ Request(b)["Run"] = TRUE
BY DEF Request, With

-----------------------------------------------------------------------------
(* A step of one block, its setter or its worker leaves the others alone.  *)

Same(b) ==
  /\ blk'[b] = blk[b] /\ link'[b] = link[b]
  /\ clean'[b] = clean[b] /\ dev'[b] = dev[b]
  /\ (SetterOn(b))' <=> SetterOn(b)
  /\ SetterOn(b) => setter' = setter

All(b) == Link(b) /\ Sound(b) /\ Strays(b) /\ Waits(b)

LEMMA OthersKeep ==
  ASSUME NEW b \in Blocks, All(b), Same(b), updates \in Nat, updates' \in Nat,
         updates' >= updates, BlkTypes
  PROVE  All(b)'
<1>1. Link(b)'
  BY DEF All, Same, Link, Request, SetterOn
<1>2. Device(b)'
  BY DEF All, Same, Sound, Device
<1>3. Stream(b)'
  BY DEF All, Same, Sound, Stream, Runs
<1>4. Settings(b)'
  <2>1. \A p \in Params : Expected(b, p)' = Expected(b, p)
    BY DEF Same, Expected, SetterOn
  <2> QED
    BY <2>1, SentKnown DEF All, Same, Sound, Settings, Runs
<1>5. Strays(b)'
  BY DEF All, Same, Strays
<1>6. Waits(b)'
  <2>1. blk[b].seen \in Int
    BY DEF BlkTypes, Members
  <2> QED
    BY <2>1 DEF All, Same, Waits
<1> QED
  BY <1>1, <1>2, <1>3, <1>4, <1>5, <1>6 DEF All, Sound

LEMMA OneAtATime ==
  ASSUME Inv, NEW c \in Blocks, Types', SetterOK', All(c)', updates' >= updates,
         \A b \in Blocks \ {c} : Same(b)
  PROVE  Inv'
<1>1. ASSUME NEW b \in Blocks PROVE All(b)'
  <2>1. CASE b = c
    BY <2>1
  <2>2. CASE b # c
    <3>1. All(b) /\ Same(b) /\ BlkTypes /\ updates \in Nat /\ updates' \in Nat
      BY <2>2 DEF Inv, All, Types
    <3> QED
      BY <3>1, OthersKeep
  <2> QED
    BY <2>1, <2>2
<1> QED
  BY <1>1 DEF Inv, All

(* What a state with Inv says of one block.                                *)
LEMMA Opened ==
  ASSUME Inv, NEW b \in Blocks
  PROVE  /\ All(b) /\ Link(b) /\ Device(b) /\ Stream(b) /\ Settings(b) /\ Strays(b) /\ Waits(b)
         /\ Types /\ BlkTypes /\ SetterOK
BY DEF Inv, All, Sound, Types

-----------------------------------------------------------------------------
(* The parts of a call.                                                    *)

LEMMA DeviceActs ==
  ASSUME NEW b \in Blocks, NEW req, NEW acted \in BOOLEAN, Types, Device(b),
         Acts(b, req, acted)
  PROVE  /\ DOMAIN dev' = Blocks /\ updates' \in Nat /\ updates' >= updates
         /\ \A c \in Blocks \ {b} : dev'[c] = dev[c]
         /\ dev'[b] = [f \in Fields |-> IF acted /\ f \in DOMAIN req THEN req[f]
                                        ELSE dev[b][f]]
         /\ Device(b)'
<1>1. DOMAIN dev = Blocks /\ updates \in Nat /\ DOMAIN dev[b] = Fields
  BY DEF Types, Device
<1>2. DOMAIN dev' = Blocks /\ \A c \in Blocks \ {b} : dev'[c] = dev[c]
  BY <1>1 DEF Acts
<1>3. updates' \in Nat /\ updates' >= updates
  BY <1>1 DEF Acts
<1>4. dev'[b] = [f \in Fields |-> IF acted /\ f \in DOMAIN req THEN req[f]
                                  ELSE dev[b][f]]
  <2>1. CASE acted
    BY <1>1, <2>1 DEF Acts
  <2>2. CASE ~acted
    <3>1. dev'[b] = dev[b]
      BY <2>2 DEF Acts
    <3> QED
      BY <2>2, <3>1 DEF Device
  <2> QED
    BY <2>1, <2>2
<1> QED
  BY <1>2, <1>3, <1>4 DEF Device

(* An empty request does nothing.                                          *)
LEMMA EmptyActs ==
  ASSUME NEW b \in Blocks, NEW req, NEW acted \in BOOLEAN, Types, Device(b),
         Acts(b, req, acted), DOMAIN req = {}
  PROVE  dev'[b] = dev[b]
<1>1. dev'[b] = [f \in Fields |-> IF acted /\ f \in DOMAIN req THEN req[f] ELSE dev[b][f]]
  BY DeviceActs
<1>2. dev'[b] = [f \in Fields |-> dev[b][f]]
  BY <1>1
<1> QED
  BY <1>2 DEF Device

LEMMA Locked ==
  ASSUME NEW b \in Blocks, NEW who, NEW req, Types, Link(b), Locks(b, who, req)
  PROVE  /\ link[b].call.by = None /\ DOMAIN link' = Blocks
         /\ \A c \in Blocks \ {b} : link'[c] = link[c]
         /\ link'[b] = [call |-> [by |-> who, req |-> req],
                        busy |-> [req |-> link'[b].busy.req, is |-> link'[b].busy.is]]
         /\ link'[b].busy.req \in {<<>>, link[b].busy.req}
<1> DEFINE busy == IF link[b].busy.is = "posted" THEN [link[b].busy EXCEPT !.is = "kept"]
                   ELSE NoBusy
<1>1. link[b].call.by = None
  BY DEF Locks, Calling
<1>2. link' = [link EXCEPT ![b] = [call |-> [by |-> who, req |-> req], busy |-> busy]]
  BY DEF Locks
<1>3. /\ DOMAIN link' = Blocks /\ \A c \in Blocks \ {b} : link'[c] = link[c]
      /\ link'[b] = [call |-> [by |-> who, req |-> req], busy |-> busy]
  BY <1>2 DEF Types
<1>4. busy = [req |-> busy.req, is |-> busy.is] /\ busy.req \in {<<>>, link[b].busy.req}
  BY DEF Link, NoBusy
<1> HIDE DEF busy
<1>5. link'[b].busy = busy
  BY <1>3
<1>6. link'[b] = [call |-> [by |-> who, req |-> req],
                  busy |-> [req |-> link'[b].busy.req, is |-> link'[b].busy.is]]
  BY <1>3, <1>4, <1>5
<1> QED
  BY <1>1, <1>3, <1>4, <1>5, <1>6

LEMMA Left ==
  ASSUME NEW b \in Blocks, NEW req, Types, Link(b), LeavesToWorker(b, req)
  PROVE  /\ link[b].call.by # None /\ DOMAIN link' = Blocks
         /\ \A c \in Blocks \ {b} : link'[c] = link[c]
         /\ link'[b] = [call |-> link[b].call, busy |-> [req |-> req, is |-> "posted"]]
BY DEF LeavesToWorker, Calling, Types, Link

LEMMA Ended ==
  ASSUME NEW b \in Blocks, NEW who, NEW out, Types, Link(b), Device(b), Ends(b, who, out)
  PROVE  /\ link[b].call.by = who /\ DOMAIN link' = Blocks
         /\ \A c \in Blocks \ {b} : link'[c] = link[c] /\ dev'[c] = dev[c]
         /\ link'[b] = [call |-> NoCall, busy |-> link[b].busy]
         /\ DOMAIN dev' = Blocks /\ updates' \in Nat /\ updates' >= updates
         /\ dev'[b] = [f \in Fields |->
              IF out \in {"yes", "lost"} /\ f \in DOMAIN link[b].call.req
              THEN link[b].call.req[f] ELSE dev[b][f]]
         /\ Device(b)'
<1>1. Acts(b, link[b].call.req, out \in {"yes", "lost"})
  BY DEF Ends
<1>2. (out \in {"yes", "lost"}) \in BOOLEAN
  OBVIOUS
<1>3. link' = [link EXCEPT ![b].call = NoCall] /\ link[b].call.by = who
  BY DEF Ends
<1>4. /\ DOMAIN link' = Blocks /\ \A c \in Blocks \ {b} : link'[c] = link[c]
      /\ link'[b] = [call |-> NoCall, busy |-> link[b].busy]
  BY <1>3 DEF Types, Link
<1>5. /\ DOMAIN dev' = Blocks /\ updates' \in Nat /\ updates' >= updates
      /\ \A c \in Blocks \ {b} : dev'[c] = dev[c]
      /\ dev'[b] = [f \in Fields |->
           IF out \in {"yes", "lost"} /\ f \in DOMAIN link[b].call.req
           THEN link[b].call.req[f] ELSE dev[b][f]]
      /\ Device(b)'
  BY <1>1, <1>2, DeviceActs
<1> QED
  BY <1>3, <1>4, <1>5

-----------------------------------------------------------------------------
(* What the block's thread makes of the end of a call.                     *)

(* What the call has done: told to a clean session's device all or nothing *)
(* of the request, and known to the block if it is a write.                *)
Effect(b, out) ==
  /\ Device(b)' /\ updates' \in Nat /\ updates' >= updates /\ setter' = setter
  /\ clean'[b] \in BOOLEAN /\ (clean'[b] => clean[b])
  /\ clean'[b] /\ out = "yes" =>
       dev'[b] = [f \in Fields |-> IF f \in DOMAIN Request(b) THEN Request(b)[f]
                                   ELSE dev[b][f]]
  /\ clean'[b] /\ out # "yes" => dev'[b] = dev[b]
  /\ clean'[b] /\ blk[b].at \in Writes => out \in {"yes", "no"}

(* The block's thread has moved on, and the parts about it hold again.     *)
Moved(b) ==
  /\ BlkTypes' /\ \A c \in Blocks \ {b} : blk'[c] = blk[c]
  /\ blk'[b].at # "off"
  /\ Stream(b)' /\ Settings(b)' /\ Strays(b)' /\ Waits(b)'

(* Before Set there is nothing to say of the stream.                       *)
Early == {"RefMode", "CheckLock", "PPSSel", "SysSync", "TimeBase", "Count", "Poll", "Build"}

LEMMA EarlyMoves ==
  ASSUME Inv, NEW b \in Blocks, blk[b].at \in Early \cup {"StopData"},
         BlkTypes', \A c \in Blocks \ {b} : blk'[c] = blk[c],
         blk'[b].at \in Early, blk'[b].started = blk[b].started,
         blk'[b].stray = blk[b].stray, blk'[b].badStops = blk[b].badStops,
         Waits(b)'
  PROVE  Moved(b)
<1>1. Stream(b) /\ Strays(b) /\ BlkTypes
  BY Opened
<1>2. ~blk'[b].started
  BY <1>1 DEF Stream, Starting, Early, Reads, Writes
<1>3. Stream(b)' /\ Settings(b)'
  BY <1>2 DEF Stream, Settings, Runs, Early
<1>4. Strays(b)'
  BY <1>1 DEF Strays, Early, BlkTypes, Members
<1> QED
  BY <1>3, <1>4 DEF Moved, Early

LEMMA StopDataMoves ==
  ASSUME Inv, NEW b \in Blocks, NEW out, StopData(b), Effect(b, out)
  PROVE  Moved(b)
<1>1. BlkTypes /\ Waits(b) /\ updates \in Nat
  BY Opened DEF Types
<1>2. PICK place \in {"RefMode", "Count"} : blk' = [blk EXCEPT ![b].at = place]
  BY DEF StopData, Goes
<1>3. BlkTypes'
  <2>1. place \in Places
    BY DEF Places, Reads, Writes
  <2> QED
    BY ZenonT(60), <1>1, <1>2, <2>1 DEF BlkTypes, Members
<1>4. /\ \A c \in Blocks \ {b} : blk'[c] = blk[c]
      /\ blk'[b] = [blk[b] EXCEPT !.at = place]
  BY <1>1, <1>2 DEF BlkTypes, Members
<1>5. blk[b].at = "StopData"
  BY DEF StopData
<1>6. Waits(b)'
  BY <1>1, <1>4, <1>5 DEF Waits, Effect, BlkTypes, Members
<1>7. /\ blk'[b].at = place /\ blk'[b].started = blk[b].started
      /\ blk'[b].stray = blk[b].stray /\ blk'[b].badStops = blk[b].badStops
  BY <1>1, <1>4 DEF BlkTypes, Members
<1> QED
  BY <1>1, <1>3, <1>4, <1>5, <1>6, <1>7, EarlyMoves DEF Early

LEMMA UpdateRefMoves ==
  ASSUME Inv, NEW b \in Blocks, NEW out, UpdateRef(b, out), Effect(b, out)
  PROVE  Moved(b)
<1>1. BlkTypes /\ Waits(b) /\ updates \in Nat
  BY Opened DEF Types
<1>2. PICK place \in {"CheckLock", "PPSSel", "SysSync", "TimeBase", "Build"} :
        blk' = [blk EXCEPT ![b].at = place]
  BY DEF UpdateRef, SetRef, CheckRefLock, AfterLock, Goes
<1>3. BlkTypes'
  <2>1. place \in Places
    BY DEF Places, Reads, Writes
  <2> QED
    BY ZenonT(60), <1>1, <1>2, <2>1 DEF BlkTypes, Members
<1>4. /\ \A c \in Blocks \ {b} : blk'[c] = blk[c]
      /\ blk'[b] = [blk[b] EXCEPT !.at = place]
  BY <1>1, <1>2 DEF BlkTypes, Members
<1>5. blk[b].at \in {"RefMode", "CheckLock", "PPSSel", "SysSync", "TimeBase"}
  BY DEF UpdateRef, SetRef, CheckRefLock
<1>6. Waits(b)'
  BY <1>1, <1>4, <1>5 DEF Waits, Effect, BlkTypes, Members
<1>7. /\ blk'[b].at = place /\ blk'[b].started = blk[b].started
      /\ blk'[b].stray = blk[b].stray /\ blk'[b].badStops = blk[b].badStops
  BY <1>1, <1>4 DEF BlkTypes, Members
<1> QED
  BY <1>1, <1>3, <1>4, <1>5, <1>6, <1>7, EarlyMoves DEF Early

LEMMA CountMoves ==
  ASSUME Inv, NEW b \in Blocks, NEW out, Count(b, out), Effect(b, out)
  PROVE  Moved(b)
<1>1. BlkTypes /\ Waits(b) /\ updates \in Nat /\ blk[b].at = "Count"
  BY Opened DEF Types, Count
<1> DEFINE base == GetUpdateCount(out)
           seen == IF out = "yes" THEN updates ELSE -1
<1>2. base \in Nat /\ seen \in Int /\ (seen >= 0 => base = seen) /\ seen <= updates
  BY <1>1 DEF GetUpdateCount
<1>3. blk' = [blk EXCEPT ![b] = [@ EXCEPT !.at = "Poll", !.polls = 0, !.base = base,
                                          !.seen = seen]]
  BY DEF Count
<1> HIDE DEF base, seen
<1>4. BlkTypes'
  <2>1. "Poll" \in Places
    BY DEF Places, Reads
  <2> QED
    BY ZenonT(60), <1>1, <1>2, <1>3, <2>1 DEF BlkTypes, Members
<1>5. /\ \A c \in Blocks \ {b} : blk'[c] = blk[c]
      /\ blk'[b] = [blk[b] EXCEPT !.at = "Poll", !.polls = 0, !.base = base,
                                  !.seen = seen]
  BY <1>1, <1>3 DEF BlkTypes, Members
<1>6. /\ blk'[b].at = "Poll" /\ blk'[b].base = base /\ blk'[b].seen = seen
      /\ blk'[b].waited = blk[b].waited /\ blk'[b].started = blk[b].started
      /\ blk'[b].stray = blk[b].stray /\ blk'[b].badStops = blk[b].badStops
  BY <1>1, <1>5 DEF BlkTypes, Members
<1>7. Waits(b)'
  BY <1>1, <1>2, <1>6 DEF Waits, Effect, BlkTypes, Members
<1> QED
  BY <1>1, <1>4, <1>5, <1>6, <1>7, EarlyMoves DEF Early

LEMMA WaitForRefUpdateMoves ==
  ASSUME Inv, NEW b \in Blocks, NEW out, WaitForRefUpdate(b, out), Effect(b, out)
  PROVE  Moved(b)
<1>1. /\ BlkTypes /\ Waits(b) /\ updates \in Nat /\ updates' \in Nat /\ updates' >= updates
      /\ blk[b].at = "Poll"
  BY Opened DEF Types, WaitForRefUpdate, Effect
<1>2. GetUpdateCount(out) \in Nat /\ GetUpdateCount(out) <= updates
  BY <1>1 DEF GetUpdateCount
<1>3. blk[b].seen \in Int /\ blk[b].base \in Nat /\ blk[b].polls \in Nat
  BY <1>1 DEF BlkTypes, Members
<1>4. CASE /\ GetUpdateCount(out) > blk[b].base
           /\ blk' = [blk EXCEPT ![b].at = "Build", ![b].waited = TRUE,
                                 ![b].base = GetUpdateCount(out)]
  <2>1. BlkTypes'
    <3> DEFINE count == GetUpdateCount(out)
    <3>1. "Build" \in Places /\ count \in Nat
      BY <1>2 DEF Places
    <3>2. blk' = [blk EXCEPT ![b] = [@ EXCEPT !.at = "Build", !.waited = TRUE,
                                              !.base = count]]
      BY <1>4
    <3> HIDE DEF count
    <3> QED
      BY ZenonT(60), <1>1, <3>1, <3>2 DEF BlkTypes, Members
  <2>2. /\ \A c \in Blocks \ {b} : blk'[c] = blk[c]
        /\ blk'[b] = [blk[b] EXCEPT !.at = "Build", !.waited = TRUE,
                                    !.base = GetUpdateCount(out)]
    BY <1>1, <1>4 DEF BlkTypes, Members
  <2>3. /\ blk'[b].at = "Build" /\ blk'[b].seen = blk[b].seen
        /\ blk'[b].started = blk[b].started
        /\ blk'[b].stray = blk[b].stray /\ blk'[b].badStops = blk[b].badStops
    BY <1>1, <2>2 DEF BlkTypes, Members
  <2>4. blk[b].seen >= 0 => updates > blk[b].seen
    BY <1>1, <1>2, <1>3, <1>4 DEF Waits
  <2>5. Waits(b)'
    BY <1>1, <1>3, <2>3, <2>4 DEF Waits
  <2> QED
    BY <1>1, <2>1, <2>2, <2>3, <2>5, EarlyMoves DEF Early
<1>5. CASE \E place \in {"Poll", "Build"}, n \in Nat :
             blk' = [blk EXCEPT ![b] = [@ EXCEPT !.at = place, !.polls = n]]
  <2>1. PICK place \in {"Poll", "Build"}, n \in Nat :
          blk' = [blk EXCEPT ![b] = [@ EXCEPT !.at = place, !.polls = n]]
    BY <1>5
  <2>2. BlkTypes'
    <3>1. place \in Places
      BY DEF Places, Reads
    <3> QED
      BY ZenonT(60), <1>1, <2>1, <3>1 DEF BlkTypes, Members
  <2>3. /\ \A c \in Blocks \ {b} : blk'[c] = blk[c]
        /\ blk'[b] = [blk[b] EXCEPT !.at = place, !.polls = n]
    BY <1>1, <2>1 DEF BlkTypes, Members
  <2>4. /\ blk'[b].at = place /\ blk'[b].seen = blk[b].seen /\ blk'[b].base = blk[b].base
        /\ blk'[b].waited = blk[b].waited /\ blk'[b].started = blk[b].started
        /\ blk'[b].stray = blk[b].stray /\ blk'[b].badStops = blk[b].badStops
    BY <1>1, <2>3 DEF BlkTypes, Members
  <2>5. Waits(b)'
    BY <1>1, <1>3, <2>4 DEF Waits
  <2> QED
    BY <1>1, <2>2, <2>3, <2>4, <2>5, EarlyMoves DEF Early
<1>6. CASE blk' = [blk EXCEPT ![b].polls = @ + 1]
  <2>1. blk' = [blk EXCEPT ![b] = [@ EXCEPT !.at = "Poll", !.polls = blk[b].polls + 1]]
    BY <1>1, <1>6 DEF BlkTypes, Members
  <2>2. blk[b].polls + 1 \in Nat
    BY <1>3
  <2> QED
    BY <1>5, <2>1, <2>2
<1>7. CASE Goes(b, "Build")
  <2>1. blk' = [blk EXCEPT ![b] = [@ EXCEPT !.at = "Build", !.polls = blk[b].polls]]
    BY <1>1, <1>7 DEF BlkTypes, Members, Goes
  <2> QED
    BY <1>3, <1>5, <2>1
<1> QED
  BY <1>4, <1>6, <1>7 DEF WaitForRefUpdate

(* From Set on the wait is over, and until the block is doomed no signal   *)
(* client can stray.                                                       *)
Later == {"Connect", "StartData", "WaitData", "running", "StopRun", "Disconnect"}

LEMMA LaterMoves ==
  ASSUME Inv, NEW b \in Blocks, updates' \in Nat, updates' >= updates,
         BlkTypes', \A c \in Blocks \ {b} : blk'[c] = blk[c],
         blk'[b].at \in Later,
         blk'[b].seen = blk[b].seen, blk'[b].waited = blk[b].waited,
         blk'[b].stray = blk[b].stray, blk'[b].badStops = blk[b].badStops,
         Stream(b)', Settings(b)'
  PROVE  Moved(b)
<1>1. BlkTypes /\ Waits(b) /\ Strays(b) /\ updates \in Nat
  BY Opened DEF Types
<1>2. blk[b].seen \in Int /\ blk[b].stray \in Nat /\ blk[b].badStops \in Nat
  BY <1>1 DEF BlkTypes, Members
<1>3. Waits(b)'
  BY <1>1, <1>2 DEF Waits, Later
<1>4. Strays(b)'
  BY <1>1, <1>2 DEF Strays, Later
<1> QED
  BY <1>3, <1>4 DEF Moved, Later

(* Where a step that gives the block new members leads.                    *)
LEMMA NewMembers ==
  ASSUME BlkTypes, NEW b \in Blocks, NEW r \in Members, blk' = [blk EXCEPT ![b] = r]
  PROVE  /\ BlkTypes' /\ blk'[b] = r
         /\ \A c \in Blocks \ {b} : blk'[c] = blk[c]
BY DEF BlkTypes

LEMMA SetMoves ==
  ASSUME Inv, NEW b \in Blocks, NEW out, Set(b, out), Effect(b, out)
  PROVE  Moved(b)
<1>1. /\ BlkTypes /\ Stream(b) /\ Settings(b) /\ blk[b].at = "Set" /\ blk[b] \in Members
      /\ clean[b] \in BOOLEAN
  BY Opened DEF Set, BlkTypes, Types
<1>2. PICK place \in {"Connect", "running"} :
        /\ blk' = [blk EXCEPT ![b] = [@ EXCEPT !.at = place, !.map = <<>>]]
        /\ place = "Connect" => Says(out)
  BY DEF Set
<1>3. place \in Places /\ <<>> \in Maps
  BY DEF Places, Writes, Maps
<1> DEFINE r == [blk[b] EXCEPT !.at = place, !.map = <<>>]
<1>4. r \in Members
  BY <1>1, <1>3 DEF Members
<1>5. BlkTypes' /\ blk'[b] = r /\ \A c \in Blocks \ {b} : blk'[c] = blk[c]
  BY <1>1, <1>2, <1>4, NewMembers
<1>6. /\ blk'[b].at = place /\ blk'[b].started = blk[b].started
      /\ blk'[b].val = blk[b].val /\ blk'[b].raced = blk[b].raced
      /\ blk'[b].seen = blk[b].seen /\ blk'[b].waited = blk[b].waited
      /\ blk'[b].stray = blk[b].stray /\ blk'[b].badStops = blk[b].badStops
  BY <1>1, <1>5 DEF Members
<1>7. ~blk[b].started
  BY <1>1 DEF Stream, Starting, Writes
<1>8. Stream(b)'
  BY <1>6, <1>7 DEF Stream, Runs
<1>9. Settings(b)'
  <2>1. SUFFICES ASSUME clean'[b], ~blk[b].raced, place = "Connect", NEW p \in Sent(b)
                 PROVE  dev'[b][p] = Expected(b, p)'
    BY <1>6, <1>7 DEF Settings, Runs
  <2>2. out = "yes" /\ clean[b]
    BY <1>1, <1>2, <2>1 DEF Effect, Says, Writes
  <2>3. Request(b) = blk[b].map
    BY <1>1 DEF Request
  <2>4. ~SetterOn(b) /\ blk[b].map = [q \in Sent(b) |-> blk[b].val[q]]
    BY <1>1, <2>1, <2>2 DEF Settings
  <2>5. p \in Fields /\ p \in DOMAIN blk[b].map /\ blk[b].map[p] = blk[b].val[p]
    BY <2>1, <2>4, SentKnown DEF Fields
  <2>6. dev'[b][p] = blk[b].val[p]
    BY <2>1, <2>2, <2>3, <2>5 DEF Effect
  <2> QED
    BY <1>6, <2>4, <2>6 DEF Expected, SetterOn, Effect
<1> QED
  BY <1>5, <1>6, <1>8, <1>9, LaterMoves DEF Later, Effect

(* The settings of a step whose request is not about parameters.           *)
LEMMA SettingsStay ==
  ASSUME Inv, NEW b \in Blocks, NEW out, Effect(b, out),
         blk[b].at \in {"Connect", "StartData"} \/ Runs(b),
         DOMAIN Request(b) \cap Params = {},
         blk'[b].at # "Set",
         blk'[b].val = blk[b].val, blk'[b].raced = blk[b].raced
  PROVE  Settings(b)'
<1>1. SUFFICES ASSUME clean'[b], ~blk[b].raced, NEW p \in Sent(b)
               PROVE  dev'[b][p] = Expected(b, p)'
  BY DEF Settings
<1>2. dev[b][p] = Expected(b, p)
  BY Opened, <1>1 DEF Settings, Effect
<1>3. p \in Fields /\ p \notin DOMAIN Request(b)
  BY <1>1, SentKnown DEF Fields
<1>4. dev'[b][p] = dev[b][p]
  BY <1>1, <1>3 DEF Effect
<1> QED
  BY <1>2, <1>4 DEF Expected, SetterOn, Effect

LEMMA ConnectMoves ==
  ASSUME Inv, NEW b \in Blocks, NEW out, Connect(b, out), Effect(b, out)
  PROVE  Moved(b)
<1>1. BlkTypes /\ Stream(b) /\ blk[b].at = "Connect" /\ blk[b] \in Members
  BY Opened DEF Connect, BlkTypes
<1>2. ~blk[b].started
  BY <1>1 DEF Stream, Starting, Writes
<1>3. PICK place \in {"StartData", "running"}, sig \in BOOLEAN :
        /\ blk' = [blk EXCEPT ![b] = [@ EXCEPT !.at = place, !.sig = sig, !.started = FALSE]]
        /\ place = "StartData" => Says(out) /\ sig
  <2>1. blk[b].sig \in BOOLEAN /\ blk[b].started = FALSE
    BY <1>1, <1>2 DEF Members
  <2>2. CASE Says(out) /\ blk' = [blk EXCEPT ![b].at = "StartData", ![b].sig = TRUE]
    <3>1. blk' = [blk EXCEPT ![b] = [@ EXCEPT !.at = "StartData", !.sig = TRUE,
                                              !.started = FALSE]]
      BY <1>1, <2>1, <2>2 DEF BlkTypes, Members
    <3> QED
      BY <2>2, <3>1
  <2>3. CASE blk' = [blk EXCEPT ![b].at = "running", ![b].sig = TRUE]
    <3>1. blk' = [blk EXCEPT ![b] = [@ EXCEPT !.at = "running", !.sig = TRUE,
                                              !.started = FALSE]]
      BY <1>1, <2>1, <2>3 DEF BlkTypes, Members
    <3> QED
      BY <3>1
  <2>4. CASE Started(b, FALSE)
    <3>1. blk' = [blk EXCEPT ![b] = [@ EXCEPT !.at = "running", !.sig = blk[b].sig,
                                              !.started = FALSE]]
      BY <1>1, <2>1, <2>4 DEF BlkTypes, Members, Started
    <3> QED
      BY <2>1, <3>1
  <2> QED
    BY <2>2, <2>3, <2>4 DEF Connect
<1>4. place \in Places
  BY DEF Places, Writes
<1> DEFINE r == [blk[b] EXCEPT !.at = place, !.sig = sig, !.started = FALSE]
<1>5. r \in Members
  BY <1>1, <1>4 DEF Members
<1>6. BlkTypes' /\ blk'[b] = r /\ \A c \in Blocks \ {b} : blk'[c] = blk[c]
  BY <1>1, <1>3, <1>5, NewMembers
<1>7. /\ blk'[b].at = place /\ blk'[b].started = FALSE /\ blk'[b].sig = sig
      /\ blk'[b].val = blk[b].val /\ blk'[b].raced = blk[b].raced
      /\ blk'[b].seen = blk[b].seen /\ blk'[b].waited = blk[b].waited
      /\ blk'[b].stray = blk[b].stray /\ blk'[b].badStops = blk[b].badStops
  BY <1>1, <1>6 DEF Members
<1>8. Stream(b)'
  <2>1. SUFFICES ASSUME clean'[b], place = "StartData"
                 PROVE  dev'[b]["ConEnable"] = TRUE /\ sig
    BY <1>7 DEF Stream, Runs
  <2>2. out = "yes" /\ sig
    BY <1>1, <1>3, <2>1 DEF Effect, Says, Writes
  <2>3. "ConEnable" \in Fields
    BY DEF Fields
  <2> QED
    BY <1>1, <2>1, <2>2, <2>3, ConnectsAsk DEF Effect
<1>9. Settings(b)'
  <2>1. DOMAIN Request(b) \cap Params = {}
    BY <1>1, ConnectsAsk, ParamsAssumption
  <2> QED
    BY <1>1, <1>7, <2>1, SettingsStay
<1> QED
  BY <1>6, <1>7, <1>8, <1>9, LaterMoves DEF Later, Effect

LEMMA StartDataMoves ==
  ASSUME Inv, NEW b \in Blocks, NEW out, StartData(b, out), Effect(b, out)
  PROVE  Moved(b)
<1>1. BlkTypes /\ Stream(b) /\ blk[b].at = "StartData" /\ blk[b] \in Members
  BY Opened DEF StartData, BlkTypes
<1>2. ~blk[b].started
  BY <1>1 DEF Stream, Starting, Writes
<1>3. PICK place \in {"WaitData", "running"}, result \in BOOLEAN, n \in Nat :
        /\ blk' = [blk EXCEPT ![b] = [@ EXCEPT !.at = place, !.started = result, !.polls = n]]
        /\ place = "WaitData" => Says(out) /\ ~result
        /\ result => Says(out)
  <2>1. blk[b].polls \in Nat /\ blk[b].started = FALSE
    BY <1>1, <1>2 DEF Members
  <2>2. CASE Says(out) /\ Started(b, TRUE)
    <3>1. blk' = [blk EXCEPT ![b] = [@ EXCEPT !.at = "running", !.started = TRUE,
                                              !.polls = blk[b].polls]]
      BY <1>1, <2>2 DEF BlkTypes, Members, Started
    <3> QED
      BY <2>1, <2>2, <3>1
  <2>3. CASE Says(out) /\ blk' = [blk EXCEPT ![b].at = "WaitData", ![b].polls = 0]
    <3>1. blk' = [blk EXCEPT ![b] = [@ EXCEPT !.at = "WaitData", !.started = FALSE,
                                              !.polls = 0]]
      BY <1>1, <2>1, <2>3 DEF BlkTypes, Members
    <3> QED
      BY <2>3, <3>1
  <2>4. CASE Started(b, FALSE)
    <3>1. blk' = [blk EXCEPT ![b] = [@ EXCEPT !.at = "running", !.started = FALSE,
                                              !.polls = blk[b].polls]]
      BY <1>1, <2>4 DEF BlkTypes, Members, Started
    <3> QED
      BY <2>1, <3>1
  <2> QED
    BY <2>2, <2>3, <2>4 DEF StartData
<1>4. place \in Places
  BY DEF Places, Reads
<1> DEFINE r == [blk[b] EXCEPT !.at = place, !.started = result, !.polls = n]
<1>5. r \in Members
  BY <1>1, <1>4 DEF Members
<1>6. BlkTypes' /\ blk'[b] = r /\ \A c \in Blocks \ {b} : blk'[c] = blk[c]
  BY <1>1, <1>3, <1>5, NewMembers
<1>7. /\ blk'[b].at = place /\ blk'[b].started = result /\ blk'[b].sig = blk[b].sig
      /\ blk'[b].val = blk[b].val /\ blk'[b].raced = blk[b].raced
      /\ blk'[b].seen = blk[b].seen /\ blk'[b].waited = blk[b].waited
      /\ blk'[b].stray = blk[b].stray /\ blk'[b].badStops = blk[b].badStops
  BY <1>1, <1>6 DEF Members
<1>8. Stream(b)'
  <2>1. place = "WaitData" => ~result
    BY <1>3
  <2>2. ASSUME clean'[b], Runs(b)'
        PROVE  dev'[b]["Run"] = TRUE /\ dev'[b]["ConEnable"] = TRUE /\ blk[b].sig
    <3>1. Says(out)
      BY <1>3, <1>7, <2>2 DEF Runs
    <3>2. out = "yes" /\ clean[b]
      BY <1>1, <2>2, <3>1 DEF Effect, Says, Writes
    <3>3. "ConEnable" \in Fields /\ "Run" \in Fields
      BY DEF Fields
    <3>4. dev[b]["ConEnable"] = TRUE /\ blk[b].sig
      BY <1>1, <3>2 DEF Stream
    <3>5. DOMAIN Request(b) = {"Run"} /\ Request(b)["Run"] = TRUE
      BY <1>1, StartDataAsks
    <3> QED
      BY <2>2, <3>2, <3>3, <3>4, <3>5 DEF Effect
  <2> QED
    BY <1>7, <2>1, <2>2 DEF Stream, Starting, Reads, Writes
<1>9. Settings(b)'
  <2>1. DOMAIN Request(b) \cap Params = {}
    BY <1>1, StartDataAsks, ParamsAssumption
  <2> QED
    BY <1>1, <1>7, <2>1, SettingsStay
<1> QED
  BY <1>6, <1>7, <1>8, <1>9, LaterMoves DEF Later, Effect

(* A read leaves the stream as it is.                                      *)
LEMMA ReadKeeps ==
  ASSUME Inv, NEW b \in Blocks, NEW out, Effect(b, out), blk[b].at \in Reads, clean'[b]
  PROVE  dev'[b] = dev[b] /\ clean[b]
<1>1. Request(b) = <<>> /\ Device(b)
  BY ReadsAsk, Opened
<1>2. CASE out = "yes"
  <2>1. dev'[b] = [f \in Fields |-> dev[b][f]]
    BY <1>1, <1>2 DEF Effect
  <2> QED
    BY <1>1, <2>1 DEF Device, Effect
<1> QED
  BY <1>2 DEF Effect

LEMMA WaitForRxDataMoves ==
  ASSUME Inv, NEW b \in Blocks, NEW out, WaitForRxData(b, out), Effect(b, out)
  PROVE  Moved(b)
<1>1. BlkTypes /\ Stream(b) /\ blk[b].at = "WaitData" /\ blk[b] \in Members
  BY Opened DEF WaitForRxData, BlkTypes
<1>2. blk[b].started = FALSE /\ blk[b].polls \in Nat
  BY <1>1 DEF Stream, Starting, Reads, Members
<1>3. PICK place \in {"WaitData", "running"}, result \in BOOLEAN, n \in Nat :
        /\ blk' = [blk EXCEPT ![b] = [@ EXCEPT !.at = place, !.started = result, !.polls = n]]
        /\ place = "WaitData" => ~result
  <2>1. CASE \E result \in BOOLEAN : Started(b, result)
    <3>1. PICK result \in BOOLEAN : Started(b, result)
      BY <2>1
    <3>2. blk' = [blk EXCEPT ![b] = [@ EXCEPT !.at = "running", !.started = result,
                                              !.polls = blk[b].polls]]
      BY <1>1, <3>1 DEF BlkTypes, Members, Started
    <3> QED
      BY <1>2, <3>2
  <2>2. CASE blk' = [blk EXCEPT ![b].polls = @ + 1]
    <3>1. blk' = [blk EXCEPT ![b] = [@ EXCEPT !.at = "WaitData", !.started = FALSE,
                                              !.polls = blk[b].polls + 1]]
      BY <1>1, <1>2, <2>2 DEF BlkTypes, Members
    <3>2. blk[b].polls + 1 \in Nat
      BY <1>2
    <3> QED
      BY <3>1, <3>2
  <2> QED
    BY <2>1, <2>2 DEF WaitForRxData
<1>4. place \in Places
  BY DEF Places, Reads
<1> DEFINE r == [blk[b] EXCEPT !.at = place, !.started = result, !.polls = n]
<1>5. r \in Members
  BY <1>1, <1>4 DEF Members
<1>6. BlkTypes' /\ blk'[b] = r /\ \A c \in Blocks \ {b} : blk'[c] = blk[c]
  BY <1>1, <1>3, <1>5, NewMembers
<1>7. /\ blk'[b].at = place /\ blk'[b].started = result /\ blk'[b].sig = blk[b].sig
      /\ blk'[b].val = blk[b].val /\ blk'[b].raced = blk[b].raced
      /\ blk'[b].seen = blk[b].seen /\ blk'[b].waited = blk[b].waited
      /\ blk'[b].stray = blk[b].stray /\ blk'[b].badStops = blk[b].badStops
  BY <1>1, <1>6 DEF Members
<1>8. Stream(b)'
  <2>1. clean'[b] => dev'[b] = dev[b] /\ clean[b]
    BY <1>1, ReadKeeps DEF Reads
  <2> QED
    BY <1>1, <1>3, <1>7, <2>1 DEF Stream, Runs, Starting, Reads, Writes
<1>9. Settings(b)'
  <2>1. DOMAIN Request(b) \cap Params = {}
    BY <1>1, ReadsAsk DEF Reads
  <2> QED
    BY <1>1, <1>7, <2>1, SettingsStay DEF Runs
<1> QED
  BY <1>6, <1>7, <1>8, <1>9, LaterMoves DEF Later, Effect

LEMMA GetRateMoves ==
  ASSUME Inv, NEW b \in Blocks, NEW out, GetRealMasterSampleRate(b, out), Effect(b, out)
  PROVE  Moved(b)
<1>1. BlkTypes /\ Stream(b) /\ Settings(b) /\ blk[b].at = "Rate" /\ blk[b] \in Members
  BY Opened DEF GetRealMasterSampleRate, BlkTypes
<1> DEFINE rate == out = "yes"
           r == [blk[b] EXCEPT !.at = "running", !.rate = rate]
<1>2. blk' = [blk EXCEPT ![b] = r]
  BY <1>1 DEF GetRealMasterSampleRate
<1>3. "running" \in Places /\ rate \in BOOLEAN
  BY DEF Places
<1> HIDE DEF rate
<1>4. r \in Members
  BY <1>1, <1>3 DEF Members
<1>5. BlkTypes' /\ blk'[b] = r /\ \A c \in Blocks \ {b} : blk'[c] = blk[c]
  BY <1>1, <1>2, <1>4, NewMembers
<1>6. /\ blk'[b].at = "running" /\ blk'[b].started = blk[b].started
      /\ blk'[b].sig = blk[b].sig
      /\ blk'[b].val = blk[b].val /\ blk'[b].raced = blk[b].raced
      /\ blk'[b].seen = blk[b].seen /\ blk'[b].waited = blk[b].waited
      /\ blk'[b].stray = blk[b].stray /\ blk'[b].badStops = blk[b].badStops
  BY <1>1, <1>5 DEF Members
<1>7. clean'[b] => dev'[b] = dev[b] /\ clean[b]
  BY <1>1, ReadKeeps DEF Reads
<1>8. Stream(b)'
  BY <1>1, <1>6, <1>7 DEF Stream, Runs, Starting, Reads, Writes
<1>9. Settings(b)'
  <2>1. DOMAIN Request(b) \cap Params = {}
    BY <1>1, ReadsAsk DEF Reads
  <2>2. CASE blk[b].started
    BY <1>1, <1>6, <2>1, <2>2, SettingsStay DEF Runs
  <2>3. CASE ~blk[b].started
    BY <1>6, <2>3 DEF Settings, Runs
  <2> QED
    BY <2>2, <2>3
<1> QED
  BY <1>5, <1>6, <1>8, <1>9, LaterMoves DEF Later, Effect

LEMMA OverMoves ==
  ASSUME Inv, NEW b \in Blocks, NEW result \in BOOLEAN, NEW sig \in BOOLEAN,
         Over(b, result, sig), updates' \in Nat, updates' >= updates,
         blk[b].at \in {"StopRun", "Disconnect"}, result => ~sig,
         clean'[b] /\ result => dev'[b]["Run"] = FALSE /\ dev'[b]["ConEnable"] = FALSE
  PROVE  Moved(b)
<1>1. /\ BlkTypes /\ Strays(b) /\ Waits(b) /\ updates \in Nat /\ blk[b] \in Members
      /\ blk[b].badStops \in Nat /\ blk[b].stray \in Nat /\ blk[b].seen \in Int
  BY Opened DEF BlkTypes, Types, Members
<1> DEFINE bad == IF result THEN blk[b].badStops ELSE blk[b].badStops + 1
           r == [blk[b] EXCEPT !.at = "doomed", !.stopped = result, !.sig = sig,
                               !.badStops = bad]
<1>2. blk' = [blk EXCEPT ![b] = r]
  BY <1>1 DEF Over
<1>3. /\ "doomed" \in Places /\ bad \in Nat
      /\ bad >= blk[b].badStops /\ (~result => bad >= blk[b].badStops + 1)
  BY <1>1 DEF Places
<1> HIDE DEF bad
<1>4. r \in Members
  BY <1>1, <1>3 DEF Members
<1>5. BlkTypes' /\ blk'[b] = r /\ \A c \in Blocks \ {b} : blk'[c] = blk[c]
  BY <1>1, <1>2, <1>4, NewMembers
<1>6. /\ blk'[b].at = "doomed" /\ blk'[b].stopped = result /\ blk'[b].sig = sig
      /\ blk'[b].seen = blk[b].seen /\ blk'[b].waited = blk[b].waited
      /\ blk'[b].stray = blk[b].stray /\ blk'[b].badStops = bad
  BY <1>1, <1>5 DEF Members
<1>7. Stream(b)'
  BY <1>6 DEF Stream, Runs, Starting, Reads, Writes
<1>8. Settings(b)'
  BY <1>6 DEF Settings, Runs
<1>9. Strays(b)'
  BY <1>1, <1>3, <1>6 DEF Strays
<1>10. Waits(b)'
  BY <1>1, <1>6 DEF Waits
<1> QED
  BY <1>5, <1>6, <1>7, <1>8, <1>9, <1>10 DEF Moved

LEMMA StopRunMoves ==
  ASSUME Inv, NEW b \in Blocks, NEW out, StopRun(b, out), Effect(b, out)
  PROVE  Moved(b)
<1>1. BlkTypes /\ blk[b].at = "StopRun" /\ blk[b] \in Members
  BY Opened DEF StopRun, BlkTypes
<1>2. CASE Says(out) /\ Goes(b, "Disconnect")
  <2> DEFINE r == [blk[b] EXCEPT !.at = "Disconnect"]
  <2>1. blk' = [blk EXCEPT ![b] = r]
    BY <1>1, <1>2 DEF Goes, BlkTypes, Members
  <2>2. "Disconnect" \in Places
    BY DEF Places, Writes
  <2>3. r \in Members
    BY <1>1, <2>2 DEF Members
  <2>4. BlkTypes' /\ blk'[b] = r /\ \A c \in Blocks \ {b} : blk'[c] = blk[c]
    BY <1>1, <2>1, <2>3, NewMembers
  <2>5. /\ blk'[b].at = "Disconnect"
        /\ blk'[b].seen = blk[b].seen /\ blk'[b].waited = blk[b].waited
        /\ blk'[b].stray = blk[b].stray /\ blk'[b].badStops = blk[b].badStops
    BY <1>1, <2>4 DEF Members
  <2>6. ASSUME clean'[b] PROVE dev'[b]["Run"] = FALSE /\ dev'[b]["ConEnable"] = FALSE
    <3>1. out = "yes"
      BY <1>1, <1>2, <2>6 DEF Effect, Says, Writes
    <3>2. "Run" \in Fields /\ "ConEnable" \in Fields
      BY DEF Fields
    <3> QED
      BY <1>1, <2>6, <3>1, <3>2, StopsAsk DEF Effect
  <2>7. Stream(b)'
    BY <2>5, <2>6 DEF Stream, Runs, Starting, Reads, Writes
  <2>8. Settings(b)'
    BY <2>5 DEF Settings, Runs
  <2> QED
    BY <2>4, <2>5, <2>7, <2>8, LaterMoves DEF Later, Effect
<1>3. CASE ~Says(out) /\ Over(b, FALSE, blk[b].sig)
  <2>1. blk[b].sig \in BOOLEAN /\ updates' \in Nat /\ updates' >= updates
    BY <1>1 DEF Members, Effect
  <2> QED
    BY <1>1, <1>3, <2>1, OverMoves
<1> QED
  BY <1>2, <1>3 DEF StopRun

LEMMA DisconnectMoves ==
  ASSUME Inv, NEW b \in Blocks, NEW out, Disconnect(b, out), Effect(b, out)
  PROVE  Moved(b)
<1>a. BlkTypes /\ Stream(b)
  BY Opened
<1>b. blk[b].at = "Disconnect" /\ Over(b, Says(out), FALSE)
  BY DEF Disconnect
<1>c. Says(out) \in BOOLEAN /\ updates' \in Nat /\ updates' >= updates
  BY DEF Says, Effect
<1>1. /\ BlkTypes /\ Stream(b) /\ blk[b].at = "Disconnect" /\ Over(b, Says(out), FALSE)
      /\ Says(out) \in BOOLEAN /\ updates' \in Nat /\ updates' >= updates
  BY <1>a, <1>b, <1>c
<1>2. ASSUME clean'[b], Says(out)
      PROVE  dev'[b]["Run"] = FALSE /\ dev'[b]["ConEnable"] = FALSE
  <2>1. out = "yes" /\ clean[b]
    BY <1>1, <1>2 DEF Effect, Says, Writes
  <2>2. dev[b]["Run"] = FALSE
    BY <1>1, <2>1 DEF Stream
  <2>3. "Run" \in Fields /\ "ConEnable" \in Fields
    BY DEF Fields
  <2>4. /\ DOMAIN Request(b) = IF b \in TxBlocks THEN {"Run", "ConEnable"}
                               ELSE {"ConEnable"}
        /\ Request(b)["ConEnable"] = FALSE
        /\ b \in TxBlocks => Request(b)["Run"] = FALSE
    BY <1>1, ConnectsAsk
  <2>5. dev'[b] = [f \in Fields |-> IF f \in DOMAIN Request(b) THEN Request(b)[f]
                                    ELSE dev[b][f]]
    BY <1>2, <2>1 DEF Effect
  <2> QED
    BY <2>2, <2>3, <2>4, <2>5
<1> HIDE DEF Says
<1> QED
  BY <1>1, <1>2, OverMoves

LEMMA HandlesMoves ==
  ASSUME Inv, NEW b \in Blocks, NEW out, Handles(b, out), Effect(b, out)
  PROVE  Moved(b)
BY StopDataMoves, UpdateRefMoves, CountMoves, WaitForRefUpdateMoves, SetMoves,
   ConnectMoves, StartDataMoves, WaitForRxDataMoves, GetRateMoves, StopRunMoves,
   DisconnectMoves DEF Handles

-----------------------------------------------------------------------------
(* The steps of the calls.                                                 *)

LEMMA SetterStays ==
  ASSUME SetterOK, setter' = setter, NEW b \in Blocks, blk'[b].at # "off",
         \A c \in Blocks \ {b} : blk'[c] = blk[c]
  PROVE  SetterOK'
<1>1. CASE setter = NoSetter
  BY <1>1 DEF SetterOK
<1>2. CASE /\ setter \in [b : Blocks, p : Params, v : Nat, at : {"calls", "waits", "keeps"}]
           /\ blk[setter.b].at # "off"
  BY <1>2 DEF SetterOK
<1> QED
  BY <1>1, <1>2 DEF SetterOK

(* Only the client's lock and its requests change.                         *)
LEMMA LinkSteps ==
  ASSUME Inv, NEW b \in Blocks, UNCHANGED <<blk, clean, setter, sets, refMode, dev, updates>>,
         DOMAIN link' = Blocks, \A c \in Blocks \ {b} : link'[c] = link[c], Link(b)'
  PROVE  Inv'
<1>1. Types' /\ SetterOK' /\ updates' >= updates
  BY Opened DEF Types, SetterOK, BlkTypes
<1>2. (Sound(b) /\ Strays(b) /\ Waits(b))'
  <2>1. Device(b)' /\ Stream(b)'
    BY Opened DEF Device, Stream, Runs
  <2>2. Settings(b)'
    BY Opened DEF Settings, Runs, Expected, SetterOn
  <2>3. Strays(b)' /\ Waits(b)'
    BY Opened DEF Strays, Waits
  <2> QED
    BY <2>1, <2>2, <2>3 DEF Sound
<1>3. \A c \in Blocks \ {b} : Same(c)
  BY DEF Same, SetterOn
<1> QED
  BY <1>1, <1>2, <1>3, OneAtATime DEF All

LEMMA CallBeginsKeeps ==
  ASSUME Inv, NEW b \in Blocks, CallBegins(b)
  PROVE  Inv'
<1>1. Types /\ Link(b) /\ blk[b].at \in Reads \cup Writes
  BY Opened DEF CallBegins
<1>2. Locks(b, "block", Request(b)) /\ UNCHANGED <<blk, clean, setter, sets, refMode, dev, updates>>
  BY DEF CallBegins
<1>3. /\ DOMAIN link' = Blocks /\ \A c \in Blocks \ {b} : link'[c] = link[c]
      /\ link'[b] = [call |-> [by |-> "block", req |-> Request(b)],
                     busy |-> [req |-> link'[b].busy.req, is |-> link'[b].busy.is]]
      /\ link'[b].busy.req \in {<<>>, link[b].busy.req}
  BY <1>1, <1>2, Locked
<1>4. link'[b].call.by = "block" /\ link'[b].call.req = Request(b)
  BY <1>3
<1>5. Request(b)' = Request(b) /\ blk[b].at # "off"
  BY <1>1, <1>2 DEF Request, Reads, Writes
<1>6. Link(b)'
  BY <1>1, <1>2, <1>3, <1>4, <1>5 DEF Link, None
<1> QED
  BY <1>2, <1>3, <1>6, LinkSteps

LEMMA BusyREQKeeps ==
  ASSUME Inv, NEW b \in Blocks, BusyREQ(b)
  PROVE  Inv'
<1>1. Types /\ Link(b) /\ UNCHANGED <<blk, clean, setter, sets, refMode, dev, updates>>
  BY Opened DEF BusyREQ
<1>2. link[b].busy.is = "posted" /\ link' = [link EXCEPT ![b].busy.is = "kept"]
  BY DEF BusyREQ
<1>3. /\ DOMAIN link' = Blocks /\ \A c \in Blocks \ {b} : link'[c] = link[c]
      /\ link'[b] = [call |-> link[b].call, busy |-> [req |-> link[b].busy.req, is |-> "kept"]]
  BY <1>1, <1>2 DEF Types, Link
<1>4. blk[b].at # "off"
  BY <1>1, <1>2 DEF Link, Idle, NoBusy, None
<1>5. Link(b)'
  <2>1. /\ link'[b].call = link[b].call /\ link'[b].busy.req = link[b].busy.req
        /\ link'[b] = [call |-> [by |-> link'[b].call.by, req |-> link'[b].call.req],
                       busy |-> [req |-> link'[b].busy.req, is |-> link'[b].busy.is]]
    BY <1>1, <1>3 DEF Link
  <2>2. Request(b)' = Request(b)
    BY <1>1 DEF Request
  <2> QED
    BY <1>1, <1>4, <2>1, <2>2 DEF Link, SetterOn
<1> QED
  BY <1>1, <1>3, <1>5, LinkSteps

LEMMA SendBusyReqKeeps ==
  ASSUME Inv, NEW b \in Blocks, SendBusyReq(b)
  PROVE  Inv'
<1>1. Types /\ Link(b) /\ UNCHANGED <<blk, clean, setter, sets, refMode, dev, updates>>
  BY Opened DEF SendBusyReq
<1>2. blk[b].at # "off"
  BY <1>1 DEF SendBusyReq, Link, Idle, NoBusy, None
<1>3. CASE Locks(b, "worker", link[b].busy.req)
  <2>1. /\ DOMAIN link' = Blocks /\ \A c \in Blocks \ {b} : link'[c] = link[c]
        /\ link'[b] = [call |-> [by |-> "worker", req |-> link[b].busy.req],
                       busy |-> [req |-> link'[b].busy.req, is |-> link'[b].busy.is]]
        /\ link'[b].busy.req \in {<<>>, link[b].busy.req}
    BY <1>1, <1>3, Locked
  <2>2. link'[b].call.by = "worker" /\ link'[b].call.req = link[b].busy.req
    BY <2>1
  <2>3. Link(b)'
    BY <1>1, <1>2, <2>1, <2>2 DEF Link, None
  <2> QED
    BY <1>1, <2>1, <2>3, LinkSteps
<1>4. CASE LeavesToWorker(b, link[b].busy.req)
  <2>1. /\ DOMAIN link' = Blocks /\ \A c \in Blocks \ {b} : link'[c] = link[c]
        /\ link'[b] = [call |-> link[b].call,
                       busy |-> [req |-> link[b].busy.req, is |-> "posted"]]
    BY <1>1, <1>4, Left
  <2>2. Link(b)'
    <3>1. /\ link'[b].call = link[b].call /\ link'[b].busy.req = link[b].busy.req
          /\ link'[b] = [call |-> [by |-> link'[b].call.by, req |-> link'[b].call.req],
                         busy |-> [req |-> link'[b].busy.req, is |-> link'[b].busy.is]]
      BY <1>1, <2>1 DEF Link
    <3>2. Request(b)' = Request(b)
      BY <1>1 DEF Request
    <3> QED
      BY <1>1, <1>2, <3>1, <3>2 DEF Link, SetterOn
  <2> QED
    BY <1>1, <2>1, <2>2, LinkSteps
<1> QED
  BY <1>3, <1>4 DEF SendBusyReq

LEMMA CallIsBusyKeeps ==
  ASSUME Inv, NEW b \in Blocks, CallIsBusy(b)
  PROVE  Inv'
<1>1. /\ Types /\ SetterOK /\ Link(b) /\ Device(b) /\ link[b].call.by # "block"
      /\ UNCHANGED <<setter, sets, refMode, dev, updates>>
      /\ clean \in [Blocks -> BOOLEAN]
  BY Opened DEF CallIsBusy, Types
<1>2. LeavesToWorker(b, Request(b)) /\ Handles(b, "told")
  BY DEF CallIsBusy
<1>3. clean' = [clean EXCEPT ![b] = clean[b] /\ blk[b].at \in Reads]
  BY DEF CallIsBusy
<1>4. /\ clean' \in [Blocks -> BOOLEAN] /\ clean'[b] = (clean[b] /\ blk[b].at \in Reads)
      /\ \A c \in Blocks \ {b} : clean'[c] = clean[c]
  BY <1>1, <1>3
<1>5. Device(b)'
  BY <1>1 DEF Device
<1>6. Effect(b, "told")
  <2>1. clean'[b] \in BOOLEAN /\ (clean'[b] => clean[b] /\ blk[b].at \in Reads)
    BY <1>4
  <2>2. clean'[b] => blk[b].at \notin Writes
    BY <2>1 DEF Reads, Writes
  <2>3. updates \in Nat
    BY <1>1 DEF Types
  <2> QED
    BY <1>1, <1>5, <2>1, <2>2, <2>3 DEF Effect
<1>7. Moved(b)
  BY <1>2, <1>6, HandlesMoves
<1>8. /\ link[b].call.by # None /\ DOMAIN link' = Blocks
      /\ \A c \in Blocks \ {b} : link'[c] = link[c]
      /\ link'[b] = [call |-> link[b].call, busy |-> [req |-> Request(b), is |-> "posted"]]
  BY <1>1, <1>2, Left
<1>9. Link(b)'
  <2>1. /\ link'[b].call = link[b].call /\ link'[b].busy.req = Request(b)
        /\ link'[b] = [call |-> [by |-> link'[b].call.by, req |-> link'[b].call.req],
                       busy |-> [req |-> link'[b].busy.req, is |-> link'[b].busy.is]]
    BY <1>1, <1>8 DEF Link
  <2>2. clean'[b] => clean[b] /\ DOMAIN Request(b) = {}
    BY <1>4, ReadsAsk
  <2>3. blk'[b].at # "off"
    BY <1>7 DEF Moved
  <2> QED
    BY <1>1, <1>8, <2>1, <2>2, <2>3 DEF Link, SetterOn
<1>10. Types' /\ SetterOK' /\ updates' >= updates
  <2>1. SetterOK'
    BY <1>1, <1>7, SetterStays DEF Moved
  <2> QED
    BY <1>1, <1>4, <1>7, <1>8, <2>1 DEF Types, Moved
<1>11. All(b)'
  BY <1>5, <1>7, <1>9 DEF All, Sound, Moved
<1>12. \A c \in Blocks \ {b} : Same(c)
  BY <1>1, <1>4, <1>7, <1>8 DEF Same, SetterOn, Moved
<1> QED
  BY <1>10, <1>11, <1>12, OneAtATime

LEMMA CallReturnsKeeps ==
  ASSUME Inv, NEW b \in Blocks, CallReturns(b)
  PROVE  Inv'
<1>1. PICK out \in Outcomes :
        /\ Ends(b, "block", out) /\ Handles(b, out)
        /\ clean' = [clean EXCEPT ![b] = clean[b] /\ (blk[b].at \in Reads \/ out # "lost")]
  BY DEF CallReturns
<1>2. /\ Types /\ SetterOK /\ Link(b) /\ Device(b)
      /\ UNCHANGED <<setter, sets, refMode>> /\ clean \in [Blocks -> BOOLEAN]
  BY Opened DEF CallReturns, Types
<1>3. /\ clean' \in [Blocks -> BOOLEAN]
      /\ clean'[b] = (clean[b] /\ (blk[b].at \in Reads \/ out # "lost"))
      /\ \A c \in Blocks \ {b} : clean'[c] = clean[c]
  BY <1>1, <1>2
<1>4. /\ link[b].call.by = "block" /\ DOMAIN link' = Blocks
      /\ \A c \in Blocks \ {b} : link'[c] = link[c] /\ dev'[c] = dev[c]
      /\ link'[b] = [call |-> NoCall, busy |-> link[b].busy]
      /\ DOMAIN dev' = Blocks /\ updates' \in Nat /\ updates' >= updates
      /\ dev'[b] = [f \in Fields |->
           IF out \in {"yes", "lost"} /\ f \in DOMAIN link[b].call.req
           THEN link[b].call.req[f] ELSE dev[b][f]]
      /\ Device(b)'
  BY <1>1, <1>2, Ended
<1>5. link[b].call.req = Request(b) /\ blk[b].at \in Reads \cup Writes
  BY <1>2, <1>4 DEF Link
<1>6. Effect(b, out)
  <2>1. /\ clean'[b] \in BOOLEAN /\ (clean'[b] => clean[b])
        /\ clean'[b] /\ out = "lost" => blk[b].at \in Reads
    BY <1>3
  <2>2. out = "yes" =>
          dev'[b] = [f \in Fields |-> IF f \in DOMAIN Request(b) THEN Request(b)[f]
                                      ELSE dev[b][f]]
    BY <1>4, <1>5
  <2>3. clean'[b] /\ out # "yes" => dev'[b] = dev[b]
    <3>1. SUFFICES ASSUME clean'[b], out # "yes"
                   PROVE  \A f \in Fields : dev'[b][f] = dev[b][f]
      BY <1>2, <1>4 DEF Device
    <3>2. out = "lost" => DOMAIN Request(b) = {}
      BY <2>1, <3>1, ReadsAsk
    <3>3. ~(out \in {"yes", "lost"} /\ \E f \in Fields : f \in DOMAIN link[b].call.req)
      BY <1>5, <3>1, <3>2
    <3> QED
      BY <1>4, <3>3
  <2>4. clean'[b] /\ blk[b].at \in Writes => out \in {"yes", "no"}
    BY <2>1 DEF Reads, Writes, Outcomes
  <2> QED
    BY <1>2, <1>4, <2>1, <2>2, <2>3, <2>4 DEF Effect
<1>7. Moved(b)
  BY <1>1, <1>6, HandlesMoves
<1>8. Link(b)'
  <2>1. /\ link'[b].call = NoCall /\ link'[b].busy = link[b].busy
        /\ link'[b] = [call |-> [by |-> link'[b].call.by, req |-> link'[b].call.req],
                       busy |-> [req |-> link'[b].busy.req, is |-> link'[b].busy.is]]
    BY <1>2, <1>4 DEF Link, NoCall
  <2>2. blk'[b].at # "off" /\ (clean'[b] => clean[b])
    BY <1>6, <1>7 DEF Moved, Effect
  <2> QED
    BY <1>2, <2>1, <2>2 DEF Link, NoCall, None
<1>9. Types' /\ SetterOK'
  <2>1. SetterOK'
    BY <1>2, <1>7, SetterStays DEF Moved
  <2> QED
    BY <1>2, <1>3, <1>4, <1>7, <2>1 DEF Types, Moved
<1>10. All(b)'
  BY <1>4, <1>7, <1>8 DEF All, Sound, Moved
<1>11. \A c \in Blocks \ {b} : Same(c)
  BY <1>2, <1>3, <1>4, <1>7 DEF Same, SetterOn, Moved
<1> QED
  BY <1>4, <1>9, <1>10, <1>11, OneAtATime

-----------------------------------------------------------------------------
(* The steps of a block's thread between its calls.                        *)

LEMMA ThreadSteps ==
  ASSUME Inv, NEW b \in Blocks, UNCHANGED <<link, clean, setter, sets, refMode, dev, updates>>,
         blk[b].at \in {"Build", "running"}, Moved(b)
  PROVE  Inv'
<1>1. Types /\ SetterOK /\ Link(b) /\ Device(b)
  BY Opened
<1>2. link[b].call.by # "block"
  BY <1>1 DEF Link, Reads, Writes
<1>3. Link(b)'
  BY <1>1, <1>2 DEF Link, Moved, SetterOn
<1>4. All(b)'
  BY <1>1, <1>3 DEF All, Sound, Device, Moved
<1>5. SetterOK'
  BY <1>1, SetterStays DEF Moved
<1>6. Types' /\ updates' >= updates
  BY <1>1 DEF Types, Moved
<1>7. \A c \in Blocks \ {b} : Same(c)
  BY DEF Same, SetterOn, Moved
<1> QED
  BY <1>4, <1>5, <1>6, <1>7, OneAtATime

LEMMA BuildKeeps ==
  ASSUME Inv, NEW b \in Blocks, Build(b)
  PROVE  Inv'
<1>1. /\ BlkTypes /\ Types /\ Stream(b) /\ Strays(b) /\ Waits(b) /\ blk[b] \in Members
      /\ blk[b].at = "Build"
      /\ UNCHANGED <<link, clean, setter, sets, refMode, dev, updates>>
  BY Opened DEF Build, BlkTypes
<1> DEFINE raced == SetterOn(b)
           map == [p \in Sent(b) |-> blk[b].val[p]]
           r == [blk[b] EXCEPT !.at = "Set", !.map = map, !.raced = raced]
<1>2. blk' = [blk EXCEPT ![b] = r]
  BY <1>1 DEF Build
<1>3. "Set" \in Places /\ raced \in BOOLEAN /\ (~raced => ~SetterOn(b))
  BY DEF Places, Writes, SetterOn
<1>m. map \in Maps
  <2>1. map \in [Sent(b) -> Int]
    BY <1>1, SentKnown DEF Members
  <2> QED
    BY <2>1 DEF Maps
<1> HIDE DEF raced, map
<1>4. r \in Members
  BY <1>1, <1>3, <1>m DEF Members
<1>5. BlkTypes' /\ blk'[b] = r /\ \A c \in Blocks \ {b} : blk'[c] = blk[c]
  BY <1>1, <1>2, <1>4, NewMembers
<1>6. /\ blk'[b].at = "Set" /\ blk'[b].started = blk[b].started /\ blk'[b].raced = raced
      /\ blk'[b].map = map /\ blk'[b].val = blk[b].val
      /\ blk'[b].seen = blk[b].seen /\ blk'[b].waited = blk[b].waited
      /\ blk'[b].stray = blk[b].stray /\ blk'[b].badStops = blk[b].badStops
  BY <1>1, <1>5 DEF Members
<1>7. Stream(b)'
  BY <1>1, <1>6 DEF Stream, Runs, Starting
<1>8. Settings(b)'
  BY <1>1, <1>3, <1>6 DEF Settings, Runs, SetterOn, map
<1>9. Strays(b)' /\ Waits(b)'
  <2>1. blk[b].stray \in Nat /\ blk[b].badStops \in Nat
    BY <1>1 DEF Members
  <2> QED
    BY <1>1, <1>6, <2>1 DEF Strays, Waits
<1>10. Moved(b)
  BY <1>5, <1>6, <1>7, <1>8, <1>9 DEF Moved
<1> QED
  BY <1>1, <1>10, ThreadSteps

(* A running block goes to ask for the rate, or is stopped.                *)
LEMMA GoesOn ==
  ASSUME Inv, NEW b \in Blocks, blk[b].at = "running",
         NEW place \in {"Rate", "StopRun"}, Goes(b, place),
         UNCHANGED <<link, clean, setter, sets, refMode, dev, updates>>
  PROVE  Inv'
<1>1. BlkTypes /\ Types /\ Stream(b) /\ Settings(b) /\ Strays(b) /\ Waits(b) /\ blk[b] \in Members
  BY Opened DEF BlkTypes
<1> DEFINE r == [blk[b] EXCEPT !.at = place]
<1>2. blk' = [blk EXCEPT ![b] = r]
  BY <1>1 DEF Goes
<1>3. place \in Places
  BY DEF Places, Reads, Writes
<1>4. r \in Members
  BY <1>1, <1>3 DEF Members
<1>5. BlkTypes' /\ blk'[b] = r /\ \A c \in Blocks \ {b} : blk'[c] = blk[c]
  BY <1>1, <1>2, <1>4, NewMembers
<1>6. /\ blk'[b].at = place /\ blk'[b].started = blk[b].started /\ blk'[b].raced = blk[b].raced
      /\ blk'[b].val = blk[b].val /\ blk'[b].sig = blk[b].sig
      /\ blk'[b].seen = blk[b].seen /\ blk'[b].waited = blk[b].waited
      /\ blk'[b].stray = blk[b].stray /\ blk'[b].badStops = blk[b].badStops
  BY <1>1, <1>5 DEF Members
<1>7. Stream(b)'
  BY <1>1, <1>6 DEF Stream, Runs, Starting
<1>8. Settings(b)'
  BY <1>1, <1>6 DEF Settings, Runs, Expected, SetterOn
<1>9. Strays(b)' /\ Waits(b)'
  <2>1. blk[b].stray \in Nat /\ blk[b].badStops \in Nat
    BY <1>1 DEF Members
  <2> QED
    BY <1>1, <1>6, <2>1 DEF Strays, Waits
<1>10. Moved(b)
  BY <1>5, <1>6, <1>7, <1>8, <1>9 DEF Moved
<1> QED
  BY <1>10, ThreadSteps

LEMMA StartKeeps ==
  ASSUME Inv, NEW b \in Blocks, Start(b)
  PROVE  Inv'
<1>1. /\ BlkTypes /\ Types /\ SetterOK /\ Link(b) /\ Device(b) /\ Strays(b) /\ blk[b] \in Members
      /\ blk[b].at = "off" /\ clean' = [clean EXCEPT ![b] = TRUE]
      /\ UNCHANGED <<link, setter, sets, refMode, dev, updates>>
  BY Opened DEF Start, BlkTypes
<1> DEFINE n == blk[b].starts + 1
           r == [blk[b] EXCEPT !.at = "StopData", !.starts = n, !.started = FALSE,
                               !.stopped = FALSE, !.seen = -1, !.waited = FALSE,
                               !.raced = FALSE, !.given = {}]
<1>2. blk' = [blk EXCEPT ![b] = r]
  BY DEF Start
<1>3. "StopData" \in Places /\ n \in Nat /\ -1 \in Int
  BY <1>1 DEF Places, Writes, Members
<1> HIDE DEF n
<1>4. r \in Members
  BY <1>1, <1>3 DEF Members
<1>5. BlkTypes' /\ blk'[b] = r /\ \A c \in Blocks \ {b} : blk'[c] = blk[c]
  BY <1>1, <1>2, <1>4, NewMembers
<1>6. /\ blk'[b].at = "StopData" /\ blk'[b].started = FALSE /\ blk'[b].stopped = FALSE
      /\ blk'[b].seen = -1 /\ blk'[b].waited = FALSE
      /\ blk'[b].stray = blk[b].stray /\ blk'[b].badStops = blk[b].badStops
  BY <1>1, <1>5 DEF Members
<1>7. Stream(b)' /\ Settings(b)' /\ Device(b)'
  BY <1>1, <1>6 DEF Stream, Settings, Device, Runs
<1>8. Strays(b)' /\ Waits(b)'
  <2>1. blk[b].stray \in Nat /\ blk[b].badStops \in Nat /\ updates \in Nat
    BY <1>1 DEF Members, Types
  <2> QED
    BY <1>1, <1>6, <2>1 DEF Strays, Waits
<1>9. Link(b)'
  <2>1. link'[b] = Idle
    BY <1>1 DEF Link
  <2> QED
    BY <2>1, <1>6 DEF Link, Idle, NoCall, NoBusy, None
<1>10. /\ clean' \in [Blocks -> BOOLEAN]
       /\ \A c \in Blocks \ {b} : clean'[c] = clean[c]
  BY <1>1 DEF Types
<1>11. SetterOK'
  BY <1>1, <1>5, <1>6, SetterStays
<1>12. Types' /\ updates' >= updates
  BY <1>1, <1>5, <1>10 DEF Types
<1>13. \A c \in Blocks \ {b} : Same(c)
  BY <1>1, <1>5, <1>10 DEF Same, SetterOn
<1> QED
  BY <1>7, <1>8, <1>9, <1>11, <1>12, <1>13, OneAtATime DEF All, Sound

LEMMA DeletedKeeps ==
  ASSUME Inv, NEW b \in Blocks, Deleted(b)
  PROVE  Inv'
<1>1. /\ BlkTypes /\ Types /\ SetterOK /\ Link(b) /\ Device(b) /\ Stream(b) /\ Strays(b)
      /\ Waits(b) /\ blk[b] \in Members
  BY Opened DEF BlkTypes
<1>2. /\ blk[b].at = "doomed" /\ ~SetterOn(b) /\ link' = [link EXCEPT ![b] = Idle]
      /\ UNCHANGED <<clean, setter, sets, refMode>>
  BY DEF Deleted
<1>3. PICK acted \in BOOLEAN : Acts(b, link[b].call.req, acted)
  BY DEF Deleted
<1>4. /\ DOMAIN dev' = Blocks /\ updates' \in Nat /\ updates' >= updates
      /\ \A c \in Blocks \ {b} : dev'[c] = dev[c]
      /\ dev'[b] = [f \in Fields |-> IF acted /\ f \in DOMAIN link[b].call.req
                                     THEN link[b].call.req[f] ELSE dev[b][f]]
      /\ Device(b)'
  <2>1. Types /\ Device(b)
    BY <1>1
  <2> QED
    BY <1>3, <2>1, DeviceActs
<1> DEFINE n == IF blk[b].sig /\ b \in TxBlocks THEN blk[b].stray + 1 ELSE blk[b].stray
           r == [blk[b] EXCEPT !.at = "off", !.sig = FALSE, !.stray = n]
<1>5. blk' = [blk EXCEPT ![b] = r]
  BY <1>1 DEF Deleted
<1>6. "off" \in Places /\ n \in Nat
  BY <1>1 DEF Places, Members
<1>7. n <= blk[b].badStops /\ (b \in RxBlocks => n = 0)
  <2>1. blk[b].stray \in Nat /\ blk[b].badStops \in Nat
    BY <1>1 DEF Members
  <2>2. b \in RxBlocks => b \notin TxBlocks
    BY BlocksAssumption
  <2> QED
    BY <1>1, <1>2, <2>1, <2>2 DEF Strays
<1> HIDE DEF n
<1>8. r \in Members
  BY <1>1, <1>6 DEF Members
<1>9. BlkTypes' /\ blk'[b] = r /\ \A c \in Blocks \ {b} : blk'[c] = blk[c]
  BY <1>1, <1>5, <1>8, NewMembers
<1>10. /\ blk'[b].at = "off" /\ blk'[b].sig = FALSE /\ blk'[b].stopped = blk[b].stopped
       /\ blk'[b].seen = blk[b].seen /\ blk'[b].waited = blk[b].waited
       /\ blk'[b].stray = n /\ blk'[b].badStops = blk[b].badStops
  BY <1>1, <1>9 DEF Members
<1>11. Stream(b)'
  <2>1. ASSUME clean[b] PROVE dev'[b] = dev[b]
    <3>1. DOMAIN link[b].call.req = {}
      BY <1>1, <1>2, <2>1 DEF Link, Reads, Writes
    <3> QED
      BY <1>1, <1>3, <3>1, EmptyActs
  <2> QED
    BY <1>1, <1>2, <1>10, <2>1 DEF Stream, Runs, Starting, Reads, Writes
<1>12. Settings(b)'
  BY <1>10 DEF Settings, Runs
<1>13. Strays(b)' /\ Waits(b)'
  <2>1. blk[b].stray \in Nat /\ blk[b].badStops \in Nat /\ updates \in Nat /\ blk[b].seen \in Int
    BY <1>1 DEF Members, Types
  <2>2. n + 0 = n
    BY <1>6
  <2> QED
    BY <1>1, <1>4, <1>7, <1>10, <2>1, <2>2 DEF Strays, Waits
<1>14. DOMAIN link' = Blocks /\ link'[b] = Idle /\ \A c \in Blocks \ {b} : link'[c] = link[c]
  BY <1>1, <1>2 DEF Types
<1>15. Link(b)'
  BY <1>10, <1>14 DEF Link, Idle, NoCall, NoBusy, None
<1>16. SetterOK'
  <2>1. CASE setter = NoSetter
    BY <1>2, <2>1 DEF SetterOK
  <2>2. CASE /\ setter \in [b : Blocks, p : Params, v : Nat, at : {"calls", "waits", "keeps"}]
             /\ blk[setter.b].at # "off"
    <3>1. setter.b # b
      BY <1>2 DEF SetterOn
    <3> QED
      BY <1>2, <1>9, <2>2, <3>1 DEF SetterOK
  <2> QED
    BY <1>1, <2>1, <2>2 DEF SetterOK
<1>17. Types'
  BY <1>1, <1>2, <1>4, <1>9, <1>14 DEF Types
<1>18. \A c \in Blocks \ {b} : Same(c)
  BY <1>2, <1>4, <1>9, <1>14 DEF Same, SetterOn
<1> QED
  BY <1>4, <1>11, <1>12, <1>13, <1>15, <1>16, <1>17, <1>18, OneAtATime DEF All, Sound

LEMMA WorkerReturnsKeeps ==
  ASSUME Inv, NEW b \in Blocks, WorkerReturns(b)
  PROVE  Inv'
<1>1. /\ BlkTypes /\ Types /\ SetterOK /\ Link(b) /\ Device(b) /\ Stream(b) /\ Settings(b)
      /\ Strays(b) /\ Waits(b)
      /\ UNCHANGED <<blk, clean, setter, sets, refMode>>
  BY Opened DEF WorkerReturns
<1>2. PICK out \in Outcomes : Ends(b, "worker", out)
  BY DEF WorkerReturns
<1>3. /\ link[b].call.by = "worker" /\ DOMAIN link' = Blocks
      /\ \A c \in Blocks \ {b} : link'[c] = link[c] /\ dev'[c] = dev[c]
      /\ link'[b] = [call |-> NoCall, busy |-> link[b].busy]
      /\ DOMAIN dev' = Blocks /\ updates' \in Nat /\ updates' >= updates
      /\ dev'[b] = [f \in Fields |->
           IF out \in {"yes", "lost"} /\ f \in DOMAIN link[b].call.req
           THEN link[b].call.req[f] ELSE dev[b][f]]
      /\ Device(b)'
  BY <1>1, <1>2, Ended
<1>4. clean[b] => dev'[b] = dev[b]
  <2>1. ASSUME clean[b] PROVE dev'[b] = [f \in Fields |-> dev[b][f]]
    <3>1. DOMAIN link[b].call.req = {}
      BY <1>1, <1>3, <2>1 DEF Link
    <3> QED
      BY <1>3, <3>1
  <2> QED
    BY <1>1, <2>1 DEF Device
<1>5. Stream(b)' /\ Settings(b)'
  <2>1. Stream(b)'
    BY <1>1, <1>4 DEF Stream, Runs
  <2>2. Settings(b)'
    BY <1>1, <1>4 DEF Settings, Runs, Expected, SetterOn
  <2> QED
    BY <2>1, <2>2
<1>6. Strays(b)' /\ Waits(b)'
  <2>1. updates \in Nat /\ blk[b].seen \in Int
    BY <1>1 DEF Types, BlkTypes, Members
  <2> QED
    BY <1>1, <1>3, <2>1 DEF Strays, Waits
<1>7. Link(b)'
  <2>1. /\ link'[b].call = NoCall /\ link'[b].busy = link[b].busy
        /\ link'[b] = [call |-> [by |-> link'[b].call.by, req |-> link'[b].call.req],
                       busy |-> [req |-> link'[b].busy.req, is |-> link'[b].busy.is]]
    BY <1>1, <1>3 DEF Link, NoCall
  <2>2. blk[b].at # "off"
    BY <1>1, <1>3 DEF Link, Idle, NoCall, None
  <2> QED
    BY <1>1, <2>1, <2>2 DEF Link, NoCall, None
<1>8. Types' /\ SetterOK'
  BY <1>1, <1>3 DEF Types, SetterOK, BlkTypes
<1>9. \A c \in Blocks \ {b} : Same(c)
  BY <1>1, <1>3 DEF Same, SetterOn
<1> QED
  BY <1>3, <1>5, <1>6, <1>7, <1>8, <1>9, OneAtATime DEF All, Sound

-----------------------------------------------------------------------------
(* The steps of the setters.                                               *)

(* The setter of b, as a value.                                            *)
LEMMA SetterKnown ==
  ASSUME Inv, NEW b \in Blocks, SetterOn(b)
  PROVE  /\ setter \in [b : Blocks, p : Params, v : Nat, at : {"calls", "waits", "keeps"}]
         /\ setter = [b |-> b, p |-> setter.p, v |-> setter.v, at |-> setter.at]
         /\ setter.p \in Params /\ setter.v \in Nat /\ blk[b].at # "off"
<1>1. SetterOK /\ b # None
  BY Opened, BlocksAssumption
<1>2. setter # NoSetter
  BY <1>1 DEF SetterOn, NoSetter
<1> QED
  BY <1>1, <1>2 DEF SetterOK, SetterOn

LEMMA OthersSetter ==
  ASSUME NEW b \in Blocks, setter.b \in {None, b}, setter'.b \in {None, b}
  PROVE  \A c \in Blocks \ {b} : ~SetterOn(c) /\ ~(SetterOn(c))'
BY BlocksAssumption DEF SetterOn

(* A setter that moves from one place to another is a setter still.        *)
LEMMA SetterMoves ==
  ASSUME Inv, NEW b \in Blocks, SetterOn(b), NEW place \in {"calls", "waits", "keeps"},
         SetterGoes(place), blk' = blk
  PROVE  /\ SetterOK' /\ (SetterOn(b))' /\ setter'.at = place
         /\ setter'.p = setter.p /\ setter'.v = setter.v
         /\ setter.b \in {None, b} /\ setter'.b \in {None, b}
<1>1. /\ setter \in [b : Blocks, p : Params, v : Nat, at : {"calls", "waits", "keeps"}]
      /\ setter.b = b /\ blk[b].at # "off"
  BY SetterKnown DEF SetterOn
<1>2. /\ setter' \in [b : Blocks, p : Params, v : Nat, at : {"calls", "waits", "keeps"}]
      /\ setter'.b = b /\ setter'.at = place /\ setter'.p = setter.p /\ setter'.v = setter.v
  BY <1>1 DEF SetterGoes
<1> QED
  BY <1>1, <1>2 DEF SetterOK, SetterOn

LEMMA SetterCallsKeeps ==
  ASSUME Inv, NEW b \in Blocks, NEW p \in Params, SetterCalls(b, p)
  PROVE  Inv'
<1>1. /\ BlkTypes /\ Types /\ Link(b) /\ Device(b) /\ Stream(b) /\ Settings(b)
      /\ Strays(b) /\ Waits(b) /\ blk[b] \in Members /\ sets \in Nat /\ blk[b].raced \in BOOLEAN
  BY Opened DEF BlkTypes, Types, Members
<1>2. /\ setter = NoSetter /\ blk[b].at \notin {"off", "doomed"}
      /\ sets' = sets + 1
      /\ setter' = [b |-> b, p |-> p, v |-> sets + 1, at |-> "calls"]
      /\ UNCHANGED <<link, clean, refMode, dev, updates>>
  BY DEF SetterCalls
<1> DEFINE raced == blk[b].raced \/ blk[b].at = "Set"
           r == [blk[b] EXCEPT !.raced = raced]
<1>3. blk' = [blk EXCEPT ![b] = r]
  BY <1>1 DEF SetterCalls, BlkTypes, Members
<1>4. /\ raced \in BOOLEAN /\ (~raced => ~blk[b].raced /\ blk[b].at # "Set")
  OBVIOUS
<1> HIDE DEF raced
<1>5. r \in Members
  BY <1>1, <1>4 DEF Members
<1>6. BlkTypes' /\ blk'[b] = r /\ \A c \in Blocks \ {b} : blk'[c] = blk[c]
  BY <1>1, <1>3, <1>5, NewMembers
<1>7. /\ blk'[b].at = blk[b].at /\ blk'[b].started = blk[b].started
      /\ blk'[b].stopped = blk[b].stopped /\ blk'[b].raced = raced
      /\ blk'[b].val = blk[b].val /\ blk'[b].sig = blk[b].sig /\ blk'[b].map = blk[b].map
      /\ blk'[b].seen = blk[b].seen /\ blk'[b].waited = blk[b].waited
      /\ blk'[b].base = blk[b].base
      /\ blk'[b].stray = blk[b].stray /\ blk'[b].badStops = blk[b].badStops
  BY <1>1, <1>6 DEF Members
<1>8. Device(b)' /\ Stream(b)' /\ Strays(b)' /\ Waits(b)'
  <2>1. Device(b)'
    BY <1>1, <1>2 DEF Device
  <2>2. Stream(b)'
    BY <1>1, <1>2, <1>7 DEF Stream, Runs
  <2>3. Strays(b)' /\ Waits(b)'
    BY <1>1, <1>2, <1>7 DEF Strays, Waits
  <2> QED
    BY <2>1, <2>2, <2>3
<1>9. Settings(b)'
  <2>1. \A q \in Params : Expected(b, q) = blk[b].val[q] /\ Expected(b, q)' = blk[b].val[q]
    BY <1>2, <1>7 DEF Expected, NoSetter, None
  <2> QED
    BY <1>1, <1>2, <1>4, <1>7, <2>1, SentKnown DEF Settings, Runs
<1>10. Link(b)'
  <2>1. ~SetterOn(b)
    BY <1>2, BlocksAssumption DEF SetterOn, NoSetter
  <2>2. Request(b)' = Request(b)
    BY <1>7 DEF Request
  <2> QED
    BY <1>1, <1>2, <1>7, <2>1, <2>2 DEF Link
<1>11. SetterOK'
  <2>1. setter' \in [b : Blocks, p : Params, v : Nat, at : {"calls", "waits", "keeps"}]
    BY <1>1, <1>2
  <2> QED
    BY <1>2, <1>7, <2>1 DEF SetterOK
<1>12. Types' /\ updates' >= updates
  BY <1>1, <1>2, <1>6 DEF Types
<1>13. \A c \in Blocks \ {b} : Same(c)
  <2>1. \A c \in Blocks \ {b} : ~SetterOn(c) /\ ~(SetterOn(c))'
    <3>1. setter.b = None /\ setter'.b = b
      BY <1>2 DEF NoSetter
    <3> QED
      BY <3>1, OthersSetter
  <2> QED
    BY <1>2, <1>6, <2>1 DEF Same
<1> QED
  BY <1>8, <1>9, <1>10, <1>11, <1>12, <1>13, OneAtATime DEF All, Sound

LEMMA SetterBeginsKeeps ==
  ASSUME Inv, NEW b \in Blocks, SetterBegins(b)
  PROVE  Inv'
<1>1. /\ BlkTypes /\ Types /\ Link(b) /\ Device(b) /\ Stream(b) /\ Settings(b)
      /\ Strays(b) /\ Waits(b)
  BY Opened
<1>2. /\ SetterOn(b) /\ setter.at = "calls" /\ SetterGoes("waits")
      /\ Locks(b, "setter", With({setter.p}, setter.v))
      /\ UNCHANGED <<blk, clean, sets, refMode, dev, updates>>
  BY DEF SetterBegins
<1>3. /\ SetterOK' /\ (SetterOn(b))' /\ setter'.at = "waits"
      /\ setter'.p = setter.p /\ setter'.v = setter.v
      /\ setter.b \in {None, b} /\ setter'.b \in {None, b} /\ blk[b].at # "off"
  BY <1>2, SetterMoves, SetterKnown
<1>4. /\ DOMAIN link' = Blocks /\ \A c \in Blocks \ {b} : link'[c] = link[c]
      /\ link'[b] = [call |-> [by |-> "setter", req |-> With({setter.p}, setter.v)],
                     busy |-> [req |-> link'[b].busy.req, is |-> link'[b].busy.is]]
      /\ link'[b].busy.req \in {<<>>, link[b].busy.req}
  BY <1>1, <1>2, Locked
<1>5. link'[b].call.by = "setter" /\ link'[b].call.req = With({setter.p}, setter.v)
  BY <1>4
<1>6. Link(b)'
  BY <1>1, <1>2, <1>3, <1>4, <1>5 DEF Link, None
<1>7. Device(b)' /\ Stream(b)' /\ Strays(b)' /\ Waits(b)'
  <2>1. Device(b)' /\ Stream(b)'
    BY <1>1, <1>2 DEF Device, Stream, Runs
  <2>2. Strays(b)' /\ Waits(b)'
    BY <1>1, <1>2 DEF Strays, Waits
  <2> QED
    BY <2>1, <2>2
<1>8. Settings(b)'
  <2>1. \A q \in Params : Expected(b, q)' = Expected(b, q)
    BY <1>2, <1>3 DEF Expected
  <2> QED
    BY <1>1, <1>2, <2>1, SentKnown DEF Settings, Runs
<1>9. \A c \in Blocks \ {b} : Same(c)
  <2>1. \A c \in Blocks \ {b} : ~SetterOn(c) /\ ~(SetterOn(c))'
    BY <1>3, OthersSetter
  <2> QED
    BY <1>2, <1>3, <1>4, <2>1 DEF Same
<1>10. Types' /\ updates' >= updates
  BY <1>1, <1>2, <1>4 DEF Types, BlkTypes
<1> QED
  BY <1>3, <1>6, <1>7, <1>8, <1>9, <1>10, OneAtATime DEF All, Sound

LEMMA SetterIsBusyKeeps ==
  ASSUME Inv, NEW b \in Blocks, SetterIsBusy(b)
  PROVE  Inv'
<1>1. /\ BlkTypes /\ Types /\ Link(b) /\ Device(b) /\ Stream(b) /\ Strays(b) /\ Waits(b)
      /\ clean \in [Blocks -> BOOLEAN]
  BY Opened DEF Types
<1>2. /\ SetterOn(b) /\ setter.at = "calls" /\ SetterGoes("keeps")
      /\ LeavesToWorker(b, With({setter.p}, setter.v))
      /\ clean' = [clean EXCEPT ![b] = FALSE]
      /\ UNCHANGED <<blk, sets, refMode, dev, updates>>
  BY DEF SetterIsBusy
<1>3. /\ SetterOK' /\ (SetterOn(b))'
      /\ setter.b \in {None, b} /\ setter'.b \in {None, b} /\ blk[b].at # "off"
  BY <1>2, SetterMoves, SetterKnown
<1>4. /\ DOMAIN link' = Blocks /\ \A c \in Blocks \ {b} : link'[c] = link[c]
      /\ link[b].call.by # None
      /\ link'[b] = [call |-> link[b].call,
                     busy |-> [req |-> With({setter.p}, setter.v), is |-> "posted"]]
  BY <1>1, <1>2, Left
<1>5. /\ clean' \in [Blocks -> BOOLEAN] /\ ~clean'[b]
      /\ \A c \in Blocks \ {b} : clean'[c] = clean[c]
  BY <1>1, <1>2
<1>6. Link(b)'
  <2>1. /\ link'[b].call = link[b].call
        /\ link'[b] = [call |-> [by |-> link'[b].call.by, req |-> link'[b].call.req],
                       busy |-> [req |-> link'[b].busy.req, is |-> link'[b].busy.is]]
    <3> DEFINE req == With({setter.p}, setter.v)
    <3>1. link'[b] = [call |-> link[b].call, busy |-> [req |-> req, is |-> "posted"]]
      BY <1>4
    <3>2. link[b].call = [by |-> link[b].call.by, req |-> link[b].call.req]
      BY <1>1 DEF Link
    <3> HIDE DEF req
    <3> QED
      BY <3>1, <3>2
  <2>2. Request(b)' = Request(b) /\ link[b].call.by # "setter"
    BY <1>1, <1>2 DEF Request, Link
  <2> QED
    BY <1>1, <1>2, <1>3, <1>4, <1>5, <2>1, <2>2 DEF Link
<1>7. Device(b)' /\ Stream(b)' /\ Settings(b)' /\ Strays(b)' /\ Waits(b)'
  <2>1. Device(b)' /\ Stream(b)' /\ Settings(b)'
    BY <1>1, <1>2, <1>5 DEF Device, Stream, Settings, Runs
  <2>2. Strays(b)' /\ Waits(b)'
    BY <1>1, <1>2 DEF Strays, Waits
  <2> QED
    BY <2>1, <2>2
<1>8. \A c \in Blocks \ {b} : Same(c)
  <2>1. \A c \in Blocks \ {b} : ~SetterOn(c) /\ ~(SetterOn(c))'
    BY <1>3, OthersSetter
  <2> QED
    BY <1>2, <1>3, <1>4, <1>5, <2>1 DEF Same
<1>9. Types' /\ updates' >= updates
  BY <1>1, <1>2, <1>4, <1>5 DEF Types, BlkTypes
<1> QED
  BY <1>3, <1>6, <1>7, <1>8, <1>9, OneAtATime DEF All, Sound

LEMMA SetterReturnsKeeps ==
  ASSUME Inv, NEW b \in Blocks, SetterReturns(b)
  PROVE  Inv'
<1>1. /\ BlkTypes /\ Types /\ Link(b) /\ Device(b) /\ Stream(b) /\ Settings(b)
      /\ Strays(b) /\ Waits(b) /\ clean \in [Blocks -> BOOLEAN]
      /\ SetterOn(b) /\ UNCHANGED <<blk, sets, refMode>>
  BY Opened DEF Types, SetterReturns
<1>2. PICK out \in Outcomes \cup {"unclear"} :
        /\ Ends(b, "setter", out)
        /\ IF Keeps(out) THEN SetterGoes("keeps") ELSE setter' = NoSetter
        /\ clean' = [clean EXCEPT ![b] = clean[b] /\ out # "lost"
                                         /\ (out = "unclear" => setter.p \notin Tolerant)]
  BY DEF SetterReturns
<1>3. /\ link[b].call.by = "setter" /\ DOMAIN link' = Blocks
      /\ \A c \in Blocks \ {b} : link'[c] = link[c] /\ dev'[c] = dev[c]
      /\ link'[b] = [call |-> NoCall, busy |-> link[b].busy]
      /\ DOMAIN dev' = Blocks /\ updates' \in Nat /\ updates' >= updates
      /\ dev'[b] = [f \in Fields |->
           IF out \in {"yes", "lost"} /\ f \in DOMAIN link[b].call.req
           THEN link[b].call.req[f] ELSE dev[b][f]]
      /\ Device(b)'
  BY <1>1, <1>2, Ended
<1>4. setter.at = "waits" /\ link[b].call.req = With({setter.p}, setter.v)
  BY <1>1, <1>3 DEF Link
<1>5. /\ setter.p \in Params /\ setter.b = b /\ blk[b].at # "off"
      /\ setter.p \notin {"Run", "ConEnable"}
  BY <1>1, SetterKnown, ParamsAssumption DEF SetterOn
<1>6. /\ clean' \in [Blocks -> BOOLEAN]
      /\ clean'[b] => clean[b] /\ out # "lost" /\ (out = "unclear" => setter.p \notin Tolerant)
      /\ \A c \in Blocks \ {b} : clean'[c] = clean[c]
  BY <1>1, <1>2
<1>7. /\ SetterOK'
      /\ setter.b \in {None, b} /\ setter'.b \in {None, b}
      /\ Keeps(out) => (SetterOn(b))' /\ setter'.at = "keeps"
                       /\ setter'.p = setter.p /\ setter'.v = setter.v
      /\ ~Keeps(out) => ~(SetterOn(b))'
  <2>1. CASE Keeps(out)
    BY <1>1, <1>2, <2>1, SetterMoves
  <2>2. CASE ~Keeps(out)
    BY <1>1, <1>2, <1>5, <2>2, BlocksAssumption DEF NoSetter, SetterOK, SetterOn
  <2> QED
    BY <2>1, <2>2
<1>8. dev'[b]["Run"] = dev[b]["Run"] /\ dev'[b]["ConEnable"] = dev[b]["ConEnable"]
  BY <1>3, <1>4, <1>5 DEF With, Fields
<1>9. Stream(b)'
  BY <1>1, <1>6, <1>8 DEF Stream, Runs
<1>10. Settings(b)'
  <2>1. SUFFICES ASSUME clean'[b], ~blk[b].raced
                 PROVE  /\ blk[b].at # "Set"
                        /\ Runs(b) \/ blk[b].at \in {"Connect", "StartData"} =>
                             \A p \in Sent(b) : dev'[b][p] = Expected(b, p)'
    BY <1>1 DEF Settings, Runs
  <2>2. clean[b] /\ out # "lost" /\ (out = "unclear" => setter.p \notin Tolerant)
    BY <1>6, <2>1
  <2>3. blk[b].at # "Set"
    BY <1>1, <2>1, <2>2 DEF Settings
  <2>4. ASSUME Runs(b) \/ blk[b].at \in {"Connect", "StartData"}, NEW p \in Sent(b)
        PROVE  dev'[b][p] = Expected(b, p)'
    <3>1. dev[b][p] = blk[b].val[p] /\ p \in Fields
      BY <1>1, <1>4, <2>1, <2>2, <2>4, SentKnown DEF Settings, Expected, Fields
    <3>2. dev'[b][p] = IF out = "yes" /\ p = setter.p THEN setter.v ELSE blk[b].val[p]
      BY <1>3, <1>4, <2>2, <3>1 DEF With
    <3>3. Keeps(out) <=> out = "yes"
      BY <1>2, <2>2 DEF Keeps, Says, Outcomes
    <3>4. Expected(b, p)' = IF out = "yes" /\ p = setter.p THEN setter.v ELSE blk[b].val[p]
      BY <1>1, <1>7, <3>3 DEF Expected
    <3> QED
      BY <3>2, <3>4
  <2> QED
    BY <2>3, <2>4
<1>11. Strays(b)' /\ Waits(b)'
  <2>1. updates \in Nat /\ blk[b].seen \in Int
    BY <1>1 DEF Types, BlkTypes, Members
  <2> QED
    BY <1>1, <1>3, <2>1 DEF Strays, Waits
<1>12. Link(b)'
  <2>1. /\ link'[b].call = NoCall /\ link'[b].busy = link[b].busy
        /\ link'[b] = [call |-> [by |-> link'[b].call.by, req |-> link'[b].call.req],
                       busy |-> [req |-> link'[b].busy.req, is |-> link'[b].busy.is]]
    BY <1>1, <1>3 DEF Link, NoCall
  <2> QED
    BY <1>1, <1>5, <1>6, <2>1 DEF Link, NoCall, None
<1>13. \A c \in Blocks \ {b} : Same(c)
  <2>1. \A c \in Blocks \ {b} : ~SetterOn(c) /\ ~(SetterOn(c))'
    BY <1>7, OthersSetter
  <2> QED
    BY <1>1, <1>3, <1>6, <1>7, <2>1 DEF Same
<1>14. Types'
  BY <1>1, <1>3, <1>6 DEF Types, BlkTypes
<1> QED
  BY <1>3, <1>7, <1>9, <1>10, <1>11, <1>12, <1>13, <1>14, OneAtATime DEF All, Sound

LEMMA SetterKeepsKeeps ==
  ASSUME Inv, NEW b \in Blocks, SetterKeeps(b)
  PROVE  Inv'
<1>1. /\ BlkTypes /\ Types /\ Link(b) /\ Device(b) /\ Stream(b) /\ Settings(b)
      /\ Strays(b) /\ Waits(b) /\ blk[b] \in Members
  BY Opened DEF BlkTypes
<1>2. /\ SetterOn(b) /\ setter.at = "keeps" /\ setter' = NoSetter
      /\ UNCHANGED <<link, clean, sets, refMode, dev, updates>>
  BY DEF SetterKeeps
<1>3. setter.p \in Params /\ setter.v \in Nat /\ setter.b = b
  BY <1>2, SetterKnown DEF SetterOn
<1> DEFINE val == [blk[b].val EXCEPT ![setter.p] = setter.v]
           given == blk[b].given \cup {setter.p}
           r == [blk[b] EXCEPT !.val = val, !.given = given]
<1>4. blk' = [blk EXCEPT ![b] = r]
  BY <1>1 DEF SetterKeeps, BlkTypes, Members
<1>5. /\ val \in [Params -> Int]
      /\ \A p \in Params : val[p] = IF p = setter.p THEN setter.v ELSE blk[b].val[p]
      /\ given \in SUBSET Params
  BY <1>1, <1>3 DEF Members
<1> HIDE DEF val, given
<1>6. r \in Members
  BY <1>1, <1>5 DEF Members
<1>7. BlkTypes' /\ blk'[b] = r /\ \A c \in Blocks \ {b} : blk'[c] = blk[c]
  BY <1>1, <1>4, <1>6, NewMembers
<1>8. /\ blk'[b].at = blk[b].at /\ blk'[b].started = blk[b].started
      /\ blk'[b].stopped = blk[b].stopped /\ blk'[b].raced = blk[b].raced
      /\ blk'[b].val = val /\ blk'[b].sig = blk[b].sig /\ blk'[b].map = blk[b].map
      /\ blk'[b].seen = blk[b].seen /\ blk'[b].waited = blk[b].waited
      /\ blk'[b].base = blk[b].base
      /\ blk'[b].stray = blk[b].stray /\ blk'[b].badStops = blk[b].badStops
  BY <1>1, <1>7 DEF Members
<1>9. Device(b)' /\ Stream(b)' /\ Strays(b)' /\ Waits(b)'
  <2>1. Device(b)'
    BY <1>1, <1>2 DEF Device
  <2>2. Stream(b)'
    BY <1>1, <1>2, <1>8 DEF Stream, Runs
  <2>3. Strays(b)' /\ Waits(b)'
    BY <1>1, <1>2, <1>8 DEF Strays, Waits
  <2> QED
    BY <2>1, <2>2, <2>3
<1>10. Settings(b)'
  <2>1. \A p \in Params : Expected(b, p)' = Expected(b, p)
    BY <1>2, <1>5, <1>8 DEF Expected, NoSetter, None
  <2>2. clean[b] /\ ~blk[b].raced => blk[b].at # "Set"
    BY <1>1, <1>2 DEF Settings
  <2> QED
    BY <1>1, <1>2, <1>8, <2>1, <2>2, SentKnown DEF Settings, Runs
<1>11. Link(b)'
  <2>1. link[b].call.by # "setter"
    BY <1>1, <1>2 DEF Link
  <2>2. Request(b)' = Request(b)
    BY <1>8 DEF Request
  <2> QED
    BY <1>1, <1>2, <1>8, <2>1, <2>2 DEF Link
<1>12. SetterOK'
  BY <1>2 DEF SetterOK
<1>13. Types' /\ updates' >= updates
  BY <1>1, <1>2, <1>7 DEF Types
<1>14. \A c \in Blocks \ {b} : Same(c)
  <2>1. setter.b = b /\ setter'.b = None
    BY <1>2, <1>3 DEF NoSetter
  <2>2. \A c \in Blocks \ {b} : ~SetterOn(c) /\ ~(SetterOn(c))'
    BY <2>1, OthersSetter
  <2> QED
    BY <1>2, <1>7, <2>2 DEF Same
<1> QED
  BY <1>9, <1>10, <1>11, <1>12, <1>13, <1>14, OneAtATime DEF All, Sound

-----------------------------------------------------------------------------
(* The invariant, from the initial states on.                              *)

LEMMA InitInv == Init => Inv
<1> SUFFICES ASSUME Init PROVE Inv
  OBVIOUS
<1> DEFINE zero == [p \in Params |-> 0]
           r == [at |-> "off", val |-> zero, map |-> <<>>,
                 base |-> 0, polls |-> 0, sig |-> FALSE, rate |-> FALSE,
                 starts |-> 0,
                 started |-> FALSE, stopped |-> FALSE, seen |-> -1, waited |-> FALSE,
                 raced |-> FALSE, given |-> {}, stray |-> 0, badStops |-> 0]
<1>1. r \in Members
  <2>1. /\ zero \in [Params -> Int] /\ "off" \in Places /\ -1 \in Int
        /\ <<>> \in Maps /\ {} \in SUBSET Params
    BY DEF Places, Maps
  <2> HIDE DEF zero
  <2> QED
    BY <2>1 DEF Members
<1>2. blk = [b \in Blocks |-> r]
  BY DEF Init
<1>3. Types /\ SetterOK
  BY <1>1, <1>2 DEF Init, Types, BlkTypes, SetterOK
<1>4. ASSUME NEW b \in Blocks
      PROVE  /\ link[b] = Idle
             /\ blk[b].at = "off" /\ ~blk[b].started /\ ~blk[b].stopped
             /\ ~blk[b].waited /\ blk[b].seen = -1
             /\ blk[b].stray = 0 /\ blk[b].badStops = 0
             /\ Device(b) /\ updates = 0
  <2>1. Device(b)
    BY DEF Init, Device, Fields
  <2> QED
    BY <1>2, <2>1 DEF Init
<1>5. ASSUME NEW b \in Blocks PROVE Link(b)
  BY <1>4 DEF Link, Idle, NoCall, NoBusy, None
<1>6. ASSUME NEW b \in Blocks PROVE Stream(b) /\ Settings(b)
  BY <1>4 DEF Stream, Settings, Runs
<1>7. ASSUME NEW b \in Blocks PROVE Strays(b) /\ Waits(b)
  BY <1>4 DEF Strays, Waits
<1> QED
  BY <1>3, <1>4, <1>5, <1>6, <1>7 DEF Inv, Sound

LEMMA StutterKeeps ==
  ASSUME Inv, UNCHANGED vars
  PROVE  Inv'
<1>1. Types' /\ SetterOK'
  BY DEF Inv, Types, BlkTypes, SetterOK, vars
<1>2. ASSUME NEW b \in Blocks PROVE All(b)'
  <2>1. All(b) /\ BlkTypes /\ updates \in Nat /\ updates' \in Nat /\ updates' >= updates
    BY Opened DEF Types, vars
  <2>2. Same(b)
    BY DEF Same, SetterOn, vars
  <2> QED
    BY <2>1, <2>2, OthersKeep
<1> QED
  BY <1>1, <1>2 DEF Inv, All

LEMMA NextKeeps ==
  ASSUME Inv, [Next]_vars
  PROVE  Inv'
<1>1. ASSUME NEW b \in Blocks, Start(b) PROVE Inv'
  BY <1>1, StartKeeps
<1>2. ASSUME NEW b \in Blocks, BlockThread(b) PROVE Inv'
  BY <1>2, CallBeginsKeeps, CallIsBusyKeeps, CallReturnsKeeps, BuildKeeps, DeletedKeeps
     DEF BlockThread, BlockCall
<1>3. ASSUME NEW b \in Blocks, NeedsRate(b) PROVE Inv'
  BY <1>3, GoesOn DEF NeedsRate
<1>4. ASSUME NEW b \in Blocks, Stop(b) PROVE Inv'
  BY <1>4, GoesOn DEF Stop
<1>5. ASSUME NEW b \in Blocks, Setter(b) PROVE Inv'
  BY <1>5, SetterBeginsKeeps, SetterIsBusyKeeps, SetterReturnsKeeps, SetterKeepsKeeps
     DEF Setter
<1>6. ASSUME NEW b \in Blocks, NEW p \in Params, SetterCalls(b, p) PROVE Inv'
  BY <1>6, SetterCallsKeeps
<1>7. ASSUME NEW b \in Blocks, Worker(b) PROVE Inv'
  BY <1>7, BusyREQKeeps, SendBusyReqKeeps, WorkerReturnsKeeps DEF Worker
<1> QED
  BY <1>1, <1>2, <1>3, <1>4, <1>5, <1>6, <1>7, StutterKeeps DEF Next

(* What a block's members, its client's requests and its stream in the     *)
(* device have to do with each other, always.                              *)
THEOREM InvHolds == Spec => []Inv
<1>1. Inv /\ [Next]_vars => Inv'
  BY NextKeeps
<1> QED
  BY <1>1, InitInv, PTL DEF Spec

(* start returned true, and nothing was left to the worker or lost: the    *)
(* device runs and connects the stream, and there is a signal client.      *)
THEOREM StartedIsRunningHolds == Spec => []StartedIsRunning
<1>1. Inv => StartedIsRunning
  BY DEF Inv, Sound, Stream, Runs, StartedIsRunning
<1> QED
  BY <1>1, InvHolds, PTL

(* stop returned true, with the same proviso: the stream is quiet and has  *)
(* no signal client until the next start.                                  *)
THEOREM StoppedIsQuietHolds == Spec => []StoppedIsQuiet
<1>1. Inv => StoppedIsQuiet
  BY DEF Inv, Sound, Stream, StoppedIsQuiet
<1> QED
  BY <1>1, InvHolds, PTL

(* At most one stray signal client for each stop of a transmitter that     *)
(* returned false, and never one of a receiver.                            *)
THEOREM StrayByBadStopHolds == Spec => []StrayByBadStop
<1>1. Inv => StrayByBadStop
  <2> SUFFICES ASSUME Inv, NEW b \in Blocks
               PROVE  /\ blk[b].stray <= blk[b].badStops
                      /\ b \in RxBlocks => blk[b].stray = 0
    BY DEF StrayByBadStop
  <2>1. Strays(b) /\ blk[b].stray \in Nat /\ blk[b].badStops \in Nat
    BY Opened DEF BlkTypes, Members
  <2> QED
    BY <2>1 DEF Strays
<1> QED
  BY <1>1, InvHolds, PTL

(* A wait for the reference that succeeded after an answered look means    *)
(* that the reference was updated in between.                              *)
THEOREM WaitMeansUpdateHolds == Spec => []WaitMeansUpdate
<1>1. Inv => WaitMeansUpdate
  BY DEF Inv, Waits, WaitMeansUpdate
<1> QED
  BY <1>1, InvHolds, PTL

-----------------------------------------------------------------------------
(* What start does not send: the gain in the modes that set it themselves. *)

(* A setter of this session has had it set.                                *)
Given(b, p) ==
  p \in blk[b].given \/ (SetterOn(b) /\ setter.at = "keeps" /\ setter.p = p)

(* start's map has none of it, and a clean session's device has what the   *)
(* session has given it.                                                   *)
Unsent(b) ==
  /\ blk[b].at = "Set" => DOMAIN blk[b].map = Sent(b)
  /\ clean[b] => \A p \in Params \ Sent(b) : Given(b, p) => dev[b][p] = Expected(b, p)

(* A step that changes neither what is given nor what the device has.      *)
LEMMA UnsentStays ==
  ASSUME NEW b \in Blocks, Unsent(b),
         blk'[b].val = blk[b].val, blk'[b].given = blk[b].given,
         blk'[b].at = "Set" => DOMAIN blk'[b].map = Sent(b),
         clean'[b] => clean[b],
         clean'[b] => \A p \in Params \ Sent(b) : dev'[b][p] = dev[b][p],
         \A p \in Params \ Sent(b) : Given(b, p)' => Given(b, p),
         \A p \in Params \ Sent(b) : Expected(b, p)' = Expected(b, p)
  PROVE  Unsent(b)'
BY DEF Unsent

(* One whose setter does not move.                                         *)
LEMMA UnsentSteps ==
  ASSUME NEW b \in Blocks, Unsent(b), setter' = setter,
         blk'[b].val = blk[b].val, blk'[b].given = blk[b].given,
         blk'[b].at = "Set" => DOMAIN blk'[b].map = Sent(b),
         clean'[b] => clean[b],
         clean'[b] => \A p \in Params \ Sent(b) : dev'[b][p] = dev[b][p]
  PROVE  Unsent(b)'
<1>1. \A p \in Params : Given(b, p)' <=> Given(b, p)
  BY DEF Given, SetterOn
<1>2. \A p \in Params : Expected(b, p)' = Expected(b, p)
  BY DEF Expected, SetterOn
<1> QED
  BY <1>1, <1>2, UnsentStays

(* The others keep theirs.                                                 *)
Apart(b) ==
  /\ blk'[b] = blk[b] /\ clean'[b] = clean[b] /\ dev'[b] = dev[b]
  /\ (SetterOn(b))' <=> SetterOn(b)
  /\ SetterOn(b) => setter' = setter

LEMMA UnsentApart ==
  ASSUME NEW b \in Blocks, Unsent(b), Apart(b)
  PROVE  Unsent(b)'
<1>1. \A p \in Params : Given(b, p)' <=> Given(b, p)
  BY DEF Given, Apart
<1>2. \A p \in Params : Expected(b, p)' = Expected(b, p)
  BY DEF Expected, Apart
<1> QED
  BY <1>1, <1>2, UnsentStays DEF Apart, Unsent

(* No request of start, work or stop has a parameter that start does not   *)
(* send.                                                                   *)
LEMMA UnsentAsk ==
  ASSUME NEW b \in Blocks, Unsent(b), NEW p \in Params \ Sent(b)
  PROVE  p \notin DOMAIN Request(b)
<1>1. p \notin {"Run", "ConEnable", "TimeBase"}
  BY ParamsAssumption
<1>2. CASE blk[b].at = "Set"
  BY <1>2 DEF Unsent, Request
<1>3. CASE blk[b].at # "Set"
  BY <1>1, <1>3 DEF Request, With
<1> QED
  BY <1>2, <1>3

(* The handlers leave alone what is given.                                 *)
Untouched(b) ==
  /\ blk'[b].val = blk[b].val /\ blk'[b].given = blk[b].given
  /\ blk'[b].at # "Set"
  /\ \A c \in Blocks \ {b} : blk'[c] = blk[c]

LEMMA HandlesLeave ==
  ASSUME BlkTypes, NEW b \in Blocks, NEW out, Handles(b, out)
  PROVE  Untouched(b)
<1>1. DOMAIN blk = Blocks /\ blk[b] \in Members
  BY DEF BlkTypes
<1>2. ASSUME NEW place, place # "Set", Goes(b, place) PROVE Untouched(b)
  BY <1>1, <1>2 DEF Goes, Untouched, Members
<1>3. ASSUME NEW result, Started(b, result) PROVE Untouched(b)
  BY <1>1, <1>3 DEF Started, Untouched, Members
<1>4. ASSUME NEW result, NEW sig, Over(b, result, sig) PROVE Untouched(b)
  BY <1>1, <1>4 DEF Over, Untouched, Members
<1>5. CASE StopData(b)
  BY <1>2, <1>5 DEF StopData
<1>6. CASE UpdateRef(b, out)
  BY <1>2, <1>6 DEF UpdateRef, SetRef, CheckRefLock, AfterLock
<1>7. CASE Count(b, out)
  BY <1>1, <1>7 DEF Count, Untouched, Members
<1>8. CASE WaitForRefUpdate(b, out)
  BY <1>1, <1>2, <1>8 DEF WaitForRefUpdate, Untouched, Members
<1>9. CASE Set(b, out)
  BY <1>1, <1>9 DEF Set, Untouched, Members
<1>10. CASE Connect(b, out)
  <2>1. ASSUME NEW place, place # "Set",
               blk' = [blk EXCEPT ![b].at = place, ![b].sig = TRUE]
        PROVE  Untouched(b)
    BY <1>1, <2>1 DEF Untouched, Members
  <2> QED
    BY <1>3, <1>10, <2>1 DEF Connect
<1>11. CASE StartData(b, out)
  <2>1. CASE blk' = [blk EXCEPT ![b].at = "WaitData", ![b].polls = 0]
    BY <1>1, <2>1 DEF Untouched, Members
  <2> QED
    BY <1>3, <1>11, <2>1 DEF StartData
<1>12. CASE WaitForRxData(b, out)
  BY <1>1, <1>3, <1>12 DEF WaitForRxData, Untouched, Members
<1>13. CASE GetRealMasterSampleRate(b, out)
  BY <1>1, <1>13 DEF GetRealMasterSampleRate, Untouched, Members
<1>14. CASE StopRun(b, out)
  BY <1>2, <1>4, <1>14 DEF StopRun
<1>15. CASE Disconnect(b, out)
  BY <1>4, <1>15 DEF Disconnect
<1> QED
  BY <1>5, <1>6, <1>7, <1>8, <1>9, <1>10, <1>11, <1>12, <1>13, <1>14, <1>15 DEF Handles

LEMMA CallUnsent ==
  ASSUME Inv, NEW b \in Blocks, BlockCall(b), \A c \in Blocks : Unsent(c)
  PROVE  \A c \in Blocks : Unsent(c)'
<1>1. Types /\ BlkTypes /\ Link(b) /\ Device(b) /\ clean \in [Blocks -> BOOLEAN]
  BY Opened DEF Types
<1>2. CASE CallBegins(b)
  BY <1>2, UnsentApart DEF CallBegins, Apart, SetterOn
<1>3. CASE CallIsBusy(b)
  <2>1. Untouched(b)
    BY <1>1, <1>3, HandlesLeave DEF CallIsBusy
  <2>2. clean' = [clean EXCEPT ![b] = clean[b] /\ blk[b].at \in Reads]
    BY <1>3 DEF CallIsBusy
  <2>3. setter' = setter /\ dev' = dev
    BY <1>3 DEF CallIsBusy
  <2>4. (clean'[b] => clean[b]) /\ \A c \in Blocks \ {b} : clean'[c] = clean[c]
    BY <1>1, <2>2
  <2>5. Unsent(b)'
    BY <2>1, <2>3, <2>4, UnsentSteps DEF Untouched
  <2>6. \A c \in Blocks \ {b} : Apart(c)
    BY <2>1, <2>3, <2>4 DEF Apart, Untouched, SetterOn
  <2> QED
    BY <2>5, <2>6, UnsentApart
<1>4. CASE CallReturns(b)
  <2>1. PICK out \in Outcomes :
          /\ Ends(b, "block", out) /\ Handles(b, out)
          /\ clean' = [clean EXCEPT ![b] = clean[b] /\ (blk[b].at \in Reads \/ out # "lost")]
    BY <1>4 DEF CallReturns
  <2>2. Untouched(b)
    BY <1>1, <2>1, HandlesLeave
  <2>3. setter' = setter
    BY <1>4 DEF CallReturns
  <2>4. (clean'[b] => clean[b]) /\ \A c \in Blocks \ {b} : clean'[c] = clean[c]
    BY <1>1, <2>1
  <2>e. Types /\ Link(b) /\ Device(b) /\ Ends(b, "block", out)
    BY <1>1, <2>1
  <2>5. /\ link[b].call.by = "block" /\ DOMAIN link' = Blocks
        /\ \A c \in Blocks \ {b} : link'[c] = link[c] /\ dev'[c] = dev[c]
        /\ link'[b] = [call |-> NoCall, busy |-> link[b].busy]
        /\ DOMAIN dev' = Blocks /\ updates' \in Nat /\ updates' >= updates
        /\ dev'[b] = [f \in Fields |->
             IF out \in {"yes", "lost"} /\ f \in DOMAIN link[b].call.req
             THEN link[b].call.req[f] ELSE dev[b][f]]
        /\ Device(b)'
    BY <2>e, Ended
  <2>6. link[b].call.req = Request(b)
    BY <1>1, <2>5 DEF Link
  <2>7. \A p \in Params \ Sent(b) : dev'[b][p] = dev[b][p]
    BY <2>5, <2>6, UnsentAsk DEF Fields
  <2>8. Unsent(b)'
    BY <2>2, <2>3, <2>4, <2>7, UnsentSteps DEF Untouched
  <2>9. \A c \in Blocks \ {b} : Apart(c)
    BY <2>2, <2>3, <2>4, <2>5 DEF Apart, Untouched, SetterOn
  <2> QED
    BY <2>8, <2>9, UnsentApart
<1> QED
  BY <1>2, <1>3, <1>4 DEF BlockCall

(* start, the making of the map, and the steps that only move the block.   *)
LEMMA ThreadUnsent ==
  ASSUME Inv, NEW b \in Blocks, Start(b) \/ Build(b) \/ NeedsRate(b) \/ Stop(b),
         \A c \in Blocks : Unsent(c)
  PROVE  \A c \in Blocks : Unsent(c)'
<1>1. /\ DOMAIN blk = Blocks /\ blk[b] \in Members /\ clean \in [Blocks -> BOOLEAN]
      /\ setter' = setter /\ dev' = dev /\ \A c \in Blocks \ {b} : clean'[c] = clean[c]
  BY Opened DEF Types, BlkTypes, Start, Build, NeedsRate, Stop
<1>2. \A c \in Blocks \ {b} : blk'[c] = blk[c]
  BY <1>1 DEF Start, Build, NeedsRate, Stop, Goes
<1>3. \A c \in Blocks \ {b} : Unsent(c)'
  <2>1. \A c \in Blocks \ {b} : Apart(c)
    BY <1>1, <1>2 DEF Apart, SetterOn
  <2> QED
    BY <2>1, UnsentApart
<1>4. CASE Start(b)
  <2>1. blk'[b].at = "StopData" /\ blk'[b].given = {}
    BY <1>1, <1>4 DEF Start, Members
  <2>2. ~SetterOn(b)
    BY <1>4, SetterKnown DEF Start
  <2>3. \A p \in Params : ~Given(b, p)'
    BY <1>1, <2>1, <2>2 DEF Given, SetterOn
  <2>4. Unsent(b)'
    BY <2>1, <2>3 DEF Unsent
  <2> QED
    BY <1>3, <2>4
<1>5. CASE Build(b)
  <2>1. /\ blk'[b].val = blk[b].val /\ blk'[b].given = blk[b].given
        /\ blk'[b].map = [p \in Sent(b) |-> blk[b].val[p]] /\ clean' = clean
    BY <1>1, <1>5 DEF Build, Members
  <2>2. Unsent(b)'
    BY <1>1, <2>1, UnsentSteps
  <2> QED
    BY <1>3, <2>2
<1>6. CASE NeedsRate(b) \/ Stop(b)
  <2>1. /\ blk'[b].val = blk[b].val /\ blk'[b].given = blk[b].given
        /\ blk'[b].at # "Set" /\ clean' = clean
    BY <1>1, <1>6 DEF NeedsRate, Stop, Goes, Members
  <2>2. Unsent(b)'
    BY <1>1, <2>1, UnsentSteps
  <2> QED
    BY <1>3, <2>2
<1> QED
  BY <1>4, <1>5, <1>6

(* The end of the thread and the worker's steps: a clean session's worker  *)
(* has nothing to tell the device.                                         *)
LEMMA WorkerUnsent ==
  ASSUME Inv, NEW b \in Blocks, Deleted(b) \/ Worker(b), \A c \in Blocks : Unsent(c)
  PROVE  \A c \in Blocks : Unsent(c)'
<1>1. /\ Types /\ BlkTypes /\ Link(b) /\ Device(b) /\ blk[b] \in Members
      /\ DOMAIN blk = Blocks
  BY Opened DEF BlkTypes
<1>2. CASE BusyREQ(b) \/ SendBusyReq(b)
  BY <1>2, UnsentApart DEF BusyREQ, SendBusyReq, Apart, SetterOn
<1>3. CASE Deleted(b) \/ WorkerReturns(b)
  <2>1. PICK acted \in BOOLEAN : Acts(b, link[b].call.req, acted)
    <3>1. CASE Deleted(b)
      BY <3>1 DEF Deleted
    <3>2. CASE WorkerReturns(b)
      <4>1. PICK out \in Outcomes : Ends(b, "worker", out)
        BY <3>2 DEF WorkerReturns
      <4>2. Acts(b, link[b].call.req, out \in {"yes", "lost"})
        BY <4>1 DEF Ends
      <4>3. (out \in {"yes", "lost"}) \in BOOLEAN
        OBVIOUS
      <4> QED
        BY <4>2, <4>3
    <3> QED
      BY <1>3, <3>1, <3>2
  <2>2. clean' = clean /\ setter' = setter
    BY <1>3 DEF Deleted, WorkerReturns
  <2>d. Types /\ Device(b)
    BY <1>1
  <2>3. /\ DOMAIN dev' = Blocks /\ updates' \in Nat /\ updates' >= updates
        /\ \A c \in Blocks \ {b} : dev'[c] = dev[c]
        /\ dev'[b] = [f \in Fields |-> IF acted /\ f \in DOMAIN link[b].call.req
                                       THEN link[b].call.req[f] ELSE dev[b][f]]
        /\ Device(b)'
    BY <2>1, <2>d, DeviceActs
  <2>4. ASSUME clean[b] PROVE dev'[b] = dev[b]
    <3>1. CASE Deleted(b)
      <4>1. DOMAIN link[b].call.req = {}
        BY <1>1, <2>4, <3>1 DEF Deleted, Link, Reads, Writes
      <4> QED
        BY <1>1, <2>1, <4>1, EmptyActs
    <3>2. CASE WorkerReturns(b)
      <4>1. link[b].call.by = "worker"
        BY <3>2 DEF WorkerReturns, Ends
      <4>2. DOMAIN link[b].call.req = {}
        BY <1>1, <2>4, <4>1 DEF Link
      <4> QED
        BY <1>1, <2>1, <4>2, EmptyActs
    <3> QED
      BY <1>3, <3>1, <3>2
  <2>5. \A c \in Blocks \ {b} : blk'[c] = blk[c]
    BY <1>1, <1>3 DEF Deleted, WorkerReturns
  <2>6. /\ blk'[b].val = blk[b].val /\ blk'[b].given = blk[b].given
        /\ blk'[b].at = "Set" => DOMAIN blk'[b].map = Sent(b)
    <3>1. CASE Deleted(b)
      BY <1>1, <3>1 DEF Deleted, Members
    <3>2. CASE WorkerReturns(b)
      BY <3>2 DEF WorkerReturns, Unsent
    <3> QED
      BY <1>3, <3>1, <3>2
  <2>7. Unsent(b)'
    BY <2>2, <2>4, <2>6, UnsentSteps
  <2>8. \A c \in Blocks \ {b} : Apart(c)
    BY <2>2, <2>3, <2>5 DEF Apart, SetterOn
  <2> QED
    BY <2>7, <2>8, UnsentApart
<1> QED
  BY <1>2, <1>3 DEF Worker

(* The setters: what one has told the device it keeps.                     *)
LEMMA SetterUnsent ==
  ASSUME Inv, NEW b \in Blocks, Setter(b), \A c \in Blocks : Unsent(c)
  PROVE  \A c \in Blocks : Unsent(c)'
<1>1. /\ Types /\ BlkTypes /\ Link(b) /\ Device(b) /\ clean \in [Blocks -> BOOLEAN]
      /\ DOMAIN blk = Blocks /\ blk[b] \in Members /\ SetterOn(b)
  BY Opened DEF Types, BlkTypes, Setter, SetterBegins, SetterIsBusy, SetterReturns,
                SetterKeeps
<1>2. /\ setter = [b |-> b, p |-> setter.p, v |-> setter.v, at |-> setter.at]
      /\ setter.p \in Params
  BY <1>1, SetterKnown
<1>3. setter' \in {[setter EXCEPT !.at = "waits"], [setter EXCEPT !.at = "keeps"], NoSetter}
  BY DEF Setter, SetterBegins, SetterIsBusy, SetterReturns, SetterKeeps, SetterGoes
<1>4. setter.b = b /\ setter'.b \in {None, b}
  BY <1>1, <1>2, <1>3 DEF NoSetter, SetterOn
<1>5. \A c \in Blocks \ {b} : ~SetterOn(c) /\ ~(SetterOn(c))'
  BY <1>4, OthersSetter
<1>6. /\ \A c \in Blocks \ {b} : blk'[c] = blk[c] /\ clean'[c] = clean[c]
      /\ clean'[b] => clean[b]
  BY <1>1 DEF Setter, SetterBegins, SetterIsBusy, SetterReturns, SetterKeeps
<1>7. CASE SetterBegins(b)
  <2>1. setter' = [setter EXCEPT !.at = "waits"] /\ blk' = blk /\ dev' = dev /\ clean' = clean
        /\ setter.at = "calls"
    BY <1>7 DEF SetterBegins, SetterGoes
  <2>2. setter'.at = "waits"
    BY <1>2, <2>1
  <2>3. \A p \in Params : /\ Given(b, p)' => Given(b, p)
                          /\ Expected(b, p)' = Expected(b, p)
    BY <2>1, <2>2 DEF Given, Expected
  <2>4. Unsent(b)'
    BY <2>1, <2>3, UnsentStays DEF Unsent
  <2>5. \A c \in Blocks \ {b} : Apart(c)
    BY <1>5, <2>1 DEF Apart
  <2> QED
    BY <2>4, <2>5, UnsentApart
<1>8. CASE SetterIsBusy(b)
  <2>1. blk' = blk /\ dev' = dev /\ ~clean'[b]
    BY <1>1, <1>8 DEF SetterIsBusy
  <2>2. Unsent(b)'
    BY <2>1 DEF Unsent
  <2>3. \A c \in Blocks \ {b} : Apart(c)
    BY <1>5, <1>6, <2>1 DEF Apart
  <2> QED
    BY <2>2, <2>3, UnsentApart
<1>9. CASE SetterReturns(b)
  <2>1. PICK out \in Outcomes \cup {"unclear"} :
          /\ Ends(b, "setter", out)
          /\ IF Keeps(out) THEN SetterGoes("keeps") ELSE setter' = NoSetter
          /\ clean' = [clean EXCEPT ![b] = clean[b] /\ out # "lost"
                                           /\ (out = "unclear" => setter.p \notin Tolerant)]
    BY <1>9 DEF SetterReturns
  <2>2. blk' = blk
    BY <1>9 DEF SetterReturns
  <2>3. /\ link[b].call.by = "setter"
        /\ \A c \in Blocks \ {b} : dev'[c] = dev[c]
        /\ dev'[b] = [f \in Fields |->
             IF out \in {"yes", "lost"} /\ f \in DOMAIN link[b].call.req
             THEN link[b].call.req[f] ELSE dev[b][f]]
    BY <1>1, <2>1, Ended
  <2>4. setter.at = "waits" /\ link[b].call.req = With({setter.p}, setter.v)
    BY <1>1, <2>3 DEF Link
  <2>5. clean'[b] => clean[b] /\ (Keeps(out) <=> out = "yes") /\ out # "lost"
    BY <1>1, <2>1 DEF Keeps, Says, Outcomes
  <2>6. ASSUME clean'[b], NEW p \in Params \ Sent(b), Given(b, p)'
        PROVE  dev'[b][p] = Expected(b, p)'
    <3>1. clean[b] /\ (Keeps(out) <=> out = "yes") /\ out # "lost"
      BY <2>5, <2>6
    <3>2. p \in Fields
      BY DEF Fields
    <3>3. dev'[b][p] = IF out = "yes" /\ p = setter.p THEN setter.v ELSE dev[b][p]
      BY <2>3, <2>4, <3>1, <3>2 DEF With
    <3>4. CASE out = "yes"
      <4>1. setter' = [setter EXCEPT !.at = "keeps"]
        BY <2>1, <3>1, <3>4 DEF SetterGoes
      <4>2. setter'.b = b /\ setter'.at = "keeps" /\ setter'.p = setter.p /\ setter'.v = setter.v
        BY <1>2, <4>1
      <4>3. Expected(b, p)' = IF p = setter.p THEN setter.v ELSE blk[b].val[p]
        BY <2>2, <4>2 DEF Expected, SetterOn
      <4>4. p # setter.p => Given(b, p)
        BY <2>2, <2>6, <4>2 DEF Given, SetterOn
      <4>5. Expected(b, p) = blk[b].val[p]
        BY <2>4 DEF Expected
      <4> QED
        BY <3>1, <3>3, <3>4, <4>3, <4>4, <4>5 DEF Unsent
    <3>5. CASE out # "yes"
      <4>1. setter' = NoSetter /\ setter'.b = None
        BY <2>1, <3>1, <3>5 DEF NoSetter
      <4>2. ~(SetterOn(b))'
        BY <4>1, BlocksAssumption DEF SetterOn
      <4>3. Expected(b, p)' = blk[b].val[p] /\ Expected(b, p) = blk[b].val[p]
        BY <2>2, <2>4, <4>2 DEF Expected
      <4>4. Given(b, p)
        BY <2>2, <2>6, <4>2 DEF Given
      <4> QED
        BY <3>1, <3>3, <3>5, <4>3, <4>4 DEF Unsent
    <3> QED
      BY <3>4, <3>5
  <2>7. Unsent(b)'
    BY <2>2, <2>6 DEF Unsent
  <2>8. \A c \in Blocks \ {b} : Apart(c)
    BY <1>5, <1>6, <2>2, <2>3 DEF Apart
  <2> QED
    BY <2>7, <2>8, UnsentApart
<1>10. CASE SetterKeeps(b)
  <2>1. /\ setter.at = "keeps" /\ setter' = NoSetter /\ dev' = dev /\ clean' = clean
        /\ blk' = [blk EXCEPT ![b].val[setter.p] = setter.v,
                              ![b].given = @ \cup {setter.p}]
    BY <1>10 DEF SetterKeeps
  <2>2. /\ \A p \in Params : blk'[b].val[p] = IF p = setter.p THEN setter.v
                                              ELSE blk[b].val[p]
        /\ blk'[b].given = blk[b].given \cup {setter.p}
        /\ blk'[b].at = blk[b].at /\ blk'[b].map = blk[b].map
    BY <1>1, <1>2, <2>1 DEF Members
  <2>3. ~(SetterOn(b))'
    BY <2>1, BlocksAssumption DEF SetterOn, NoSetter
  <2>4. \A p \in Params : /\ Given(b, p)' => Given(b, p)
                          /\ Expected(b, p)' = Expected(b, p)
    BY <1>1, <2>1, <2>2, <2>3 DEF Given, Expected
  <2>5. Unsent(b)'
    BY <2>1, <2>2, <2>4 DEF Unsent
  <2>6. \A c \in Blocks \ {b} : Apart(c)
    BY <1>5, <1>6, <2>1 DEF Apart
  <2> QED
    BY <2>5, <2>6, UnsentApart
<1> QED
  BY <1>7, <1>8, <1>9, <1>10 DEF Setter

LEMMA SetterCallsUnsent ==
  ASSUME Inv, NEW b \in Blocks, NEW q \in Params, SetterCalls(b, q),
         \A c \in Blocks : Unsent(c)
  PROVE  \A c \in Blocks : Unsent(c)'
<1>1. DOMAIN blk = Blocks /\ blk[b] \in Members
  BY Opened DEF BlkTypes
<1>2. /\ setter = NoSetter /\ setter' = [b |-> b, p |-> q, v |-> sets + 1, at |-> "calls"]
      /\ dev' = dev /\ clean' = clean
  BY DEF SetterCalls
<1>3. /\ blk'[b].val = blk[b].val /\ blk'[b].given = blk[b].given
      /\ blk'[b].at = blk[b].at /\ blk'[b].map = blk[b].map
      /\ \A c \in Blocks \ {b} : blk'[c] = blk[c]
  BY <1>1 DEF SetterCalls, Members
<1>4. setter.b = None /\ setter'.b = b /\ setter'.at = "calls"
  BY <1>2 DEF NoSetter
<1>5. \A c \in Blocks \ {b} : ~SetterOn(c) /\ ~(SetterOn(c))'
  BY <1>4, OthersSetter
<1>6. ~SetterOn(b)
  BY <1>4, BlocksAssumption DEF SetterOn
<1>7. \A p \in Params : (Given(b, p)' => Given(b, p)) /\ Expected(b, p)' = Expected(b, p)
  BY <1>3, <1>4, <1>6 DEF Given, Expected
<1>8. Unsent(b)'
  BY <1>2, <1>3, <1>7, UnsentStays DEF Unsent
<1>9. \A c \in Blocks \ {b} : Apart(c)
  BY <1>2, <1>3, <1>5 DEF Apart
<1> QED
  BY <1>8, <1>9, UnsentApart

LEMMA NextUnsent ==
  ASSUME Inv, [Next]_vars, \A c \in Blocks : Unsent(c)
  PROVE  \A c \in Blocks : Unsent(c)'
<1>1. ASSUME NEW b \in Blocks, Start(b) \/ Build(b) \/ NeedsRate(b) \/ Stop(b)
      PROVE  \A c \in Blocks : Unsent(c)'
  BY <1>1, ThreadUnsent
<1>2. ASSUME NEW b \in Blocks, BlockCall(b) PROVE \A c \in Blocks : Unsent(c)'
  BY <1>2, CallUnsent
<1>3. ASSUME NEW b \in Blocks, Deleted(b) \/ Worker(b) PROVE \A c \in Blocks : Unsent(c)'
  BY <1>3, WorkerUnsent
<1>4. ASSUME NEW b \in Blocks, Setter(b) PROVE \A c \in Blocks : Unsent(c)'
  BY <1>4, SetterUnsent
<1>5. ASSUME NEW b \in Blocks, NEW p \in Params, SetterCalls(b, p)
      PROVE  \A c \in Blocks : Unsent(c)'
  BY <1>5, SetterCallsUnsent
<1>6. CASE UNCHANGED vars
  BY <1>6, UnsentApart DEF vars, Apart, SetterOn
<1> QED
  BY <1>1, <1>2, <1>3, <1>4, <1>5, <1>6 DEF Next, BlockThread

LEMMA UnsentHolds == Spec => [](\A b \in Blocks : Unsent(b))
<1>1. Init => \A b \in Blocks : Unsent(b)
  <2> SUFFICES ASSUME Init, NEW b \in Blocks PROVE Unsent(b)
    OBVIOUS
  <2>1. blk[b].at = "off" /\ blk[b].given = {}
    BY DEF Init
  <2>2. ~SetterOn(b)
    BY BlocksAssumption DEF Init, SetterOn, NoSetter
  <2> QED
    BY <2>1, <2>2 DEF Unsent, Given
<1>2. Inv /\ (\A b \in Blocks : Unsent(b)) /\ [Next]_vars => (\A b \in Blocks : Unsent(b))'
  BY NextUnsent
<1> QED
  BY <1>1, <1>2, InvHolds, PTL DEF Spec

(* While it runs, a block's members are the device's parameters: those     *)
(* that start sends, unless a setter came between its reading of them and  *)
(* its sending, and those that it does not send once a setter of the       *)
(* session has set them; unless a setting was left to the worker or lost.  *)
THEOREM ParamsAgreeHolds == Spec => []ParamsAgree
<1>1. Inv /\ (\A b \in Blocks : Unsent(b)) => ParamsAgree
  <2> SUFFICES ASSUME Inv, NEW b \in Blocks, Unsent(b), NEW p \in Params,
                      blk[b].at = "running", blk[b].started, clean[b], ~SetterOn(b),
                      IF p \in Sent(b) THEN ~blk[b].raced ELSE p \in blk[b].given
               PROVE  dev[b][p] = blk[b].val[p]
    BY DEF ParamsAgree
  <2>1. Expected(b, p) = blk[b].val[p]
    BY DEF Expected
  <2>2. CASE p \in Sent(b)
    BY <2>1, <2>2, Opened DEF Settings, Runs
  <2>3. CASE p \notin Sent(b)
    BY <2>1, <2>3 DEF Unsent, Given
  <2> QED
    BY <2>2, <2>3
<1> QED
  BY <1>1, InvHolds, UnsentHolds, PTL

=============================================================================
