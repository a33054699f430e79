----------------------------- MODULE StatusPoll -----------------------------
(***************************************************************************)
(* The status window (lib/main.qml, lib/avs4000api.js) and its connection, *)
(* an AVSAPICon (lib/avsapicon.cpp).  Once a second the window asks the    *)
(* device for everything it has, shows the status, and, when the device's  *)
(* count of commits has gone up, asks once more and shows the parameters.  *)
(*                                                                         *)
(* A request is written and one line is read, with no wait in between.     *)
(* What is read is what is there: nothing, a part of a line, or the answer *)
(* to an earlier request; requests have no identity.  All of this runs on  *)
(* one thread, while the network and the device (external) go on.          *)
(*                                                                         *)
(* The device is told by its life and the commits in it; an answer is a    *)
(* copy of the device at the time it answers.                              *)
(***************************************************************************)
EXTENDS Integers, Sequences

CONSTANTS
  MaxCommits,   \* bound: commits of the device, in each of its lives
  MaxRestarts,  \* bound: restarts of the device
  MaxFaults     \* bound: of everything below that the network does wrong

ASSUME BoundsAssumption ==
  MaxCommits \in Nat /\ MaxRestarts \in Nat /\ MaxFaults \in Nat

VARIABLES
  dev,          \* the device: its life, its CommitCount
  sock,         \* socket: "none" (nullptr), "down" or "up"
  toDev,        \* requests on their way to the device, all the same
  fromDev,      \* answers on their way to the window
  sockBuf,      \* lines in the socket's buffer
  calling,      \* which getAll is at hand: of connect, the timer, update
  reads,        \* its request is sent, it goes on to recvRSP
  cfg,          \* onTriggered's cfg, while update runs
  commitCount,  \* the Timer's property of that name
  status,       \* what the status fields show
  shown,        \* what the parameter fields show
  faults,       \* history: faults so far
  lags          \* history: answers this connection has fallen behind by faults

netVars == <<toDev, fromDev, sockBuf>>
winVars == <<calling, reads, cfg, commitCount, status, shown>>
vars == <<dev, sock, netVars, winVars, faults, lags>>

Blank == [life |-> 0, count |-> -1]     \* nothing shown yet
Refused == [life |-> 0, count |-> -2]   \* an answer that is not "true": {}
Rest == [life |-> 0, count |-> -3]      \* of a line whose first part was read

(* Mutant: what call returns is not looked at.                             *)
TakesAny(line) == TRUE

(* rsp[0] is true.                                                         *)
IsConfig(line) == line.life > 0

Unread == toDev + Len(fromDev) + Len(sockBuf)

Init ==
  /\ dev = [life |-> 1, count |-> 0]
  /\ sock = "none" /\ toDev = 0 /\ fromDev = <<>> /\ sockBuf = <<>>
  /\ calling = "begin" /\ reads = FALSE /\ cfg = Blank /\ commitCount = -1
  /\ status = Blank /\ shown = Blank
  /\ faults = 0 /\ lags = 0

Fault == faults < MaxFaults /\ faults' = faults + 1

-----------------------------------------------------------------------------
(* AVSAPICon.                                                              *)

(* Mutant: lines of the connection before are kept.                        *)
ConnectKeeps ==
  /\ \/ sock' = "up" /\ UNCHANGED faults
     \/ sock' = "down" /\ Fault
  /\ lags' = 0
  /\ UNCHANGED netVars

(* connect: a new socket, and nothing left of the one before.  It connects *)
(* or does not.                                                            *)
Connect ==
  /\ \/ sock' = "up" /\ UNCHANGED faults
     \/ sock' = "down" /\ Fault
  /\ lags' = 0
  /\ toDev' = 0 /\ fromDev' = <<>> /\ sockBuf' = <<>>

(* sendREQ is true: recvRSP is next.                                       *)
SendsREQ ==
  /\ sock = "up"
  /\ toDev' = toDev + 1
  /\ reads' = TRUE
  /\ UNCHANGED <<sock, fromDev, sockBuf, faults, lags>>

(* sendREQ is false: the request goes out all the same, or does not, or    *)
(* there was no connection and now there may be one.                       *)
SendFails ==
  \/ /\ sock = "up" /\ Fault
     /\ \/ toDev' = toDev + 1 /\ lags' = lags + 1
        \/ UNCHANGED <<toDev, lags>>
     /\ UNCHANGED <<sock, fromDev, sockBuf>>
  \/ sock # "up" /\ Connect

(* recvRSP: the first line there is, none, or the first part of one.  A    *)
(* socket that has lost its connection is not valid, whatever it holds.    *)
RecvLine ==
  /\ sock = "up" /\ sockBuf # <<>>
  /\ sockBuf' = Tail(sockBuf)
  /\ UNCHANGED <<fromDev, faults>>
RecvNothing ==
  /\ sock # "up" \/ sockBuf = <<>>
  /\ UNCHANGED <<fromDev, sockBuf, faults>>
RecvPart ==
  /\ sock = "up" /\ sockBuf = <<>> /\ fromDev # <<>> /\ Fault
  /\ fromDev' = [fromDev EXCEPT ![1] = Rest]
  /\ UNCHANGED sockBuf

-----------------------------------------------------------------------------
(* avs4000api.js and main.qml.                                             *)

Idle == calling' = "idle" /\ reads' = FALSE /\ cfg' = Blank

(* Component.onCompleted: API.connect.                                     *)
Opens ==
  /\ calling = "begin"
  /\ Connect
  /\ calling' = IF sock' = "up" THEN "connect" ELSE "idle"
  /\ UNCHANGED <<dev, reads, cfg, commitCount, status, shown>>

(* getAll in API.connect and API.update: false, {} or an exception leave   *)
(* the window as it is.                                                    *)
CallSends ==
  /\ calling \in {"connect", "update"} /\ ~reads
  /\ \/ SendsREQ /\ UNCHANGED <<calling, cfg>>
     \/ SendFails /\ Idle
  /\ UNCHANGED <<dev, commitCount, status, shown>>

(* The timer.  It is a fault when an answer takes longer than its second;  *)
(* with a write that fails as well it is one fault.                        *)
InTime == toDev = 0 /\ fromDev = <<>>
Triggered ==
  /\ calling = "idle"
  /\ \/ InTime /\ SendsREQ /\ calling' = "poll"
     \/ SendFails /\ UNCHANGED <<calling, reads>>
     \/ /\ ~InTime /\ Fault
        /\ calling' = "poll" /\ reads' = TRUE
        /\ toDev' = toDev + 1 /\ lags' = lags + 1
        /\ UNCHANGED <<sock, fromDev, sockBuf>>
  /\ UNCHANGED <<dev, cfg, commitCount, status, shown>>

(* Mutant: the new count is kept before the parameters are there.          *)
CountsEarly(line) ==
  /\ status' = line
  /\ IF commitCount < line.count
     THEN calling' = "update" /\ reads' = FALSE /\ cfg' = line
     ELSE Idle
  /\ commitCount' = IF line.count > 0 THEN line.count ELSE commitCount
  /\ UNCHANGED shown

(* onTriggered has its cfg: the status, and whether there is more to show. *)
ShowStatus(line) ==
  /\ status' = line
  /\ IF commitCount < line.count
     THEN calling' = "update" /\ reads' = FALSE /\ cfg' = line
          /\ UNCHANGED commitCount
     ELSE Idle
          /\ commitCount' = IF line.count > 0 THEN line.count ELSE commitCount
  /\ UNCHANGED shown

(* Mutant: the two answers in each other's place.                          *)
ShowsCfg(line) ==
  /\ shown' = cfg /\ commitCount' = line.count
  /\ Idle /\ UNCHANGED status

(* update has API.cfg: the parameters.  commitCount is that of the first   *)
(* answer.                                                                 *)
ShowParams(line) ==
  /\ shown' = line /\ commitCount' = cfg.count
  /\ Idle /\ UNCHANGED status

(* recvRSP returns to one of the three; with nothing, a part or {} the     *)
(* window stays as it is (false, an exception of JSON.parse, a TypeError). *)
CallReads ==
  /\ reads
  /\ \/ /\ RecvLine
        /\ LET line == Head(sockBuf)
           IN \/ calling = "poll" /\ IsConfig(line) /\ ShowStatus(line)
              \/ calling = "update" /\ IsConfig(line) /\ ShowParams(line)
              \/ /\ calling = "connect" \/ ~IsConfig(line)
                 /\ Idle /\ UNCHANGED <<commitCount, status, shown>>
     \/ /\ RecvNothing \/ RecvPart
        /\ Idle /\ UNCHANGED <<commitCount, status, shown>>
  /\ UNCHANGED <<dev, sock, toDev, lags>>

(* The block is deleted, and with it the window and its timer.             *)
Closes ==
  /\ calling = "idle" /\ calling' = "closed"
  /\ UNCHANGED <<dev, sock, netVars, reads, cfg, commitCount, status, shown,
                 faults, lags>>

-----------------------------------------------------------------------------
(* The device and the network (external).                                  *)

Commits ==
  /\ dev.count < MaxCommits
  /\ dev' = [dev EXCEPT !.count = @ + 1]
  /\ UNCHANGED <<sock, netVars, winVars, faults, lags>>

(* It answers with all it has, or refuses.                                 *)
Answers ==
  /\ toDev > 0
  /\ toDev' = toDev - 1
  /\ \/ fromDev' = Append(fromDev, dev) /\ UNCHANGED faults
     \/ fromDev' = Append(fromDev, Refused) /\ Fault
  /\ UNCHANGED <<dev, sock, sockBuf, winVars, lags>>

Arrives ==
  /\ fromDev # <<>>
  /\ sockBuf' = Append(sockBuf, Head(fromDev))
  /\ fromDev' = Tail(fromDev)
  /\ UNCHANGED <<dev, sock, toDev, winVars, faults, lags>>

Loses ==
  /\ sock' = IF sock = "up" THEN "down" ELSE sock
  /\ toDev' = 0 /\ fromDev' = <<>>
  /\ UNCHANGED <<sockBuf, winVars, lags>>

ConnectionLost == sock = "up" /\ Fault /\ Loses /\ UNCHANGED dev

Restarts ==
  /\ dev.life <= MaxRestarts
  /\ dev' = [life |-> dev.life + 1, count |-> 0]
  /\ Loses /\ UNCHANGED faults

-----------------------------------------------------------------------------
Window == Opens \/ CallSends \/ Triggered \/ CallReads
Network == Answers \/ Arrives
Next == Window \/ Closes \/ Network \/ Commits \/ ConnectionLost \/ Restarts
Spec == Init /\ [][Next]_vars

(* The timer, the network and the device's answers go on.  Nobody has to   *)
(* commit, to restart, to lose anything or to close the window.            *)
FairSpec == Spec /\ WF_vars(Window) /\ WF_vars(Network)

-----------------------------------------------------------------------------
Lives == 1 .. MaxRestarts + 1
Configs == [life : Lives, count : 0 .. MaxCommits]
Lines == Configs \cup {Refused, Rest}

(* Every variable has its type.                                            *)
TypeOK ==
  /\ dev \in Configs /\ sock \in {"none", "down", "up"}
  /\ toDev \in Nat /\ fromDev \in Seq(Lines) /\ sockBuf \in Seq(Lines)
  /\ calling \in {"begin", "connect", "idle", "poll", "update", "closed"}
  /\ reads \in BOOLEAN /\ cfg \in Configs \cup {Blank}
  /\ commitCount \in -1 .. MaxCommits
  /\ status \in Configs \cup {Blank} /\ shown \in Configs \cup {Blank}
  /\ faults \in 0 .. MaxFaults /\ lags \in 0 .. MaxFaults

(* The window falls behind by two answers and no more, however often the   *)
(* parameters change: the one its first read did not wait for, and the one *)
(* its first update did not.  Only an answer that takes more than a second *)
(* or a write that is not confirmed makes it one more; none is ever caught *)
(* up before the connection is made anew.                                  *)
LagIsBounded == sock = "up" /\ calling = "idle" => Unread <= 2 + lags

(* The parameters shown are not older than the count that is kept for      *)
(* them, though the two come from different answers; otherwise the window  *)
(* would not ask again.                                                    *)
ShownAsCounted == shown.life = status.life => shown.count >= commitCount

(* The window comes to show the parameters the device is left with, unless *)
(* it is closed.  A restart of the device is not seen as such: as long as  *)
(* its count is not above the one kept, which is lowered with it           *)
(* (main.qml:140), the parameters of the life before stay.                 *)
NotSeen == shown # Blank /\ shown.life < dev.life /\ dev.count <= commitCount
ShowsInTheEnd ==
  \A d \in Configs :
    dev = d ~> dev # d \/ shown = d \/ NotSeen \/ calling = "closed"
=============================================================================
