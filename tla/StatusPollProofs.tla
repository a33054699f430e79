-------------------------- MODULE StatusPollProofs --------------------------
(* Proofs about StatusPoll: types, the lag of the window, and that what it *)
(* shows is not older than the count it keeps, for every number of         *)
(* commits, restarts and faults.                                           *)
EXTENDS StatusPoll, TLAPS

-----------------------------------------------------------------------------
(* The inductive invariant.                                                *)

(* What is on its way is not read yet, and is not in the socket.           *)
Pending == toDev + Len(fromDev)

(* How getAll is at hand, and with what.                                   *)
CallOK ==
  /\ calling = "begin" => sock = "none"
  /\ calling \in {"begin", "idle", "closed"} => ~reads
  /\ calling = "poll" => reads
  /\ calling = "update" => cfg = status /\ cfg \in Configs
  /\ lags <= faults

(* Every request goes out one ahead of a line that is read; it is not      *)
(* matched by one only when the socket's buffer is empty, and then no more *)
(* is behind than is on its way.                                           *)
LagOK ==
  sock = "up" =>
    /\ calling = "connect" /\ ~reads => Unread <= lags
    /\ calling = "connect" /\ reads => Unread <= 1 + lags
    /\ calling = "idle" => Unread <= 2 + lags
    /\ calling = "poll" =>
         Unread <= 3 + lags /\ (Unread <= 2 + lags \/ Pending <= 1)
    /\ calling = "update" /\ ~reads =>
         Unread <= 2 + lags /\ (Unread <= 1 + lags \/ Pending <= 1)
    /\ calling = "update" /\ reads =>
         Unread <= 3 + lags /\ (Unread <= 2 + lags \/ Pending <= 2)

(* A line that says something is a copy of the device in its present life, *)
(* since the connection does not outlive a restart.                        *)
Copy(line) == IsConfig(line) => line.life = dev.life /\ line.count <= dev.count
Before(l, m) == IsConfig(l) /\ IsConfig(m) => l.count <= m.count

LinesOK ==
  sock = "up" =>
    /\ \A i \in 1 .. Len(sockBuf) : Copy(sockBuf[i])
    /\ \A i \in 1 .. Len(fromDev) : Copy(fromDev[i])
    /\ \A i, j \in 1 .. Len(sockBuf) : i < j => Before(sockBuf[i], sockBuf[j])
    /\ \A i, j \in 1 .. Len(fromDev) : i < j => Before(fromDev[i], fromDev[j])
    /\ \A i \in 1 .. Len(sockBuf), j \in 1 .. Len(fromDev) :
         Before(sockBuf[i], fromDev[j])

(* The answer that update waits for is not older than the one it has.      *)
UpdateOK ==
  sock = "up" /\ calling = "update" =>
    /\ Copy(cfg)
    /\ \A i \in 1 .. Len(sockBuf) : Before(cfg, sockBuf[i])
    /\ \A i \in 1 .. Len(fromDev) : Before(cfg, fromDev[i])

ShownOK ==
  /\ shown.life <= status.life /\ status.life <= dev.life
  /\ ShownAsCounted

Inv ==
  /\ TypeOK
  /\ CallOK
  /\ LagOK
  /\ LinesOK
  /\ UpdateOK
  /\ ShownOK

-----------------------------------------------------------------------------
(* Facts about sequences of lines.                                         *)

(* The first of a sequence and the rest are of the same set.               *)
LEMMA HeadTail ==
  ASSUME NEW S, NEW s \in Seq(S), s # <<>>
  PROVE  /\ Head(s) \in S /\ Head(s) = s[1] /\ Tail(s) \in Seq(S)
         /\ Len(s) \in Nat /\ Len(s) > 0 /\ Len(Tail(s)) = Len(s) - 1
         /\ \A i \in 1 .. Len(Tail(s)) : Tail(s)[i] = s[i + 1] /\ i + 1 \in 1 .. Len(s)
OBVIOUS

(* A line put at the end.                                                  *)
LEMMA AtTheEnd ==
  ASSUME NEW S, NEW s \in Seq(S), NEW l \in S
  PROVE  /\ Append(s, l) \in Seq(S)
         /\ Len(s) \in Nat /\ Len(Append(s, l)) = Len(s) + 1
         /\ \A i \in 1 .. Len(s) : Append(s, l)[i] = s[i]
         /\ Append(s, l)[Len(s) + 1] = l
OBVIOUS

(* A line in another's place.                                              *)
LEMMA InPlaceOfFirst ==
  ASSUME NEW S, NEW s \in Seq(S), s # <<>>, NEW l \in S
  PROVE  LET t == [s EXCEPT ![1] = l]
         IN /\ t \in Seq(S) /\ Len(t) = Len(s) /\ t[1] = l
            /\ \A i \in 1 .. Len(s) : i # 1 => t[i] = s[i]
OBVIOUS

(* Lines are records with a life and a count.                              *)
LEMMA LineType ==
  ASSUME NEW l \in Lines, BoundsAssumption
  PROVE  /\ l.life \in Nat /\ l.count \in Int
         /\ IsConfig(l) => l \in Configs
BY DEF Lines, Configs, Lives, Refused, Rest, IsConfig, BoundsAssumption

-----------------------------------------------------------------------------
LEMMA InvInit == Init => Inv
<1> SUFFICES ASSUME Init PROVE Inv
  OBVIOUS
<1> USE BoundsAssumption DEF BoundsAssumption, Init, Blank
<1>1. fromDev \in Seq(Lines) /\ sockBuf \in Seq(Lines)
  OBVIOUS
<1>2. TypeOK
  <2>1. dev \in Configs
    BY DEF Configs, Lives
  <2>2. reads \in BOOLEAN
    OBVIOUS
  <2> QED BY <1>1, <2>1, <2>2 DEF TypeOK
<1>3. CallOK /\ LagOK /\ LinesOK /\ UpdateOK
  BY DEF CallOK, LagOK, LinesOK, UpdateOK
<1>4. ShownOK
  BY DEF ShownOK, ShownAsCounted
<1> QED BY <1>2, <1>3, <1>4 DEF Inv

(* connect leaves nothing on its way and nothing to read.                  *)
LEMMA ConnectKeepsInv ==
  ASSUME Inv, Connect,
         UNCHANGED <<dev, commitCount, status, shown>>, reads' = FALSE,
         cfg' \in {cfg, Blank},
         calling' = "idle" \/ (calling' = "connect" /\ sock' = "up")
  PROVE  Inv'
<1> USE BoundsAssumption DEF BoundsAssumption, Inv, Connect, Fault
<1>1. fromDev' \in Seq(Lines) /\ sockBuf' \in Seq(Lines)
  OBVIOUS
<1>2. TypeOK'
  <2>1. reads' \in BOOLEAN
    OBVIOUS
  <2> QED BY <1>1, <2>1 DEF TypeOK
<1>3. CallOK'
  BY DEF CallOK, TypeOK
<1>4. LagOK'
  BY DEF LagOK, Unread, Pending
<1>5. LinesOK' /\ UpdateOK'
  BY DEF LinesOK, UpdateOK
<1>6. ShownOK'
  BY DEF ShownOK, ShownAsCounted
<1> QED BY <1>2, <1>3, <1>4, <1>5, <1>6

LEMMA OpensKeepsInv ==
  ASSUME Inv, Opens
  PROVE  Inv'
<1>1. reads' = FALSE /\ cfg' = cfg
  BY DEF Inv, CallOK, TypeOK, Opens
<1>2. calling' = "idle" \/ (calling' = "connect" /\ sock' = "up")
  BY DEF Opens
<1> QED BY <1>1, <1>2, ConnectKeepsInv DEF Opens

(* A request that goes out leaves the lines, and what is shown, alone.     *)
LEMMA RequestKeepsLines ==
  ASSUME Inv, UNCHANGED <<dev, sock, fromDev, sockBuf, commitCount, status, shown>>,
         calling' = "update" => calling = "update" /\ cfg' = cfg
  PROVE  LinesOK' /\ UpdateOK' /\ ShownOK'
<1> USE DEF Inv, Copy, Before, IsConfig
<1>1. LinesOK'
  BY DEF LinesOK
<1>2. UpdateOK'
  BY DEF UpdateOK
<1>3. ShownOK'
  BY DEF ShownOK, ShownAsCounted
<1> QED BY <1>1, <1>2, <1>3

LEMMA CallSendsKeepsInv ==
  ASSUME Inv, CallSends
  PROVE  Inv'
<1> USE DEF CallSends
<1>1. CASE sock # "up" /\ Connect /\ Idle
  BY <1>1, ConnectKeepsInv DEF Idle
<1>2. CASE SendsREQ /\ UNCHANGED <<calling, cfg>>
  <2> USE <1>2 DEF SendsREQ
  <2>1. TypeOK'
    BY DEF Inv, TypeOK
  <2>2. CallOK'
    BY DEF Inv, CallOK
  <2>3. LagOK'
    BY DEF Inv, LagOK, TypeOK, Unread, Pending
  <2>4. LinesOK' /\ UpdateOK' /\ ShownOK'
    BY RequestKeepsLines
  <2> QED BY <2>1, <2>2, <2>3, <2>4 DEF Inv
<1>3. CASE SendFails /\ Idle /\ sock = "up"
  <2> USE <1>3, BoundsAssumption DEF BoundsAssumption, SendFails, Idle, Fault
  <2>1. TypeOK'
    <3>1. reads' \in BOOLEAN
      OBVIOUS
    <3>2. lags' \in 0 .. MaxFaults
      BY DEF Inv, TypeOK, CallOK
    <3> QED BY <3>1, <3>2 DEF Inv, TypeOK
  <2>2. CallOK'
    BY DEF Inv, CallOK, TypeOK
  <2>3. LagOK'
    BY DEF Inv, LagOK, TypeOK, Unread, Pending
  <2>4. LinesOK' /\ UpdateOK' /\ ShownOK'
    BY RequestKeepsLines
  <2> QED BY <2>1, <2>2, <2>3, <2>4 DEF Inv
<1> QED BY <1>1, <1>2, <1>3 DEF SendFails

LEMMA TriggeredKeepsInv ==
  ASSUME Inv, Triggered
  PROVE  Inv'
<1> USE DEF Triggered
<1>1. CASE sock # "up" /\ Connect /\ UNCHANGED <<calling, reads>>
  <2>1. calling' = "idle" /\ reads' = FALSE /\ cfg' = cfg
    BY <1>1 DEF Inv, CallOK, TypeOK
  <2> QED BY <1>1, <2>1, ConnectKeepsInv
<1>2. CASE InTime /\ SendsREQ /\ calling' = "poll"
  <2> USE <1>2 DEF SendsREQ
  <2>1. TypeOK'
    BY DEF Inv, TypeOK
  <2>2. CallOK'
    BY DEF Inv, CallOK
  <2>3. LagOK'
    BY DEF Inv, LagOK, TypeOK, Unread, Pending, InTime
  <2>4. LinesOK' /\ UpdateOK' /\ ShownOK'
    BY RequestKeepsLines
  <2> QED BY <2>1, <2>2, <2>3, <2>4 DEF Inv
<1>3. CASE SendFails /\ UNCHANGED <<calling, reads>> /\ sock = "up"
  <2> USE <1>3, BoundsAssumption DEF BoundsAssumption, SendFails, Fault
  <2>1. TypeOK'
    <3>1. lags' \in 0 .. MaxFaults
      BY DEF Inv, TypeOK, CallOK
    <3> QED BY <3>1 DEF Inv, TypeOK
  <2>2. CallOK'
    BY DEF Inv, CallOK, TypeOK
  <2>3. LagOK'
    BY DEF Inv, LagOK, TypeOK, Unread, Pending
  <2>4. LinesOK' /\ UpdateOK' /\ ShownOK'
    BY RequestKeepsLines
  <2> QED BY <2>1, <2>2, <2>3, <2>4 DEF Inv
<1>4. CASE /\ ~InTime /\ Fault
           /\ calling' = "poll" /\ reads' = TRUE
           /\ toDev' = toDev + 1 /\ lags' = lags + 1
           /\ UNCHANGED <<sock, fromDev, sockBuf>>
  <2> USE <1>4, BoundsAssumption DEF BoundsAssumption, Fault
  <2>1. TypeOK'
    <3>1. lags' \in 0 .. MaxFaults
      BY DEF Inv, TypeOK, CallOK
    <3> QED BY <3>1 DEF Inv, TypeOK
  <2>2. CallOK'
    BY DEF Inv, CallOK, TypeOK
  <2>3. LagOK'
    BY DEF Inv, LagOK, TypeOK, Unread, Pending
  <2>4. LinesOK' /\ UpdateOK' /\ ShownOK'
    BY RequestKeepsLines
  <2> QED BY <2>1, <2>2, <2>3, <2>4 DEF Inv
<1> QED BY <1>1, <1>2, <1>3, <1>4 DEF SendFails

-----------------------------------------------------------------------------
(* What a read takes away.                                                 *)
LEMMA ReadsFirstLine ==
  ASSUME Inv, RecvLine
  PROVE  /\ Head(sockBuf) \in Lines /\ sockBuf' \in Seq(Lines)
         /\ Len(sockBuf) > 0 /\ Len(sockBuf') = Len(sockBuf) - 1
         /\ \A i \in 1 .. Len(sockBuf') :
              sockBuf'[i] = sockBuf[i + 1] /\ i + 1 \in 1 .. Len(sockBuf)
         /\ Head(sockBuf) = sockBuf[1] /\ 1 \in 1 .. Len(sockBuf)
BY HeadTail DEF Inv, TypeOK, RecvLine

LEMMA ReadKeepsLines ==
  ASSUME Inv, RecvLine, UNCHANGED <<dev, sock>>
  PROVE  LinesOK'
<1> USE ReadsFirstLine DEF RecvLine
<1>1. fromDev' = fromDev /\ sock = "up" /\ Len(sockBuf) \in Nat
  BY DEF Inv, TypeOK
<1>2. LinesOK
  BY DEF Inv
<1> QED BY <1>1, <1>2 DEF LinesOK, Copy, Before, IsConfig

(* The line is at most what the first of the buffer can be: a copy of the  *)
(* device, and not newer than any after it.                                *)
LEMMA FirstLine ==
  ASSUME Inv, RecvLine, IsConfig(Head(sockBuf))
  PROVE  /\ Head(sockBuf) \in Configs /\ Copy(Head(sockBuf))
         /\ \A i \in 1 .. Len(sockBuf') : Before(Head(sockBuf), sockBuf'[i])
         /\ \A i \in 1 .. Len(fromDev) : Before(Head(sockBuf), fromDev[i])
         /\ calling = "update" => Before(cfg, Head(sockBuf))
<1> USE ReadsFirstLine DEF RecvLine
<1>1. Head(sockBuf) \in Configs
  BY LineType, BoundsAssumption
<1>2. LinesOK /\ UpdateOK /\ Len(sockBuf) \in Nat
  BY DEF Inv, TypeOK
<1>3. \A i \in 1 .. Len(sockBuf') : 1 < i + 1
  BY <1>2
<1> QED BY <1>1, <1>2, <1>3 DEF LinesOK, UpdateOK

(* The types of what a read changes are enough for those of all.           *)
LEMMA TypeAgain ==
  ASSUME TypeOK, UNCHANGED <<dev, sock, toDev, fromDev, faults, lags>>,
         sockBuf' \in Seq(Lines), reads' \in BOOLEAN,
         calling' \in {"begin", "connect", "idle", "poll", "update", "closed"},
         cfg' \in Configs \cup {Blank}, commitCount' \in -1 .. MaxCommits,
         status' \in Configs \cup {Blank}, shown' \in Configs \cup {Blank}
  PROVE  TypeOK'
BY DEF TypeOK

LEMMA ShowStatusKeepsInv ==
  ASSUME Inv, calling = "poll", RecvLine, IsConfig(Head(sockBuf)),
         ShowStatus(Head(sockBuf)), UNCHANGED <<dev, sock, toDev, lags>>
  PROVE  Inv'
<1> DEFINE line == Head(sockBuf)
<1> USE BoundsAssumption DEF BoundsAssumption, RecvLine, ShowStatus
<1>1. line \in Configs /\ line.count \in 0 .. MaxCommits /\ line.life = dev.life
  BY FirstLine DEF Copy, Configs
<1>2. TypeOK'
  <2>1. reads' \in BOOLEAN
    BY DEF Idle
  <2>2. commitCount' \in -1 .. MaxCommits
    BY <1>1 DEF Inv, TypeOK
  <2>3. sockBuf' \in Seq(Lines)
    BY ReadsFirstLine
  <2>4. status' \in Configs \cup {Blank} /\ shown' \in Configs \cup {Blank}
    BY <1>1 DEF Inv, TypeOK
  <2>5. cfg' \in Configs \cup {Blank}
    BY <1>1 DEF Idle
  <2>6. /\ calling' \in {"begin", "connect", "idle", "poll", "update", "closed"}
        /\ UNCHANGED <<dev, sock, toDev, fromDev, faults, lags>>
    BY DEF Idle
  <2> QED BY <2>1, <2>2, <2>3, <2>4, <2>5, <2>6, TypeAgain DEF Inv
<1>3. CallOK'
  BY <1>1 DEF Inv, CallOK, Idle
<1>4. LagOK'
  BY ReadsFirstLine DEF Inv, LagOK, TypeOK, Unread, Pending, Idle
<1>5. LinesOK'
  BY ReadKeepsLines
<1>6. UpdateOK'
  BY FirstLine DEF UpdateOK, Idle, Copy, Before, IsConfig
<1>7. ShownOK'
  <2>1. /\ status' = line /\ shown' = shown /\ dev' = dev
        /\ commitCount' = commitCount
             \/ (commitCount' = line.count /\ ~(commitCount < line.count))
    BY DEF Idle
  <2>2. commitCount \in Int /\ commitCount' <= commitCount
    BY <1>1, <2>1 DEF Inv, TypeOK
  <2>3. shown.life \in Int /\ status.life \in Int /\ shown.count \in Int
        /\ dev.life \in Int
    BY DEF Inv, TypeOK, Configs, Lives, Blank
  <2> HIDE DEF line
  <2> QED BY <1>1, <2>1, <2>2, <2>3 DEF Inv, ShownOK, ShownAsCounted
<1> QED BY <1>2, <1>3, <1>4, <1>5, <1>6, <1>7 DEF Inv

LEMMA ShowParamsKeepsInv ==
  ASSUME Inv, calling = "update", RecvLine, IsConfig(Head(sockBuf)),
         ShowParams(Head(sockBuf)), UNCHANGED <<dev, sock, toDev, lags>>
  PROVE  Inv'
<1> DEFINE line == Head(sockBuf)
<1> USE BoundsAssumption DEF BoundsAssumption, RecvLine, ShowParams, Idle
<1>1. line \in Configs /\ line.count \in 0 .. MaxCommits /\ line.life = dev.life
  BY FirstLine DEF Copy, Configs
<1>2. /\ cfg = status /\ cfg \in Configs
      /\ cfg.life = dev.life /\ cfg.count <= line.count
      /\ cfg.count \in 0 .. MaxCommits /\ IsConfig(cfg)
  <2>1. cfg = status /\ cfg \in Configs
    BY DEF Inv, CallOK
  <2>2. IsConfig(cfg) /\ cfg.count \in 0 .. MaxCommits
    BY <2>1 DEF Configs, Lives, IsConfig
  <2>3. Copy(cfg)
    BY DEF Inv, UpdateOK
  <2>4. Before(cfg, line)
    BY FirstLine
  <2> QED BY <2>1, <2>2, <2>3, <2>4 DEF Copy, Before
<1>3. TypeOK'
  <2>1. reads' \in BOOLEAN
    OBVIOUS
  <2>2. commitCount' \in -1 .. MaxCommits
    BY <1>2
  <2>3. sockBuf' \in Seq(Lines)
    BY ReadsFirstLine
  <2>4. status' \in Configs \cup {Blank} /\ shown' \in Configs \cup {Blank}
    BY <1>1 DEF Inv, TypeOK
  <2>5. /\ calling' \in {"begin", "connect", "idle", "poll", "update", "closed"}
        /\ cfg' \in Configs \cup {Blank}
        /\ UNCHANGED <<dev, sock, toDev, fromDev, faults, lags>>
    OBVIOUS
  <2> QED BY <2>1, <2>2, <2>3, <2>4, <2>5, TypeAgain DEF Inv
<1>4. CallOK'
  BY DEF Inv, CallOK
<1>5. LagOK'
  BY ReadsFirstLine DEF Inv, LagOK, TypeOK, Unread, Pending
<1>6. LinesOK' /\ UpdateOK'
  BY ReadKeepsLines DEF UpdateOK
<1>7. ShownOK'
  <2>1. shown' = line /\ commitCount' = cfg.count /\ status' = status /\ dev' = dev
    OBVIOUS
  <2>2. line.count \in Int /\ cfg.count \in Int /\ dev.life \in Int
    BY <1>1, <1>2 DEF Inv, TypeOK, Configs, Lives
  <2> HIDE DEF line
  <2> QED BY <1>1, <1>2, <2>1, <2>2 DEF ShownOK, ShownAsCounted
<1> QED BY <1>3, <1>4, <1>5, <1>6, <1>7 DEF Inv

(* A read that shows nothing.                                              *)
ShowsNothing == Idle /\ UNCHANGED <<dev, sock, toDev, lags, commitCount, status, shown>>

LEMMA DropsLineKeepsInv ==
  ASSUME Inv, reads, RecvLine, ShowsNothing
  PROVE  Inv'
<1> USE DEF RecvLine, ShowsNothing, Idle
<1>1. TypeOK'
  <2>1. reads' \in BOOLEAN
    OBVIOUS
  <2>2. cfg' \in Configs \cup {Blank} /\ calling' = "idle"
    OBVIOUS
  <2>3. UNCHANGED <<dev, sock, toDev, fromDev, faults, lags>>
    OBVIOUS
  <2>4. sockBuf' \in Seq(Lines)
    BY ReadsFirstLine
  <2>5. /\ commitCount' \in -1 .. MaxCommits
        /\ status' \in Configs \cup {Blank} /\ shown' \in Configs \cup {Blank}
    BY DEF Inv, TypeOK
  <2> QED BY <2>1, <2>2, <2>3, <2>4, <2>5, TypeAgain DEF Inv
<1>2. CallOK'
  BY DEF Inv, CallOK
<1>3. LagOK'
  BY ReadsFirstLine DEF Inv, LagOK, TypeOK, CallOK, Unread, Pending
<1>4. LinesOK' /\ UpdateOK'
  BY ReadKeepsLines DEF UpdateOK
<1>5. ShownOK'
  BY DEF Inv, ShownOK, ShownAsCounted
<1> QED BY <1>1, <1>2, <1>3, <1>4, <1>5 DEF Inv

LEMMA ReadsNothingKeepsInv ==
  ASSUME Inv, reads, RecvNothing, ShowsNothing
  PROVE  Inv'
<1> USE DEF RecvNothing, ShowsNothing, Idle
<1>1. TypeOK'
  <2>1. reads' \in BOOLEAN
    OBVIOUS
  <2>2. cfg' \in Configs \cup {Blank} /\ calling' = "idle"
    OBVIOUS
  <2>3. UNCHANGED <<dev, sock, toDev, fromDev, faults, lags>>
    OBVIOUS
  <2>4. /\ sockBuf' \in Seq(Lines) /\ commitCount' \in -1 .. MaxCommits
        /\ status' \in Configs \cup {Blank} /\ shown' \in Configs \cup {Blank}
    BY DEF Inv, TypeOK
  <2> QED BY <2>1, <2>2, <2>3, <2>4, TypeAgain DEF Inv
<1>2. CallOK'
  BY DEF Inv, CallOK
<1>3. LagOK'
  <2>1. sock = "up" => Unread = Pending
    BY DEF Inv, TypeOK, Unread, Pending
  <2>2. Unread' = Unread /\ Pending \in Nat /\ lags \in Nat
    BY BoundsAssumption DEF Inv, TypeOK, Unread, Pending, BoundsAssumption
  <2> QED BY <2>1, <2>2 DEF Inv, LagOK, CallOK, TypeOK
<1>4. LinesOK' /\ UpdateOK' /\ ShownOK'
  BY RequestKeepsLines
<1> QED BY <1>1, <1>2, <1>3, <1>4 DEF Inv

(* The part that is left of a line says nothing.                           *)
LEMMA ReadsPartKeepsInv ==
  ASSUME Inv, reads, RecvPart, ShowsNothing
  PROVE  Inv'
<1> USE DEF RecvPart, ShowsNothing, Idle
<1>1. /\ fromDev' \in Seq(Lines) /\ Len(fromDev') = Len(fromDev) /\ Len(fromDev) \in Nat
      /\ fromDev'[1] = Rest /\ ~IsConfig(Rest)
      /\ \A i \in 1 .. Len(fromDev) : i # 1 => fromDev'[i] = fromDev[i]
  <2>1. fromDev \in Seq(Lines) /\ fromDev # <<>> /\ Rest \in Lines
    BY DEF Inv, TypeOK, Lines
  <2>2. ~IsConfig(Rest)
    BY DEF IsConfig, Rest
  <2> QED BY <2>1, <2>2, InPlaceOfFirst
<1>2. TypeOK'
  <2>1. reads' \in BOOLEAN
    OBVIOUS
  <2>2. faults' \in 0 .. MaxFaults
    BY BoundsAssumption DEF Fault, Inv, TypeOK, BoundsAssumption
  <2> QED BY <1>1, <2>1, <2>2 DEF Inv, TypeOK
<1>3. CallOK'
  BY BoundsAssumption DEF Inv, CallOK, TypeOK, Fault, BoundsAssumption
<1>4. LagOK'
  <2>1. sock = "up" => Unread = Pending
    BY DEF Inv, TypeOK, Unread, Pending
  <2>2. Unread' = Unread /\ Pending \in Nat /\ lags \in Nat
    BY <1>1, BoundsAssumption DEF Inv, TypeOK, Unread, Pending, BoundsAssumption
  <2> QED BY <2>1, <2>2 DEF Inv, LagOK, CallOK, TypeOK
<1>5. LinesOK'
  <2>1. LinesOK
    BY DEF Inv
  <2>2. \A i \in 1 .. Len(fromDev) : IsConfig(fromDev'[i]) => fromDev'[i] = fromDev[i]
    BY <1>1
  <2> QED BY <1>1, <2>1, <2>2 DEF LinesOK, Copy, Before, IsConfig
<1>6. UpdateOK' /\ ShownOK'
  BY DEF UpdateOK, Inv, ShownOK, ShownAsCounted
<1> QED BY <1>2, <1>3, <1>4, <1>5, <1>6 DEF Inv

LEMMA CallReadsKeepsInv ==
  ASSUME Inv, CallReads
  PROVE  Inv'
<1> DEFINE line == Head(sockBuf)
<1>1. CASE RecvLine /\ calling = "poll" /\ IsConfig(line) /\ ShowStatus(line)
  BY <1>1, ShowStatusKeepsInv DEF CallReads
<1>2. CASE RecvLine /\ calling = "update" /\ IsConfig(line) /\ ShowParams(line)
  BY <1>2, ShowParamsKeepsInv DEF CallReads
<1>3. CASE RecvLine /\ ShowsNothing
  BY <1>3, DropsLineKeepsInv DEF CallReads
<1>4. CASE RecvNothing /\ ShowsNothing
  BY <1>4, ReadsNothingKeepsInv DEF CallReads
<1>5. CASE RecvPart /\ ShowsNothing
  BY <1>5, ReadsPartKeepsInv DEF CallReads
<1> QED BY <1>1, <1>2, <1>3, <1>4, <1>5 DEF CallReads, ShowsNothing

-----------------------------------------------------------------------------
(* The window closes, and what goes on outside of it.                      *)
LEMMA ClosesKeepsInv ==
  ASSUME Inv, Closes
  PROVE  Inv'
<1> USE DEF Closes, netVars
<1>1. TypeOK'
  BY DEF Inv, TypeOK
<1>2. CallOK'
  BY DEF Inv, CallOK
<1>3. LagOK'
  BY DEF LagOK
<1>4. LinesOK' /\ UpdateOK' /\ ShownOK'
  BY RequestKeepsLines
<1> QED BY <1>1, <1>2, <1>3, <1>4 DEF Inv

(* A commit makes the device newer than every copy of it.                  *)
LEMMA CommitsKeepsInv ==
  ASSUME Inv, Commits
  PROVE  Inv'
<1> USE DEF Commits, netVars, winVars
<1>1. /\ dev' \in Configs /\ dev'.life = dev.life /\ dev'.count = dev.count + 1
      /\ dev.life \in Nat /\ dev.count \in Nat
  <2>1. dev \in Configs
    BY DEF Inv, TypeOK
  <2>2. dev.life \in Lives /\ dev.count \in 0 .. MaxCommits
    BY <2>1 DEF Configs
  <2>3. dev.life \in Nat /\ dev.count + 1 \in 0 .. MaxCommits /\ dev.count \in Nat
    BY <2>2, BoundsAssumption DEF Lives, BoundsAssumption
  <2> QED BY <2>1, <2>2, <2>3 DEF Configs
<1>2. TypeOK'
  BY <1>1 DEF Inv, TypeOK
<1>3. CallOK' /\ LagOK'
  BY DEF Inv, CallOK, LagOK, Unread, Pending
<1>4. LinesOK'
  <2>1. \A l \in Lines : l.count \in Int
    BY LineType, BoundsAssumption
  <2>2. \A l \in Lines : Copy(l) => Copy(l)'
    BY <1>1, <2>1 DEF Copy, IsConfig
  <2>3. /\ \A i \in 1 .. Len(sockBuf) : sockBuf[i] \in Lines
        /\ \A i \in 1 .. Len(fromDev) : fromDev[i] \in Lines
    BY DEF Inv, TypeOK
  <2>4. LinesOK
    BY DEF Inv
  <2> QED BY <2>1, <2>2, <2>3, <2>4, <1>1 DEF LinesOK, Copy, Before, IsConfig
<1>5. UpdateOK'
  <2>1. calling = "update" => cfg.count \in Int
    BY DEF Inv, CallOK, Configs
  <2>2. UpdateOK
    BY DEF Inv
  <2> QED BY <1>1, <2>1, <2>2 DEF UpdateOK, Copy, Before, IsConfig
<1>6. ShownOK'
  BY <1>1 DEF Inv, ShownOK, ShownAsCounted
<1> QED BY <1>2, <1>3, <1>4, <1>5, <1>6 DEF Inv

(* An answer is the newest line of the connection, or says nothing.        *)
LEMMA AnswersKeepsInv ==
  ASSUME Inv, Answers
  PROVE  Inv'
<1> USE DEF Answers, winVars
<1>1. PICK l \in Lines : /\ fromDev' = Append(fromDev, l)
                         /\ l = dev \/ ~IsConfig(l)
                         /\ UNCHANGED faults \/ Fault
  <2>1. dev \in Lines /\ Refused \in Lines /\ ~IsConfig(Refused)
    BY DEF Inv, TypeOK, Lines, IsConfig, Refused
  <2> QED BY <2>1
<1>2. /\ fromDev' \in Seq(Lines) /\ Len(fromDev) \in Nat /\ Len(fromDev') = Len(fromDev) + 1
      /\ \A i \in 1 .. Len(fromDev) : fromDev'[i] = fromDev[i]
      /\ fromDev'[Len(fromDev) + 1] = l
  <2>1. fromDev \in Seq(Lines)
    BY DEF Inv, TypeOK
  <2> QED BY <1>1, <2>1, AtTheEnd
<1>3. TypeOK'
  <2>1. faults' \in 0 .. MaxFaults /\ toDev' \in Nat
    BY <1>1, BoundsAssumption DEF Fault, Inv, TypeOK, BoundsAssumption
  <2> QED BY <1>2, <2>1 DEF Inv, TypeOK
<1>4. CallOK'
  BY <1>1, BoundsAssumption DEF Inv, CallOK, TypeOK, Fault, BoundsAssumption
<1>5. LagOK'
  <2>1. Unread' = Unread /\ Pending' = Pending
    BY <1>2 DEF Inv, TypeOK, Unread, Pending
  <2> QED BY <2>1 DEF Inv, LagOK
<1>6. Copy(l) /\ dev.count \in Int
  BY <1>1 DEF Copy, Inv, TypeOK, Configs
<1>7. \A m \in Lines : Copy(m) => Before(m, l)
  BY <1>1, <1>6 DEF Copy, Before, IsConfig
<1>8. /\ \A i \in 1 .. Len(sockBuf) : sockBuf[i] \in Lines
      /\ \A i \in 1 .. Len(fromDev) : fromDev[i] \in Lines
      /\ Len(sockBuf) \in Nat
  BY DEF Inv, TypeOK
<1>9. LinesOK'
  <2>1. SUFFICES ASSUME sock = "up" PROVE LinesOK'
    BY DEF LinesOK
  <2>2. LinesOK
    BY DEF Inv
  <2>3. \A i \in 1 .. Len(fromDev') : i \in 1 .. Len(fromDev) \/ i = Len(fromDev) + 1
    BY <1>2
  <2>4. \A i \in 1 .. Len(fromDev') : Copy(fromDev'[i])
    BY <1>2, <1>6, <2>1, <2>2, <2>3 DEF LinesOK
  <2>5. \A i, j \in 1 .. Len(fromDev') : i < j => Before(fromDev'[i], fromDev'[j])
    <3> SUFFICES ASSUME NEW i \in 1 .. Len(fromDev'), NEW j \in 1 .. Len(fromDev'), i < j
                 PROVE  Before(fromDev'[i], fromDev'[j])
      OBVIOUS
    <3>1. i \in 1 .. Len(fromDev)
      BY <1>2
    <3>2. CASE j \in 1 .. Len(fromDev)
      BY <1>2, <2>1, <2>2, <3>1, <3>2 DEF LinesOK
    <3>3. CASE j = Len(fromDev) + 1
      BY <1>2, <1>7, <1>8, <2>1, <2>2, <3>1, <3>3 DEF LinesOK
    <3> QED BY <2>3, <3>2, <3>3
  <2>6. \A i \in 1 .. Len(sockBuf), j \in 1 .. Len(fromDev') : Before(sockBuf[i], fromDev'[j])
    BY <1>2, <1>7, <1>8, <2>1, <2>2, <2>3 DEF LinesOK
  <2> QED BY <2>1, <2>2, <2>4, <2>5, <2>6 DEF LinesOK, Copy, Before, IsConfig
<1>10. UpdateOK'
  <2>1. SUFFICES ASSUME sock = "up", calling = "update" PROVE UpdateOK'
    BY DEF UpdateOK
  <2>2. UpdateOK /\ cfg \in Lines
    BY <2>1 DEF Inv, CallOK, Lines
  <2>3. \A i \in 1 .. Len(fromDev') : Before(cfg, fromDev'[i])
    BY <1>2, <1>7, <2>1, <2>2 DEF UpdateOK
  <2> QED BY <2>1, <2>2, <2>3 DEF UpdateOK, Copy, Before, IsConfig
<1>11. ShownOK'
  BY DEF Inv, ShownOK, ShownAsCounted
<1> QED BY <1>3, <1>4, <1>5, <1>9, <1>10, <1>11 DEF Inv

(* What arrives was the oldest on its way, and is the newest in the        *)
(* socket.                                                                 *)
LEMMA ArrivesKeepsInv ==
  ASSUME Inv, Arrives
  PROVE  Inv'
<1> USE DEF Arrives, winVars
<1> DEFINE l == Head(fromDev)
<1>1. fromDev \in Seq(Lines) /\ sockBuf \in Seq(Lines) /\ fromDev # <<>>
  BY DEF Inv, TypeOK
<1>2. /\ l \in Lines /\ l = fromDev[1] /\ fromDev' \in Seq(Lines) /\ Len(fromDev) \in Nat
      /\ Len(fromDev) > 0 /\ Len(fromDev') = Len(fromDev) - 1
      /\ \A i \in 1 .. Len(fromDev') :
           fromDev'[i] = fromDev[i + 1] /\ i + 1 \in 1 .. Len(fromDev)
  BY <1>1, HeadTail
<1>3. /\ sockBuf' \in Seq(Lines) /\ Len(sockBuf) \in Nat /\ Len(sockBuf') = Len(sockBuf) + 1
      /\ \A i \in 1 .. Len(sockBuf) : sockBuf'[i] = sockBuf[i]
      /\ sockBuf'[Len(sockBuf) + 1] = l
  BY <1>1, <1>2, AtTheEnd
<1> HIDE DEF l
<1>4. UNCHANGED <<dev, sock, toDev, faults, lags, calling, reads, cfg, commitCount, status, shown>>
  OBVIOUS
<1>5. TypeOK' /\ CallOK'
  BY <1>2, <1>3, <1>4 DEF Inv, TypeOK, CallOK
<1>6. LagOK'
  <2>1. Unread' = Unread /\ Pending' = Pending - 1 /\ Pending \in Int /\ Unread \in Int
        /\ lags \in Int
    BY SMTT(60), <1>2, <1>3, <1>4 DEF Inv, TypeOK, Unread, Pending
  <2>2. LagOK
    BY DEF Inv
  <2> QED BY ONLY <1>4, <2>1, <2>2 DEF LagOK
<1>7. 1 \in 1 .. Len(fromDev) /\ \A i \in 1 .. Len(fromDev') : 1 < i + 1
  BY <1>2
<1>8. \A i \in 1 .. Len(sockBuf') : i \in 1 .. Len(sockBuf) \/ i = Len(sockBuf) + 1
  BY <1>3
<1>9. LinesOK'
  <2>1. SUFFICES ASSUME sock = "up" PROVE LinesOK'
    BY <1>4 DEF LinesOK
  <2>2. LinesOK
    BY DEF Inv
  <2>3. /\ Copy(l)
        /\ \A i \in 1 .. Len(sockBuf) : Before(sockBuf[i], l)
        /\ \A i \in 1 .. Len(fromDev') : Before(l, fromDev'[i])
    BY <1>2, <1>7, <2>1, <2>2 DEF LinesOK
  <2>4. /\ \A i \in 1 .. Len(sockBuf') : Copy(sockBuf'[i])
        /\ \A i \in 1 .. Len(fromDev') : Copy(fromDev'[i])
    BY <1>2, <1>3, <1>8, <2>1, <2>2, <2>3 DEF LinesOK
  <2>5. \A i, j \in 1 .. Len(sockBuf') : i < j => Before(sockBuf'[i], sockBuf'[j])
    <3> SUFFICES ASSUME NEW i \in 1 .. Len(sockBuf'), NEW j \in 1 .. Len(sockBuf'), i < j
                 PROVE  Before(sockBuf'[i], sockBuf'[j])
      OBVIOUS
    <3>1. i \in 1 .. Len(sockBuf)
      BY <1>3
    <3>2. CASE j \in 1 .. Len(sockBuf)
      BY <1>3, <2>1, <2>2, <3>1, <3>2 DEF LinesOK
    <3>3. CASE j = Len(sockBuf) + 1
      BY <1>3, <2>3, <3>1, <3>3
    <3> QED BY <1>8, <3>2, <3>3
  <2>6. \A i, j \in 1 .. Len(fromDev') : i < j => Before(fromDev'[i], fromDev'[j])
    <3> SUFFICES ASSUME NEW i \in 1 .. Len(fromDev'), NEW j \in 1 .. Len(fromDev'), i < j
                 PROVE  Before(fromDev'[i], fromDev'[j])
      OBVIOUS
    <3>1. i + 1 < j + 1
      BY <1>2
    <3> QED BY <1>2, <2>1, <2>2, <3>1 DEF LinesOK
  <2>7. \A i \in 1 .. Len(sockBuf'), j \in 1 .. Len(fromDev') : Before(sockBuf'[i], fromDev'[j])
    BY <1>2, <1>3, <1>8, <2>1, <2>2, <2>3 DEF LinesOK
  <2> QED BY <1>4, <2>4, <2>5, <2>6, <2>7 DEF LinesOK, Copy, Before, IsConfig
<1>10. UpdateOK'
  <2>1. SUFFICES ASSUME sock = "up", calling = "update" PROVE UpdateOK'
    BY <1>4 DEF UpdateOK
  <2>2. UpdateOK
    BY DEF Inv
  <2>3. /\ \A i \in 1 .. Len(sockBuf') : Before(cfg, sockBuf'[i])
        /\ \A i \in 1 .. Len(fromDev') : Before(cfg, fromDev'[i])
    BY <1>2, <1>3, <1>7, <1>8, <2>1, <2>2 DEF UpdateOK
  <2> QED BY <1>4, <2>1, <2>2, <2>3 DEF UpdateOK, Copy, Before, IsConfig
<1>11. ShownOK'
  BY <1>4 DEF Inv, ShownOK, ShownAsCounted
<1> QED BY <1>5, <1>6, <1>9, <1>10, <1>11 DEF Inv

(* Without a connection what is left in the socket is not read.            *)
LEMMA LosesKeepsInv ==
  ASSUME Inv, Loses, dev' \in Configs, dev'.life \in Int, dev'.life >= dev.life,
         faults' \in faults .. MaxFaults
  PROVE  Inv'
<1> USE DEF Loses, winVars
<1>1. sock' \in {"none", "down"} /\ (sock = "none" => sock' = "none")
  BY DEF Inv, TypeOK
<1>2. TypeOK'
  <2>1. fromDev' \in Seq(Lines) /\ toDev' \in Nat
    OBVIOUS
  <2>2. faults' \in 0 .. MaxFaults
    BY BoundsAssumption DEF Inv, TypeOK, BoundsAssumption
  <2> QED BY <1>1, <2>1, <2>2 DEF Inv, TypeOK
<1>3. CallOK'
  BY <1>1, BoundsAssumption DEF Inv, TypeOK, CallOK, BoundsAssumption
<1>4. LagOK' /\ LinesOK' /\ UpdateOK'
  BY <1>1 DEF LagOK, LinesOK, UpdateOK
<1>5. ShownOK'
  <2>1. status.life \in Int /\ dev.life \in Int
    BY BoundsAssumption DEF Inv, TypeOK, Configs, Lives, Blank, BoundsAssumption
  <2> QED BY <2>1 DEF Inv, ShownOK, ShownAsCounted
<1> QED BY <1>2, <1>3, <1>4, <1>5 DEF Inv

LEMMA ConnectionLostKeepsInv ==
  ASSUME Inv, ConnectionLost
  PROVE  Inv'
<1>1. dev' \in Configs /\ dev'.life \in Int /\ dev'.life >= dev.life
  BY BoundsAssumption DEF ConnectionLost, Inv, TypeOK, Configs, Lives, BoundsAssumption
<1>2. faults' \in faults .. MaxFaults
  BY BoundsAssumption DEF ConnectionLost, Fault, Inv, TypeOK, BoundsAssumption
<1> QED BY <1>1, <1>2, LosesKeepsInv DEF ConnectionLost

LEMMA RestartsKeepsInv ==
  ASSUME Inv, Restarts
  PROVE  Inv'
<1>1. dev' \in Configs /\ dev'.life \in Int /\ dev'.life >= dev.life
  BY BoundsAssumption DEF Restarts, Inv, TypeOK, Configs, Lives, BoundsAssumption
<1>2. faults' \in faults .. MaxFaults
  BY BoundsAssumption DEF Restarts, Inv, TypeOK, BoundsAssumption
<1> QED BY <1>1, <1>2, LosesKeepsInv DEF Restarts

LEMMA StutterKeepsInv ==
  ASSUME Inv, UNCHANGED vars
  PROVE  Inv'
<1> USE DEF vars, netVars, winVars
<1>1. TypeOK' /\ CallOK' /\ LagOK'
  BY DEF Inv, TypeOK, CallOK, LagOK, Unread, Pending
<1>2. LinesOK' /\ UpdateOK' /\ ShownOK'
  BY RequestKeepsLines
<1> QED BY <1>1, <1>2 DEF Inv

-----------------------------------------------------------------------------
(* Inv is inductive: whatever the device, the network and the window do,   *)
(* the window is a bounded number of answers behind, and every answer it   *)
(* can still read is a copy of the device, in the order of its commits.    *)
THEOREM InvHolds == Spec => []Inv
<1>1. Inv /\ [Next]_vars => Inv'
  <2> SUFFICES ASSUME Inv, [Next]_vars PROVE Inv'
    OBVIOUS
  <2>1. CASE Opens
    BY <2>1, OpensKeepsInv
  <2>2. CASE CallSends
    BY <2>2, CallSendsKeepsInv
  <2>3. CASE Triggered
    BY <2>3, TriggeredKeepsInv
  <2>4. CASE CallReads
    BY <2>4, CallReadsKeepsInv
  <2>5. CASE Closes
    BY <2>5, ClosesKeepsInv
  <2>6. CASE Answers
    BY <2>6, AnswersKeepsInv
  <2>7. CASE Arrives
    BY <2>7, ArrivesKeepsInv
  <2>8. CASE Commits
    BY <2>8, CommitsKeepsInv
  <2>9. CASE ConnectionLost
    BY <2>9, ConnectionLostKeepsInv
  <2>10. CASE Restarts
    BY <2>10, RestartsKeepsInv
  <2>11. CASE UNCHANGED vars
    BY <2>11, StutterKeepsInv
  <2> QED BY <2>1, <2>2, <2>3, <2>4, <2>5, <2>6, <2>7, <2>8, <2>9, <2>10, <2>11
          DEF Next, Window, Network
<1> QED BY <1>1, InvInit, PTL DEF Spec

(* Every variable of the window, the network and the device has its type   *)
(* in every state (main.qml, avsapicon.cpp).                               *)
THEOREM TypeCorrect == Spec => []TypeOK
<1>1. Inv => TypeOK
  BY DEF Inv
<1> QED BY <1>1, InvHolds, PTL

(* recvRSP does not wait for the answer, and yet the window between two    *)
(* polls is never more than two answers behind, and one for each fault.    *)
THEOREM LagHolds == Spec => []LagIsBounded
<1>1. Inv => LagIsBounded
  BY DEF Inv, LagOK, LagIsBounded
<1> QED BY <1>1, InvHolds, PTL

(* commitCount, of the first answer of onTriggered, is not above the count *)
(* of the parameters shown, of its second.                                 *)
THEOREM ShownHolds == Spec => []ShownAsCounted
<1>1. Inv => ShownAsCounted
  BY DEF Inv, ShownOK
<1> QED BY <1>1, InvHolds, PTL
=============================================================================
