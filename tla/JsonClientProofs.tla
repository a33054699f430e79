--------------------------- MODULE JsonClientProofs ---------------------------
(***************************************************************************)
(* Proofs about JsonClient, for any callers and any number of calls, of    *)
(* lost connections and of lines in parts: as far as safety goes, it is    *)
(* what RemoteCall says.                                                   *)
(*                                                                         *)
(* A request is in one place at a time, from its Call to the end of its    *)
(* answer: left to the worker, kept by it, held by a Call that has not     *)
(* sent it, on the way (in the socket's buffer, the network or the         *)
(* device), half read, read, or returned.  Apart says so; that nothing is  *)
(* returned twice follows.  Own says that while nothing was late all that  *)
(* is on the way is the present Call's.                                    *)
(***************************************************************************)
EXTENDS JsonClient, SequenceTheorems, TLAPS

Places == {"idle", "locked", "cleared", "sent", "waiting", "valid"}
Slot == [slot : {"WriteREQ", "BusyREQ"}, req : Nat]

Types ==
  /\ lock \in Threads \cup {Nobody}
  /\ pc \in [Threads -> Places] /\ req \in [Threads -> Nat]
  /\ posted \in Seq(Slot) /\ busyReq \in Nat
  /\ rsp \in Nat /\ woken \subseteq Threads
  /\ toDev \in Seq(Int) /\ fromDev \in Seq(Int) /\ sockBuf \in Seq(Int)
  /\ answered \in Seq(Int) /\ frames \in Seq({"read", "call"}) /\ line \in Int
  /\ issued \in 0 .. MaxCalls /\ late \in BOOLEAN

(* Only the thread that has the mutex is in a Call.                        *)
LockOK ==
  /\ \A t \in Threads : pc[t] # "idle" => lock = t
  /\ \A t \in woken : pc[t] = "waiting"

(* At most one slot is in ReadAvailable, and then with a part of a line;   *)
(* readyRead waits for no slot while one is, and when it does not, there   *)
(* is a line.                                                              *)
FramesOK ==
  /\ \A i \in 1 .. Len(frames) : frames[i] = "read" =>
       line # None /\ \A j \in 1 .. Len(frames) : frames[j] = "read" => j = i
  /\ readyRead => sockBuf # <<>> /\ \A i \in 1 .. Len(frames) : frames[i] # "read"

-----------------------------------------------------------------------------
(* Where a request may be.                                                 *)

Elems(s) == {s[i] : i \in 1 .. Len(s)}
Once(s) == \A i, j \in 1 .. Len(s) : s[i] = s[j] /\ s[i] # Junk => i = j

(* The requests of a queue of slots.                                       *)
Asked(s) == {s[i].req : i \in 1 .. Len(s)}
Writes(s) == {s[i].req : i \in {j \in 1 .. Len(s) : s[j].slot = "WriteREQ"}}
AskedOnce(s) == \A i, j \in 1 .. Len(s) : s[i].req = s[j].req => i = j

(* Has the holder of the mutex its request still, or does it wait for the  *)
(* answer?                                                                 *)
Holds == lock \in Threads /\ pc[lock] \in {"locked", "cleared"}
Hears == lock \in Threads /\ pc[lock] \in {"sent", "waiting", "valid"}

Flow == sockBuf \o fromDev \o toDev

Left == Asked(posted)
Flying == Elems(Flow) \ {Junk}
Half == {line} \ {None, Junk}
Kept == {busyReq} \ {None}
Held == IF Holds THEN {req[lock]} ELSE {}
Read == IF Hears THEN {rsp} \ {None} ELSE {}

Apart ==
  /\ AskedOnce(posted) /\ Once(Flow)
  /\ Left \cap (Flying \cup Half \cup Kept \cup Held \cup Read \cup Elems(answered)) = {}
  /\ Flying \cap (Half \cup Kept \cup Held \cup Read \cup Elems(answered)) = {}
  /\ Half \cap (Kept \cup Held \cup Read \cup Elems(answered)) = {}
  /\ Kept \cap (Held \cup Read \cup Elems(answered)) = {}
  /\ Held \cap (Read \cup Elems(answered)) = {}
  /\ Read \cap Elems(answered) = {}
  /\ (Left \cup Flying \cup Half \cup Kept \cup Held \cup Read \cup Elems(answered)) \subseteq 1 .. issued

(* What is still to come of a Call.                                        *)
Coming == Writes(posted) \cup Flying \cup Half

Own ==
  ~late =>
    /\ Coming # {} => Hears /\ Coming \subseteq {req[lock]}
    /\ Hears => rsp \in {None, req[lock]}
    /\ \A t \in Threads : t \in woken \/ pc[t] = "valid" => Coming = {}

Inv == Types /\ LockOK /\ FramesOK /\ Apart /\ Own

-----------------------------------------------------------------------------
(* Sequences: what is in them, and how often.                              *)

LEMMA InElems ==
  ASSUME NEW s, NEW x
  PROVE  x \in Elems(s) <=> \E i \in 1 .. Len(s) : s[i] = x
BY DEF Elems

LEMMA TailElems ==
  ASSUME NEW s \in Seq(Int), s # <<>>
  PROVE  /\ Tail(s) \in Seq(Int) /\ Head(s) \in Int
         /\ Elems(s) = Elems(Tail(s)) \cup {Head(s)}
         /\ Once(s) => Once(Tail(s)) /\ (Head(s) # Junk => Head(s) \notin Elems(Tail(s)))
<1>1. /\ Len(s) \in Nat /\ Len(s) >= 1 /\ Tail(s) \in Seq(Int) /\ Len(Tail(s)) = Len(s) - 1
      /\ Head(s) = s[1] /\ Head(s) \in Int
      /\ \A i \in 1 .. Len(s) - 1 : Tail(s)[i] = s[i + 1]
  OBVIOUS
<1>2. Elems(s) = Elems(Tail(s)) \cup {Head(s)}
  <2>1. ASSUME NEW i \in 1 .. Len(s) PROVE s[i] \in Elems(Tail(s)) \cup {Head(s)}
    <3>1. CASE i = 1
      BY <1>1, <3>1
    <3>2. CASE i # 1
      <4>1. i - 1 \in 1 .. Len(s) - 1 /\ Tail(s)[i - 1] = s[i]
        BY <1>1, <3>2
      <4> QED
        BY <1>1, <4>1 DEF Elems
    <3> QED
      BY <3>1, <3>2
  <2>2. ASSUME NEW i \in 1 .. Len(Tail(s)) PROVE Tail(s)[i] \in Elems(s)
    <3>1. i + 1 \in 1 .. Len(s) /\ Tail(s)[i] = s[i + 1]
      BY <1>1
    <3> QED
      BY <3>1 DEF Elems
  <2>3. Head(s) \in Elems(s)
    BY <1>1 DEF Elems
  <2> QED
    BY <2>1, <2>2, <2>3 DEF Elems
<1>3. ASSUME Once(s) PROVE Once(Tail(s))
  BY <1>1, <1>3 DEF Once
<1>4. ASSUME Once(s), Head(s) # Junk PROVE Head(s) \notin Elems(Tail(s))
  <2> SUFFICES ASSUME NEW i \in 1 .. Len(Tail(s)), Tail(s)[i] = Head(s) PROVE FALSE
    BY DEF Elems
  <2>1. i + 1 \in 1 .. Len(s) /\ s[i + 1] = s[1] /\ s[1] # Junk /\ 1 \in 1 .. Len(s)
    BY <1>1, <1>4
  <2>2. i + 1 = 1
    BY <1>4, <2>1 DEF Once
  <2> QED
    BY <1>1, <2>2
<1> QED
  BY <1>1, <1>2, <1>3, <1>4

LEMMA AppendElems ==
  ASSUME NEW s \in Seq(Int), NEW x \in Int
  PROVE  /\ Append(s, x) \in Seq(Int) /\ Elems(Append(s, x)) = Elems(s) \cup {x}
         /\ Once(s) /\ x \notin Elems(s) => Once(Append(s, x))
<1>1. /\ Len(s) \in Nat /\ Append(s, x) \in Seq(Int) /\ Len(Append(s, x)) = Len(s) + 1
      /\ \A i \in 1 .. Len(s) : Append(s, x)[i] = s[i]
      /\ Append(s, x)[Len(s) + 1] = x
  OBVIOUS
<1>2. Elems(Append(s, x)) = Elems(s) \cup {x}
  <2>1. \A i \in 1 .. Len(s) + 1 : i \in 1 .. Len(s) \/ i = Len(s) + 1
    BY <1>1
  <2>2. \A i \in 1 .. Len(s) : i \in 1 .. Len(s) + 1
    BY <1>1
  <2>3. Len(s) + 1 \in 1 .. Len(s) + 1
    BY <1>1
  <2> QED
    BY <1>1, <2>1, <2>2, <2>3 DEF Elems
<1>3. ASSUME Once(s), x \notin Elems(s) PROVE Once(Append(s, x))
  <2> SUFFICES ASSUME NEW i \in 1 .. Len(s) + 1, NEW j \in 1 .. Len(s) + 1,
                      Append(s, x)[i] = Append(s, x)[j], Append(s, x)[i] # Junk
               PROVE  i = j
    BY <1>1 DEF Once
  <2>1. \A k \in 1 .. Len(s) : s[k] # x
    BY <1>3 DEF Elems
  <2> QED
    BY <1>1, <1>3, <2>1 DEF Once
<1> QED
  BY <1>1, <1>2, <1>3

LEMMA JunkElems ==
  ASSUME NEW s \in Seq(Int)
  PROVE  /\ <<Junk>> \o s \in Seq(Int) /\ Elems(<<Junk>> \o s) = Elems(s) \cup {Junk}
         /\ Once(s) => Once(<<Junk>> \o s)
<1> DEFINE u == <<Junk>> \o s
<1>1. /\ Len(s) \in Nat /\ u \in Seq(Int) /\ Len(u) = Len(s) + 1
      /\ u[1] = Junk /\ \A i \in 2 .. Len(s) + 1 : u[i] = s[i - 1]
  BY DEF Junk
<1>2. \A i \in 1 .. Len(s) + 1 : i = 1 \/ i \in 2 .. Len(s) + 1
  BY <1>1
<1> HIDE DEF u
<1>3. Elems(u) = Elems(s) \cup {Junk}
  <2>1. ASSUME NEW i \in 1 .. Len(s) PROVE s[i] \in Elems(u)
    <3>1. i + 1 \in 2 .. Len(s) + 1 /\ i + 1 \in 1 .. Len(u) /\ (i + 1) - 1 = i
      BY <1>1
    <3>2. u[i + 1] = s[(i + 1) - 1]
      BY <1>1, <3>1
    <3> QED
      BY <3>1, <3>2 DEF Elems
  <2>2. ASSUME NEW i \in 1 .. Len(u) PROVE u[i] \in Elems(s) \cup {Junk}
    <3>1. CASE i \in 2 .. Len(s) + 1
      <4>1. i - 1 \in 1 .. Len(s) /\ u[i] = s[i - 1]
        BY <1>1, <3>1
      <4> QED
        BY <4>1 DEF Elems
    <3> QED
      BY <1>1, <1>2, <3>1
  <2>3. Junk \in Elems(u)
    BY <1>1 DEF Elems
  <2> QED
    BY <2>1, <2>2, <2>3 DEF Elems
<1>4. ASSUME Once(s) PROVE Once(u)
  <2> SUFFICES ASSUME NEW i \in 1 .. Len(u), NEW j \in 1 .. Len(u), u[i] = u[j], u[i] # Junk
               PROVE  i = j
    BY DEF Once
  <2>1. i \in 2 .. Len(s) + 1 /\ j \in 2 .. Len(s) + 1
    BY <1>1, <1>2
  <2>2. i - 1 \in 1 .. Len(s) /\ j - 1 \in 1 .. Len(s) /\ s[i - 1] = s[j - 1] /\ s[i - 1] # Junk
    BY SMTT(60), <1>1, <2>1
  <2>3. i - 1 = j - 1
    BY <1>4, <2>2 DEF Once
  <2> QED
    BY <1>1, <2>1, <2>3
<1> QED
  BY <1>1, <1>3, <1>4 DEF u

LEMMA NoElems == Elems(<<>>) = {} /\ Once(<<>>) /\ Asked(<<>>) = {} /\ Writes(<<>>) = {}
BY DEF Elems, Once, Asked, Writes

LEMMA TailAsked ==
  ASSUME NEW s \in Seq(Slot), s # <<>>
  PROVE  /\ Tail(s) \in Seq(Slot) /\ Head(s) \in Slot
         /\ Asked(s) = Asked(Tail(s)) \cup {Head(s).req}
         /\ Writes(s) = Writes(Tail(s)) \cup
                          (IF Head(s).slot = "WriteREQ" THEN {Head(s).req} ELSE {})
         /\ Writes(Tail(s)) \subseteq Asked(Tail(s))
         /\ AskedOnce(s) => AskedOnce(Tail(s)) /\ Head(s).req \notin Asked(Tail(s))
<1>1. /\ Len(s) \in Nat /\ Len(s) >= 1 /\ Tail(s) \in Seq(Slot) /\ Len(Tail(s)) = Len(s) - 1
      /\ Head(s) = s[1] /\ Head(s) \in Slot
      /\ \A i \in 1 .. Len(s) - 1 : Tail(s)[i] = s[i + 1]
  OBVIOUS
<1>2. ASSUME NEW i \in 1 .. Len(s)
      PROVE  i = 1 \/ (i - 1 \in 1 .. Len(Tail(s)) /\ s[i] = Tail(s)[i - 1])
  BY <1>1
<1>3. ASSUME NEW i \in 1 .. Len(Tail(s))
      PROVE  i + 1 \in 1 .. Len(s) /\ i + 1 # 1 /\ s[i + 1] = Tail(s)[i]
  BY <1>1
<1>4. 1 \in 1 .. Len(s)
  BY <1>1
<1>5. Asked(s) = Asked(Tail(s)) \cup {Head(s).req}
  BY <1>1, <1>2, <1>3, <1>4 DEF Asked
<1>6. Writes(s) = Writes(Tail(s)) \cup
                    (IF Head(s).slot = "WriteREQ" THEN {Head(s).req} ELSE {})
  <2> DEFINE first == IF Head(s).slot = "WriteREQ" THEN {Head(s).req} ELSE {}
  <2>1. ASSUME NEW i \in 1 .. Len(s), s[i].slot = "WriteREQ"
        PROVE  s[i].req \in Writes(Tail(s)) \cup first
    BY <1>1, <1>2, <2>1 DEF Writes
  <2>2. ASSUME NEW i \in 1 .. Len(Tail(s)), Tail(s)[i].slot = "WriteREQ"
        PROVE  Tail(s)[i].req \in Writes(s)
    BY <1>3, <2>2 DEF Writes
  <2>3. first \subseteq Writes(s)
    BY <1>1, <1>4 DEF Writes
  <2> HIDE DEF first
  <2>4. Writes(s) \subseteq Writes(Tail(s)) \cup first
    BY <2>1 DEF Writes
  <2>5. Writes(Tail(s)) \subseteq Writes(s)
    BY <2>2 DEF Writes
  <2> QED
    BY <2>3, <2>4, <2>5 DEF first
<1>7. Writes(Tail(s)) \subseteq Asked(Tail(s))
  BY DEF Asked, Writes
<1>8. ASSUME AskedOnce(s) PROVE AskedOnce(Tail(s)) /\ Head(s).req \notin Asked(Tail(s))
  <2>1. AskedOnce(Tail(s))
    BY <1>1, <1>8 DEF AskedOnce
  <2>2. ASSUME NEW i \in 1 .. Len(Tail(s)) PROVE Tail(s)[i].req # Head(s).req
    BY <1>1, <1>3, <1>4, <1>8 DEF AskedOnce
  <2> QED
    BY <2>1, <2>2 DEF Asked
<1> QED
  BY <1>1, <1>5, <1>6, <1>7, <1>8

LEMMA AppendAsked ==
  ASSUME NEW s \in Seq(Slot), NEW x \in Slot
  PROVE  /\ Append(s, x) \in Seq(Slot) /\ Asked(Append(s, x)) = Asked(s) \cup {x.req}
         /\ Writes(Append(s, x)) = Writes(s) \cup
                                     (IF x.slot = "WriteREQ" THEN {x.req} ELSE {})
         /\ Writes(s) \subseteq Asked(s)
         /\ AskedOnce(s) /\ x.req \notin Asked(s) => AskedOnce(Append(s, x))
<1>1. /\ Len(s) \in Nat /\ Append(s, x) \in Seq(Slot) /\ Len(Append(s, x)) = Len(s) + 1
      /\ \A i \in 1 .. Len(s) : Append(s, x)[i] = s[i]
      /\ Append(s, x)[Len(s) + 1] = x
  OBVIOUS
<1>2. \A i \in 1 .. Len(s) + 1 : i \in 1 .. Len(s) \/ i = Len(s) + 1
  BY <1>1
<1>3. \A i \in 1 .. Len(s) : i \in 1 .. Len(s) + 1
  BY <1>1
<1>4. Len(s) + 1 \in 1 .. Len(s) + 1
  BY <1>1
<1>5. Asked(Append(s, x)) = Asked(s) \cup {x.req}
  BY <1>1, <1>2, <1>3, <1>4 DEF Asked
<1>6. Writes(Append(s, x)) = Writes(s) \cup (IF x.slot = "WriteREQ" THEN {x.req} ELSE {})
  BY <1>1, <1>2, <1>3, <1>4 DEF Writes
<1>7. Writes(s) \subseteq Asked(s)
  BY DEF Asked, Writes
<1>8. ASSUME AskedOnce(s), x.req \notin Asked(s) PROVE AskedOnce(Append(s, x))
  <2> SUFFICES ASSUME NEW i \in 1 .. Len(s) + 1, NEW j \in 1 .. Len(s) + 1,
                      Append(s, x)[i].req = Append(s, x)[j].req
               PROVE  i = j
    BY <1>1 DEF AskedOnce
  <2>1. \A k \in 1 .. Len(s) : s[k].req # x.req
    BY <1>8 DEF Asked
  <2> QED
    BY <1>1, <1>2, <1>8, <2>1 DEF AskedOnce
<1> QED
  BY <1>1, <1>5, <1>6, <1>7, <1>8

LEMMA TailOfConcat ==
  ASSUME NEW s \in Seq(Int), NEW u \in Seq(Int), s # <<>>
  PROVE  s \o u # <<>> /\ Tail(s \o u) = Tail(s) \o u /\ Head(s \o u) = Head(s)
<1>1. /\ Len(s) \in Nat /\ Len(s) >= 1 /\ Len(u) \in Nat /\ s \o u \in Seq(Int)
      /\ Len(s \o u) = Len(s) + Len(u) /\ Tail(s) \in Seq(Int) /\ Len(Tail(s)) = Len(s) - 1
      /\ \A i \in 1 .. Len(s) - 1 : Tail(s)[i] = s[i + 1]
  OBVIOUS
<1>2. \A i \in 1 .. Len(s) + Len(u) :
        (s \o u)[i] = IF i <= Len(s) THEN s[i] ELSE u[i - Len(s)]
  OBVIOUS
<1>3. s \o u # <<>> /\ Head(s \o u) = Head(s)
  BY <1>1, <1>2
<1>4. /\ Tail(s \o u) \in Seq(Int) /\ Len(Tail(s \o u)) = Len(s) + Len(u) - 1
      /\ \A i \in 1 .. Len(s) + Len(u) - 1 : Tail(s \o u)[i] = (s \o u)[i + 1]
  BY <1>1, <1>3
<1>5. /\ Tail(s) \o u \in Seq(Int) /\ Len(Tail(s) \o u) = Len(s) - 1 + Len(u)
      /\ \A i \in 1 .. Len(s) - 1 + Len(u) :
           (Tail(s) \o u)[i] = IF i <= Len(s) - 1 THEN Tail(s)[i] ELSE u[i - (Len(s) - 1)]
  BY <1>1
<1>6. ASSUME NEW i \in 1 .. Len(s) + Len(u) - 1
      PROVE  Tail(s \o u)[i] = (Tail(s) \o u)[i]
  <2>1. /\ i + 1 \in 1 .. Len(s) + Len(u) /\ i \in 1 .. Len(s) - 1 + Len(u) /\ i \in Int
        /\ (i + 1) - Len(s) = i - (Len(s) - 1)
    BY <1>1
  <2>2. Tail(s \o u)[i] = IF i + 1 <= Len(s) THEN s[i + 1] ELSE u[(i + 1) - Len(s)]
    BY <1>2, <1>4, <2>1
  <2>3. i + 1 <= Len(s) => i \in 1 .. Len(s) - 1 /\ i <= Len(s) - 1
    BY <1>1
  <2>4. ~(i + 1 <= Len(s)) => ~(i <= Len(s) - 1)
    BY <1>1
  <2> QED
    BY <1>1, <1>5, <2>1, <2>2, <2>3, <2>4
<1>7. Tail(s \o u) = Tail(s) \o u
  BY <1>1, <1>4, <1>5, <1>6, SeqEqual
<1> QED
  BY <1>3, <1>7

LEMMA Associative ==
  ASSUME NEW a \in Seq(Int), NEW b \in Seq(Int), NEW c \in Seq(Int)
  PROVE  (a \o b) \o c = a \o (b \o c)
<1>1. Len(a) \in Nat /\ Len(b) \in Nat /\ Len(c) \in Nat
  OBVIOUS
<1>2. /\ a \o b \in Seq(Int) /\ Len(a \o b) = Len(a) + Len(b)
      /\ b \o c \in Seq(Int) /\ Len(b \o c) = Len(b) + Len(c)
      /\ (a \o b) \o c \in Seq(Int) /\ Len((a \o b) \o c) = Len(a) + Len(b) + Len(c)
      /\ a \o (b \o c) \in Seq(Int) /\ Len(a \o (b \o c)) = Len(a) + (Len(b) + Len(c))
  OBVIOUS
<1>3. ASSUME NEW i \in 1 .. Len(a) + Len(b) + Len(c)
      PROVE  ((a \o b) \o c)[i] = (a \o (b \o c))[i]
  OBVIOUS
<1> QED
  BY SMTT(60), <1>1, <1>2, <1>3, SeqEqual

LEMMA HeadMoves ==
  ASSUME NEW f \in Seq(Int), NEW d \in Seq(Int), d # <<>>
  PROVE  Append(f, Head(d)) \o Tail(d) = f \o d
<1>1. Head(d) \in Int /\ Tail(d) \in Seq(Int) /\ <<Head(d)>> \in Seq(Int)
  OBVIOUS
<1>2. <<Head(d)>> \o Tail(d) = d
  <2>1. \A i \in 1 .. Len(Tail(d)) : Tail(d)[i] = d[i + 1]
    BY HeadTailProperties
  <2> QED
    BY <1>1, <2>1
<1>3. Append(f, Head(d)) = f \o <<Head(d)>>
  BY <1>1, AppendIsConcat
<1>4. (f \o <<Head(d)>>) \o Tail(d) = f \o (<<Head(d)>> \o Tail(d))
  BY <1>1, Associative
<1> QED
  BY <1>2, <1>3, <1>4

LEMMA CutIsWhole ==
  ASSUME NEW f \in Seq(Int), NEW n \in 0 .. Len(f)
  PROVE  /\ SubSeq(f, 1, n) \in Seq(Int) /\ SubSeq(f, n + 1, Len(f)) \in Seq(Int)
         /\ SubSeq(f, 1, n) \o SubSeq(f, n + 1, Len(f)) = f
<1>1. Len(f) \in Nat /\ n \in Int /\ n \in 0 .. Len(f) /\ \A i \in 1 .. Len(f) : f[i] \in Int
  OBVIOUS
<1>2. /\ SubSeq(f, 1, n) \in Seq(Int) /\ Len(SubSeq(f, 1, n)) = n
      /\ \A i \in 1 .. n : SubSeq(f, 1, n)[i] = f[i]
  BY <1>1
<1>3. /\ SubSeq(f, n + 1, Len(f)) \in Seq(Int)
      /\ Len(SubSeq(f, n + 1, Len(f))) = Len(f) - n
      /\ \A i \in 1 .. Len(f) - n : SubSeq(f, n + 1, Len(f))[i] = f[n + i]
  <2>1. \A i \in n + 1 .. Len(f) : f[i] \in Int
    BY <1>1
  <2> QED
    BY <1>1, <2>1
<1> DEFINE a == SubSeq(f, 1, n)
           b == SubSeq(f, n + 1, Len(f))
<1>4. /\ a \in Seq(Int) /\ Len(a) = n /\ \A i \in 1 .. n : a[i] = f[i]
      /\ b \in Seq(Int) /\ Len(b) = Len(f) - n /\ \A i \in 1 .. Len(f) - n : b[i] = f[n + i]
  BY <1>2, <1>3
<1> HIDE DEF a, b
<1>5. /\ a \o b \in Seq(Int) /\ Len(a \o b) = Len(f)
      /\ \A i \in 1 .. Len(f) : (a \o b)[i] = IF i <= n THEN a[i] ELSE b[i - n]
  BY SMTT(60), <1>1, <1>4
<1>6. ASSUME NEW i \in 1 .. Len(f) PROVE (a \o b)[i] = f[i]
  <2>1. CASE i <= n
    BY <1>1, <1>4, <1>5, <2>1
  <2>2. CASE ~(i <= n)
    <3>1. i - n \in 1 .. Len(f) - n /\ n + (i - n) = i
      BY <1>1, <2>2
    <3> QED
      BY <1>4, <1>5, <2>2, <3>1
  <2> QED
    BY <2>1, <2>2
<1>7. a \o b = f
  BY <1>5, <1>6, SeqEqual
<1> QED
  BY <1>2, <1>3, <1>7 DEF a, b

(* What a step does to the flow.                                           *)
LEMMA FlowMoves ==
  ASSUME NEW s \in Seq(Int), NEW f \in Seq(Int), NEW d \in Seq(Int)
  PROVE  /\ (s \o f) \o d \in Seq(Int)
         /\ \A x \in Int : (s \o f) \o Append(d, x) = Append((s \o f) \o d, x)
         /\ s # <<>> => (s \o f) \o d # <<>>
                        /\ (Tail(s) \o f) \o d = Tail((s \o f) \o d)
                        /\ Head(s) = Head((s \o f) \o d)
         /\ d # <<>> => (s \o Append(f, Head(d))) \o Tail(d) = (s \o f) \o d
         /\ \A n \in 0 .. Len(f) :
              ((s \o SubSeq(f, 1, n)) \o SubSeq(f, n + 1, Len(f))) \o d = (s \o f) \o d
         /\ (<<>> \o (<<Junk>> \o f)) \o d = <<Junk>> \o ((<<>> \o f) \o d)
<1>1. (s \o f) \o d \in Seq(Int) /\ s \o f \in Seq(Int)
  OBVIOUS
<1>2. ASSUME NEW x \in Int PROVE (s \o f) \o Append(d, x) = Append((s \o f) \o d, x)
  OBVIOUS
<1>3. ASSUME s # <<>>
      PROVE  (s \o f) \o d # <<>> /\ (Tail(s) \o f) \o d = Tail((s \o f) \o d)
             /\ Head(s) = Head((s \o f) \o d)
  <2>1. s \o f # <<>> /\ Tail(s \o f) = Tail(s) \o f /\ Head(s \o f) = Head(s)
    BY <1>3, TailOfConcat
  <2> DEFINE u == s \o f
  <2>2. u \in Seq(Int) /\ u # <<>>
    BY <1>1, <2>1
  <2> HIDE DEF u
  <2>3. u \o d # <<>> /\ Tail(u \o d) = Tail(u) \o d /\ Head(u \o d) = Head(u)
    BY <2>2, TailOfConcat
  <2> QED
    BY <2>1, <2>3 DEF u
<1>4. ASSUME d # <<>> PROVE (s \o Append(f, Head(d))) \o Tail(d) = (s \o f) \o d
  <2> DEFINE g == Append(f, Head(d))
  <2>1. g \in Seq(Int) /\ Tail(d) \in Seq(Int)
    BY <1>4
  <2>2. g \o Tail(d) = f \o d
    BY <1>4, HeadMoves
  <2> HIDE DEF g
  <2>3. (s \o g) \o Tail(d) = s \o (g \o Tail(d))
    BY <2>1, Associative
  <2>4. (s \o f) \o d = s \o (f \o d)
    BY Associative
  <2> QED
    BY <2>2, <2>3, <2>4 DEF g
<1>5. ASSUME NEW n \in 0 .. Len(f)
      PROVE  ((s \o SubSeq(f, 1, n)) \o SubSeq(f, n + 1, Len(f))) \o d = (s \o f) \o d
  <2> DEFINE a == SubSeq(f, 1, n)
             b == SubSeq(f, n + 1, Len(f))
  <2>1. a \in Seq(Int) /\ b \in Seq(Int) /\ a \o b = f
    BY CutIsWhole
  <2> HIDE DEF a, b
  <2>2. (s \o a) \o b = s \o (a \o b)
    BY ZenonT(60), <2>1, Associative
  <2> QED
    BY <2>1, <2>2 DEF a, b
<1>6. (<<>> \o (<<Junk>> \o f)) \o d = <<Junk>> \o ((<<>> \o f) \o d)
  <2>1. <<Junk>> \in Seq(Int) /\ <<>> \in Seq(Int) /\ <<Junk>> \o f \in Seq(Int)
    BY DEF Junk
  <2>2. <<>> \o (<<Junk>> \o f) = <<Junk>> \o f /\ <<>> \o f = f
    BY <2>1, ConcatEmptySeq
  <2>3. (<<Junk>> \o f) \o d = <<Junk>> \o (f \o d)
    BY <2>1, Associative
  <2> QED
    BY <2>2, <2>3
<1> QED
  BY <1>1, <1>2, <1>3, <1>4, <1>5, <1>6

-----------------------------------------------------------------------------
(* The sets above, when the state they are of does not change.             *)

LEMMA FlowSame ==
  ASSUME UNCHANGED <<sockBuf, fromDev, toDev>>
  PROVE  Flying' = Flying /\ (Once(Flow)' <=> Once(Flow))
BY DEF Flow, Flying

LEMMA PostedSame ==
  ASSUME UNCHANGED posted
  PROVE  /\ Left' = Left /\ Writes(posted)' = Writes(posted)
         /\ AskedOnce(posted)' <=> AskedOnce(posted)
BY DEF Left

LEMMA HolderSame ==
  ASSUME UNCHANGED <<lock, pc, req>>
  PROVE  Held' = Held /\ (Holds' <=> Holds) /\ (Hears' <=> Hears)
BY DEF Held, Holds, Hears

LEMMA ReadSame ==
  ASSUME UNCHANGED <<lock, pc, rsp>> PROVE Read' = Read
BY DEF Read, Hears

LEMMA HalfSame == ASSUME UNCHANGED line PROVE Half' = Half
BY DEF Half

LEMMA KeptSame == ASSUME UNCHANGED busyReq PROVE Kept' = Kept
BY DEF Kept

(* What the invariant says of the one that has the mutex.                  *)
LEMMA InCall ==
  ASSUME Types, LockOK, NEW t \in Threads, pc[t] # "idle"
  PROVE  /\ lock = t
         /\ \A u \in Threads : u # t => pc[u] = "idle" /\ u \notin woken
BY DEF LockOK, Types, Threads

LEMMA NobodyIsNone == Nobody \notin Threads
BY CallersAssumption DEF Threads

LEMMA NobodyCalls ==
  ASSUME Types, LockOK, lock = Nobody
  PROVE  /\ ~Holds /\ ~Hears /\ woken = {} /\ Held = {} /\ Read = {}
         /\ \A u \in Threads : pc[u] = "idle"
<1>1. \A u \in Threads : pc[u] = "idle"
  BY NobodyIsNone DEF LockOK
<1> QED
  BY <1>1, NobodyIsNone DEF LockOK, Types, Holds, Hears, Held, Read

LEMMA FlowTyped == ASSUME Types PROVE Flow \in Seq(Int)
BY DEF Types, Flow

LEMMA InitKeeps == Init => Inv
<1> SUFFICES ASSUME Init PROVE Inv
  OBVIOUS
<1>1. Types
  <2>1. /\ lock \in Threads \cup {Nobody} /\ pc \in [Threads -> Places]
        /\ req \in [Threads -> Nat] /\ woken \subseteq Threads
    BY DEF Init, Places, None
  <2>2. posted \in Seq(Slot) /\ frames \in Seq({"read", "call"})
    BY EmptySeq DEF Init
  <2>3. /\ toDev \in Seq(Int) /\ fromDev \in Seq(Int) /\ sockBuf \in Seq(Int)
        /\ answered \in Seq(Int)
    BY DEF Init
  <2>4. busyReq \in Nat /\ rsp \in Nat /\ line \in Int /\ issued \in 0 .. MaxCalls
    BY BoundsAssumption DEF Init, None
  <2>5. late \in BOOLEAN
    BY DEF Init
  <2> QED
    BY <2>1, <2>2, <2>3, <2>4, <2>5 DEF Types
<1>2. LockOK /\ FramesOK
  BY DEF Init, LockOK, FramesOK
<1>3. Flow = <<>> /\ ~Holds /\ ~Hears
  BY NobodyIsNone DEF Init, Flow, Holds, Hears
<1>4. /\ Left = {} /\ Flying = {} /\ Half = {} /\ Kept = {} /\ Held = {} /\ Read = {}
      /\ Elems(answered) = {} /\ Writes(posted) = {} /\ Once(Flow)
  BY <1>3, NoElems DEF Init, Left, Flying, Half, Kept, Held, Read, None
<1>5. AskedOnce(posted)
  BY DEF Init, AskedOnce
<1>6. Apart
  BY <1>4, <1>5 DEF Apart
<1>7. Own
  BY <1>1, <1>3, <1>4, NobodyIsNone DEF Own, Coming, Init
<1> QED
  BY <1>1, <1>2, <1>6, <1>7 DEF Inv

LEMMA StutterKeeps == ASSUME Inv, UNCHANGED vars PROVE Inv'
<1>1. UNCHANGED <<lock, pc, req, posted, busyReq, rsp, woken, toDev, fromDev, sockBuf,
                  readyRead, frames, line, issued, answered, late>>
  BY DEF vars
<1>2. Types' /\ LockOK' /\ FramesOK'
  BY <1>1 DEF Inv, Types, LockOK, FramesOK
<1>3. Apart'
  BY <1>1, FlowSame, PostedSame, HolderSame, ReadSame, HalfSame, KeptSame DEF Inv, Apart
<1>4. Own'
  BY <1>1, FlowSame, PostedSame, HolderSame, ReadSame, HalfSame, KeptSame
     DEF Inv, Own, Coming
<1> QED
  BY <1>2, <1>3, <1>4 DEF Inv

LEMMA FramesSame ==
  ASSUME FramesOK, UNCHANGED <<frames, line, readyRead, sockBuf>> PROVE FramesOK'
BY DEF FramesOK

-----------------------------------------------------------------------------
(* The steps of a Call.                                                    *)

LEMMA CallLocksKeeps ==
  ASSUME Inv, NEW c \in Callers, CallLocks(c) PROVE Inv'
<1>1. /\ c \in Threads /\ pc[c] = "idle" /\ lock = Nobody /\ issued < MaxCalls
      /\ lock' = c /\ issued' = issued + 1 /\ req' = [req EXCEPT ![c] = issued + 1]
      /\ pc' = [pc EXCEPT ![c] = "locked"]
      /\ UNCHANGED <<posted, busyReq, rsp, woken, toDev, fromDev, sockBuf, readyRead,
                     frames, line, answered, late>>
  BY DEF CallLocks, Free, netVars, busyVars, endVars, Threads
<1>2. Types /\ LockOK /\ FramesOK /\ Apart /\ Own
  BY DEF Inv
<1>3. issued \in Nat /\ issued + 1 \in 0 .. MaxCalls /\ issued + 1 \in Nat
  BY <1>1, <1>2, BoundsAssumption DEF Types
<1>4. /\ ~Hears /\ woken = {} /\ Held = {} /\ Read = {}
      /\ \A u \in Threads : pc[u] = "idle"
  BY <1>1, <1>2, NobodyCalls
<1>5. /\ pc' \in [Threads -> Places] /\ req' \in [Threads -> Nat] /\ pc'[c] = "locked"
      /\ req'[c] = issued + 1
      /\ \A u \in Threads : u # c => pc'[u] = "idle"
  BY <1>1, <1>2, <1>3, <1>4 DEF Types, Places
<1>6. Types'
  BY <1>1, <1>2, <1>3, <1>5 DEF Types
<1>7. LockOK'
  BY <1>1, <1>4, <1>5 DEF LockOK
<1>8. FramesOK'
  BY <1>1, <1>2, FramesSame
<1>9. Held' = {issued + 1} /\ Read' = {} /\ ~Hears'
  BY <1>1, <1>5 DEF Held, Holds, Read, Hears
<1>10. /\ Flying' = Flying /\ Half' = Half /\ Kept' = Kept /\ Left' = Left
       /\ (Once(Flow)' <=> Once(Flow)) /\ (AskedOnce(posted)' <=> AskedOnce(posted))
       /\ Writes(posted)' = Writes(posted)
  BY <1>1, FlowSame, HalfSame, KeptSame, PostedSame
<1>11. Apart'
  <2>1. issued + 1 \notin Left \cup Flying \cup Half \cup Kept \cup Elems(answered)
    BY <1>2, <1>3 DEF Apart
  <2>2. \A x \in 1 .. issued : x \in 1 .. issued + 1
    BY <1>3
  <2>3. issued + 1 \in 1 .. issued + 1
    BY <1>3
  <2> QED
    BY <1>1, <1>2, <1>4, <1>9, <1>10, <2>1, <2>2, <2>3 DEF Apart
<1>12. Own'
  BY <1>1, <1>2, <1>4, <1>5, <1>9, <1>10 DEF Own, Coming
<1> QED
  BY <1>6, <1>7, <1>8, <1>11, <1>12 DEF Inv

LEMMA CallIsBusyKeeps ==
  ASSUME Inv, NEW c \in Callers, CallIsBusy(c) PROVE Inv'
<1> DEFINE x == [slot |-> "BusyREQ", req |-> issued + 1]
<1>1. /\ issued < MaxCalls /\ issued' = issued + 1 /\ posted' = Append(posted, x)
      /\ UNCHANGED <<lock, pc, req, busyReq, rsp, woken, toDev, fromDev, sockBuf, readyRead,
                     frames, line, answered, late>>
  BY DEF CallIsBusy, netVars, busyVars, endVars
<1>2. Types /\ LockOK /\ FramesOK /\ Apart /\ Own
  BY DEF Inv
<1>3. issued \in Nat /\ issued + 1 \in 0 .. MaxCalls /\ issued + 1 \in Nat
  BY <1>1, <1>2, BoundsAssumption DEF Types
<1>4. x \in Slot /\ x.req = issued + 1 /\ x.slot # "WriteREQ" /\ posted \in Seq(Slot)
  BY <1>2, <1>3 DEF Slot, Types
<1> HIDE DEF x
<1>5. /\ posted' \in Seq(Slot) /\ Left' = Left \cup {issued + 1}
      /\ Writes(posted)' = Writes(posted)
      /\ AskedOnce(posted) /\ issued + 1 \notin Left => AskedOnce(posted)'
  BY <1>1, <1>4, AppendAsked DEF Left
<1>6. Types'
  BY <1>1, <1>2, <1>3, <1>5 DEF Types
<1>7. LockOK'
  BY <1>1, <1>2 DEF LockOK
<1>8. FramesOK'
  BY <1>1, <1>2, FramesSame
<1>9. /\ Flying' = Flying /\ Half' = Half /\ Kept' = Kept /\ Held' = Held /\ Read' = Read
      /\ (Once(Flow)' <=> Once(Flow)) /\ (Hears' <=> Hears)
  BY <1>1, FlowSame, HalfSame, KeptSame, HolderSame, ReadSame
<1>10. Apart'
  <2>1. issued + 1 \notin Left \cup Flying \cup Half \cup Kept \cup Held \cup Read \cup Elems(answered)
    BY <1>2, <1>3 DEF Apart
  <2>2. \A y \in 1 .. issued : y \in 1 .. issued + 1
    BY <1>3
  <2>3. issued + 1 \in 1 .. issued + 1
    BY <1>3
  <2> QED
    BY <1>1, <1>2, <1>5, <1>9, <2>1, <2>2, <2>3 DEF Apart
<1>11. Own'
  BY <1>1, <1>2, <1>5, <1>9 DEF Own, Coming
<1> QED
  BY <1>6, <1>7, <1>8, <1>10, <1>11 DEF Inv

LEMMA ClearBusyKeeps ==
  ASSUME Inv, NEW c \in Callers, ClearBusy(c) PROVE Inv'
<1>1. /\ c \in Threads /\ pc[c] = "locked" /\ busyReq' \in {None, busyReq}
      /\ pc' = [pc EXCEPT ![c] = "cleared"]
      /\ UNCHANGED <<lock, req, posted, rsp, woken, toDev, fromDev, sockBuf, readyRead,
                     frames, line, issued, answered, late>>
  BY DEF ClearBusy, netVars, endVars, Threads
<1>2. Types /\ LockOK /\ FramesOK /\ Apart /\ Own
  BY DEF Inv
<1>3. /\ lock = c /\ \A u \in Threads : u # c => pc[u] = "idle" /\ u \notin woken
  BY <1>1, <1>2, InCall
<1>4. /\ pc' \in [Threads -> Places] /\ pc'[c] = "cleared"
      /\ \A u \in Threads : u # c => pc'[u] = pc[u]
  BY <1>1, <1>2 DEF Types, Places
<1>5. Types'
  BY <1>1, <1>2, <1>4 DEF Types, None
<1>6. LockOK'
  BY <1>1, <1>2, <1>3, <1>4 DEF LockOK, Types
<1>7. FramesOK'
  BY <1>1, <1>2, FramesSame
<1>8. /\ Held' = Held /\ Read' = {} /\ ~Hears /\ ~Hears' /\ Kept' \in {{}, Kept}
  BY <1>1, <1>3, <1>4 DEF Held, Holds, Read, Hears, Kept
<1>9. /\ Flying' = Flying /\ Half' = Half /\ Left' = Left
      /\ (Once(Flow)' <=> Once(Flow)) /\ (AskedOnce(posted)' <=> AskedOnce(posted))
      /\ Writes(posted)' = Writes(posted)
  BY <1>1, FlowSame, HalfSame, PostedSame
<1>10. Apart'
  BY <1>1, <1>2, <1>8, <1>9 DEF Apart
<1>11. Own'
  BY <1>1, <1>2, <1>3, <1>4, <1>8, <1>9 DEF Own, Coming
<1> QED
  BY <1>5, <1>6, <1>7, <1>10, <1>11 DEF Inv

LEMMA SendREQKeeps ==
  ASSUME Inv, NEW c \in Callers, SendREQ(c) PROVE Inv'
<1> DEFINE x == [slot |-> "WriteREQ", req |-> req[c]]
<1>1. /\ c \in Threads /\ pc[c] = "cleared" /\ rsp' = None
      /\ posted' = Append(posted, x) /\ pc' = [pc EXCEPT ![c] = "sent"]
      /\ UNCHANGED <<lock, req, busyReq, woken, toDev, fromDev, sockBuf, readyRead,
                     frames, line, issued, answered, late>>
  BY DEF SendREQ, netVars, busyVars, endVars, Threads
<1>2. Types /\ LockOK /\ FramesOK /\ Apart /\ Own
  BY DEF Inv
<1>3. /\ lock = c /\ \A u \in Threads : u # c => pc[u] = "idle" /\ u \notin woken
  BY <1>1, <1>2, InCall
<1>4. /\ pc' \in [Threads -> Places] /\ pc'[c] = "sent" /\ req[c] \in Nat
      /\ \A u \in Threads : u # c => pc'[u] = pc[u]
  BY <1>1, <1>2 DEF Types, Places
<1>5. x \in Slot /\ x.req = req[c] /\ x.slot = "WriteREQ" /\ posted \in Seq(Slot)
  BY <1>2, <1>4 DEF Slot, Types
<1> HIDE DEF x
<1>6. /\ posted' \in Seq(Slot) /\ Left' = Left \cup {req[c]}
      /\ Writes(posted)' = Writes(posted) \cup {req[c]}
      /\ AskedOnce(posted) /\ req[c] \notin Left => AskedOnce(posted)'
  BY <1>1, <1>5, AppendAsked DEF Left
<1>7. Types'
  BY <1>1, <1>2, <1>4, <1>6 DEF Types, None
<1>8. woken = {} /\ LockOK'
  BY <1>1, <1>2, <1>3, <1>4 DEF LockOK, Types
<1>9. FramesOK'
  BY <1>1, <1>2, FramesSame
<1>10. /\ Held = {req[c]} /\ Held' = {} /\ Read' = {} /\ ~Hears /\ Hears'
  BY <1>1, <1>3, <1>4 DEF Held, Holds, Read, Hears
<1>11. /\ Flying' = Flying /\ Half' = Half /\ Kept' = Kept
       /\ (Once(Flow)' <=> Once(Flow))
  BY <1>1, FlowSame, HalfSame, KeptSame
<1>12. Apart'
  BY <1>1, <1>2, <1>6, <1>10, <1>11 DEF Apart
<1>13. Own'
  <2>1. \A t \in Threads : ~(t \in woken' \/ pc'[t] = "valid")
    BY <1>1, <1>3, <1>4, <1>8
  <2> QED
    BY <1>1, <1>2, <1>3, <1>6, <1>10, <1>11, <2>1 DEF Own, Coming
<1> QED
  BY <1>7, <1>8, <1>9, <1>12, <1>13 DEF Inv

LEMMA ListenKeeps ==
  ASSUME Inv, NEW c \in Callers, Listen(c) PROVE Inv'
<1>1. /\ c \in Threads /\ pc[c] = "sent" /\ pc' = [pc EXCEPT ![c] = "waiting"]
      /\ UNCHANGED <<lock, req, posted, busyReq, rsp, woken, toDev, fromDev, sockBuf,
                     readyRead, frames, line, issued, answered, late>>
  BY DEF Listen, netVars, busyVars, endVars, Threads
<1>2. Types /\ LockOK /\ FramesOK /\ Apart /\ Own
  BY DEF Inv
<1>3. /\ lock = c /\ \A u \in Threads : u # c => pc[u] = "idle" /\ u \notin woken
  BY <1>1, <1>2, InCall
<1>4. /\ pc' \in [Threads -> Places] /\ pc'[c] = "waiting"
      /\ \A u \in Threads : u # c => pc'[u] = pc[u]
  BY <1>1, <1>2 DEF Types, Places
<1>5. Types'
  BY <1>1, <1>2, <1>4 DEF Types
<1>6. LockOK'
  BY <1>1, <1>2, <1>3, <1>4 DEF LockOK, Types
<1>7. FramesOK'
  BY <1>1, <1>2, FramesSame
<1>8. Held' = Held /\ Read' = Read /\ Hears /\ Hears'
  BY <1>1, <1>3, <1>4 DEF Held, Holds, Read, Hears
<1>9. /\ Flying' = Flying /\ Half' = Half /\ Kept' = Kept /\ Left' = Left
      /\ (Once(Flow)' <=> Once(Flow)) /\ (AskedOnce(posted)' <=> AskedOnce(posted))
      /\ Writes(posted)' = Writes(posted)
  BY <1>1, FlowSame, HalfSame, KeptSame, PostedSame
<1>10. Apart'
  BY <1>1, <1>2, <1>8, <1>9 DEF Apart
<1>11. Own'
  BY <1>1, <1>2, <1>4, <1>8, <1>9 DEF Own, Coming
<1> QED
  BY <1>5, <1>6, <1>7, <1>10, <1>11 DEF Inv

(* A slot that ends leaves the frames below it.                            *)
LEMMA FrontFrames ==
  ASSUME Types, FramesOK, frames' = Front(frames)
  PROVE  /\ frames' \in Seq({"read", "call"})
         /\ \A i \in 1 .. Len(frames)' : i \in 1 .. Len(frames) /\ frames'[i] = frames[i]
<1>1. frames \in Seq({"read", "call"}) /\ Len(frames) \in Nat
  BY DEF Types
<1> DEFINE n == Len(frames) - 1
<1>2. n \in Int /\ \A i \in 1 .. n : frames[i] \in {"read", "call"}
  BY <1>1
<1>3. frames' = SubSeq(frames, 1, n)
  BY DEF Front
<1> HIDE DEF n
<1>4. /\ SubSeq(frames, 1, n) \in Seq({"read", "call"})
      /\ Len(SubSeq(frames, 1, n)) = IF 1 <= n THEN n - 1 + 1 ELSE 0
      /\ \A i \in 1 .. n - 1 + 1 : SubSeq(frames, 1, n)[i] = frames[1 + i - 1]
  BY <1>2, SubSeqProperties
<1>5. /\ frames' \in Seq({"read", "call"})
      /\ Len(frames') = IF 1 <= n THEN n ELSE 0
      /\ \A i \in 1 .. n : frames'[i] = frames[i]
  BY <1>2, <1>3, <1>4
<1>6. \A i \in 1 .. Len(frames') : i \in 1 .. n /\ i \in 1 .. Len(frames)
  BY <1>1, <1>2, <1>5 DEF n
<1>7. \A i \in 1 .. Len(frames') : i \in 1 .. Len(frames) /\ frames'[i] = frames[i]
  BY ONLY <1>5, <1>6
<1> QED
  BY ONLY <1>5, <1>7

LEMMA ReturnsFrames ==
  ASSUME Types, FramesOK, NEW t, frames' = IF t = Worker THEN Front(frames) ELSE frames,
         UNCHANGED <<line, readyRead, sockBuf>>
  PROVE  frames' \in Seq({"read", "call"}) /\ FramesOK'
<1>1. CASE t # Worker
  BY <1>1, FramesSame DEF Types
<1>2. CASE t = Worker
  BY <1>2, FrontFrames DEF FramesOK
<1> QED
  BY <1>1, <1>2

LEMMA ReadResponseKeeps ==
  ASSUME Inv, NEW t \in Threads, ReadResponse(t) PROVE Inv'
<1>1. /\ pc[t] = "valid" /\ answered' = IF rsp = None THEN answered ELSE Append(answered, rsp)
      /\ lock' = Nobody
      /\ pc' = [pc EXCEPT ![t] = "idle"] /\ req' = [req EXCEPT ![t] = None]
      /\ frames' = IF t = Worker THEN Front(frames) ELSE frames
      /\ UNCHANGED <<posted, busyReq, rsp, woken, toDev, fromDev, sockBuf, readyRead,
                     line, issued, late>>
  BY DEF ReadResponse, Returns, busyVars
<1>2. Types /\ LockOK /\ FramesOK /\ Apart /\ Own
  BY DEF Inv
<1>3. /\ lock = t /\ \A u \in Threads : u # t => pc[u] = "idle" /\ u \notin woken
  BY <1>1, <1>2, InCall
<1>4. /\ pc' \in [Threads -> Places] /\ req' \in [Threads -> Nat]
      /\ \A u \in Threads : pc'[u] = "idle"
  BY <1>1, <1>2, <1>3 DEF Types, Places, None
<1>5. frames' \in Seq({"read", "call"}) /\ FramesOK'
  BY <1>1, <1>2, ReturnsFrames
<1>6. Types' /\ Elems(answered)' = Elems(answered) \cup ({rsp} \ {None})
  <2>1. answered \in Seq(Int) /\ rsp \in Int
    BY <1>2 DEF Types
  <2>2. answered' \in Seq(Int) /\ Elems(answered)' = Elems(answered) \cup ({rsp} \ {None})
    BY <1>1, <2>1, AppendElems
  <2>3. Types'
    BY <1>1, <1>2, <1>4, <1>5, <2>2 DEF Types
  <2> QED
    BY <2>2, <2>3
<1>7. LockOK'
  BY <1>1, <1>2, <1>3, <1>4 DEF LockOK, Types
<1>8. /\ Read = {rsp} \ {None} /\ Held = {} /\ Held' = {} /\ Read' = {} /\ ~Hears'
  BY <1>1, <1>3, <1>4, NobodyIsNone DEF Held, Holds, Read, Hears
<1>9. /\ Flying' = Flying /\ Half' = Half /\ Kept' = Kept /\ Left' = Left
      /\ (Once(Flow)' <=> Once(Flow)) /\ (AskedOnce(posted)' <=> AskedOnce(posted))
      /\ Writes(posted)' = Writes(posted)
  BY <1>1, FlowSame, HalfSame, KeptSame, PostedSame
<1>10. Apart'
  BY <1>1, <1>2, <1>6, <1>8, <1>9 DEF Apart
<1>11. Own'
  BY <1>1, <1>2, <1>4, <1>8, <1>9 DEF Own, Coming
<1> QED
  BY <1>5, <1>6, <1>7, <1>10, <1>11 DEF Inv

(* If nothing is late, nothing is on the way when the loop of a Call ends. *)
LEMMA NothingComes ==
  ASSUME Types, Apart, Own, NEW t \in Threads, lock = t,
         ~(late \/ (t \notin woken /\ OnTheWay(req[t])))
  PROVE  Coming = {}
<1>1. CASE t \in woken
  BY <1>1 DEF Own
<1>2. CASE ~OnTheWay(req[t])
  <2>1. Coming \subseteq {req[t]}
    BY DEF Own
  <2>2. req[t] \notin Writes(posted)
    <3>1. \A i \in 1 .. Len(posted) : posted[i].slot = "WriteREQ" =>
            posted[i] = [slot |-> "WriteREQ", req |-> posted[i].req]
      <4>1. \A i \in 1 .. Len(posted) : posted[i] \in Slot
        BY DEF Types
      <4> QED
        BY <4>1 DEF Slot
    <3>2. \A i \in 1 .. Len(posted) : posted[i] # [slot |-> "WriteREQ", req |-> req[t]]
      BY <1>2 DEF OnTheWay, Range, Types
    <3> QED
      BY <3>1, <3>2 DEF Writes
  <2>3. req[t] \notin Flying
    <3>1. req[t] \notin Range(Flow)
      BY <1>2 DEF OnTheWay, Flow
    <3>2. Flow \in Seq(Int)
      BY FlowTyped
    <3> QED
      BY <3>1, <3>2 DEF Flying, Elems, Range
  <2>4. req[t] \notin Half
    BY <1>2 DEF OnTheWay, Half
  <2> QED
    BY <2>1, <2>2, <2>3, <2>4 DEF Coming
<1> QED
  BY <1>1, <1>2

LEMMA LoopEndsKeeps ==
  ASSUME Inv, NEW t \in Threads, LoopEnds(t) PROVE Inv'
<1>1. /\ pc[t] = "waiting" /\ late' = (late \/ (t \notin woken /\ OnTheWay(req[t])))
      /\ \/ /\ rsp # None /\ pc' = [pc EXCEPT ![t] = "valid"]
            /\ UNCHANGED <<lock, req, answered, frames>>
         \/ /\ rsp = None /\ answered' = answered /\ lock' = Nobody
            /\ pc' = [pc EXCEPT ![t] = "idle"] /\ req' = [req EXCEPT ![t] = None]
            /\ frames' = IF t = Worker THEN Front(frames) ELSE frames
      /\ woken' = woken \ {t}
      /\ UNCHANGED <<posted, busyReq, rsp, toDev, fromDev, sockBuf, readyRead,
                     line, issued>>
  BY DEF LoopEnds, Returns, busyVars
<1>2. Types /\ LockOK /\ FramesOK /\ Apart /\ Own
  BY DEF Inv
<1>3. /\ lock = t /\ \A u \in Threads : u # t => pc[u] = "idle" /\ u \notin woken
  BY <1>1, <1>2, InCall
<1>4. woken' = {} /\ Hears /\ ~Holds /\ Held = {}
  BY <1>1, <1>2, <1>3 DEF Types, Hears, Holds, Held
<1>5. /\ Flying' = Flying /\ Half' = Half /\ Kept' = Kept /\ Left' = Left
      /\ (Once(Flow)' <=> Once(Flow)) /\ (AskedOnce(posted)' <=> AskedOnce(posted))
      /\ Writes(posted)' = Writes(posted)
  BY <1>1, FlowSame, HalfSame, KeptSame, PostedSame
<1>6. ~late' => ~late /\ Coming = {} /\ Coming' = {}
  BY <1>1, <1>2, <1>3, <1>5, NothingComes DEF Coming
<1>7. late' \in BOOLEAN
  BY <1>1
<1>8. CASE rsp # None
  <2>1. /\ pc' = [pc EXCEPT ![t] = "valid"] /\ UNCHANGED <<lock, req, answered, frames>>
    BY <1>1, <1>8
  <2>2. /\ pc' \in [Threads -> Places] /\ pc'[t] = "valid"
        /\ \A u \in Threads : u # t => pc'[u] = "idle"
    BY <1>2, <1>3, <2>1 DEF Types, Places
  <2>3. Types'
    BY <1>1, <1>2, <1>4, <1>7, <2>1, <2>2 DEF Types
  <2>4. LockOK'
    BY <1>3, <1>4, <2>1, <2>2 DEF LockOK
  <2>5. FramesOK'
    BY <1>1, <1>2, <2>1, FramesSame
  <2>6. Hears' /\ Held' = {} /\ Read' = Read
    BY <1>1, <1>3, <1>4, <2>1, <2>2 DEF Hears, Holds, Held, Read
  <2>7. Apart'
    BY <1>1, <1>2, <1>4, <1>5, <2>1, <2>6 DEF Apart
  <2>8. Own'
    BY <1>1, <1>2, <1>3, <1>4, <1>6, <2>1, <2>6 DEF Own
  <2> QED
    BY <2>3, <2>4, <2>5, <2>7, <2>8 DEF Inv
<1>9. CASE rsp = None
  <2>1. /\ answered' = answered /\ lock' = Nobody
        /\ pc' = [pc EXCEPT ![t] = "idle"] /\ req' = [req EXCEPT ![t] = None]
        /\ frames' = IF t = Worker THEN Front(frames) ELSE frames
    BY <1>1, <1>9
  <2>2. /\ pc' \in [Threads -> Places] /\ req' \in [Threads -> Nat]
        /\ \A u \in Threads : pc'[u] = "idle"
    BY <1>2, <1>3, <2>1 DEF Types, Places, None
  <2>3. frames' \in Seq({"read", "call"}) /\ FramesOK'
    BY <1>1, <1>2, <2>1, ReturnsFrames
  <2>4. Types'
    BY <1>1, <1>2, <1>4, <1>7, <2>1, <2>2, <2>3 DEF Types
  <2>5. LockOK'
    BY <1>4, <2>2 DEF LockOK
  <2>6. ~Hears' /\ Held' = {} /\ Read' = {}
    BY <2>1, NobodyIsNone DEF Hears, Holds, Held, Read
  <2>7. Apart'
    BY <1>1, <1>2, <1>4, <1>5, <2>1, <2>6 DEF Apart
  <2>8. Own'
    BY <1>6, <2>2, <2>6 DEF Own
  <2> QED
    BY <2>3, <2>4, <2>5, <2>7, <2>8 DEF Inv
<1> QED
  BY <1>8, <1>9

-----------------------------------------------------------------------------
(* The worker's slots that write and keep requests.                        *)

LEMMA Sends ==
  ASSUME Types, NEW r \in Nat, WriteREQ(r), UNCHANGED <<fromDev, sockBuf>>
  PROVE  /\ rsp' = None /\ toDev' \in Seq(Int)
         /\ Flying' \subseteq Flying \cup {r}
         /\ Once(Flow) /\ r \notin Flying /\ r # Junk => Once(Flow)'
<1>1. rsp' = None /\ toDev' = IF up THEN Append(toDev, r) ELSE toDev
  BY DEF WriteREQ
<1>2. r \in Int /\ toDev \in Seq(Int) /\ fromDev \in Seq(Int) /\ sockBuf \in Seq(Int)
  BY DEF Types
<1>3. CASE ~up
  BY <1>1, <1>2, <1>3, FlowSame
<1>4. CASE up
  <2>1. toDev' = Append(toDev, r) /\ Append(toDev, r) \in Seq(Int)
    BY <1>1, <1>2, <1>4
  <2>2. Flow' = Append(Flow, r) /\ Flow \in Seq(Int)
    BY <1>2, <2>1, FlowMoves DEF Flow
  <2>3. Elems(Flow)' = Elems(Flow) \cup {r}
        /\ (Once(Flow) /\ r \notin Elems(Flow) => Once(Flow)')
    BY <1>2, <2>2, AppendElems
  <2> QED
    BY <1>1, <2>1, <2>3 DEF Flying
<1> QED
  BY <1>3, <1>4

LEMMA WriteSlotKeeps == ASSUME Inv, WriteSlot PROVE Inv'
<1> DEFINE r == Head(posted).req
<1>1. /\ posted # <<>> /\ Head(posted).slot = "WriteREQ" /\ WriteREQ(r) /\ posted' = Tail(posted)
      /\ UNCHANGED <<lock, pc, req, busyReq, woken, fromDev, sockBuf, readyRead,
                     frames, line, issued, answered, late>>
  BY DEF WriteSlot, PostedIs, busyVars, endVars
<1>2. Types /\ LockOK /\ FramesOK /\ Apart /\ Own
  BY DEF Inv
<1>3. posted \in Seq(Slot)
  BY <1>2 DEF Types
<1>4. /\ posted' \in Seq(Slot) /\ Head(posted) \in Slot
      /\ Left = Left' \cup {r} /\ Writes(posted) = Writes(posted)' \cup {r}
      /\ AskedOnce(posted) => AskedOnce(posted)' /\ r \notin Left'
  BY <1>1, <1>3, TailAsked DEF Left
<1>5. r \in Nat
  BY <1>4 DEF Slot
<1> HIDE DEF r
<1>6. r # Junk
  BY <1>5 DEF Junk
<1>7. /\ rsp' = None /\ toDev' \in Seq(Int)
      /\ Flying' \subseteq Flying \cup {r}
      /\ Once(Flow) /\ r \notin Flying /\ r # Junk => Once(Flow)'
  BY <1>1, <1>2, <1>5, Sends
<1>8. Types'
  BY <1>1, <1>2, <1>4, <1>7 DEF Types, None
<1>9. LockOK' /\ FramesOK'
  BY <1>1, <1>2, FramesSame DEF LockOK
<1>10. /\ Half' = Half /\ Kept' = Kept /\ Held' = Held /\ Read' \subseteq Read
       /\ (Hears' <=> Hears)
  BY <1>1, <1>7, HalfSame, KeptSame, HolderSame DEF Read
<1>11. Apart'
  BY <1>1, <1>2, <1>4, <1>6, <1>7, <1>10 DEF Apart
<1>12. Own'
  <2>1. r \in Coming /\ Coming' \subseteq Coming
    BY <1>4, <1>7, <1>10 DEF Coming
  <2> QED
    BY <1>1, <1>2, <1>7, <1>10, <2>1 DEF Own
<1> QED
  BY <1>8, <1>9, <1>11, <1>12 DEF Inv

LEMMA BusyREQKeeps == ASSUME Inv, BusyREQ PROVE Inv'
<1> DEFINE r == Head(posted).req
<1>1. /\ posted # <<>> /\ Head(posted).slot = "BusyREQ" /\ busyReq' = r /\ posted' = Tail(posted)
      /\ UNCHANGED <<lock, pc, req, rsp, woken, toDev, fromDev, sockBuf, readyRead,
                     frames, line, issued, answered, late>>
  BY DEF BusyREQ, PostedIs, netVars, endVars
<1>2. Types /\ LockOK /\ FramesOK /\ Apart /\ Own
  BY DEF Inv
<1>3. posted \in Seq(Slot)
  BY <1>2 DEF Types
<1>4. /\ posted' \in Seq(Slot) /\ Head(posted) \in Slot
      /\ Left = Left' \cup {r} /\ Writes(posted) = Writes(posted)'
      /\ AskedOnce(posted) => AskedOnce(posted)' /\ r \notin Left'
  <2>1. Head(posted).slot # "WriteREQ"
    BY <1>1
  <2>2. Writes(posted) = Writes(Tail(posted))
    <3>1. Writes(posted) = Writes(Tail(posted)) \cup
                             (IF Head(posted).slot = "WriteREQ" THEN {Head(posted).req} ELSE {})
      BY <1>1, <1>3, TailAsked
    <3> QED
      BY <2>1, <3>1
  <2>3. Left = Asked(Tail(posted)) \cup {r}
    BY <1>1, <1>3, TailAsked DEF Left
  <2>4. AskedOnce(posted) => AskedOnce(Tail(posted)) /\ r \notin Asked(Tail(posted))
    BY <1>1, <1>3, TailAsked
  <2>5. Tail(posted) \in Seq(Slot) /\ Head(posted) \in Slot
    BY <1>1, <1>3
  <2> QED
    BY <1>1, <2>2, <2>3, <2>4, <2>5 DEF Left
<1>5. r \in Nat
  BY <1>4 DEF Slot
<1> HIDE DEF r
<1>6. Types'
  BY <1>1, <1>2, <1>4, <1>5 DEF Types
<1>7. LockOK' /\ FramesOK'
  BY <1>1, <1>2, FramesSame DEF LockOK
<1>8. /\ Flying' = Flying /\ Half' = Half /\ Kept' \subseteq {r} /\ Held' = Held /\ Read' = Read
      /\ (Hears' <=> Hears) /\ (Once(Flow)' <=> Once(Flow))
  BY <1>1, FlowSame, HalfSame, HolderSame, ReadSame DEF Kept
<1>9. Apart'
  BY <1>1, <1>2, <1>4, <1>8 DEF Apart
<1>10. Own'
  BY <1>1, <1>2, <1>4, <1>8 DEF Own, Coming
<1> QED
  BY <1>6, <1>7, <1>9, <1>10 DEF Inv

LEMMA SendBusyReqKeeps == ASSUME Inv, SendBusyReq PROVE Inv'
<1>1. /\ busyReq' = None
      /\ \/ /\ busyReq # None /\ lock = Nobody /\ lock' = Worker
            /\ req' = [req EXCEPT ![Worker] = busyReq] /\ WriteREQ(busyReq)
            /\ pc' = [pc EXCEPT ![Worker] = "waiting"] /\ frames' = Append(frames, "call")
         \/ UNCHANGED <<lock, req, rsp, toDev, pc, frames>>
      /\ UNCHANGED <<posted, woken, fromDev, sockBuf, readyRead, line, issued, answered, late>>
  BY DEF SendBusyReq, Pending, Free, endVars
<1>2. Types /\ LockOK /\ FramesOK /\ Apart /\ Own
  BY DEF Inv
<1>3. /\ Half' = Half /\ Kept' = {} /\ Left' = Left
      /\ (AskedOnce(posted)' <=> AskedOnce(posted)) /\ Writes(posted)' = Writes(posted)
  BY <1>1, HalfSame, PostedSame DEF Kept
<1>4. CASE UNCHANGED <<lock, req, rsp, toDev, pc, frames>>
  <2>1. Types' /\ LockOK' /\ FramesOK'
    BY <1>1, <1>2, <1>4, FramesSame DEF Types, LockOK, None
  <2>2. /\ Flying' = Flying /\ Held' = Held /\ Read' = Read
        /\ (Hears' <=> Hears) /\ (Once(Flow)' <=> Once(Flow))
    BY <1>1, <1>4, FlowSame, HolderSame, ReadSame
  <2>3. Apart'
    BY <1>1, <1>2, <1>3, <2>2 DEF Apart
  <2>4. Own'
    BY <1>1, <1>2, <1>3, <1>4, <2>2 DEF Own, Coming
  <2> QED
    BY <2>1, <2>3, <2>4 DEF Inv
<1>5. CASE /\ busyReq # None /\ lock = Nobody /\ lock' = Worker
           /\ req' = [req EXCEPT ![Worker] = busyReq] /\ WriteREQ(busyReq)
           /\ pc' = [pc EXCEPT ![Worker] = "waiting"] /\ frames' = Append(frames, "call")
  <2>1. /\ Worker \in Threads /\ busyReq \in Nat /\ busyReq # Junk
        /\ frames \in Seq({"read", "call"})
    BY <1>2 DEF Threads, Types, Junk
  <2>2. /\ ~Hears /\ woken = {} /\ Held = {} /\ Read = {}
        /\ \A u \in Threads : pc[u] = "idle"
    BY <1>2, <1>5, NobodyCalls
  <2>3. /\ pc' \in [Threads -> Places] /\ req' \in [Threads -> Nat]
        /\ pc'[Worker] = "waiting" /\ req'[Worker] = busyReq
        /\ \A u \in Threads : u # Worker => pc'[u] = "idle"
    BY <1>2, <1>5, <2>1, <2>2 DEF Types, Places
  <2>4. /\ rsp' = None /\ toDev' \in Seq(Int)
        /\ Flying' \subseteq Flying \cup {busyReq}
        /\ Once(Flow) /\ busyReq \notin Flying /\ busyReq # Junk => Once(Flow)'
    BY <1>1, <1>2, <1>5, <2>1, Sends
  <2>5. /\ frames' \in Seq({"read", "call"}) /\ Len(frames) \in Nat /\ Len(frames') = Len(frames) + 1
        /\ \A i \in 1 .. Len(frames) : frames'[i] = frames[i]
        /\ frames'[Len(frames) + 1] = "call"
    BY <1>5, <2>1
  <2>6. Types'
    BY <1>1, <1>2, <1>5, <2>1, <2>3, <2>4, <2>5 DEF Types, None
  <2>7. LockOK'
    BY <1>1, <1>5, <2>2, <2>3 DEF LockOK
  <2>8. FramesOK'
    <3>1. \A i \in 1 .. Len(frames') : frames'[i] = "read" =>
            i \in 1 .. Len(frames) /\ frames[i] = "read"
      BY <2>5
    <3> QED
      BY <1>1, <1>2, <3>1 DEF FramesOK
  <2>9. Held' = {} /\ Read' = {} /\ Hears'
    BY <1>5, <2>1, <2>3, <2>4 DEF Held, Holds, Read, Hears
  <2>10. busyReq \in Kept
    BY <1>5 DEF Kept
  <2>11. Apart'
    BY <1>1, <1>2, <1>3, <2>1, <2>4, <2>9, <2>10 DEF Apart
  <2>12. Own'
    BY <1>1, <1>2, <1>3, <1>5, <2>2, <2>3, <2>4, <2>9 DEF Own, Coming
  <2> QED
    BY <2>6, <2>7, <2>8, <2>11, <2>12 DEF Inv
<1> QED
  BY <1>1, <1>4, <1>5

-----------------------------------------------------------------------------
(* The worker's slot that reads.                                           *)

(* A line is read off the socket's buffer.                                 *)
LEMMA LineRead ==
  ASSUME Types, sockBuf # <<>>, sockBuf' = Tail(sockBuf), UNCHANGED <<fromDev, toDev>>
  PROVE  /\ sockBuf' \in Seq(Int) /\ Head(sockBuf) \in Int
         /\ Flying' \subseteq Flying
         /\ Head(sockBuf) # Junk => Head(sockBuf) \in Flying
         /\ Once(Flow) => Once(Flow)'
         /\ Once(Flow) /\ Head(sockBuf) # Junk => Head(sockBuf) \notin Flying'
<1>1. toDev \in Seq(Int) /\ fromDev \in Seq(Int) /\ sockBuf \in Seq(Int)
  BY DEF Types
<1>2. Flow # <<>> /\ Flow' = Tail(Flow) /\ Head(sockBuf) = Head(Flow) /\ Flow \in Seq(Int)
  BY SMTT(60), <1>1, FlowMoves DEF Flow
<1>3. /\ Elems(Flow) = Elems(Flow)' \cup {Head(Flow)}
      /\ Once(Flow) => Once(Flow)' /\ (Head(Flow) # Junk => Head(Flow) \notin Elems(Flow)')
  BY <1>2, TailElems
<1> QED
  BY <1>1, <1>2, <1>3 DEF Flying

(* Parse answers the Call that waits, if it is its answer.                 *)
LEMMA ParseKeeps ==
  ASSUME Inv, NEW l \in Int, l # None, Parse(l),
         FramesOK', sockBuf' \in Seq(Int), line' \in Int, frames' \in Seq({"read", "call"}),
         l # Junk => l \in Flying \cup Half /\ l \notin Flying' \cup Half',
         Flying' \subseteq Flying, Half' \subseteq Half, Once(Flow)',
         UNCHANGED <<lock, pc, req, posted, busyReq, toDev, fromDev, issued, answered, late>>
  PROVE  Inv'
<1>1. Types /\ LockOK /\ Apart /\ Own
  BY DEF Inv
<1>2. /\ Kept' = Kept /\ Left' = Left /\ Held' = Held /\ (Hears' <=> Hears)
      /\ (AskedOnce(posted)' <=> AskedOnce(posted)) /\ Writes(posted)' = Writes(posted)
  BY KeptSame, PostedSame, HolderSame
<1>3. CASE l = Junk
  <2>1. rsp' = None /\ woken' = woken
    BY <1>3 DEF Parse
  <2>2. Types' /\ LockOK'
    BY <1>1, <2>1 DEF Types, LockOK, None
  <2>3. Read' = {}
    BY <2>1 DEF Read
  <2>4. Apart'
    BY <1>1, <1>2, <2>3 DEF Apart
  <2>5. Own'
    BY <1>1, <1>2, <2>1 DEF Own, Coming
  <2> QED
    BY <2>2, <2>4, <2>5 DEF Inv
<1>4. CASE l # Junk
  <2>1. rsp' = l /\ woken' = woken \cup {t \in Threads : pc[t] = "waiting"}
    BY <1>4 DEF Parse
  <2>2. l \in 1 .. issued /\ l \in Nat
    <3>1. l \in 1 .. issued
      BY <1>1, <1>4 DEF Apart
    <3> QED
      BY <1>1, <3>1 DEF Types
  <2>3. Types' /\ LockOK'
    <3>1. woken' \subseteq Threads
      BY <1>1, <2>1 DEF Types
    <3>2. Types'
      BY <1>1, <2>1, <2>2, <3>1 DEF Types
    <3> QED
      BY <1>1, <2>1, <3>2 DEF LockOK
  <2>4. Read' \subseteq {l}
    BY <2>1 DEF Read
  <2>5. Apart'
    <3>1. l \notin Left \cup Kept \cup Held \cup Elems(answered)
      BY <1>1, <1>4 DEF Apart
    <3>2. l \notin Flying' \cup Half'
      BY <1>4
    <3>3. AskedOnce(posted)' /\ Once(Flow)'
      BY <1>1, <1>2 DEF Apart
    <3>4. (Left \cup Flying \cup Half \cup Kept \cup Held \cup Elems(answered)) \subseteq 1 .. issued
      BY <1>1 DEF Apart
    <3>5. /\ Left \cap (Flying \cup Half \cup Kept \cup Held \cup Elems(answered)) = {}
          /\ Flying \cap (Half \cup Kept \cup Held \cup Elems(answered)) = {}
          /\ Half \cap (Kept \cup Held \cup Elems(answered)) = {}
          /\ Kept \cap (Held \cup Elems(answered)) = {} /\ Held \cap Elems(answered) = {}
      BY <1>1 DEF Apart
    <3>6. /\ answered' = answered /\ issued' = issued
          /\ Flying' \subseteq Flying /\ Half' \subseteq Half
      OBVIOUS
    <3>7. (Left \cup Flying \cup Half \cup Kept \cup Held \cup Read \cup Elems(answered))'
             \subseteq 1 .. issued'
      BY ONLY <1>2, <2>2, <2>4, <3>4, <3>6
    <3> QED
      BY ONLY <1>2, <2>4, <3>1, <3>2, <3>3, <3>5, <3>6, <3>7 DEF Apart
  <2>6. Own'
    <3> SUFFICES ASSUME ~late PROVE Hears /\ l = req[lock] /\ Coming' = {}
      BY <1>2, <2>1 DEF Own
    <3>1. l \in Coming
      BY <1>4 DEF Coming
    <3>2. Hears /\ Coming = {l} /\ req[lock] = l
      BY <1>1, <3>1 DEF Own
    <3>3. l \notin Writes(posted)
      <4>1. Writes(posted) \subseteq Left
        BY DEF Writes, Left, Asked
      <4> QED
        BY <1>1, <1>4, <4>1 DEF Apart
    <3> QED
      BY <1>2, <1>4, <3>2, <3>3 DEF Coming
  <2> QED
    BY <2>3, <2>5, <2>6 DEF Inv
<1> QED
  BY <1>3, <1>4

LEMMA NoReadFrame ==
  ASSUME Types, "read" \notin Range(frames)
  PROVE  \A i \in 1 .. Len(frames) : frames[i] # "read"
BY DEF Types, Range

(* What is in the socket's buffer is a request or Junk.                    *)
LEMMA HeadIsLine ==
  ASSUME Types, Apart, sockBuf # <<>>
  PROVE  Head(sockBuf) \in Int /\ Head(sockBuf) # None
<1>1. toDev \in Seq(Int) /\ fromDev \in Seq(Int) /\ sockBuf \in Seq(Int)
  BY DEF Types
<1>2. Flow # <<>> /\ Head(sockBuf) = Head(Flow) /\ Flow \in Seq(Int)
  BY <1>1, FlowMoves DEF Flow
<1>3. Head(Flow) \in Elems(Flow) /\ Head(Flow) \in Int
  BY <1>2, TailElems
<1>4. Head(Flow) = Junk \/ Head(Flow) \in 1 .. issued
  BY <1>3 DEF Apart, Flying
<1> QED
  BY <1>2, <1>3, <1>4 DEF Junk, None

LEMMA ReadLineKeeps == ASSUME Inv, ReadLine PROVE Inv'
<1> DEFINE l == Head(sockBuf)
<1>1. /\ readyRead /\ readyRead' = FALSE /\ sockBuf' = Tail(sockBuf) /\ Parse(l)
      /\ UNCHANGED <<lock, pc, req, posted, busyReq, toDev, fromDev,
                     frames, line, issued, answered, late>>
  BY DEF ReadLine, ReadSlot, busyVars, endVars
<1>2. Types /\ LockOK /\ FramesOK /\ Apart /\ Own
  BY DEF Inv
<1>3. sockBuf # <<>>
  BY <1>1, <1>2 DEF FramesOK
<1>4. /\ sockBuf' \in Seq(Int) /\ l \in Int
      /\ Flying' \subseteq Flying /\ (l # Junk => l \in Flying)
      /\ Once(Flow)' /\ (l # Junk => l \notin Flying')
  BY <1>1, <1>2, <1>3, LineRead DEF Apart
<1>5. l # None
  BY <1>2, <1>3, HeadIsLine
<1>6. Half' = Half /\ (l # Junk => l \notin Half)
  BY <1>1, <1>2, <1>4, HalfSame DEF Apart
<1>7. FramesOK'
  BY <1>1, <1>2 DEF FramesOK
<1>8. line' \in Int /\ frames' \in Seq({"read", "call"})
  BY <1>1, <1>2 DEF Types
<1> HIDE DEF l
<1> QED
  BY <1>1, <1>4, <1>5, <1>6, <1>7, <1>8, ParseKeeps

LEMMA ReadPartKeeps == ASSUME Inv, ReadPart PROVE Inv'
<1> DEFINE l == Head(sockBuf)
<1>1. /\ readyRead /\ "read" \notin Range(frames) /\ Len(sockBuf) = 1
      /\ readyRead' = FALSE /\ rsp' = None
      /\ line' = l /\ sockBuf' = <<>> /\ frames' = Append(frames, "read")
      /\ UNCHANGED <<lock, pc, req, posted, busyReq, woken, toDev, fromDev,
                     issued, answered, late>>
  BY DEF ReadPart, ReadSlot, busyVars, endVars
<1>2. Types /\ LockOK /\ FramesOK /\ Apart /\ Own
  BY DEF Inv
<1>3. sockBuf # <<>> /\ sockBuf' = Tail(sockBuf)
  <2>1. sockBuf \in Seq(Int)
    BY <1>2 DEF Types
  <2>2. sockBuf # <<>> /\ Len(Tail(sockBuf)) = 0 /\ Tail(sockBuf) \in Seq(Int)
    BY SMTT(60), <1>1, <2>1
  <2> QED
    BY <1>1, <2>2, EmptySeq
<1>4. /\ sockBuf' \in Seq(Int) /\ l \in Int
      /\ Flying' \subseteq Flying /\ (l # Junk => l \in Flying)
      /\ Once(Flow)' /\ (l # Junk => l \notin Flying')
  BY <1>1, <1>2, <1>3, LineRead DEF Apart
<1>5. l # None
  BY <1>2, <1>3, HeadIsLine
<1> HIDE DEF l
<1>6. /\ frames' \in Seq({"read", "call"}) /\ Len(frames) \in Nat /\ Len(frames') = Len(frames) + 1
      /\ \A i \in 1 .. Len(frames) : frames'[i] = frames[i]
  BY <1>1, <1>2 DEF Types
<1>7. Types' /\ LockOK'
  BY <1>1, <1>2, <1>4, <1>6 DEF Types, LockOK, None
<1>8. FramesOK'
  <2>1. \A i \in 1 .. Len(frames') : frames'[i] = "read" => i = Len(frames) + 1
    BY <1>1, <1>2, <1>6, NoReadFrame
  <2> QED
    BY <1>1, <1>5, <2>1 DEF FramesOK
<1>9. /\ Kept' = Kept /\ Left' = Left /\ Held' = Held /\ (Hears' <=> Hears) /\ Read' = {}
      /\ (AskedOnce(posted)' <=> AskedOnce(posted)) /\ Writes(posted)' = Writes(posted)
  BY <1>1, KeptSame, PostedSame, HolderSame DEF Read
<1>10. Half' = {l} \ {Junk}
  BY <1>1, <1>5 DEF Half
<1>11. Apart'
  BY <1>1, <1>2, <1>4, <1>9, <1>10 DEF Apart
<1>12. Own'
  <2>1. Coming' \subseteq Coming
    BY <1>4, <1>9, <1>10 DEF Coming
  <2> QED
    BY <1>1, <1>2, <1>9, <2>1 DEF Own
<1> QED
  BY <1>7, <1>8, <1>11, <1>12 DEF Inv

(* A slot that reads has a part of a line, and no readyRead is pending.    *)
LEMMA PartIsThere ==
  ASSUME Types, FramesOK, Reading
  PROVE  line # None /\ ~readyRead
<1>1. frames \in Seq({"read", "call"}) /\ Len(frames) \in Nat
  BY DEF Types
<1>2. frames # <<>> /\ frames[Len(frames)] = "read"
  BY DEF Reading, Innermost, Last
<1>3. Len(frames) \in 1 .. Len(frames)
  BY <1>1, <1>2
<1> QED
  BY <1>2, <1>3 DEF FramesOK

(* The frame of the slot that read is gone with it.                        *)
LEMMA ReadFrameGone ==
  ASSUME Types, FramesOK, Reading, frames' = Front(frames)
  PROVE  \A i \in 1 .. Len(frames)' : frames'[i] # "read"
<1>1. frames \in Seq({"read", "call"}) /\ Len(frames) \in Nat
  BY DEF Types
<1>2. frames # <<>> /\ frames[Len(frames)] = "read"
  BY DEF Reading, Innermost, Last
<1> DEFINE n == Len(frames) - 1
<1>3. /\ n \in Nat /\ n + 1 = Len(frames) /\ n + 1 \in 1 .. Len(frames)
      /\ \A i \in 1 .. n : i \in 1 .. Len(frames) /\ i # n + 1
  BY <1>1, <1>2
<1>4. \A i \in 1 .. Len(frames) : frames[i] \in {"read", "call"}
  BY <1>1
<1>5. frames' = SubSeq(frames, 1, n)
  BY DEF Front
<1> HIDE DEF n
<1>6. Len(SubSeq(frames, 1, n)) = n /\ \A i \in 1 .. n : SubSeq(frames, 1, n)[i] = frames[i]
  BY <1>3, <1>4
<1>7. \A i \in 1 .. n : frames[i] # "read"
  BY <1>2, <1>3 DEF FramesOK
<1> QED
  BY <1>5, <1>6, <1>7

LEMMA ReadRestKeeps == ASSUME Inv, ReadRest PROVE Inv'
<1>1. /\ Reading
      /\ \/ line # Junk /\ UNCHANGED sockBuf
         \/ line = Junk /\ sockBuf # <<>> /\ sockBuf' = Tail(sockBuf)
      /\ IF line = Junk THEN UNCHANGED <<rsp, woken>> ELSE Parse(line)
      /\ line' = None /\ frames' = Front(frames)
      /\ UNCHANGED <<lock, pc, req, posted, busyReq, toDev, fromDev, readyRead, issued,
                     answered, late>>
  BY DEF ReadRest, busyVars, endVars
<1>2. Types /\ LockOK /\ FramesOK /\ Apart /\ Own
  BY DEF Inv
<1>3. line # None /\ ~readyRead /\ line \in Int
  BY <1>1, <1>2, PartIsThere DEF Types
<1>4. frames' \in Seq({"read", "call"})
  BY <1>1, <1>2, FrontFrames
<1>5. \A i \in 1 .. Len(frames)' : frames'[i] # "read"
  BY <1>1, <1>2, ReadFrameGone
<1>6. FramesOK'
  BY <1>1, <1>3, <1>5 DEF FramesOK
<1>7. Half' = {}
  BY <1>1 DEF Half, None
<1>8. line' \in Int
  BY <1>1 DEF None
<1>9. CASE line # Junk
  <2>1. Parse(line) /\ sockBuf' = sockBuf
    BY <1>1, <1>9
  <2>2. Flying' = Flying /\ Once(Flow)' /\ sockBuf' \in Seq(Int)
    BY <1>1, <1>2, <2>1, FlowSame DEF Apart, Types
  <2>3. line \in Half
    BY <1>3, <1>9 DEF Half
  <2>4. line \notin Flying
    BY <1>2, <2>3 DEF Apart
  <2>5. Inv'
    BY <1>1, <1>3, <1>4, <1>6, <1>7, <1>8, <1>9, <2>1, <2>2, <2>3, <2>4, ParseKeeps
  <2> QED
    BY <2>5
<1>10. CASE line = Junk
  <2>1. sockBuf # <<>> /\ sockBuf' = Tail(sockBuf) /\ UNCHANGED <<rsp, woken>>
    BY <1>1, <1>10
  <2>2. sockBuf' \in Seq(Int) /\ Flying' \subseteq Flying /\ Once(Flow)'
    BY <1>1, <1>2, <2>1, LineRead DEF Apart
  <2>3. Types' /\ LockOK'
    BY <1>1, <1>2, <1>4, <1>8, <2>1, <2>2 DEF Types, LockOK
  <2>4. /\ Kept' = Kept /\ Left' = Left /\ Held' = Held /\ (Hears' <=> Hears) /\ Read' = Read
        /\ (AskedOnce(posted)' <=> AskedOnce(posted)) /\ Writes(posted)' = Writes(posted)
    BY <1>1, <2>1, KeptSame, PostedSame, HolderSame, ReadSame
  <2>5. Apart'
    BY <1>1, <1>2, <1>7, <2>2, <2>4 DEF Apart
  <2>6. Own'
    <3>1. Coming' \subseteq Coming
      BY <1>7, <2>2, <2>4 DEF Coming
    <3> QED
      BY <1>1, <1>2, <2>1, <2>4, <3>1 DEF Own
  <2> QED
    BY <1>6, <2>3, <2>5, <2>6 DEF Inv
<1> QED
  BY <1>9, <1>10

LEMMA ReadGivesUpKeeps == ASSUME Inv, ReadGivesUp PROVE Inv'
<1>1. /\ Reading /\ sockBuf = <<>>
      /\ fromDev' = IF line = Junk THEN fromDev ELSE <<Junk>> \o fromDev
      /\ line' = None /\ frames' = Front(frames) /\ late' = (late \/ line # Junk)
      /\ UNCHANGED <<lock, pc, req, posted, busyReq, rsp, woken, toDev, sockBuf, readyRead,
                     issued, answered>>
  BY DEF ReadGivesUp, busyVars
<1>2. Types /\ LockOK /\ FramesOK /\ Apart /\ Own
  BY DEF Inv
<1>3. ~readyRead
  BY <1>1, <1>2, PartIsThere
<1>4. /\ frames' \in Seq({"read", "call"})
      /\ \A i \in 1 .. Len(frames)' : i \in 1 .. Len(frames) /\ frames'[i] = frames[i]
  BY <1>1, <1>2, FrontFrames
<1>5. \A i \in 1 .. Len(frames)' : frames'[i] # "read"
  BY <1>1, <1>2, ReadFrameGone
<1>6. FramesOK'
  BY <1>1, <1>3, <1>5 DEF FramesOK
<1>7. Half' = {} /\ line' \in Int /\ late' \in BOOLEAN
  BY <1>1 DEF Half, None
<1>8. /\ Kept' = Kept /\ Left' = Left /\ Held' = Held /\ (Hears' <=> Hears) /\ Read' = Read
      /\ (AskedOnce(posted)' <=> AskedOnce(posted)) /\ Writes(posted)' = Writes(posted)
  BY <1>1, KeptSame, PostedSame, HolderSame, ReadSame
<1>9. /\ fromDev' \in Seq(Int) /\ Flying' = Flying
      /\ Once(Flow) => Once(Flow)'
  <2>1. CASE line = Junk
    BY <1>1, <1>2, <2>1, FlowSame DEF Types
  <2>2. CASE line # Junk
    <3>1. fromDev \in Seq(Int) /\ toDev \in Seq(Int)
      BY <1>2 DEF Types
    <3>2. fromDev' = <<Junk>> \o fromDev /\ fromDev' \in Seq(Int)
      BY <1>1, <2>2, <3>1, JunkElems
    <3>3. Flow' = <<Junk>> \o Flow /\ Flow \in Seq(Int)
      <4>1. Flow = (<<>> \o fromDev) \o toDev /\ Flow' = (<<>> \o (<<Junk>> \o fromDev)) \o toDev
        BY <1>1, <3>2 DEF Flow
      <4>2. <<>> \in Seq(Int)
        OBVIOUS
      <4>3. (<<>> \o (<<Junk>> \o fromDev)) \o toDev = <<Junk>> \o ((<<>> \o fromDev) \o toDev)
        BY <3>1, <4>2, FlowMoves
      <4> QED
        BY <1>2, <4>1, <4>3, FlowTyped
    <3>4. Elems(Flow)' = Elems(Flow) \cup {Junk} /\ (Once(Flow) => Once(Flow)')
      BY <3>3, JunkElems
    <3> QED
      BY <3>2, <3>4 DEF Flying
  <2> QED
    BY <2>1, <2>2
<1>10. Types' /\ LockOK'
  BY <1>1, <1>2, <1>4, <1>7, <1>9 DEF Types, LockOK
<1>11. Apart'
  BY <1>1, <1>2, <1>7, <1>8, <1>9 DEF Apart
<1>12. Own'
  <2>1. Coming' \subseteq Coming
    BY <1>7, <1>8, <1>9 DEF Coming
  <2> QED
    BY <1>1, <1>2, <1>8, <2>1 DEF Own
<1> QED
  BY <1>6, <1>10, <1>11, <1>12 DEF Inv

-----------------------------------------------------------------------------
(* The connection, the device and the network.                             *)

LEMMA DisconnectedKeeps == ASSUME Inv, Disconnected PROVE Inv'
<1>1. /\ toDev' = <<>> /\ fromDev' = <<>> /\ sockBuf' = <<>> /\ readyRead' = FALSE
      /\ line' = IF "read" \in Range(frames) THEN Junk ELSE None
      /\ UNCHANGED <<lock, pc, req, posted, busyReq, rsp, woken, frames, issued, answered, late>>
  BY DEF Disconnected, endVars
<1>2. Types /\ LockOK /\ FramesOK /\ Apart /\ Own
  BY DEF Inv
<1>3. Flow' = <<>>
  BY <1>1 DEF Flow
<1>4. Flying' = {} /\ Once(Flow)'
  BY <1>3, NoElems DEF Flying
<1>5. Half' = {} /\ line' \in Int
  BY <1>1 DEF Half, Junk, None
<1>6. /\ Kept' = Kept /\ Left' = Left /\ Held' = Held /\ (Hears' <=> Hears) /\ Read' = Read
      /\ (AskedOnce(posted)' <=> AskedOnce(posted)) /\ Writes(posted)' = Writes(posted)
  BY <1>1, KeptSame, PostedSame, HolderSame, ReadSame
<1>7. Types'
  <2>1. toDev' \in Seq(Int) /\ fromDev' \in Seq(Int) /\ sockBuf' \in Seq(Int)
    BY <1>1
  <2> QED
    BY <1>1, <1>2, <1>5, <2>1 DEF Types
<1>8. LockOK'
  BY <1>1, <1>2 DEF LockOK
<1>9. FramesOK'
  <2>1. CASE "read" \in Range(frames)
    BY <1>1, <1>2, <2>1 DEF FramesOK, Junk, None
  <2>2. CASE "read" \notin Range(frames)
    BY <1>1, <1>2, <2>2, NoReadFrame DEF FramesOK
  <2> QED
    BY <2>1, <2>2
<1>10. Apart'
  BY <1>1, <1>2, <1>4, <1>5, <1>6 DEF Apart
<1>11. Own'
  <2>1. Coming' \subseteq Coming
    BY <1>4, <1>5, <1>6 DEF Coming
  <2> QED
    BY <1>1, <1>2, <1>6, <2>1 DEF Own
<1> QED
  BY <1>7, <1>8, <1>9, <1>10, <1>11 DEF Inv

(* A line that goes from one part of the flow to the next.                 *)
LEMMA SameFlowKeeps ==
  ASSUME Inv, Flow' = Flow, FramesOK',
         toDev' \in Seq(Int), fromDev' \in Seq(Int), sockBuf' \in Seq(Int),
         UNCHANGED <<lock, pc, req, posted, busyReq, rsp, woken, frames, line, issued,
                     answered, late>>
  PROVE  Inv'
<1>1. Types /\ LockOK /\ Apart /\ Own
  BY DEF Inv
<1>2. Types' /\ LockOK'
  BY <1>1 DEF Types, LockOK
<1>3. /\ Kept' = Kept /\ Left' = Left /\ Held' = Held /\ (Hears' <=> Hears) /\ Read' = Read
      /\ (AskedOnce(posted)' <=> AskedOnce(posted)) /\ Writes(posted)' = Writes(posted)
      /\ Half' = Half
  BY KeptSame, PostedSame, HolderSame, ReadSame, HalfSame
<1>4. Flying' = Flying /\ (Once(Flow)' <=> Once(Flow))
  BY DEF Flying
<1>5. Apart'
  BY <1>1, <1>3, <1>4 DEF Apart
<1>6. Own'
  BY <1>1, <1>3, <1>4 DEF Own, Coming
<1> QED
  BY <1>2, <1>5, <1>6 DEF Inv

LEMMA DeviceAnswersKeeps == ASSUME Inv, DeviceAnswers PROVE Inv'
<1>1. /\ toDev # <<>> /\ toDev' = Tail(toDev) /\ fromDev' = Append(fromDev, Head(toDev))
      /\ UNCHANGED <<lock, pc, req, posted, busyReq, rsp, woken, sockBuf, readyRead, frames,
                     line, issued, answered, late>>
  BY DEF DeviceAnswers, busyVars, endVars
<1>2. Types /\ FramesOK
  BY DEF Inv
<1>3. toDev \in Seq(Int) /\ fromDev \in Seq(Int) /\ sockBuf \in Seq(Int)
  BY <1>2 DEF Types
<1>4. toDev' \in Seq(Int) /\ fromDev' \in Seq(Int) /\ sockBuf' \in Seq(Int)
  BY <1>1, <1>3
<1>5. Flow' = Flow
  BY <1>1, <1>3, FlowMoves DEF Flow
<1>6. FramesOK'
  BY <1>1, <1>2, FramesSame
<1> QED
  BY <1>1, <1>4, <1>5, <1>6, SameFlowKeeps

LEMMA ArriveKeeps == ASSUME Inv, NEW n \in 1 .. MaxCalls, Arrive(n) PROVE Inv'
<1>1. /\ n <= Len(fromDev) /\ sockBuf' = sockBuf \o SubSeq(fromDev, 1, n)
      /\ fromDev' = SubSeq(fromDev, n + 1, Len(fromDev))
      /\ readyRead' = (readyRead \/ "read" \notin Range(frames))
      /\ UNCHANGED <<lock, pc, req, posted, busyReq, rsp, woken, toDev, frames,
                     line, issued, answered, late>>
  BY DEF Arrive, busyVars, endVars
<1>2. Types /\ FramesOK
  BY DEF Inv
<1>3. toDev \in Seq(Int) /\ fromDev \in Seq(Int) /\ sockBuf \in Seq(Int) /\ Len(fromDev) \in Nat
  BY <1>2 DEF Types
<1>4. n \in 0 .. Len(fromDev) /\ n \in Nat /\ n >= 1
  BY <1>1, <1>3, BoundsAssumption
<1>5. /\ SubSeq(fromDev, 1, n) \in Seq(Int) /\ SubSeq(fromDev, n + 1, Len(fromDev)) \in Seq(Int)
  BY <1>3, <1>4, CutIsWhole
<1>6. toDev' \in Seq(Int) /\ fromDev' \in Seq(Int) /\ sockBuf' \in Seq(Int)
  BY <1>1, <1>3, <1>5
<1>7. Flow' = Flow
  BY ZenonT(60), <1>1, <1>3, <1>4, FlowMoves DEF Flow
<1>8. sockBuf' # <<>>
  <2>1. Len(SubSeq(fromDev, 1, n)) = n
    BY <1>3, <1>4
  <2>2. Len(sockBuf') = Len(sockBuf) + n
    BY <1>1, <1>3, <1>5, <2>1
  <2> QED
    BY <1>3, <1>4, <2>2
<1>9. FramesOK'
  BY <1>1, <1>2, <1>8, NoReadFrame DEF FramesOK
<1> QED
  BY <1>1, <1>6, <1>7, <1>9, SameFlowKeeps

-----------------------------------------------------------------------------
LEMMA NextKeeps == ASSUME Inv, [Next]_vars PROVE Inv'
<1>1. ASSUME NEW c \in Callers, Caller(c) PROVE Inv'
  <2>1. c \in Threads
    BY DEF Threads
  <2> QED
    BY <1>1, <2>1, CallLocksKeeps, CallIsBusyKeeps, ClearBusyKeeps, SendREQKeeps, ListenKeeps,
       LoopEndsKeeps, ReadResponseKeeps DEF Caller
<1>2. CASE WorkerSlot
  <2>1. Worker \in Threads
    BY DEF Threads
  <2> QED
    BY <1>2, <2>1, WriteSlotKeeps, BusyREQKeeps, SendBusyReqKeeps, ReadLineKeeps, ReadPartKeeps,
       ReadRestKeeps, ReadGivesUpKeeps, LoopEndsKeeps, ReadResponseKeeps DEF WorkerSlot
<1>3. CASE Network
  BY <1>3, DeviceAnswersKeeps, ArriveKeeps DEF Network
<1> QED
  BY <1>1, <1>2, <1>3, DisconnectedKeeps, StutterKeeps DEF Next

(* Each request is in one place, and what a Call waits for is its own.     *)
THEOREM InvHolds == Spec => []Inv
<1>1. Inv /\ [Next]_vars => Inv'
  BY NextKeeps
<1> QED
  BY InitKeeps, <1>1, PTL DEF Spec

-----------------------------------------------------------------------------
(* The safety of RemoteCall.                                               *)

Asking == IF lock = Nobody THEN None ELSE req[lock]

LEMMA CallerAsks ==
  ASSUME NEW t \in Threads, NEW r \in Requests, lock = Nobody,
         lock' = t, req' = [req EXCEPT ![t] = r], req \in [Threads -> Nat],
         UNCHANGED <<answered, late>>
  PROVE  RC!Next
<1>1. Asking' = r
  BY NobodyIsNone DEF Asking
<1>2. RC!Ask(t, r)
  BY <1>1 DEF RC!Ask, Asking
<1> QED
  BY <1>2 DEF RC!Next

LEMMA NothingAsked ==
  ASSUME UNCHANGED <<lock, req, answered, late>> PROVE UNCHANGED RC!rcVars
BY DEF RC!rcVars

LEMMA CallEnds ==
  ASSUME Types, NEW t \in Threads, lock = t, lock' = Nobody
  PROVE  RC!Ends
BY NobodyIsNone DEF RC!Ends

LEMMA ReadResponseAnswers ==
  ASSUME Inv, NEW t \in Threads, ReadResponse(t) PROVE RC!Next
<1>1. /\ pc[t] = "valid" /\ answered' = IF rsp = None THEN answered ELSE Append(answered, rsp)
      /\ lock' = Nobody
      /\ late' = late
  BY DEF ReadResponse, Returns
<1>2. Types /\ LockOK /\ Apart /\ Own
  BY DEF Inv
<1>3. lock = t /\ RC!Ends
  BY <1>1, <1>2, InCall, CallEnds
<1>4. CASE rsp = None
  <2>1. RC!GivenUp
    BY <1>1, <1>3, <1>4 DEF RC!GivenUp
  <2> QED
    BY <2>1 DEF RC!Next
<1>5. CASE rsp # None
  <2>1. Hears /\ Read = {rsp}
    BY <1>1, <1>3, <1>5 DEF Hears, Read
  <2>2. (\A i \in DOMAIN answered : answered[i] # rsp) /\ rsp \in 1 .. issued
    <3>1. rsp \notin Elems(answered) /\ rsp \in 1 .. issued
      BY <1>2, <2>1 DEF Apart
    <3>2. DOMAIN answered = 1 .. Len(answered)
      BY <1>2 DEF Types
    <3> QED
      BY <3>1, <3>2 DEF Elems
  <2>3. rsp \in Requests
    <3>1. issued \in Nat /\ issued <= MaxCalls /\ MaxCalls \in Nat
      BY <1>2, BoundsAssumption DEF Types
    <3> QED
      BY <2>2, <3>1 DEF Requests
  <2>4. ~late => rsp = Asking
    BY <1>2, <1>3, <1>5, <2>1, NobodyIsNone DEF Own, Asking
  <2>5. RC!Answered(rsp)
    BY <1>1, <1>3, <1>5, <2>2, <2>4 DEF RC!Answered, Asking
  <2> QED
    BY <2>3, <2>5 DEF RC!Next
<1> QED
  BY <1>4, <1>5

LEMMA LoopEndsGivesUp ==
  ASSUME Inv, NEW t \in Threads, LoopEnds(t) PROVE RC!Next \/ UNCHANGED RC!rcVars
<1>1. /\ pc[t] = "waiting" /\ late' = (late \/ (t \notin woken /\ OnTheWay(req[t])))
      /\ \/ UNCHANGED <<lock, req, answered>>
         \/ answered' = answered /\ lock' = Nobody
  BY DEF LoopEnds, Returns
<1>2. Types /\ LockOK /\ late \in BOOLEAN
  BY DEF Inv, Types
<1>3. late' = late \/ late' = TRUE
  BY <1>1, <1>2
<1>4. CASE UNCHANGED <<lock, req, answered>>
  <2>1. CASE late' = late
    BY <1>4, <2>1, NothingAsked
  <2>2. CASE late' = TRUE
    <3>1. RC!Delayed
      BY <1>4, <2>2 DEF RC!Delayed
    <3> QED
      BY <3>1 DEF RC!Next
  <2> QED
    BY <1>3, <2>1, <2>2
<1>5. CASE answered' = answered /\ lock' = Nobody
  <2>1. lock = t /\ RC!Ends
    BY <1>1, <1>2, <1>5, InCall, CallEnds
  <2>2. RC!GivenUp
    BY <1>3, <1>5, <2>1 DEF RC!GivenUp
  <2> QED
    BY <2>2 DEF RC!Next
<1> QED
  BY <1>1, <1>4, <1>5

LEMMA StepIsRemoteCall ==
  ASSUME Inv, [Next]_vars PROVE [RC!Next]_(RC!rcVars)
<1>1. Types /\ Apart
  BY DEF Inv
<1>2. ASSUME NEW c \in Callers, Caller(c) PROVE [RC!Next]_(RC!rcVars)
  <2>1. c \in Threads
    BY DEF Threads
  <2>2. CASE CallLocks(c)
    <3>1. issued + 1 \in Requests
      BY <1>1, <2>2, BoundsAssumption DEF CallLocks, Types, Requests
    <3>2. RC!Next
      BY <1>1, <2>1, <2>2, <3>1, CallerAsks DEF CallLocks, Free, Types, endVars
    <3> QED
      BY <3>2
  <2>3. CASE CallIsBusy(c) \/ ClearBusy(c) \/ SendREQ(c) \/ Listen(c)
    BY <2>3, NothingAsked DEF CallIsBusy, ClearBusy, SendREQ, Listen, endVars
  <2> QED
    BY <1>2, <2>1, <2>2, <2>3, LoopEndsGivesUp, ReadResponseAnswers DEF Caller
<1>3. CASE WorkerSlot
  <2>1. Worker \in Threads
    BY DEF Threads
  <2>2. CASE SendBusyReq
    <3>1. CASE Pending /\ Free /\ lock' = Worker /\ req' = [req EXCEPT ![Worker] = busyReq]
      <4>1. busyReq \in 1 .. issued
        BY <1>1, <3>1 DEF Apart, Kept, Pending
      <4>2. busyReq \in Requests
        <5>1. issued \in Nat /\ issued <= MaxCalls /\ MaxCalls \in Nat
          BY <1>1, BoundsAssumption DEF Types
        <5> QED
          BY <4>1, <5>1 DEF Requests
      <4>3. RC!Next
        BY <1>1, <2>1, <2>2, <3>1, <4>2, CallerAsks DEF SendBusyReq, Free, Types, endVars
      <4> QED
        BY <4>3
    <3>2. CASE UNCHANGED <<lock, req>>
      BY <2>2, <3>2, NothingAsked DEF SendBusyReq, endVars
    <3> QED
      BY <2>2, <3>1, <3>2 DEF SendBusyReq
  <2>3. CASE ReadGivesUp
    <3>1. CASE late' = late
      BY <2>3, <3>1, NothingAsked DEF ReadGivesUp
    <3>2. CASE late' = TRUE
      <4>1. RC!Delayed
        BY <2>3, <3>2 DEF RC!Delayed, ReadGivesUp
      <4> QED
        BY <4>1 DEF RC!Next
    <3>3. late' = late \/ late' = TRUE
      BY <1>1, <2>3 DEF ReadGivesUp, Types
    <3> QED
      BY <3>1, <3>2, <3>3
  <2>4. CASE WriteSlot \/ BusyREQ
    BY <2>4, NothingAsked DEF WriteSlot, BusyREQ, endVars
  <2>5. CASE ReadLine \/ ReadPart \/ ReadRest
    BY <2>5, NothingAsked DEF ReadLine, ReadPart, ReadRest, endVars
  <2> QED
    BY <1>3, <2>1, <2>2, <2>3, <2>4, <2>5, LoopEndsGivesUp, ReadResponseAnswers DEF WorkerSlot
<1>4. CASE Network \/ Disconnected
  BY <1>4, NothingAsked DEF Network, DeviceAnswers, Arrive, Disconnected, endVars
<1>5. CASE UNCHANGED vars
  BY <1>5, NothingAsked DEF vars
<1> QED
  BY <1>2, <1>3, <1>4, <1>5 DEF Next

(* All of Call, its mutex, its posted slots and its nested event loops,    *)
(* never does what RemoteCall does not allow: no answer is given twice,    *)
(* and none but a Call's own until one was given up too early.             *)
THEOREM IsSafeRemoteCall == Spec => SafeRemoteCall
<1>1. Init => RC!Init
  BY DEF Init, RC!Init
<1>2. Inv /\ [Next]_vars => [RC!Next]_(RC!rcVars)
  BY StepIsRemoteCall
<1> QED
  BY <1>1, <1>2, InvHolds, PTL DEF Spec, SafeRemoteCall, RC!Safety

=============================================================================
