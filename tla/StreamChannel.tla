--------------------------- MODULE StreamChannel ---------------------------
(***************************************************************************)
(* What a BlockFifo promises its two callers, with no ring, blocks or      *)
(* threads: a bounded stream of units that come out in the order they went *)
(* in, each exactly once.  It is the Test() of BlockFifo.cpp:245 as a      *)
(* specification: the writer writes a counter, the reader reads a counter. *)
(***************************************************************************)
EXTENDS Integers, Sequences

CONSTANT Capacity   \* units the channel holds at most

VARIABLES
  q,          \* the units in the channel, the oldest first
  written,    \* units put so far; the next unit's value
  delivered   \* units got so far

chVars == <<q, written, delivered>>

Init == q = <<>> /\ written = 0 /\ delivered = 0

(* n units go in together, if there is room for them.                      *)
Put(n) ==
  /\ Len(q) + n <= Capacity
  /\ q' = q \o [i \in 1 .. n |-> written + i - 1]
  /\ written' = written + n
  /\ UNCHANGED delivered

(* The n oldest units come out.                                            *)
Get(n) ==
  /\ n <= Len(q)
  /\ q' = SubSeq(q, n + 1, Len(q))
  /\ delivered' = delivered + n
  /\ UNCHANGED written

Next == \E n \in 1 .. Capacity : Put(n) \/ Get(n)

Safety == Init /\ [][Next]_chVars

(* A reader that keeps reading gets what is there.                         *)
Fairness == WF_chVars(\E n \in 1 .. Capacity : Get(n))

Spec == Safety /\ Fairness
=============================================================================
