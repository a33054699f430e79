----------------------------- MODULE RemoteCall -----------------------------
(***************************************************************************)
(* What TcpJSONClient promises its callers, with no connection, worker or  *)
(* event loop: one call at a time, which ends with an answer or without.   *)
(* No answer is given twice; an answer is to the call's own request as     *)
(* long as none has been delayed beyond the patience of those who wait.    *)
(***************************************************************************)
EXTENDS Sequences

CONSTANTS
  Threads,    \* those who call
  Requests,   \* what they ask
  Nobody,     \* no thread
  None        \* no request

VARIABLES
  holder,     \* whose call is under way
  asking,     \* with which request
  given,      \* the answers that calls have ended with, in order
  late        \* an answer was given up before it came

rcVars == <<holder, asking, given, late>>

Init == holder = Nobody /\ asking = None /\ given = <<>> /\ late = FALSE

Ask(t, r) ==
  /\ holder = Nobody
  /\ holder' = t /\ asking' = r
  /\ UNCHANGED <<given, late>>

Ends == holder # Nobody /\ holder' = Nobody /\ asking' = None

Answered(a) ==
  /\ Ends
  /\ \A i \in DOMAIN given : given[i] # a
  /\ ~late => a = asking
  /\ given' = Append(given, a)
  /\ UNCHANGED late

GivenUp ==
  /\ Ends
  /\ late' \in {late, TRUE}
  /\ UNCHANGED given

Delayed == late' = TRUE /\ UNCHANGED <<holder, asking, given>>

Next ==
  \/ \E t \in Threads, r \in Requests : Ask(t, r)
  \/ (\E a \in Requests : Answered(a)) \/ GivenUp \/ Delayed

Safety == Init /\ [][Next]_rcVars

(* A call ends.                                                            *)
Fairness == WF_rcVars((\E a \in Requests : Answered(a)) \/ GivenUp)

Spec == Safety /\ Fairness
=============================================================================
