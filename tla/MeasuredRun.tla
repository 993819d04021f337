----------------------------- MODULE MeasuredRun -----------------------------
(***************************************************************************)
(* What the phase barrier of the resource-controlled benchmark promises,   *)
(* without pipes, processes or signals.  A worker arrives at phase         *)
(* boundaries; an observer takes one measurement of each boundary while    *)
(* the worker waits there; the run is qualified only once all N boundaries *)
(* have been reached and measured, and at most one verdict is ever given.  *)
(***************************************************************************)
EXTENDS Naturals

CONSTANT N             \* number of boundaries a qualified run has

VARIABLES
  arrived,             \* boundaries the worker has reached
  taken,               \* boundaries that were measured
  verdict              \* "pending", "qualified" or "rejected"

mvars == <<arrived, taken, verdict>>

Init ==
  /\ arrived = 0
  /\ taken = 0
  /\ verdict = "pending"

(* The worker reaches its next boundary; it never leaves one unmeasured.   *)
Arrive ==
  /\ arrived = taken
  /\ verdict # "qualified"
  /\ arrived' = arrived + 1
  /\ UNCHANGED <<taken, verdict>>

(* The observer measures the boundary at which the worker is waiting.      *)
Measure ==
  /\ verdict = "pending"
  /\ taken < N
  /\ taken < arrived
  /\ taken' = taken + 1
  /\ UNCHANGED <<arrived, verdict>>

Qualify ==
  /\ verdict = "pending"
  /\ taken = N
  /\ arrived = N
  /\ verdict' = "qualified"
  /\ UNCHANGED <<arrived, taken>>

Reject ==
  /\ verdict = "pending"
  /\ verdict' = "rejected"
  /\ UNCHANGED <<arrived, taken>>

Next == Arrive \/ Measure \/ Qualify \/ Reject

Spec == Init /\ [][Next]_mvars
=============================================================================
