----------------------------- MODULE Supervision -----------------------------
(***************************************************************************)
(* What a run of the supervisor promises, with no bus, cache or clock: it  *)
(* reports success only when every unit has reached what the mode asks of  *)
(* it, failure only when some unit gave it cause, and reports once.        *)
(***************************************************************************)
CONSTANT Units

VARIABLES
  reached,    \* units that have done what the mode waits for
  troubled,   \* units that failed, were refused, or overran their deadline
  verdict     \* "pending", then "success" or "failure"

supervisionVars == <<reached, troubled, verdict>>

Init ==
  /\ reached \subseteq Units
  /\ troubled \subseteq Units
  /\ verdict = "pending"

(* Units make progress or get into trouble; neither is ever taken back. *)
UnitsMove ==
  /\ verdict = "pending"
  /\ reached' \subseteq Units
  /\ troubled' \subseteq Units
  /\ reached \subseteq reached'
  /\ troubled \subseteq troubled'
  /\ UNCHANGED verdict

ReportsSuccess ==
  /\ verdict = "pending"
  /\ reached = Units
  /\ verdict' = "success"
  /\ UNCHANGED <<reached, troubled>>

ReportsFailure ==
  /\ verdict = "pending"
  /\ troubled # {}
  /\ verdict' = "failure"
  /\ UNCHANGED <<reached, troubled>>

Next == UnitsMove \/ ReportsSuccess \/ ReportsFailure

Spec == Init /\ [][Next]_supervisionVars
=============================================================================
