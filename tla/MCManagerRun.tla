----------------------------- MODULE MCManagerRun -----------------------------
(***************************************************************************)
(* Instances of ManagerRun for TLC: a unit a and, where the order of the   *)
(* starts matters, a unit b that requires it.                              *)
(***************************************************************************)
EXTENDS ManagerRun

CONSTANTS a, b

TwoUnits == {a, b}
OnlyA == {a}
OnlyB == {b}
None == {}

BFollowsA == [u \in Units |-> IF u = b THEN {a} ELSE {}]
Alone == [u \in Units |-> {}]

AllAbort == [u \in Units |-> "ABORT"]
AllRestart == [u \in Units |-> "RESTART"]
ARestarts == [u \in Units |-> IF u = a THEN "RESTART" ELSE "ABORT"]

OneTick == [u \in Units |-> 1]

(* The states the units may be in before the run *)
AllDead == [u \in Units |-> {"dead"}]
AMayBeUp == [u \in Units |-> IF u = a THEN {"dead", "running"} ELSE {"dead"}]
AMayBeStarting ==
  [u \in Units |-> IF u = a THEN {"dead", "start", "running"} ELSE {"dead"}]
=============================================================================
