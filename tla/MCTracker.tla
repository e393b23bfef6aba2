------------------------------- MODULE MCTracker -------------------------------
(***************************************************************************)
(* Instances of Tracker for TLC: one unit, with or without failing calls.  *)
(***************************************************************************)
EXTENDS Tracker

CONSTANT a

OnlyA == {a}
None == {}
=============================================================================
