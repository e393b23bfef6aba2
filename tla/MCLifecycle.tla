----------------------------- MODULE MCLifecycle -----------------------------
(***************************************************************************)
(* Instances of Lifecycle for TLC: a unit that restarts on failure and one *)
(* that does not.                                                          *)
(***************************************************************************)
EXTENDS Lifecycle

Mixed == [u \in Units |-> IF u = 1 THEN "ABORT" ELSE "RESTART"]
GenerateOrStart == {[generate |-> TRUE, run |-> FALSE],
                    [generate |-> FALSE, run |-> TRUE]}
=============================================================================
