------------------------------ MODULE UnitStates ------------------------------
(***************************************************************************)
(* The states systemd gives a unit, as far as the launcher tells them      *)
(* apart.  Not code of the repository.                                     *)
(***************************************************************************)

(* "stop-sigterm" stands for every SubState of a unit being stopped.       *)
LiveSubs == {"dead", "start", "running", "exited", "stop-sigterm", "failed",
             "auto-restart"}
LiveResults == {"success", "exit-code", "start-limit-hit"}

(* The Results a unit may have in state s. *)
ResultsOf(s) == CASE s = "failed" -> {"exit-code", "start-limit-hit"}
                  [] s = "auto-restart" -> {"exit-code"}
                  [] s = "stop-sigterm" -> {"success", "exit-code"}
                  [] OTHER -> {"success"}

(* systemd's translation of a SubState into an ActiveState. *)
ActiveOf(s) == CASE s = "dead" -> "inactive"
                 [] s \in {"start", "auto-restart"} -> "activating"
                 [] s \in {"running", "exited"} -> "active"
                 [] s = "stop-sigterm" -> "deactivating"
                 [] s = "failed" -> "failed"
=============================================================================
