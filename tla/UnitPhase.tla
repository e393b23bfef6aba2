------------------------------ MODULE UnitPhase ------------------------------
(***************************************************************************)
(* The pure half of the Manager's supervision (Manager.c): how a unit's    *)
(* cached systemd state becomes a lifecycle phase, which phases end the    *)
(* wait, and how long a unit may take to start.  The names are those of    *)
(* the C enums.                                                            *)
(***************************************************************************)
EXTENDS Integers

(* The policies and modes of the configuration. *)
FailureBehavior == {"ABORT", "RESTART"}
OperationMode   == {"BASIC", "MONITOR"}

(* termination_condition *)
Conditions == {"ALL_SUCCEEDED", "ALL_FINISHED", "MONITOR_ALL_TERMINATED"}

(* unit_phase *)
Phases == {"INTERMEDIATE", "FAILED_INTERMEDIATE",
           "SUCCEEDED_RUNNING", "SUCCEEDED_EXITED", "SUCCEEDED_STOPPED",
           "FAILED_ABORT", "FAILED_BURST"}

(* What the tracker caches of a unit.  "unknown" and the empty strings are *)
(* the values of a slot no snapshot has filled yet.                        *)
ActiveStates == {"unknown", "active", "reloading", "inactive", "failed",
                 "activating", "deactivating"}
SubStates    == {"", "dead", "start", "running", "exited", "stop-sigterm",
                 "failed", "auto-restart"}
Results      == {"", "success", "exit-code", "start-limit-hit"}

(* A mutation of PhaseOf: any clean inactive/dead counts as "ran, then       *)
(* stopped", as if was_active were not latched.                             *)
PhaseOfUnlatched(active, sub, result, seenActive, policy) ==
    CASE active = "active" /\ sub = "running" -> "SUCCEEDED_RUNNING"
      [] active = "active" /\ sub = "exited"  -> "SUCCEEDED_EXITED"
      [] active = "inactive" /\ sub = "dead"  -> "SUCCEEDED_STOPPED"
      [] active = "failed" /\ policy # "RESTART" -> "FAILED_ABORT"
      [] OTHER                                -> "INTERMEDIATE"

(* phase_of: the phase of a unit whose cached state is (active, sub,       *)
(* result), that was or was not seen active before, under its policy.      *)
PhaseOf(active, sub, result, seenActive, policy) ==
    CASE active = "active" /\ sub = "running" -> "SUCCEEDED_RUNNING"
      [] active = "active" /\ sub = "exited"  -> "SUCCEEDED_EXITED"
      [] /\ active = "inactive"
         /\ sub = "dead"
         /\ result \in {"", "success"}
         /\ seenActive                        -> "SUCCEEDED_STOPPED"
      [] active = "failed" /\ result = "start-limit-hit" -> "FAILED_BURST"
      [] /\ active = "failed"
         /\ result # "start-limit-hit"
         /\ policy = "RESTART"                -> "FAILED_INTERMEDIATE"
      [] /\ active = "failed"
         /\ result # "start-limit-hit"
         /\ policy # "RESTART"                -> "FAILED_ABORT"
      [] OTHER                                -> "INTERMEDIATE"

Succeeded == {"SUCCEEDED_RUNNING", "SUCCEEDED_EXITED", "SUCCEEDED_STOPPED"}
Failed    == {"FAILED_ABORT", "FAILED_BURST"}
InFlight  == {"INTERMEDIATE", "FAILED_INTERMEDIATE"}

(* A mutation of IsSettled: MONITOR lets a running daemon count. *)
IsSettledWhileRunning(phase, cond) == phase \in Succeeded \cup Failed

(* is_settled *)
IsSettled(phase, cond) ==
    \/ cond = "ALL_SUCCEEDED" /\ phase \in Succeeded
    \/ cond = "ALL_FINISHED" /\ phase \in Succeeded \cup Failed
    \/ /\ cond = "MONITOR_ALL_TERMINATED"
       /\ phase \in (Succeeded \ {"SUCCEEDED_RUNNING"}) \cup Failed

(* is_disqualifying: never true of the two conditions the program uses. *)
IsDisqualifying(phase, cond) == cond = "ALL_SUCCEEDED" /\ phase \in Failed

(* The condition each operation mode waits for (basic_termination_condition *)
(* and monitor_termination_condition).                                      *)
ConditionOf(mode) ==
    IF mode = "BASIC" THEN "ALL_FINISHED" ELSE "MONITOR_ALL_TERMINATED"

(* arm_start_deadline: the time a unit is given to start.  A burst of 0     *)
(* ("no limit") counts as 5; a timeout of 0 (its read failed) as systemd's  *)
(* default.                                                                 *)
StartBudget(policy, burst) ==
    IF policy = "RESTART" THEN (IF burst > 0 THEN burst ELSE 5) ELSE 1

StartSpan(policy, burst, timeout, default) ==
    StartBudget(policy, burst) * (IF timeout = 0 THEN default ELSE timeout)
=============================================================================
