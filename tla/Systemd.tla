------------------------------- MODULE Systemd -------------------------------
(***************************************************************************)
(* The service manager the launcher drives, as far as the launcher can     *)
(* tell: start jobs that wait for the units they require, the life of a    *)
(* service or group unit, restarts under a start limit, and the            *)
(* PropertiesChanged messages that report it.  None of this is code of the *)
(* repository: it is the environment its D-Bus calls assume, and the unit  *)
(* files the generator writes decide its parameters.                       *)
(***************************************************************************)
EXTENDS Integers, Sequences, FiniteSets, UnitStates

CONSTANTS
  Units,          \* the units of the manifest
  Groups,         \* those with Type=oneshot and RemainAfterExit=yes
  Requires,       \* Requires[u]: the units u requires and follows, closed
                  \* under transitivity
  Policy,         \* Policy[u]: "RESTART" if the unit has Restart=on-failure
  Burst,          \* StartLimitBurst of the units with Restart=
  RestartSec,     \* ticks between a failure and the restart
  NoTimeout,      \* units whose TimeoutStartUSec is infinity
  Timeout,        \* Timeout[u]: TimeoutStartUSec in clock ticks, of the others
  MayEnd,         \* bound: the units that may end once they are up
  BusCapacity     \* bound on the announcements in flight

ASSUME SystemdAssumption ==
  /\ Groups \subseteq Units
  /\ NoTimeout \subseteq Units
  /\ MayEnd \subseteq Units
  /\ Requires \in [Units -> SUBSET Units]
  /\ \A u \in Units : \A v \in Requires[u] :
        u # v /\ Requires[v] \subseteq Requires[u] /\ u \notin Requires[v]
  /\ Policy \in [Units -> {"ABORT", "RESTART"}]
  /\ Burst \in Nat \ {0}
  /\ RestartSec \in Nat \ {0}
  /\ Timeout \in [Units -> Nat \ {0}]
  /\ BusCapacity \in Nat

VARIABLES
  sub,          \* sub[u]: the unit's SubState
  result,       \* result[u]: its Result
  job,          \* units with a pending or running start job
  attempts,     \* attempts[u]: starts counted against the start limit
  age,          \* age[u]: ticks u has been starting or awaiting a restart
  dirty,        \* units whose state changed since it was last announced
  queue,        \* announcements sent on the bus and not yet dispatched
  everActive,   \* history: units that have been active since they were
                \* attached
  everEnded,    \* history: units that became active/exited since, or dead
                \* after having been active
  everFailed    \* history: units that have failed since, or were failed then

unitVars == <<sub, result, job, attempts, age>>
historyVars == <<everActive, everEnded, everFailed>>
systemdVars == <<unitVars, dirty, queue, historyVars>>

(* An announcement: systemd sends a PropertiesChanged for the Service       *)
(* interface (Result) and at once another for the Unit interface            *)
(* (ActiveState and SubState).                                              *)
Announcements == [unit : Units, sub : LiveSubs, result : LiveResults]

SystemdTypeOK ==
  /\ sub \in [Units -> LiveSubs]
  /\ result \in [Units -> LiveResults]
  /\ job \subseteq Units
  /\ attempts \in [Units -> Nat]
  /\ age \in [Units -> Nat]
  /\ dirty \subseteq Units
  /\ queue \in Seq(Announcements)
  /\ everActive \subseteq Units
  /\ everEnded \subseteq Units
  /\ everFailed \subseteq Units

Dependents(u) == {v \in Units : u \in Requires[v]}

(* A unit that failed and is about to be scheduled for a restart. *)
AboutToRestart(u) ==
  sub[u] = "failed" /\ Policy[u] = "RESTART" /\ result[u] = "exit-code"

-----------------------------------------------------------------------------
(* Every change of a unit's state: s and r are its new SubState and Result. *)
Moves(u, s, r) ==
  /\ sub' = [sub EXCEPT ![u] = s]
  /\ result' = [result EXCEPT ![u] = r]
  /\ dirty' = dirty \cup {u}
  /\ everActive' = IF ActiveOf(s) = "active" THEN everActive \cup {u}
                                             ELSE everActive
  /\ everEnded' = IF s = "exited" \/ (s = "dead" /\ u \in everActive)
                    THEN everEnded \cup {u} ELSE everEnded
  /\ everFailed' = IF s = "failed" THEN everFailed \cup {u} ELSE everFailed
  /\ UNCHANGED queue

Starts(u) ==
  /\ Moves(u, "start", "success")
  /\ attempts' = [attempts EXCEPT ![u] = @ + 1]
  /\ age' = [age EXCEPT ![u] = 0]

(* A start job runs once no unit it must follow has one. *)
Ready(u) ==
  /\ u \in job
  /\ Requires[u] \cap job = {}
  /\ sub[u] \in {"dead", "failed"}
  /\ ~AboutToRestart(u)

RunJob(u) ==
  /\ Ready(u)
  /\ Starts(u)
  /\ UNCHANGED job

StartSucceeds(u) ==
  /\ sub[u] = "start"
  /\ Moves(u, IF u \in Groups THEN "exited" ELSE "running", "success")
  /\ job' = job \ {u}
  /\ UNCHANGED <<attempts, age>>

(* A failed start cancels, with no signal, the jobs of all that require it. *)
StartFails(u) ==
  /\ sub[u] = "start"
  /\ Moves(u, "failed", "exit-code")
  /\ job' = job \ ({u} \cup Dependents(u))
  /\ UNCHANGED <<attempts, age>>

(* A main process that ends, or a stop propagated to it. *)
Ends(u) ==
  /\ u \in MayEnd
  /\ sub[u] \in {"running", "exited"}
  /\ \E r \in {"success", "exit-code"} : Moves(u, "stop-sigterm", r)
  /\ UNCHANGED <<job, attempts, age>>

Stops(u) ==
  /\ sub[u] = "stop-sigterm"
  /\ Moves(u, IF result[u] = "success" THEN "dead" ELSE "failed", result[u])
  /\ UNCHANGED <<job, attempts, age>>

SchedulesRestart(u) ==
  /\ AboutToRestart(u)
  /\ Moves(u, "auto-restart", "exit-code")
  /\ age' = [age EXCEPT ![u] = 0]
  /\ UNCHANGED <<job, attempts>>

Restarts(u) ==
  /\ sub[u] = "auto-restart"
  /\ \/ /\ attempts[u] < Burst
        /\ Starts(u)
        /\ job' = job \cup {u}
     \/ /\ attempts[u] >= Burst
        /\ Moves(u, "failed", "start-limit-hit")
        /\ job' = job \ {u}
        /\ UNCHANGED <<attempts, age>>

(* The announcement of a unit's state: successive changes may share one. *)
Emits(u) ==
  /\ u \in dirty
  /\ Len(queue) < BusCapacity
  /\ dirty' = dirty \ {u}
  /\ queue' = Append(queue, [unit |-> u, sub |-> sub[u],
                             result |-> result[u]])
  /\ UNCHANGED <<unitVars, historyVars>>

(* The start job StartUnit queues, with those of the units it requires. *)
QueuesJobs(u) ==
  job' = job \cup {v \in {u} \cup Requires[u] :
                      ActiveOf(sub[v]) # "active"}

(* systemd runs a job that is ready and schedules a restart at once, ends a  *)
(* start attempt when its timeout passes and restarts a unit when its delay  *)
(* has: time cannot outrun it.                                               *)
Overdue(u) ==
  \/ Ready(u)
  \/ AboutToRestart(u)
  \/ sub[u] = "start" /\ u \notin NoTimeout /\ age[u] >= Timeout[u]
  \/ sub[u] = "auto-restart" /\ age[u] >= RestartSec

MayTick == \A u \in Units : ~Overdue(u)

Ages == age' = [u \in Units |->
                  IF \/ sub[u] = "start" /\ u \notin NoTimeout
                     \/ sub[u] = "auto-restart"
                    THEN age[u] + 1 ELSE age[u]]

Lives(u) == \/ RunJob(u)
            \/ StartSucceeds(u)
            \/ StartFails(u)
            \/ Ends(u)
            \/ Stops(u)
            \/ SchedulesRestart(u)
            \/ Restarts(u)
            \/ Emits(u)
=============================================================================
