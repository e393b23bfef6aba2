------------------------------- MODULE Lifecycle -------------------------------
(***************************************************************************)
(* The life of the launcher process (Manager.c): the steps of main, the    *)
(* signal handler that may interrupt it between any two of them, the       *)
(* termination of the instances and the tear-down both end with.           *)
(*                                                                         *)
(* The handler runs on the interrupted thread: while it runs, main stands  *)
(* still, and it ends the process, so that main never goes on.  What the C *)
(* standard leaves undefined (a second free, a read of freed memory) ends  *)
(* the model in a fault.                                                   *)
(***************************************************************************)
EXTENDS UnitPhase, UnitStates, Sequences

CONSTANTS
  N,          \* instances in the manifest
  Modes,      \* the program modes: do they generate, do they run
  Policy,     \* Policy[u]: the failure behaviour of instance u
  Signals,    \* the signals that may come
  Earlier,    \* the states an earlier session may have left a unit in
  Deadline,   \* the limit of the handler's wait, in ticks
  MaxSignals  \* bound: signals the process gets

Units == 1 .. N

ASSUME LifecycleAssumption ==
  /\ N \in Nat \ {0}
  /\ Modes \subseteq [generate : BOOLEAN, run : BOOLEAN]
  /\ \A m \in Modes : m.generate \/ m.run
  /\ Policy \in [Units -> FailureBehavior]
  /\ Signals \subseteq {"SIGINT", "SIGTERM", "SIGSEGV"}
  /\ Earlier \subseteq {"dead", "running", "failed"}
  /\ Deadline \in Nat
  /\ MaxSignals \in Nat

VARIABLES
  mode,         \* program_mode
  step,         \* where main is
  count,        \* instance_count
  list,         \* instance_list: "null", "allocated", "named", "freed"
  bus,          \* "closed" or "open"
  strings,      \* the configuration's strings: "allocated" or "freed"
  seen,         \* seen[u]: the cached SubState of u, "" before the snapshot
  wasActive,    \* wasActive[u]: was_active of u
  hand,         \* where signal_handler is, "idle" if it was not called
  signo,        \* the signal it handles
  at,           \* the instance a loop over the instances has come to
  waited,       \* ticks the handler has waited
  exit,         \* how the process ended, "no" before
  sub,          \* systemd's SubState of each unit
  job,          \* job[u]: "none", "start" or "stop"
  started,      \* history: instances StartUnit was accepted for
  kept,         \* history: instances whose StopUnit was refused
  signals       \* history: signals so far

mainVars == <<mode, step, count, list, bus, strings>>
cacheVars == <<seen, wasActive>>
handlerVars == <<hand, signo, waited, exit, kept, signals>>
systemdVars == <<sub, job>>
vars == <<mainVars, cacheVars, handlerVars, systemdVars, at, started>>

(* The releases of manager_tear_down: the bus with its subscriptions and     *)
(* slots, the configuration's strings, the instances, names and log.        *)
Releasing == <<"bus", "strings", "list", "rest">>
Releases == {Releasing[i] : i \in DOMAIN Releasing}
Steps == {"init", "config", "dirs", "input", "count", "allocate", "parse", "copy",
          "register", "capture", "start", "wait"} \cup
         Releases

TypeOK ==
  /\ mode \in Modes
  /\ step \in Steps
  /\ count \in {0, N}
  /\ list \in {"null", "allocated", "named", "freed"}
  /\ bus \in {"closed", "open"}
  /\ strings \in {"allocated", "freed"}
  /\ seen \in [Units -> SubStates]
  /\ wasActive \in [Units -> BOOLEAN]
  /\ hand \in {"idle", "stop", "wait"} \cup Releases
  /\ signo \in Signals \cup {"none"}
  /\ at \in 1 .. N + 1
  /\ waited \in 0 .. Deadline + 1
  /\ exit \in {"no", "returned", "handled", "killed", "double_free", "freed_list"}
  /\ sub \in [Units -> LiveSubs]
  /\ job \in [Units -> {"none", "start", "stop"}]
  /\ started \subseteq Units
  /\ kept \subseteq Units
  /\ signals \in 0 .. MaxSignals

Init ==
  /\ mode \in Modes
  /\ step = "init"
  /\ count = 0 /\ list = "null" /\ bus = "closed" /\ strings = "allocated"
  /\ seen = [u \in Units |-> ""]
  /\ wasActive = [u \in Units |-> FALSE]
  /\ hand = "idle" /\ signo = "none" /\ at = 1 /\ waited = 0 /\ exit = "no"
  /\ sub \in [Units -> Earlier]
  /\ job = [u \in Units |-> "none"]
  /\ started = {} /\ kept = {} /\ signals = 0

InMain(s) == exit = "no" /\ hand = "idle" /\ step = s
InHandler(h) == exit = "no" /\ hand = h

-----------------------------------------------------------------------------
(* A step that succeeds goes on to the next one of the mode; one that fails  *)
(* goes to cleanup.                                                         *)
Follows(s) ==
  CASE s = "init"     -> "config"
    [] s = "config"   -> "dirs"
    [] s = "dirs"     -> IF mode.generate THEN "input" ELSE "count"
    [] s = "input"    -> "count"
    [] s = "count"    -> "allocate"
    [] s = "allocate" -> "parse"
    [] s = "parse"    -> IF mode.generate THEN "copy" ELSE "register"
    [] s = "copy"     -> IF mode.run THEN "register" ELSE "bus"
    [] s = "register" -> "capture"
    [] s = "capture"  -> "start"

ToStep(s, ok) == step' = IF ok THEN Follows(s) ELSE "bus"

(* manager_init: the connection stays open when a later call of it fails.   *)
ManagerInit ==
  /\ InMain("init")
  /\ \E ok \in BOOLEAN :
       /\ ToStep("init", ok)
       /\ bus' \in IF ok THEN {"open"} ELSE {"open", "closed"}
  /\ UNCHANGED <<mode, count, list, strings, cacheVars, handlerVars, systemdVars,
                 at, started>>

(* The steps that touch nothing the handler reads: the configuration, the    *)
(* directories, the Python run, the copy of the unit files and the table of *)
(* the tracker.                                                             *)
Plain ==
  /\ \E s \in {"config", "dirs", "input", "copy", "register"}, ok \in BOOLEAN :
       InMain(s) /\ ToStep(s, ok)
  /\ UNCHANGED <<mode, count, list, bus, strings, cacheVars, handlerVars,
                 systemdVars, at, started>>

(* manager_read_manifest sets the count before there is a list. *)
ReadManifest ==
  /\ \/ /\ InMain("count")
        /\ \/ count' = N /\ ToStep("count", TRUE)
           \/ count' = count /\ ToStep("count", FALSE)
        /\ list' = list
     \/ /\ InMain("allocate")
        /\ list' = "allocated"
        /\ ToStep("allocate", TRUE)
        /\ count' = count
     \/ /\ InMain("parse")
        /\ \E ok \in BOOLEAN :
             /\ list' = IF ok THEN "named" ELSE list
             /\ ToStep("parse", ok)
        /\ count' = count
  /\ UNCHANGED <<mode, bus, strings, cacheVars, handlerVars, systemdVars, at,
                 started>>

(* Mutation: the cached field is the ActiveState.                           *)
DispatchedActive(U) ==
  /\ seen' = [u \in Units |-> IF u \in U THEN ActiveOf(sub[u]) ELSE seen[u]]
  /\ wasActive' = [u \in Units |->
                    wasActive[u] \/ (u \in U /\ ActiveOf(sub[u]) = "active")]

(* Messages or snapshots of the units in U are dispatched:                  *)
(* on_unit_state_changed.                                                   *)
Dispatched(U) ==
  /\ seen' = [u \in Units |-> IF u \in U THEN sub[u] ELSE seen[u]]
  /\ wasActive' = [u \in Units |->
                    wasActive[u] \/ (u \in U /\ ActiveOf(sub[u]) = "active")]

(* manager_capture_instances: it fails if a unit is not attached, and resets *)
(* the failed bits behind the snapshots.                                    *)
Capture ==
  /\ InMain("capture")
  /\ \E U \in SUBSET Units :
       /\ Dispatched(U)
       /\ ToStep("capture", U = Units)
  /\ sub' = [u \in Units |-> IF sub[u] = "failed" THEN "dead" ELSE sub[u]]
  /\ UNCHANGED <<mode, count, list, bus, strings, handlerVars, job, at, started>>

(* manager_run: one StartUnit after the other, then the wait loop, which     *)
(* ManagerRun models; here it may dispatch and return at any time.          *)
Start ==
  /\ InMain("start")
  /\ at <= N
  /\ \/ /\ job' = [job EXCEPT ![at] = "start"]
        /\ started' = started \cup {at}
     \/ UNCHANGED <<job, started>>
  /\ at' = at + 1
  /\ UNCHANGED <<mainVars, cacheVars, handlerVars, sub>>

StartsOver ==
  /\ InMain("start")
  /\ at = N + 1
  /\ step' = IF started = Units THEN "wait" ELSE "bus"
  /\ at' = 1
  /\ UNCHANGED <<mode, count, list, bus, strings, cacheVars, handlerVars,
                 systemdVars, started>>

Drain ==
  /\ InMain("wait")
  /\ \E U \in SUBSET Units : Dispatched(U)
  /\ UNCHANGED <<mainVars, handlerVars, systemdVars, at, started>>

RunReturns ==
  /\ InMain("wait")
  /\ step' = "bus"
  /\ UNCHANGED <<mode, count, list, bus, strings, cacheVars, handlerVars,
                 systemdVars, at, started>>

-----------------------------------------------------------------------------
(* manager_tear_down, for main or the handler, one release at a time.  The   *)
(* bus is reset to null, the strings and the list are not.                  *)
Release(what, undisturbed) ==
  /\ bus' = IF what = "bus" THEN "closed" ELSE bus
  /\ strings' = IF what = "strings" THEN "freed" ELSE strings
  /\ list' = IF what = "list" /\ list # "null" THEN "freed" ELSE list
  /\ exit' = CASE what = "strings" /\ strings = "freed" -> "double_free"
               [] what = "list" /\ list = "freed" -> "double_free"
               [] OTHER -> undisturbed

TearDownStep(i, ending) ==
  Release(Releasing[i], IF i = Len(Releasing) THEN ending ELSE "no")

TearDown ==
  /\ \E i \in DOMAIN Releasing :
       /\ InMain(Releasing[i])
       /\ TearDownStep(i, "returned")
       /\ step' = IF i < Len(Releasing) THEN Releasing[i + 1] ELSE step
  /\ UNCHANGED <<mode, count, cacheVars, hand, signo, waited, kept, signals,
                 systemdVars, at, started>>

-----------------------------------------------------------------------------
(* signal_handler: the first signal terminates; one that comes while the     *)
(* handler runs kills.  The signal being handled is blocked.                *)
FirstSignal(s) ==
  /\ InHandler("idle")
  /\ hand' = "stop"
  /\ signo' = s
  /\ at' = 1
  /\ UNCHANGED <<waited, exit>>

(* Mutation: it terminates again instead. *)
NextSignalReenters(s) ==
  /\ exit = "no"
  /\ hand # "idle"
  /\ s # signo
  /\ hand' = "stop" /\ signo' = s /\ at' = 1
  /\ UNCHANGED <<waited, exit>>

NextSignal(s) ==
  /\ exit = "no"
  /\ hand # "idle"
  /\ s # signo
  /\ exit' = "killed"
  /\ UNCHANGED <<hand, signo, at, waited>>

Signal ==
  /\ signals < MaxSignals
  /\ signals' = signals + 1
  /\ \E s \in Signals : FirstSignal(s) \/ NextSignal(s)
  /\ UNCHANGED <<mainVars, cacheVars, kept, systemdVars, started>>

(* Mutation: only the units seen active are stopped.                        *)
StopIfActive ==
  /\ InHandler("stop")
  /\ at <= count
  /\ list = "named" /\ bus = "open"
  /\ job' = IF wasActive[at] THEN [job EXCEPT ![at] = "stop"] ELSE job
  /\ at' = at + 1
  /\ UNCHANGED <<mainVars, cacheVars, handlerVars, sub, started>>

(* manager_terminate_instances: StopUnit, which is refused without a bus and *)
(* for an instance that has no name yet.                                    *)
StopInstance ==
  /\ InHandler("stop")
  /\ at <= count
  /\ list # "null" /\ list # "freed"
  /\ \/ /\ list = "named" /\ bus = "open"
        /\ job' = [job EXCEPT ![at] = "stop"]
        /\ kept' = kept
     \/ job' = job /\ kept' = kept \cup {at}
  /\ at' = at + 1
  /\ UNCHANGED <<mainVars, cacheVars, hand, signo, waited, exit, signals, sub,
                 started>>

(* It reads a list that is not there, which is a fatal SIGSEGV inside the    *)
(* handler, or one that was freed.                                          *)
StopWithoutList ==
  /\ InHandler("stop")
  /\ at <= count
  /\ \/ list = "null" /\ exit' = "killed"
     \/ list = "freed" /\ exit' = "freed_list"
  /\ UNCHANGED <<mainVars, cacheVars, hand, signo, waited, kept, signals,
                 systemdVars, at, started>>

StopsOver ==
  /\ InHandler("stop")
  /\ at > count
  /\ hand' = "wait"
  /\ UNCHANGED <<mainVars, cacheVars, signo, waited, exit, kept, signals,
                 systemdVars, at, started>>

(* The tally of the wait loop, over phases derived anew *)
Result(s) == IF s = "failed" THEN "exit-code" ELSE "success"
PhaseNow(u) ==
  IF seen[u] = "" THEN "INTERMEDIATE"
  ELSE PhaseOf(ActiveOf(seen[u]), seen[u], Result(seen[u]), wasActive[u], Policy[u])

Terminated(u) ==
  \/ PhaseNow(u) \in {"SUCCEEDED_STOPPED", "SUCCEEDED_EXITED"} \cup Failed
  \/ ~wasActive[u]
AllTerminated == \A u \in 1 .. count : Terminated(u)

(* Mutation: no deadline. *)
GivesUpNever ==
  /\ InHandler("wait")
  /\ AllTerminated
  /\ hand' = "bus"
  /\ UNCHANGED <<mainVars, cacheVars, signo, waited, exit, kept, signals,
                 systemdVars, at, started>>

WaitEnds ==
  /\ InHandler("wait")
  /\ AllTerminated \/ waited > Deadline
  /\ hand' = "bus"
  /\ UNCHANGED <<mainVars, cacheVars, signo, waited, exit, kept, signals,
                 systemdVars, at, started>>

(* dbus_wait and the drain, which without a bus do nothing *)
WaitDrain ==
  /\ InHandler("wait")
  /\ ~AllTerminated /\ waited <= Deadline
  /\ bus = "open"
  /\ \E U \in SUBSET Units : Dispatched(U)
  /\ UNCHANGED <<mainVars, handlerVars, systemdVars, at, started>>

Tick ==
  /\ InHandler("wait")
  /\ waited <= Deadline
  /\ waited' = waited + 1
  /\ UNCHANGED <<mainVars, cacheVars, hand, signo, exit, kept, signals,
                 systemdVars, at, started>>

HandlerTearDown ==
  /\ \E i \in DOMAIN Releasing :
       /\ InHandler(Releasing[i])
       /\ TearDownStep(i, IF signo = "SIGSEGV" THEN "killed" ELSE "handled")
       /\ hand' = IF i < Len(Releasing) THEN Releasing[i + 1] ELSE hand
  /\ UNCHANGED <<mode, step, count, cacheVars, signo, waited, kept, signals,
                 systemdVars, at, started>>

-----------------------------------------------------------------------------
(* systemd carries out the jobs, and units end by themselves; the model      *)
(* follows them as long as the process lives.                               *)
Move(u, from, to, before, after) ==
  /\ exit = "no"
  /\ sub[u] \in from
  /\ job[u] \in before
  /\ sub' = [sub EXCEPT ![u] = to]
  /\ job' = [job EXCEPT ![u] = IF after = "same" THEN @ ELSE after]
  /\ UNCHANGED <<mainVars, cacheVars, handlerVars, at, started>>

Systemd(u) ==
  \/ Move(u, {"dead", "failed"}, "start", {"start"}, "same")
  \/ Move(u, {"start"}, "running", {"start"}, "none")
  \/ Move(u, {"running"}, "running", {"start"}, "none")
  \/ Move(u, {"start"}, "failed", {"start"}, "none")
  \/ \E end \in {"dead", "failed"} : Move(u, {"running"}, end, {"none"}, "same")
  \/ Move(u, {"start", "running"}, "stop-sigterm", {"stop"}, "same")
  \/ \E end \in {"dead", "failed"} : Move(u, {"stop-sigterm"}, end, {"stop"}, "none")
  \/ \E s \in {"dead", "failed"} : Move(u, {s}, s, {"stop"}, "none")

Ended == exit # "no" /\ UNCHANGED vars

MainStep == \/ ManagerInit \/ Plain \/ ReadManifest \/ Capture \/ Start \/ StartsOver
            \/ Drain \/ RunReturns \/ TearDown

(* What the handler does without systemd's help *)
HandlerStep == StopInstance \/ StopWithoutList \/ StopsOver \/ WaitEnds
               \/ HandlerTearDown

Next == \/ MainStep \/ HandlerStep \/ WaitDrain \/ Tick \/ Signal
        \/ \E u \in Units : Systemd(u)
        \/ Ended

Spec == Init /\ [][Next]_vars
(* The handler is scheduled and time passes; nothing is assumed of systemd. *)
FairSpec == Spec /\ WF_vars(HandlerStep) /\ WF_vars(Tick)

-----------------------------------------------------------------------------
(* When the handler has ended the process, no unit this process started is   *)
(* left to run on: it is down, or its stop is under way, unless systemd      *)
(* refused to stop it (signal_handler: "stop every started unit, then tear   *)
(* down"), wherever between two StartUnits the signal came.                 *)
LeftToStop ==
  exit = "handled" =>
    \A u \in started \ kept : sub[u] \in {"dead", "failed"} \/ job[u] = "stop"

(* A signal ends the process, even if no unit ever stops and no message is   *)
(* dispatched.                                                              *)
SignalEnds == hand # "idle" ~> exit # "no"

(* Only a signal that comes once main's own tear-down has freed the strings  *)
(* releases anything twice or reads what was released: the configuration's  *)
(* strings and the instance list, the two manager_tear_down does not reset. *)
OnlyLateSignalsFault ==
  exit \in {"double_free", "freed_list"} => hand # "idle" /\ step \in {"list", "rest"}

(* Every resource is released once: a signal that comes in the tear-down     *)
(* must not enter it again.                                                 *)
TornDownOnce == exit \notin {"double_free", "freed_list"}
=============================================================================
