---------------------------- MODULE LifecycleProofs ----------------------------
(***************************************************************************)
(* Theorems about Lifecycle, for every number of instances, program mode,  *)
(* policy, set of signals and deadline.                                    *)
(***************************************************************************)
EXTENDS Lifecycle, TLAPS

(* The steps main takes once the manifest's instances are counted. *)
AfterCount == {"allocate", "parse", "copy", "register", "capture", "start", "wait"}

(* StartUnit is only called with the count set, so that the handler's loop   *)
(* reaches every unit that was started.                                     *)
Counted == step \in AfterCount \/ started # {} => count = N

(* The handler's loop has passed u. *)
Visited(u) == (hand = "stop" /\ u < at) \/ hand \notin {"idle", "stop"}

(* u is being stopped, or is down with nothing left that would start it. *)
Settled(u) == job[u] = "stop" \/ (job[u] = "none" /\ sub[u] \in {"dead", "failed"})

VisitedAreSettled == \A u \in started \ kept : Visited(u) => Settled(u)

(* Only the end of the handler's tear-down ends the process as handled. *)
HandledByHandler == exit = "handled" => hand \notin {"idle", "stop"}

(* What is freed was freed by a tear-down that has gone on from there. *)
FreedByTearDown ==
  /\ strings = "freed" => step \in {"list", "rest"} \/ hand \in {"list", "rest"}
  /\ list = "freed" => step = "rest" \/ hand = "rest"

FaultInv == TypeOK /\ FreedByTearDown /\ OnlyLateSignalsFault

Inv == TypeOK /\ Counted /\ VisitedAreSettled /\ HandledByHandler

-----------------------------------------------------------------------------
LEMMA ConstantsType == N \in Nat /\ N # 0 /\ Deadline \in Nat /\ MaxSignals \in Nat
BY LifecycleAssumption

LEMMA ReleasingIs ==
  /\ DOMAIN Releasing = 1 .. 4
  /\ Len(Releasing) = 4
  /\ Releasing[1] = "bus" /\ Releasing[2] = "strings"
  /\ Releasing[3] = "list" /\ Releasing[4] = "rest"
  /\ Releases = {"bus", "strings", "list", "rest"}
BY DEF Releasing, Releases

LEMMA StepsAre ==
  Steps = {"init", "config", "dirs", "input", "count", "allocate", "parse", "copy",
           "register", "capture", "start", "wait", "bus", "strings", "list", "rest"}
BY ReleasingIs DEF Steps

(* Where a step of main leads. *)
LEMMA FollowsWhere ==
  ASSUME NEW s \in {"init", "config", "dirs", "input", "count", "allocate", "parse",
                    "copy", "register", "capture"}
  PROVE  /\ Follows(s) \in Steps
         /\ Follows(s) \in AfterCount => s = "count" \/ s \in AfterCount
BY StepsAre DEF Follows, AfterCount

LEMMA ActiveOfSub == ASSUME NEW s \in LiveSubs PROVE s \in SubStates
BY DEF LiveSubs, SubStates

(* What dispatching messages leaves of the cache is well typed. *)
LEMMA DispatchedType ==
  ASSUME TypeOK, NEW U \in SUBSET Units, Dispatched(U)
  PROVE  /\ seen' \in [Units -> SubStates]
         /\ wasActive' \in [Units -> BOOLEAN]
<1>1. seen' \in [Units -> SubStates]
  BY ActiveOfSub DEF TypeOK, Dispatched
<1>2. wasActive' \in [Units -> BOOLEAN]
  BY Zenon DEF Dispatched
<1> QED
  BY <1>1, <1>2

-----------------------------------------------------------------------------
LEMMA InitInv == Init => Inv
<1> SUFFICES ASSUME Init PROVE Inv
  OBVIOUS
<1>1. TypeOK
  <2>1. wasActive \in [Units -> BOOLEAN] /\ seen \in [Units -> SubStates]
    BY DEF Init, SubStates
  <2>2. sub \in [Units -> LiveSubs]
    BY LifecycleAssumption DEF Init, LiveSubs
  <2>3. /\ at \in 1 .. N + 1 /\ waited \in 0 .. Deadline + 1
        /\ signals \in 0 .. MaxSignals /\ count \in {0, N}
    <3>1. at = 1 /\ waited = 0 /\ signals = 0 /\ count = 0
      BY DEF Init
    <3> QED
      BY <3>1, ConstantsType
  <2>4. job \in [Units -> {"none", "start", "stop"}]
    BY DEF Init
  <2> QED
    BY <2>1, <2>2, <2>3, <2>4, StepsAre DEF Init, TypeOK
<1>2. Counted /\ VisitedAreSettled /\ HandledByHandler
  BY DEF Init, Counted, AfterCount, VisitedAreSettled, HandledByHandler
<1> QED
  BY <1>1, <1>2 DEF Inv

LEMMA TypeStep ==
  ASSUME TypeOK, [Next]_vars
  PROVE  TypeOK'
<1> USE ConstantsType
<1>1. CASE ManagerInit
  BY <1>1, FollowsWhere, StepsAre
     DEF ManagerInit, ToStep, InMain, TypeOK, cacheVars, handlerVars, systemdVars
<1>2. CASE Plain
  BY <1>2, FollowsWhere, StepsAre
     DEF Plain, ToStep, InMain, TypeOK, cacheVars, handlerVars, systemdVars
<1>3. CASE ReadManifest
  BY <1>3, FollowsWhere, StepsAre
     DEF ReadManifest, ToStep, InMain, TypeOK, cacheVars, handlerVars, systemdVars
<1>4. CASE Capture
  <2>1. PICK U \in SUBSET Units : Dispatched(U) /\ ToStep("capture", U = Units)
    BY <1>4 DEF Capture
  <2>2. /\ seen' \in [Units -> SubStates]
        /\ wasActive' \in [Units -> BOOLEAN]
    BY <2>1, DispatchedType
  <2>3. sub' \in [Units -> LiveSubs]
    BY <1>4 DEF Capture, TypeOK, LiveSubs
  <2>4. step' \in Steps
    BY <2>1, FollowsWhere, StepsAre DEF ToStep
  <2> QED
    BY <1>4, <2>2, <2>3, <2>4 DEF Capture, TypeOK, handlerVars
<1>5. CASE Start
  <2>1. at \in Units /\ at' \in 1 .. N + 1
    BY <1>5 DEF Start, TypeOK, Units
  <2>2. job' \in [Units -> {"none", "start", "stop"}]
    BY <1>5 DEF Start, TypeOK
  <2>3. started' \subseteq Units
    BY <1>5, <2>1 DEF Start, TypeOK
  <2> QED
    BY <1>5, <2>1, <2>2, <2>3 DEF Start, TypeOK, mainVars, cacheVars, handlerVars
<1>6. CASE StartsOver
  BY <1>6, StepsAre DEF StartsOver, TypeOK, cacheVars, handlerVars, systemdVars
<1>7. CASE Drain
  BY <1>7, DispatchedType DEF Drain, TypeOK, mainVars, handlerVars, systemdVars
<1>8. CASE RunReturns
  BY <1>8, StepsAre DEF RunReturns, TypeOK, cacheVars, handlerVars, systemdVars
<1>9. CASE TearDown
  <2>1. PICK i \in DOMAIN Releasing :
          /\ TearDownStep(i, "returned")
          /\ step' = IF i < Len(Releasing) THEN Releasing[i + 1] ELSE step
    BY <1>9 DEF TearDown
  <2>2. step' \in Steps
    BY <2>1, StepsAre, ReleasingIs DEF TypeOK
  <2> QED
    BY <1>9, <2>1, <2>2
       DEF TearDown, TearDownStep, Release, TypeOK, cacheVars, systemdVars
<1>10. CASE StopInstance
  <2>1. at \in Units /\ at' \in 1 .. N + 1
    BY <1>10 DEF StopInstance, TypeOK, Units
  <2>2. job' \in [Units -> {"none", "start", "stop"}]
    BY <1>10 DEF StopInstance, TypeOK
  <2>3. kept' \subseteq Units
    BY <1>10, <2>1 DEF StopInstance, TypeOK
  <2> QED
    BY <1>10, <2>1, <2>2, <2>3 DEF StopInstance, TypeOK, mainVars, cacheVars
<1>11. CASE StopWithoutList
  BY <1>11 DEF StopWithoutList, TypeOK, mainVars, cacheVars, systemdVars
<1>12. CASE StopsOver
  BY <1>12 DEF StopsOver, TypeOK, mainVars, cacheVars, systemdVars
<1>13. CASE WaitEnds
  BY <1>13, ReleasingIs DEF WaitEnds, TypeOK, mainVars, cacheVars, systemdVars
<1>14. CASE HandlerTearDown
  <2>1. PICK i \in DOMAIN Releasing :
          /\ TearDownStep(i, IF signo = "SIGSEGV" THEN "killed" ELSE "handled")
          /\ hand' = IF i < Len(Releasing) THEN Releasing[i + 1] ELSE hand
    BY <1>14 DEF HandlerTearDown
  <2>2. hand' \in {"idle", "stop", "wait"} \cup Releases
    BY <2>1, ReleasingIs DEF TypeOK
  <2> QED
    BY <1>14, <2>1, <2>2
       DEF HandlerTearDown, TearDownStep, Release, TypeOK, cacheVars, systemdVars
<1>15. CASE WaitDrain
  BY <1>15, DispatchedType DEF WaitDrain, TypeOK, mainVars, handlerVars, systemdVars
<1>16. CASE Tick
  BY <1>16 DEF Tick, TypeOK, mainVars, cacheVars, systemdVars
<1>17. CASE Signal
  BY <1>17 DEF Signal, FirstSignal, NextSignal, TypeOK, mainVars, cacheVars,
               systemdVars
<1>18. ASSUME NEW u \in Units, Systemd(u)
       PROVE  TypeOK'
  BY <1>18 DEF Systemd, Move, TypeOK, LiveSubs, mainVars, cacheVars, handlerVars
<1>19. CASE UNCHANGED vars
  BY <1>19 DEF TypeOK, vars, mainVars, cacheVars, handlerVars, systemdVars
<1> QED
  BY <1>1, <1>2, <1>3, <1>4, <1>5, <1>6, <1>7, <1>8, <1>9, <1>10, <1>11, <1>12,
     <1>13, <1>14, <1>15, <1>16, <1>17, <1>18, <1>19
     DEF Next, MainStep, HandlerStep, Ended

(* Every variable keeps its type (Manager.c: the states of main and of the   *)
(* handler, and the indices of the loops over the instances, whose list has *)
(* instance_count entries).                                                 *)
THEOREM LifecycleTypeCorrect == Spec => []TypeOK
<1>1. Init => TypeOK
  BY InitInv DEF Inv
<1>2. TypeOK /\ [Next]_vars => TypeOK'
  BY TypeStep
<1> QED
  BY <1>1, <1>2, PTL DEF Spec

-----------------------------------------------------------------------------
LEMMA FaultStep ==
  ASSUME FaultInv, [Next]_vars
  PROVE  (FreedByTearDown /\ OnlyLateSignalsFault)'
<1> USE DEF FaultInv
<1>1. CASE TearDown
  <2>1. PICK i \in 1 .. 4 :
          /\ InMain(Releasing[i])
          /\ TearDownStep(i, "returned")
          /\ step' = IF i < 4 THEN Releasing[i + 1] ELSE step
    BY <1>1, ReleasingIs DEF TearDown
  <2>2. hand = "idle" /\ hand' = hand /\ exit = "no" /\ step = Releasing[i]
    BY <1>1, <2>1 DEF TearDown, InMain
  <2>3. Release(Releasing[i], IF i = 4 THEN "returned" ELSE "no")
    BY <2>1, ReleasingIs DEF TearDownStep
  <2> QED
    BY <2>1, <2>2, <2>3, ReleasingIs
       DEF Release, FreedByTearDown, OnlyLateSignalsFault, TypeOK
<1>2. CASE HandlerTearDown
  <2>1. PICK i \in 1 .. 4 :
          /\ InHandler(Releasing[i])
          /\ TearDownStep(i, IF signo = "SIGSEGV" THEN "killed" ELSE "handled")
          /\ hand' = IF i < 4 THEN Releasing[i + 1] ELSE hand
    BY <1>2, ReleasingIs DEF HandlerTearDown
  <2>2. exit = "no" /\ hand = Releasing[i] /\ step' = step
    BY <1>2, <2>1 DEF HandlerTearDown, InHandler
  <2>3. \E ending \in {"killed", "handled", "no"} : Release(Releasing[i], ending)
    BY <2>1 DEF TearDownStep
  <2> QED
    BY <2>1, <2>2, <2>3, ReleasingIs
       DEF Release, FreedByTearDown, OnlyLateSignalsFault, TypeOK
<1>3. CASE StopWithoutList
  <2>1. /\ exit' = "freed_list" => list = "freed"
        /\ exit' \in {"killed", "freed_list"}
        /\ hand = "stop"
        /\ UNCHANGED <<step, hand, strings, list>>
    BY <1>3 DEF StopWithoutList, InHandler, mainVars
  <2> QED
    BY <2>1 DEF FreedByTearDown, OnlyLateSignalsFault
<1>4. CASE /\ exit = "no" /\ exit' \in {"no", "killed"}
           /\ strings' = strings /\ list' \in {list, "allocated", "named"}
           /\ step \notin {"list", "rest"} \/ step' = step
           /\ hand \notin {"list", "rest"} \/ hand' = hand
  BY <1>4 DEF FreedByTearDown, OnlyLateSignalsFault
<1>5. CASE ManagerInit \/ Plain \/ ReadManifest \/ Capture \/ Start \/ StartsOver
           \/ Drain \/ RunReturns
  BY <1>4, <1>5 DEF ManagerInit, Plain, ReadManifest, Capture, Start, StartsOver,
                    Drain, RunReturns, InMain, mainVars, handlerVars
<1>6. CASE StopInstance \/ StopsOver \/ WaitEnds \/ WaitDrain \/ Tick
  BY <1>4, <1>6 DEF StopInstance, StopsOver, WaitEnds, WaitDrain, Tick, InHandler,
                    mainVars, handlerVars
<1>7. CASE Signal
  BY <1>4, <1>7 DEF Signal, FirstSignal, NextSignal, InHandler, mainVars
<1>8. CASE \E u \in Units : Systemd(u)
  <2>1. exit = "no" /\ UNCHANGED <<exit, strings, list, step, hand>>
    BY <1>8 DEF Systemd, Move, mainVars, handlerVars
  <2> QED
    BY <1>4, <2>1
<1>9. CASE UNCHANGED vars
  BY <1>9 DEF vars, mainVars, handlerVars, FreedByTearDown, OnlyLateSignalsFault
<1> QED
  BY <1>1, <1>2, <1>3, <1>5, <1>6, <1>7, <1>8, <1>9
     DEF Next, MainStep, HandlerStep, Ended

(* What manager_tear_down does not reset, the configuration's strings and    *)
(* the instance list, is released twice, or read after its release, only by *)
(* a signal that comes once main's own tear-down has freed the strings      *)
(* (Manager.c, signal_handler and manager_tear_down).                       *)
THEOREM FaultsAreLate == Spec => []OnlyLateSignalsFault
<1>1. Init => FaultInv
  BY InitInv DEF Init, Inv, FaultInv, FreedByTearDown, OnlyLateSignalsFault
<1>2. FaultInv /\ [Next]_vars => FaultInv'
  BY TypeStep, FaultStep DEF FaultInv
<1>3. FaultInv => OnlyLateSignalsFault
  BY DEF FaultInv
<1> QED
  BY <1>1, <1>2, <1>3, PTL DEF Spec

-----------------------------------------------------------------------------
LEMMA CountedStep ==
  ASSUME TypeOK, Counted, [Next]_vars
  PROVE  Counted'
<1>1. CASE ManagerInit
  BY <1>1, FollowsWhere DEF ManagerInit, InMain, ToStep, Counted, AfterCount
<1>2. CASE Plain
  BY <1>2, FollowsWhere DEF Plain, InMain, ToStep, Counted, AfterCount
<1>3. CASE ReadManifest
  BY <1>3, FollowsWhere DEF ReadManifest, InMain, ToStep, Counted, AfterCount
<1>4. CASE Capture
  BY <1>4, FollowsWhere DEF Capture, InMain, ToStep, Counted, AfterCount
<1>5. CASE Start
  BY <1>5 DEF Start, InMain, Counted, AfterCount, mainVars
<1>6. CASE StartsOver
  BY <1>6 DEF StartsOver, InMain, Counted, AfterCount
<1>7. CASE RunReturns
  BY <1>7 DEF RunReturns, InMain, Counted, AfterCount
<1>8. CASE TearDown
  <2>1. /\ step' \in {"bus", "strings", "list", "rest"}
        /\ UNCHANGED <<count, started>>
    BY <1>8, ReleasingIs DEF TearDown, InMain
  <2> QED
    BY <2>1 DEF Counted, AfterCount
<1>9. CASE UNCHANGED <<step, count, started>>
  BY <1>9 DEF Counted
<1>10. CASE Drain \/ HandlerStep \/ WaitDrain \/ Tick \/ Signal
  BY <1>9, <1>10
     DEF Drain, HandlerStep, StopInstance, StopWithoutList, StopsOver, WaitEnds,
         HandlerTearDown, WaitDrain, Tick, Signal, mainVars
<1>11. CASE (\E u \in Units : Systemd(u)) \/ UNCHANGED vars
  BY <1>9, <1>11 DEF Systemd, Move, vars, mainVars
<1> QED
  BY <1>1, <1>2, <1>3, <1>4, <1>5, <1>6, <1>7, <1>8, <1>10, <1>11
     DEF Next, MainStep, Ended

LEMMA SettledStep ==
  ASSUME Inv, [Next]_vars
  PROVE  VisitedAreSettled'
<1> USE DEF Inv
<1>1. CASE MainStep
  <2>1. exit = "no" /\ hand = "idle" /\ hand' = hand
    BY <1>1 DEF MainStep, ManagerInit, Plain, ReadManifest, Capture, Start,
                StartsOver, Drain, RunReturns, TearDown, InMain, handlerVars
  <2> QED
    BY <2>1 DEF VisitedAreSettled, Visited
<1>2. CASE StopInstance
  <2> SUFFICES ASSUME NEW u \in (started \ kept)', u < at'
               PROVE  Settled(u)'
    BY <1>2 DEF VisitedAreSettled, Visited, StopInstance, InHandler
  <2>1. u \in started \ kept /\ u \in Units /\ at \in Units
    BY <1>2 DEF StopInstance, TypeOK, Units
  <2>2. CASE u = at
    BY <1>2, <2>1, <2>2 DEF StopInstance, Settled, TypeOK
  <2>3. CASE u # at
    <3>1. u < at
      BY <1>2, <2>1, <2>3 DEF StopInstance, Units
    <3>2. Settled(u)
      BY <1>2, <2>1, <3>1 DEF VisitedAreSettled, Visited, StopInstance, InHandler
    <3>3. job'[u] = job[u] /\ sub'[u] = sub[u]
      BY <1>2, <2>1, <2>3 DEF StopInstance, TypeOK
    <3> QED
      BY <3>2, <3>3 DEF Settled
  <2> QED
    BY <2>2, <2>3
<1>3. CASE StopsOver
  <2> SUFFICES ASSUME NEW u \in started \ kept
               PROVE  Settled(u)
    BY <1>3 DEF VisitedAreSettled, Visited, Settled, StopsOver, systemdVars
  <2>1. count = N /\ u \in Units
    BY DEF Counted, TypeOK
  <2>2. u < at
    BY <1>3, <2>1, ConstantsType DEF StopsOver, TypeOK, Units
  <2> QED
    BY <1>3, <2>2 DEF VisitedAreSettled, Visited, StopsOver, InHandler
<1>4. CASE WaitEnds \/ HandlerTearDown
  <2>1. /\ hand \notin {"idle", "stop"}
        /\ UNCHANGED <<started, kept, sub, job>>
    BY <1>4, ReleasingIs
       DEF WaitEnds, HandlerTearDown, InHandler, systemdVars
  <2> QED
    BY <2>1 DEF VisitedAreSettled, Visited, Settled
<1>5. CASE Signal
  <2>1. \A u \in Units : Visited(u)' => Visited(u)
    <3>1. CASE \E s \in Signals : FirstSignal(s)
      BY <3>1 DEF FirstSignal, Visited, Units
    <3>2. CASE \E s \in Signals : NextSignal(s)
      BY <3>2 DEF NextSignal, Visited
    <3> QED
      BY <1>5, <3>1, <3>2 DEF Signal
  <2> QED
    BY <1>5, <2>1 DEF Signal, VisitedAreSettled, Settled, systemdVars, TypeOK
<1>6. ASSUME NEW v \in Units, Systemd(v)
      PROVE  VisitedAreSettled'
  <2>1. UNCHANGED <<hand, at, started, kept>>
    BY <1>6 DEF Systemd, Move, handlerVars
  <2> SUFFICES ASSUME NEW u \in started \ kept, Settled(u)
               PROVE  Settled(u)'
    BY <2>1 DEF VisitedAreSettled, Visited
  <2>2. u \in Units
    BY DEF TypeOK
  <2>3. CASE u = v
    BY <1>6, <2>2, <2>3 DEF Systemd, Move, Settled, TypeOK
  <2>4. CASE u # v
    <3>1. job'[u] = job[u] /\ sub'[u] = sub[u]
      BY <1>6, <2>2, <2>4 DEF Systemd, Move, TypeOK
    <3> QED
      BY <3>1 DEF Settled
  <2> QED
    BY <2>3, <2>4
<1>7. CASE StopWithoutList \/ WaitDrain \/ Tick \/ UNCHANGED vars
  BY <1>7 DEF StopWithoutList, WaitDrain, Tick, vars, VisitedAreSettled, Visited,
              Settled, handlerVars, systemdVars
<1> QED
  BY <1>1, <1>2, <1>3, <1>4, <1>5, <1>6, <1>7 DEF Next, HandlerStep, Ended

LEMMA HandledStep ==
  ASSUME Inv, [Next]_vars
  PROVE  HandledByHandler'
<1> USE DEF Inv
<1>1. CASE TearDown
  <2>1. exit' # "handled"
    BY <1>1 DEF TearDown, TearDownStep, Release
  <2> QED
    BY <2>1 DEF HandledByHandler
<1>2. CASE HandlerTearDown
  <2>1. hand' \in {"bus", "strings", "list", "rest"}
    BY <1>2, ReleasingIs DEF HandlerTearDown, InHandler
  <2> QED
    BY <2>1 DEF HandledByHandler
<1>3. CASE exit' # "handled" \/ (exit' = exit /\ hand' = hand)
  BY <1>3 DEF HandledByHandler
<1>4. CASE ManagerInit \/ Plain \/ ReadManifest \/ Capture \/ Start \/ StartsOver
           \/ Drain \/ RunReturns
  BY <1>3, <1>4 DEF ManagerInit, Plain, ReadManifest, Capture, Start, StartsOver,
                    Drain, RunReturns, handlerVars
<1>5. CASE StopInstance \/ StopWithoutList \/ StopsOver \/ WaitEnds \/ WaitDrain
           \/ Tick \/ Signal
  BY <1>3, <1>5 DEF StopInstance, StopWithoutList, StopsOver, WaitEnds, WaitDrain,
                    Tick, Signal, FirstSignal, NextSignal, InHandler, handlerVars
<1>6. CASE (\E u \in Units : Systemd(u)) \/ UNCHANGED vars
  BY <1>3, <1>6 DEF Systemd, Move, vars, handlerVars
<1> QED
  BY <1>1, <1>2, <1>4, <1>5, <1>6 DEF Next, MainStep, HandlerStep, Ended

LEMMA InvStep == Inv /\ [Next]_vars => Inv'
BY TypeStep, CountedStep, SettledStep, HandledStep DEF Inv

(* A signal handled to its end leaves no unit this process started to run    *)
(* on: each is down, or its stop is under way, or systemd refused the stop  *)
(* (Manager.c, signal_handler and manager_terminate_instances), between     *)
(* whichever two steps of main, or two StartUnits, it came.                 *)
THEOREM NothingLeftRunning == Spec => []LeftToStop
<1>1. Inv => LeftToStop
  BY DEF Inv, HandledByHandler, VisitedAreSettled, Visited, Settled, LeftToStop
<1> QED
  BY InitInv, InvStep, <1>1, PTL DEF Spec
=============================================================================
