------------------------------ MODULE ManagerRun ------------------------------
(***************************************************************************)
(* manager_run (Manager.c): StartUnit for every instance, then the BASIC   *)
(* or MONITOR wait loop, with the callback on_unit_state_changed the       *)
(* tracker runs for every message dispatched.  The system starts where     *)
(* manager_capture_instances has returned: every unit is attached and its  *)
(* snapshot has been reported, but nothing is dispatched before the wait   *)
(* loop, so announcements sent since a unit was attached, before or after  *)
(* its snapshot, may be in flight.  The process has one thread; systemd    *)
(* and the clock move between any two of its steps, except that no tick    *)
(* passes before the first.                                                *)
(*                                                                         *)
(* A deadline is kept as the time left before it, deadline_usec - now,     *)
(* which stops at -1: nothing in the code depends on how long ago one      *)
(* passed.                                                                 *)
(***************************************************************************)
EXTENDS Systemd, UnitPhase

CONSTANTS
  Mode,          \* operation_mode
  Default,       \* systemd's default start timeout, in ticks
  Prompt,        \* TRUE if a tick is long enough for every announcement
                 \* before it to be sent and dispatched
  ReadFails,     \* units whose TimeoutStartUSec could not be read
  EarlySubs,     \* EarlySubs[u]: the states u may be in between its
                 \* attachment and the run
  Torn           \* the units that may change between two Gets of their snapshot

ASSUME ManagerAssumption ==
  /\ Mode \in OperationMode
  /\ Default \in Nat \ {0}
  /\ Prompt \in BOOLEAN
  /\ ReadFails \subseteq Units
  /\ EarlySubs \in [Units -> SUBSET LiveSubs]
  /\ Torn \subseteq Units

VARIABLES
  pc,        \* "start", "check" (top of the wait loop), "drain" or "done"
  todo,      \* instances manager_run has not issued StartUnit for
  refused,   \* instances whose StartUnit returned an error
  ins,       \* ins[u]: the struct instance of u and its tracked_unit
  halfway,   \* TRUE if the first message of the announcement at the head of
             \* the queue has been dispatched
  outcome,   \* what manager_run returned: "pending", "success" or "failure"
  overrun,   \* history: units whose armed deadline has passed
  revived,   \* history: units their snapshot found up, though an older
             \* announcement in flight says they are dead
  triedBefore \* history: units that were seen activating before the run, in
              \* an attempt that was over when it began

managerVars == <<pc, todo, refused, ins, halfway, outcome>>
earlyVars == <<revived, triedBefore>>
vars == <<systemdVars, managerVars, overrun, earlyVars>>

(* struct instance with the cached fields of its tracked_unit.  activated   *)
(* is first_activating_usec # 0; deadline is "none" for 0, "infinite" for   *)
(* UINT64_MAX.                                                              *)
Instances == [active : ActiveStates, sub : SubStates, result : Results,
              seenActive : BOOLEAN, activated : BOOLEAN,
              deadline : {"none", "finite", "infinite"}, left : Int,
              phase : Phases]

TypeOK ==
  /\ SystemdTypeOK
  /\ pc \in {"start", "check", "drain", "done"}
  /\ todo \subseteq Units
  /\ refused \subseteq Units
  /\ ins \in [Units -> Instances]
  /\ halfway \in BOOLEAN
  /\ outcome \in {"pending", "success", "failure"}
  /\ overrun \subseteq Units
  /\ revived \subseteq Units
  /\ triedBefore \subseteq Units

-----------------------------------------------------------------------------
(* arm_start_deadline *)
Armed(u, i) ==
  IF u \in NoTimeout \ ReadFails
    THEN [i EXCEPT !.deadline = "infinite", !.left = 0]
    ELSE [i EXCEPT !.deadline = "finite",
                   !.left = StartSpan(Policy[u], Burst,
                                      IF u \in ReadFails THEN 0
                                                         ELSE Timeout[u],
                                      Default)]

Rederived(u, i) ==
  [i EXCEPT !.phase = PhaseOf(i.active, i.sub, i.result, i.seenActive,
                              Policy[u])]

(* manager_run arms a deadline at StartUnit unless one is armed already.    *)
(* Its mutation leaves that to the first ACTIVATING.                        *)
NotProvisional(u, i) == i
Provisional(u, i) == IF i.deadline = "none" THEN Armed(u, i) ELSE i

(* Its mutation keeps the provisional deadline. *)
NotAnchored(u, i) == [i EXCEPT !.activated = @ \/ i.active = "activating"]

(* on_unit_state_changed: the first time the unit is seen activating, its   *)
(* deadline is armed again from this more precise anchor.                   *)
Anchored(u, i) ==
  IF ~i.activated /\ i.active = "activating"
    THEN [Armed(u, i) EXCEPT !.activated = TRUE] ELSE i

(* on_unit_state_changed, for the four property names it acts on *)
OnUnitStateChanged(u, i) ==
  LET j == Anchored(u, i)
  IN  Rederived(u, [j EXCEPT !.seenActive = @ \/ i.active = "active"])

(* dbus_properties_changed_handler for the first message of an announcement, *)
(* of the Service interface *)
OnServiceChanged(u, i, m) == OnUnitStateChanged(u, [i EXCEPT !.result = m.result])

(* Mutations of OnUnitChanged: the SubState is updated after the last        *)
(* callback, or nothing is updated once the unit has been up.               *)
OnUnitChangedTooEarly(u, i, m) ==
  [OnUnitStateChanged(u, [i EXCEPT !.active = ActiveOf(m.sub)])
     EXCEPT !.sub = m.sub]
OnUnitChangedUntilUp(u, i, m) ==
  IF i.seenActive THEN i
  ELSE OnUnitStateChanged(u, [i EXCEPT !.active = ActiveOf(m.sub),
                                       !.sub = m.sub])

(* ... and for the second, of the Unit interface: one callback per property  *)
(* updated, so the first sees the new ActiveState with the old SubState.    *)
OnUnitChanged(u, i, m) ==
  LET j == OnUnitStateChanged(u, [i EXCEPT !.active = ActiveOf(m.sub)])
  IN  OnUnitStateChanged(u, [j EXCEPT !.sub = m.sub])

(* An instance after tracked_unit_attach, whose snapshot read r *)
Attached(u, r) ==
  OnUnitStateChanged(u,
    [active |-> r.active, sub |-> r.sub, result |-> r.result,
     seenActive |-> FALSE, activated |-> FALSE,
     deadline |-> "none", left |-> 0, phase |-> "INTERMEDIATE"])

(* The states u may be in before the run, as systemd would announce them. *)
Early(u) ==
  {m \in [unit : {u}, sub : EarlySubs[u], result : LiveResults] :
     /\ m.result \in ResultsOf(m.sub)
     /\ m.sub = "running" => u \notin Groups
     /\ m.sub = "exited" => u \in Groups
     /\ m.sub = "auto-restart" => Policy[u] = "RESTART"}
EarlyNews == UNION {Early(u) : u \in Units}

(* What the snapshot of u may read: ActiveState, SubState and Result are     *)
(* three Gets, one after another.                                           *)
ReadOf(m, n, o) ==
  [active |-> ActiveOf(m.sub), sub |-> n.sub, result |-> o.result]
Readings(u) ==
  IF u \in Torn
    THEN {ReadOf(m, n, o) : m \in Early(u), n \in Early(u), o \in Early(u)}
    ELSE {ReadOf(m, m, m) : m \in Early(u)}

UnitNews(u) == {k \in DOMAIN queue : queue[k].unit = u}

(* u, in state m and read as r when older of the announcements in the queue  *)
(* had been sent, is owed none: the last about it says m, and the snapshot  *)
(* was of m unless that came later.                                         *)
OwedNone(u, m, r, older) ==
  /\ \A k \in UnitNews(u) : (\A l \in UnitNews(u) : l <= k) => queue[k] = m
  /\ (\A k \in UnitNews(u) : k <= older) => r = ReadOf(m, m, m)

(* The SubStates a snapshot or an announcement tells u to have been in, or   *)
(* will tell                                                                *)
Told(u, m, r) == {m.sub, r.sub} \cup {queue[k].sub : k \in UnitNews(u)}

(* What happened to the units between their attachment and the run, with     *)
(* live, read and older as below *)
Remembered(live, read, older) ==
  /\ everActive = {u \in Units :
                     \/ read[u].active = "active"
                     \/ \E s \in Told(u, live[u], read[u]) :
                          ActiveOf(s) = "active"}
  /\ everEnded = {u \in Units :
                    \/ "exited" \in Told(u, live[u], read[u])
                    \/ live[u].sub = "dead" /\ u \in everActive
                    \/ \E k \in UnitNews(u) :
                         /\ queue[k].sub = "dead"
                         /\ \/ k > older[u] /\ read[u].active = "active"
                            \/ \E l \in UnitNews(u) :
                                 l < k /\ ActiveOf(queue[l].sub) = "active"}
  /\ everFailed = {u \in Units : \/ read[u].active = "failed"
                                 \/ "failed" \in Told(u, live[u], read[u])}
  /\ revived = {u \in Units :
                  /\ read[u].active = "active"
                  /\ \E k \in UnitNews(u) :
                       k <= older[u] /\ queue[k].sub = "dead"}
  /\ triedBefore = {u \in Units :
                      /\ live[u].sub # "start"
                      /\ \/ read[u].active = "activating"
                         \/ \E s \in Told(u, live[u], read[u]) :
                              ActiveOf(s) = "activating"}

(* Each unit u is attached and in state live[u]; its snapshot read read[u]   *)
(* when older[u] of the announcements now in flight had been sent.  (What    *)
(* the reset-failed pass after the snapshots does to a unit is among what    *)
(* may happen to it before the run.)                                        *)
Init ==
  /\ queue \in UNION {[1..n -> EarlyNews] : n \in 0..BusCapacity}
  /\ dirty \in SUBSET Units
  /\ \E live \in [Units -> EarlyNews],
        read \in [Units -> UNION {Readings(u) : u \in Units}],
        older \in [Units -> 0..Len(queue)] :
       /\ \A u \in Units : live[u] \in Early(u) /\ read[u] \in Readings(u)
       /\ \A u \in Units \ dirty : OwedNone(u, live[u], read[u], older[u])
       /\ Remembered(live, read, older)
       /\ ins = [u \in Units |-> Attached(u, read[u])]
       /\ sub = [u \in Units |-> live[u].sub]
       /\ result = [u \in Units |-> live[u].result]
       /\ job = {u \in Units : live[u].sub = "start"}
       /\ attempts = [u \in Units |-> IF live[u].sub = "start" THEN 1 ELSE 0]
  /\ age = [u \in Units |-> 0]
  /\ pc = "start"
  /\ todo = Units
  /\ refused = {}
  /\ halfway = FALSE
  /\ outcome = "pending"
  /\ overrun = {}

-----------------------------------------------------------------------------
(* manager_run, phase 1: one StartUnit call and, if it succeeds, the        *)
(* provisional deadline.  No message is dispatched meanwhile.               *)
StartUnit(u) ==
  /\ pc = "start"
  /\ u \in todo
  /\ todo' = todo \ {u}
  /\ \/ /\ QueuesJobs(u)
        /\ ins' = [ins EXCEPT ![u] = Provisional(u, @)]
        /\ UNCHANGED refused
     \/ /\ refused' = refused \cup {u}
        /\ UNCHANGED <<job, ins>>
  /\ UNCHANGED <<sub, result, attempts, age, dirty, queue, historyVars,
                 pc, halfway, outcome, overrun, earlyVars>>

(* The end of phase 1: give up if a StartUnit failed, else enter the loop   *)
(* of the mode, whose initial pass rederives every phase.                   *)
EntersLoop ==
  /\ pc = "start"
  /\ todo = {}
  /\ IF refused # {}
       THEN /\ pc' = "done"
            /\ outcome' = "failure"
            /\ UNCHANGED ins
       ELSE /\ pc' = "check"
            /\ ins' = [u \in Units |-> Rederived(u, ins[u])]
            /\ UNCHANGED outcome
  /\ UNCHANGED <<systemdVars, todo, refused, halfway, overrun, earlyVars>>

(* Mutations of Expired: a comparison off by one, and a deadline that only   *)
(* counts for units seen activating.                                        *)
ExpiredEarly(i) == i.phase \in InFlight /\ i.deadline = "finite" /\ i.left <= 0
ExpiredIfActivated(i) == /\ i.phase \in InFlight /\ i.activated
                         /\ i.deadline = "finite" /\ i.left < 0

Expired(i) == /\ i.phase \in InFlight
              /\ i.deadline = "finite"
              /\ i.left < 0

(* Mutation of Reassessed: an enumerator of the wrong enum *)
ReassessedWrongEnum(i) == IF Expired(i) THEN [i EXCEPT !.phase = "ABORT"] ELSE i

(* The deadline reassessment at the top of the loop *)
Reassessed(i) == IF Expired(i) THEN [i EXCEPT !.phase = "FAILED_ABORT"] ELSE i

(* The phases the two loops tally as success *)
SuccessPhases == IF Mode = "BASIC" THEN Succeeded
                 ELSE {"SUCCEEDED_EXITED", "SUCCEEDED_STOPPED"}

(* One iteration of the wait loop up to dbus_wait *)
Check ==
  /\ pc = "check"
  /\ ins' = [u \in Units |-> Reassessed(ins[u])]
  /\ LET cond == ConditionOf(Mode)
         phases == {ins'[u].phase : u \in Units}
     IN  IF \E p \in phases : IsDisqualifying(p, cond)
           THEN pc' = "done" /\ outcome' = "failure"
         ELSE IF \A p \in phases : IsSettled(p, cond)
           THEN /\ pc' = "done"
                /\ outcome' = IF phases \subseteq SuccessPhases
                                THEN "success" ELSE "failure"
         ELSE pc' = "drain" /\ UNCHANGED outcome
  /\ UNCHANGED <<systemdVars, todo, refused, halfway, overrun, earlyVars>>

(* dbus_process: a message dispatched, the first of the announcement at the  *)
(* head of the queue ...                                                    *)
DispatchService ==
  /\ ~halfway
  /\ LET m == Head(queue)
     IN  ins' = [ins EXCEPT ![m.unit] = OnServiceChanged(m.unit, @, m)]
  /\ halfway' = TRUE
  /\ UNCHANGED queue

(* ... or its second *)
DispatchUnit ==
  /\ halfway
  /\ LET m == Head(queue)
     IN  ins' = [ins EXCEPT ![m.unit] = OnUnitChanged(m.unit, @, m)]
  /\ halfway' = FALSE
  /\ queue' = Tail(queue)

Dispatch ==
  /\ pc = "drain"
  /\ queue # << >>
  /\ DispatchService \/ DispatchUnit
  /\ UNCHANGED <<unitVars, dirty, historyVars, pc, todo, refused, outcome,
                 overrun, earlyVars>>

(* dbus_process finds nothing, or dbus_wait times out: what is still in     *)
(* the queue has not reached the process yet.                               *)
DrainEnds ==
  /\ pc = "drain"
  /\ pc' = "check"
  /\ UNCHANGED <<systemdVars, todo, refused, ins, halfway, outcome, overrun,
                 earlyVars>>

(* The clock *)
Tick ==
  /\ pc # "done"
  /\ MayTick
  /\ Prompt => dirty = {} /\ queue = << >>
  /\ Ages
  /\ ins' = [u \in Units |->
               IF ins[u].deadline = "finite" /\ ins[u].left >= 0
                 THEN [ins[u] EXCEPT !.left = @ - 1] ELSE ins[u]]
  /\ overrun' = overrun \cup {u \in Units : /\ ins'[u].deadline = "finite"
                                            /\ ins'[u].left < 0}
  /\ UNCHANGED <<sub, result, job, attempts, dirty, queue, historyVars,
                 pc, todo, refused, halfway, outcome, earlyVars>>

SystemdStep(u) ==
  /\ pc # "done"
  /\ Lives(u)
  /\ UNCHANGED <<managerVars, overrun, earlyVars>>

(* manager_run has returned. *)
Returned == pc = "done" /\ UNCHANGED vars

ManagerStep == \/ \E u \in Units : StartUnit(u)
               \/ EntersLoop
               \/ Check
               \/ Dispatch
               \/ DrainEnds

Next == \/ ManagerStep
        \/ Tick
        \/ \E u \in Units : SystemdStep(u)
        \/ Returned

(* systemd settles the units it is starting, restarting or stopping ... *)
Settles(u) == \/ RunJob(u)
              \/ StartSucceeds(u)
              \/ StartFails(u)
              \/ Stops(u)
              \/ SchedulesRestart(u)
              \/ Restarts(u)

ByItself(A) == /\ pc # "done"
               /\ A
               /\ UNCHANGED <<managerVars, overrun, earlyVars>>

(* ... while the process runs and time passes: all that BASIC relies on.     *)
BasicFairness ==
  /\ WF_vars(ManagerStep)
  /\ WF_vars(Tick)
  /\ WF_vars(ByItself(\E u \in Units : Settles(u)))

(* MONITOR also needs the news: systemd announces what it changed and the    *)
(* bus delivers, whenever the loop drains.  And it has a caveat: a unit that *)
(* stays up for ever holds the manager in its loop for ever, so here every   *)
(* unit that is up ends.                                                     *)
MonitorFairness ==
  /\ BasicFairness
  /\ WF_vars(ByItself(\E u \in Units : Emits(u)))
  /\ SF_vars(Dispatch)
  /\ WF_vars(ByItself(\E u \in Units : Ends(u)))

Spec == Init /\ [][Next]_vars
BasicSpec == Spec /\ BasicFairness
MonitorSpec == Spec /\ MonitorFairness

-----------------------------------------------------------------------------
(* Inside the wait loop an instance's phase is what phase_of says of its    *)
(* cached state, or the FAILED_ABORT of a deadline that has passed: no      *)
(* callback, initial pass or reassessment leaves a stale one behind         *)
(* (on_unit_state_changed: "Always recompute the phase").                   *)
PhaseCurrent ==
  pc \in {"check", "drain"} =>
    \A u \in Units : LET i == ins[u] IN
      \/ i.phase = Rederived(u, i).phase
      \/ /\ i.phase = "FAILED_ABORT"
         /\ u \in overrun
         /\ Rederived(u, i).phase \in InFlight

(* What the messages in flight will make of u's cached SubState once they   *)
(* are all dispatched, and the ActiveState with it.                         *)
Announced(u) == IF UnitNews(u) = {} THEN ins[u].sub
                ELSE queue[CHOOSE k \in UnitNews(u) :
                             \A l \in UnitNews(u) : l <= k].sub

(* No state change is lost between systemd and the phase: the last news of  *)
(* a unit, dispatched or in flight, is its live state unless systemd still  *)
(* owes an announcement.                                                    *)
NoNewsLost == \A u \in Units \ dirty : Announced(u) = sub[u]

(* The supervisor never gives up on an Abort unit before systemd does: while *)
(* its first start attempt runs, its deadline, anchored when ACTIVATING was  *)
(* first seen, leaves at least the time systemd still grants the attempt     *)
(* (arm_start_deadline, "this anchor is the precise one").  A unit whose     *)
(* ACTIVATING was that of an attempt already over when the run began is      *)
(* excepted: its deadline is frozen before its start job runs.               *)
Patience ==
  \A u \in Units \ (ReadFails \cup triedBefore) :
    /\ Policy[u] = "ABORT" /\ u \notin NoTimeout
    /\ sub[u] = "start" /\ attempts[u] = 1
    /\ ins[u].activated
    => ins[u].left >= Timeout[u] - age[u]

(* What a state s of unit u, live, announced or cached, says has happened. *)
Witnesses(u, s) ==
  /\ ActiveOf(s) = "active" => u \in everActive
  /\ s = "exited" => u \in everEnded
  /\ s = "failed" => u \in everFailed

LiveGrounded ==
  \A u \in Units : /\ Witnesses(u, sub[u])
                   /\ sub[u] = "dead" /\ u \in everActive => u \in everEnded

(* Where the code will take a dead unit for one that ran and stopped: it has *)
(* ended, or was found up by a snapshot newer than the news of its death.    *)
MayStop == everEnded \cup revived

(* A dead unit announced after it was up has ended; one announced before    *)
(* must reach an instance that has not seen it up, or is revived.           *)
UpBefore(k) ==
  \/ ins[queue[k].unit].seenActive
  \/ \E l \in DOMAIN queue : /\ l < k
                             /\ queue[l].unit = queue[k].unit
                             /\ ActiveOf(queue[l].sub) = "active"

AnnouncedRightly(k) ==
  /\ Witnesses(queue[k].unit, queue[k].sub)
  /\ queue[k].sub = "dead" /\ UpBefore(k) => queue[k].unit \in MayStop

NewsGrounded == \A k \in DOMAIN queue : AnnouncedRightly(k)

CachedRightly(u, i) ==
  /\ i.sub = "exited" => u \in everEnded
  /\ i.active = "failed" => u \in everFailed
  /\ i.active = "active" => i.seenActive
  /\ i.seenActive => u \in everActive
  /\ i.active = "inactive" /\ i.sub = "dead" /\ i.seenActive => u \in MayStop

JudgedRightly(u, i) ==
  /\ i.phase \in Succeeded => u \in everActive
  /\ i.phase = "SUCCEEDED_EXITED" => u \in everEnded
  /\ i.phase = "SUCCEEDED_STOPPED" => u \in MayStop
  /\ i.phase \in Failed => u \in everFailed \cup overrun

DeadlineNoted(u, i) == i.deadline = "finite" /\ i.left < 0 => u \in overrun

BeliefGrounded ==
  \A u \in Units : /\ CachedRightly(u, ins[u])
                   /\ JudgedRightly(u, ins[u])
                   /\ DeadlineNoted(u, ins[u])

(* What the manager believes of a unit has happened to it since it was       *)
(* attached, though the news is late, merged, older than the snapshot and    *)
(* dispatched as two messages and three callbacks.  In particular a          *)
(* phase SUCCEEDED_STOPPED ("was_active is latched", phase_of) is that of a  *)
(* unit that has ended, unless an announcement of inactive/dead older than   *)
(* a snapshot that found the unit up was still in flight when the run began: *)
(* of such a unit alone the code may take the stale inactive/dead for a stop *)
(* (TrackerStale shows it does).  This is the inductive invariant behind     *)
(* KeepsPromise.                                                            *)
Grounded ==
  /\ LiveGrounded
  /\ NewsGrounded
  /\ BeliefGrounded
  /\ (pc = "done") = (outcome # "pending")

(* The promise of the program: Supervision, with the units that reached the  *)
(* mode's goal and those that gave cause for failure read off the history.   *)
(* In MONITOR a revived unit may count as ended though it has not; a unit    *)
(* that was failed between its attachment and the run is a cause of failure. *)
Goal == IF Mode = "BASIC" THEN everActive ELSE MayStop
Promise == INSTANCE Supervision WITH
             reached <- Goal,
             troubled <- everFailed \cup refused \cup overrun,
             verdict <- outcome
KeepsPromise == Promise!Spec

(* A run of the supervisor ends: in BASIC because every unit in flight has   *)
(* a deadline, in MONITOR if besides no unit stays up for ever.              *)
RunReturns == <>(pc = "done")
=============================================================================
