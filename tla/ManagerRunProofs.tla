--------------------------- MODULE ManagerRunProofs ---------------------------
(***************************************************************************)
(* Theorems about ManagerRun, for every set of units, dependency relation, *)
(* policy, timeout and mode.                                               *)
(***************************************************************************)
EXTENDS ManagerRun, SequenceTheorems, TLAPS

-----------------------------------------------------------------------------
(* The pure operators stay within their types. *)

LEMMA PhaseOfType ==
  ASSUME NEW active, NEW s, NEW r, NEW seen, NEW policy
  PROVE  PhaseOf(active, s, r, seen, policy) \in Phases
BY DEF PhaseOf, Phases

LEMMA ActiveOfType ==
  ASSUME NEW s \in LiveSubs
  PROVE  /\ ActiveOf(s) \in ActiveStates
         /\ ActiveOf(s) = "active" <=> s \in {"running", "exited"}
         /\ ActiveOf(s) = "failed" <=> s = "failed"
         /\ ActiveOf(s) = "inactive" <=> s = "dead"
BY DEF ActiveOf, LiveSubs, ActiveStates

LEMMA StartSpanNat ==
  ASSUME NEW u \in Units
  PROVE  StartSpan(Policy[u], Burst, IF u \in ReadFails THEN 0 ELSE Timeout[u],
                   Default) \in Nat
<1> DEFINE t == IF u \in ReadFails THEN Default ELSE Timeout[u]
<1>1. t \in Nat
  BY SystemdAssumption, ManagerAssumption
<1>2. StartBudget(Policy[u], Burst) \in Nat
  BY SystemdAssumption DEF StartBudget
<1>3. StartSpan(Policy[u], Burst, IF u \in ReadFails THEN 0 ELSE Timeout[u],
                Default) = StartBudget(Policy[u], Burst) * t
  BY SystemdAssumption, ManagerAssumption DEF StartSpan
<1>4. \A m, n \in Nat : m * n \in Nat
  OBVIOUS
<1> HIDE DEF t
<1> QED BY <1>1, <1>2, <1>3, <1>4

(* What the functions on an instance keep: its type, and the fields they do *)
(* not set.                                                                 *)
SameState(i, j) ==
  /\ j.active = i.active
  /\ j.sub = i.sub
  /\ j.result = i.result
  /\ j.seenActive = i.seenActive
  /\ j.phase = i.phase

KeepsDeadline(i, j) ==
  \/ j.left >= 0
  \/ j.left = i.left /\ j.deadline = i.deadline

LEMMA ArmedType ==
  ASSUME NEW u \in Units, NEW i \in Instances
  PROVE  /\ Armed(u, i) \in Instances
         /\ Armed(u, i).left >= 0
         /\ SameState(i, Armed(u, i))
<1> DEFINE n == StartSpan(Policy[u], Burst, IF u \in ReadFails THEN 0 ELSE Timeout[u],
                Default)
<1>1. n \in Nat
  BY StartSpanNat
<1>2. Armed(u, i) = IF u \in NoTimeout \ ReadFails
                      THEN [i EXCEPT !.deadline = "infinite", !.left = 0]
                      ELSE [i EXCEPT !.deadline = "finite", !.left = n]
  BY DEF Armed
<1> HIDE DEF n
<1>3. ASSUME NEW d \in {"finite", "infinite"}, NEW t \in Nat,
             Armed(u, i) = [i EXCEPT !.deadline = d, !.left = t]
      PROVE  /\ Armed(u, i) \in Instances
             /\ Armed(u, i).left >= 0
             /\ SameState(i, Armed(u, i))
  <2> DEFINE k == [i EXCEPT !.deadline = d]
             j == [k EXCEPT !.left = t]
  <2>1. k \in Instances /\ SameState(i, k)
    BY DEF Instances, SameState
  <2>2. Armed(u, i) = j
    BY <1>3
  <2> HIDE DEF k
  <2>3. j \in Instances /\ j.left = t /\ SameState(k, j)
    BY <2>1 DEF Instances, SameState
  <2> HIDE DEF j
  <2> QED BY <2>1, <2>2, <2>3 DEF SameState
<1> QED BY <1>1, <1>2, <1>3

LEMMA AnchoredType ==
  ASSUME NEW u \in Units, NEW i \in Instances
  PROVE  /\ Anchored(u, i) \in Instances
         /\ KeepsDeadline(i, Anchored(u, i))
         /\ SameState(i, Anchored(u, i))
BY ArmedType DEF Anchored, Instances, SameState, KeepsDeadline

LEMMA OnUnitStateChangedType ==
  ASSUME NEW u \in Units, NEW i \in Instances
  PROVE  LET j == OnUnitStateChanged(u, i) IN
         /\ j \in Instances
         /\ KeepsDeadline(i, j)
         /\ j.active = i.active /\ j.sub = i.sub /\ j.result = i.result
         /\ j.seenActive = (i.seenActive \/ i.active = "active")
         /\ j.phase = PhaseOf(j.active, j.sub, j.result, j.seenActive, Policy[u])
<1> DEFINE a == Anchored(u, i)
           l == [a EXCEPT !.seenActive = @ \/ i.active = "active"]
           p == PhaseOf(l.active, l.sub, l.result, l.seenActive, Policy[u])
<1>1. a \in Instances /\ SameState(i, a)
      /\ KeepsDeadline(i, a)
  BY AnchoredType
<1>2. OnUnitStateChanged(u, i) = [l EXCEPT !.phase = p]
  BY DEF OnUnitStateChanged, Rederived
<1>3. p \in Phases
  BY PhaseOfType
<1> HIDE DEF a
<1>4. /\ l \in Instances
      /\ l.seenActive = (i.seenActive \/ i.active = "active")
      /\ l.active = i.active /\ l.sub = i.sub /\ l.result = i.result
      /\ l.left = a.left /\ l.deadline = a.deadline
  BY <1>1 DEF Instances, SameState
<1> HIDE DEF l, p
<1>5. [l EXCEPT !.phase = p].phase = p
  BY <1>4 DEF Instances
<1>6. p = PhaseOf(l.active, l.sub, l.result, l.seenActive, Policy[u])
  BY DEF p
<1>7. [l EXCEPT !.phase = p] \in Instances
  BY <1>3, <1>4 DEF Instances
<1> QED BY <1>1, <1>2, <1>4, <1>5, <1>6, <1>7 DEF Instances, KeepsDeadline

(* What a snapshot may read, and what an instance holds that has read it *)
LEMMA EarlyType ==
  ASSUME NEW u \in Units, NEW m \in Early(u)
  PROVE  m \in Announcements /\ m.unit = u
BY ManagerAssumption DEF Early, Announcements

LEMMA ReadingsType ==
  ASSUME NEW u \in Units, NEW r \in Readings(u)
  PROVE  r.active \in ActiveStates /\ r.sub \in LiveSubs /\ r.result \in LiveResults
<1>1. PICK m \in Early(u), n \in Early(u), o \in Early(u) : r = ReadOf(m, n, o)
  BY DEF Readings
<1>2. m.sub \in LiveSubs /\ n.sub \in LiveSubs /\ o.result \in LiveResults
  BY EarlyType DEF Announcements
<1> QED BY <1>1, <1>2, ActiveOfType DEF ReadOf

LEMMA AttachedType ==
  ASSUME NEW u \in Units, NEW r \in Readings(u)
  PROVE  LET j == Attached(u, r) IN
         /\ j \in Instances
         /\ j.left >= 0
         /\ j.active = r.active /\ j.sub = r.sub
         /\ j.seenActive = (r.active = "active")
         /\ j.phase = PhaseOf(j.active, j.sub, j.result, j.seenActive, Policy[u])
<1> DEFINE i == [active |-> r.active, sub |-> r.sub, result |-> r.result,
                 seenActive |-> FALSE, activated |-> FALSE,
                 deadline |-> "none", left |-> 0, phase |-> "INTERMEDIATE"]
<1>1. /\ r.active \in ActiveStates
      /\ r.sub \in SubStates
      /\ r.result \in Results
      /\ "INTERMEDIATE" \in Phases
  BY ReadingsType DEF LiveSubs, LiveResults, SubStates, Results, Phases
<1>2. Attached(u, r) = OnUnitStateChanged(u, i)
  BY DEF Attached
<1>3. i \in Instances
  BY <1>1 DEF Instances
<1>4. /\ i.active = r.active /\ i.sub = r.sub
      /\ i.seenActive = FALSE /\ i.left = 0
  OBVIOUS
<1> HIDE DEF i
<1> QED BY <1>2, <1>3, <1>4, OnUnitStateChangedType DEF KeepsDeadline

LEMMA OnServiceChangedType ==
  ASSUME NEW u \in Units, NEW i \in Instances, NEW m \in Announcements
  PROVE  LET j == OnServiceChanged(u, i, m) IN
         /\ j \in Instances
         /\ KeepsDeadline(i, j)
         /\ j.active = i.active /\ j.sub = i.sub
         /\ j.seenActive = (i.seenActive \/ i.active = "active")
         /\ j.phase = PhaseOf(j.active, j.sub, j.result, j.seenActive, Policy[u])
<1> DEFINE h == [i EXCEPT !.result = m.result]
<1>1. /\ h \in Instances
      /\ h.active = i.active /\ h.sub = i.sub /\ h.seenActive = i.seenActive
      /\ h.left = i.left /\ h.deadline = i.deadline
  BY DEF Announcements, LiveResults, Results, Instances
<1>2. OnServiceChanged(u, i, m) = OnUnitStateChanged(u, h)
  BY DEF OnServiceChanged
<1> HIDE DEF h
<1> QED BY <1>1, <1>2, OnUnitStateChangedType DEF KeepsDeadline

LEMMA OnUnitChangedType ==
  ASSUME NEW u \in Units, NEW i \in Instances, NEW m \in Announcements
  PROVE  LET j == OnUnitChanged(u, i, m) IN
         /\ j \in Instances
         /\ KeepsDeadline(i, j)
         /\ j.active = ActiveOf(m.sub) /\ j.sub = m.sub
         /\ j.seenActive = (i.seenActive \/ ActiveOf(m.sub) = "active")
         /\ j.phase = PhaseOf(j.active, j.sub, j.result, j.seenActive, Policy[u])
<1> DEFINE i1 == [i EXCEPT !.active = ActiveOf(m.sub)]
           j1 == OnUnitStateChanged(u, i1)
           i2 == [j1 EXCEPT !.sub = m.sub]
           j2 == OnUnitStateChanged(u, i2)
<1>1. /\ m.sub \in SubStates
      /\ ActiveOf(m.sub) \in ActiveStates
  BY ActiveOfType DEF Announcements, LiveSubs, SubStates
<1>2. /\ i1 \in Instances
      /\ i1.active = ActiveOf(m.sub) /\ i1.seenActive = i.seenActive
      /\ i1.left = i.left /\ i1.deadline = i.deadline
  BY <1>1 DEF Instances
<1>3. OnUnitChanged(u, i, m) = j2
  BY DEF OnUnitChanged
<1> HIDE DEF i1
<1>4. /\ j1 \in Instances
      /\ KeepsDeadline(i, j1)
      /\ j1.active = ActiveOf(m.sub)
      /\ j1.seenActive = (i.seenActive \/ ActiveOf(m.sub) = "active")
  BY <1>2, OnUnitStateChangedType DEF KeepsDeadline
<1> HIDE DEF j1
<1>5. /\ i2 \in Instances
      /\ i2.active = ActiveOf(m.sub) /\ i2.sub = m.sub
      /\ i2.seenActive = j1.seenActive
      /\ i2.left = j1.left /\ i2.deadline = j1.deadline
  BY <1>1, <1>4 DEF Instances
<1> HIDE DEF i2
<1>6. /\ j2 \in Instances
      /\ KeepsDeadline(j1, j2)
      /\ j2.active = ActiveOf(m.sub) /\ j2.sub = m.sub
      /\ j2.seenActive = (j1.seenActive \/ ActiveOf(m.sub) = "active")
      /\ j2.phase = PhaseOf(j2.active, j2.sub, j2.result, j2.seenActive,
                            Policy[u])
  BY <1>5, OnUnitStateChangedType DEF KeepsDeadline
<1> HIDE DEF j2
<1> QED BY <1>3, <1>4, <1>6 DEF KeepsDeadline

LEMMA ProvisionalType ==
  ASSUME NEW u \in Units, NEW i \in Instances
  PROVE  /\ Provisional(u, i) \in Instances
         /\ KeepsDeadline(i, Provisional(u, i))
         /\ SameState(i, Provisional(u, i))
BY ArmedType DEF Provisional, KeepsDeadline, SameState

LEMMA RederivedType ==
  ASSUME NEW u \in Units, NEW i \in Instances
  PROVE  LET j == Rederived(u, i) IN
         /\ j \in Instances
         /\ j.left = i.left /\ j.deadline = i.deadline
         /\ j.active = i.active /\ j.sub = i.sub
         /\ j.seenActive = i.seenActive
         /\ j.phase = PhaseOf(j.active, j.sub, j.result, j.seenActive, Policy[u])
<1> DEFINE p == PhaseOf(i.active, i.sub, i.result, i.seenActive, Policy[u])
<1>1. p \in Phases
  BY PhaseOfType
<1>2. Rederived(u, i) = [i EXCEPT !.phase = p]
  BY DEF Rederived
<1>3. p = PhaseOf(i.active, i.sub, i.result, i.seenActive, Policy[u])
  OBVIOUS
<1> HIDE DEF p
<1> QED BY <1>1, <1>2, <1>3 DEF Instances

LEMMA ReassessedType ==
  ASSUME NEW i \in Instances
  PROVE  LET j == Reassessed(i) IN
         /\ j \in Instances
         /\ j.left = i.left /\ j.deadline = i.deadline
         /\ j.active = i.active /\ j.sub = i.sub
         /\ j.seenActive = i.seenActive
         /\ \/ j.phase = i.phase
            \/ j.phase = "FAILED_ABORT" /\ i.deadline = "finite" /\ i.left < 0
<1>1. CASE Expired(i)
  <2>1. Reassessed(i) = [i EXCEPT !.phase = "FAILED_ABORT"]
    BY <1>1 DEF Reassessed
  <2> QED BY <1>1, <2>1 DEF Instances, Phases, Expired
<1>2. CASE ~Expired(i)
  BY <1>2 DEF Reassessed
<1> QED BY <1>1, <1>2

-----------------------------------------------------------------------------
(* What a step of systemd does, whichever it is: it keeps the types, never  *)
(* takes history back, keeps live states grounded, and touches the queue    *)
(* only by appending a unit's live state.                                   *)
HistoryGrows ==
  /\ everActive \subseteq everActive'
  /\ everEnded \subseteq everEnded'
  /\ everFailed \subseteq everFailed'

LEMMA MovesFacts ==
  ASSUME SystemdTypeOK, NEW u \in Units, NEW s \in LiveSubs,
         NEW r \in LiveResults, Moves(u, s, r)
  PROVE  /\ sub' \in [Units -> LiveSubs]
         /\ result' \in [Units -> LiveResults]
         /\ dirty' \subseteq Units
         /\ queue' = queue
         /\ everActive' \subseteq Units
         /\ everEnded' \subseteq Units
         /\ everFailed' \subseteq Units
         /\ HistoryGrows
         /\ LiveGrounded => LiveGrounded'
<1>1. /\ sub' \in [Units -> LiveSubs]
      /\ result' \in [Units -> LiveResults]
      /\ dirty' \subseteq Units
      /\ queue' = queue
      /\ everActive' \subseteq Units
      /\ everEnded' \subseteq Units
      /\ everFailed' \subseteq Units
  BY DEF Moves, SystemdTypeOK
<1>2. HistoryGrows
  BY DEF Moves, HistoryGrows
<1>3. ASSUME LiveGrounded, NEW v \in Units
      PROVE  /\ Witnesses(v, sub[v])'
             /\ sub'[v] = "dead" /\ v \in everActive' => v \in everEnded'
  <2>1. CASE v = u
    <3>1. sub'[v] = s
      BY <2>1 DEF Moves, SystemdTypeOK
    <3>2. ActiveOf(s) = "active" => v \in everActive'
      BY <2>1 DEF Moves
    <3>3. s = "exited" => v \in everEnded'
      BY <2>1 DEF Moves
    <3>4. s = "failed" => v \in everFailed'
      BY <2>1 DEF Moves
    <3>5. s = "dead" /\ v \in everActive' => v \in everEnded'
      BY <2>1, ActiveOfType DEF Moves
    <3> QED BY <3>1, <3>2, <3>3, <3>4, <3>5 DEF Witnesses
  <2>2. CASE v # u
    <3>1. sub'[v] = sub[v]
      BY <2>2 DEF Moves, SystemdTypeOK
    <3>2. v \in everActive' <=> v \in everActive
      BY <2>2 DEF Moves
    <3> QED BY <1>2, <1>3, <3>1, <3>2
            DEF LiveGrounded, Witnesses, HistoryGrows
  <2> QED BY <2>1, <2>2
<1> QED BY <1>1, <1>2, <1>3 DEF LiveGrounded

LEMMA LivesFacts ==
  ASSUME SystemdTypeOK, NEW u \in Units, Lives(u)
  PROVE  /\ SystemdTypeOK'
         /\ HistoryGrows
         /\ LiveGrounded => LiveGrounded'
         /\ \/ queue' = queue
            \/ /\ queue' = Append(queue, [unit |-> u, sub |-> sub[u],
                                          result |-> result[u]])
               /\ UNCHANGED <<sub, historyVars>>
<1> DEFINE Fact == /\ SystemdTypeOK'
                   /\ HistoryGrows
                   /\ LiveGrounded => LiveGrounded'
                   /\ queue' = queue
<1>1. ASSUME NEW s \in LiveSubs, NEW r \in LiveResults, Moves(u, s, r),
             job' \subseteq Units, attempts' \in [Units -> Nat],
             age' \in [Units -> Nat]
      PROVE  Fact
  BY <1>1, MovesFacts DEF SystemdTypeOK
<1>2. ASSUME Starts(u), job' \subseteq Units
      PROVE  Fact
  <2>1. /\ Moves(u, "start", "success")
        /\ attempts' \in [Units -> Nat]
        /\ age' \in [Units -> Nat]
    BY <1>2 DEF Starts, SystemdTypeOK
  <2> QED BY <1>1, <1>2, <2>1 DEF LiveSubs, LiveResults
<1>3. ASSUME NEW s \in LiveSubs, NEW r \in LiveResults, Moves(u, s, r),
             job' \subseteq job, UNCHANGED <<attempts, age>>
      PROVE  Fact
  BY <1>1, <1>3 DEF SystemdTypeOK
<1> HIDE DEF Fact
<1>4. CASE RunJob(u)
  BY <1>2, <1>4 DEF RunJob, SystemdTypeOK, Fact
<1>5. CASE StartSucceeds(u)
  <2>1. PICK s \in LiveSubs : Moves(u, s, "success")
    BY <1>5 DEF StartSucceeds, LiveSubs
  <2> QED BY <1>3, <1>5, <2>1 DEF StartSucceeds, LiveResults, Fact
<1>6. CASE StartFails(u)
  BY <1>3, <1>6 DEF StartFails, LiveSubs, LiveResults, Fact
<1>7. CASE Ends(u)
  <2>1. PICK r \in LiveResults : Moves(u, "stop-sigterm", r)
    BY <1>7 DEF Ends, LiveResults
  <2> QED BY <1>3, <1>7, <2>1 DEF Ends, LiveSubs, Fact
<1>8. CASE Stops(u)
  <2>1. PICK s \in LiveSubs : Moves(u, s, result[u])
    BY <1>8 DEF Stops, LiveSubs
  <2>2. result[u] \in LiveResults
    BY DEF SystemdTypeOK
  <2> QED BY <1>3, <1>8, <2>1, <2>2 DEF Stops, Fact
<1>9. CASE SchedulesRestart(u)
  <2>1. /\ Moves(u, "auto-restart", "exit-code")
        /\ job' \subseteq Units
        /\ attempts' \in [Units -> Nat]
        /\ age' \in [Units -> Nat]
    BY <1>9 DEF SchedulesRestart, SystemdTypeOK
  <2> QED BY <1>1, <2>1 DEF LiveSubs, LiveResults, Fact
<1>10. CASE Restarts(u)
  <2>1. CASE Starts(u) /\ job' = job \cup {u}
    BY <1>2, <2>1 DEF SystemdTypeOK, Fact
  <2>2. CASE /\ Moves(u, "failed", "start-limit-hit")
             /\ job' = job \ {u}
             /\ UNCHANGED <<attempts, age>>
    BY <1>3, <2>2 DEF LiveSubs, LiveResults, Fact
  <2> QED BY <1>10, <2>1, <2>2 DEF Restarts
<1>11. CASE Emits(u)
  <2> DEFINE m == [unit |-> u, sub |-> sub[u], result |-> result[u]]
  <2>1. m \in Announcements
    BY DEF Announcements, SystemdTypeOK
  <2>2. queue' = Append(queue, m) /\ dirty' = dirty \ {u}
    BY <1>11 DEF Emits
  <2> HIDE DEF m
  <2>3. queue' \in Seq(Announcements)
    BY <2>1, <2>2 DEF SystemdTypeOK
  <2>4. UNCHANGED <<unitVars, historyVars>>
    BY <1>11 DEF Emits
  <2>5. SystemdTypeOK'
    BY <2>2, <2>3, <2>4 DEF SystemdTypeOK, unitVars, historyVars
  <2>6. HistoryGrows /\ (LiveGrounded => LiveGrounded')
    BY <2>4 DEF HistoryGrows, LiveGrounded, Witnesses, unitVars, historyVars
  <2> QED BY <2>2, <2>4, <2>5, <2>6 DEF m, unitVars
<1> QED BY <1>4, <1>5, <1>6, <1>7, <1>8, <1>9, <1>10, <1>11 DEF Lives, Fact

-----------------------------------------------------------------------------
(* Type correctness: every variable of a run keeps its type; in particular a *)
(* phase is always an enumerator of unit_phase and a deadline one of the     *)
(* three kinds wait_loop_blocking_duration_us tells apart.                   *)
LEMMA InitType == Init => TypeOK
<1> SUFFICES ASSUME Init PROVE TypeOK
  OBVIOUS
<1>1. PICK live \in [Units -> EarlyNews],
           read \in [Units -> UNION {Readings(u) : u \in Units}],
           older \in [Units -> 0..Len(queue)] :
        /\ \A u \in Units : live[u] \in Early(u) /\ read[u] \in Readings(u)
        /\ Remembered(live, read, older)
        /\ ins = [u \in Units |-> Attached(u, read[u])]
        /\ sub = [u \in Units |-> live[u].sub]
        /\ result = [u \in Units |-> live[u].result]
        /\ job = {u \in Units : live[u].sub = "start"}
        /\ attempts = [u \in Units |-> IF live[u].sub = "start" THEN 1 ELSE 0]
  BY DEF Init
<1>2. sub \in [Units -> LiveSubs] /\ result \in [Units -> LiveResults]
  BY <1>1, EarlyType DEF Announcements
<1>3. queue \in Seq(Announcements)
  <2>1. PICK n \in 0..BusCapacity : queue \in [1..n -> EarlyNews]
    BY DEF Init
  <2>2. n \in Nat
    BY SystemdAssumption
  <2>3. EarlyNews \subseteq Announcements
    BY EarlyType DEF EarlyNews
  <2>4. queue \in [1..n -> Announcements]
    BY <2>1, <2>3
  <2> QED BY <2>2, <2>4 DEF Seq
<1>4. /\ everActive \subseteq Units /\ everEnded \subseteq Units
      /\ everFailed \subseteq Units /\ revived \subseteq Units
      /\ triedBefore \subseteq Units
  BY <1>1 DEF Remembered
<1>5. /\ job \subseteq Units
      /\ attempts \in [Units -> Nat]
      /\ age \in [Units -> Nat]
      /\ dirty \subseteq Units
  BY <1>1 DEF Init
<1>6. ins \in [Units -> Instances]
  BY <1>1, AttachedType
<1>7. SystemdTypeOK
  BY <1>2, <1>3, <1>4, <1>5 DEF SystemdTypeOK
<1> QED BY <1>4, <1>6, <1>7 DEF Init, TypeOK

LEMMA NextType == TypeOK /\ [Next]_vars => TypeOK'
<1> SUFFICES ASSUME TypeOK, [Next]_vars PROVE TypeOK'
  OBVIOUS
<1> USE DEF TypeOK
<1>1. ASSUME NEW u \in Units, StartUnit(u)
      PROVE  TypeOK'
  <2>1. SystemdTypeOK'
    BY <1>1, SystemdAssumption
    DEF StartUnit, QueuesJobs, SystemdTypeOK, historyVars
  <2>2. ins' \in [Units -> Instances]
    <3>1. Provisional(u, ins[u]) \in Instances
      BY ProvisionalType
    <3> QED BY <1>1, <3>1 DEF StartUnit
  <2> QED BY <1>1, <2>1, <2>2 DEF StartUnit, earlyVars
<1>2. CASE EntersLoop
  <2>1. ins' \in [Units -> Instances]
    BY <1>2, RederivedType DEF EntersLoop
  <2> QED BY <1>2, <2>1
          DEF EntersLoop, SystemdTypeOK, systemdVars, unitVars, historyVars,
              earlyVars
<1>3. CASE Check
  <2>1. ins' \in [Units -> Instances]
    BY <1>3, ReassessedType DEF Check
  <2>2. /\ pc' \in {"start", "check", "drain", "done"}
        /\ outcome' \in {"pending", "success", "failure"}
    BY <1>3 DEF Check
  <2> QED BY <1>3, <2>1, <2>2
          DEF Check, SystemdTypeOK, systemdVars, unitVars, historyVars,
              earlyVars
<1>4. CASE Dispatch
  <2>1. Head(queue) \in Announcements /\ Tail(queue) \in Seq(Announcements)
    BY <1>4 DEF Dispatch, SystemdTypeOK
  <2>2. SystemdTypeOK'
    BY <1>4, <2>1 DEF Dispatch, DispatchService, DispatchUnit, SystemdTypeOK,
                      unitVars, historyVars
  <2>3. ins' \in [Units -> Instances]
    <3> DEFINE m == Head(queue)
    <3>1. m \in Announcements /\ m.unit \in Units
      BY <2>1 DEF Announcements
    <3>2. PICK j : /\ ins' = [ins EXCEPT ![m.unit] = j]
                   /\ \/ j = OnServiceChanged(m.unit, ins[m.unit], m)
                      \/ j = OnUnitChanged(m.unit, ins[m.unit], m)
      BY <1>4 DEF Dispatch, DispatchService, DispatchUnit
    <3> HIDE DEF m
    <3>3. j \in Instances
      BY <3>1, <3>2, OnServiceChangedType, OnUnitChangedType
    <3> QED BY <3>2, <3>3
  <2>4. halfway' \in BOOLEAN
    BY <1>4 DEF Dispatch, DispatchService, DispatchUnit
  <2> QED BY <1>4, <2>2, <2>3, <2>4 DEF Dispatch, earlyVars
<1>5. CASE DrainEnds
  BY <1>5 DEF DrainEnds, SystemdTypeOK, systemdVars, unitVars, historyVars,
              earlyVars
<1>6. CASE Tick
  <2>1. age' \in [Units -> Nat]
    BY <1>6 DEF Tick, Ages, SystemdTypeOK
  <2>2. ins' \in [Units -> Instances]
    <3>1. ASSUME NEW u \in Units
          PROVE  [ins[u] EXCEPT !.left = @ - 1] \in Instances
      BY DEF Instances
    <3> QED BY <1>6, <3>1 DEF Tick
  <2> QED BY <1>6, <2>1, <2>2
          DEF Tick, SystemdTypeOK, historyVars, earlyVars
<1>7. ASSUME NEW u \in Units, SystemdStep(u)
      PROVE  TypeOK'
  BY <1>7, LivesFacts DEF SystemdStep, managerVars, earlyVars
<1>8. CASE UNCHANGED vars
  BY <1>8 DEF vars, managerVars, SystemdTypeOK, systemdVars, unitVars,
              historyVars, earlyVars
<1> QED BY <1>1, <1>2, <1>3, <1>4, <1>5, <1>6, <1>7, <1>8
        DEF Next, ManagerStep, Returned

THEOREM TypeCorrect == Spec => []TypeOK
<1> QED BY InitType, NextType, PTL DEF Spec

-----------------------------------------------------------------------------
(* Groundedness: the inductive invariant behind the promise. *)

(* phase_of judges rightly what is cached rightly. *)
LEMMA PhaseOfJudgesRightly ==
  ASSUME NEW u \in Units, NEW i,
         CachedRightly(u, i),
         i.phase = PhaseOf(i.active, i.sub, i.result, i.seenActive, Policy[u])
  PROVE  JudgedRightly(u, i)
<1>1. /\ i.phase = "SUCCEEDED_RUNNING" => i.active = "active"
      /\ i.phase = "SUCCEEDED_EXITED" => i.active = "active" /\ i.sub = "exited"
      /\ i.phase = "SUCCEEDED_STOPPED"
           => i.active = "inactive" /\ i.sub = "dead" /\ i.seenActive
      /\ i.phase \in Failed => i.active = "failed"
  BY DEF PhaseOf, Failed
<1> QED BY <1>1 DEF CachedRightly, JudgedRightly, Succeeded

LEMMA QueueHoldsAnnouncements ==
  ASSUME SystemdTypeOK, NEW k \in DOMAIN queue
  PROVE  /\ queue[k] \in Announcements
         /\ queue[k].unit \in Units
         /\ k \in UnitNews(queue[k].unit)
<1>1. queue \in Seq(Announcements) /\ k \in 1..Len(queue)
  BY DEF SystemdTypeOK
<1>2. queue[k] \in Announcements
  BY <1>1, ElementOfSeq
<1> QED BY <1>2 DEF Announcements, UnitNews

(* A unit announced dead after it was up has ended, unless its snapshot     *)
(* found it up later than that.                                            *)
LEMMA InitGrounded == Init => Grounded
<1> SUFFICES ASSUME Init PROVE Grounded
  OBVIOUS
<1>1. PICK live \in [Units -> EarlyNews],
           read \in [Units -> UNION {Readings(u) : u \in Units}],
           older \in [Units -> 0..Len(queue)] :
        /\ \A u \in Units : live[u] \in Early(u) /\ read[u] \in Readings(u)
        /\ Remembered(live, read, older)
        /\ ins = [u \in Units |-> Attached(u, read[u])]
        /\ sub = [u \in Units |-> live[u].sub]
  BY DEF Init
<1>2. TypeOK
  BY InitType
<1>3. ASSUME NEW u \in Units, NEW s \in Told(u, live[u], read[u])
      PROVE  Witnesses(u, s)
  BY <1>1, <1>3 DEF Remembered, Witnesses
<1>4. LiveGrounded
  <2>1. ASSUME NEW u \in Units
        PROVE  /\ Witnesses(u, sub[u])
               /\ sub[u] = "dead" /\ u \in everActive => u \in everEnded
    <3>1. sub[u] = live[u].sub
      BY <1>1
    <3>2. Witnesses(u, sub[u])
      BY <1>3, <3>1 DEF Told
    <3>3. live[u].sub = "dead" /\ u \in everActive => u \in everEnded
      BY <1>1 DEF Remembered
    <3> QED BY <3>1, <3>2, <3>3
  <2> QED BY <2>1 DEF LiveGrounded
<1>5. ASSUME NEW u \in Units
      PROVE  LET i == ins[u] IN
             /\ i \in Instances
             /\ i.left >= 0
             /\ i.active = read[u].active /\ i.sub = read[u].sub
             /\ i.seenActive = (read[u].active = "active")
             /\ i.phase = PhaseOf(i.active, i.sub, i.result, i.seenActive,
                                  Policy[u])
  BY <1>1, AttachedType
<1>6. ASSUME NEW k \in DOMAIN queue
      PROVE  AnnouncedRightly(k)
  <2>1. PICK u \in Units : u = queue[k].unit /\ k \in UnitNews(u)
    BY <1>2, QueueHoldsAnnouncements DEF TypeOK
  <2>2. queue[k].sub \in Told(u, live[u], read[u])
    BY <2>1 DEF Told
  <2>3. ASSUME queue[k].sub = "dead", UpBefore(k)
        PROVE  u \in MayStop
    <3>1. CASE read[u].active = "active"
      <4>1. older[u] \in Nat /\ k \in Nat
        <5>1. queue \in Seq(Announcements)
          BY <1>2 DEF TypeOK, SystemdTypeOK
        <5>2. Len(queue) \in Nat /\ DOMAIN queue = 1..Len(queue)
          BY <5>1
        <5> QED BY <1>1, <5>2
      <4>2. k <= older[u] => u \in revived
        BY <1>1, <2>1, <2>3, <3>1 DEF Remembered
      <4>3. k > older[u] => u \in everEnded
        BY <1>1, <2>1, <2>3, <3>1 DEF Remembered
      <4> QED BY <4>1, <4>2, <4>3 DEF MayStop
    <3>2. ASSUME NEW l \in DOMAIN queue, l < k, queue[l].unit = u,
                 ActiveOf(queue[l].sub) = "active"
          PROVE  u \in MayStop
      <4>1. l \in UnitNews(u)
        BY <3>2 DEF UnitNews
      <4>2. u \in everEnded
        BY <1>1, <2>1, <2>3, <3>2, <4>1 DEF Remembered
      <4> QED BY <4>2 DEF MayStop
    <3> QED BY <1>5, <2>1, <2>3, <3>1, <3>2 DEF UpBefore
  <2> QED BY <1>3, <2>1, <2>2, <2>3 DEF AnnouncedRightly
<1>7. ASSUME NEW u \in Units
      PROVE  /\ CachedRightly(u, ins[u])
             /\ JudgedRightly(u, ins[u])
             /\ DeadlineNoted(u, ins[u])
  <2>1. PICK i \in Instances : i = ins[u]
    BY <1>5
  <2>2. /\ i.left >= 0
        /\ i.active = read[u].active /\ i.sub = read[u].sub
        /\ i.seenActive = (read[u].active = "active")
        /\ i.phase = PhaseOf(i.active, i.sub, i.result, i.seenActive, Policy[u])
    BY <1>5, <2>1
  <2>3. /\ read[u].sub = "exited" => u \in everEnded
        /\ read[u].active = "failed" => u \in everFailed
        /\ read[u].active = "active" => u \in everActive
    BY <1>1 DEF Remembered, Told
  <2>4. CachedRightly(u, i)
    BY <2>2, <2>3 DEF CachedRightly
  <2>5. JudgedRightly(u, i)
    BY <2>2, <2>4, PhaseOfJudgesRightly
  <2>6. DeadlineNoted(u, i)
    BY <2>2 DEF DeadlineNoted, Instances
  <2> QED BY <2>1, <2>4, <2>5, <2>6
<1> QED BY <1>4, <1>6, <1>7 DEF Grounded, NewsGrounded, BeliefGrounded, Init

(* Beliefs stay right while history grows. *)
LEMMA HistoryKeepsBeliefs ==
  ASSUME HistoryGrows, overrun \subseteq overrun', revived' = revived,
         NEW u, NEW i
  PROVE  /\ CachedRightly(u, i) => CachedRightly(u, i)'
         /\ JudgedRightly(u, i) => JudgedRightly(u, i)'
         /\ DeadlineNoted(u, i) => DeadlineNoted(u, i)'
BY DEF HistoryGrows, CachedRightly, JudgedRightly, DeadlineNoted, MayStop

LEMMA QueueIndices ==
  ASSUME TypeOK, TypeOK'
  PROVE  DOMAIN queue \subseteq Nat /\ DOMAIN queue' \subseteq Nat
BY DEF TypeOK, SystemdTypeOK

(* The steps of the manager alone that dispatch nothing: systemd and the     *)
(* history are untouched, and no unit's cached state changes.                *)
LEMMA QuietStepGrounded ==
  ASSUME TypeOK, LiveGrounded, NewsGrounded, BeliefGrounded,
         UNCHANGED <<sub, queue, historyVars, overrun, revived>>,
         ins' \in [Units -> Instances],
         \A u \in Units : /\ ins'[u].active = ins[u].active
                          /\ ins'[u].sub = ins[u].sub
                          /\ ins'[u].seenActive = ins[u].seenActive
                          /\ KeepsDeadline(ins[u], ins'[u])
                          /\ JudgedRightly(u, ins'[u])
  PROVE  LiveGrounded' /\ NewsGrounded' /\ BeliefGrounded'
<1>1. LiveGrounded'
  BY DEF LiveGrounded, Witnesses, historyVars
<1>2. \A k \in DOMAIN queue : queue[k].unit \in Units
  BY QueueHoldsAnnouncements DEF TypeOK
<1>3. NewsGrounded'
  BY <1>2 DEF NewsGrounded, AnnouncedRightly, UpBefore, Witnesses, MayStop,
              historyVars
<1>4. ASSUME NEW u \in Units
      PROVE  /\ CachedRightly(u, ins'[u])
             /\ JudgedRightly(u, ins'[u])
             /\ DeadlineNoted(u, ins'[u])
  <2>1. ins[u] \in Instances /\ ins'[u] \in Instances
    BY DEF TypeOK
  <2>2. CachedRightly(u, ins[u]) /\ DeadlineNoted(u, ins[u])
    BY DEF BeliefGrounded
  <2> DEFINE i == ins[u]
             j == ins'[u]
  <2>3. /\ i \in Instances /\ j \in Instances
        /\ CachedRightly(u, i) /\ DeadlineNoted(u, i)
        /\ j.active = i.active /\ j.sub = i.sub
        /\ j.seenActive = i.seenActive
        /\ KeepsDeadline(i, j)
        /\ JudgedRightly(u, j)
    BY <2>1, <2>2
  <2> HIDE DEF i, j
  <2>4. CachedRightly(u, j) /\ DeadlineNoted(u, j)
    BY <2>3 DEF CachedRightly, DeadlineNoted, KeepsDeadline, Instances
  <2> QED BY <2>3, <2>4 DEF j
<1>5. BeliefGrounded'
  BY <1>4 DEF BeliefGrounded, CachedRightly, JudgedRightly, DeadlineNoted,
              MayStop, historyVars
<1> QED BY <1>1, <1>3, <1>5

(* A step of systemd: what is announced is a live state, so it is grounded,  *)
(* and a dead unit that was up before the announcement has ended.            *)
LEMMA SystemdStepGrounded ==
  ASSUME TypeOK, TypeOK', LiveGrounded, NewsGrounded, BeliefGrounded,
         NEW u \in Units, SystemdStep(u)
  PROVE  LiveGrounded' /\ NewsGrounded' /\ BeliefGrounded'
<1>1. /\ HistoryGrows
      /\ LiveGrounded'
      /\ \/ queue' = queue
         \/ /\ queue' = Append(queue, [unit |-> u, sub |-> sub[u],
                                       result |-> result[u]])
            /\ UNCHANGED <<sub, historyVars>>
  BY LivesFacts DEF SystemdStep, TypeOK
<1>2. ins' = ins /\ overrun' = overrun /\ revived' = revived
  BY DEF SystemdStep, managerVars, earlyVars
<1>3. BeliefGrounded'
  BY <1>1, <1>2, HistoryKeepsBeliefs DEF BeliefGrounded
<1>4. ASSUME queue' = queue
      PROVE  NewsGrounded'
  BY <1>1, <1>2, <1>4
     DEF NewsGrounded, AnnouncedRightly, UpBefore, Witnesses, MayStop,
         HistoryGrows
<1>5. ASSUME queue' = Append(queue, [unit |-> u, sub |-> sub[u],
                                     result |-> result[u]]),
             UNCHANGED <<sub, historyVars>>
      PROVE  NewsGrounded'
  <2>1. PICK m : /\ m.unit = u /\ m.sub = sub[u]
                 /\ queue' = Append(queue, m)
    BY <1>5
  <2>2. PICK n \in Nat : n = Len(queue) + 1
    BY DEF TypeOK, SystemdTypeOK
  <2>3. UNCHANGED <<sub, everActive, everEnded, everFailed>>
    BY <1>5 DEF historyVars
  <2>4. /\ \A k \in DOMAIN queue : k < n /\ queue'[k] = queue[k]
        /\ \A k \in DOMAIN queue' : k \in DOMAIN queue \/ k = n
        /\ \A k \in DOMAIN queue' : k < n => k \in DOMAIN queue
        /\ queue'[n] = m
    <3>1. queue \in Seq(Announcements)
      BY DEF TypeOK, SystemdTypeOK
    <3>2. /\ DOMAIN queue = 1..Len(queue)
          /\ DOMAIN queue' = 1..(Len(queue) + 1)
          /\ Len(queue) \in Nat
          /\ \A k \in 1..Len(queue) : queue'[k] = queue[k]
          /\ queue'[Len(queue) + 1] = m
      BY <2>1, <3>1, AppendProperties
    <3> QED BY <2>2, <3>2
  <2>5. ASSUME NEW k \in DOMAIN queue
        PROVE  AnnouncedRightly(k)'
    <3>1. UpBefore(k)' => UpBefore(k)
      <4>1. queue'[k] = queue[k] /\ k < n
        BY <2>4
      <4>2. \A l \in DOMAIN queue' : l < k => l \in DOMAIN queue
        BY <2>4, <4>1, QueueIndices
      <4> QED BY <1>2, <2>4, <4>1, <4>2 DEF UpBefore
    <3>2. AnnouncedRightly(k)
      BY DEF NewsGrounded
    <3> QED BY <1>2, <2>3, <2>4, <3>1, <3>2
            DEF AnnouncedRightly, Witnesses, MayStop
  <2>6. Witnesses(u, sub[u]) /\ (sub[u] = "dead" /\ u \in everActive
                                   => u \in everEnded)
    BY DEF LiveGrounded
  <2>7. UpBefore(n)' => u \in everActive
    <3>1. ins[u].seenActive => u \in everActive
      BY DEF BeliefGrounded, CachedRightly
    <3>2. \A l \in DOMAIN queue :
             ActiveOf(queue[l].sub) = "active" => queue[l].unit \in everActive
      BY DEF NewsGrounded, AnnouncedRightly, Witnesses
    <3>3. UpBefore(n)'
            => \/ ins[u].seenActive
               \/ \E l \in DOMAIN queue' : /\ l < n
                                           /\ queue'[l].unit = u
                                           /\ ActiveOf(queue'[l].sub) = "active"
      BY <1>2, <2>1, <2>4 DEF UpBefore
    <3> QED BY <2>4, <3>1, <3>2, <3>3
  <2>8. AnnouncedRightly(n)'
    BY <2>1, <2>3, <2>4, <2>6, <2>7 DEF AnnouncedRightly, Witnesses, MayStop
  <2> QED BY <2>4, <2>5, <2>8 DEF NewsGrounded
<1> QED BY <1>1, <1>3, <1>4, <1>5

(* A dispatch of the second message of an announcement: that was grounded,   *)
(* so the instance its callbacks leave behind is, and the announcements     *)
(* behind it stay grounded.                                                 *)
LEMMA DispatchUnitGrounded ==
  ASSUME TypeOK, TypeOK', NewsGrounded, BeliefGrounded, LiveGrounded,
         Dispatch, DispatchUnit
  PROVE  LiveGrounded' /\ NewsGrounded' /\ BeliefGrounded'
<1>1. PICK m : m = Head(queue)
  OBVIOUS
<1>2. queue \in Seq(Announcements) /\ queue # << >>
  BY DEF Dispatch, TypeOK, SystemdTypeOK
<1>3. /\ 1 \in DOMAIN queue /\ m = queue[1]
      /\ m \in Announcements /\ m.unit \in Units /\ m.sub \in LiveSubs
      /\ \A k \in DOMAIN queue' : /\ k + 1 \in DOMAIN queue
                                  /\ k \in Nat \ {0}
                                  /\ queue'[k] = queue[k + 1]
  <2>1. m = queue[1] /\ m \in Announcements /\ 1 \in DOMAIN queue
    BY <1>1, <1>2
  <2>2. queue' = Tail(queue)
    BY DEF DispatchUnit
  <2>3. /\ DOMAIN queue = 1..Len(queue) /\ Len(queue) \in Nat
        /\ DOMAIN queue' = 1..(Len(queue) - 1)
        /\ \A k \in 1..(Len(queue) - 1) : queue'[k] = queue[k + 1]
    BY <1>2, <2>2
  <2> QED BY <2>1, <2>3 DEF Announcements
<1>4. /\ ins'[m.unit] = OnUnitChanged(m.unit, ins[m.unit], m)
      /\ \A v \in Units \ {m.unit} : ins'[v] = ins[v]
  BY <1>1, <1>3 DEF DispatchUnit, TypeOK
<1>5. UNCHANGED <<sub, everActive, everEnded, everFailed, overrun, revived>>
  BY DEF Dispatch, unitVars, historyVars, earlyVars
<1>6. PICK i \in Instances : i = ins[m.unit]
  BY <1>3 DEF TypeOK
<1>7. PICK j \in Instances : j = ins'[m.unit]
  BY <1>3 DEF TypeOK
<1>8. /\ KeepsDeadline(i, j)
      /\ j.active = ActiveOf(m.sub) /\ j.sub = m.sub
      /\ j.seenActive = (i.seenActive \/ ActiveOf(m.sub) = "active")
      /\ j.phase = PhaseOf(j.active, j.sub, j.result, j.seenActive,
                           Policy[m.unit])
  BY <1>3, <1>4, <1>6, <1>7, OnUnitChangedType
<1>9. CachedRightly(m.unit, i) /\ DeadlineNoted(m.unit, i)
  BY <1>3, <1>6 DEF BeliefGrounded
<1>10. LiveGrounded'
  BY <1>5 DEF LiveGrounded, Witnesses
<1>11. BeliefGrounded'
  <2>1. CachedRightly(m.unit, j)
    <3>1. AnnouncedRightly(1)
      BY <1>3 DEF NewsGrounded
    <3>2. Witnesses(m.unit, m.sub)
      BY <1>3, <3>1 DEF AnnouncedRightly
    <3>3. m.sub = "dead" /\ j.seenActive => m.unit \in MayStop
      BY <1>3, <1>6, <1>8, <3>1, ActiveOfType DEF AnnouncedRightly, UpBefore
    <3>4. j.seenActive => m.unit \in everActive
      BY <1>8, <1>9, <3>2 DEF CachedRightly, Witnesses
    <3>5. ActiveOf(m.sub) = "failed" => m.unit \in everFailed
      BY <1>3, <3>2, ActiveOfType DEF Witnesses
    <3> QED BY <1>3, <1>8, <3>2, <3>3, <3>4, <3>5 DEF CachedRightly, Witnesses
  <2>2. JudgedRightly(m.unit, j)
    BY <1>3, <1>8, <2>1, PhaseOfJudgesRightly
  <2>3. DeadlineNoted(m.unit, j)
    BY <1>8, <1>9 DEF DeadlineNoted, KeepsDeadline, Instances
  <2>4. \A u \in Units : /\ CachedRightly(u, ins'[u])
                         /\ JudgedRightly(u, ins'[u])
                         /\ DeadlineNoted(u, ins'[u])
    BY <1>4, <1>7, <2>1, <2>2, <2>3 DEF BeliefGrounded
  <2> QED BY <1>5, <2>4 DEF BeliefGrounded, CachedRightly, JudgedRightly,
                            DeadlineNoted, MayStop
<1>12. ASSUME NEW k \in DOMAIN queue'
       PROVE  AnnouncedRightly(k)'
  <2>1. AnnouncedRightly(k + 1)
    BY <1>3 DEF NewsGrounded
  <2>2. /\ k + 1 \in DOMAIN queue /\ queue'[k] = queue[k + 1]
        /\ k \in Nat \ {0} /\ 1 < k + 1
    BY <1>3
  <2>3. queue[k + 1].unit \in Units
    BY <2>2, QueueHoldsAnnouncements DEF TypeOK
  <2>4. UpBefore(k)' => UpBefore(k + 1)
    <3>1. ASSUME ins'[queue[k + 1].unit].seenActive
          PROVE  UpBefore(k + 1)
      <4>1. CASE queue[k + 1].unit # m.unit
        BY <1>4, <2>3, <3>1, <4>1 DEF UpBefore
      <4>2. CASE queue[k + 1].unit = m.unit
        BY <1>3, <1>6, <1>7, <1>8, <2>2, <3>1, <4>2 DEF UpBefore
      <4> QED BY <4>1, <4>2
    <3>2. ASSUME NEW l \in DOMAIN queue', l < k,
                 queue'[l].unit = queue'[k].unit,
                 ActiveOf(queue'[l].sub) = "active"
          PROVE  UpBefore(k + 1)
      <4>1. l + 1 \in DOMAIN queue /\ queue'[l] = queue[l + 1] /\ l \in Nat
        BY <1>3
      <4>2. l + 1 < k + 1
        BY <2>2, <3>2, <4>1
      <4> QED BY <2>2, <3>2, <4>1, <4>2 DEF UpBefore
    <3> QED BY <2>2, <3>1, <3>2 DEF UpBefore
  <2> QED BY <1>5, <2>1, <2>2, <2>4 DEF AnnouncedRightly, Witnesses, MayStop
<1> QED BY <1>10, <1>11, <1>12 DEF NewsGrounded

(* A dispatch of the first message changes the Result alone. *)
LEMMA DispatchServiceGrounded ==
  ASSUME TypeOK, TypeOK', NewsGrounded, BeliefGrounded, LiveGrounded,
         Dispatch, DispatchService
  PROVE  LiveGrounded' /\ NewsGrounded' /\ BeliefGrounded'
<1>1. PICK m : m = Head(queue)
  OBVIOUS
<1>2. m \in Announcements /\ m.unit \in Units
  <2>1. queue \in Seq(Announcements) /\ queue # << >>
    BY DEF Dispatch, TypeOK, SystemdTypeOK
  <2>2. m \in Announcements
    BY <1>1, <2>1
  <2> QED BY <2>2 DEF Announcements
<1>3. ins' = [ins EXCEPT ![m.unit] = OnServiceChanged(m.unit, ins[m.unit], m)]
  BY <1>1 DEF DispatchService
<1>4. UNCHANGED <<sub, queue, historyVars, overrun, revived>>
  BY DEF Dispatch, DispatchService, unitVars, earlyVars
<1>5. ASSUME NEW u \in Units
      PROVE  /\ ins'[u].active = ins[u].active
             /\ ins'[u].sub = ins[u].sub
             /\ ins'[u].seenActive = ins[u].seenActive
             /\ KeepsDeadline(ins[u], ins'[u])
             /\ JudgedRightly(u, ins'[u])
  <2>1. PICK i \in Instances : i = ins[u]
    BY DEF TypeOK
  <2>2. CachedRightly(u, i) /\ JudgedRightly(u, i)
    BY <2>1 DEF BeliefGrounded
  <2>3. CASE u # m.unit
    BY <1>2, <1>3, <2>1, <2>2, <2>3 DEF TypeOK, KeepsDeadline
  <2>4. CASE u = m.unit
    <3>1. PICK j : j = ins'[u]
      OBVIOUS
    <3>2. j = OnServiceChanged(u, i, m)
      BY <1>2, <1>3, <2>1, <2>4, <3>1 DEF TypeOK
    <3>3. /\ KeepsDeadline(i, j)
          /\ j.active = i.active /\ j.sub = i.sub
          /\ j.seenActive = (i.seenActive \/ i.active = "active")
          /\ j.phase = PhaseOf(j.active, j.sub, j.result, j.seenActive,
                               Policy[u])
      BY <1>2, <3>2, OnServiceChangedType
    <3>4. j.seenActive = i.seenActive
      BY <2>2, <3>3 DEF CachedRightly, Instances
    <3>5. CachedRightly(u, j)
      BY <2>2, <3>3, <3>4 DEF CachedRightly
    <3>6. JudgedRightly(u, j)
      BY <3>3, <3>5, PhaseOfJudgesRightly
    <3> QED BY <2>1, <3>1, <3>3, <3>4, <3>6
  <2> QED BY <2>3, <2>4
<1> QED BY <1>4, <1>5, QuietStepGrounded DEF TypeOK

(* Time: an instance's deadline may pass, and is noted when it does.         *)
LEMMA TickGrounded ==
  ASSUME TypeOK, LiveGrounded, NewsGrounded, BeliefGrounded, Tick
  PROVE  LiveGrounded' /\ NewsGrounded' /\ BeliefGrounded'
<1>1. /\ UNCHANGED <<sub, queue, everActive, everEnded, everFailed, revived>>
      /\ overrun \subseteq overrun'
      /\ \A u \in Units : ins'[u].deadline = "finite" /\ ins'[u].left < 0
                            => u \in overrun'
  BY DEF Tick, historyVars, earlyVars
<1>2. ASSUME NEW u \in Units
      PROVE  /\ ins'[u].active = ins[u].active /\ ins'[u].sub = ins[u].sub
             /\ ins'[u].seenActive = ins[u].seenActive
             /\ ins'[u].phase = ins[u].phase
  BY DEF Tick, TypeOK, Instances
<1>3. LiveGrounded'
  BY <1>1 DEF LiveGrounded, Witnesses
<1>4. NewsGrounded'
  BY <1>1, <1>2, QueueHoldsAnnouncements
     DEF NewsGrounded, AnnouncedRightly, UpBefore, Witnesses, MayStop, TypeOK
<1>5. BeliefGrounded'
  BY <1>1, <1>2 DEF BeliefGrounded, CachedRightly, JudgedRightly,
                    DeadlineNoted, MayStop
<1> QED BY <1>3, <1>4, <1>5

LEMMA NextGrounded == TypeOK /\ Grounded /\ [Next]_vars => Grounded'
<1> SUFFICES ASSUME TypeOK, Grounded, [Next]_vars PROVE Grounded'
  OBVIOUS
<1>1. TypeOK'
  BY NextType
<1>2. LiveGrounded /\ NewsGrounded /\ BeliefGrounded
  BY DEF Grounded
<1> DEFINE Beliefs == LiveGrounded /\ NewsGrounded /\ BeliefGrounded
<1>3. ASSUME NEW u \in Units, StartUnit(u)
      PROVE  Beliefs'
  <2>1. UNCHANGED <<sub, queue, historyVars, overrun, revived>>
    BY <1>3 DEF StartUnit, historyVars, earlyVars
  <2>2. ASSUME NEW v \in Units
        PROVE  /\ ins'[v].active = ins[v].active
               /\ ins'[v].sub = ins[v].sub
               /\ ins'[v].seenActive = ins[v].seenActive
               /\ KeepsDeadline(ins[v], ins'[v])
               /\ ins'[v].phase = ins[v].phase
    <3>1. ins'[v] = ins[v] \/ ins'[v] = Provisional(v, ins[v])
      BY <1>3 DEF StartUnit, TypeOK
    <3> QED BY <3>1, ProvisionalType DEF KeepsDeadline, SameState, TypeOK
  <2>3. \A v \in Units : JudgedRightly(v, ins'[v])
    BY <1>2, <2>2 DEF BeliefGrounded, JudgedRightly
  <2> QED BY <1>1, <1>2, <2>1, <2>2, <2>3, QuietStepGrounded DEF TypeOK
<1>4. ASSUME EntersLoop
      PROVE  Beliefs'
  <2>1. UNCHANGED <<sub, queue, historyVars, overrun, revived>>
    BY <1>4 DEF EntersLoop, systemdVars, unitVars, earlyVars
  <2>2. ASSUME NEW v \in Units
        PROVE  /\ ins'[v].active = ins[v].active
               /\ ins'[v].sub = ins[v].sub
               /\ ins'[v].seenActive = ins[v].seenActive
               /\ KeepsDeadline(ins[v], ins'[v])
               /\ JudgedRightly(v, ins'[v])
    <3>1. CASE ins'[v] = ins[v]
      BY <1>2, <3>1 DEF KeepsDeadline, BeliefGrounded
    <3>2. CASE ins'[v] = Rederived(v, ins[v])
      <4>1. PICK i \in Instances : i = ins[v]
        BY DEF TypeOK
      <4>2. PICK j \in Instances : j = ins'[v]
        BY <1>1 DEF TypeOK
      <4>3. /\ j.left = i.left /\ j.deadline = i.deadline
            /\ j.active = i.active /\ j.sub = i.sub
            /\ j.seenActive = i.seenActive
            /\ j.phase = PhaseOf(j.active, j.sub, j.result, j.seenActive,
                                 Policy[v])
        BY <3>2, <4>1, <4>2, RederivedType
      <4>4. CachedRightly(v, j)
        BY <1>2, <4>1, <4>3 DEF BeliefGrounded, CachedRightly
      <4>5. JudgedRightly(v, j)
        BY <4>3, <4>4, PhaseOfJudgesRightly
      <4> QED BY <4>1, <4>2, <4>3, <4>5 DEF KeepsDeadline
    <3> QED BY <1>4, <3>1, <3>2 DEF EntersLoop
  <2> QED BY <1>1, <1>2, <2>1, <2>2, QuietStepGrounded DEF TypeOK
<1>5. ASSUME Check
      PROVE  Beliefs'
  <2>1. UNCHANGED <<sub, queue, historyVars, overrun, revived>>
    BY <1>5 DEF Check, systemdVars, unitVars, earlyVars
  <2>2. ASSUME NEW v \in Units
        PROVE  /\ ins'[v].active = ins[v].active
               /\ ins'[v].sub = ins[v].sub
               /\ ins'[v].seenActive = ins[v].seenActive
               /\ KeepsDeadline(ins[v], ins'[v])
               /\ JudgedRightly(v, ins'[v])
    <3>1. PICK i \in Instances : i = ins[v]
      BY DEF TypeOK
    <3>2. PICK j : j = ins'[v] /\ j = Reassessed(i)
      BY <1>5, <3>1 DEF Check
    <3>3. /\ j.left = i.left /\ j.deadline = i.deadline
          /\ j.active = i.active /\ j.sub = i.sub
          /\ j.seenActive = i.seenActive
          /\ \/ j.phase = i.phase
             \/ j.phase = "FAILED_ABORT" /\ i.deadline = "finite" /\ i.left < 0
      BY <3>2, ReassessedType
    <3>4. JudgedRightly(v, i) /\ DeadlineNoted(v, i)
      BY <1>2, <3>1 DEF BeliefGrounded
    <3>5. JudgedRightly(v, j)
      <4>1. CASE j.phase = i.phase
        BY <3>4, <4>1 DEF JudgedRightly
      <4>2. CASE j.phase = "FAILED_ABORT" /\ i.deadline = "finite" /\ i.left < 0
        BY <3>4, <4>2 DEF JudgedRightly, DeadlineNoted, Succeeded
      <4> QED BY <3>3, <4>1, <4>2
    <3> QED BY <3>1, <3>2, <3>3, <3>5 DEF KeepsDeadline
  <2> QED BY <1>1, <1>2, <2>1, <2>2, QuietStepGrounded DEF TypeOK
<1>6. ASSUME Dispatch
      PROVE  Beliefs'
  BY <1>1, <1>2, <1>6, DispatchServiceGrounded, DispatchUnitGrounded DEF Dispatch
<1>7. ASSUME Tick
      PROVE  Beliefs'
  BY <1>2, <1>7, TickGrounded
<1>8. ASSUME NEW u \in Units, SystemdStep(u)
      PROVE  Beliefs'
  BY <1>1, <1>2, <1>8, SystemdStepGrounded
<1>9. ASSUME UNCHANGED <<systemdVars, ins, overrun, revived>>
      PROVE  Beliefs'
  BY <1>2, <1>9 DEF LiveGrounded, NewsGrounded, BeliefGrounded,
       AnnouncedRightly, UpBefore, CachedRightly, JudgedRightly, DeadlineNoted,
       Witnesses, MayStop, systemdVars, unitVars, historyVars
<1>10. Beliefs'
  <2>1. DrainEnds \/ UNCHANGED vars => UNCHANGED <<systemdVars, ins, overrun, revived>>
    BY DEF DrainEnds, vars, managerVars, earlyVars
  <2> HIDE DEF Beliefs
  <2> QED BY <1>3, <1>4, <1>5, <1>6, <1>7, <1>8, <1>9, <2>1
          DEF Next, ManagerStep, Returned
<1>11. ((pc = "done") = (outcome # "pending"))'
  BY DEF Grounded, Next, ManagerStep, Returned, StartUnit, EntersLoop, Check,
         Dispatch, DrainEnds, Tick, SystemdStep, vars, managerVars
<1> QED BY <1>10, <1>11 DEF Grounded

(* What the manager believes of the units has happened to them since they    *)
(* were attached, whatever was in flight when manager_run began: a phase that *)
(* counts as success or failure is never taken from news older than the      *)
(* snapshots, except the SUCCEEDED_STOPPED of a revived unit, one a snapshot  *)
(* found up though an announcement in flight says it is dead.                *)
THEOREM BeliefsGrounded == Spec => []Grounded
<1> QED BY InitGrounded, InitType, NextType, NextGrounded, PTL DEF Spec

-----------------------------------------------------------------------------
(* The promise: manager_run implements Supervision.                          *)
LEMMA StepsGrow ==
  ASSUME TypeOK, [Next]_vars
  PROVE  /\ Goal \subseteq Goal'
         /\ (everFailed \cup refused \cup overrun)
              \subseteq (everFailed \cup refused \cup overrun)'
<1>1. HistoryGrows
  <2>1. ASSUME NEW u \in Units, SystemdStep(u)
        PROVE  HistoryGrows
    BY <2>1, LivesFacts DEF SystemdStep, TypeOK
  <2>2. \/ UNCHANGED historyVars
        \/ \E u \in Units : SystemdStep(u)
    BY DEF Next, ManagerStep, Returned, StartUnit, EntersLoop, Check, Dispatch,
           DrainEnds, Tick, vars, systemdVars
  <2> QED BY <2>1, <2>2 DEF HistoryGrows, historyVars
<1>2. refused \subseteq refused'
  BY DEF Next, ManagerStep, Returned, StartUnit, EntersLoop, Check, Dispatch,
         DrainEnds, Tick, SystemdStep, vars, managerVars
<1>3. overrun \subseteq overrun'
  BY DEF Next, ManagerStep, Returned, StartUnit, EntersLoop, Check, Dispatch,
         DrainEnds, Tick, SystemdStep, vars, managerVars
<1>4. revived' = revived
  BY DEF Next, ManagerStep, Returned, StartUnit, EntersLoop, Check, Dispatch,
         DrainEnds, Tick, SystemdStep, vars, earlyVars
<1> QED BY <1>1, <1>2, <1>3, <1>4 DEF Goal, MayStop, HistoryGrows

(* A verdict of the wait loop: by then every phase is settled, and what is   *)
(* settled has happened.                                                     *)
LEMMA CheckReports ==
  ASSUME TypeOK, Grounded, Grounded', Check, pc' = "done"
  PROVE  \/ outcome' = "success" /\ Goal = Units
         \/ outcome' = "failure" /\ everFailed \cup overrun # {}
<1>1. /\ UNCHANGED <<everActive, everEnded, everFailed, overrun, revived>>
      /\ \A u \in Units : JudgedRightly(u, ins[u])'
  BY DEF Check, systemdVars, historyVars, earlyVars, Grounded, BeliefGrounded
<1>2. \A u \in Units : JudgedRightly(u, ins'[u])
  BY <1>1 DEF JudgedRightly, MayStop
<1> DEFINE phases == {ins'[u].phase : u \in Units}
           cond == ConditionOf(Mode)
<1>3. Mode \in {"BASIC", "MONITOR"}
  BY ManagerAssumption DEF OperationMode
<1>4. \A p : ~IsDisqualifying(p, cond)
  BY DEF IsDisqualifying, ConditionOf
<1>5. /\ \A p \in phases : IsSettled(p, cond)
      /\ outcome' = IF phases \subseteq SuccessPhases THEN "success"
                                                      ELSE "failure"
  <2> HIDE DEF phases, cond
  <2>1. phases = {ins'[u].phase : u \in Units} /\ cond = ConditionOf(Mode)
    BY DEF phases, cond
  <2> QED BY <1>4, <2>1 DEF Check
<1>6. CASE phases \subseteq SuccessPhases
  <2>1. \A u \in Units : ins'[u].phase \in SuccessPhases
    BY <1>6
  <2>2. ASSUME NEW u \in Units
        PROVE  u \in Goal
    BY <1>2, <1>3, <2>1
       DEF JudgedRightly, SuccessPhases, Goal, MayStop, Succeeded
  <2>3. Goal \subseteq Units
    BY DEF Goal, MayStop, TypeOK, SystemdTypeOK
  <2> QED BY <1>5, <1>6, <2>2, <2>3
<1>7. CASE ~(phases \subseteq SuccessPhases)
  <2>1. PICK u \in Units : ins'[u].phase \notin SuccessPhases
    BY <1>7
  <2>2. IsSettled(ins'[u].phase, cond)
    BY <1>5
  <2>3. ins'[u].phase \in Failed
    BY <1>3, <2>1, <2>2
       DEF IsSettled, ConditionOf, SuccessPhases, Succeeded, Failed
  <2> QED BY <1>2, <1>5, <1>7, <2>3 DEF JudgedRightly
<1> QED BY <1>6, <1>7

LEMMA StepKeepsPromise ==
  ASSUME TypeOK, TypeOK', Grounded, Grounded', [Next]_vars
  PROVE  [Promise!Next]_Promise!supervisionVars
<1>1. /\ Goal \subseteq Units /\ Goal' \subseteq Units
      /\ everFailed \cup refused \cup overrun \subseteq Units
      /\ (everFailed \cup refused \cup overrun)' \subseteq Units
  BY DEF TypeOK, SystemdTypeOK, Goal, MayStop
<1>2. CASE outcome' = outcome /\ outcome = "pending"
  BY <1>1, <1>2, StepsGrow DEF Promise!Next, Promise!UnitsMove
<1>3. CASE pc = "done"
  <2>1. UNCHANGED vars
    BY <1>3 DEF Next, ManagerStep, Returned, StartUnit, EntersLoop, Check,
                Dispatch, DrainEnds, Tick, SystemdStep
  <2> QED BY <2>1 DEF vars, systemdVars, historyVars, managerVars, Goal, MayStop,
                      earlyVars,
                      Promise!supervisionVars
<1>4. CASE EntersLoop /\ outcome' # outcome
  <2>1. /\ outcome = "pending" /\ outcome' = "failure" /\ refused # {}
        /\ UNCHANGED <<everActive, everEnded, everFailed, refused, overrun, revived>>
    BY <1>4 DEF EntersLoop, systemdVars, historyVars, earlyVars, Grounded
  <2> QED BY <2>1 DEF Promise!Next, Promise!ReportsFailure, Goal, MayStop
<1>5. CASE Check /\ outcome' # outcome
  <2>1. /\ outcome = "pending" /\ pc' = "done"
        /\ UNCHANGED <<everActive, everEnded, everFailed, refused, overrun, revived>>
    BY <1>5 DEF Check, systemdVars, historyVars, earlyVars, Grounded
  <2>2. \/ outcome' = "success" /\ Goal = Units
        \/ outcome' = "failure" /\ everFailed \cup overrun # {}
    BY <1>5, <2>1, CheckReports
  <2> QED BY <2>1, <2>2 DEF Promise!Next, Promise!ReportsSuccess,
                            Promise!ReportsFailure, Goal, MayStop
<1>6. \/ outcome' = outcome
      \/ EntersLoop
      \/ Check
  BY DEF Next, ManagerStep, Returned, StartUnit, Dispatch, DrainEnds, Tick,
         SystemdStep, vars, managerVars
<1>7. pc # "done" => outcome = "pending"
  BY DEF Grounded
<1> QED BY <1>2, <1>3, <1>4, <1>5, <1>6, <1>7

(* A run of the supervisor reports success only when every unit has done     *)
(* what the mode waits for since it was attached (in MONITOR: has ended, or  *)
(* is revived), failure only when a unit failed since, was refused or        *)
(* overran its deadline, and reports once; whatever the units did and        *)
(* systemd announced between their attachment and the run.                   *)
THEOREM PromiseKept == Spec => KeepsPromise
<1>1. Init => Promise!Init
  <2>1. TypeOK /\ Init => Promise!Init
    BY DEF Init, TypeOK, SystemdTypeOK, Goal, MayStop, Promise!Init
  <2> QED BY <2>1, InitType
<1>2. TypeOK /\ TypeOK' /\ Grounded /\ Grounded' /\ [Next]_vars
        => [Promise!Next]_Promise!supervisionVars
  BY StepKeepsPromise
<1> QED BY <1>1, <1>2, InitGrounded, InitType, NextType, NextGrounded, PTL
        DEF Spec, KeepsPromise, Promise!Spec
=============================================================================
