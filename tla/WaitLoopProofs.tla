---------------------------- MODULE WaitLoopProofs ----------------------------
(***************************************************************************)
(* More theorems about ManagerRun, for every set of units, dependency      *)
(* relation, policy, timeout and mode: the phases are current, no news is  *)
(* lost, and no Abort unit is given up on before systemd does.             *)
(***************************************************************************)
EXTENDS ManagerRunProofs, WellFoundedInduction

-----------------------------------------------------------------------------
(* The phases *)

Derived(u, i) == PhaseOf(i.active, i.sub, i.result, i.seenActive, Policy[u])

(* The phase of i is the one derived, or a noted overrun made of it. *)
Current(u, i) ==
  \/ i.phase = Derived(u, i)
  \/ i.phase = "FAILED_ABORT" /\ u \in overrun /\ Derived(u, i) \in InFlight

PhaseInv ==
  /\ TypeOK
  /\ \A u \in Units : DeadlineNoted(u, ins[u])
  /\ pc \in {"check", "drain"} => \A u \in Units : Current(u, ins[u])

LEMMA RederivedPhase ==
  ASSUME NEW u, NEW i \in Instances
  PROVE  /\ Rederived(u, i).phase = Derived(u, i)
         /\ Derived(u, Rederived(u, i)) = Derived(u, i)
<1>1. PICK p : p = Derived(u, i)
  OBVIOUS
<1>2. Rederived(u, i) = [i EXCEPT !.phase = p]
  BY <1>1 DEF Rederived, Derived
<1> QED
  BY <1>1, <1>2 DEF Instances, Derived

LEMMA ReassessedState ==
  ASSUME NEW i \in Instances
  PROVE  LET j == Reassessed(i) IN
         /\ j.active = i.active /\ j.sub = i.sub /\ j.result = i.result
         /\ j.seenActive = i.seenActive
         /\ \/ j.phase = i.phase
            \/ /\ j.phase = "FAILED_ABORT" /\ i.phase \in InFlight
               /\ i.deadline = "finite" /\ i.left < 0
BY DEF Reassessed, Expired, Instances

LEMMA PhaseInvImplies == PhaseInv => PhaseCurrent
BY RederivedPhase DEF PhaseInv, PhaseCurrent, Current, TypeOK

LEMMA InitPhaseInv == Init => PhaseInv
<1> SUFFICES ASSUME Init PROVE PhaseInv
  OBVIOUS
<1>1. TypeOK /\ pc = "start"
  BY InitType DEF Init
<1>2. PICK read : /\ \A u \in Units : read[u] \in Readings(u)
                  /\ ins = [u \in Units |-> Attached(u, read[u])]
  BY DEF Init
<1>3. \A u \in Units : ins[u].left >= 0
  BY <1>2, AttachedType
<1>4. \A u \in Units : DeadlineNoted(u, ins[u])
  BY <1>1, <1>3 DEF DeadlineNoted, TypeOK, Instances
<1> QED
  BY <1>1, <1>4 DEF PhaseInv

LEMMA HeadAnnounces ==
  ASSUME SystemdTypeOK, queue # << >>
  PROVE  Head(queue) \in Announcements /\ Head(queue).unit \in Units
<1>1. queue \in Seq(Announcements)
  BY DEF SystemdTypeOK
<1>2. Head(queue) \in Announcements
  BY <1>1
<1> QED
  BY <1>2 DEF Announcements

(* A step that leaves the deadlines noted that were. *)
LEMMA DeadlinesStayNoted ==
  ASSUME TypeOK, NEW u \in Units, NEW i \in Instances, NEW j \in Instances,
         DeadlineNoted(u, i), KeepsDeadline(i, j), overrun \subseteq overrun'
  PROVE  j.deadline = "finite" /\ j.left < 0 => u \in overrun'
BY DEF DeadlineNoted, KeepsDeadline, Instances

LEMMA PhaseInvStep == PhaseInv /\ [Next]_vars => PhaseInv'
<1> SUFFICES ASSUME PhaseInv, [Next]_vars PROVE PhaseInv'
  OBVIOUS
<1>1. TypeOK /\ TypeOK'
  BY NextType DEF PhaseInv
<1>2. \A u \in Units : ins[u] \in Instances /\ ins'[u] \in Instances
  BY <1>1 DEF TypeOK
<1>3. \A u \in Units : DeadlineNoted(u, ins[u])
  BY DEF PhaseInv
<1>4. ASSUME NEW v \in Units, StartUnit(v)
      PROVE  PhaseInv'
  <2>1. pc' = "start" /\ overrun' = overrun
    BY <1>4 DEF StartUnit
  <2>2. \A u \in Units : KeepsDeadline(ins[u], ins'[u])
    <3>1. \A u \in Units : \/ ins'[u] = ins[u]
                           \/ u = v /\ ins'[u] = Provisional(u, ins[u])
      BY <1>1, <1>4 DEF StartUnit, TypeOK
    <3> QED
      BY <1>2, <3>1, ProvisionalType DEF KeepsDeadline
  <2>3. \A u \in Units : DeadlineNoted(u, ins[u])'
    BY <1>1, <1>2, <1>3, <2>1, <2>2, DeadlinesStayNoted DEF DeadlineNoted
  <2> QED
    BY <1>1, <2>1, <2>3 DEF PhaseInv
<1>5. CASE EntersLoop
  <2>1. overrun' = overrun
    BY <1>5 DEF EntersLoop
  <2>2. CASE pc' = "done" /\ ins' = ins
    BY <1>1, <1>3, <2>1, <2>2 DEF PhaseInv, DeadlineNoted
  <2>3. CASE ins' = [u \in Units |-> Rederived(u, ins[u])]
    <3>1. \A u \in Units : KeepsDeadline(ins[u], ins'[u])
      BY <1>2, <2>3, RederivedType DEF KeepsDeadline
    <3>2. \A u \in Units : DeadlineNoted(u, ins[u])'
      BY <1>1, <1>2, <1>3, <2>1, <3>1, DeadlinesStayNoted DEF DeadlineNoted
    <3>3. \A u \in Units : Current(u, ins[u])'
      BY <1>2, <2>3, RederivedPhase DEF Current, Derived
    <3> QED
      BY <1>1, <3>2, <3>3 DEF PhaseInv
  <2> QED
    BY <1>5, <2>2, <2>3 DEF EntersLoop
<1>6. CASE Check
  <2>1. overrun' = overrun /\ pc = "check"
    BY <1>6 DEF Check
  <2>2. ASSUME NEW u \in Units
        PROVE  DeadlineNoted(u, ins[u])' /\ Current(u, ins[u])'
    <3>1. PICK i \in Instances : i = ins[u]
      BY <1>2
    <3>2. PICK j \in Instances : j = ins'[u]
      BY <1>2
    <3>3. j = Reassessed(i)
      BY <1>6, <3>1, <3>2 DEF Check
    <3>4. /\ j.left = i.left /\ j.deadline = i.deadline
          /\ Derived(u, j) = Derived(u, i)
          /\ \/ j.phase = i.phase
             \/ /\ j.phase = "FAILED_ABORT" /\ i.phase \in InFlight
                /\ i.deadline = "finite" /\ i.left < 0
      BY <3>3, ReassessedType, ReassessedState DEF Derived
    <3>5. DeadlineNoted(u, i) /\ Current(u, i)
      BY <2>1, <3>1 DEF PhaseInv
    <3>6. "FAILED_ABORT" \notin InFlight
      BY DEF InFlight
    <3>7. j.phase = i.phase => Current(u, j)
      BY <3>4, <3>5 DEF Current
    <3>8. j.phase # i.phase => Current(u, j)
      BY <3>4, <3>5, <3>6 DEF Current, DeadlineNoted
    <3> QED
      BY <2>1, <3>2, <3>4, <3>5, <3>7, <3>8 DEF DeadlineNoted, Current, Derived
  <2> QED
    BY <1>1, <2>2 DEF PhaseInv
<1>7. CASE Dispatch
  <2>1. PICK m : m = Head(queue)
    OBVIOUS
  <2>2. m \in Announcements /\ m.unit \in Units
    BY <1>1, <1>7, <2>1, HeadAnnounces DEF Dispatch, TypeOK
  <2>3. /\ overrun' = overrun /\ pc = "drain"
        /\ \/ ins'[m.unit] = OnServiceChanged(m.unit, ins[m.unit], m)
           \/ ins'[m.unit] = OnUnitChanged(m.unit, ins[m.unit], m)
        /\ \A u \in Units \ {m.unit} : ins'[u] = ins[u]
    BY <1>1, <1>7, <2>1, <2>2 DEF Dispatch, DispatchService, DispatchUnit, TypeOK
  <2>4. /\ KeepsDeadline(ins[m.unit], ins'[m.unit])
        /\ ins'[m.unit].phase = Derived(m.unit, ins'[m.unit])
    BY <1>2, <2>2, <2>3, OnServiceChangedType, OnUnitChangedType DEF Derived
  <2>5. \A u \in Units : KeepsDeadline(ins[u], ins'[u])
    BY <2>3, <2>4 DEF KeepsDeadline
  <2>6. \A u \in Units : DeadlineNoted(u, ins[u])'
    BY <1>1, <1>2, <1>3, <2>3, <2>5, DeadlinesStayNoted DEF DeadlineNoted
  <2>7. \A u \in Units : Current(u, ins[u])'
    BY <2>3, <2>4 DEF PhaseInv, Current, Derived
  <2> QED
    BY <1>1, <2>6, <2>7 DEF PhaseInv
<1>8. CASE Tick
  <2>1. \A u \in Units : DeadlineNoted(u, ins[u])'
    BY <1>8 DEF Tick, DeadlineNoted
  <2>2. overrun \subseteq overrun' /\ pc' = pc
    BY <1>8 DEF Tick
  <2>3. ASSUME NEW u \in Units
        PROVE  /\ ins'[u].phase = ins[u].phase
               /\ Derived(u, ins'[u]) = Derived(u, ins[u])
    <3>1. \/ ins'[u] = ins[u]
          \/ ins'[u] = [ins[u] EXCEPT !.left = @ - 1]
      BY <1>8 DEF Tick
    <3> QED
      BY <1>2, <3>1 DEF Instances, Derived
  <2> QED
    BY <1>1, <2>1, <2>2, <2>3 DEF PhaseInv, Current, Derived
<1>9. CASE DrainEnds \/ (\E u \in Units : SystemdStep(u)) \/ UNCHANGED vars
  <2>1. /\ ins' = ins /\ overrun' = overrun
        /\ pc' \in {"check", "drain"} => pc \in {"check", "drain"}
    BY <1>9 DEF DrainEnds, SystemdStep, vars, managerVars
  <2> QED
    BY <1>1, <2>1 DEF PhaseInv, DeadlineNoted, Current, Derived
<1> QED
  BY <1>4, <1>5, <1>6, <1>7, <1>8, <1>9 DEF Next, ManagerStep, Returned

(* Inside the wait loop a phase is what phase_of says of the cached state,   *)
(* or the FAILED_ABORT of a deadline that has passed: neither the callback  *)
(* on_unit_state_changed, nor the initial pass, nor the reassessment leaves *)
(* a stale one.                                                             *)
THEOREM PhasesCurrent == Spec => []PhaseCurrent
BY InitPhaseInv, PhaseInvStep, PhaseInvImplies, PTL DEF Spec

-----------------------------------------------------------------------------
(* The news *)

(* The last news of u, in flight or else dispatched, is its live state      *)
(* unless systemd still owes an announcement; and there is a last one.      *)
LastNews(u, k) == k \in UnitNews(u) /\ \A l \in UnitNews(u) : l <= k

NewsHeld(u) ==
  \/ UnitNews(u) = {} /\ (u \notin dirty => ins[u].sub = sub[u])
  \/ \E k \in UnitNews(u) : LastNews(u, k) /\ (u \notin dirty => queue[k].sub = sub[u])

NewsInv == TypeOK /\ \A u \in Units : NewsHeld(u)

LEMMA NewsIndices ==
  ASSUME SystemdTypeOK, NEW u
  PROVE  UnitNews(u) \subseteq Nat
BY DEF SystemdTypeOK, UnitNews

LEMMA NewsInvImplies == NewsInv => NoNewsLost
<1> SUFFICES ASSUME NewsInv, NEW u \in Units, u \notin dirty
             PROVE  Announced(u) = sub[u]
  BY DEF NoNewsLost
<1>1. NewsHeld(u)
  BY DEF NewsInv
<1>2. CASE UnitNews(u) = {}
  BY <1>1, <1>2 DEF NewsHeld, LastNews, Announced
<1>3. CASE UnitNews(u) # {}
  <2>1. PICK k \in UnitNews(u) : /\ \A l \in UnitNews(u) : l <= k
                                 /\ queue[k].sub = sub[u]
    BY <1>1, <1>3 DEF NewsHeld, LastNews
  <2>2. PICK c : c = CHOOSE d \in UnitNews(u) : \A l \in UnitNews(u) : l <= d
    OBVIOUS
  <2>3. c \in UnitNews(u) /\ \A l \in UnitNews(u) : l <= c
    BY <2>1, <2>2
  <2>4. c = k
    BY <2>1, <2>3, NewsIndices DEF NewsInv, TypeOK
  <2> QED
    BY <1>3, <2>1, <2>2, <2>4 DEF Announced
<1> QED
  BY <1>2, <1>3

(* A nonempty set of numbers up to n has a greatest element. *)
LEMMA LastIndex ==
  ASSUME NEW n \in Nat, NEW T \in SUBSET (1..n), T # {}
  PROVE  \E k \in T : \A l \in T : l <= k
<1> DEFINE Gaps == {g \in Nat : n - g \in T}
<1>1. Gaps \subseteq Nat /\ Gaps # {}
  <2>1. PICK x \in T : TRUE
    OBVIOUS
  <2>2. n - x \in Nat /\ n - (n - x) = x
    BY <2>1
  <2> QED
    BY <2>1, <2>2
<1>2. PICK g \in Gaps : \A h \in Gaps : <<h, g>> \notin OpToRel(<, Nat)
  <2> HIDE DEF Gaps
  <2> QED
    BY <1>1, WFMin, NatLessThanWellFounded, Zenon
<1>3. ASSUME NEW h \in Gaps PROVE ~(h < g)
  <2>1. h \in Nat /\ g \in Nat
    BY <1>1, <1>2
  <2>2. <<h, g>> \in Nat \X Nat /\ <<h, g>>[1] = h /\ <<h, g>>[2] = g
    BY <2>1
  <2> HIDE DEF Gaps
  <2> QED
    BY <1>2, <2>2, Zenon DEF OpToRel
<1>4. ASSUME NEW l \in T PROVE l <= n - g
  <2>1. n - l \in Gaps
    <3>1. n - l \in Nat /\ n - (n - l) = l
      OBVIOUS
    <3> QED
      BY <3>1
  <2>2. ~(n - l < g) /\ g \in Nat
    BY <1>2, <1>3, <2>1
  <2> QED
    BY <2>2
<1> QED
  BY <1>2, <1>4

LEMMA InitNews == Init => NewsInv
<1> SUFFICES ASSUME Init PROVE NewsInv
  OBVIOUS
<1>1. TypeOK /\ SystemdTypeOK /\ queue \in Seq(Announcements)
  BY InitType DEF TypeOK, SystemdTypeOK
<1>2. PICK live, read, older :
        /\ \A u \in Units : live[u] \in Early(u) /\ read[u] \in Readings(u)
        /\ \A u \in Units \ dirty : OwedNone(u, live[u], read[u], older[u])
        /\ ins = [u \in Units |-> Attached(u, read[u])]
        /\ sub = [u \in Units |-> live[u].sub]
  BY DEF Init
<1>3. ASSUME NEW u \in Units
      PROVE  NewsHeld(u)
  <2>1. sub[u] = live[u].sub /\ ins[u].sub = read[u].sub
    BY <1>2, AttachedType
  <2>2. u \notin dirty => OwedNone(u, live[u], read[u], older[u])
    BY <1>2
  <2>3. CASE UnitNews(u) = {}
    <3>1. u \notin dirty => read[u] = ReadOf(live[u], live[u], live[u])
      BY <2>2, <2>3 DEF OwedNone
    <3>2. ReadOf(live[u], live[u], live[u]).sub = live[u].sub
      BY DEF ReadOf
    <3> QED
      BY <2>1, <2>3, <3>1, <3>2 DEF NewsHeld
  <2>4. CASE UnitNews(u) # {}
    <3>1. PICK k \in UnitNews(u) : \A l \in UnitNews(u) : l <= k
      <4>1. Len(queue) \in Nat /\ UnitNews(u) \subseteq 1..Len(queue)
        BY <1>1 DEF UnitNews
      <4> QED
        BY <2>4, <4>1, LastIndex
    <3>2. u \notin dirty => queue[k] = live[u]
      BY <2>2, <3>1 DEF OwedNone
    <3> QED
      BY <2>1, <3>1, <3>2 DEF NewsHeld, LastNews
  <2> QED
    BY <2>3, <2>4
<1> QED
  BY <1>1, <1>3 DEF NewsInv

(* What a step of systemd on u does to what is announced of the units: it    *)
(* changes u, which is then owed an announcement, or announces it.          *)
LEMMA LivesNews ==
  ASSUME SystemdTypeOK, NEW u \in Units, Lives(u)
  PROVE  \/ /\ queue' = queue
            /\ dirty' = dirty \cup {u}
            /\ \A v \in Units \ {u} : sub'[v] = sub[v]
         \/ /\ sub' = sub
            /\ dirty' = dirty \ {u}
            /\ queue' = Append(queue, [unit |-> u, sub |-> sub[u],
                                       result |-> result[u]])
<1>1. CASE Emits(u)
  BY <1>1 DEF Emits, unitVars
<1>2. ASSUME NEW s, NEW r, Moves(u, s, r)
      PROVE  /\ queue' = queue
             /\ dirty' = dirty \cup {u}
             /\ \A v \in Units \ {u} : sub'[v] = sub[v]
  BY <1>2 DEF Moves, SystemdTypeOK
<1>3. CASE RunJob(u) \/ StartSucceeds(u) \/ StartFails(u) \/ Stops(u)
           \/ SchedulesRestart(u) \/ Restarts(u)
  BY <1>2, <1>3 DEF RunJob, Starts, StartSucceeds, StartFails, Stops,
                    SchedulesRestart, Restarts
<1>4. CASE Ends(u)
  BY <1>2, <1>4 DEF Ends
<1> QED
  BY <1>1, <1>3, <1>4 DEF Lives

LEMMA NewsInvStep == NewsInv /\ [Next]_vars => NewsInv'
<1> SUFFICES ASSUME NewsInv, [Next]_vars PROVE NewsInv'
  OBVIOUS
<1>1. TypeOK /\ TypeOK' /\ SystemdTypeOK /\ queue \in Seq(Announcements)
  BY NextType DEF NewsInv, TypeOK, SystemdTypeOK
<1>2. CASE /\ UNCHANGED <<sub, dirty, queue>>
           /\ \A u \in Units : ins'[u].sub = ins[u].sub
  BY <1>1, <1>2 DEF NewsInv, NewsHeld, LastNews, UnitNews
<1>3. ASSUME NEW v \in Units, StartUnit(v)
      PROVE  NewsInv'
  <2>1. \A u \in Units : \/ ins'[u] = ins[u]
                         \/ u = v /\ ins'[u] = Provisional(u, ins[u])
    BY <1>1, <1>3 DEF StartUnit, TypeOK
  <2>2. \A u \in Units : ins'[u].sub = ins[u].sub
    BY <1>1, <2>1, ProvisionalType DEF SameState, TypeOK
  <2> QED
    BY <1>2, <1>3, <2>2 DEF StartUnit
<1>4. CASE EntersLoop
  <2>1. \A u \in Units : \/ ins'[u] = ins[u]
                         \/ ins'[u] = Rederived(u, ins[u])
    BY <1>1, <1>4 DEF EntersLoop, TypeOK
  <2>2. \A u \in Units : ins'[u].sub = ins[u].sub
    BY <1>1, <2>1, RederivedType DEF TypeOK
  <2> QED
    BY <1>2, <1>4, <2>2 DEF EntersLoop, systemdVars, unitVars
<1>5. CASE Check
  <2>1. \A u \in Units : ins'[u].sub = ins[u].sub
    BY <1>1, <1>5, ReassessedType DEF Check, TypeOK
  <2> QED
    BY <1>2, <1>5, <2>1 DEF Check, systemdVars, unitVars
<1>6. CASE Tick
  <2>1. ASSUME NEW u \in Units
        PROVE  ins'[u].sub = ins[u].sub
    <3>1. ins[u] \in Instances
      BY <1>1 DEF TypeOK
    <3>2. ins'[u] = ins[u] \/ ins'[u] = [ins[u] EXCEPT !.left = @ - 1]
      BY <1>6 DEF Tick
    <3> QED
      BY <3>1, <3>2 DEF Instances
  <2> QED
    BY <1>2, <1>6, <2>1 DEF Tick
<1>7. CASE DrainEnds \/ UNCHANGED vars
  BY <1>2, <1>7 DEF DrainEnds, vars, managerVars, systemdVars, unitVars
<1>8. CASE Dispatch /\ DispatchService
  <2>1. PICK m : m = Head(queue)
    OBVIOUS
  <2>2. m \in Announcements /\ m.unit \in Units
    BY <1>1, <1>8, <2>1, HeadAnnounces DEF Dispatch
  <2>3. ASSUME NEW u \in Units
        PROVE  ins'[u].sub = ins[u].sub
    <3>1. ins[u] \in Instances
      BY <1>1 DEF TypeOK
    <3>2. \/ ins'[u] = ins[u]
          \/ ins'[u] = OnServiceChanged(u, ins[u], m)
      BY <1>1, <1>8, <2>1 DEF DispatchService, TypeOK
    <3> QED
      BY <2>2, <3>1, <3>2, OnServiceChangedType
  <2> QED
    BY <1>2, <1>8, <2>3 DEF Dispatch, DispatchService, unitVars
<1>9. CASE Dispatch /\ DispatchUnit
  <2>1. PICK m : m = Head(queue)
    OBVIOUS
  <2>2. /\ m = queue[1] /\ m \in Announcements /\ m.unit \in Units
        /\ \A k \in DOMAIN queue' : /\ k \in Nat \ {0}
                                    /\ k + 1 \in DOMAIN queue
                                    /\ queue'[k] = queue[k + 1]
        /\ \A k \in DOMAIN queue : \/ k = 1
                                   \/ /\ k \in Nat /\ 1 < k
                                      /\ k - 1 \in DOMAIN queue'
                                      /\ queue'[k - 1] = queue[k]
    <3>1. queue # << >> /\ queue' = Tail(queue)
      BY <1>9 DEF Dispatch, DispatchUnit
    <3>2. m = queue[1] /\ m \in Announcements
      BY <1>1, <2>1, <3>1
    <3>3. /\ DOMAIN queue = 1..Len(queue) /\ Len(queue) \in Nat
          /\ DOMAIN queue' = 1..(Len(queue) - 1)
          /\ \A k \in 1..(Len(queue) - 1) : queue'[k] = queue[k + 1]
      BY <1>1, <3>1
    <3> QED
      BY <3>2, <3>3 DEF Announcements
  <2>3. /\ UNCHANGED <<sub, dirty>>
        /\ ins'[m.unit] = OnUnitChanged(m.unit, ins[m.unit], m)
        /\ \A u \in Units \ {m.unit} : ins'[u] = ins[u]
    BY <1>1, <1>9, <2>1, <2>2 DEF Dispatch, DispatchUnit, TypeOK, unitVars
  <2>4. ins'[m.unit].sub = m.sub
    BY <1>1, <2>2, <2>3, OnUnitChangedType DEF TypeOK
  <2>5. ASSUME NEW u \in Units
        PROVE  NewsHeld(u)'
    <3>1. \A k \in UnitNews(u)' : k \in Nat \ {0} /\ k + 1 \in UnitNews(u)
                                 /\ queue'[k] = queue[k + 1]
      BY <2>2 DEF UnitNews
    <3>2. \A k \in UnitNews(u) : \/ k = 1 /\ u = m.unit
                                 \/ /\ k \in Nat /\ 1 < k /\ k - 1 \in UnitNews(u)'
                                    /\ queue'[k - 1] = queue[k]
      BY <2>2 DEF UnitNews
    <3>3. NewsHeld(u)
      BY DEF NewsInv
    <3>4. CASE UnitNews(u) = {}
      <4>1. u # m.unit
        BY <1>1, <1>9, <2>2, <3>4 DEF UnitNews, Dispatch
      <4>2. UnitNews(u)' = {}
        BY <3>1, <3>4
      <4> QED
        BY <2>3, <3>3, <3>4, <4>1, <4>2 DEF NewsHeld, LastNews
    <3>5. ASSUME NEW k \in UnitNews(u), LastNews(u, k),
                 u \notin dirty => queue[k].sub = sub[u]
          PROVE  NewsHeld(u)'
      <4>1. CASE k = 1
        <5>1. UnitNews(u)' = {}
          BY <3>1, <3>5, <4>1 DEF LastNews
        <5>2. u = m.unit
          BY <3>2, <3>5, <4>1 DEF LastNews
        <5> QED
          BY <2>2, <2>3, <2>4, <3>5, <4>1, <5>1, <5>2 DEF NewsHeld
      <4>2. CASE k # 1
        <5>1. /\ k - 1 \in Nat /\ k - 1 \in UnitNews(u)'
              /\ queue'[k - 1] = queue[k]
          BY <3>2, <3>5, <4>2 DEF LastNews
        <5>2. \A l \in UnitNews(u)' : l <= k - 1
          BY <3>1, <3>2, <3>5, <4>2 DEF LastNews
        <5> QED
          BY <2>3, <3>5, <5>1, <5>2 DEF NewsHeld, LastNews
      <4> QED
        BY <4>1, <4>2
    <3> QED
      BY <3>3, <3>4, <3>5 DEF NewsHeld
  <2> QED
    BY <1>1, <2>5 DEF NewsInv
<1>10. ASSUME NEW v \in Units, SystemdStep(v)
      PROVE  NewsInv'
  <2>1. ins' = ins /\ Lives(v)
    BY <1>10 DEF SystemdStep, managerVars
  <2>2. CASE /\ queue' = queue
             /\ dirty' = dirty \cup {v}
             /\ \A u \in Units \ {v} : sub'[u] = sub[u]
    BY <1>1, <2>1, <2>2 DEF NewsInv, NewsHeld, LastNews, UnitNews
  <2>3. ASSUME sub' = sub, dirty' = dirty \ {v},
               NEW m, m = [unit |-> v, sub |-> sub[v], result |-> result[v]],
               queue' = Append(queue, m)
        PROVE  NewsInv'
    <3>1. PICK n \in Nat : n = Len(queue) + 1
      BY <1>1
    <3>2. m.unit = v /\ m.sub = sub[v]
      BY <2>3
    <3>3. /\ \A k \in DOMAIN queue : /\ k \in DOMAIN queue' /\ k < n
                                      /\ queue'[k] = queue[k]
          /\ \A k \in DOMAIN queue' : k \in DOMAIN queue \/ k = n
          /\ n \in DOMAIN queue' /\ queue'[n] = m
      <4>1. /\ DOMAIN queue = 1..Len(queue)
            /\ DOMAIN queue' = 1..(Len(queue) + 1)
            /\ Len(queue) \in Nat
            /\ \A k \in 1..Len(queue) : queue'[k] = queue[k]
            /\ queue'[Len(queue) + 1] = m
        BY <1>1, <2>3, AppendProperties
      <4> QED
        BY <3>1, <4>1
    <3>4. NewsHeld(v)'
      <4>1. n \in UnitNews(v)' /\ \A l \in UnitNews(v)' : l <= n
        <5>1. \A l \in UnitNews(v)' : l = n \/ (l \in Nat /\ l < n)
          BY <1>1, <3>3 DEF UnitNews, SystemdTypeOK
        <5>2. n <= n
          BY <3>1
        <5>3. \A l \in Nat : l < n => l <= n
          BY <3>1
        <5>4. n \in UnitNews(v)'
          BY <3>2, <3>3 DEF UnitNews
        <5> QED
          BY <5>1, <5>2, <5>3, <5>4
      <4> QED
        BY <2>3, <3>2, <3>3, <4>1 DEF NewsHeld, LastNews
    <3>5. ASSUME NEW u \in Units, u # v
          PROVE  NewsHeld(u)'
      <4>1. /\ UnitNews(u)' = UnitNews(u)
            /\ \A k \in UnitNews(u) : queue'[k] = queue[k]
        BY <3>2, <3>3, <3>5 DEF UnitNews
      <4>2. NewsHeld(u)
        BY DEF NewsInv
      <4> QED
        BY <2>1, <2>3, <3>5, <4>1, <4>2 DEF NewsHeld, LastNews
    <3> QED
      BY <1>1, <3>4, <3>5 DEF NewsInv
  <2> QED
    BY <1>1, <2>1, <2>2, <2>3, LivesNews
<1>11. Dispatch => NewsInv'
  BY <1>8, <1>9 DEF Dispatch
<1> QED
  BY <1>3, <1>4, <1>5, <1>6, <1>7, <1>10, <1>11 DEF Next, ManagerStep, Returned

(* No change of a unit's state is lost between systemd and the cache of the  *)
(* tracked unit, however the two messages of each announcement              *)
(* (dbus_properties_changed_handler) interleave with the steps of systemd.  *)
THEOREM NewsReachesTheCache == Spec => []NoNewsLost
BY InitNews, NewsInvStep, NewsInvImplies, PTL DEF Spec

-----------------------------------------------------------------------------
(* The deadlines *)

(* The units systemd starts once under a timeout the launcher has read, and  *)
(* was not starting already between their attachment and the run.           *)
Watched ==
  {u \in Units \ (ReadFails \cup NoTimeout \cup triedBefore) :
     Policy[u] = "ABORT"}

NotStarting(s) == s \notin {"start", "auto-restart"}

(* Before its first start attempt nothing says that u is activating. *)
Unstarted(u) ==
  attempts[u] = 0 =>
    /\ NotStarting(sub[u])
    /\ ~ins[u].activated
    /\ ins[u].active # "activating"
    /\ \A k \in DOMAIN queue : queue[k].unit = u => NotStarting(queue[k].sub)

LeavesTime(u) ==
  sub[u] = "start" /\ attempts[u] = 1 /\ ins[u].activated
    => ins[u].left >= Timeout[u] - age[u]

PatienceInv == TypeOK /\ \A u \in Watched : Unstarted(u) /\ LeavesTime(u)

(* The deadline is as it was, or was armed anew from now. *)
Timed(u, i, j) ==
  \/ j.activated = i.activated /\ j.left = i.left
  \/ j.left = Timeout[u]

LEMMA ArmedTimed ==
  ASSUME NEW u \in Watched, NEW i \in Instances
  PROVE  Armed(u, i).left = Timeout[u] /\ Armed(u, i).activated = i.activated
<1>1. u \in Units /\ u \notin ReadFails /\ u \notin NoTimeout /\ Policy[u] = "ABORT"
  BY DEF Watched
<1>2. Timeout[u] \in Nat /\ Timeout[u] # 0
  BY <1>1, SystemdAssumption
<1>3. PICK n : n = StartSpan(Policy[u], Burst, Timeout[u], Default)
  OBVIOUS
<1>4. n = Timeout[u]
  BY <1>1, <1>2, <1>3 DEF StartSpan, StartBudget
<1>5. Armed(u, i) = [i EXCEPT !.deadline = "finite", !.left = n]
  BY <1>1, <1>3 DEF Armed
<1> QED
  BY <1>4, <1>5 DEF Instances

LEMMA ProvisionalTimed ==
  ASSUME NEW u \in Watched, NEW i \in Instances
  PROVE  /\ Provisional(u, i).activated = i.activated
         /\ Timed(u, i, Provisional(u, i))
BY ArmedTimed DEF Provisional, Timed

LEMMA CallbackTimed ==
  ASSUME NEW u \in Watched, NEW i \in Instances
  PROVE  LET j == OnUnitStateChanged(u, i) IN
         /\ Timed(u, i, j)
         /\ j.activated => i.activated \/ i.active = "activating"
<1> DEFINE a == Anchored(u, i)
           p == Derived(u, [a EXCEPT !.seenActive = @ \/ i.active = "active"])
<1>1. a \in Instances
  BY AnchoredType DEF Watched
<1>2. /\ Timed(u, i, a)
      /\ a.activated => i.activated \/ i.active = "activating"
  <2>1. CASE ~i.activated /\ i.active = "activating"
    <3>1. PICK r \in Instances : r = Armed(u, i)
      BY ArmedType DEF Watched
    <3>2. a = [r EXCEPT !.activated = TRUE]
      BY <2>1, <3>1 DEF Anchored
    <3>3. r.left = Timeout[u]
      BY <3>1, ArmedTimed
    <3> QED
      BY <2>1, <3>2, <3>3 DEF Instances, Timed
  <2>2. CASE i.activated \/ i.active # "activating"
    BY <2>2 DEF Anchored, Timed
  <2> QED
    BY <2>1, <2>2
<1>3. OnUnitStateChanged(u, i) =
        [[a EXCEPT !.seenActive = @ \/ i.active = "active"] EXCEPT !.phase = p]
  BY DEF OnUnitStateChanged, Rederived, Derived
<1> HIDE DEF a, p
<1>4. /\ OnUnitStateChanged(u, i).left = a.left
      /\ OnUnitStateChanged(u, i).activated = a.activated
  BY <1>1, <1>3 DEF Instances
<1> QED
  BY <1>2, <1>4 DEF Timed

LEMMA OnServiceChangedTimed ==
  ASSUME NEW u \in Watched, NEW i \in Instances, NEW m \in Announcements
  PROVE  LET j == OnServiceChanged(u, i, m) IN
         /\ Timed(u, i, j)
         /\ j.activated => i.activated \/ i.active = "activating"
<1> DEFINE h == [i EXCEPT !.result = m.result]
<1>1. /\ h \in Instances
      /\ h.active = i.active /\ h.activated = i.activated /\ h.left = i.left
  BY DEF Announcements, LiveResults, Results, Instances
<1>2. OnServiceChanged(u, i, m) = OnUnitStateChanged(u, h)
  BY DEF OnServiceChanged
<1> HIDE DEF h
<1> QED
  BY <1>1, <1>2, CallbackTimed DEF Timed

LEMMA OnUnitChangedTimed ==
  ASSUME NEW u \in Watched, NEW i \in Instances, NEW m \in Announcements
  PROVE  LET j == OnUnitChanged(u, i, m) IN
         /\ Timed(u, i, j)
         /\ j.activated => i.activated \/ ActiveOf(m.sub) = "activating"
<1> DEFINE i1 == [i EXCEPT !.active = ActiveOf(m.sub)]
           j1 == OnUnitStateChanged(u, i1)
           i2 == [j1 EXCEPT !.sub = m.sub]
           j2 == OnUnitStateChanged(u, i2)
<1>1. /\ m.sub \in SubStates
      /\ ActiveOf(m.sub) \in ActiveStates
      /\ u \in Units
  BY ActiveOfType DEF Announcements, LiveSubs, SubStates, Watched
<1>2. /\ i1 \in Instances
      /\ i1.active = ActiveOf(m.sub)
      /\ i1.activated = i.activated /\ i1.left = i.left
  BY <1>1 DEF Instances
<1>3. OnUnitChanged(u, i, m) = j2
  BY DEF OnUnitChanged
<1> HIDE DEF i1
<1>4. /\ j1 \in Instances /\ Timed(u, i, j1)
      /\ j1.active = ActiveOf(m.sub)
      /\ (j1.activated => i.activated \/ ActiveOf(m.sub) = "activating")
  BY <1>1, <1>2, OnUnitStateChangedType, CallbackTimed DEF Timed
<1> HIDE DEF j1
<1>5. /\ i2 \in Instances
      /\ i2.active = ActiveOf(m.sub)
      /\ i2.activated = j1.activated /\ i2.left = j1.left
  BY <1>1, <1>4 DEF Instances
<1> HIDE DEF i2
<1>6. Timed(u, j1, j2)
      /\ (j2.activated => j1.activated \/ ActiveOf(m.sub) = "activating")
  BY <1>1, <1>5, CallbackTimed DEF Timed
<1> HIDE DEF j2
<1> QED
  BY <1>3, <1>4, <1>6 DEF Timed

LEMMA ActivatingStates ==
  ASSUME NEW s \in LiveSubs
  PROVE  ActiveOf(s) = "activating" <=> ~NotStarting(s)
BY DEF ActiveOf, LiveSubs, NotStarting

LEMMA InitPatience == Init => PatienceInv
<1> SUFFICES ASSUME Init PROVE PatienceInv
  OBVIOUS
<1>1. PICK live, read, older :
        /\ \A u \in Units : live[u] \in Early(u) /\ read[u] \in Readings(u)
        /\ Remembered(live, read, older)
        /\ ins = [u \in Units |-> Attached(u, read[u])]
        /\ sub = [u \in Units |-> live[u].sub]
        /\ attempts = [u \in Units |-> IF live[u].sub = "start" THEN 1 ELSE 0]
  BY DEF Init
<1>2. TypeOK /\ SystemdTypeOK
  BY InitType DEF TypeOK
<1>3. ASSUME NEW u \in Watched
      PROVE  Unstarted(u) /\ LeavesTime(u)
  <2> DEFINE r == read[u]
             i == [active |-> r.active, sub |-> r.sub, result |-> r.result,
                   seenActive |-> FALSE, activated |-> FALSE,
                   deadline |-> "none", left |-> 0, phase |-> "INTERMEDIATE"]
             j == OnUnitStateChanged(u, i)
  <2>1. /\ u \in Units /\ u \notin triedBefore
        /\ r \in Readings(u) /\ live[u].sub \in LiveSubs
    BY <1>1, EarlyType DEF Watched, Announcements
  <2>2. ins[u] = j
    BY <1>1, <2>1 DEF Attached
  <2>3. /\ r.active \in ActiveStates
        /\ r.sub \in SubStates
        /\ r.result \in Results
        /\ "INTERMEDIATE" \in Phases
    BY <2>1, ReadingsType DEF LiveSubs, LiveResults, SubStates, Results, Phases
  <2>4. /\ sub[u] = live[u].sub
        /\ attempts[u] = IF live[u].sub = "start" THEN 1 ELSE 0
    BY <1>1, <2>1
  <2>5. live[u].sub # "start" =>
          /\ r.active # "activating"
          /\ \A s \in Told(u, live[u], r) : ActiveOf(s) # "activating"
    BY <1>1, <2>1 DEF Remembered
  <2> HIDE DEF r
  <2>6. /\ i \in Instances /\ i.active = r.active
        /\ i.activated = FALSE /\ i.left = 0
    BY <2>3 DEF Instances
  <2> HIDE DEF i
  <2>7. /\ Timed(u, i, j) /\ (j.activated => i.active = "activating")
        /\ j.active = i.active
    BY <2>1, <2>6, CallbackTimed, OnUnitStateChangedType
  <2> HIDE DEF j
  <2>8. Unstarted(u)
    <3>1. ASSUME attempts[u] = 0
          PROVE  /\ NotStarting(sub[u]) /\ r.active # "activating"
                 /\ \A k \in DOMAIN queue :
                       queue[k].unit = u => NotStarting(queue[k].sub)
      <4>1. live[u].sub # "start"
        BY <2>4, <3>1
      <4>2. NotStarting(sub[u])
        BY <2>1, <2>4, <2>5, <4>1, ActivatingStates DEF Told
      <4>3. ASSUME NEW k \in DOMAIN queue, queue[k].unit = u
            PROVE  NotStarting(queue[k].sub)
        <5>1. queue[k].sub \in Told(u, live[u], r) /\ queue[k].sub \in LiveSubs
          BY <1>2, <4>3, QueueHoldsAnnouncements DEF Told, UnitNews, Announcements
        <5> QED
          BY <2>5, <4>1, <5>1, ActivatingStates
      <4> QED
        BY <2>5, <4>1, <4>2, <4>3
    <3> QED
      BY <2>2, <2>6, <2>7, <3>1 DEF Unstarted
  <2>9. LeavesTime(u)
    <3>1. /\ j.activated => j.left = Timeout[u]
          /\ age[u] = 0 /\ Timeout[u] \in Nat
      BY <2>1, <2>6, <2>7, SystemdAssumption DEF Timed, Init
    <3> QED
      BY <2>2, <3>1 DEF LeavesTime
  <2> QED
    BY <2>8, <2>9
<1> QED
  BY <1>2, <1>3 DEF PatienceInv

(* What a step of systemd on u does to its starting. *)
LEMMA LivesStarting ==
  ASSUME SystemdTypeOK, NEW u \in Units, Lives(u)
  PROVE  /\ \A v \in Units \ {u} : /\ sub'[v] = sub[v]
                                   /\ attempts'[v] = attempts[v]
                                   /\ age'[v] = age[v]
         /\ \/ UNCHANGED <<sub, attempts, age>>
            \/ /\ sub'[u] = "start" /\ attempts'[u] = attempts[u] + 1
               /\ queue' = queue
            \/ /\ attempts'[u] = attempts[u] /\ queue' = queue
               /\ \/ NotStarting(sub'[u])
                  \/ sub'[u] = "auto-restart" /\ Policy[u] = "RESTART"
<1> USE DEF SystemdTypeOK
<1>1. ASSUME NEW s, NEW r, Moves(u, s, r)
      PROVE  /\ queue' = queue
             /\ sub'[u] = s
             /\ \A v \in Units \ {u} : sub'[v] = sub[v]
  BY <1>1 DEF Moves
<1>2. CASE Emits(u)
  BY <1>2 DEF Emits, unitVars
<1>3. CASE Starts(u)
  <2>1. /\ queue' = queue /\ sub'[u] = "start"
        /\ \A v \in Units \ {u} : sub'[v] = sub[v]
    BY <1>1, <1>3 DEF Starts
  <2> QED
    BY <1>3, <2>1 DEF Starts
<1>4. \A s \in {"exited", "running", "failed", "stop-sigterm", "dead"} : NotStarting(s)
  BY DEF NotStarting
<1>5. CASE StartSucceeds(u) \/ StartFails(u) \/ Ends(u) \/ Stops(u)
           \/ (Restarts(u) /\ ~Starts(u))
  <2>1. UNCHANGED <<attempts, age>>
    BY <1>5 DEF StartSucceeds, StartFails, Ends, Stops, Restarts
  <2>2. PICK s \in {"exited", "running", "failed", "stop-sigterm", "dead"},
             r \in LiveResults :
          Moves(u, s, r)
    BY <1>5 DEF StartSucceeds, StartFails, Ends, Stops, Restarts, LiveResults
  <2>3. NotStarting(s)
    BY <1>4
  <2>4. /\ queue' = queue /\ sub'[u] = s
        /\ \A v \in Units \ {u} : sub'[v] = sub[v]
    BY <1>1, <2>2
  <2> QED
    BY <2>1, <2>3, <2>4
<1>6. CASE SchedulesRestart(u)
  <2>1. /\ Moves(u, "auto-restart", "exit-code") /\ UNCHANGED attempts
        /\ Policy[u] = "RESTART"
        /\ \A v \in Units \ {u} : age'[v] = age[v]
    BY <1>6 DEF SchedulesRestart, AboutToRestart
  <2>2. /\ queue' = queue /\ sub'[u] = "auto-restart"
        /\ \A v \in Units \ {u} : sub'[v] = sub[v]
    BY <1>1, <2>1
  <2> QED
    BY <2>1, <2>2
<1> QED
  BY <1>2, <1>3, <1>5, <1>6 DEF Lives, RunJob

(* A step after which u is as systemd had it, and its instance as it was or  *)
(* timed anew, while nothing says it is activating that did not.            *)
LEMMA StepOfInstance ==
  ASSUME TypeOK, TypeOK', NEW u \in Watched, Unstarted(u), LeavesTime(u),
         UNCHANGED <<sub, attempts, age>>,
         Timed(u, ins[u], ins'[u]),
         attempts[u] = 0 => /\ ~ins'[u].activated
                            /\ ins'[u].active # "activating"
                            /\ \A k \in DOMAIN queue' :
                                  queue'[k].unit = u => NotStarting(queue'[k].sub)
  PROVE  Unstarted(u)' /\ LeavesTime(u)'
<1>1. Unstarted(u)'
  BY DEF Unstarted
<1>2. /\ u \in Units /\ Timeout[u] \in Nat /\ age[u] \in Nat
      /\ ins[u] \in Instances /\ ins'[u] \in Instances
  BY SystemdAssumption DEF TypeOK, SystemdTypeOK, Watched
<1>3. LeavesTime(u)'
  <2>1. CASE ins'[u].left = Timeout[u]
    BY <1>2, <2>1 DEF LeavesTime
  <2>2. CASE ins'[u].activated = ins[u].activated /\ ins'[u].left = ins[u].left
    BY <2>2 DEF LeavesTime
  <2> QED
    BY <2>1, <2>2 DEF Timed
<1> QED
  BY <1>1, <1>3

LEMMA WatchedStays == [Next]_vars => Watched' = Watched
BY DEF Next, ManagerStep, StartUnit, EntersLoop, Check, Dispatch, DrainEnds, Tick,
       SystemdStep, Returned, vars, earlyVars, Watched

LEMMA PatienceStep == PatienceInv /\ [Next]_vars => PatienceInv'
<1> SUFFICES ASSUME PatienceInv, [Next]_vars PROVE PatienceInv'
  OBVIOUS
<1>1. TypeOK /\ TypeOK' /\ SystemdTypeOK /\ SystemdTypeOK'
  BY NextType DEF PatienceInv, TypeOK
<1>2. \A u \in Watched : u \in Units /\ ins[u] \in Instances /\ ins'[u] \in Instances
  BY <1>1 DEF Watched, TypeOK
<1> SUFFICES ASSUME NEW u \in Watched
             PROVE  Unstarted(u)' /\ LeavesTime(u)'
  BY <1>1, WatchedStays DEF PatienceInv
<1>3. Unstarted(u) /\ LeavesTime(u)
  BY DEF PatienceInv
<1>4. CASE /\ UNCHANGED <<sub, attempts, age, queue>>
           /\ Timed(u, ins[u], ins'[u])
           /\ ins'[u].activated = ins[u].activated
           /\ ins'[u].active = ins[u].active
  <2>1. attempts[u] = 0 => /\ ~ins'[u].activated
                           /\ ins'[u].active # "activating"
                           /\ \A k \in DOMAIN queue' :
                                 queue'[k].unit = u => NotStarting(queue'[k].sub)
    BY <1>3, <1>4 DEF Unstarted
  <2> QED
    BY <1>1, <1>3, <1>4, <2>1, StepOfInstance
<1>5. ASSUME NEW v \in Units, StartUnit(v)
      PROVE  Unstarted(u)' /\ LeavesTime(u)'
  <2>1. ins'[u] = ins[u] \/ ins'[u] = Provisional(u, ins[u])
    BY <1>1, <1>2, <1>5 DEF StartUnit, TypeOK
  <2>2. /\ Timed(u, ins[u], ins'[u])
        /\ ins'[u].activated = ins[u].activated
        /\ ins'[u].active = ins[u].active
    BY <1>2, <2>1, ProvisionalTimed, ProvisionalType DEF Timed, SameState
  <2> QED
    BY <1>4, <1>5, <2>2 DEF StartUnit
<1>6. CASE EntersLoop
  <2>1. ins'[u] = ins[u] \/ ins'[u] = Rederived(u, ins[u])
    BY <1>2, <1>6 DEF EntersLoop
  <2>2. /\ Timed(u, ins[u], ins'[u])
        /\ ins'[u].activated = ins[u].activated
        /\ ins'[u].active = ins[u].active
    BY <1>2, <2>1 DEF Timed, Rederived, Instances
  <2> QED
    BY <1>4, <1>6, <2>2 DEF EntersLoop, systemdVars, unitVars
<1>7. CASE Check
  <2>1. ins'[u] = Reassessed(ins[u])
    BY <1>2, <1>7 DEF Check
  <2>2. /\ Timed(u, ins[u], ins'[u])
        /\ ins'[u].activated = ins[u].activated
        /\ ins'[u].active = ins[u].active
    BY <1>2, <2>1 DEF Timed, Reassessed, Instances
  <2> QED
    BY <1>4, <1>7, <2>2 DEF Check, systemdVars, unitVars
<1>8. CASE DrainEnds \/ UNCHANGED vars
  BY <1>4, <1>8 DEF DrainEnds, Timed, vars, managerVars, systemdVars, unitVars
<1>9. CASE Dispatch
  <2>1. PICK m : m = Head(queue)
    OBVIOUS
  <2>2. m \in Announcements /\ m.unit \in Units /\ m.sub \in LiveSubs
    BY <1>1, <1>9, <2>1, HeadAnnounces DEF Dispatch, Announcements
  <2>3. UNCHANGED <<sub, attempts, age>>
    BY <1>9 DEF Dispatch, unitVars
  <2>4. CASE DispatchService
    <3>1. \/ ins'[u] = ins[u]
          \/ ins'[u] = OnServiceChanged(u, ins[u], m)
      BY <1>1, <1>2, <2>1, <2>4 DEF DispatchService, TypeOK
    <3>2. /\ Timed(u, ins[u], ins'[u])
          /\ ins'[u].active = ins[u].active
          /\ ins'[u].activated => \/ ins[u].activated
                                  \/ ins[u].active = "activating"
      BY <1>2, <2>2, <3>1, OnServiceChangedTimed, OnServiceChangedType DEF Timed
    <3>3. attempts[u] = 0 =>
            /\ ~ins'[u].activated
            /\ ins'[u].active # "activating"
            /\ \A k \in DOMAIN queue' :
                  queue'[k].unit = u => NotStarting(queue'[k].sub)
      BY <1>3, <2>4, <3>2 DEF Unstarted, DispatchService
    <3> QED
      BY <1>1, <1>3, <2>3, <3>2, <3>3, StepOfInstance
  <2>5. CASE DispatchUnit
    <3>1. /\ 1 \in DOMAIN queue /\ m = queue[1]
          /\ \A k \in DOMAIN queue' : /\ k + 1 \in DOMAIN queue
                                      /\ queue'[k] = queue[k + 1]
      <4>1. queue \in Seq(Announcements) /\ queue # << >> /\ queue' = Tail(queue)
        BY <1>1, <1>9, <2>5 DEF Dispatch, DispatchUnit, SystemdTypeOK
      <4> QED
        BY <2>1, <4>1
    <3>2. /\ m.unit = u => ins'[u] = OnUnitChanged(u, ins[u], m)
          /\ m.unit # u => ins'[u] = ins[u]
      BY <1>1, <1>2, <2>1, <2>5 DEF DispatchUnit, TypeOK
    <3>3. Timed(u, ins[u], ins'[u])
      BY <1>2, <2>2, <3>2, OnUnitChangedTimed DEF Timed
    <3>4. ASSUME attempts[u] = 0
          PROVE  /\ ~ins'[u].activated
                 /\ ins'[u].active # "activating"
                 /\ \A k \in DOMAIN queue' :
                       queue'[k].unit = u => NotStarting(queue'[k].sub)
      <4>1. /\ ~ins[u].activated
            /\ ins[u].active # "activating"
            /\ \A k \in DOMAIN queue :
                  queue[k].unit = u => NotStarting(queue[k].sub)
        BY <1>3, <3>4 DEF Unstarted
      <4>2. m.unit = u => ActiveOf(m.sub) # "activating"
        BY <2>2, <3>1, <4>1, ActivatingStates
      <4>3. m.unit = u => ~ins'[u].activated /\ ins'[u].active # "activating"
        BY <1>2, <2>2, <3>2, <4>1, <4>2, OnUnitChangedTimed, OnUnitChangedType
      <4> QED
        BY <3>1, <3>2, <4>1, <4>3
    <3> QED
      BY <1>1, <1>3, <2>3, <3>3, <3>4, StepOfInstance
  <2> QED
    BY <1>9, <2>4, <2>5 DEF Dispatch
<1>10. CASE Tick
  <2>1. UNCHANGED <<sub, attempts, queue>>
    BY <1>10 DEF Tick
  <2>2. PICK i \in Instances : i = ins[u]
    BY <1>2
  <2>3. ins'[u] = IF i.deadline = "finite" /\ i.left >= 0
                    THEN [i EXCEPT !.left = i.left - 1] ELSE i
    BY <1>2, <1>10, <2>2 DEF Tick
  <2>4. /\ ins'[u].activated = i.activated /\ ins'[u].active = i.active
        /\ ins'[u].left >= i.left - 1
        /\ i.left \in Int /\ ins'[u].left \in Int
    BY <2>3 DEF Instances
  <2>5. Unstarted(u)'
    BY <1>3, <2>1, <2>2, <2>4 DEF Unstarted
  <2>6. sub[u] = "start" => age'[u] = age[u] + 1
    BY <1>2, <1>10 DEF Tick, Ages, Watched
  <2>7. Timeout[u] \in Nat /\ age[u] \in Nat
    BY <1>1, <1>2, SystemdAssumption DEF SystemdTypeOK
  <2>8. LeavesTime(u)'
    BY <1>3, <2>1, <2>2, <2>4, <2>6, <2>7 DEF LeavesTime
  <2> QED
    BY <2>5, <2>8
<1>11. ASSUME NEW v \in Units, SystemdStep(v)
       PROVE  Unstarted(u)' /\ LeavesTime(u)'
  <2>1. ins' = ins /\ Lives(v)
    BY <1>11 DEF SystemdStep, managerVars
  <2>2. attempts[u] = 0 =>
          \A k \in DOMAIN queue' : queue'[k].unit = u => NotStarting(queue'[k].sub)
    <3>1. CASE queue' = queue
      BY <1>3, <3>1 DEF Unstarted
    <3>2. ASSUME NEW m, m = [unit |-> v, sub |-> sub[v], result |-> result[v]],
                 queue' = Append(queue, m)
          PROVE  attempts[u] = 0 =>
                   \A k \in DOMAIN queue' :
                     queue'[k].unit = u => NotStarting(queue'[k].sub)
      <4>1. m.unit = v /\ m.sub = sub[v]
        BY <3>2
      <4>2. \A k \in DOMAIN queue' :
              (k \in DOMAIN queue /\ queue'[k] = queue[k]) \/ queue'[k] = m
        <5>1. queue \in Seq(Announcements)
          BY <1>1 DEF SystemdTypeOK
        <5> QED
          BY <3>2, <5>1, AppendProperties
      <4> QED
        BY <1>3, <4>1, <4>2 DEF Unstarted
    <3> QED
      BY <1>1, <2>1, <3>1, <3>2, LivesNews
  <2>3. CASE UNCHANGED <<sub, attempts, age>>
    <3>1. Timed(u, ins[u], ins'[u])
      BY <2>1 DEF Timed
    <3> QED
      BY <1>1, <1>3, <2>1, <2>2, <2>3, <3>1, StepOfInstance DEF Unstarted
  <2>4. CASE u # v
    <3>1. sub'[u] = sub[u] /\ attempts'[u] = attempts[u] /\ age'[u] = age[u]
      BY <1>1, <1>2, <2>1, <2>4, LivesStarting
    <3> QED
      BY <1>3, <2>1, <2>2, <3>1 DEF Unstarted, LeavesTime
  <2>5. CASE u = v /\ sub'[u] = "start" /\ attempts'[u] = attempts[u] + 1
    <3>1. attempts[u] \in Nat
      BY <1>1, <1>2 DEF SystemdTypeOK
    <3>2. Unstarted(u)'
      BY <2>5, <3>1 DEF Unstarted
    <3>3. attempts'[u] = 1 => ~ins[u].activated
      BY <1>3, <2>5, <3>1 DEF Unstarted
    <3>4. LeavesTime(u)'
      BY <2>1, <3>3 DEF LeavesTime
    <3> QED
      BY <3>2, <3>4
  <2>6. CASE u = v /\ attempts'[u] = attempts[u] /\ NotStarting(sub'[u])
    BY <1>3, <2>1, <2>2, <2>6 DEF Unstarted, LeavesTime, NotStarting
  <2>7. Policy[u] # "RESTART"
    BY DEF Watched
  <2> QED
    BY <1>1, <2>1, <2>3, <2>4, <2>5, <2>6, <2>7, LivesStarting
<1> QED
  BY <1>5, <1>6, <1>7, <1>8, <1>9, <1>10, <1>11 DEF Next, ManagerStep, Returned

(* The supervisor never gives up on an Abort unit before systemd does: from  *)
(* the first sight of ACTIVATING its deadline leaves at least the time      *)
(* systemd still grants its first start attempt (arm_start_deadline), unless *)
(* the ACTIVATING was that of an attempt already over when the run began.   *)
THEOREM DeadlinesPatient == Spec => []Patience
<1>1. PatienceInv => Patience
  BY DEF PatienceInv, LeavesTime, Watched, Patience
<1> QED
  BY InitPatience, <1>1, PatienceStep, PTL DEF Spec
=============================================================================
