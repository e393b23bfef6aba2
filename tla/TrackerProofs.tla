----------------------------- MODULE TrackerProofs -----------------------------
(***************************************************************************)
(* The cache loses nothing, for every set of units and any number of       *)
(* signals in flight.                                                      *)
(***************************************************************************)
EXTENDS Tracker, SequenceTheorems, TLAPS

InBus(kind, u) ==
  \E k \in DOMAIN signals : signals[k].kind = kind /\ signals[k].unit = u

(* A unit is attached exactly while its signals are routed to the process. *)
Subscribed == attached = matched

(* A unit whose UnitNew is owed has an announcement coming. *)
AnnouncementOwed == loaded \ announced \subseteq dirty

(* A known unit that is not attached will be, or its attach failed. *)
AttachComing ==
  \A u \in (loaded \cap announced) \ attached :
     u \in todo \cup gaveUp \/ Calling(u) \/ InBus("new", u)

(* A UnitRemoved in flight is of a unit still gone, or has a UnitNew after  *)
(* it, in flight or owed.                                                   *)
NewFollows(k) ==
  \E l \in DOMAIN signals : /\ k < l
                            /\ signals[l].kind = "new"
                            /\ signals[l].unit = signals[k].unit

RemovalFollowed ==
  \A k \in DOMAIN signals :
    /\ signals[k].kind = "removed"
    /\ signals[k].unit \in loaded \cap announced
    => NewFollows(k)

(* Nothing but PropertiesChanged is under way for u. *)
Stable(u) ==
  u \in (loaded \cap attached) \ dirty /\ ~InBus("new", u) /\ ~InBus("removed", u)

Last(k) == \A l \in DOMAIN signals :
             k < l => ~(/\ signals[l].kind = "changed"
                        /\ signals[l].unit = signals[k].unit)

(* The last PropertiesChanged of a unit carries its state. *)
NewsTrue(u, k) ==
  /\ signals[k].kind = "changed" /\ signals[k].unit = u
  /\ Stable(u)
  /\ Last(k)
  => signals[k].state = live[u]

LastNewsTrue == \A u \in Units : \A k \in DOMAIN signals : NewsTrue(u, k)

(* A snapshot is of an attached unit, what precedes it of a detached one. *)
CallFits ==
  \A u \in Units : Calling(u) =>
    (u \in attached <=> call.step \in {"active", "sub", "result"})

(* The fields a snapshot has read so far are current, and so are all of     *)
(* them after it, unless news of them is under way or a read has failed.    *)
Fields(u) ==
  u \notin unread =>
    /\ ~Calling(u) \/ call.step \in {"sub", "result"}
         => cache[u].active = ActiveOf(live[u])
    /\ ~Calling(u) \/ call.step = "result" => cache[u].sub = live[u]
    /\ ~Calling(u) => cache[u].result = ResultOf(live[u])

CacheTrue ==
  \A u \in Units : Stable(u) /\ ~InBus("changed", u) => Fields(u)

Safe ==
  /\ Subscribed
  /\ AnnouncementOwed
  /\ AttachComing
  /\ RemovalFollowed
  /\ LastNewsTrue
  /\ CallFits
  /\ CacheTrue

-----------------------------------------------------------------------------
(* A signal sent and a signal dispatched. *)
LEMMA Sent ==
  ASSUME NEW S, NEW s \in Seq(S), NEW m \in S, NEW t, t = Append(s, m)
  PROVE  /\ t \in Seq(S)
         /\ Len(s) + 1 \in DOMAIN t
         /\ t[Len(s) + 1] = m
         /\ \A k \in DOMAIN s : /\ k \in DOMAIN t /\ t[k] = s[k]
                                /\ k \in Nat /\ k < Len(s) + 1
         /\ \A k \in DOMAIN t : k \in DOMAIN s \/ k = Len(s) + 1
  BY AppendProperties

LEMMA Received ==
  ASSUME NEW S, NEW s \in Seq(S), s # << >>, NEW t, t = Tail(s)
  PROVE  /\ t \in Seq(S)
         /\ Head(s) \in S
         /\ 1 \in DOMAIN s /\ s[1] = Head(s)
         /\ \A k \in DOMAIN t : /\ k \in Nat
                                /\ k + 1 \in DOMAIN s /\ t[k] = s[k + 1]
         /\ \A k \in DOMAIN s : \/ k = 1
                               \/ /\ k \in Nat /\ 1 < k
                                  /\ k - 1 \in DOMAIN t /\ t[k - 1] = s[k]
  BY HeadTailProperties

LEMMA ActiveOfState == ASSUME NEW s \in States PROVE ActiveOf(s) \in ActiveStates
  BY DEF States, ActiveOf, ActiveStates

LEMMA ReportedType ==
  ASSUME NEW c \in Cached
  PROVE  /\ Reported(c) \in Cached
         /\ Reported(c).active = c.active
         /\ Reported(c).sub = c.sub
         /\ Reported(c).result = c.result
  BY DEF Reported, Cached

-----------------------------------------------------------------------------
LEMMA InitType == Init => TypeOK
<1> SUFFICES ASSUME Init PROVE TypeOK
  OBVIOUS
<1>1. Blank \in Cached
  BY DEF Blank, Cached, ActiveStates, SubStates, Results
<1>2. << >> \in Seq(Signals)
  BY EmptySeq
<1>3. live \in [Units -> States]
  BY DEF Init, States
<1> QED
  BY <1>1, <1>2, <1>3 DEF Init, TypeOK, Calls

LEMMA SignalType ==
  ASSUME TypeOK, NEW k \in DOMAIN signals
  PROVE  /\ signals[k] \in Signals
         /\ signals[k].unit \in Units
<1>1. signals \in Seq(Signals)
  BY DEF TypeOK
<1>2. signals[k] \in Signals
  BY <1>1, ElementOfSeq
<1> QED
  BY <1>2 DEF Signals

LEMMA UnheardType ==
  ASSUME TypeOK, NEW u \in Units
  PROVE  /\ Unheard(u) \in Seq(Signals)
         /\ DOMAIN Unheard(u) = DOMAIN signals
<1>1. signals \in Seq(Signals)
  BY DEF TypeOK
<1>2. \A k \in DOMAIN signals : signals[k] \in Signals
  BY SignalType
<1>3. \A m \in Signals : [m EXCEPT !.kind = "stale"] \in Signals
  BY DEF Signals
<1>4. DOMAIN signals = 1 .. Len(signals) /\ Len(signals) \in Nat
  BY <1>1
<1> QED
  BY <1>2, <1>3, <1>4, IsASeq DEF Unheard

(* What Reported and the three reads make of a cache entry is one. *)
LEMMA ReadType ==
  ASSUME NEW c \in Cached, NEW s \in States
  PROVE  /\ [c EXCEPT !.active = ActiveOf(s)] \in Cached
         /\ [c EXCEPT !.sub = s] \in Cached
         /\ Reported([c EXCEPT !.result = ResultOf(s)]) \in Cached
         /\ Reported([c EXCEPT !.active = ActiveOf(s), !.sub = s,
                               !.result = ResultOf(s)]) \in Cached
<1>1. /\ ActiveOf(s) \in ActiveStates
      /\ s \in SubStates
      /\ ResultOf(s) \in Results
  BY ActiveOfState DEF States, SubStates, ResultOf, Results
<1>2. /\ [c EXCEPT !.active = ActiveOf(s)] \in Cached
      /\ [c EXCEPT !.sub = s] \in Cached
      /\ [c EXCEPT !.result = ResultOf(s)] \in Cached
  BY <1>1 DEF Cached
<1>3. [c EXCEPT !.active = ActiveOf(s), !.sub = s, !.result = ResultOf(s)] \in Cached
  BY <1>1 DEF Cached
<1> QED
  BY <1>2, <1>3, ReportedType

LEMMA NextType == TypeOK /\ [Next]_vars => TypeOK'
<1> SUFFICES ASSUME TypeOK, [Next]_vars PROVE TypeOK'
  OBVIOUS
<1> USE DEF systemdVars, busVars, processVars
<1>1. ASSUME NEW u \in Units, SystemdStep(u) PROVE TypeOK'
  <2>1. CASE Changes(u) /\ UNCHANGED signals
    BY <1>1, <2>1, TrackerAssumption DEF SystemdStep, Changes, TypeOK, States
  <2>2. CASE Announces(u)
    <3>1. live[u] \in States
      BY DEF TypeOK
    <3>2. signals' \in Seq(Signals)
      BY <2>2, <3>1, AppendProperties DEF Announces, Signals, States, TypeOK
    <3> QED
      BY <1>1, <2>2, <3>2 DEF SystemdStep, Announces, TypeOK
  <2>3. CASE Loads(u) /\ UNCHANGED signals
    BY <1>1, <2>3 DEF SystemdStep, Loads, TypeOK
  <2>4. CASE Unloads(u)
    <3>1. signals' \in Seq(Signals)
      BY <2>4, AppendProperties DEF Unloads, Signals, States, TypeOK
    <3> QED
      BY <1>1, <2>4, <3>1 DEF SystemdStep, Unloads, TypeOK
  <2> QED
    BY <1>1, <2>1, <2>2, <2>3, <2>4 DEF SystemdStep
<1>2. ASSUME NEW u \in Units, AttachStep(u) PROVE TypeOK'
  <2>1. CASE Resolve(u)
    BY <2>1 DEF Resolve, Goes, Loads, TypeOK, Calls, Steps
  <2>2. CASE Subscribe(u)
    BY <2>2, UnheardType DEF Subscribe, Goes, TypeOK, Calls, Steps
  <2>3. live[u] \in States /\ cache[u] \in Cached
    BY DEF TypeOK
  <2>4. CASE GetActiveState(u)
    BY <2>3, <2>4, ReadType DEF GetActiveState, Goes, TypeOK, Calls, Steps
  <2>5. CASE GetSubState(u)
    BY <2>3, <2>5, ReadType DEF GetSubState, Goes, TypeOK, Calls, Steps
  <2>6. CASE GetResult(u)
    BY <2>3, <2>6, ReadType DEF GetResult, TypeOK, Calls
  <2>7. CASE GetFails(u)
    BY <2>3, <2>7, ReportedType DEF GetFails, Goes, TypeOK, Calls, Steps
  <2> QED
    BY <1>2, <2>1, <2>2, <2>4, <2>5, <2>6, <2>7 DEF AttachStep
<1>3. ASSUME NEW u \in Units, AttachNext(u) PROVE TypeOK'
  BY <1>3 DEF AttachNext, Goes, TypeOK, Calls, Steps
<1>4. ASSUME Dispatch PROVE TypeOK'
  <2> DEFINE m == Head(signals)
  <2>1. m \in Signals /\ signals' \in Seq(Signals)
    BY <1>4, Received DEF Dispatch, TypeOK
  <2>2. /\ m.unit \in Units
        /\ m.state \in States
        /\ cache[m.unit] \in Cached
    BY <2>1 DEF Signals, TypeOK
  <2>3. /\ attached' \subseteq Units
        /\ matched' \subseteq Units
        /\ call' \in Calls
        /\ cache' \in [Units -> Cached]
        /\ unread' \subseteq Units
    <3>1. CASE OnPropertiesChanged(m)
      BY <2>2, <3>1, ReadType DEF OnPropertiesChanged, TypeOK
    <3>2. CASE OnUnitNew(m)
      BY <2>2, <3>2 DEF OnUnitNew, Goes, Calls, Steps, TypeOK
    <3>3. CASE OnUnitRemoved(m)
      BY <2>2, <3>3 DEF OnUnitRemoved, TypeOK
    <3>4. CASE UNCHANGED <<attached, matched, cache, call, unread>>
      BY <3>4 DEF TypeOK
    <3> QED
      BY <1>4, <3>1, <3>2, <3>3, <3>4 DEF Dispatch
  <2> QED
    BY <1>4, <2>1, <2>3 DEF Dispatch, TypeOK
<1>5. CASE UNCHANGED vars
  BY <1>5 DEF vars, TypeOK
<1> QED
  BY <1>1, <1>2, <1>3, <1>4, <1>5 DEF Next

(* Every variable of the tracker keeps its type, for every set of units and *)
(* capacity of the bus: in particular no cache entry ever leaves the values *)
(* the properties may have (struct tracked_unit).                           *)
THEOREM TrackerTypeCorrect == Spec => []TypeOK
  BY InitType, NextType, PTL DEF Spec

-----------------------------------------------------------------------------
LEMMA InitSafe == Init => Safe
<1> SUFFICES ASSUME Init PROVE Safe
  OBVIOUS
<1>1. DOMAIN signals = {}
  BY DEF Init
<1>2. Subscribed /\ AnnouncementOwed /\ AttachComing
  BY DEF Init, Subscribed, AnnouncementOwed, AttachComing
<1>3. RemovalFollowed /\ LastNewsTrue
  BY <1>1 DEF RemovalFollowed, LastNewsTrue
<1>4. CallFits
  BY DEF Init, CallFits, Calling, Idle, Steps
<1>5. CacheTrue
  BY DEF Init, CacheTrue, Stable
<1> QED
  BY <1>2, <1>3, <1>4, <1>5 DEF Safe

(* A change or a load of a unit makes it dirty, so nothing is said of it.   *)
LEMMA DirtyStepSafe ==
  ASSUME TypeOK, Safe, NEW u \in Units, Changes(u) \/ Loads(u),
         UNCHANGED <<signals, matched, attached, cache, todo>>,
         \A v \in Units : Calling(v)' <=> Calling(v),
         call'.step = call.step \/ {call.step, call'.step} \subseteq {"load", "match"},
         gaveUp' = gaveUp, unread' = unread
  PROVE  Safe'
<1>1. /\ dirty' = dirty \cup {u}
      /\ \A v \in Units \ {u} : /\ live'[v] = live[v]
                                /\ v \in loaded' <=> v \in loaded
                                /\ v \in announced' <=> v \in announced
      /\ loaded' \cap announced' \subseteq loaded \cap announced
      /\ loaded' \ announced' \subseteq (loaded \ announced) \cup {u}
  BY DEF Changes, Loads, TypeOK
<1>2. \A kind, v : InBus(kind, v)' <=> InBus(kind, v)
  BY DEF InBus
<1>3. \A v \in Units : Stable(v)' => Stable(v) /\ v # u
  BY <1>1, <1>2 DEF Stable
<1>4. Subscribed' /\ AnnouncementOwed'
  BY <1>1 DEF Safe, Subscribed, AnnouncementOwed
<1>5. AttachComing'
  BY <1>1, <1>2 DEF Safe, AttachComing, TypeOK
<1>6. RemovalFollowed'
  BY <1>1 DEF Safe, RemovalFollowed, NewFollows
<1>7. LastNewsTrue'
  BY <1>1, <1>3 DEF Safe, LastNewsTrue, NewsTrue, Last
<1>8. CallFits'
  BY DEF Safe, CallFits
<1>9. CacheTrue'
  <2> SUFFICES ASSUME NEW v \in Units, Stable(v)', ~InBus("changed", v)'
               PROVE  Fields(v)'
    BY DEF CacheTrue
  <2>1. Stable(v) /\ ~InBus("changed", v) /\ live'[v] = live[v]
    BY <1>1, <1>2, <1>3
  <2>2. Fields(v)
    BY <2>1 DEF Safe, CacheTrue
  <2> QED
    BY <2>1, <2>2 DEF Fields
<1> QED
  BY <1>4, <1>5, <1>6, <1>7, <1>8, <1>9 DEF Safe

(* A unit announced: what is sent is its UnitNew, or its true state.        *)
LEMMA AnnouncesSafe ==
  ASSUME TypeOK, TypeOK', Safe, NEW u \in Units, Announces(u),
         UNCHANGED <<matched, processVars>>
  PROVE  Safe'
<1> USE DEF processVars
<1> DEFINE n == Len(signals) + 1
<1>1. \/ /\ u \notin announced
         /\ \E m \in Signals : /\ m.kind = "new" /\ m.unit = u
                              /\ signals' = Append(signals, m)
      \/ /\ u \in announced /\ u \in attached
         /\ \E m \in Signals : /\ m.kind = "changed" /\ m.unit = u
                              /\ m.state = live[u]
                              /\ signals' = Append(signals, m)
      \/ /\ u \in announced /\ u \notin attached
         /\ signals' = signals
  BY DEF Announces, Safe, Subscribed, Signals, States, TypeOK
<1>2. /\ UNCHANGED <<live, loaded, attached, matched, cache, call, todo, gaveUp, unread>>
      /\ announced' = announced \cup {u}
      /\ dirty' = dirty \ {u}
  BY DEF Announces
<1>3. Subscribed' /\ AnnouncementOwed' /\ CallFits'
  BY <1>2 DEF Safe, Subscribed, AnnouncementOwed, CallFits, Calling
<1>4. \A v \in Units : Calling(v)' <=> Calling(v)
  BY <1>2 DEF Calling
<1>5. CASE u \in announced /\ u \notin attached /\ signals' = signals
  <2>1. \A kind, v : InBus(kind, v)' <=> InBus(kind, v)
    BY <1>5 DEF InBus
  <2>2. \A v \in Units : Stable(v)' => Stable(v)
    BY <1>2, <1>5, <2>1 DEF Stable
  <2>3. AttachComing'
    BY <1>2, <1>4, <1>5, <2>1 DEF Safe, AttachComing, TypeOK
  <2>4. RemovalFollowed'
    BY <1>2, <1>5 DEF Safe, RemovalFollowed, NewFollows
  <2>5. LastNewsTrue'
    BY <1>2, <1>5, <2>2 DEF Safe, LastNewsTrue, NewsTrue, Last
  <2>6. CacheTrue'
    BY <1>2, <1>4, <2>1, <2>2 DEF Safe, CacheTrue, Fields
  <2> QED
    BY <1>3, <2>3, <2>4, <2>5, <2>6 DEF Safe
<1>6. ASSUME NEW m \in Signals, signals' = Append(signals, m), m.unit = u,
             \/ u \notin announced /\ m.kind = "new"
             \/ /\ u \in announced /\ u \in attached
                /\ m.kind = "changed" /\ m.state = live[u]
      PROVE  Safe'
  <2>1. signals \in Seq(Signals)
    BY DEF TypeOK
  <2>2. /\ n \in DOMAIN signals' /\ signals'[n] = m
        /\ \A k \in DOMAIN signals : /\ k \in DOMAIN signals'
                                     /\ signals'[k] = signals[k]
                                     /\ k \in Nat /\ k < n
        /\ \A k \in DOMAIN signals' : k \in DOMAIN signals \/ k = n
    BY <1>6, <2>1, Sent
  <2> HIDE DEF n
  <2>3. \A kind : \A v \in Units :
          InBus(kind, v)' <=> InBus(kind, v) \/ (v = u /\ kind = m.kind)
    BY <1>6, <2>2 DEF InBus
  <2>4. \A v \in Units : Stable(v)' => v = u \/ Stable(v)
    BY <1>2, <2>3 DEF Stable
  <2>5. AttachComing'
    BY <1>2, <1>4, <1>6, <2>3 DEF Safe, AttachComing, TypeOK
  <2>6. RemovalFollowed'
    <3> SUFFICES ASSUME NEW k \in DOMAIN signals',
                        signals'[k].kind = "removed",
                        signals'[k].unit \in loaded' \cap announced'
                 PROVE  NewFollows(k)'
      BY DEF RemovalFollowed
    <3>1. k \in DOMAIN signals /\ signals'[k] = signals[k]
      BY <1>6, <2>2
    <3>2. CASE signals[k].unit \in announced
      BY <1>2, <2>2, <3>1, <3>2 DEF Safe, RemovalFollowed, NewFollows
    <3>3. CASE signals[k].unit \notin announced
      BY <1>2, <1>6, <2>2, <3>1, <3>3 DEF NewFollows
    <3> QED
      BY <3>2, <3>3
  <2>7. LastNewsTrue'
    <3> SUFFICES ASSUME NEW v \in Units, NEW k \in DOMAIN signals',
                        signals'[k].kind = "changed", signals'[k].unit = v,
                        Stable(v)', Last(k)'
                 PROVE  signals'[k].state = live'[v]
      BY DEF LastNewsTrue, NewsTrue
    <3>1. CASE k = n
      BY <1>2, <1>6, <2>2, <3>1
    <3>2. CASE k # n
      <4>1. k \in DOMAIN signals /\ signals'[k] = signals[k]
        BY <2>2, <3>2
      <4>2. v # u
        BY <1>6, <2>2, <2>3, <4>1 DEF Last, Stable
      <4>3. Stable(v)
        BY <2>4, <4>2
      <4>4. Last(k)
        BY <2>2, <4>1 DEF Last
      <4> QED
        BY <1>2, <4>1, <4>3, <4>4 DEF Safe, LastNewsTrue, NewsTrue
    <3> QED
      BY <3>1, <3>2
  <2>8. CacheTrue'
    <3> SUFFICES ASSUME NEW v \in Units, Stable(v)', ~InBus("changed", v)'
                 PROVE  Fields(v)'
      BY DEF CacheTrue
    <3>1. v # u
      BY <1>6, <2>3 DEF Stable
    <3> QED
      BY <1>2, <1>4, <2>3, <2>4, <3>1 DEF Safe, CacheTrue, Fields
  <2> QED
    BY <1>3, <2>5, <2>6, <2>7, <2>8 DEF Safe
<1> QED
  BY <1>1, <1>5, <1>6

(* A unit forgotten: nothing is said of it any more. *)
LEMMA UnloadsSafe ==
  ASSUME TypeOK, TypeOK', Safe, NEW u \in Units, Unloads(u),
         UNCHANGED <<matched, processVars>>
  PROVE  Safe'
<1> USE DEF processVars
<1> DEFINE n == Len(signals) + 1
<1>1. PICK m \in Signals : /\ m.kind = "removed" /\ m.unit = u
                           /\ signals' = Append(signals, m)
  BY DEF Unloads, Signals, States
<1>2. /\ UNCHANGED <<live, attached, matched, cache, call, todo, gaveUp, unread>>
      /\ UNCHANGED <<announced, dirty>>
      /\ loaded' = loaded \ {u}
  BY DEF Unloads
<1>3. signals \in Seq(Signals)
  BY DEF TypeOK
<1>4. /\ n \in DOMAIN signals' /\ signals'[n] = m
      /\ \A k \in DOMAIN signals : /\ k \in DOMAIN signals'
                                   /\ signals'[k] = signals[k]
                                   /\ k \in Nat /\ k < n
      /\ \A k \in DOMAIN signals' : k \in DOMAIN signals \/ k = n
  BY <1>1, <1>3, Sent
<1> HIDE DEF n
<1>5. \A kind : \A v \in Units :
        InBus(kind, v)' <=> InBus(kind, v) \/ (v = u /\ kind = "removed")
  BY <1>1, <1>4 DEF InBus
<1>6. \A v \in Units : Stable(v)' => Stable(v) /\ v # u
  BY <1>2, <1>5 DEF Stable
<1>7. \A v \in Units : Calling(v)' <=> Calling(v)
  BY <1>2 DEF Calling
<1>8. Subscribed' /\ AnnouncementOwed' /\ CallFits'
  BY <1>2 DEF Safe, Subscribed, AnnouncementOwed, CallFits, Calling
<1>9. AttachComing'
  BY <1>2, <1>5, <1>7 DEF Safe, AttachComing, TypeOK
<1>10. RemovalFollowed'
  BY <1>1, <1>2, <1>4 DEF Safe, RemovalFollowed, NewFollows
<1>11. LastNewsTrue'
  <2> SUFFICES ASSUME NEW v \in Units, NEW k \in DOMAIN signals',
                      signals'[k].kind = "changed", signals'[k].unit = v,
                      Stable(v)', Last(k)'
               PROVE  signals'[k].state = live'[v]
    BY DEF LastNewsTrue, NewsTrue
  <2>1. k \in DOMAIN signals /\ signals'[k] = signals[k]
    BY <1>1, <1>4
  <2>2. Stable(v)
    BY <1>6
  <2>3. Last(k)
    BY <1>4, <2>1 DEF Last
  <2> QED
    BY <1>2, <2>1, <2>2, <2>3 DEF Safe, LastNewsTrue, NewsTrue
<1>12. CacheTrue'
  BY <1>2, <1>5, <1>6, <1>7 DEF Safe, CacheTrue, Fields
<1> QED
  BY <1>8, <1>9, <1>10, <1>11, <1>12 DEF Safe

-----------------------------------------------------------------------------
(* The steps of attaching u *)
LEMMA CallingOnly ==
  ASSUME NEW u \in Units, NEW step \in Steps, InCall(u, step)
  PROVE  /\ Calling(u) /\ call.step = step
         /\ \A v \in Units : Calling(v) => v = u
  BY DEF InCall, Calling

(* Where a call is next, or that it is over. *)
LEMMA CallGoes ==
  ASSUME NEW u \in Units, NEW step \in Steps, InCall(u, step)
  PROVE  /\ \A next \in Steps :
              Goes(u, next) => /\ \A v \in Units : Calling(v)' <=> Calling(v)
                               /\ call'.step = next
         /\ call' = Idle => \A v \in Units : ~Calling(v)'
  BY DEF InCall, Goes, Calling, Idle, Steps

LEMMA ResolveSafe ==
  ASSUME TypeOK, Safe, NEW u \in Units, Resolve(u)
  PROVE  Safe'
<1> USE DEF systemdVars, busVars
<1>1. /\ InCall(u, "load")
      /\ UNCHANGED <<signals, matched, attached, cache, todo, unread>>
  BY DEF Resolve
<1>2. Calling(u) /\ call.step = "load" /\ \A v \in Units : Calling(v) => v = u
  BY <1>1, CallingOnly DEF Steps
<1>3. u \notin attached
  BY <1>2 DEF Safe, CallFits
<1>4. \A kind, v : InBus(kind, v)' <=> InBus(kind, v)
  BY <1>1 DEF InBus
<1>5. CASE Goes(u, "match") /\ Loads(u) /\ UNCHANGED gaveUp
  BY <1>1, <1>2, <1>5, CallGoes, DirtyStepSafe DEF Steps
<1>6. CASE UNCHANGED systemdVars
  <2>1. \A v \in Units : Stable(v)' => Stable(v) /\ v # u
    BY <1>1, <1>3, <1>4, <1>6 DEF Stable
  <2>2. Subscribed' /\ AnnouncementOwed'
    BY <1>1, <1>6 DEF Safe, Subscribed, AnnouncementOwed
  <2>3. RemovalFollowed' /\ LastNewsTrue'
    BY <1>1, <1>6, <2>1
       DEF Safe, RemovalFollowed, NewFollows, LastNewsTrue, NewsTrue, Last
  <2>4. \/ /\ Goes(u, "match") /\ gaveUp' = gaveUp
        \/ /\ call' = Idle /\ gaveUp' = gaveUp \cup {u}
    BY DEF Resolve
  <2>5. CallFits'
    BY <1>1, <1>2, <1>3, <2>4, CallGoes DEF Steps, CallFits
  <2>6. AttachComing'
    BY <1>1, <1>2, <1>4, <1>6, <2>4, CallGoes DEF Steps, Safe, AttachComing, TypeOK
  <2>7. CacheTrue'
    <3> SUFFICES ASSUME NEW v \in Units, Stable(v)', ~InBus("changed", v)'
                 PROVE  Fields(v)'
      BY DEF CacheTrue
    <3>1. v # u /\ Stable(v) /\ ~InBus("changed", v)
      BY <1>4, <2>1
    <3> QED
      BY <1>1, <1>2, <1>6, <3>1 DEF Safe, CacheTrue, Fields
  <2> QED
    BY <2>2, <2>3, <2>5, <2>6, <2>7 DEF Safe
<1> QED
  BY <1>5, <1>6 DEF Resolve

LEMMA SubscribeSafe ==
  ASSUME TypeOK, Safe, NEW u \in Units, Subscribe(u)
  PROVE  Safe'
<1> USE DEF systemdVars, busVars
<1>1. InCall(u, "match") /\ UNCHANGED <<systemdVars, cache, todo>>
  BY DEF Subscribe
<1>2. Calling(u) /\ call.step = "match" /\ \A v \in Units : Calling(v) => v = u
  BY <1>1, CallingOnly DEF Steps
<1>3. u \notin attached
  BY <1>2 DEF Safe, CallFits
<1>4. AnnouncementOwed'
  BY <1>1 DEF Safe, AnnouncementOwed
<1>5. CASE /\ call' = Idle /\ gaveUp' = gaveUp \cup {u}
           /\ UNCHANGED <<attached, busVars, unread>>
  <2>1. \A kind, v : InBus(kind, v)' <=> InBus(kind, v)
    BY <1>5 DEF InBus
  <2>2. \A v \in Units : Stable(v)' => Stable(v) /\ v # u
    BY <1>1, <1>3, <1>5, <2>1 DEF Stable
  <2>3. Subscribed' /\ RemovalFollowed' /\ LastNewsTrue'
    BY <1>1, <1>5, <2>2
       DEF Safe, Subscribed, RemovalFollowed, NewFollows, LastNewsTrue, NewsTrue, Last
  <2>4. CallFits' /\ AttachComing'
    BY <1>1, <1>2, <1>5, <2>1, CallGoes
       DEF Steps, Safe, CallFits, AttachComing, TypeOK
  <2>5. CacheTrue'
    BY <1>1, <1>2, <1>5, <2>1, <2>2 DEF Safe, CacheTrue, Fields
  <2> QED
    BY <1>4, <2>3, <2>4, <2>5 DEF Safe
<1>6. CASE /\ Goes(u, "active")
           /\ attached' = attached \cup {u}
           /\ matched' = matched \cup {u}
           /\ signals' = Unheard(u)
           /\ unread' = unread \ {u}
           /\ UNCHANGED gaveUp
  <2>1. /\ DOMAIN signals' = DOMAIN signals
        /\ \A k \in DOMAIN signals :
             /\ signals'[k].unit = signals[k].unit
             /\ signals'[k].state = signals[k].state
             /\ signals'[k].kind = IF signals[k].kind = "changed"
                                      /\ signals[k].unit = u
                                     THEN "stale" ELSE signals[k].kind
    BY <1>6, SignalType DEF Unheard, Signals
  <2>2. \A v \in Units : /\ InBus("new", v)' <=> InBus("new", v)
                         /\ InBus("removed", v)' <=> InBus("removed", v)
                         /\ v # u => (InBus("changed", v)' <=> InBus("changed", v))
    BY <2>1 DEF InBus
  <2>3. \A v \in Units : Stable(v)' => v = u \/ Stable(v)
    BY <1>1, <1>6, <2>2 DEF Stable
  <2>4. /\ \A v \in Units : Calling(v)' <=> Calling(v)
        /\ call'.step = "active"
    BY <1>1, <1>6, CallGoes DEF Steps
  <2>5. Subscribed' /\ CallFits'
    BY <1>2, <1>6, <2>4 DEF Safe, Subscribed, CallFits
  <2>6. AttachComing'
    BY <1>1, <1>6, <2>2, <2>4 DEF Safe, AttachComing, TypeOK
  <2>7. RemovalFollowed'
    BY <1>1, <2>1 DEF Safe, RemovalFollowed, NewFollows
  <2>8. LastNewsTrue'
    BY <1>1, <2>1, <2>3 DEF Safe, LastNewsTrue, NewsTrue, Last
  <2>9. CacheTrue'
    <3> SUFFICES ASSUME NEW v \in Units, Stable(v)', ~InBus("changed", v)'
                 PROVE  Fields(v)'
      BY DEF CacheTrue
    <3>1. CASE v = u
      BY <1>2, <2>4, <3>1 DEF Fields
    <3>2. CASE v # u
      BY <1>1, <1>6, <2>2, <2>3, <2>4, <3>2 DEF Safe, CacheTrue, Fields, Calling
    <3> QED
      BY <3>1, <3>2
  <2> QED
    BY <1>4, <2>5, <2>6, <2>7, <2>8, <2>9 DEF Safe
<1> QED
  BY <1>5, <1>6 DEF Subscribe

(* A step of the process that leaves the bus and the attached set alone. *)
LEMMA LocalStepSafe ==
  ASSUME TypeOK, Safe, UNCHANGED <<systemdVars, busVars, attached>>, NEW u \in Units,
         \A v \in Units \ {u} : /\ cache'[v] = cache[v]
                                /\ v \in unread => v \in unread'
                                /\ Calling(v)' <=> Calling(v)
                                /\ v \in todo \cup gaveUp => v \in todo' \cup gaveUp',
         \/ u \in attached
         \/ Calling(u)',
         CallFits',
         Stable(u) /\ ~InBus("changed", u) => Fields(u)',
         \A v \in Units \ {u} : Calling(v) => call'.step = call.step
  PROVE  Safe'
<1> USE DEF systemdVars, busVars
<1>1. \A kind, v : InBus(kind, v)' <=> InBus(kind, v)
  BY DEF InBus
<1>2. \A v \in Units : Stable(v)' <=> Stable(v)
  BY <1>1 DEF Stable
<1>3. Subscribed' /\ AnnouncementOwed' /\ RemovalFollowed'
  BY DEF Safe, Subscribed, AnnouncementOwed, RemovalFollowed, NewFollows
<1>4. LastNewsTrue'
  BY <1>2 DEF Safe, LastNewsTrue, NewsTrue, Last
<1>5. AttachComing'
  BY <1>1 DEF Safe, AttachComing, TypeOK
<1>6. CacheTrue'
  <2> SUFFICES ASSUME NEW v \in Units, Stable(v)', ~InBus("changed", v)'
               PROVE  Fields(v)'
    BY DEF CacheTrue
  <2>1. Stable(v) /\ ~InBus("changed", v)
    BY <1>1, <1>2
  <2>2. CASE v # u
    BY <2>1, <2>2 DEF Safe, CacheTrue, Fields
  <2> QED
    BY <2>1, <2>2
<1> QED
  BY <1>3, <1>4, <1>5, <1>6 DEF Safe

LEMMA SnapshotSafe ==
  ASSUME TypeOK, Safe, NEW u \in Units,
         GetActiveState(u) \/ GetSubState(u) \/ GetResult(u) \/ GetFails(u)
  PROVE  Safe'
<1>1. PICK step \in {"active", "sub", "result"} : InCall(u, step)
  BY DEF GetActiveState, GetSubState, GetResult, GetFails
<1>2. /\ Calling(u) /\ call.step = step
      /\ \A v \in Units : Calling(v) => v = u
  BY <1>1, CallingOnly DEF Steps
<1>3. u \in attached /\ cache[u] \in Cached /\ live[u] \in States
  BY <1>2 DEF Safe, CallFits, TypeOK
<1>4. /\ UNCHANGED <<systemdVars, busVars, attached, todo>>
      /\ \A v \in Units \ {u} : cache'[v] = cache[v]
      /\ \A v \in Units \ {u} : v \in gaveUp => v \in gaveUp'
      /\ \A v \in Units : v \in unread => v \in unread'
      /\ ~GetFails(u) => unread' = unread
  BY DEF GetActiveState, GetSubState, GetResult, GetFails, TypeOK
<1>5. live' = live
  BY <1>4 DEF systemdVars
<1>6. CASE GetActiveState(u)
  <2>1. /\ \A v \in Units : Calling(v)' <=> Calling(v)
        /\ call'.step = "sub"
    BY <1>1, <1>6, CallGoes DEF GetActiveState, Steps
  <2>2. Fields(u)'
    BY <1>2, <1>3, <1>5, <1>6, <2>1 DEF GetActiveState, Fields, TypeOK, Cached
  <2>3. CallFits'
    BY <1>2, <1>3, <1>4, <2>1 DEF CallFits
  <2> QED
    BY <1>2, <1>3, <1>4, <2>1, <2>2, <2>3, LocalStepSafe
<1>7. CASE GetSubState(u)
  <2>1. /\ \A v \in Units : Calling(v)' <=> Calling(v)
        /\ call'.step = "result"
    BY <1>1, <1>7, CallGoes DEF GetSubState, Steps
  <2>2. call.step = "sub"
    BY <1>7 DEF GetSubState, InCall
  <2>3. /\ cache'[u].active = cache[u].active
        /\ cache'[u].sub = live[u]
    BY <1>3, <1>7 DEF GetSubState, TypeOK, Cached
  <2>4. Stable(u) /\ ~InBus("changed", u) => Fields(u)'
    BY <1>2, <1>4, <1>5, <2>1, <2>2, <2>3 DEF Safe, CacheTrue, Fields
  <2>5. CallFits'
    BY <1>2, <1>3, <1>4, <2>1 DEF CallFits
  <2> QED
    BY <1>2, <1>3, <1>4, <2>1, <2>4, <2>5, LocalStepSafe
<1>8. CASE GetResult(u)
  <2>1. \A v \in Units : ~Calling(v)'
    BY <1>1, <1>8, CallGoes DEF GetResult, Steps
  <2>2. call.step = "result"
    BY <1>8 DEF GetResult, InCall
  <2> DEFINE c == [cache[u] EXCEPT !.result = ResultOf(live[u])]
  <2>3. /\ c \in Cached /\ c.active = cache[u].active /\ c.sub = cache[u].sub
        /\ c.result = ResultOf(live[u])
    BY <1>3 DEF Cached, ResultOf, Results
  <2>4. cache'[u] = Reported(c)
    BY <1>8 DEF GetResult, TypeOK
  <2> HIDE DEF c
  <2>5. /\ cache'[u].active = cache[u].active
        /\ cache'[u].sub = cache[u].sub
        /\ cache'[u].result = ResultOf(live[u])
    BY <2>3, <2>4, ReportedType
  <2>6. Stable(u) /\ ~InBus("changed", u) => Fields(u)'
    BY <1>2, <1>4, <1>5, <2>2, <2>5 DEF Safe, CacheTrue, Fields
  <2>7. CallFits'
    BY <2>1 DEF CallFits
  <2> QED
    BY <1>2, <1>3, <1>4, <2>1, <2>6, <2>7, LocalStepSafe
<1>9. CASE GetFails(u)
  <2>1. \/ /\ \A v \in Units : Calling(v)' <=> Calling(v)
           /\ call'.step \in {"sub", "result"}
        \/ \A v \in Units : ~Calling(v)'
    BY <1>1, <1>9, CallGoes DEF GetFails, Steps
  <2>2. Fields(u)'
    BY <1>9 DEF GetFails, Fields
  <2>3. CallFits'
    BY <1>2, <1>3, <1>4, <2>1 DEF CallFits
  <2>4. \A v \in Units \ {u} : ~Calling(v) /\ ~Calling(v)'
    BY <1>2, <2>1
  <2> QED
    BY <1>3, <1>4, <2>2, <2>3, <2>4, LocalStepSafe
<1> QED
  BY <1>6, <1>7, <1>8, <1>9

(* attach_all goes on to u. *)
LEMMA AttachNextSafe ==
  ASSUME TypeOK, Safe, NEW u \in Units, AttachNext(u)
  PROVE  Safe'
<1>1. /\ UNCHANGED <<systemdVars, busVars, attached, cache, gaveUp, unread>>
      /\ todo' = todo \ {u}
      /\ \A v \in Units : ~Calling(v)
  BY DEF AttachNext, Calling, Idle, Steps
<1>2. live' = live
  BY <1>1 DEF systemdVars
<1>3. CASE u \in attached /\ UNCHANGED call
  <2>1. \A v \in Units : ~Calling(v)'
    BY <1>1, <1>3 DEF Calling
  <2>2. CallFits' /\ (Stable(u) /\ ~InBus("changed", u) => Fields(u)')
    BY <1>1, <1>2, <2>1 DEF CallFits, Safe, CacheTrue, Fields
  <2> QED
    BY <1>1, <1>3, <2>1, <2>2, LocalStepSafe
<1>4. CASE u \notin attached /\ Goes(u, "load")
  <2>1. /\ \A v \in Units : Calling(v)' <=> v = u
        /\ call'.step = "load"
    BY <1>4 DEF Goes, Calling, Steps
  <2>2. CallFits' /\ Fields(u)'
    BY <1>1, <1>4, <2>1 DEF CallFits, Fields
  <2> QED
    BY <1>1, <2>1, <2>2, LocalStepSafe
<1> QED
  BY <1>3, <1>4 DEF AttachNext

(* A signal dispatched *)
LEMMA DispatchSafe ==
  ASSUME TypeOK, TypeOK', Safe, Dispatch
  PROVE  Safe'
<1> USE DEF systemdVars
<1>1. PICK m : m = Head(signals)
  OBVIOUS
<1>2. /\ call = Idle /\ signals # << >> /\ signals' = Tail(signals)
      /\ UNCHANGED <<live, loaded, announced, dirty, todo, gaveUp>>
      /\ \/ m.kind = "changed" /\ OnPropertiesChanged(m)
         \/ m.kind = "new" /\ OnUnitNew(m)
         \/ m.kind = "removed" /\ OnUnitRemoved(m)
         \/ m.kind = "stale" /\ UNCHANGED <<attached, matched, cache, call, unread>>
  BY <1>1 DEF Dispatch
<1>3. signals \in Seq(Signals)
  BY DEF TypeOK
<1>4. /\ m \in Signals /\ 1 \in DOMAIN signals /\ signals[1] = m
      /\ \A k \in DOMAIN signals' : /\ k \in Nat
                                    /\ k + 1 \in DOMAIN signals
                                    /\ signals'[k] = signals[k + 1]
      /\ \A k \in DOMAIN signals : \/ k = 1
                                   \/ /\ k \in Nat /\ 1 < k
                                      /\ k - 1 \in DOMAIN signals'
                                      /\ signals'[k - 1] = signals[k]
  BY <1>1, <1>2, <1>3, Received
<1>5. m.unit \in Units /\ m.state \in States
  BY <1>4 DEF Signals
<1>6. /\ \A kind : \A v \in Units :
           InBus(kind, v) <=> InBus(kind, v)' \/ (v = m.unit /\ kind = m.kind)
      /\ \A kind : \A v \in Units : InBus(kind, v)' => InBus(kind, v)
  BY <1>4 DEF InBus
<1>7. \A v \in Units : ~Calling(v)
  BY <1>2 DEF Calling, Idle, Steps
<1>8. /\ \A v \in Units \ {m.unit} : v \in attached' <=> v \in attached
      /\ attached' \subseteq attached
      /\ m.unit \in attached' => /\ m.kind \in {"changed", "stale"}
                                 /\ m.unit \in attached
      /\ \A v \in Units \ {m.unit} : cache'[v] = cache[v]
      /\ \A v \in Units : v # m.unit \/ m.kind # "changed"
                            => (v \in unread' <=> v \in unread)
  BY <1>2, <1>5 DEF OnPropertiesChanged, OnUnitNew, OnUnitRemoved, TypeOK
<1>9. \A v \in Units : Stable(v)' => Stable(v)
  BY <1>2, <1>6, <1>8 DEF Stable
<1>10. Subscribed' /\ AnnouncementOwed'
  BY <1>2 DEF OnPropertiesChanged, OnUnitNew, OnUnitRemoved, Safe, Subscribed,
              AnnouncementOwed
<1>11. \/ call' = Idle
       \/ /\ m.kind = "new" /\ m.unit \notin attached'
          /\ call' = [unit |-> m.unit, step |-> "load"]
  BY <1>2 DEF OnPropertiesChanged, OnUnitNew, OnUnitRemoved, Goes
<1>12. /\ CallFits'
       /\ \A v \in Units : Calling(v)' => v = m.unit
       /\ m.kind = "new" => Calling(m.unit)'
  BY <1>2, <1>5, <1>11 DEF CallFits, Calling, Idle, Steps, OnUnitNew, Goes
<1>13. AttachComing'
  <2> SUFFICES ASSUME NEW v \in (loaded' \cap announced') \ attached',
                      v \notin todo' \cup gaveUp', ~InBus("new", v)'
               PROVE  Calling(v)'
    BY DEF AttachComing
  <2>1. v \in Units /\ v \in loaded \cap announced /\ v \notin todo \cup gaveUp
    BY <1>2 DEF TypeOK
  <2>2. CASE m.kind = "new" /\ v = m.unit
    BY <1>12, <2>2
  <2>3. CASE m.kind = "removed" /\ v = m.unit
    <3>1. NewFollows(1)
      BY <1>4, <2>1, <2>3 DEF Safe, RemovalFollowed
    <3>2. InBus("new", v)'
      BY <1>4, <2>3, <3>1 DEF NewFollows, InBus
    <3> QED
      BY <3>2
  <2>4. CASE v # m.unit \/ m.kind \in {"changed", "stale"}
    <3>1. v \notin attached
      BY <1>2, <1>5, <1>8, <2>1, <2>4 DEF OnPropertiesChanged
    <3>2. ~InBus("new", v)
      BY <1>6, <2>1, <2>4
    <3> QED
      BY <1>7, <2>1, <3>1, <3>2 DEF Safe, AttachComing
  <2> QED
    BY <1>2, <2>2, <2>3, <2>4
<1>14. RemovalFollowed'
  <2> SUFFICES ASSUME NEW k \in DOMAIN signals',
                      signals'[k].kind = "removed",
                      signals'[k].unit \in loaded' \cap announced'
               PROVE  NewFollows(k)'
    BY DEF RemovalFollowed
  <2>1. NewFollows(k + 1) /\ k \in Nat /\ signals'[k] = signals[k + 1]
    BY <1>2, <1>4 DEF Safe, RemovalFollowed
  <2>2. PICK l \in DOMAIN signals : /\ k + 1 < l
                                    /\ signals[l].kind = "new"
                                    /\ signals[l].unit = signals[k + 1].unit
    BY <2>1 DEF NewFollows
  <2>3. /\ l - 1 \in DOMAIN signals' /\ signals'[l - 1] = signals[l]
        /\ k < l - 1
    BY <1>4, <2>1, <2>2
  <2> QED
    BY <2>1, <2>2, <2>3 DEF NewFollows
<1>15. LastNewsTrue'
  <2> SUFFICES ASSUME NEW v \in Units, NEW k \in DOMAIN signals',
                      signals'[k].kind = "changed", signals'[k].unit = v,
                      Stable(v)', Last(k)'
               PROVE  signals'[k].state = live'[v]
    BY DEF LastNewsTrue, NewsTrue
  <2>1. k \in Nat /\ k + 1 \in DOMAIN signals /\ signals'[k] = signals[k + 1]
    BY <1>4
  <2>2. Last(k + 1)
    <3> SUFFICES ASSUME NEW l \in DOMAIN signals, k + 1 < l,
                        signals[l].kind = "changed",
                        signals[l].unit = signals[k + 1].unit
                 PROVE  FALSE
      BY DEF Last
    <3>1. /\ l - 1 \in DOMAIN signals' /\ signals'[l - 1] = signals[l]
          /\ k < l - 1
      BY <1>4, <2>1
    <3> QED
      BY <2>1, <3>1 DEF Last
  <2>3. NewsTrue(v, k + 1)
    BY <2>1 DEF Safe, LastNewsTrue
  <2> QED
    BY <1>2, <1>9, <2>1, <2>2, <2>3 DEF NewsTrue
<1>16. CacheTrue'
  <2> SUFFICES ASSUME NEW v \in Units, Stable(v)', ~InBus("changed", v)'
               PROVE  Fields(v)'
    BY DEF CacheTrue
  <2>1. Stable(v)
    BY <1>9
  <2>2. CASE v = m.unit /\ m.kind = "changed"
    <3>1. Last(1)
      BY <1>4, <2>2 DEF Last, InBus
    <3>2. m.state = live[v]
      <4>1. NewsTrue(v, 1)
        BY <1>4 DEF Safe, LastNewsTrue
      <4> QED
        BY <1>4, <2>1, <2>2, <3>1, <4>1 DEF NewsTrue
    <3> DEFINE c == [cache[v] EXCEPT !.active = ActiveOf(m.state),
                                     !.sub = m.state,
                                     !.result = ResultOf(m.state)]
    <3>3. cache[v] \in Cached
      BY DEF TypeOK
    <3>4. /\ c \in Cached
          /\ c.active = ActiveOf(m.state)
          /\ c.sub = m.state
          /\ c.result = ResultOf(m.state)
      <4>1. /\ ActiveOf(m.state) \in ActiveStates
            /\ m.state \in SubStates
            /\ ResultOf(m.state) \in Results
        BY <1>5, ActiveOfState DEF States, SubStates, ResultOf, Results
      <4> QED
        BY <3>3, <4>1 DEF Cached
    <3>5. cache'[v] = Reported(c)
      BY <1>2, <2>1, <2>2 DEF OnPropertiesChanged, Stable, TypeOK
    <3> HIDE DEF c
    <3>6. /\ cache'[v].active = ActiveOf(live'[v])
          /\ cache'[v].sub = live'[v]
          /\ cache'[v].result = ResultOf(live'[v])
      BY <1>2, <3>2, <3>4, <3>5, ReportedType
    <3> QED
      BY <3>6 DEF Fields
  <2>3. CASE v # m.unit \/ m.kind # "changed"
    <3>1. ~InBus("changed", v)
      BY <1>6, <2>3
    <3>2. cache'[v] = cache[v]
      BY <1>2, <1>8, <2>3 DEF OnUnitNew, OnUnitRemoved
    <3> QED
      BY <1>2, <1>7, <1>8, <2>1, <2>3, <3>1, <3>2 DEF Safe, CacheTrue, Fields
  <2> QED
    BY <2>2, <2>3
<1> QED
  BY <1>10, <1>12, <1>13, <1>14, <1>15, <1>16 DEF Safe

-----------------------------------------------------------------------------
LEMMA NextSafe == TypeOK /\ TypeOK' /\ Safe /\ [Next]_vars => Safe'
<1> SUFFICES ASSUME TypeOK, TypeOK', Safe, [Next]_vars PROVE Safe'
  OBVIOUS
<1> USE DEF systemdVars, busVars, processVars
<1>1. ASSUME NEW u \in Units, SystemdStep(u) PROVE Safe'
  <2>1. CASE (Changes(u) \/ Loads(u)) /\ UNCHANGED signals
    <3>1. /\ UNCHANGED <<signals, matched, attached, cache, todo>>
          /\ gaveUp' = gaveUp /\ call' = call /\ unread' = unread
          /\ \A v \in Units : Calling(v)' <=> Calling(v)
      BY <1>1, <2>1 DEF SystemdStep, Calling
    <3> QED
      BY <2>1, <3>1, DirtyStepSafe
  <2>2. CASE Announces(u)
    BY <1>1, <2>2, AnnouncesSafe DEF SystemdStep
  <2>3. CASE Unloads(u)
    BY <1>1, <2>3, UnloadsSafe DEF SystemdStep
  <2> QED
    BY <1>1, <2>1, <2>2, <2>3 DEF SystemdStep
<1>2. ASSUME NEW u \in Units, AttachStep(u) PROVE Safe'
  BY <1>2, ResolveSafe, SubscribeSafe, SnapshotSafe DEF AttachStep
<1>3. ASSUME NEW u \in Units, AttachNext(u) PROVE Safe'
  BY <1>3, AttachNextSafe
<1>4. CASE Dispatch
  BY <1>4, DispatchSafe
<1>5. CASE UNCHANGED vars
  BY <1>5 DEF vars, Safe, Subscribed, AnnouncementOwed, AttachComing,
              RemovalFollowed, NewFollows, LastNewsTrue, NewsTrue, Last,
              CallFits, CacheTrue, Stable, Fields, Calling, InBus
<1> QED
  BY <1>1, <1>2, <1>3, <1>4, <1>5 DEF Next

LEMMA SafeLosesNothing == TypeOK /\ Safe => NothingLost
<1> SUFFICES ASSUME TypeOK, Safe, NEW u \in Units, Quiet(u)
             PROVE  u \in attached /\ Current(u)
  BY DEF NothingLost
<1>1. \A kind : ~InBus(kind, u)
  BY DEF Quiet, InBus
<1>2. /\ u \in loaded /\ u \notin dirty
      /\ u \notin todo \cup gaveUp \cup unread /\ ~Calling(u)
  BY DEF Quiet
<1>3. u \in announced
  BY <1>2 DEF Safe, AnnouncementOwed
<1>4. u \in attached
  BY <1>1, <1>2, <1>3 DEF Safe, AttachComing
<1>5. Fields(u)
  BY <1>1, <1>2, <1>4 DEF Safe, CacheTrue, Stable
<1> QED
  BY <1>2, <1>4, <1>5 DEF Fields, Current

(* Subscribing before the snapshot loses no change, however the signals and  *)
(* the calls interleave and however often the unit is forgotten and loaded   *)
(* again (tracked_unit_attach, dbus_signal_handler): a loaded unit about     *)
(* which nothing is under way is attached, and its cache is its state.       *)
THEOREM CacheLosesNothing == Spec => []NothingLost
<1>1. Spec => [](TypeOK /\ Safe)
  BY InitType, InitSafe, NextType, NextSafe, PTL DEF Spec
<1> QED
  BY <1>1, SafeLosesNothing, PTL
=============================================================================
