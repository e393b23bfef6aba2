-------------------------------- MODULE Tracker --------------------------------
(***************************************************************************)
(* dbus_tracker.c: the cache of unit properties behind the Manager.  A     *)
(* tracked unit is attached by synchronous calls (LoadUnit, AddMatch, one  *)
(* Get per property), during which systemd goes on changing units and the  *)
(* signals it sends pile up unread; attached, it is kept current by        *)
(* PropertiesChanged, and attached or detached again by UnitNew and        *)
(* UnitRemoved.                                                            *)
(*                                                                         *)
(* Three cached properties stand for all nine: ActiveState, SubState and   *)
(* Result, in the order the snapshot reads them.                           *)
(***************************************************************************)
EXTENDS Integers, Sequences, FiniteSets, UnitStates, UnitPhase

CONSTANTS
  Units,          \* the tracked units, with in_use set
  MayFail,        \* units for which LoadUnit, AddMatch and Gets may fail
  Endings,        \* the states a running unit may end in
  BusCapacity     \* bound on the signals in flight

ASSUME TrackerAssumption ==
  /\ MayFail \subseteq Units
  /\ Endings \subseteq {"dead", "failed"}
  /\ BusCapacity \in Nat

VARIABLES
  (* systemd *)
  live,        \* live[u]: the unit's SubState, which gives the rest
  loaded,      \* units that exist as objects of systemd
  announced,   \* of these, those whose UnitNew has been sent
  dirty,       \* units with a change to announce
  ended,       \* history: units that stopped running
  (* the bus *)
  matched,     \* units whose PropertiesChanged are routed to the process
  signals,     \* the signals in flight, oldest first
  (* the process *)
  attached,    \* tracked_unit.attached
  cache,       \* cache[u]: the cached properties and the latch was_active
  call,        \* the step tracked_unit_attach is in, or Idle
  todo,        \* units tracked_units_attach_all has still to attach
  gaveUp,      \* history: units whose latest attach failed
  unread       \* history: units with a property the latest snapshot failed
               \* to read and no PropertiesChanged has carried since

systemdVars == <<live, loaded, announced, dirty, ended>>
busVars == <<matched, signals>>
processVars == <<attached, cache, call, todo, gaveUp, unread>>
vars == <<systemdVars, busVars, processVars>>

States == {"dead", "start", "running", "failed"}

(* The Result systemd gives a unit in state s *)
ResultOf(s) == IF s = "failed" THEN "exit-code" ELSE "success"

Cached == [active : ActiveStates, sub : SubStates, result : Results,
           seenActive : BOOLEAN]
Blank == [active |-> "unknown", sub |-> "", result |-> "", seenActive |-> FALSE]

(* A signal: PropertiesChanged with the state it carries, one that no slot  *)
(* is left to receive, UnitNew or UnitRemoved.  (The state means something  *)
(* of "changed" alone.)                                                     *)
Signals == [kind : {"changed", "stale", "new", "removed"}, unit : Units,
            state : States]

Steps == {"load", "match", "active", "sub", "result"}
Idle == [unit |-> "none", step |-> "idle"]
Calls == {Idle} \cup [unit : Units, step : Steps]

TypeOK ==
  /\ live \in [Units -> States]
  /\ loaded \subseteq Units
  /\ announced \subseteq Units
  /\ dirty \subseteq Units
  /\ ended \subseteq Units
  /\ matched \subseteq Units
  /\ signals \in Seq(Signals)
  /\ attached \subseteq Units
  /\ cache \in [Units -> Cached]
  /\ call \in Calls
  /\ todo \subseteq Units
  /\ gaveUp \subseteq Units
  /\ unread \subseteq Units

(* After tracked_units_register. *)
Init ==
  /\ live \in [Units -> {"dead", "running"}]
  /\ loaded \in SUBSET Units
  /\ \A u \in Units \ loaded : live[u] = "dead"
  /\ announced = loaded
  /\ dirty = {}
  /\ ended = {}
  /\ matched = {}
  /\ signals = << >>
  /\ attached = {}
  /\ cache = [u \in Units |-> Blank]
  /\ call = Idle
  /\ todo = Units
  /\ gaveUp = {}
  /\ unread = {}

-----------------------------------------------------------------------------
(* systemd, between any two steps of the process *)

(* A unit starts, gets up, fails or ends; any other change of its            *)
(* properties is announced as well.                                         *)
Changes(u) ==
  /\ u \in loaded
  /\ \/ /\ live[u] \in {"dead", "failed"}
        /\ live' = [live EXCEPT ![u] = "start"]
        /\ UNCHANGED ended
     \/ /\ live[u] = "start"
        /\ \E s \in {"running", "failed"} : live' = [live EXCEPT ![u] = s]
        /\ UNCHANGED ended
     \/ /\ live[u] = "running"
        /\ \E s \in Endings : live' = [live EXCEPT ![u] = s]
        /\ ended' = ended \cup {u}
     \/ /\ u \notin dirty
        /\ UNCHANGED <<live, ended>>
  /\ dirty' = dirty \cup {u}
  /\ UNCHANGED <<loaded, announced>>

(* The first announcement of a unit is a UnitNew, which carries no state.   *)
Announces(u) ==
  /\ u \in dirty
  /\ Len(signals) < BusCapacity
  /\ dirty' = dirty \ {u}
  /\ announced' = announced \cup {u}
  /\ signals' =
       IF u \notin announced
         THEN Append(signals, [kind |-> "new", unit |-> u, state |-> "dead"])
       ELSE IF u \in matched
         THEN Append(signals, [kind |-> "changed", unit |-> u,
                               state |-> live[u]])
       ELSE signals
  /\ UNCHANGED <<live, loaded, ended>>

(* Someone else refers to a unit, or systemd forgets one it has no use for. *)
Loads(u) ==
  /\ u \notin loaded
  /\ loaded' = loaded \cup {u}
  /\ announced' = announced \ {u}
  /\ dirty' = dirty \cup {u}
  /\ UNCHANGED <<live, ended>>

Unloads(u) ==
  /\ u \in loaded \ dirty
  /\ live[u] = "dead"
  /\ Len(signals) < BusCapacity
  /\ loaded' = loaded \ {u}
  /\ signals' = Append(signals, [kind |-> "removed", unit |-> u,
                                 state |-> "dead"])
  /\ UNCHANGED <<live, announced, dirty, ended>>

SystemdStep(u) ==
  /\ \/ Changes(u) /\ UNCHANGED signals
     \/ Announces(u)
     \/ Loads(u) /\ UNCHANGED signals
     \/ Unloads(u)
  /\ UNCHANGED <<matched, processVars>>

-----------------------------------------------------------------------------
(* tracked_unit_attach of u, step by step *)

InCall(u, step) == call = [unit |-> u, step |-> step]
Goes(u, step) == call' = [unit |-> u, step |-> step]

(* on_unit_state_changed, reduced to its latch *)
Reported(c) == [c EXCEPT !.seenActive = @ \/ c.active = "active"]

(* tracked_unit_resolve_object_path: LoadUnit loads a unit that is not.     *)
Resolve(u) ==
  /\ InCall(u, "load")
  /\ \/ /\ Goes(u, "match")
        /\ \/ u \in loaded /\ UNCHANGED systemdVars
           \/ Loads(u)
        /\ UNCHANGED gaveUp
     \/ /\ u \in MayFail
        /\ call' = Idle
        /\ gaveUp' = gaveUp \cup {u}
        /\ UNCHANGED systemdVars
  /\ UNCHANGED <<busVars, attached, cache, todo, unread>>

(* Signals of u sent before the AddMatch reply never reach its new slot.    *)
Unheard(u) ==
  [k \in DOMAIN signals |->
     IF signals[k].kind = "changed" /\ signals[k].unit = u
       THEN [signals[k] EXCEPT !.kind = "stale"] ELSE signals[k]]

(* A mutation of Subscribe: a failure is not rolled back. *)
SubscribeNoRollBack(u) ==
  /\ InCall(u, "match")
  /\ Goes(u, "active")
  /\ attached' = attached \cup {u}
  /\ \/ matched' = matched \cup {u} /\ signals' = Unheard(u)
     \/ u \in MayFail /\ UNCHANGED busVars
  /\ UNCHANGED <<systemdVars, cache, todo, gaveUp, unread>>

(* tracked_unit_subscribe_changes, with the roll-back of its failure *)
Subscribe(u) ==
  /\ InCall(u, "match")
  /\ \/ /\ Goes(u, "active")
        /\ attached' = attached \cup {u}
        /\ matched' = matched \cup {u}
        /\ signals' = Unheard(u)
        /\ unread' = unread \ {u}
        /\ UNCHANGED gaveUp
     \/ /\ u \in MayFail
        /\ call' = Idle
        /\ gaveUp' = gaveUp \cup {u}
        /\ UNCHANGED <<attached, busVars, unread>>
  /\ UNCHANGED <<systemdVars, cache, todo>>

(* A mutation of GetActiveState: it reads the other state. *)
GetOtherState(u) ==
  /\ InCall(u, "active")
  /\ Goes(u, "sub")
  /\ cache' = [cache EXCEPT ![u].active = live[u]]
  /\ UNCHANGED <<systemdVars, busVars, attached, todo, gaveUp, unread>>

(* tracked_unit_snapshot: one Get per property, each of the state the unit  *)
(* is in by then; after the last the callback reports the snapshot.         *)
GetActiveState(u) ==
  /\ InCall(u, "active")
  /\ Goes(u, "sub")
  /\ cache' = [cache EXCEPT ![u].active = ActiveOf(live[u])]
  /\ UNCHANGED <<systemdVars, busVars, attached, todo, gaveUp, unread>>

GetSubState(u) ==
  /\ InCall(u, "sub")
  /\ Goes(u, "result")
  /\ cache' = [cache EXCEPT ![u].sub = live[u]]
  /\ UNCHANGED <<systemdVars, busVars, attached, todo, gaveUp, unread>>

GetResult(u) ==
  /\ InCall(u, "result")
  /\ call' = Idle
  /\ cache' = [cache EXCEPT ![u] =
                 Reported([@ EXCEPT !.result = ResultOf(live[u])])]
  /\ gaveUp' = gaveUp \ {u}
  /\ UNCHANGED <<systemdVars, busVars, attached, todo, unread>>

(* The result of a Get is ignored: if it fails the snapshot goes on, and the *)
(* field keeps what it held before.                                         *)
GetFails(u) ==
  /\ u \in MayFail
  /\ \/ /\ InCall(u, "active") /\ Goes(u, "sub")
        /\ UNCHANGED <<cache, gaveUp>>
     \/ /\ InCall(u, "sub") /\ Goes(u, "result")
        /\ UNCHANGED <<cache, gaveUp>>
     \/ /\ InCall(u, "result") /\ call' = Idle
        /\ cache' = [cache EXCEPT ![u] = Reported(@)]
        /\ gaveUp' = gaveUp \ {u}
  /\ unread' = unread \cup {u}
  /\ UNCHANGED <<systemdVars, busVars, attached, todo>>

AttachStep(u) == \/ Resolve(u)
                 \/ Subscribe(u)
                 \/ GetActiveState(u)
                 \/ GetSubState(u)
                 \/ GetResult(u)
                 \/ GetFails(u)

-----------------------------------------------------------------------------
(* tracked_units_attach_all: one attach after another. *)
AttachNext(u) ==
  /\ call = Idle
  /\ u \in todo
  /\ todo' = todo \ {u}
  /\ IF u \in attached THEN UNCHANGED call ELSE Goes(u, "load")
  /\ UNCHANGED <<systemdVars, busVars, attached, cache, gaveUp, unread>>

(* dbus_properties_changed_handler, for the three properties at once *)
OnPropertiesChanged(m) ==
  /\ cache' = IF m.unit \in attached
                THEN [cache EXCEPT ![m.unit] =
                        Reported([@ EXCEPT !.active = ActiveOf(m.state),
                                           !.sub = m.state,
                                           !.result = ResultOf(m.state)])]
                ELSE cache
  /\ unread' = unread \ (attached \cap {m.unit})
  /\ UNCHANGED <<attached, matched, call>>

(* A mutation of OnUnitNew: it forgets to attach again. *)
OnUnitNewDetaches(m) ==
  /\ attached' = attached \ {m.unit}
  /\ matched' = matched \ {m.unit}
  /\ UNCHANGED <<call, cache, unread>>

(* dbus_signal_handler, UNIT_NEW: detach if attached, then attach *)
OnUnitNew(m) ==
  /\ Goes(m.unit, "load")
  /\ attached' = attached \ {m.unit}
  /\ matched' = matched \ {m.unit}
  /\ UNCHANGED <<cache, unread>>

(* dbus_signal_handler, UNIT_REMOVED: detach; the cache is left as it is    *)
OnUnitRemoved(m) ==
  /\ attached' = attached \ {m.unit}
  /\ matched' = matched \ {m.unit}
  /\ UNCHANGED <<call, cache, unread>>

(* dbus_process dispatches a signal, between calls and after attach_all.    *)
Dispatch ==
  /\ call = Idle
  /\ todo = {}
  /\ signals # << >>
  /\ LET m == Head(signals)
     IN  \/ m.kind = "changed" /\ OnPropertiesChanged(m)
         \/ m.kind = "new" /\ OnUnitNew(m)
         \/ m.kind = "removed" /\ OnUnitRemoved(m)
         \/ m.kind = "stale" /\ UNCHANGED <<attached, matched, cache, call,
                                           unread>>
  /\ signals' = Tail(signals)
  /\ UNCHANGED <<systemdVars, todo, gaveUp>>

Next == \/ \E u \in Units : \/ SystemdStep(u)
                            \/ AttachStep(u)
                            \/ AttachNext(u)
        \/ Dispatch

Spec == Init /\ [][Next]_vars

(* The bus delivers what systemd announces, the process goes on dispatching, *)
(* and a call returns.                                                       *)
Delivery ==
  /\ \A u \in Units : WF_vars(Announces(u) /\ UNCHANGED <<matched, processVars>>)
  /\ \A u \in Units : WF_vars(AttachStep(u))
  /\ \A u \in Units : WF_vars(AttachNext(u))
  /\ WF_vars(Dispatch)

FairSpec == Spec /\ Delivery

-----------------------------------------------------------------------------
Current(u) == /\ cache[u].active = ActiveOf(live[u])
              /\ cache[u].sub = live[u]
              /\ cache[u].result = ResultOf(live[u])

Calling(u) == call.step \in Steps /\ call.unit = u

(* Nothing about u is under way, on either side or in between. *)
Quiet(u) ==
  /\ u \in loaded \ (dirty \cup todo \cup gaveUp \cup unread)
  /\ ~Calling(u)
  /\ \A k \in DOMAIN signals : signals[k].unit # u

(* No change is lost, whatever happens while a unit is being attached,       *)
(* forgotten and loaded again: when nothing about a loaded unit is under     *)
(* way, and no Get of its snapshot failed without an announcement since, it  *)
(* is attached and its cache is its state ("Subscribe BEFORE         *)
(* snapshot so a PropertiesChanged arriving between the two steps isn't      *)
(* lost", tracked_unit_attach).                                              *)
NothingLost == \A u \in Units : Quiet(u) => u \in attached /\ Current(u)

(* A loaded unit that comes to rest is known to be in that state in the end, *)
(* even if an attach failed meanwhile and a UnitNew drove the next one, or a *)
(* snapshot missed a property and an announcement brought it.                *)
Follows ==
  \A u \in Units :
    \A s \in States :
      <>[](u \in loaded \ (gaveUp \cup unread) /\ live[u] = s)
        => <>[](u \in attached /\ Current(u))

Phase(u) == PhaseOf(cache[u].active, cache[u].sub, cache[u].result,
                    cache[u].seenActive, "ABORT")

(* was_active is latched "so phase_of can map a later inactive/dead to       *)
(* SUCCEEDED_STOPPED" (on_unit_state_changed): a unit in that phase has      *)
(* stopped running.                                                          *)
StoppedMeansStopped ==
  \A u \in Units : Phase(u) = "SUCCEEDED_STOPPED" => u \in ended
=============================================================================
