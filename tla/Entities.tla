------------------------------ MODULE Entities ------------------------------
(***************************************************************************)
(* What the entities show, and what of it survives a restart: BoksEntity   *)
(* and RestoreIntoState (entity.py), the sensors that use them (sensor.py, *)
(* binary_sensor.py) and the listeners of BoksLink (coordinator.py).       *)
(*                                                                         *)
(* The value of an attribute of BoksState is the instant it was obtained   *)
(* at, so that "older" and "newer" can be told; 0 stands for None.  What   *)
(* it says, and whether the filter of Battery lets it in, is not looked at.*)
(***************************************************************************)
EXTENDS Integers, FiniteSets

CONSTANTS Gated,  \* attributes shown as BoksEntity.available says: battery, door_open
          Dated,  \* attributes shown whenever they are known: last_*_open, last_mail_*
          Last,   \* last_connected
          MaxTime \* bound: readings and connections

ASSUME EntitiesAssumption ==
    /\ Last \notin Gated \cup Dated /\ Gated \cap Dated = {}
    /\ MaxTime \in Nat

VARIABLES
    now,       \* the last instant something was obtained at
    state,     \* BoksState: the attributes that are restored
    connected, \* BoksState.connected
    session,   \* "none", "starting" until _async_session notifies, "held", or
               \* "brief" for a refresh, a press or an administration call
    added,     \* entities that async_added_to_hass has subscribed
    shown,     \* the state each entity has written
    saved,     \* what Home Assistant has persisted of it
    best       \* history: the newest value each entity has shown, since a crash

link == <<state, connected, session>>
vars == <<now, link, added, shown, saved, best>>

Attrs == Gated \cup Dated \cup {Last}
Unavailable == -1
Newer(v, w) == IF v > w THEN v ELSE w

TypeOK ==
    /\ now \in 0..MaxTime
    /\ state \in [Attrs -> 0..MaxTime] /\ connected \in BOOLEAN
    /\ session \in {"none", "starting", "held", "brief"}
    /\ added \subseteq Attrs
    /\ shown \in [Attrs -> -1..MaxTime] /\ saved \in [Attrs -> -1..MaxTime]
    /\ best \in [Attrs -> 0..MaxTime]

Nothing == [a \in Attrs |-> 0]
Absent == [a \in Attrs |-> Unavailable]

Init ==
    /\ now = 0
    /\ state = Nothing /\ connected = FALSE /\ session = "none"
    /\ added = {} /\ shown = Absent /\ saved = Absent /\ best = Nothing

-----------------------------------------------------------------------------
(* What an entity shows. *)

\* A mistake: an entity of the first kind is available while the link is up.
AvailableConnected(s, up, a) == IF a \in Gated THEN up ELSE s[a] # 0

\* The property `available` of each entity, for a BoksState s.
Available(s, up, a) ==
    IF a \in Gated THEN up \/ s[Last] # 0 ELSE s[a] # 0

View(s, up, a) == IF Available(s, up, a) THEN s[a] ELSE Unavailable

\* The entities of A write their states.
Write(A) ==
    /\ shown' = [a \in Attrs |-> IF a \in A THEN View(state', connected', a) ELSE shown[a]]
    /\ best' = [a \in Attrs |-> Newer(best[a], shown'[a])]

\* _notify_listeners: every entity that has subscribed.
Notify == Write(added)

Set(s, a, v) == [s EXCEPT ![a] = v]

Clock == now < MaxTime /\ now' = now + 1

-----------------------------------------------------------------------------
(* The link. *)

\* A session of the held link is connected: no entity is told before the
\* characteristics are read and the notifications are on.
Connect ==
    /\ session = "none" /\ session' = "starting"
    /\ Clock /\ state' = Set(state, Last, now') /\ connected' = TRUE
    /\ UNCHANGED <<added, shown, saved, best>>

Announce ==
    /\ session = "starting" /\ session' = "held"
    /\ UNCHANGED <<now, state, connected>>
    /\ Notify /\ UNCHANGED <<added, saved>>

\* A mistake: the entities are not told of the connection.
BriefConnectSilent ==
    /\ session = "none" /\ session' = "brief"
    /\ Clock /\ state' = Set(state, Last, now') /\ UNCHANGED connected
    /\ UNCHANGED <<added, shown, saved, best>>

\* A session of a refresh, a press or an administration call is connected.
BriefConnect ==
    /\ session = "none" /\ session' = "brief"
    /\ Clock /\ state' = Set(state, Last, now') /\ UNCHANGED connected
    /\ Notify /\ UNCHANGED <<added, saved>>

\* A value is read or pushed, and it is new (_set_battery, _on_app_notify).
Obtain(a) ==
    /\ session # "none" /\ a \in Gated
    /\ Clock /\ state' = Set(state, a, now')
    /\ UNCHANGED <<connected, session>>
    /\ Notify /\ UNCHANGED <<added, saved>>

\* A date is known: the log has been read, or a sensor has reported.
Dates(a) ==
    /\ a \in Dated
    /\ Clock /\ state' = Set(state, a, now')
    /\ UNCHANGED <<connected, session>>
    /\ Notify /\ UNCHANGED <<added, saved>>

\* The session ends or the link drops: _on_disconnected, _set_disconnected.
Disconnect ==
    /\ session # "none" /\ session' = "none"
    /\ connected' = FALSE /\ UNCHANGED <<now, state>>
    /\ IF connected THEN Notify ELSE UNCHANGED <<shown, best>>
    /\ UNCHANGED <<added, saved>>

\* The mailbox is heard at another strength.
Advertise ==
    /\ UNCHANGED <<now, link>>
    /\ Notify /\ UNCHANGED <<added, saved>>

-----------------------------------------------------------------------------
(* Entities come and go. *)

\* A mistake: the value persisted replaces one obtained since the start.
RestorableAlways(a) == saved[a] > 0

\* A value has been persisted, and there is none yet.
Restorable(a) == state[a] = 0 /\ saved[a] > 0

\* async_added_to_hass: the value persisted is put back, the entity subscribes, and
\* Home Assistant has it write its state.  The others are not told.
Restore(a) ==
    /\ a \notin added /\ added' = added \cup {a}
    /\ state' = IF Restorable(a) THEN Set(state, a, saved[a]) ELSE state
    /\ UNCHANGED <<now, connected, session, saved>>
    /\ Write({a})

\* A mistake: entities that are not back yet are persisted as unavailable.
PersistedBare == shown

\* What Home Assistant persists: the states written by entities, and what it
\* already had of those that are not back yet.
Persisted == [a \in Attrs |-> IF a \in added THEN shown[a] ELSE saved[a]]

Dump ==
    /\ saved' = Persisted
    /\ UNCHANGED <<now, link, added, shown, best>>

\* Another BoksLink replaces this one.
Replaced ==
    /\ state' = Nothing /\ connected' = FALSE /\ session' = "none"
    /\ added' = {} /\ shown' = Absent /\ UNCHANGED now

\* The entry is reloaded or Home Assistant is stopped in order, also before all the
\* entities are back.
Reload ==
    /\ saved' = Persisted
    /\ Replaced /\ UNCHANGED best

\* Home Assistant is killed: what was written since the last dump is lost.
Crash ==
    /\ Replaced /\ UNCHANGED saved
    /\ best' = [a \in Attrs |-> Newer(saved[a], 0)]

Next ==
    \/ Connect \/ Announce \/ BriefConnect \/ Disconnect \/ Advertise
    \/ \E a \in Attrs : Obtain(a) \/ Dates(a) \/ Restore(a)
    \/ Dump \/ Reload \/ Crash

Spec == Init /\ [][Next]_vars

\* Entities are added, and the mailbox is heard now and then.
Fairness == WF_vars(Advertise) /\ \A a \in Attrs : WF_vars(Restore(a))
FairSpec == Spec /\ Fairness

-----------------------------------------------------------------------------
(* Properties. *)

\* An entity that shows a value shows the one the link has, however restores,
\* sessions and notifications overlap, but while a held session starts.
ShownIsCurrent ==
    \A a \in added : shown[a] > 0 /\ session # "starting" => shown[a] = state[a]

\* RestoreIntoState, "une valeur fraiche a deja ete obtenue": as long as the link
\* lives, no attribute goes back to an older value.
NeverBack == [][ added' # {} => \A a \in Attrs : state'[a] >= state[a] ]_vars

\* RestoreIntoState, on dates: whatever the number of reloads and orderly stops,
\* an entity that is back knows the newest date it has shown.
DatesSurvive == \A a \in added \ Gated : state[a] >= best[a]

\* BoksEntity.available: a value that is known is shown in the end, although no
\* entity is told when last_connected is restored.
KnownIsShown ==
    \A a \in Attrs : state[a] # 0 /\ state[Last] # 0
                     ~> state[a] = 0 \/ shown[a] > 0

\* BoksDoorSensor, "Restaure son dernier etat connu au redemarrage": an entity
\* that is back knows the newest value it has shown.
LastKnownSurvives == \A a \in added : state[a] >= best[a]

\* BoksLastConnectedSensor, "il dit de quand datent les valeurs affichees".
AgeIsHonest ==
    \A a \in added \cap Gated : Last \in added /\ session = "none" /\ shown[a] > 0
                                => shown[a] >= shown[Last]
=============================================================================
