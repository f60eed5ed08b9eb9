--------------------------- MODULE EntitiesProofs ---------------------------
(***************************************************************************)
(* Theorems about Entities for every set of attributes and any number of   *)
(* readings, sessions, reloads and crashes.                                *)
(***************************************************************************)
EXTENDS Entities, TLAPS

Sessions == {"none", "starting", "held", "brief"}

\* What holds of one attribute and its entity.  An entity that is back shows the
\* newest it has ever shown, and one that is not has it persisted.
AttrInv(a) ==
    /\ state[a] <= now /\ best[a] <= now /\ saved[a] <= now
    /\ a \in added => /\ shown[a] <= state[a]
                      /\ shown[a] > 0 /\ session # "starting" => shown[a] = state[a]
                      /\ a \notin Gated => /\ best[a] <= Newer(shown[a], 0)
                                           /\ best[a] <= state[a]
    /\ a \notin added => /\ shown[a] = Unavailable
                         /\ a \notin Gated => /\ best[a] <= Newer(saved[a], 0)
                                              /\ state[a] # 0 => best[a] <= state[a]

\* A held session that starts is connected: if it ends before the entities are told
\* of it, they are told then.
EntInv == (session = "starting" => connected) /\ \A a \in Attrs : AttrInv(a)

\* What an entity writes is what the link has, or nothing.
LEMMA ViewType ==
    ASSUME NEW s \in [Attrs -> 0..MaxTime], NEW up \in BOOLEAN, NEW a \in Attrs
    PROVE  /\ View(s, up, a) \in -1..MaxTime
           /\ View(s, up, a) \in {s[a], -1}
           /\ a \notin Gated => View(s, up, a) = IF s[a] # 0 THEN s[a] ELSE -1
<1>1. s[a] \in 0..MaxTime
  OBVIOUS
<1>2. View(s, up, a) \in {s[a], -1}
  BY DEF View, Unavailable
<1>3. View(s, up, a) \in -1..MaxTime
  BY <1>1, <1>2, EntitiesAssumption
<1>4. a \notin Gated => View(s, up, a) = IF s[a] # 0 THEN s[a] ELSE -1
  BY DEF View, Available, Unavailable
<1> QED BY <1>2, <1>3, <1>4

\* The values of one attribute are integers within the bound.
LEMMA AttrType ==
    ASSUME TypeOK, NEW a \in Attrs
    PROVE  /\ state[a] \in 0..MaxTime /\ best[a] \in 0..MaxTime
           /\ shown[a] \in -1..MaxTime /\ saved[a] \in -1..MaxTime
           /\ now \in 0..MaxTime /\ MaxTime \in Nat
BY EntitiesAssumption DEF TypeOK

\* Set changes one attribute.
LEMMA SetType ==
    ASSUME TypeOK, NEW b \in Attrs, NEW v \in 0..MaxTime
    PROVE  /\ Set(state, b, v) \in [Attrs -> 0..MaxTime]
           /\ \A a \in Attrs : Set(state, b, v)[a] = IF a = b THEN v ELSE state[a]
BY DEF Set, TypeOK

\* A clock that ticks is past all that is known.
LEMMA ClockType ==
    ASSUME TypeOK, Clock PROVE now' \in 0..MaxTime /\ now' > now
BY EntitiesAssumption DEF Clock, TypeOK

\* The types of what is written.
LEMMA WriteType ==
    ASSUME TypeOK, NEW A, Write(A), state' \in [Attrs -> 0..MaxTime], connected' \in BOOLEAN
    PROVE  shown' \in [Attrs -> -1..MaxTime] /\ best' \in [Attrs -> 0..MaxTime]
<1>1. shown' \in [Attrs -> -1..MaxTime]
  BY ViewType DEF Write, TypeOK
<1>2. ASSUME NEW a \in Attrs PROVE Newer(best[a], shown'[a]) \in 0..MaxTime
  <2>1. shown'[a] \in -1..MaxTime
    BY <1>1
  <2> QED BY <2>1, AttrType DEF Newer
<1> QED BY <1>1, <1>2 DEF Write

\* An attribute that has got no older is written by its entity.
LEMMA WrittenInv ==
    ASSUME TypeOK, NEW A, Write(A), state' \in [Attrs -> 0..MaxTime], connected' \in BOOLEAN,
           NEW a \in Attrs, a \in A, a \in added', now' \in 0..MaxTime,
           state'[a] <= now', best[a] <= now', saved'[a] <= now',
           a \notin Gated => best[a] <= state'[a]
    PROVE  AttrInv(a)'
<1> DEFINE s == state'[a]  t == shown'[a]  b == best[a]
<1>1. /\ s \in 0..MaxTime /\ b \in 0..MaxTime /\ MaxTime \in Nat
      /\ t \in {s, -1} /\ (a \notin Gated => t = IF s # 0 THEN s ELSE -1)
  BY ViewType, AttrType DEF Write
<1>2. best'[a] = IF b > t THEN b ELSE t
  BY DEF Write, Newer
<1>3. best'[a] <= now'
  BY <1>1, <1>2
<1>4. t <= s /\ (t > 0 => t = s)
  BY <1>1
<1>5. a \notin Gated => best'[a] <= s /\ best'[a] <= (IF t > 0 THEN t ELSE 0)
  BY <1>1, <1>2
<1> QED BY <1>3, <1>4, <1>5 DEF AttrInv, Newer

\* Every entity that has subscribed is told of a state no older than before.
LEMMA NotifyStep ==
    ASSUME TypeOK, EntInv, Notify, state' \in [Attrs -> 0..MaxTime], connected' \in BOOLEAN,
           session' \in Sessions, session' = "starting" => connected',
           now' \in 0..MaxTime, now' >= now,
           \A a \in Attrs : state'[a] = state[a] \/ state'[a] = now',
           UNCHANGED <<added, saved>>
    PROVE  TypeOK' /\ EntInv'
<1>1. TypeOK'
  BY WriteType DEF Notify, TypeOK, Sessions
<1>2. ASSUME NEW a \in Attrs PROVE AttrInv(a)'
  <2>0. AttrInv(a)
    BY DEF EntInv
  <2>1. state[a] <= now' /\ best[a] <= now' /\ saved'[a] <= now' /\ state'[a] <= now'
    BY <2>0, AttrType DEF AttrInv
  <2>2. CASE a \in added
    <3>1. a \notin Gated => best[a] <= state'[a]
      BY <2>0, <2>1, <2>2 DEF AttrInv
    <3> QED BY <2>1, <2>2, <3>1, WrittenInv DEF Notify
  <2>3. CASE a \notin added
    <3>1. shown'[a] = -1 /\ best'[a] = best[a]
      BY <2>0, <2>3, AttrType DEF AttrInv, Notify, Write, Newer, Unavailable
    <3>2. state'[a] # 0 => (state[a] # 0 /\ state'[a] >= state[a]) \/ state'[a] >= best[a]
      BY <2>1, AttrType
    <3> QED BY <2>0, <2>1, <2>3, <3>1, <3>2, AttrType DEF AttrInv, Unavailable
  <2> QED BY <2>2, <2>3
<1> QED BY <1>1, <1>2 DEF EntInv

\* A session is connected, a value or a date is obtained: one attribute is newer.
LEMMA TickType ==
    ASSUME TypeOK, Clock, NEW b \in Attrs, state' = Set(state, b, now')
    PROVE  /\ state' \in [Attrs -> 0..MaxTime]
           /\ \A a \in Attrs : state'[a] = state[a] \/ state'[a] = now'
           /\ now' \in 0..MaxTime /\ now' > now /\ now' >= now
<1>1. now' \in 0..MaxTime /\ now' > now
  BY ClockType
<1>2. now' >= now
  BY <1>1, EntitiesAssumption DEF TypeOK
<1> QED BY <1>1, <1>2, SetType

\* The connection of a held session: no entity is told.
LEMMA ConnectStep == ASSUME TypeOK, EntInv, Connect PROVE TypeOK' /\ EntInv'
<1>1. Last \in Attrs
  BY DEF Attrs
<1>2. /\ state' \in [Attrs -> 0..MaxTime] /\ now' \in 0..MaxTime /\ now' > now
      /\ \A a \in Attrs : state'[a] = state[a] \/ state'[a] = now'
  BY <1>1, TickType DEF Connect
<1>3. /\ session' = "starting" /\ connected' = TRUE
      /\ UNCHANGED <<added, shown, saved, best>>
  BY DEF Connect
<1>4. TypeOK'
  BY <1>2, <1>3 DEF TypeOK
<1>5. ASSUME NEW a \in Attrs PROVE AttrInv(a)'
  <2>0. AttrInv(a)
    BY DEF EntInv
  <2>1. state'[a] = state[a] \/ state'[a] = now'
    BY <1>2
  <2>2. state[a] <= now' /\ best[a] <= now' /\ saved[a] <= now' /\ now' >= now
    BY <2>0, <1>2, AttrType DEF AttrInv
  <2>3. state'[a] <= now' /\ state'[a] >= state[a]
    BY <2>1, <2>2, <1>2, AttrType
  <2>4. CASE a \in added
    BY <2>0, <2>2, <2>3, <2>4, <1>2, <1>3, AttrType DEF AttrInv
  <2>5. CASE a \notin added
    BY <2>0, <2>1, <2>2, <2>3, <2>5, <1>2, <1>3, AttrType DEF AttrInv
  <2> QED BY <2>4, <2>5
<1> QED BY <1>3, <1>4, <1>5 DEF EntInv

\* An entity is back: only its own attribute and its own state change.
LEMMA RestoreStep == ASSUME TypeOK, EntInv, NEW b \in Attrs, Restore(b) PROVE TypeOK' /\ EntInv'
<1>1. /\ b \notin added /\ added' = added \cup {b} /\ Write({b})
      /\ UNCHANGED <<now, connected, session, saved>>
      /\ state' = IF Restorable(b) THEN Set(state, b, saved[b]) ELSE state
  BY DEF Restore
<1>2. /\ state' \in [Attrs -> 0..MaxTime]
      /\ \A a \in Attrs : a # b => state'[a] = state[a]
      /\ state'[b] = IF state[b] = 0 /\ saved[b] > 0 THEN saved[b] ELSE state[b]
  <2>1. CASE Restorable(b)
    <3>1. saved[b] \in 0..MaxTime
      BY <2>1, AttrType DEF Restorable
    <3> QED BY <1>1, <2>1, <3>1, SetType DEF Restorable
  <2>2. CASE ~Restorable(b)
    BY <1>1, <2>2 DEF Restorable, TypeOK
  <2> QED BY <2>1, <2>2
<1>3. TypeOK'
  BY <1>1, <1>2, WriteType DEF TypeOK
<1>4. AttrInv(b)'
  <2>0. AttrInv(b)
    BY DEF EntInv
  <2>1. state'[b] <= now /\ best[b] <= now /\ saved[b] <= now
    BY <2>0, <1>2, AttrType DEF AttrInv
  <2>2. b \notin Gated => best[b] <= state'[b]
    BY <2>0, <1>1, <1>2, AttrType DEF AttrInv, Newer
  <2>3. now' \in 0..MaxTime /\ connected' \in BOOLEAN
    BY <1>3 DEF TypeOK
  <2> QED BY <1>1, <1>2, <2>1, <2>2, <2>3, WrittenInv
<1>5. ASSUME NEW a \in Attrs, a # b PROVE AttrInv(a)'
  <2>0. AttrInv(a)
    BY DEF EntInv
  <2>1. shown'[a] = shown[a] /\ best'[a] = Newer(best[a], shown[a]) /\ state'[a] = state[a]
    BY <1>1, <1>2, <1>5 DEF Write
  <2>2. /\ now' = now /\ saved' = saved /\ session' = session /\ (a \in added' <=> a \in added)
    BY <1>1, <1>5
  <2>3. best'[a] <= now
    BY <2>0, <2>1, AttrType DEF AttrInv, Newer, Unavailable
  <2>4. CASE a \in added
    BY <2>0, <2>1, <2>2, <2>3, <2>4, AttrType DEF AttrInv, Newer
  <2>5. CASE a \notin added
    BY <2>0, <2>1, <2>2, <2>3, <2>5, AttrType DEF AttrInv, Newer, Unavailable
  <2> QED BY <2>4, <2>5
<1> QED BY <1>1, <1>3, <1>4, <1>5 DEF EntInv

\* What is persisted of an attribute.
LEMMA PersistedType ==
    ASSUME TypeOK, EntInv
    PROVE  /\ Persisted \in [Attrs -> -1..MaxTime]
           /\ \A a \in Attrs : /\ Persisted[a] = IF a \in added THEN shown[a] ELSE saved[a]
                               /\ Persisted[a] <= now
<1>1. \A a \in Attrs : Persisted[a] = IF a \in added THEN shown[a] ELSE saved[a]
  BY DEF Persisted
<1>2. ASSUME NEW a \in Attrs PROVE Persisted[a] <= now
  BY <1>1, AttrType DEF EntInv, AttrInv
<1>3. Persisted \in [Attrs -> -1..MaxTime]
  BY DEF Persisted, TypeOK
<1> QED BY <1>1, <1>2, <1>3

LEMMA DumpStep == ASSUME TypeOK, EntInv, Dump PROVE TypeOK' /\ EntInv'
<1>1. saved' = Persisted /\ UNCHANGED <<now, state, connected, session, added, shown, best>>
  BY DEF Dump, link
<1>2. TypeOK'
  BY <1>1, PersistedType DEF TypeOK
<1>3. ASSUME NEW a \in Attrs PROVE AttrInv(a)'
  BY <1>1, PersistedType DEF EntInv, AttrInv
<1> QED BY <1>1, <1>2, <1>3 DEF EntInv

\* Another link: nothing is known, no entity is back.
LEMMA ReplacedStep ==
    ASSUME TypeOK, Replaced, saved' \in [Attrs -> -1..MaxTime], best' \in [Attrs -> 0..MaxTime],
           \A a \in Attrs : /\ saved'[a] <= now /\ best'[a] <= now
                            /\ a \notin Gated => best'[a] <= Newer(saved'[a], 0)
    PROVE  TypeOK' /\ EntInv'
<1>1. /\ state' = Nothing /\ connected' = FALSE /\ session' = "none"
      /\ added' = {} /\ shown' = Absent /\ now' = now
  BY DEF Replaced
<1>2. \A a \in Attrs : state'[a] = 0 /\ shown'[a] = -1
  BY <1>1 DEF Nothing, Absent, Unavailable
<1>3. state' \in [Attrs -> 0..MaxTime] /\ shown' \in [Attrs -> -1..MaxTime]
  BY <1>1, EntitiesAssumption DEF Nothing, Absent, Unavailable
<1>4. TypeOK'
  BY <1>1, <1>3 DEF TypeOK
<1>5. ASSUME NEW a \in Attrs PROVE AttrInv(a)'
  <2>1. 0 <= now
    BY EntitiesAssumption DEF TypeOK
  <2> QED BY <1>1, <1>2, <2>1 DEF AttrInv, Unavailable
<1> QED BY <1>1, <1>4, <1>5 DEF EntInv

LEMMA ReloadStep == ASSUME TypeOK, EntInv, Reload PROVE TypeOK' /\ EntInv'
<1>1. saved' = Persisted /\ Replaced /\ best' = best
  BY DEF Reload
<1>2. ASSUME NEW a \in Attrs
      PROVE  /\ saved'[a] <= now /\ best'[a] <= now
             /\ a \notin Gated => best'[a] <= Newer(saved'[a], 0)
  <2>1. saved'[a] = IF a \in added THEN shown[a] ELSE saved[a]
    BY <1>1 DEF Persisted
  <2>2. saved'[a] <= now
    BY <1>1, PersistedType
  <2> QED BY <1>1, <2>1, <2>2 DEF EntInv, AttrInv
<1>3. saved' \in [Attrs -> -1..MaxTime] /\ best' \in [Attrs -> 0..MaxTime]
  BY <1>1, PersistedType DEF TypeOK
<1> QED BY <1>1, <1>2, <1>3, ReplacedStep

LEMMA CrashStep == ASSUME TypeOK, EntInv, Crash PROVE TypeOK' /\ EntInv'
<1>1. Replaced /\ saved' = saved /\ best' = [a \in Attrs |-> Newer(saved[a], 0)]
  BY DEF Crash
<1>2. ASSUME NEW a \in Attrs
      PROVE  /\ Newer(saved[a], 0) \in 0..MaxTime /\ saved[a] <= now
             /\ Newer(saved[a], 0) <= now
  BY AttrType DEF EntInv, AttrInv, Newer
<1>3. best' \in [Attrs -> 0..MaxTime] /\ saved' \in [Attrs -> -1..MaxTime]
  BY <1>1, <1>2 DEF TypeOK
<1>4. ASSUME NEW a \in Attrs
      PROVE  /\ saved'[a] <= now /\ best'[a] <= now
             /\ a \notin Gated => best'[a] <= Newer(saved'[a], 0)
  BY <1>1, <1>2, AttrType
<1> QED BY <1>1, <1>3, <1>4, ReplacedStep

-----------------------------------------------------------------------------
(* Every step. *)

LEMMA InvStep == TypeOK /\ EntInv /\ [Next]_vars => TypeOK' /\ EntInv'
<1> SUFFICES ASSUME TypeOK, EntInv, [Next]_vars PROVE TypeOK' /\ EntInv'
  OBVIOUS
<1>t. /\ state \in [Attrs -> 0..MaxTime] /\ connected \in BOOLEAN /\ session \in Sessions
      /\ now \in 0..MaxTime /\ now >= now /\ MaxTime \in Nat
      /\ (session = "starting" => connected)
  BY EntitiesAssumption DEF TypeOK, EntInv, Sessions
<1>1. CASE Connect
  BY <1>1, ConnectStep
<1>2. CASE Announce
  BY <1>2, <1>t, NotifyStep DEF Announce, Sessions
<1>3. CASE BriefConnect
  <2>1. Last \in Attrs
    BY DEF Attrs
  <2> QED BY <1>3, <1>t, <2>1, TickType, NotifyStep DEF BriefConnect, Sessions
<1>4. CASE Disconnect
  <2>1. CASE connected
    BY <1>4, <2>1, <1>t, NotifyStep DEF Disconnect, Sessions
  <2>2. CASE ~connected
    <3>1. /\ session # "starting" /\ session' = "none" /\ connected' = FALSE
          /\ UNCHANGED <<now, state, added, shown, saved, best>>
      BY <1>4, <2>2, <1>t DEF Disconnect
    <3>2. TypeOK'
      BY <3>1 DEF TypeOK
    <3>3. ASSUME NEW a \in Attrs PROVE AttrInv(a)'
      BY <3>1 DEF EntInv, AttrInv
    <3> QED BY <3>1, <3>2, <3>3 DEF EntInv
  <2> QED BY <1>t, <2>1, <2>2
<1>5. CASE Advertise
  BY <1>5, <1>t, NotifyStep DEF Advertise, link
<1>6. ASSUME NEW a \in Attrs, Obtain(a) \/ Dates(a) PROVE TypeOK' /\ EntInv'
  <2>1. /\ Clock /\ state' = Set(state, a, now') /\ Notify
        /\ UNCHANGED <<connected, session, added, saved>>
    BY <1>6 DEF Obtain, Dates
  <2> QED BY <2>1, <1>t, TickType, NotifyStep
<1>7. ASSUME NEW a \in Attrs, Restore(a) PROVE TypeOK' /\ EntInv'
  BY <1>7, RestoreStep
<1>8. CASE Dump
  BY <1>8, DumpStep
<1>9. CASE Reload
  BY <1>9, ReloadStep
<1>10. CASE Crash
  BY <1>10, CrashStep
<1>11. CASE UNCHANGED vars
  <2>1. UNCHANGED <<now, state, connected, session, added, shown, saved, best>>
    BY <1>11 DEF vars, link
  <2>2. ASSUME NEW a \in Attrs PROVE AttrInv(a)'
    BY <2>1 DEF EntInv, AttrInv
  <2> QED BY <2>1, <2>2, <1>t DEF TypeOK, EntInv
<1> QED
  BY <1>1, <1>2, <1>3, <1>4, <1>5, <1>6, <1>7, <1>8, <1>9, <1>10, <1>11 DEF Next

LEMMA InitInv == Init => TypeOK /\ EntInv
<1> SUFFICES ASSUME Init PROVE TypeOK /\ EntInv
  OBVIOUS
<1>1. \A a \in Attrs : state[a] = 0 /\ shown[a] = -1 /\ saved[a] = -1 /\ best[a] = 0
  BY DEF Init, Nothing, Absent, Unavailable
<1>2. TypeOK
  <2>1. Nothing \in [Attrs -> 0..MaxTime] /\ 0 \in 0..MaxTime
    BY EntitiesAssumption DEF Nothing
  <2>2. Absent \in [Attrs -> -1..MaxTime]
    BY EntitiesAssumption DEF Absent, Unavailable
  <2> QED BY <2>1, <2>2 DEF Init, TypeOK
<1>3. ASSUME NEW a \in Attrs PROVE AttrInv(a)
  BY <1>1 DEF Init, AttrInv, Newer, Unavailable
<1> QED BY <1>2, <1>3 DEF Init, EntInv

LEMMA Invariant == Spec => [](TypeOK /\ EntInv)
BY InitInv, InvStep, PTL DEF Spec

-----------------------------------------------------------------------------
(* The theorems. *)

\* The types, for any number of readings.
THEOREM TypeCorrect == Spec => []TypeOK
BY Invariant, PTL

\* The value an entity shows is the one of the link, in any order of restores,
\* sessions and notifications, but while a held session starts.
THEOREM ShownIsCurrentHolds == Spec => []ShownIsCurrent
<1>1. ASSUME TypeOK, EntInv PROVE ShownIsCurrent
  <2>1. added \subseteq Attrs
    BY <1>1 DEF TypeOK
  <2> QED BY <1>1, <2>1 DEF EntInv, AttrInv, ShownIsCurrent
<1> QED BY Invariant, <1>1, PTL

\* A date that an entity has shown is not lost by reloads and orderly stops.
THEOREM DatesSurviveHolds == Spec => []DatesSurvive
<1>1. ASSUME TypeOK, EntInv, NEW a \in added \ Gated PROVE state[a] >= best[a]
  <2>1. a \in Attrs
    BY <1>1 DEF TypeOK
  <2> QED BY <1>1, <2>1, AttrType DEF EntInv, AttrInv
<1>2. TypeOK /\ EntInv => DatesSurvive
  BY <1>1 DEF DatesSurvive
<1> QED BY Invariant, <1>2, PTL

\* While a link lives none of its attributes goes back to an older value: what is
\* restored never replaces what has been obtained since the start.
THEOREM NeverBackHolds == Spec => NeverBack
<1>1. ASSUME TypeOK, EntInv, Next, added' # {}, NEW a \in Attrs PROVE state'[a] >= state[a]
  <2>0. AttrInv(a)
    BY <1>1 DEF EntInv
  <2>1. CASE UNCHANGED state
    BY <1>1, <2>1, AttrType
  <2>2. ASSUME NEW b \in Attrs, Clock, state' = Set(state, b, now') PROVE state'[a] >= state[a]
    <3>1. state'[a] = state[a] \/ state'[a] = now'
      BY <1>1, <2>2, TickType
    <3>2. now' \in 0..MaxTime /\ now' > now
      BY <1>1, <2>2, TickType
    <3> QED BY <1>1, <2>0, <3>1, <3>2, AttrType DEF AttrInv
  <2>3. ASSUME NEW b \in Attrs, Restore(b) PROVE state'[a] >= state[a]
    <3>1. CASE Restorable(b) /\ a = b
      <4>1. saved[b] \in 0..MaxTime /\ state[b] = 0
        BY <1>1, <3>1, AttrType DEF Restorable
      <4>2. state'[a] = saved[b]
        BY <1>1, <2>3, <3>1, <4>1, SetType DEF Restore
      <4> QED BY <3>1, <4>1, <4>2, EntitiesAssumption
    <3>2. CASE Restorable(b) /\ a # b
      <4>1. saved[b] \in 0..MaxTime
        BY <1>1, <3>2, AttrType DEF Restorable
      <4>2. state'[a] = state[a]
        BY <1>1, <2>3, <3>2, <4>1, SetType DEF Restore
      <4> QED BY <1>1, <4>2, AttrType
    <3>3. CASE ~Restorable(b)
      BY <1>1, <2>3, <3>3, AttrType DEF Restore
    <3> QED BY <3>1, <3>2, <3>3
  <2>4. Last \in Attrs
    BY DEF Attrs
  <2>5. ~Reload /\ ~Crash
    BY <1>1 DEF Reload, Crash, Replaced
  <2> QED BY <1>1, <2>1, <2>2, <2>3, <2>4, <2>5
          DEF Next, Connect, Announce, BriefConnect, Disconnect, Advertise, Obtain, Dates,
              Dump, link
<1>2. TypeOK /\ EntInv /\ [Next]_vars => [added' # {} => \A a \in Attrs : state'[a] >= state[a]]_vars
  BY <1>1
<1> QED BY Invariant, <1>2, PTL DEF Spec, NeverBack
=============================================================================
