-------------------------- MODULE MailTrackerProofs --------------------------
(***************************************************************************)
(* Theorems about MailTracker for every window, list bound, lateness and   *)
(* length of run, then about MailJournal for every length of read.  Those  *)
(* about Spec hold in every mode; JSpec is that of the journal.            *)
(***************************************************************************)
EXTENDS MailJournal, TLAPS

(***************************************************************************)
(* The strengthening.  NoFalseAlarm looks at the commands that have been   *)
(* accepted, on_tick at those it still holds: PressesKept relates the two, *)
(* and FlaggedElapsed keeps a later command from falling into the window   *)
(* of an opening already judged.  NoMissedAlarm needs to know where an     *)
(* opening can be (OpeningsAccounted), that a timer waits for it           *)
(* (PendingHasTimer) and that no timer is overdue (TimersOnTime).          *)
(***************************************************************************)
PressesKept == haOpens \subseteq presses /\ presses \subseteq haOpens \cup forgotten

FlaggedElapsed == \A at \in flagged : now >= at + Window

TimersOnTime == \A due \in timers : now <= due + Late

OpeningsAccounted ==
    Mode = "ha_command" =>
        \A at \in openings \ forgotten :
            \/ at \in pending \cup flagged
            \/ \E press \in presses : Distance(at, press) <= Window

Inv == /\ TypeOK
       /\ PressesKept
       /\ FlaggedElapsed
       /\ TimersOnTime
       /\ OpeningsAccounted
       /\ PendingHasTimer
       /\ NoFalseAlarm

\* Instants are natural numbers, and those of the inputs can still be judged.
LEMMA InstantsAreNaturals ==
    /\ Instant \subseteq Nat
    /\ 0 \in Instant /\ MaxInput \in Instant
    /\ Window \in Nat /\ Late \in Nat /\ MaxInput \in Nat
BY TimesAssumption DEF Instant

\* Trimming a list only drops entries.
LEMMA KeepDrops == ASSUME NEW S PROVE Keep(S) \subseteq S
BY DEF Keep

\* Publishing dates that are instants keeps every date an instant.
LEMMA PublishType ==
    ASSUME TypeOK, NEW kind \in {"deposited", "collected", "unauthorized"},
           NEW instants \in SUBSET Instant, Publish(kind, instants)
    PROVE  dates' \in [{"deposited", "collected", "unauthorized"} -> Instant \cup {Never}]
BY DEF TypeOK, Publish

\* Distance is the absolute difference.
LEMMA DistanceFacts ==
    ASSUME NEW a \in Nat, NEW b \in Nat
    PROVE  /\ Distance(a, b) \in Nat
           /\ b >= a => Distance(a, b) = b - a
           /\ Distance(a, b) = Distance(b, a)
BY DEF Distance

LEMMA InitInv == Init => Inv
<1> SUFFICES ASSUME Init PROVE Inv
  OBVIOUS
<1>1. TypeOK
  BY InstantsAreNaturals DEF Init, TypeOK, Reported
<1>2. PressesKept /\ FlaggedElapsed /\ TimersOnTime /\ OpeningsAccounted
      /\ PendingHasTimer /\ NoFalseAlarm
  BY DEF Init, PressesKept, FlaggedElapsed, TimersOnTime, OpeningsAccounted,
     PendingHasTimer, NoFalseAlarm
<1> QED
  BY <1>1, <1>2 DEF Inv

LEMMA FlapInv == ASSUME Inv, NEW state \in Reported, Flap(state) PROVE Inv'
<1>1. TypeOK'
  <2>1. dates' \in [{"deposited", "collected", "unauthorized"} -> Instant \cup {Never}]
    BY PublishType DEF Inv, TypeOK, Flap
  <2>2. flapOpen' \in BOOLEAN
    BY DEF Inv, TypeOK, Flap
  <2>3. flapTrace' \in Reported \X Reported \X Reported
    BY DEF Inv, TypeOK, Flap
  <2> QED
    BY <2>1, <2>2, <2>3 DEF Inv, TypeOK, Flap
<1> QED
  BY <1>1 DEF Inv, Flap, PressesKept, FlaggedElapsed, TimersOnTime,
     OpeningsAccounted, PendingHasTimer, NoFalseAlarm

\* The steps both modes have in common keep the types.
LEMMA DoorType == ASSUME TypeOK, NEW state \in Reported, Door(state) PROVE TypeOK'
<1>0. now \in Nat /\ now \in Instant
  BY InstantsAreNaturals DEF TypeOK
<1>1. CASE Edge(door, state) = "open"
  <2>1. /\ pending' \subseteq pending \cup {now}
        /\ openings' \subseteq openings \cup {now}
        /\ forgotten' \subseteq forgotten \cup pending \cup {now}
        /\ timers' \subseteq timers \cup {now + Window + 1}
        /\ UNCHANGED <<now, flap, flapOpen, haOpens, presses, flagged, flapTrace>>
    BY <1>1, KeepDrops DEF Door, DoorOpens
  <2>2. dates' \in [{"deposited", "collected", "unauthorized"} -> Instant \cup {Never}]
    BY <1>0, <1>1, PublishType DEF Door, DoorOpens
  <2>3. timers' \subseteq Nat /\ door' = state
    BY <1>0, <2>1, InstantsAreNaturals DEF TypeOK, Door
  <2> QED BY <1>0, <2>1, <2>2, <2>3 DEF TypeOK
<1>2. CASE Edge(door, state) # "open"
  BY <1>2 DEF Door, TypeOK
<1> QED BY <1>1, <1>2

LEMMA HaOpenType == ASSUME TypeOK, HaOpen PROVE TypeOK'
<1>0. now \in Instant
  BY DEF TypeOK
<1>1. /\ haOpens' \subseteq haOpens \cup {now} /\ pending' \subseteq pending
      /\ presses' = presses \cup {now}
      /\ forgotten' = forgotten \cup ((haOpens \cup {now}) \ haOpens')
      /\ UNCHANGED <<now, door, flap, flapOpen, timers, dates,
                     openings, flagged, flapTrace>>
  BY KeepDrops DEF HaOpen
<1> QED BY <1>0, <1>1 DEF TypeOK

LEMMA ReloadType == ASSUME TypeOK, Reload PROVE TypeOK'
<1>1. flapTrace' \in Reported \X Reported \X Reported
  BY DEF TypeOK, Reload, Reported
<1> QED BY <1>1 DEF TypeOK, Reload

LEMMA AdvanceType == ASSUME TypeOK, Advance PROVE TypeOK'
<1>1. now' \in Instant
  BY InstantsAreNaturals DEF TypeOK, Advance, Instant
<1> QED BY <1>1 DEF TypeOK, Advance, logic, history

LEMMA DoorInv == ASSUME Inv, NEW state \in Reported, Door(state) PROVE Inv'
<1>0. now \in Nat /\ now \in Instant
  BY InstantsAreNaturals DEF Inv, TypeOK
<1>t. TypeOK'
  BY DoorType DEF Inv
<1>1. CASE Edge(door, state) = "open" /\ Mode # "off"
  <2>1. /\ pending' = Keep(pending \cup {now})
        /\ pending' \subseteq pending \cup {now}
        /\ openings' = openings \cup {now}
        /\ forgotten' = forgotten \cup ((pending \cup {now}) \ pending')
        /\ timers' = IF Mode = "ha_command" THEN timers \cup {now + Window + 1} ELSE timers
        /\ UNCHANGED <<now, flap, flapOpen, haOpens, presses, flagged, flapTrace>>
    BY <1>1, KeepDrops DEF Door, DoorOpens
  <2>4. TimersOnTime'
    BY <1>0, <2>1, InstantsAreNaturals DEF Inv, TypeOK, TimersOnTime
  <2>5. OpeningsAccounted' /\ PendingHasTimer'
    BY <2>1 DEF Inv, OpeningsAccounted, PendingHasTimer
  <2> QED
    BY <1>t, <2>1, <2>4, <2>5
    DEF Inv, PressesKept, FlaggedElapsed, NoFalseAlarm
<1>2. CASE ~(Edge(door, state) = "open" /\ Mode # "off")
  <2>1. UNCHANGED <<pending, openings, forgotten, now, flap, flapOpen, haOpens,
                    presses, flagged, flapTrace>>
    BY <1>2 DEF Door, DoorOpens
  <2>2. timers' = timers
    BY <1>2, ModeAssumption DEF Door, DoorOpens
  <2> QED
    BY <1>t, <2>1, <2>2 DEF Inv, PressesKept, FlaggedElapsed, TimersOnTime,
       OpeningsAccounted, PendingHasTimer, NoFalseAlarm
<1> QED
  BY <1>1, <1>2

LEMMA HaOpenInv == ASSUME Inv, HaOpen PROVE Inv'
<1>0. now \in Nat /\ now \in Instant
  BY InstantsAreNaturals DEF Inv, TypeOK
<1>1. /\ haOpens' \subseteq haOpens \cup {now}
      /\ pending' = {at \in pending : Distance(at, now) > Window}
      /\ presses' = presses \cup {now}
      /\ forgotten' = forgotten \cup ((haOpens \cup {now}) \ haOpens')
      /\ UNCHANGED <<now, door, flap, flapOpen, timers, dates,
                     openings, flagged, flapTrace>>
  BY KeepDrops DEF HaOpen
<1>2. TypeOK'
  BY HaOpenType DEF Inv
<1>3. PressesKept'
  BY <1>1 DEF Inv, PressesKept
<1>4. OpeningsAccounted'
  <2> SUFFICES ASSUME Mode = "ha_command", NEW at \in openings' \ forgotten'
               PROVE  \/ at \in pending' \cup flagged'
                      \/ \E press \in presses' : Distance(at, press) <= Window
    BY DEF OpeningsAccounted
  <2>1. at \in openings \ forgotten /\ at \in Nat
    BY <1>1, InstantsAreNaturals DEF Inv, TypeOK
  <2>2. CASE at \in pending
    <3>1. Distance(at, now) > Window \/ Distance(at, now) <= Window
      BY <1>0, <2>1, DistanceFacts, InstantsAreNaturals
    <3> QED
      BY <1>1, <2>2, <3>1
  <2>3. CASE at \notin pending
    BY <1>1, <2>1, <2>3 DEF Inv, OpeningsAccounted
  <2> QED
    BY <2>2, <2>3
<1>5. NoFalseAlarm'
  <2> SUFFICES ASSUME NEW at \in flagged', NEW press \in presses' \ forgotten'
               PROVE  Distance(at, press) >= Window
    BY <1>1 DEF NoFalseAlarm
  <2>1. at \in flagged /\ at \in Nat /\ now >= at + Window
    BY <1>1, InstantsAreNaturals DEF Inv, TypeOK, FlaggedElapsed
  <2>2. CASE press = now
    BY <1>0, <2>1, <2>2, DistanceFacts, InstantsAreNaturals
  <2>3. CASE press # now
    BY <1>1, <2>1, <2>3 DEF Inv, NoFalseAlarm
  <2> QED
    BY <2>2, <2>3
<1> QED
  BY <1>1, <1>2, <1>3, <1>4, <1>5
  DEF Inv, FlaggedElapsed, TimersOnTime, PendingHasTimer

LEMMA TickInv == ASSUME Inv, NEW due \in timers, Tick(due) PROVE Inv'
<1> DEFINE out == {at \in Elapsed : ~Near(at, haOpens)}
<1>0. now \in Nat /\ due \in Nat
  BY InstantsAreNaturals DEF Inv, TypeOK
<1>1. /\ now >= due /\ timers' = timers \ {due}
      /\ flagged' = flagged \cup out
      /\ pending' = pending \ Elapsed
      /\ UNCHANGED <<now, door, flap, flapOpen, haOpens,
                     openings, presses, forgotten, flapTrace>>
  BY DEF Tick, Judge
<1>2. out \subseteq pending /\ pending \subseteq Nat /\ out \in SUBSET Instant
  BY InstantsAreNaturals DEF Inv, TypeOK, Elapsed
<1>3. TypeOK'
  <2>1. dates' \in [{"deposited", "collected", "unauthorized"} -> Instant \cup {Never}]
    BY <1>2, PublishType DEF Inv, Tick, Judge
  <2> QED
    BY <1>1, <1>2, <2>1 DEF Inv, TypeOK
<1>4. FlaggedElapsed'
  <2>1. \A at \in out : now >= at + Window
    BY <1>0, <1>2, InstantsAreNaturals DEF Elapsed
  <2> QED
    BY <1>1, <2>1 DEF Inv, FlaggedElapsed
<1>5. PendingHasTimer'
  \* Whatever still waits was not due with this timer.
  <2> SUFFICES ASSUME Mode = "ha_command", NEW at \in pending' PROVE at + Window + 1 \in timers'
    BY DEF PendingHasTimer
  <2>1. at \in pending /\ at \in Nat /\ ~(now - at >= Window)
    BY <1>1, <1>2 DEF Elapsed
  <2>2. at + Window + 1 \in timers
    BY <2>1 DEF Inv, PendingHasTimer
  <2>3. at + Window + 1 # due
    BY <1>0, <1>1, <2>1, InstantsAreNaturals
  <2> QED
    BY <1>1, <2>2, <2>3
<1>6. OpeningsAccounted'
  <2> SUFFICES ASSUME Mode = "ha_command", NEW at \in openings \ forgotten
               PROVE  \/ at \in pending' \cup flagged'
                      \/ \E press \in presses : Distance(at, press) <= Window
    BY <1>1 DEF OpeningsAccounted
  <2>1. CASE at \in Elapsed /\ Near(at, haOpens)
    <3>1. PICK press \in haOpens : Distance(at, press) <= Window
      BY <2>1 DEF Near
    <3> QED
      BY <3>1 DEF Inv, PressesKept
  <2>2. CASE ~(at \in Elapsed /\ Near(at, haOpens))
    BY <1>1, <2>2 DEF Inv, OpeningsAccounted
  <2> QED
    BY <2>1, <2>2
<1>7. NoFalseAlarm'
  <2> SUFFICES ASSUME NEW at \in flagged', NEW press \in presses \ forgotten
               PROVE  Distance(at, press) >= Window
    BY <1>1 DEF NoFalseAlarm
  <2>1. CASE at \in flagged
    BY <2>1 DEF Inv, NoFalseAlarm
  <2>2. CASE at \in out
    <3>1. press \in haOpens /\ press \in Nat /\ at \in Nat
      BY <1>2, <2>2, InstantsAreNaturals DEF Inv, PressesKept, TypeOK
    <3>2. ~(Distance(at, press) <= Window)
      BY <2>2, <3>1 DEF Near
    <3> QED
      BY <3>1, <3>2, DistanceFacts, InstantsAreNaturals
  <2> QED
    BY <1>1, <2>1, <2>2
<1> QED
  BY <1>1, <1>3, <1>4, <1>5, <1>6, <1>7 DEF Inv, PressesKept, TimersOnTime

LEMMA ReloadInv == ASSUME Inv, Reload PROVE Inv'
<1>1. TypeOK'
  BY ReloadType DEF Inv
<1>2. PressesKept'
  BY DEF Inv, PressesKept, Reload
<1>3. NoFalseAlarm' /\ OpeningsAccounted'
  BY DEF Inv, NoFalseAlarm, OpeningsAccounted, Reload
<1> QED
  BY <1>1, <1>2, <1>3
  DEF Inv, Reload, FlaggedElapsed, TimersOnTime, PendingHasTimer

LEMMA AdvanceInv == ASSUME Inv, Advance PROVE Inv'
<1>0. now \in Nat /\ now' = now + 1
  BY InstantsAreNaturals DEF Inv, TypeOK, Advance
<1>1. TypeOK'
  BY AdvanceType DEF Inv
<1>2. FlaggedElapsed'
  <2>1. \A at \in flagged : at \in Nat /\ now >= at + Window
    BY InstantsAreNaturals DEF Inv, TypeOK, FlaggedElapsed
  <2> QED
    BY <1>0, <2>1, InstantsAreNaturals DEF FlaggedElapsed, Advance, history
<1>3. TimersOnTime'
  <2>1. \A due \in timers : due \in Nat /\ now < due + Late
    BY DEF Inv, TypeOK, Advance
  <2> QED
    BY <1>0, <2>1, InstantsAreNaturals DEF TimersOnTime, Advance
<1> QED
  BY <1>1, <1>2, <1>3
  DEF Inv, Advance, logic, history, PressesKept, OpeningsAccounted,
      PendingHasTimer, NoFalseAlarm

LEMMA NextInv == Inv /\ [Next]_vars => Inv'
<1> SUFFICES ASSUME Inv, [Next]_vars PROVE Inv'
  OBVIOUS
<1>1. ASSUME NEW state \in Reported, Flap(state) PROVE Inv'
  BY <1>1, FlapInv
<1>2. ASSUME NEW state \in Reported, Door(state) PROVE Inv'
  BY <1>2, DoorInv
<1>3. ASSUME NEW due \in timers, Tick(due) PROVE Inv'
  BY <1>3, TickInv
<1>4. CASE UNCHANGED vars
  BY <1>4 DEF vars, logic, history, Inv, TypeOK, PressesKept, FlaggedElapsed,
     TimersOnTime, OpeningsAccounted, PendingHasTimer, NoFalseAlarm
<1> QED
  BY <1>1, <1>2, <1>3, <1>4, HaOpenInv, ReloadInv, AdvanceInv DEF Next

LEMMA InvHolds == Spec => []Inv
<1>1. Init => Inv
  BY InitInv
<1>2. Inv /\ [Next]_vars => Inv'
  BY NextInv
<1> QED
  BY <1>1, <1>2, PTL DEF Spec

\* Every variable keeps the values the code gives it.
THEOREM TypeCorrect == Spec => []TypeOK
BY InvHolds, PTL DEF Inv

\* An opening is never reported when a remembered command is within its window.
THEOREM NoFalseAlarmHolds == Spec => []NoFalseAlarm
BY InvHolds, PTL DEF Inv

\* Whatever still waits has a timer that will judge it.
THEOREM PendingHasTimerHolds == Spec => []PendingHasTimer
BY InvHolds, PTL DEF Inv

\* An opening nobody commanded is reported by the end of its window, the second
\* of margin and the lateness of the timer.
THEOREM NoMissedAlarmHolds == Spec => []NoMissedAlarm
<1>1. Inv => NoMissedAlarm
  <2> SUFFICES ASSUME Inv, Mode = "ha_command", NEW at \in openings \ forgotten,
                      now > at + Window + 1 + Late
               PROVE  at \in flagged \/ \E press \in presses : Distance(at, press) <= Window
    BY DEF NoMissedAlarm
  <2>1. at \in Nat /\ now \in Nat
    BY InstantsAreNaturals DEF Inv, TypeOK
  \* A timer of a waiting opening would be overdue.
  <2>2. at \notin pending
    <3> SUFFICES ASSUME at \in pending PROVE FALSE
      OBVIOUS
    <3>1. at + Window + 1 \in timers
      BY DEF Inv, PendingHasTimer
    <3>2. now <= at + Window + 1 + Late
      BY <3>1 DEF Inv, TimersOnTime
    <3> QED
      BY <2>1, <3>2, InstantsAreNaturals
  <2> QED
    BY <2>2 DEF Inv, OpeningsAccounted
<1> QED
  BY <1>1, InvHolds, PTL

-----------------------------------------------------------------------------
(***************************************************************************)
(* Deposits.  `_flap_opened_at` is the memory of a closed-to-open change   *)
(* the flap has not left since: exactly what the history of its states     *)
(* shows.  No deposit is dated later than now, so a new one is published.  *)
(***************************************************************************)
FlapCycle ==
    /\ flapTrace[3] = flap
    /\ flapOpen <=> (flapTrace[2] = "closed" /\ flapTrace[3] = "open")
    /\ dates["deposited"] <= now

\* A date published under another name is not a deposit.
LEMMA PublishOther ==
    ASSUME TypeOK, NEW kind \in {"collected", "unauthorized"}, NEW instants, Publish(kind, instants)
    PROVE  dates'["deposited"] = dates["deposited"]
BY DEF TypeOK, Publish

LEMMA DepositTyped ==
    ASSUME TypeOK, FlapCycle
    PROVE  now \in Nat /\ dates["deposited"] \in Int /\ dates["deposited"] <= now
<1>1. now \in Nat
  BY InstantsAreNaturals DEF TypeOK
<1>2. dates["deposited"] \in Instant \cup {Never}
  BY DEF TypeOK
<1>3. dates["deposited"] \in Int
  <2>1. Never \in Int
    BY DEF Never
  <2>2. Instant \subseteq Int
    BY InstantsAreNaturals
  <2> QED BY <1>2, <2>1, <2>2
<1>4. dates["deposited"] <= now
  BY DEF FlapCycle
<1> QED BY <1>1, <1>3, <1>4

\* A step of the flap: what it does to its history, and to the deposits.
LEMMA FlapStep ==
    ASSUME TypeOK, FlapCycle, NEW state \in Reported, Flap(state)
    PROVE  /\ flapTrace' = IF state = flap THEN flapTrace
                           ELSE <<flapTrace[2], flap, state>>
           /\ dates'["deposited"] = IF flapTrace' # flapTrace /\ flapTrace' = <<"closed", "open", "closed">>
                                    THEN now ELSE dates["deposited"]
           /\ FlapCycle'
<1>0. /\ now \in Nat /\ dates["deposited"] \in Int /\ dates["deposited"] <= now
      /\ flapTrace = <<flapTrace[1], flapTrace[2], flapTrace[3]>>
      /\ flap \in Reported /\ flapOpen \in BOOLEAN
  <2>1. flap \in Reported /\ flapOpen \in BOOLEAN
    BY DEF TypeOK
  <2>2. flapTrace \in Reported \X Reported \X Reported
    BY DEF TypeOK
  <2>3. flapTrace = <<flapTrace[1], flapTrace[2], flapTrace[3]>>
    BY <2>2
  <2> QED BY <2>1, <2>3, DepositTyped
<1>1. /\ flap' = state /\ now' = now
      /\ flapTrace' = IF state = flap THEN flapTrace ELSE <<flapTrace[2], flap, state>>
  BY DEF Flap, FlapCycle
<1>2. flapOpen' <=> (flapTrace'[2] = "closed" /\ flapTrace'[3] = "open")
  <2>1. CASE state = flap
    BY <1>0, <1>1, <2>1 DEF Flap, Edge, FlapCycle, Reported
  <2>2. CASE state # flap
    BY <1>0, <1>1, <2>2 DEF Flap, Edge, FlapCycle, Reported
  <2> QED BY <2>1, <2>2
<1>3. (Edge(flap, state) = "closed" /\ flapOpen)
          <=> (flapTrace' # flapTrace /\ flapTrace' = <<"closed", "open", "closed">>)
  <2>1. CASE state = flap
    BY <1>1, <2>1 DEF Edge, Reported
  <2>2. CASE state # flap
    <3>1. flapTrace' = <<flapTrace[2], flap, state>> /\ flapTrace' # flapTrace
      BY <1>0, <1>1, <2>2 DEF FlapCycle
    <3> QED BY <1>0, <2>2, <3>1 DEF Edge, FlapCycle, Reported
  <2> QED BY <2>1, <2>2
<1>4. CASE Edge(flap, state) = "closed" /\ flapOpen
  <2>1. Publish("deposited", {now})
    BY <1>4 DEF Flap
  <2>2. dates'["deposited"] = now
    BY <1>0, <2>1 DEF Publish, TypeOK
  <2> QED BY <1>0, <1>1, <1>2, <1>3, <1>4, <2>2 DEF FlapCycle
<1>5. CASE ~(Edge(flap, state) = "closed" /\ flapOpen)
  <2>1. dates' = dates
    BY <1>5 DEF Flap
  <2> QED BY <1>0, <1>1, <1>2, <1>3, <1>5, <2>1 DEF FlapCycle
<1> QED BY <1>4, <1>5

\* What the flap does not do publishes no deposit, and a reload forgets the cycle.
LEMMA OtherStep ==
    ASSUME TypeOK, FlapCycle,
           \/ \E state \in Reported : Door(state)
           \/ HaOpen
           \/ \E due \in timers : Tick(due)
           \/ Reload
           \/ Advance
           \/ UNCHANGED vars
    PROVE  /\ dates'["deposited"] = dates["deposited"]
           /\ flapTrace' = flapTrace \/ flapTrace' = <<"unknown", "unknown", flap>>
           /\ FlapCycle'
<1>0. now \in Nat /\ dates["deposited"] \in Int /\ dates["deposited"] <= now
  BY DepositTyped
<1>1. ASSUME NEW state \in Reported, Door(state)
      PROVE  /\ dates'["deposited"] = dates["deposited"]
             /\ UNCHANGED <<now, flap, flapOpen, flapTrace>>
  BY <1>1, PublishOther DEF Door, DoorOpens
<1>2. ASSUME NEW due \in timers, Tick(due)
      PROVE  /\ dates'["deposited"] = dates["deposited"]
             /\ UNCHANGED <<now, flap, flapOpen, flapTrace>>
  BY <1>2, PublishOther DEF Tick, Judge
<1>3. CASE HaOpen \/ UNCHANGED vars
  BY <1>3 DEF HaOpen, vars, logic, history, FlapCycle
<1>4. CASE Reload
  BY <1>4 DEF Reload, FlapCycle
<1>5. CASE Advance
  BY <1>0, <1>5 DEF Advance, logic, history, FlapCycle
<1> QED BY <1>1, <1>2, <1>3, <1>4, <1>5 DEF FlapCycle

\* A deposit is published exactly when the flap is seen closed, open, closed with
\* no unknown state between, whatever comes between (on_flap, _transition, Reload).
THEOREM DepositIsFullCycleHolds == Spec => DepositIsFullCycle
<1>1. Init => FlapCycle
  <2> SUFFICES ASSUME Init PROVE FlapCycle
    OBVIOUS
  <2> QED BY DEF Init, FlapCycle, Never
<1>2. TypeOK /\ FlapCycle /\ [Next]_vars =>
          /\ FlapCycle'
          /\ \/ UNCHANGED vars
             \/ /\ dates'["deposited"] # dates["deposited"]
                      => flapTrace' = <<"closed", "open", "closed">>
                /\ (flapTrace' # flapTrace /\ flapTrace' = <<"closed", "open", "closed">>)
                      => dates'["deposited"] = now
  <2> SUFFICES ASSUME TypeOK, FlapCycle, [Next]_vars
               PROVE  /\ FlapCycle'
                      /\ dates'["deposited"] # dates["deposited"]
                            => flapTrace' = <<"closed", "open", "closed">>
                      /\ (flapTrace' # flapTrace /\ flapTrace' = <<"closed", "open", "closed">>)
                            => dates'["deposited"] = now
    OBVIOUS
  <2>1. ASSUME NEW state \in Reported, Flap(state)
        PROVE  /\ FlapCycle'
               /\ dates'["deposited"] = IF flapTrace' # flapTrace /\ flapTrace' = <<"closed", "open", "closed">>
                                        THEN now ELSE dates["deposited"]
    BY <2>1, FlapStep
  <2>2. CASE \A state \in Reported : ~Flap(state)
    BY <2>2, OtherStep DEF Next
  <2> QED BY <2>1, <2>2
<1> QED BY <1>1, <1>2, TypeCorrect, PTL DEF Spec, DepositIsFullCycle

-----------------------------------------------------------------------------
(***************************************************************************)
(* The journal mode (MailJournal).  An entry is dated by its age when the  *)
(* read ends, so its date is late by the time since it was streamed: what  *)
(* bounds it is that every entry collected was streamed since the first    *)
(* request of the read under way (EntriesAreOwn), also when another reader *)
(* has taken the fields over, and that a read lasts ReadMax at most        *)
(* (ReadIsTimely).  HasNewest is there because nothing else says that a    *)
(* set of entries has a newest one.                                        *)
(***************************************************************************)
LogIsPast == log \subseteq logged /\ \A at \in logged : at <= now

ReadIsTimely == reading # Never => reading <= now /\ now <= reading + ReadMax

EntriesAreOwn ==
    \A entry \in events :
        /\ reading # Never /\ entry.at \in logged
        /\ entry.at + entry.age \in reading..now

HasNewest ==
    events # {} => \E entry \in events : \A other \in events : other.at <= entry.at

JInv ==
    /\ JTypeOK
    /\ haOpens \subseteq presses
    /\ LogIsPast
    /\ ReadIsTimely
    /\ EntriesAreOwn
    /\ HasNewest
    /\ JournalNoMissedAlarm

LEMMA NeverIsNoInstant ==
    /\ Never \in Int /\ Never \notin Nat /\ Never \notin Instant
    /\ Instant \subseteq Int /\ ReadMax \in Nat
<1>1. Never \in Int /\ Never \notin Nat
  BY DEF Never
<1> QED BY <1>1, InstantsAreNaturals, JournalAssumption

\* An entry is dated at its opening or later, by the length of the read at most,
\* and never in the future.
LEMMA DatedNearEntry ==
    ASSUME JTypeOK, LogIsPast, ReadIsTimely, EntriesAreOwn, NEW entry \in events
    PROVE  /\ entry.at \in Instant /\ entry.at \in Nat
           /\ now - entry.age \in Instant /\ now - entry.age \in Nat
           /\ entry.at <= now - entry.age
           /\ now - entry.age <= entry.at + ReadMax
<1>1. /\ entry.at \in Instant /\ entry.age \in Instant
      /\ entry.at \in Nat /\ entry.age \in Nat /\ now \in Nat /\ now \in Instant
  BY InstantsAreNaturals DEF JTypeOK, TypeOK, Entries
<1>2. /\ reading \in Nat /\ reading <= now /\ now <= reading + ReadMax
      /\ reading <= entry.at + entry.age /\ entry.at + entry.age <= now
  <2>1. reading # Never /\ entry.at + entry.age \in reading..now
    BY DEF EntriesAreOwn
  <2>2. reading \in Nat
    BY <2>1, InstantsAreNaturals DEF JTypeOK
  <2> QED BY <1>1, <2>1, <2>2 DEF ReadIsTimely
<1>3. /\ entry.at <= now - entry.age /\ now - entry.age <= entry.at + ReadMax
      /\ now - entry.age \in Nat /\ now - entry.age <= now
  BY <1>1, <1>2, NeverIsNoInstant
<1>4. now - entry.age \in Instant
  BY <1>1, <1>3, InstantsAreNaturals DEF Instant
<1> QED BY <1>1, <1>3, <1>4

LEMMA DatedAreInstants ==
    ASSUME JTypeOK, LogIsPast, ReadIsTimely, EntriesAreOwn
    PROVE  Dated \subseteq Instant
BY DatedNearEntry DEF Dated

\* Two dates close to one another, and a third close to the second.
LEMMA DistanceSlack ==
    ASSUME NEW a \in Nat, NEW b \in Nat, NEW c \in Nat, b <= c, c <= b + ReadMax
    PROVE  Distance(a, b) <= Distance(a, c) + ReadMax /\ Distance(a, c) <= Distance(a, b) + ReadMax
BY NeverIsNoInstant DEF Distance

LEMMA JournalInit == JInit => JInv
<1> SUFFICES ASSUME JInit PROVE JInv
  OBVIOUS
<1>1. TypeOK
  BY InitInv DEF JInit, Inv
<1>2. JTypeOK
  BY <1>1 DEF JInit, JTypeOK
<1>3. haOpens \subseteq presses /\ LogIsPast /\ ReadIsTimely /\ EntriesAreOwn
      /\ HasNewest /\ JournalNoMissedAlarm
  BY DEF JInit, Init, LogIsPast, ReadIsTimely, EntriesAreOwn, HasNewest, JournalNoMissedAlarm
<1> QED BY <1>2, <1>3 DEF JInv

\* While the door opens or a command is given, the read under way goes on as it was.
LEMMA ReadGoesOn ==
    ASSUME JInv, TypeOK', UNCHANGED <<now, jvars>>
    PROVE  JTypeOK' /\ LogIsPast' /\ ReadIsTimely' /\ EntriesAreOwn' /\ HasNewest'
<1>1. UNCHANGED <<now, log, logged, collects, events, done, reading, stale, lastOpen>>
  BY DEF jvars, box, reader, collector
<1>2. JTypeOK'
  BY <1>1 DEF JInv, JTypeOK
<1>3. LogIsPast' /\ ReadIsTimely' /\ HasNewest'
  BY <1>1 DEF JInv, LogIsPast, ReadIsTimely, HasNewest
<1>4. EntriesAreOwn'
  BY <1>1 DEF JInv, EntriesAreOwn
<1> QED BY <1>2, <1>3, <1>4

LEMMA JournalDoor ==
    ASSUME JInv, NEW state \in Reported, Door(state), UNCHANGED jvars
    PROVE  JInv'
<1>1. TypeOK'
  BY DoorType DEF JInv, JTypeOK
<1>2. /\ UNCHANGED <<now, haOpens, presses, flagged, logged>>
      /\ \/ UNCHANGED <<pending, openings, forgotten>>
         \/ /\ openings' = openings \cup {now}
            /\ forgotten' = forgotten \cup ((pending \cup {now}) \ pending')
  BY DEF Door, DoorOpens, jvars, box
<1>3. JournalNoMissedAlarm'
  BY <1>2 DEF JInv, JournalNoMissedAlarm
<1> QED BY <1>1, <1>2, <1>3, ReadGoesOn DEF JInv

LEMMA JournalHaOpen ==
    ASSUME JInv, HaOpen, UNCHANGED jvars
    PROVE  JInv'
<1>1. TypeOK'
  BY HaOpenType DEF JInv, JTypeOK
<1>2. /\ haOpens' \subseteq haOpens \cup {now}
      /\ presses' = presses \cup {now}
      /\ pending' = {at \in pending : Distance(at, now) > Window}
      /\ forgotten \subseteq forgotten'
      /\ UNCHANGED <<now, openings, flagged, logged>>
  BY KeepDrops DEF HaOpen, jvars, box
<1>3. JournalNoMissedAlarm'
  <2> SUFFICES ASSUME NEW at \in openings \ forgotten
               PROVE  \/ at \in pending' \cup flagged
                      \/ \E entry \in logged : Distance(at, entry) <= Window + ReadMax
                      \/ \E press \in presses' : Distance(at, press) <= Window
    BY <1>2 DEF JournalNoMissedAlarm
  <2>1. CASE at \in pending
    <3>1. at \in Nat /\ now \in Nat
      BY <2>1, InstantsAreNaturals DEF JInv, JTypeOK, TypeOK
    <3>2. Distance(at, now) > Window \/ Distance(at, now) <= Window
      BY <3>1, DistanceFacts, InstantsAreNaturals
    <3> QED BY <1>2, <2>1, <3>2
  <2>2. CASE at \notin pending
    BY <1>2, <2>2 DEF JInv, JournalNoMissedAlarm
  <2> QED BY <2>1, <2>2
<1>4. haOpens' \subseteq presses'
  BY <1>2 DEF JInv
<1>5. now' = now
  BY <1>2
<1> QED BY <1>1, <1>3, <1>4, <1>5, ReadGoesOn DEF JInv

\* Someone opens with a code or a badge.
LEMMA JournalVisit == ASSUME JInv, Visit PROVE JInv'
<1>0. now \in Instant /\ now \in Nat
  BY InstantsAreNaturals DEF JInv, JTypeOK, TypeOK
<1>1. /\ log' = log \cup {now} /\ logged' = logged \cup {now}
      /\ UNCHANGED <<now, haOpens, presses, openings, forgotten, pending, flagged,
                     collects, events, done, reading, stale, lastOpen>>
      /\ TypeOK'
  BY DEF Visit, vars, logic, history, reader, collector, JInv, JTypeOK, TypeOK
<1>2. JTypeOK'
  BY <1>0, <1>1 DEF JInv, JTypeOK
<1>3. LogIsPast' /\ ReadIsTimely' /\ HasNewest'
  BY <1>0, <1>1 DEF JInv, LogIsPast, ReadIsTimely, HasNewest
<1>4. EntriesAreOwn' /\ JournalNoMissedAlarm'
  BY <1>1 DEF JInv, EntriesAreOwn, JournalNoMissedAlarm
<1> QED BY <1>1, <1>2, <1>3, <1>4 DEF JInv

\* The mailbox streams an entry: it belongs to the read under way, or is lost.
LEMMA JournalStream == ASSUME JInv, Stream PROVE JInv'
<1>1. PICK at \in log :
          /\ log' = log \ {at}
          /\ events' = IF collects THEN events \cup {[at |-> at, age |-> now - at]} ELSE {}
  BY DEF Stream
<1>2. /\ reading # Never
      /\ UNCHANGED <<now, haOpens, presses, openings, forgotten, pending, flagged,
                     collects, done, reading, stale, lastOpen, logged>>
      /\ TypeOK'
  BY DEF Stream, vars, logic, history, JInv, JTypeOK, TypeOK
<1> DEFINE new == [at |-> at, age |-> now - at]
<1>3. /\ at \in Instant /\ at \in Nat /\ at <= now /\ at \in logged
      /\ now \in Instant /\ now \in Nat /\ now - at \in Instant
  <2>1. /\ at \in Instant /\ at \in Nat /\ at <= now /\ at \in logged
        /\ now \in Instant /\ now \in Nat
    BY InstantsAreNaturals DEF JInv, JTypeOK, TypeOK, LogIsPast
  <2> QED BY <2>1, InstantsAreNaturals DEF Instant
<1>4. new \in Entries /\ new.at = at /\ new.at + new.age = now
  BY <1>3 DEF Entries
<1>5. events \subseteq Entries /\ reading \in Nat /\ reading <= now
  BY <1>2, InstantsAreNaturals DEF JInv, JTypeOK, ReadIsTimely
<1>6. events' \subseteq events \cup {new} /\ (~collects => events' = {})
  BY <1>1
<1> HIDE DEF new
<1>7. JTypeOK'
  BY <1>1, <1>2, <1>4, <1>5, <1>6 DEF JInv, JTypeOK
<1>8. LogIsPast' /\ ReadIsTimely'
  BY <1>1, <1>2 DEF JInv, LogIsPast, ReadIsTimely
<1>9. EntriesAreOwn'
  <2>1. new.at \in logged /\ new.at + new.age \in reading..now
    BY <1>3, <1>4, <1>5
  <2> QED BY <1>2, <1>6, <2>1 DEF JInv, EntriesAreOwn
<1>10. HasNewest'
  <2>1. CASE ~collects
    BY <1>6, <2>1 DEF HasNewest
  <2>2. CASE collects
    <3>1. events' = events \cup {new}
      BY <1>1, <2>2 DEF new
    <3>2. CASE events = {}
      BY <1>3, <1>4, <3>1, <3>2 DEF HasNewest
    <3>3. CASE events # {}
      <4>1. PICK entry \in events : \A other \in events : other.at <= entry.at
        BY <3>3 DEF JInv, HasNewest
      <4>2. \A other \in events : other.at \in Nat
        BY <1>5, InstantsAreNaturals DEF Entries
      <4>3. CASE at <= entry.at
        BY <1>4, <3>1, <4>1, <4>3 DEF HasNewest
      <4>4. CASE ~(at <= entry.at)
        <5>1. \A other \in events : other.at <= at
          BY <1>3, <4>1, <4>2, <4>4
        <5> QED BY <1>3, <1>4, <3>1, <5>1 DEF HasNewest
      <4> QED BY <4>3, <4>4
    <3> QED BY <3>2, <3>3
  <2> QED BY <2>1, <2>2
<1>11. JournalNoMissedAlarm'
  BY <1>2 DEF JInv, JournalNoMissedAlarm
<1> QED BY <1>2, <1>7, <1>8, <1>9, <1>10, <1>11 DEF JInv

LEMMA JournalEnd == ASSUME JInv, EndHistory PROVE JInv'
<1>1. /\ UNCHANGED <<now, haOpens, presses, openings, forgotten, pending, flagged, log, logged,
                     collects, events, reading, stale, lastOpen>>
      /\ done' = TRUE /\ collects /\ TypeOK'
  BY DEF EndHistory, vars, logic, history, box, JInv, JTypeOK, TypeOK
<1>2. JTypeOK'
  BY <1>1 DEF JInv, JTypeOK
<1>3. LogIsPast' /\ ReadIsTimely' /\ HasNewest'
  BY <1>1 DEF JInv, LogIsPast, ReadIsTimely, HasNewest
<1>4. EntriesAreOwn' /\ JournalNoMissedAlarm'
  BY <1>1 DEF JInv, EntriesAreOwn, JournalNoMissedAlarm
<1> QED BY <1>1, <1>2, <1>3, <1>4 DEF JInv

\* A read that begins, or one that ends without a word, leaves no entry behind.
LEMMA JournalEmptied ==
    ASSUME JInv, UNCHANGED <<vars, box, lastOpen>>,
           events' = {}, done' = FALSE, collects' \in BOOLEAN, stale' \in BOOLEAN,
           reading' \in {reading, Never, now}
    PROVE  JInv'
<1>1. /\ UNCHANGED <<now, haOpens, presses, openings, forgotten, pending, flagged, log, logged>>
      /\ TypeOK'
  BY DEF vars, logic, history, box, JInv, JTypeOK, TypeOK
<1>2. now \in Instant /\ now \in Nat
  BY InstantsAreNaturals DEF JInv, JTypeOK, TypeOK
<1>3. JTypeOK'
  BY <1>1, <1>2 DEF JInv, JTypeOK
<1>4. ReadIsTimely'
  BY <1>1, <1>2, NeverIsNoInstant DEF JInv, ReadIsTimely
<1>5. LogIsPast' /\ HasNewest' /\ EntriesAreOwn' /\ JournalNoMissedAlarm'
  BY <1>1 DEF JInv, LogIsPast, HasNewest, EntriesAreOwn, JournalNoMissedAlarm
<1> QED BY <1>1, <1>3, <1>4, <1>5 DEF JInv

\* The entries handed over: what every verdict of on_journal rests on.
LEMMA HandOverStep ==
    ASSUME JInv, HandOver
    PROVE  /\ collects' = FALSE /\ events' = {} /\ done' = FALSE
           /\ pending' = {}
           /\ flagged' = flagged \cup {at \in pending : ~Near(at, Dated \cup haOpens)}
           /\ UNCHANGED <<now, door, flap, flapOpen, haOpens, timers, openings, presses,
                          forgotten, flapTrace, log, logged>>
           /\ TypeOK'
           /\ lastOpen' \in Instant \cup {Never}
<1>1. /\ collects' = FALSE /\ events' = {} /\ done' = FALSE
      /\ pending' = {}
      /\ flagged' = flagged \cup {at \in pending : ~Near(at, Dated \cup haOpens)}
      /\ UNCHANGED <<now, door, flap, flapOpen, haOpens, timers, openings, presses,
                     forgotten, flapTrace, log, logged>>
  BY DEF HandOver, StopCollecting, OnJournal, box
<1> DEFINE out == {at \in pending : ~Near(at, Dated \cup haOpens)}
<1>2. out \in SUBSET Instant
  BY DEF JInv, JTypeOK, TypeOK
<1>3. Publish("unauthorized", out)
  BY DEF HandOver, OnJournal
<1> HIDE DEF out
<1>4. dates' \in [{"deposited", "collected", "unauthorized"} -> Instant \cup {Never}]
  BY <1>2, <1>3, PublishType DEF JInv, JTypeOK
<1>5. flagged' \subseteq Instant
  BY <1>1, <1>2 DEF out, JInv, JTypeOK, TypeOK
<1>6. TypeOK'
  BY <1>1, <1>4, <1>5 DEF JInv, JTypeOK, TypeOK
<1>7. lastOpen' \in Dated \cup {lastOpen}
  BY DEF HandOver
<1>8. lastOpen' \in Instant \cup {Never}
  BY <1>7, DatedAreInstants DEF JInv, JTypeOK
<1> QED BY <1>1, <1>6, <1>8

LEMMA JournalHandOver ==
    ASSUME JInv, HandOver, reading' \in {reading, Never}, stale' \in BOOLEAN
    PROVE  JInv'
<1> USE HandOverStep
<1>1. JTypeOK'
  BY DEF JInv, JTypeOK
<1>2. LogIsPast' /\ ReadIsTimely' /\ EntriesAreOwn' /\ HasNewest' /\ haOpens' \subseteq presses'
  BY DEF JInv, LogIsPast, ReadIsTimely, EntriesAreOwn, HasNewest
<1>3. JournalNoMissedAlarm'
  <2> SUFFICES ASSUME NEW at \in openings \ forgotten
               PROVE  \/ at \in flagged'
                      \/ \E entry \in logged : Distance(at, entry) <= Window + ReadMax
                      \/ \E press \in presses : Distance(at, press) <= Window
    BY DEF JournalNoMissedAlarm
  <2>1. CASE at \in pending /\ Near(at, Dated \cup haOpens)
    <3>1. PICK c \in Dated \cup haOpens : Distance(at, c) <= Window
      BY <2>1 DEF Near
    <3>2. CASE c \in haOpens
      BY <3>1, <3>2 DEF JInv
    <3>3. CASE c \in Dated
      <4>1. PICK entry \in events : c = now - entry.age
        BY <3>3 DEF Dated
      <4>2. /\ entry.at \in Nat /\ c \in Nat /\ at \in Nat
            /\ entry.at <= c /\ c <= entry.at + ReadMax
        BY <2>1, <4>1, DatedNearEntry, InstantsAreNaturals DEF JInv, JTypeOK, TypeOK
      <4>3. Distance(at, entry.at) <= Window + ReadMax
        <5>1. Distance(at, entry.at) <= Distance(at, c) + ReadMax
          BY <4>2, DistanceSlack
        <5>2. /\ Distance(at, entry.at) \in Nat /\ Distance(at, c) \in Nat
              /\ ReadMax \in Nat /\ Window \in Nat
          BY <4>2, DistanceFacts, NeverIsNoInstant, InstantsAreNaturals
        <5> QED BY <3>1, <5>1, <5>2
      <4>4. entry.at \in logged
        BY DEF JInv, EntriesAreOwn
      <4> QED BY <4>3, <4>4
    <3> QED BY <3>2, <3>3
  <2>2. CASE at \in pending /\ ~Near(at, Dated \cup haOpens)
    BY <2>2
  <2>3. CASE at \notin pending
    BY <2>3 DEF JInv, JournalNoMissedAlarm
  <2> QED BY <2>1, <2>2, <2>3
<1> QED BY <1>1, <1>2, <1>3 DEF JInv

LEMMA JournalReload == ASSUME JInv, JReload PROVE JInv'
<1>1. /\ collects' = FALSE /\ events' = {} /\ done' = FALSE
      /\ reading' = Never /\ stale' = FALSE
      /\ haOpens' = {} /\ pending' = {}
      /\ forgotten' = forgotten \cup pending \cup haOpens
      /\ UNCHANGED <<now, openings, presses, flagged, log, logged, lastOpen>>
  BY DEF JReload, StopCollecting, Reload, box
<1>2. TypeOK'
  BY ReloadType DEF JReload, JInv, JTypeOK
<1>3. JTypeOK'
  BY <1>1, <1>2 DEF JInv, JTypeOK
<1>4. LogIsPast' /\ ReadIsTimely' /\ EntriesAreOwn' /\ HasNewest' /\ JournalNoMissedAlarm'
  BY <1>1 DEF JInv, LogIsPast, ReadIsTimely, EntriesAreOwn, HasNewest, JournalNoMissedAlarm
<1> QED BY <1>1, <1>3, <1>4 DEF JInv

LEMMA JournalAdvance == ASSUME JInv, JAdvance PROVE JInv'
<1>1. /\ now \in Nat /\ now' = now + 1
      /\ UNCHANGED <<haOpens, pending, openings, presses, forgotten, flagged,
                     log, logged, collects, events, done, reading, stale, lastOpen>>
      /\ reading # Never => now < reading + ReadMax
  BY InstantsAreNaturals DEF JAdvance, Advance, jvars, box, reader, collector, logic,
     history, JInv, JTypeOK, TypeOK
<1>2. TypeOK'
  BY AdvanceType DEF JAdvance, JInv, JTypeOK
<1>3. JTypeOK'
  BY <1>1, <1>2 DEF JInv, JTypeOK
<1>4. LogIsPast'
  <2>1. \A at \in logged : at \in Nat /\ at <= now
    BY InstantsAreNaturals DEF JInv, JTypeOK, LogIsPast
  <2> QED BY <1>1, <2>1 DEF JInv, LogIsPast
<1>5. ReadIsTimely'
  <2>1. reading # Never => reading \in Nat /\ reading <= now
    BY InstantsAreNaturals DEF JInv, JTypeOK, ReadIsTimely
  <2> QED BY <1>1, <2>1, NeverIsNoInstant DEF ReadIsTimely
<1>6. EntriesAreOwn'
  <2>1. \A entry \in events :
            /\ reading # Never /\ entry.at \in logged
            /\ entry.at + entry.age \in reading..now
    BY DEF JInv, EntriesAreOwn
  <2>2. reading # Never => reading \in Nat
    BY InstantsAreNaturals DEF JInv, JTypeOK
  <2>3. \A entry \in events : entry.at + entry.age \in reading..(now + 1)
    BY <1>1, <2>1, <2>2
  <2> QED BY <1>1, <2>1, <2>3 DEF EntriesAreOwn
<1>7. HasNewest' /\ JournalNoMissedAlarm'
  BY <1>1 DEF JInv, HasNewest, JournalNoMissedAlarm
<1> QED BY <1>1, <1>3, <1>4, <1>5, <1>6, <1>7 DEF JInv

LEMMA JournalNext == JInv /\ [JNext]_allVars => JInv'
<1> SUFFICES ASSUME JInv, [JNext]_allVars PROVE JInv'
  OBVIOUS
<1>1. ASSUME NEW state \in Reports, Door(state), UNCHANGED jvars PROVE JInv'
  <2>1. state \in Reported
    BY JournalAssumption
  <2> QED BY <1>1, <2>1, JournalDoor
<1>2. CASE HaOpen /\ UNCHANGED jvars
  BY <1>2, JournalHaOpen
<1>3. CASE Visit \/ Stream \/ EndHistory \/ JReload \/ JAdvance
  BY <1>3, JournalVisit, JournalStream, JournalEnd, JournalReload, JournalAdvance
<1>4. CASE StartRead \/ ReadOver
  <2>1. Collect /\ stale' \in BOOLEAN
    BY <1>4 DEF StartRead, ReadOver, JInv, JTypeOK
  <2> QED BY <2>1, JournalEmptied DEF Collect
<1>5. CASE FinishRead
  BY <1>5, JournalHandOver DEF FinishRead, JInv, JTypeOK
<1>6. CASE CutRead
  BY <1>6, JournalEmptied DEF CutRead, StopCollecting, JInv, JTypeOK
<1>7. CASE Wake
  <2>1. CASE HandOver
    BY <1>7, <2>1, JournalHandOver DEF Wake
  <2>2. CASE StopCollecting /\ UNCHANGED <<vars, box, lastOpen>>
    BY <1>7, <2>2, JournalEmptied DEF Wake, StopCollecting
  <2> QED BY <1>7, <2>1, <2>2 DEF Wake
<1>8. CASE ListIsGone
  <2>1. events' = {} /\ done' = FALSE /\ collects' \in BOOLEAN /\ stale' \in BOOLEAN
    BY <1>8 DEF ListIsGone, collector, JInv, JTypeOK
  <2> QED BY <1>8, <2>1, JournalEmptied DEF ListIsGone
<1>9. CASE UNCHANGED allVars
  <2>1. UNCHANGED <<now, vars, jvars, haOpens, presses, openings, forgotten, pending, flagged, logged>>
    BY <1>9 DEF allVars, vars, logic, history, jvars, box
  <2>2. TypeOK'
    BY <2>1 DEF vars, logic, history, JInv, JTypeOK, TypeOK
  <2>3. JournalNoMissedAlarm'
    BY <2>1 DEF JInv, JournalNoMissedAlarm
  <2> QED BY <2>1, <2>2, <2>3, ReadGoesOn DEF JInv
<1> QED BY <1>1, <1>2, <1>3, <1>4, <1>5, <1>6, <1>7, <1>8, <1>9 DEF JNext

LEMMA JInvHolds == JSpec => []JInv
<1>1. JInit => JInv
  BY JournalInit
<1>2. JInv /\ [JNext]_allVars => JInv'
  BY JournalNext
<1> QED
  BY <1>1, <1>2, PTL DEF JSpec

\* With the log of the mailbox and the fields of the reads, every variable keeps
\* its type: no entry is dated before the beginning or in the future.
THEOREM JournalTypeCorrect == JSpec => []JTypeOK
BY JInvHolds, PTL DEF JInv

\* In journal mode no opening vanishes, whichever reads are cut, truncated or taken
\* over by one another (on_journal).
THEOREM JournalNoMissedAlarmHolds == JSpec => []JournalNoMissedAlarm
BY JInvHolds, PTL DEF JInv

\* Only the end of a read reports an opening, or moves the date of the last one.
LEMMA OnlyReadsJudge ==
    ASSUME JTypeOK, [JNext]_allVars
    PROVE  HandOver \/ UNCHANGED <<flagged, lastOpen>>
<1>1. ASSUME NEW state \in Reports, Door(state), UNCHANGED jvars
      PROVE  UNCHANGED <<flagged, lastOpen>>
  BY <1>1 DEF Door, jvars
<1>2. CASE HaOpen /\ UNCHANGED jvars
  BY <1>2 DEF HaOpen, jvars
<1>3. CASE Visit \/ Stream \/ EndHistory \/ ListIsGone \/ CutRead
  BY <1>3 DEF Visit, Stream, EndHistory, ListIsGone, CutRead, reader, vars, history
<1>4. CASE StartRead \/ ReadOver
  BY <1>4 DEF StartRead, ReadOver, Collect, vars, history
<1>5. CASE JReload \/ JAdvance
  BY <1>5 DEF JReload, Reload, JAdvance, Advance, jvars, history
<1>6. CASE FinishRead \/ Wake
  BY <1>6 DEF FinishRead, Wake, vars, history
<1>7. CASE UNCHANGED allVars
  BY <1>7 DEF allVars, vars, history, jvars
<1> QED BY <1>1, <1>2, <1>3, <1>4, <1>5, <1>6, <1>7 DEF JNext

\* A read that delivers an entry near an opening never reports that opening, late
\* as the date of the entry may be (_async_read_history, on_journal).
THEOREM JournalMatchesOwnReadHolds == JSpec => JournalMatchesOwnRead
<1>1. JInv /\ [JNext]_allVars =>
          \A at \in flagged' \ flagged, entry \in events :
              Distance(at, entry.at) + ReadMax > Window
  <2> SUFFICES ASSUME JInv, [JNext]_allVars, NEW at \in flagged' \ flagged, NEW entry \in events
               PROVE  Distance(at, entry.at) + ReadMax > Window
    OBVIOUS
  <2>1. HandOver
    BY OnlyReadsJudge DEF JInv
  <2>2. at \in pending /\ ~Near(at, Dated \cup haOpens)
    BY <2>1, HandOverStep
  <2>3. /\ at \in Nat /\ entry.at \in Nat /\ now - entry.age \in Nat
        /\ entry.at <= now - entry.age /\ now - entry.age <= entry.at + ReadMax
    BY <2>2, DatedNearEntry, InstantsAreNaturals DEF JInv, JTypeOK, TypeOK
  <2>4. now - entry.age \in Dated
    BY DEF Dated
  <2>5. ~(Distance(at, now - entry.age) <= Window)
    BY <2>2, <2>4 DEF Near
  <2>6. Distance(at, now - entry.age) <= Distance(at, entry.at) + ReadMax
    BY <2>3, DistanceSlack
  <2>7. /\ Distance(at, now - entry.age) \in Nat /\ Distance(at, entry.at) \in Nat
        /\ Window \in Nat /\ ReadMax \in Nat
    BY <2>3, DistanceFacts, InstantsAreNaturals, NeverIsNoInstant
  <2> QED BY <2>5, <2>6, <2>7
<1> QED BY <1>1, JInvHolds, PTL DEF JSpec, JournalMatchesOwnRead

\* The date of the last opening moves forward only, to the newest entry of the read
\* that moves it, late by the length of the read at most (_async_read_history).
THEOREM OpenDateTracksNewestHolds == JSpec => OpenDateTracksNewest
<1>1. JInv /\ [JNext]_allVars =>
          (lastOpen' # lastOpen =>
              /\ lastOpen' > lastOpen
              /\ \E entry \in events :
                  /\ \A other \in events : other.at <= entry.at
                  /\ lastOpen' \in entry.at .. (entry.at + ReadMax))
  <2> SUFFICES ASSUME JInv, [JNext]_allVars, lastOpen' # lastOpen
               PROVE  /\ lastOpen' > lastOpen
                      /\ \E entry \in events :
                          /\ \A other \in events : other.at <= entry.at
                          /\ lastOpen' \in entry.at .. (entry.at + ReadMax)
    OBVIOUS
  <2>1. HandOver
    BY OnlyReadsJudge DEF JInv
  <2>2. /\ lastOpen' \in Dated \cup {lastOpen}
        /\ \A other \in Dated \cup {lastOpen} : other <= lastOpen'
    BY <2>1 DEF HandOver
  <2>3. PICK late \in events : lastOpen' = now - late.age
    BY <2>2 DEF Dated
  <2>4. PICK entry \in events : \A other \in events : other.at <= entry.at
    BY <2>3 DEF JInv, HasNewest
  <2>5. /\ late.at \in Nat /\ lastOpen' \in Nat /\ lastOpen' <= late.at + ReadMax
        /\ entry.at \in Nat /\ now - entry.age \in Nat /\ entry.at <= now - entry.age
        /\ late.at <= entry.at
    BY <2>3, <2>4, DatedNearEntry DEF JInv
  <2>6. now - entry.age <= lastOpen'
    BY <2>2 DEF Dated
  <2>7. lastOpen' \in entry.at .. (entry.at + ReadMax)
    BY <2>5, <2>6, NeverIsNoInstant
  <2>8. lastOpen \in Int
    BY NeverIsNoInstant DEF JInv, JTypeOK
  <2>9. lastOpen' > lastOpen
    BY <2>2, <2>5, <2>8
  <2> QED BY <2>4, <2>7, <2>9
<1> QED BY <1>1, JInvHolds, PTL DEF JSpec, OpenDateTracksNewest
=============================================================================
