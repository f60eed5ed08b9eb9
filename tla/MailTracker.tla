----------------------------- MODULE MailTracker -----------------------------
(***************************************************************************)
(* The mail and door events of the integration: `MailLogic`                *)
(* (mail_logic.py) driven by `BoksSensorTracker` (sensors_link.py).  Door   *)
(* and flap sensors report at any time; an opening commanded from Home     *)
(* Assistant is acknowledged at any time; a timer armed by each door       *)
(* opening judges it.  The journal mode is judged by reads of the          *)
(* mailbox's log instead: module MailJournal adds them.                    *)
(*                                                                         *)
(* Every handler is a callback of the event loop, one atomic action here.  *)
(* An instant stands for a `datetime`, so two reports of one sensor at the *)
(* same instant are one element of the sets below.                         *)
(***************************************************************************)
EXTENDS Integers, FiniteSets

CONSTANTS Mode,       \* MailLogic.mode
          Sensors,    \* the configured entities, of {"door", "flap"}
          Window,     \* MailLogic.window
          MaxPending, \* mail_logic.MAX_PENDING
          Late,       \* how late async_call_later may run a callback
          MaxInput    \* bound: no report, opening or reload after this instant

ASSUME ModeAssumption == Mode \in {"off", "ha_command", "journal"}
ASSUME SensorsAssumption == Sensors \subseteq {"door", "flap"}
ASSUME TimesAssumption ==
    /\ Window \in Nat /\ MaxPending \in Nat \ {0}
    /\ Late \in Nat /\ MaxInput \in Nat

VARIABLES
    now,       \* dt_util.utcnow()
    door,      \* MailLogic._door, and the state Home Assistant holds
    flap,      \* MailLogic._flap, likewise
    flapOpen,  \* MailLogic._flap_opened_at is not None
    pending,   \* MailLogic._pending
    haOpens,   \* MailLogic._ha_opens
    timers,    \* instants at which an _on_tick is due
    dates,     \* BoksState.last_mail_deposit, last_mail_collect, last_unauthorized_opening
    openings,  \* history: door openings seen in a mode that judges them
    presses,   \* history: openings commanded from Home Assistant
    forgotten, \* history: instants dropped from pending or haOpens unjudged
    flagged,   \* history: openings reported as unauthorized
    flapTrace  \* history: the last three states of the flap

logic == <<door, flap, flapOpen, pending, haOpens>>
history == <<openings, presses, forgotten, flagged, flapTrace>>
vars == <<now, logic, timers, dates, history>>

Reported == {"open", "closed", "unknown"}   \* _as_bool: True, False, None
Never == -1
Instant == 0..(MaxInput + Window + 1 + Late)

TypeOK ==
    /\ now \in Instant
    /\ door \in Reported /\ flap \in Reported /\ flapOpen \in BOOLEAN
    /\ pending \subseteq Instant /\ haOpens \subseteq Instant
    /\ timers \subseteq Nat
    /\ dates \in [{"deposited", "collected", "unauthorized"} -> Instant \cup {Never}]
    /\ openings \subseteq Instant /\ presses \subseteq Instant
    /\ forgotten \subseteq Instant /\ flagged \subseteq Instant
    /\ flapTrace \in Reported \X Reported \X Reported

\* async_start reads the states without making an event of them.
Init ==
    /\ now = 0
    /\ door \in Reported /\ flap \in Reported /\ flapOpen = FALSE
    /\ "door" \notin Sensors => door = "unknown"
    /\ "flap" \notin Sensors => flap = "unknown"
    /\ pending = {} /\ haOpens = {} /\ timers = {}
    /\ dates = [kind \in {"deposited", "collected", "unauthorized"} |-> Never]
    /\ openings = {} /\ presses = {} /\ forgotten = {} /\ flagged = {}
    /\ flapTrace = <<"unknown", "unknown", flap>>

-----------------------------------------------------------------------------
(* Helpers of MailLogic. *)

Distance(a, b) == IF a < b THEN b - a ELSE a - b

\* _near
Near(moment, candidates) == \E c \in candidates : Distance(moment, c) <= Window

\* _transition: only a change between two known states is an event.
Edge(before, after) ==
    IF before = "unknown" \/ after = "unknown" \/ before = after
    THEN "none" ELSE after

\* del entries[:-MAX_PENDING], after one has been appended.
Keep(S) ==
    IF Cardinality(S) > MaxPending THEN {x \in S : \E y \in S : y < x} ELSE S

\* BoksSensorTracker._publish: a date only moves forward.
Publish(kind, instants) ==
    \E at \in instants \cup {dates[kind]} :
        /\ \A other \in instants \cup {dates[kind]} : other <= at
        /\ dates' = [dates EXCEPT ![kind] = at]

-----------------------------------------------------------------------------
(* Reports of the sensors. *)

Input == now <= MaxInput

\* A mistake: losing the sensor in mid-cycle does not forget the opening.
FlapNoReset(state) ==
    LET edge == Edge(flap, state) IN
    /\ Input /\ "flap" \in Sensors
    /\ flap' = state
    /\ flapOpen' = IF edge = "none" THEN flapOpen ELSE edge = "open"
    /\ IF edge = "closed" /\ flapOpen
       THEN Publish("deposited", {now}) ELSE UNCHANGED dates
    /\ flapTrace' = IF state = flap THEN flapTrace
                    ELSE <<flapTrace[2], flapTrace[3], state>>
    /\ UNCHANGED <<now, door, pending, haOpens, timers,
                   openings, presses, forgotten, flagged>>

\* on_flap: a deposit is an opening seen, then a closing seen.
Flap(state) ==
    LET edge == Edge(flap, state) IN
    /\ Input /\ "flap" \in Sensors
    /\ flap' = state
    /\ flapOpen' = CASE edge = "open" -> TRUE
                     [] edge = "closed" \/ state = "unknown" -> FALSE
                     [] OTHER -> flapOpen
    /\ IF edge = "closed" /\ flapOpen
       THEN Publish("deposited", {now}) ELSE UNCHANGED dates
    /\ flapTrace' = IF state = flap THEN flapTrace
                    ELSE <<flapTrace[2], flapTrace[3], state>>
    /\ UNCHANGED <<now, door, pending, haOpens, timers,
                   openings, presses, forgotten, flagged>>

\* A mistake: what waits is the beginning of the window.
DoorOpensBackdated ==
    /\ Publish("collected", {now})
    /\ pending' = Keep(pending \cup {now - Window})
    /\ openings' = openings \cup {now}
    /\ timers' = timers \cup {now + Window + 1}
    /\ UNCHANGED forgotten

\* A mistake: the timer is armed for the window itself, as if nothing waited.
DoorOpensEarlyTimer ==
    /\ Publish("collected", {now})
    /\ IF Mode = "off"
       THEN UNCHANGED <<pending, openings, forgotten>>
       ELSE /\ pending' = Keep(pending \cup {now})
            /\ openings' = openings \cup {now}
            /\ forgotten' = forgotten \cup ((pending \cup {now}) \ pending')
    /\ timers' = IF Mode = "ha_command" THEN timers \cup {now + Window - 1} ELSE timers

\* on_door then async_call_later: an opening waits for a verdict.
DoorOpens ==
    /\ Publish("collected", {now})
    /\ IF Mode = "off"
       THEN UNCHANGED <<pending, openings, forgotten>>
       ELSE /\ pending' = Keep(pending \cup {now})
            /\ openings' = openings \cup {now}
            /\ forgotten' = forgotten \cup ((pending \cup {now}) \ pending')
    /\ timers' = IF Mode = "ha_command" THEN timers \cup {now + Window + 1} ELSE timers

Door(state) ==
    /\ Input /\ "door" \in Sensors
    /\ door' = state
    /\ IF Edge(door, state) = "open"
       THEN DoorOpens
       ELSE UNCHANGED <<pending, timers, dates, openings, forgotten>>
    /\ UNCHANGED <<now, flap, flapOpen, haOpens, presses, flagged, flapTrace>>

-----------------------------------------------------------------------------
(* Verdicts. *)

\* on_ha_open: a command accepted by the mailbox settles what is near it.
HaOpen ==
    /\ Input
    /\ haOpens' = Keep(haOpens \cup {now})
    /\ pending' = {at \in pending : Distance(at, now) > Window}
    /\ presses' = presses \cup {now}
    /\ forgotten' = forgotten \cup ((haOpens \cup {now}) \ haOpens')
    /\ UNCHANGED <<now, door, flap, flapOpen, timers, dates,
                   openings, flagged, flapTrace>>

Elapsed == {at \in pending : now - at >= Window}

\* A mistake: every opening is judged at the first deadline.
JudgeAll ==
    LET out == {at \in pending : ~Near(at, haOpens)} IN
    /\ flagged' = flagged \cup out
    /\ pending' = {}
    /\ Publish("unauthorized", out)

\* on_tick: the openings whose window has elapsed are judged.
Judge ==
    LET out == {at \in Elapsed : ~Near(at, haOpens)} IN
    /\ flagged' = flagged \cup out
    /\ pending' = pending \ Elapsed
    /\ Publish("unauthorized", out)

Tick(due) ==
    /\ now >= due
    /\ timers' = timers \ {due}
    /\ Judge
    /\ UNCHANGED <<now, door, flap, flapOpen, haOpens,
                   openings, presses, forgotten, flapTrace>>

-----------------------------------------------------------------------------
(* Reload and time. *)

\* The entry is reloaded: a new MailLogic reads the sensors; the dates are
\* restored by their entities (RestoreIntoState).
Reload ==
    /\ Input
    /\ flapOpen' = FALSE /\ pending' = {} /\ haOpens' = {} /\ timers' = {}
    /\ forgotten' = forgotten \cup pending \cup haOpens
    /\ flapTrace' = <<"unknown", "unknown", flap>>
    /\ UNCHANGED <<now, door, flap, dates, openings, presses, flagged>>

\* A callback is late by Late at most, and time stops once the last one is due.
Advance ==
    /\ now < MaxInput + Window + 1 + Late
    /\ \A due \in timers : now < due + Late
    /\ now' = now + 1
    /\ UNCHANGED <<logic, timers, dates, history>>

Next ==
    \/ \E state \in Reported : Flap(state) \/ Door(state)
    \/ HaOpen
    \/ \E due \in timers : Tick(due)
    \/ Reload
    \/ Advance

\* Time passes, and a callback that may run does before Late is exceeded.
Fairness == WF_vars(Advance) /\ WF_vars(\E due \in timers : Tick(due))

Spec == Init /\ [][Next]_vars
FairSpec == Spec /\ Fairness

-----------------------------------------------------------------------------
(* Properties. *)

\* An opening reported as unauthorized has no command of Home Assistant
\* strictly within the window, before or after it (mail_logic.py, ha_command
\* mode), unless the command was among those forgotten: more than MaxPending
\* of them, or a reload.
NoFalseAlarm ==
    \A at \in flagged, press \in presses \ forgotten : Distance(at, press) >= Window

\* An opening without a command in its window is reported once the window, the
\* second added by the timer and its lateness have passed, unless forgotten.
NoMissedAlarm ==
    Mode = "ha_command" =>
        \A at \in openings \ forgotten :
            now > at + Window + 1 + Late =>
                at \in flagged \/ \E press \in presses : Distance(at, press) <= Window

\* No opening is left without a timer that will judge it, whatever the order
\* of reports, timers and reloads (async_call_later in _on_change).
PendingHasTimer ==
    Mode = "ha_command" =>
        \A at \in pending : \E due \in timers : due = at + Window + 1

\* A deposit is published exactly when the flap is seen closed, open, closed
\* with no unknown state between (_transition, on_flap, README "A sensor going
\* unavailable/unknown never produces an event").
DepositIsFullCycle ==
    [][ /\ dates'["deposited"] # dates["deposited"]
           => flapTrace' = <<"closed", "open", "closed">>
        /\ (flapTrace' # flapTrace /\ flapTrace' = <<"closed", "open", "closed">>)
           => dates'["deposited"] = now ]_vars

\* An opening that waits is settled in the end: reported, legitimate or forgotten.
EveryOpeningSettles == \A at \in 0..MaxInput : at \in pending ~> at \notin pending
=============================================================================
