------------------------------- MODULE Battery -------------------------------
(***************************************************************************)
(* The battery level of the mailbox as `BoksLink` publishes it             *)
(* (coordinator.py): the filter of transient sags, the plateau a regulated *)
(* pack is compared with, the low-battery alert, the declaration of a      *)
(* fresh pack, and what a restart of Home Assistant loses and restores     *)
(* (entity.py, switch.py).                                                 *)
(*                                                                         *)
(* Every handler here is a synchronous callback of the event loop, so each *)
(* is one atomic action.  A reading comes from a GATT read or from a       *)
(* notification; both end in `_set_battery`.                               *)
(***************************************************************************)
EXTENDS Integers

CONSTANTS Level,               \* the percentages a reading may carry (one byte)
          BatteryLowAlkaline,  \* const.BATTERY_LOW_ALKALINE
          BatterySagRegulated, \* const.BATTERY_SAG_REGULATED
          BatteryTransientDrop \* const.BATTERY_TRANSIENT_DROP

ASSUME LevelAssumption == Level \subseteq 0..255
ASSUME ThresholdAssumption ==
    /\ BatteryLowAlkaline \in Nat
    /\ BatterySagRegulated \in Nat \ {0}
    /\ BatteryTransientDrop \in Nat \ {0}

NoLevel == -1                  \* Python's None

VARIABLES
    battery,      \* BoksState.battery
    plateau,      \* BoksState.battery_plateau
    sagging,      \* BoksLink._battery_sagging
    rechargeable, \* BoksLink._rechargeable
    saved,        \* what Home Assistant has persisted of the two entities
    unrestored,   \* entities whose async_added_to_hass has not run yet
    last, prev,   \* history: the last two readings since the start
    packMax       \* history: highest level published since the pack was declared

vars == <<battery, plateau, sagging, rechargeable, saved, unrestored,
          last, prev, packMax>>

Entity == {"battery", "rechargeable"}
MaybeLevel == Level \cup {NoLevel}

TypeOK ==
    /\ battery \in MaybeLevel /\ plateau \in MaybeLevel
    /\ sagging \in BOOLEAN /\ rechargeable \in BOOLEAN
    /\ saved \in [battery : MaybeLevel, rechargeable : BOOLEAN]
    /\ unrestored \in SUBSET Entity
    /\ last \in MaybeLevel /\ prev \in MaybeLevel /\ packMax \in MaybeLevel

Init ==
    /\ battery = NoLevel /\ plateau = NoLevel
    /\ sagging = FALSE /\ rechargeable = FALSE
    /\ saved = [battery |-> NoLevel, rechargeable |-> FALSE]
    /\ unrestored = {}
    /\ last = NoLevel /\ prev = NoLevel /\ packMax = NoLevel

-----------------------------------------------------------------------------
(* The low-battery alert. *)

BatteryLow ==
    IF battery = NoLevel THEN "unknown"
    ELSE IF ~rechargeable
    THEN IF battery <= BatteryLowAlkaline THEN "low" ELSE "fine"
    ELSE IF plateau = NoLevel THEN "unknown"
    ELSE IF battery <= plateau - BatterySagRegulated THEN "low" ELSE "fine"

IsSharpDrop(level) ==
    battery # NoLevel /\ level <= battery - BatteryTransientDrop

\* A mistake: the confirmation asks for the same value (the defect CHANGELOG
\* 0.2.0 corrects).
AcceptOnlySame(level) == ~IsSharpDrop(level) \/ (sagging /\ level = last)

\* _accept_battery: the first reading of a sharp drop waits for a second one.
AcceptBattery(level) == ~(IsSharpDrop(level) /\ ~sagging)

Higher(a, b) == IF a > b THEN a ELSE b

\* A mistake: the pending drop is not forgotten once settled.
ReadNoReset(level) ==
    /\ sagging' = (sagging \/ ~AcceptBattery(level))
    /\ IF AcceptBattery(level)
       THEN /\ battery' = level
            /\ plateau' = Higher(plateau, level)
            /\ packMax' = Higher(packMax, level)
       ELSE UNCHANGED <<battery, plateau, packMax>>
    /\ prev' = last /\ last' = level
    /\ UNCHANGED <<rechargeable, saved, unrestored>>

\* _set_battery, from a GATT read or a notification.
Read(level) ==
    /\ sagging' = ~AcceptBattery(level)
    /\ IF AcceptBattery(level)
       THEN /\ battery' = level
            /\ plateau' = Higher(plateau, level)
            /\ packMax' = Higher(packMax, level)
       ELSE UNCHANGED <<battery, plateau, packMax>>
    /\ prev' = last /\ last' = level
    /\ UNCHANGED <<rechargeable, saved, unrestored>>

-----------------------------------------------------------------------------
(* Declaring the kind of cells, and restarts. *)

\* async_set_rechargeable: a change of kind declares a fresh pack.
DeclareKind(kind) ==
    IF kind = rechargeable
    THEN UNCHANGED <<rechargeable, plateau>>
    ELSE rechargeable' = kind /\ plateau' = battery

\* The user turns the switch, which exists once it has been restored.
SetRechargeable(kind) ==
    /\ "rechargeable" \notin unrestored
    /\ DeclareKind(kind)
    /\ packMax' = IF kind = rechargeable THEN packMax ELSE battery
    /\ UNCHANGED <<battery, sagging, saved, unrestored, last, prev>>

\* Home Assistant persists the entities' states; one not restored yet keeps
\* what was persisted before.
Checkpoint ==
    /\ saved' = [battery |-> IF "battery" \in unrestored
                             THEN saved.battery ELSE battery,
                 rechargeable |-> IF "rechargeable" \in unrestored
                                  THEN saved.rechargeable ELSE rechargeable]
    /\ UNCHANGED <<battery, plateau, sagging, rechargeable, unrestored,
                   last, prev, packMax>>

\* The process ends, at any point, and a new BoksLink is built.
Restart ==
    /\ battery' = NoLevel /\ plateau' = NoLevel
    /\ sagging' = FALSE /\ rechargeable' = FALSE
    /\ unrestored' = Entity
    /\ last' = NoLevel /\ prev' = NoLevel
    /\ UNCHANGED <<saved, packMax>>

\* A mistake: the persisted level replaces one already read.
RestoreBatteryAlways ==
    /\ "battery" \in unrestored
    /\ unrestored' = unrestored \ {"battery"}
    /\ battery' = IF saved.battery # NoLevel THEN saved.battery ELSE battery
    /\ UNCHANGED <<plateau, sagging, rechargeable, saved, last, prev, packMax>>

\* RestoreIntoState.async_added_to_hass of the battery sensor: the level comes
\* back, the plateau does not.
RestoreBattery ==
    /\ "battery" \in unrestored
    /\ unrestored' = unrestored \ {"battery"}
    /\ battery' = IF battery = NoLevel THEN saved.battery ELSE battery
    /\ UNCHANGED <<plateau, sagging, rechargeable, saved, last, prev, packMax>>

\* BoksRechargeableSwitch.async_added_to_hass.
RestoreRechargeable ==
    /\ "rechargeable" \in unrestored
    /\ unrestored' = unrestored \ {"rechargeable"}
    /\ IF saved.rechargeable THEN DeclareKind(TRUE)
                             ELSE UNCHANGED <<rechargeable, plateau>>
    /\ UNCHANGED <<battery, sagging, saved, last, prev, packMax>>

Next ==
    \/ \E level \in Level : Read(level)
    \/ \E kind \in BOOLEAN : SetRechargeable(kind)
    \/ Checkpoint
    \/ Restart
    \/ RestoreBattery
    \/ RestoreRechargeable

Spec == Init /\ [][Next]_vars

-----------------------------------------------------------------------------
(* Properties. *)

\* The published level is the last reading or, while one sharp drop waits, the
\* reading before it: the filter of _accept_battery never holds back two
\* readings, whatever their values, and never survives a restore.
PublishedLagsOneReading ==
    /\ (last # NoLevel /\ ~sagging) => battery = last
    /\ (sagging /\ prev # NoLevel) => battery = prev

\* A plateau is the reference of a drop: it exists only once a level is
\* published and is never under it, whatever the order in which the switch and
\* the level come back after a restart (_set_battery, async_set_rechargeable).
PlateauBoundsLevel ==
    plateau # NoLevel => battery # NoLevel /\ battery <= plateau

Sustained(threshold) ==
    /\ last # NoLevel /\ prev # NoLevel
    /\ last <= threshold /\ prev <= threshold

\* Two readings in a row under the threshold of the kind of cells in place
\* raise the alert: "Tout decrochage durable sous le plateau est donc deja une
\* alerte" (battery_low), and the filter never hides it longer.
SustainedLowIsReported ==
    /\ (~rechargeable /\ Sustained(BatteryLowAlkaline)) => BatteryLow = "low"
    /\ (/\ rechargeable /\ plateau # NoLevel
        /\ Sustained(plateau - BatterySagRegulated)) => BatteryLow = "low"

\* A published level falls sharply only on the second of two readings in a row
\* that are both that low (_accept_battery, const.BATTERY_TRANSIENT_DROP).
SharpDropIsConfirmed ==
    [][ (/\ battery # NoLevel /\ battery' # NoLevel
         /\ battery' <= battery - BatteryTransientDrop)
        => /\ last # NoLevel /\ last <= battery - BatteryTransientDrop
           /\ last' = battery' ]_vars

\* While the same pack stays declared and the process runs, the plateau never
\* goes down (battery_plateau is the highest level of the pack).
PlateauNeverFalls ==
    [][ (plateau # NoLevel /\ battery' # NoLevel /\ rechargeable' = rechargeable)
        => plateau' >= plateau ]_vars

\* The comment of BoksState.battery_plateau: the highest level observed since
\* the current pack was put in place.  A restart forgets it.
PlateauIsPackMax == plateau # NoLevel => plateau = packMax
=============================================================================
