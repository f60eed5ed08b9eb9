---------------------------- MODULE BatteryProofs ----------------------------
(***************************************************************************)
(* Theorems about Battery for every set of levels and every threshold the  *)
(* assumptions of that module allow.                                       *)
(***************************************************************************)
EXTENDS Battery, TLAPS

(***************************************************************************)
(* The strengthening: PublishedLagsOneReading says nothing of a pending    *)
(* drop that is the first reading, nor that a pending drop is a drop; the  *)
(* sharp-drop theorem and the induction itself need both.                  *)
(***************************************************************************)
PendingIsDrop ==
    sagging => /\ battery # NoLevel
               /\ last # NoLevel
               /\ last <= battery - BatteryTransientDrop

NoReadingYet == last = NoLevel => prev = NoLevel /\ ~sagging

Inv == /\ TypeOK
       /\ PublishedLagsOneReading
       /\ PlateauBoundsLevel
       /\ PendingIsDrop
       /\ NoReadingYet

\* Levels and None are integers, and only None is negative.
LEMMA LevelsAreIntegers ==
    /\ MaybeLevel \subseteq Int
    /\ \A l \in Level : l \in Nat /\ l # NoLevel
    /\ NoLevel \in Int /\ NoLevel < 0
    /\ BatterySagRegulated \in Int /\ BatterySagRegulated > 0
    /\ BatteryTransientDrop \in Int /\ BatteryTransientDrop > 0
    /\ BatteryLowAlkaline \in Int
BY LevelAssumption, ThresholdAssumption DEF MaybeLevel, NoLevel

\* The maximum of the plateau and an accepted level is one of them and bounds both.
LEMMA HigherBounds ==
    ASSUME NEW a \in MaybeLevel, NEW b \in MaybeLevel
    PROVE  /\ Higher(a, b) \in {a, b}
           /\ Higher(a, b) >= a
           /\ Higher(a, b) >= b
BY LevelsAreIntegers DEF Higher

LEMMA InitInv == Init => Inv
<1> SUFFICES ASSUME Init PROVE Inv
  OBVIOUS
<1>1. TypeOK
  BY DEF Init, TypeOK, MaybeLevel
<1>2. PublishedLagsOneReading /\ PlateauBoundsLevel /\ PendingIsDrop /\ NoReadingYet
  BY DEF Init, PublishedLagsOneReading, PlateauBoundsLevel, PendingIsDrop, NoReadingYet
<1> QED
  BY <1>1, <1>2 DEF Inv

LEMMA ReadInv == ASSUME Inv, NEW level \in Level, Read(level) PROVE Inv'
<1> USE DEF Inv
<1>1. TypeOK'
  BY HigherBounds, LevelsAreIntegers
  DEF TypeOK, Read, AcceptBattery, MaybeLevel
<1>2. CASE AcceptBattery(level)
  <2>1. ~sagging' /\ battery' = level /\ last' = level /\ plateau' = Higher(plateau, level)
    BY <1>2 DEF Read
  <2>2. PlateauBoundsLevel'
    BY <2>1, HigherBounds, LevelsAreIntegers DEF PlateauBoundsLevel, TypeOK, MaybeLevel
  <2> QED
    BY <1>1, <2>1, <2>2, LevelsAreIntegers
    DEF PublishedLagsOneReading, PendingIsDrop, NoReadingYet
<1>3. CASE ~AcceptBattery(level)
  <2>1. /\ IsSharpDrop(level) /\ ~sagging /\ sagging'
        /\ last' = level /\ prev' = last
        /\ UNCHANGED <<battery, plateau>>
    BY <1>3 DEF Read, AcceptBattery
  <2>2. PendingIsDrop' /\ NoReadingYet'
    BY <2>1, LevelsAreIntegers DEF PendingIsDrop, NoReadingYet, IsSharpDrop
  <2>3. PublishedLagsOneReading'
    BY <2>1 DEF PublishedLagsOneReading
  <2> QED
    BY <1>1, <2>1, <2>2, <2>3 DEF PlateauBoundsLevel
<1> QED
  BY <1>2, <1>3

LEMMA DeclareKindInv ==
    ASSUME Inv, NEW kind \in BOOLEAN, DeclareKind(kind),
           UNCHANGED <<battery, sagging, saved, last, prev>>,
           unrestored' \in SUBSET Entity, packMax' \in MaybeLevel
    PROVE  Inv'
<1>1. TypeOK'
  BY DEF Inv, TypeOK, DeclareKind
<1>2. PlateauBoundsLevel'
  <2>1. CASE kind = rechargeable
    BY <2>1 DEF Inv, DeclareKind, PlateauBoundsLevel
  <2>2. CASE kind # rechargeable
    BY <2>2, LevelsAreIntegers DEF Inv, TypeOK, DeclareKind, PlateauBoundsLevel, MaybeLevel
  <2> QED
    BY <2>1, <2>2
<1> QED
  BY <1>1, <1>2 DEF Inv, PublishedLagsOneReading, PendingIsDrop, NoReadingYet

LEMMA RestoreBatteryInv == ASSUME Inv, RestoreBattery PROVE Inv'
<1>1. TypeOK'
  BY DEF Inv, TypeOK, RestoreBattery
<1>2. CASE battery # NoLevel
  BY <1>1, <1>2 DEF Inv, RestoreBattery, PublishedLagsOneReading,
     PlateauBoundsLevel, PendingIsDrop, NoReadingYet
<1>3. CASE battery = NoLevel
  \* Nothing has been published, so nothing has been read and there is no plateau.
  <2>1. plateau = NoLevel /\ ~sagging
    BY <1>3 DEF Inv, PlateauBoundsLevel, PendingIsDrop
  <2>2. last = NoLevel \/ last = battery
    BY <2>1 DEF Inv, PublishedLagsOneReading
  <2>3. last = NoLevel
    BY <1>3, <2>2
  <2> QED
    BY <1>1, <2>1, <2>3 DEF Inv, RestoreBattery, PublishedLagsOneReading,
       PlateauBoundsLevel, PendingIsDrop, NoReadingYet
<1> QED
  BY <1>2, <1>3

LEMMA NextInv == Inv /\ [Next]_vars => Inv'
<1> SUFFICES ASSUME Inv, [Next]_vars PROVE Inv'
  OBVIOUS
<1>1. ASSUME NEW level \in Level, Read(level) PROVE Inv'
  BY <1>1, ReadInv
<1>2. ASSUME NEW kind \in BOOLEAN, SetRechargeable(kind) PROVE Inv'
  BY <1>2, DeclareKindInv DEF SetRechargeable, Inv, TypeOK
<1>3. CASE Checkpoint
  BY <1>3 DEF Checkpoint, Inv, TypeOK, PublishedLagsOneReading,
     PlateauBoundsLevel, PendingIsDrop, NoReadingYet
<1>4. CASE Restart
  BY <1>4 DEF Restart, Inv, TypeOK, MaybeLevel, PublishedLagsOneReading,
     PlateauBoundsLevel, PendingIsDrop, NoReadingYet
<1>5. CASE RestoreBattery
  BY <1>5, RestoreBatteryInv
<1>6. CASE RestoreRechargeable
  <2>1. CASE saved.rechargeable
    BY <1>6, <2>1, DeclareKindInv DEF RestoreRechargeable, Inv, TypeOK
  <2>2. CASE ~saved.rechargeable
    BY <1>6, <2>2 DEF RestoreRechargeable, Inv, TypeOK, PublishedLagsOneReading,
       PlateauBoundsLevel, PendingIsDrop, NoReadingYet
  <2> QED
    BY <2>1, <2>2
<1>7. CASE UNCHANGED vars
  BY <1>7 DEF vars, Inv, TypeOK, PublishedLagsOneReading,
     PlateauBoundsLevel, PendingIsDrop, NoReadingYet
<1> QED
  BY <1>1, <1>2, <1>3, <1>4, <1>5, <1>6, <1>7 DEF Next

LEMMA InvHolds == Spec => []Inv
<1>1. Init => Inv
  BY InitInv
<1>2. Inv /\ [Next]_vars => Inv'
  BY NextInv
<1> QED
  BY <1>1, <1>2, PTL DEF Spec

\* Every variable keeps the values the code gives it.
THEOREM TypeCorrect == Spec => []TypeOK
BY InvHolds, PTL DEF Inv

\* The filter of _accept_battery holds back one reading at most.
THEOREM LagCorrect == Spec => []PublishedLagsOneReading
BY InvHolds, PTL DEF Inv

\* The plateau of a regulated pack is never under the published level.
THEOREM PlateauCorrect == Spec => []PlateauBoundsLevel
BY InvHolds, PTL DEF Inv

\* Two low readings in a row always raise the alert of the cells in place.
THEOREM SustainedLowCorrect == Spec => []SustainedLowIsReported
<1>1. Inv => SustainedLowIsReported
  <2> SUFFICES ASSUME Inv PROVE SustainedLowIsReported
    OBVIOUS
  \* The published level is one of the last two readings.
  <2>1. last # NoLevel /\ prev # NoLevel => battery \in {last, prev} /\ battery # NoLevel
    BY DEF Inv, PublishedLagsOneReading
  <2>2. ASSUME NEW t \in Int, Sustained(t) PROVE battery # NoLevel /\ battery <= t
    BY <2>1, <2>2 DEF Sustained
  <2>3. plateau \in Int /\ plateau - BatterySagRegulated \in Int
    BY LevelsAreIntegers DEF Inv, TypeOK
  <2>4. ~rechargeable /\ Sustained(BatteryLowAlkaline) => BatteryLow = "low"
    BY <2>2, LevelsAreIntegers DEF BatteryLow
  <2>5. rechargeable /\ plateau # NoLevel /\ Sustained(plateau - BatterySagRegulated)
        => BatteryLow = "low"
    BY <2>2, <2>3 DEF BatteryLow
  <2> QED
    BY <2>4, <2>5 DEF SustainedLowIsReported
<1> QED
  BY <1>1, InvHolds, PTL

\* A published level falls sharply only on two readings in a row.
THEOREM SharpDropCorrect == Spec => SharpDropIsConfirmed
<1> DEFINE Confirmed ==
      (/\ battery # NoLevel /\ battery' # NoLevel
       /\ battery' <= battery - BatteryTransientDrop)
      => /\ last # NoLevel /\ last <= battery - BatteryTransientDrop
         /\ last' = battery'
<1>1. Inv /\ [Next]_vars => [Confirmed]_vars
  <2> SUFFICES ASSUME Inv, Next,
                      battery # NoLevel, battery' # NoLevel,
                      battery' <= battery - BatteryTransientDrop
               PROVE  /\ last # NoLevel /\ last <= battery - BatteryTransientDrop
                      /\ last' = battery'
    OBVIOUS
  <2>0. battery' # battery
    BY LevelsAreIntegers DEF Inv, TypeOK
  <2>1. ASSUME NEW level \in Level, Read(level)
        PROVE  /\ last # NoLevel /\ last <= battery - BatteryTransientDrop
               /\ last' = battery'
    <3>1. AcceptBattery(level) /\ battery' = level /\ last' = level
      BY <2>0, <2>1 DEF Read
    <3>2. sagging
      BY <3>1 DEF AcceptBattery, IsSharpDrop
    <3> QED
      BY <3>1, <3>2 DEF Inv, PendingIsDrop
  <2>2. ~Restart /\ ~RestoreBattery /\ ~Checkpoint /\ ~RestoreRechargeable
        /\ \A kind \in BOOLEAN : ~SetRechargeable(kind)
    BY <2>0 DEF Restart, RestoreBattery, Checkpoint, RestoreRechargeable, SetRechargeable
  <2> QED
    BY <2>1, <2>2 DEF Next
<1> QED
  BY <1>1, InvHolds, PTL DEF Spec, SharpDropIsConfirmed

\* The plateau of a declared pack never goes down while the process runs.
THEOREM PlateauMonotone == Spec => PlateauNeverFalls
<1> DEFINE Holds ==
      (plateau # NoLevel /\ battery' # NoLevel /\ rechargeable' = rechargeable)
      => plateau' >= plateau
<1>1. Inv /\ [Next]_vars => [Holds]_vars
  <2> SUFFICES ASSUME Inv, Next, battery' # NoLevel, rechargeable' = rechargeable
               PROVE  plateau' >= plateau
    OBVIOUS
  <2>1. plateau >= plateau
    BY LevelsAreIntegers DEF Inv, TypeOK
  <2>2. ASSUME NEW level \in Level, Read(level) PROVE plateau' >= plateau
    BY <2>1, <2>2, HigherBounds DEF Read, Inv, TypeOK, MaybeLevel
  <2>3. ASSUME NEW kind \in BOOLEAN, SetRechargeable(kind) PROVE plateau' >= plateau
    BY <2>1, <2>3 DEF SetRechargeable, DeclareKind
  <2>4. CASE Checkpoint \/ RestoreBattery
    BY <2>1, <2>4 DEF Checkpoint, RestoreBattery
  <2>5. CASE RestoreRechargeable
    BY <2>1, <2>5 DEF RestoreRechargeable, DeclareKind
  <2>6. ~Restart
    BY DEF Restart
  <2> QED
    BY <2>2, <2>3, <2>4, <2>5, <2>6 DEF Next
<1> QED
  BY <1>1, InvHolds, PTL DEF Spec, PlateauNeverFalls
=============================================================================
