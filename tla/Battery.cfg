CONSTANTS
    Level <- MCLevel
    BatteryLowAlkaline = 20
    BatterySagRegulated = 3
    BatteryTransientDrop = 10
SPECIFICATION Spec
INVARIANTS
    PublishedLagsOneReading
    PlateauBoundsLevel
    SustainedLowIsReported
PROPERTIES
    SharpDropIsConfirmed
