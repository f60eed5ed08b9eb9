CONSTANTS
    Level <- MCLevel
    BatteryLowAlkaline = 20
    BatterySagRegulated = 3
    BatteryTransientDrop = 10
SPECIFICATION Spec
INVARIANT PlateauIsPackMax
