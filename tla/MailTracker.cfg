CONSTANTS
    Mode = "ha_command"
    Sensors = {"door", "flap"}
    Window = 1
    MaxPending = 2
    Late = 1
    MaxInput = 2
SPECIFICATION FairSpec
CHECK_DEADLOCK FALSE
INVARIANTS
    NoFalseAlarm
    NoMissedAlarm
    PendingHasTimer
PROPERTIES
    DepositIsFullCycle
    EveryOpeningSettles
