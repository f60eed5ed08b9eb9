CONSTANTS
    Mode = "journal"
    Sensors = {"door"}
    Window = 2
    MaxPending = 2
    Late = 0
    MaxInput = 3
    ReadMax = 1
    MaxOpens = 3
    Reports = {"open", "closed"}
    Faults = {"truncated"}
SPECIFICATION JSpec
CHECK_DEADLOCK FALSE
PROPERTY ReadCoversLog
