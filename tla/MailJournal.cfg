CONSTANTS
    Mode = "journal"
    Sensors = {"door"}
    Window = 2
    MaxPending = 2
    Late = 0
    MaxInput = 2
    ReadMax = 1
    MaxOpens = 3
    Reports = {"open", "closed"}
    Faults = {"cut", "truncated"}
SPECIFICATION JSpec
CHECK_DEADLOCK FALSE
INVARIANTS
    JTypeOK
    JournalNoMissedAlarm
PROPERTIES
    JournalMatchesOwnRead
    OpenDateTracksNewest
