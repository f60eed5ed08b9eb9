CONSTANTS
    c1 = c1
    c2 = c2
    c3 = c3
    Codes = {c1, c2, c3}
    NoCode = none
    Initial <- MCInitial
    Entries <- MCEntries
    MaxLinks = 3
SPECIFICATION Spec
CHECK_DEADLOCK FALSE
INVARIANT RetiredStaysOut
