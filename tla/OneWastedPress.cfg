CONSTANTS
    c1 = c1
    c2 = c2
    Presses = {p1, p2, p3}
    Codes = {c1, c2, master}
    Permanent = master
    NoPress = NoPress
    OneTime = TRUE
    InitialPool <- MCPool
    MaxCrashes = 0
SPECIFICATION Spec
INVARIANT OneWastedPress
