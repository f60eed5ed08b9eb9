SPECIFICATION FairSpec
CONSTANTS
    Calls = {c1, c2, c3, c4}
    Runners = {r1, r2}
    None = none
    Refresh = refresh
    Refreshing = TRUE
CHECK_DEADLOCK FALSE
INVARIANTS HoldIsServed ConnectedIsUsable OffIsOff OneHolder LinkIsShown
PROPERTIES LinkOnlyWhileHeld OffReleases HoldReconnects
