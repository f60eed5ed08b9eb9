SPECIFICATION Spec
CONSTANTS
 None = none
 Refresh = refresh
 Calls = {c1}
 Runners = {r1}
 Refreshing = TRUE
INVARIANT StopIsClean
CHECK_DEADLOCK FALSE
