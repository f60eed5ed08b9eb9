SPECIFICATION Spec
CONSTANTS
 None = none
 Refresh = refresh
 Calls = {c1, c2, c3, c4}
 Runners = {r1, r2}
 Refreshing = FALSE
INVARIANT OffAtRest
CHECK_DEADLOCK FALSE
