SPECIFICATION Spec
CONSTANTS
 None = none
 Refresh = refresh
 Calls = {c1, c2, c3, c4, c5}
 Runners = {r1, r2, r3}
 Refreshing = FALSE
INVARIANT SessionIsShown
CHECK_DEADLOCK FALSE
