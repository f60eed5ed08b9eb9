CONSTANTS
    Gated <- MCGated
    Dated <- MCDated
    Last = "last_connected"
    MaxTime = 3
SPECIFICATION Spec
INVARIANT
    LastKnownSurvives
