CONSTANTS
    Gated <- MCGated
    Dated <- MCDated
    Last = "last_connected"
    MaxTime = 3
SPECIFICATION FairSpec
INVARIANTS
    ShownIsCurrent
    DatesSurvive
PROPERTIES
    NeverBack
    KnownIsShown
