CONSTANTS
    Codes = {c1, c2}
    Keys = {k1}
    Names = {n1}
    Bad = bad
    None = none
    Flows = {f1}
    Choices <- MCChoices
    Screens <- MCScreens
    MaxChanges = 2
SPECIFICATION Spec
INVARIANT PoolIsServed
