CONSTANTS
    Ops = {o1, o2}
    First = {"scan"}
    Badges = {u1, u2}
    Target = u1
    NoOp = NoOp
SPECIFICATION Spec
CHECK_DEADLOCK FALSE
INVARIANT PresentedThenRegistered
