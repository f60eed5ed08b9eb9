CONSTANTS
    Ops = {o1, o2}
    First = {"scan", "unregister", "on"}
    Badges = {u1, u2}
    Target = u1
    NoOp = NoOp
SPECIFICATION FairSpec
CHECK_DEADLOCK FALSE
PROPERTIES EnrolledIsIn RevokedIsGone EveryCallEnds
