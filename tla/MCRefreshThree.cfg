\* Three competing requests, the clock standing still.
SPECIFICATION Spec
CONSTANTS
    Request = {p1, p2, p3}
    Session = {s1, s2, s3}
    User = {u1}
    Null = Null
    TTL = 1
    MaxClock = 0
    ClockStepsBack = FALSE
    MayFail = FALSE
SYMMETRY Symmetry
INVARIANTS
    LogoutOfNewestTokenIsTotal
    RevocationCoversSnapshot
    NoDeadlock
    UnknownIsUncommitted
