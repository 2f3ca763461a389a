\* A clock that only advances, and two requests that read it at different times.
SPECIFICATION Spec
CONSTANTS
    Request = {p1, p2}
    Session = {s1, s2, s3}
    User = {u1}
    Null = Null
    TTL = 2
    MaxClock = 1
    ClockStepsBack = FALSE
    MayFail = FALSE
SYMMETRY Symmetry
PROPERTIES
    LogoutAlwaysNoContent
