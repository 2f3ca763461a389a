\* A refresh races a revocation that was started with an older token.
SPECIFICATION Spec
CONSTANTS
    Request = {p1, p2}
    Session = {s1, s2, s3}
    User = {u1}
    Null = Null
    TTL = 2
    MaxClock = 0
    ClockStepsBack = FALSE
    MayFail = FALSE
SYMMETRY Symmetry
PROPERTIES
    RevocationEndsFamily
