\* Two requests from login to logout, with faults, deactivations and a revocation.
SPECIFICATION AuthSpec
CONSTANTS
    Request = {p1, p2}
    Session = {s1, s2}
    User = {u1}
    Account = u1
    Admin = {a1}
    Null = Null
    TTL = 1
    MaxClock = 0
    ClockStepsBack = FALSE
    MayFail = TRUE
SYMMETRY Symmetry
INVARIANTS
    NoCircle
PROPERTIES
    DeactivationIsEffective
    SessionsAreAuthenticated
