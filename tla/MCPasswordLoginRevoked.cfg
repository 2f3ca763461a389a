\* A login that replaces the hash races a revocation.
SPECIFICATION Spec
CONSTANTS
    Request = {p1, p2}
    Admin = {a1}
    MaxClock = 1
    ClockStepsBack = FALSE
    MayDeactivate = FALSE
    MayFail = FALSE
    Null = Null
SYMMETRY Symmetry
PROPERTIES
    RevokedCredentialIsKept
