\* Two logins and a revocation of one credential, with faults and a clock that is set back.
SPECIFICATION Spec
CONSTANTS
    Request = {p1, p2}
    Admin = {a1}
    MaxClock = 1
    ClockStepsBack = TRUE
    MayDeactivate = TRUE
    MayFail = TRUE
    Null = Null
SYMMETRY Symmetry
INVARIANTS
    TypeOK
    EqualWork
    StatusMatchesRevocation
    PasswordKept
PROPERTIES
    CurrentStaysCurrent
