\* Two requests, any of which may fail at any step, and a clock that is set back.
SPECIFICATION Spec
CONSTANTS
    Request = {p1, p2}
    Session = {s1, s2, s3}
    User = {u1}
    Null = Null
    TTL = 2
    MaxClock = 1
    ClockStepsBack = TRUE
    MayFail = TRUE
SYMMETRY Symmetry
INVARIANTS
    OneActivePerFamily
    FamilyIsAChain
PROPERTIES
    EndedStaysEnded
    RevocationStaysInFamily
    ImplementsTokenFamilies
