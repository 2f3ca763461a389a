\* One request at a time, a clock of half seconds that is set back, two-second tokens.
SPECIFICATION Spec
CONSTANTS
    Request = {p1}
    User = {u1}
    Null = Null
    Second = 2
    TTL = 2
    MaxClock = 6
    ClockStepsBack = TRUE
INVARIANTS
    AcceptedWithinLifetime
    RefusedOnlyAtTheEnd
