\* Two requests that compete for row locks, with faults and a clock set back.
SPECIFICATION FairSpec
CONSTANTS
    Request = {p1, p2}
    Session = {s1, s2}
    User = {u1}
    Null = Null
    TTL = 1
    MaxClock = 1
    ClockStepsBack = TRUE
    MayFail = TRUE
INVARIANTS
    IInv
    StoredSessionsLoad
PROPERTIES
    RequestsFinish
