SPECIFICATION FairSpec
CONSTANTS
    Request = {p1, p2, p3}
    PoolSize = 1
    MaxOverflow = 1
    Chain = 2
    Null = Null
INVARIANTS
    PoolIsAccounted
    RestartHurtsOnlyOpenTransactions
    NoDeadlock
PROPERTIES
    AnswerMatchesCommit
    ReuseIsRevoked
    SuccessIsKept
    RequestsEnd
