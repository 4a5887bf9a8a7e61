SPECIFICATION MCSpec
CONSTANTS
    Voter = {v1, v2}
    Admin = ad
    Holding = 1
    Amount = {1}
    Delegated <- SomeDelegated
    Payment = {1, 2}
    TotalSupply = {2}
    Delay = {0}
    Period = {1}
    Timelock = {1}
    Quorum = {1, 2}
    Threshold = {1}
    ProposalThreshold = {1}
    LockDuration = {1}
    MIN_LOCK_DURATION = 1
    MAX_LOCK_DURATION = 2
    GRACE_PERIOD = 1
    BPS = 2
    Treasury = 1
    MaxProposal = 1
    MaxMoves = 2
    MaxTime = 6
INVARIANTS
    TypeOK
    PowerAddsUp
PROPERTIES
    DecisionIsFrozen
    ExecutionIsDelayed
    QueuedIsResolved
