SPECIFICATION MCSpec
CONSTANTS
    User = {u1, u2}
    Strategy = {s1}
    Amount = {1, 2}
    Report = {0, 2}
    Bps = {2, 5}
    BPS_DENOMINATOR = 4
    DEFAULT_PERFORMANCE_FEE_BPS = 1
    MAX_STRATEGIES = 1
    MIN_QUEUED = 1
    MaxDeposits = 3
    MaxArrived = 1
    MaxReported = 2
    MaxAllocated = 1
    MaxRequest = 1
    Rate = {0, 3}
    MinStake = {1}
    Lock = {1}
    Multiplier = {3}
    Staker = {u1, u2}
    StakeAmount = {1, 2}
    Penalty = {1}
    STAKE_DENOMINATOR = 2
    PRECISION_FACTOR = 4
    MAX_TIERS = 1
    MAX_BATCH_SIZE = 2
    MaxStake = 2
    MaxBatch = 2
    MaxTime = 2
    MaxFunded = 1
    Token = {t1}
    Locked = {1, 2}
    Start = {0}
    Cliff = {1, 3}
    Duration = {3}
    VestingPenalty = {2}
    MaxSchedule = 2
    MaxLocked = 2
    VestingTime = 3
SYMMETRY Symmetry
INVARIANTS
    VaultBooks
    AssetsBelowMark
    StakingBooks
    VestingBooks
PROPERTIES
    HoldersNeverDiluted
