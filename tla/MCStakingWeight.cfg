SPECIFICATION StakingSpec
CONSTANTS
    Staker = {u1, u2}
    StakeAmount = {1, 2}
    Rate = {0, 3}
    MinStake = {1}
    Lock = {1}
    Multiplier = {2, 3}
    Penalty = {1}
    STAKE_DENOMINATOR = 2
    PRECISION_FACTOR = 4
    MAX_TIERS = 1
    MAX_BATCH_SIZE = 2
    MaxStake = 2
    MaxBatch = 2
    MaxTime = 2
    MaxFunded = 2
SYMMETRY Symmetry
INVARIANTS
    WeightedTotal
