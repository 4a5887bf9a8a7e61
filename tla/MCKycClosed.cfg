SPECIFICATION MCSpec
CONSTANTS
    User = {a1, a2}
    Agent = {g1, g2}
    Rule = {r1}
    Nonce = {1, 2}
    Offset = {1}
    Given <- StepLists
    MAX_STEPS = 3
    MAX_HISTORY_SIZE = 2
    MAX_HISTORY_PER_INITIATOR = 1
    RATE_LIMIT_OPS = 1
    RATE_LIMIT_WINDOW = 1
    Nobody = Nobody
    MaxWorkflow = 2
    HubTime = 2
    MaxTime = 3
    Address = {o1, o2, v1}
    Operators = {o1, o2}
    Governors = {v1}
    KYC_PENDING_EXPIRY_SECS = 2
    KYC_OVERRIDE_TIMELOCK_SECS = 1
    MaxReports = 1
    Party = {a1, a2}
    Category = {g1, g2}
    Gross = {1, 3}
    FeeBps = {0, 1, 2, 3}
    ShareBps = {1, 3}
    BPS_DENOMINATOR = 4
    HARD_CAP_FEE_RATE_BPS = 2
    MAX_FEE_RATE_STEP_BPS = 1
    MAX_CATEGORIES = 2
    MAX_BATCH_SIZE = 2
    MaxCollected = 2
    Tier = {g1, g2}
    Price = {2, 3}
    Period = {2}
    Trial = {0, 1}
    RewardBps = {2}
    MAX_REFERRAL_REWARD_BPS = 2
    MaxSubscriptions = 2
    MaxRevenue = 6
    MembershipTime = 2
    MaxChanges <- ChangesOf
    MaxMoves <- MovesOf
SYMMETRY Symmetry
PROPERTIES
    ClosedUntilOverridden
