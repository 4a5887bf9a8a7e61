SPECIFICATION MCSpec
CONSTANTS
    Address = {ad, a1}
    Admin = ad
    Keeper = k
    RoleHolder = {a1}
    Recipient = {r1}
    Token = {t1}
    Amount = {1}
    Delay = {0, 1}
    Grace = {1}
    Window = {1, 2}
    RateMax = {1}
    MAX_SIGNERS = 2
    MIN_AMOUNT = 1
    U64_MAX = 4
    MaxEscrow = 1
    MaxTx = 2
    MaxTime = 2
    MaxBalance = 1
    MaxChanges = 3
INVARIANTS
    TypeOK
    EscrowLedger
    ThresholdReachable
PROPERTIES
    SettledIsFinal
    RateLimitHolds
    EveryWithdrawalSettles
