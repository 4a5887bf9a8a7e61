SPECIFICATION LiveSpec
CONSTANTS
    Address = {a1, a2, a3}
    Recipient = {r1}
    Token = {t1}
    Amount = {1, 2}
    Limit = {1, 2}
    MAX_SIGNERS = 2
    DAY_SECONDS = 1
    MaxTx = 2
    MaxTime = 1
    MaxBalance = 3
INVARIANTS
    TypeOK
    RequirementReachable
    NonceOrder
PROPERTIES
    ImplementsQueue
    DailyCap
    HeadIsNotStarved
