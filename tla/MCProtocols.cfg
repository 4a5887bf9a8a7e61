SPECIFICATION MCSpec
CONSTANTS
    Role = {Admin, Minter, Pauser}
    Admin = Admin
    Account = {a1, a2}
    Founder = a1
    StepLists <- Workflows
    TRANSACTION_TIMEOUT_SECONDS = 1
    MAX_TRANSACTION_STEPS = 5
    MaxTransactions = 1
    CoordinatorTime = 2
    Member = {u1, u2}
    PoolId = {p1, p2}
    CoverageType = {"SmartContractRisk"}
    CoverageTier = {"Basic"}
    Stake = {5}
    Cover = {10}
    Loss = {7}
    Ratio = {5, 11}
    DefaultRiskParams <- RiskAtFirst
    RiskParams <- RiskLater
    DefaultTiers <- TiersAtFirst
    TierConfig <- TiersLater
    BPS_DENOMINATOR = 10
    LARGE_CLAIM_THRESHOLD_BPS = 1
    BootstrapDepth = 10
    VOTING_PERIOD_SECONDS = 1
    POLICY_DURATION = 3
    MaxPolicies = 2
    MaxClaims = 2
    InsuranceTime = 1
    Investor = {u1, u2}
    DepositToken = {"usd"}
    TokenLists <- AssetLists
    WeightLists <- Weightings
    BalanceLists <- NewBalances
    DividendLists <- DividendPayments
    InvestedSum = {0, 2, 3}
    Swapped = {0, 2}
    Quote = {5}
    ToleranceBps = {7000}
    IntervalSeconds <- Intervals
    BASIS = 10000
    PRECISION_FACTOR = 4
    MAX_ASSETS = 8
    DRIFT_TOLERANCE_BPS = 200
    MAX_REBALANCE_SLIPPAGE_BPS = 500
    MaxPortfolios = 2
    PortfolioTime = 1
    Provider = {"o1", "o2", "o3"}
    Caller = {c1}
    FeedId = {"xlm"}
    ProviderLists <- OracleProviders
    FeedTerms <- Terms
    Quotation = {0, 2, 3, 6}
    Datum = {d1}
    StakeSum = {0, 1}
    QueryLimits = {2, 3}
    Window = {1, 2}
    Term = {0, 1}
    QueriesOf <- Tiers
    BaseReward = 2
    COOLDOWN = 2
    GlobalLimit <- SubscriberLimit
    GuestLimit <- VisitorLimit
    MaxHistory = 2
    MaxCustomData = 1
    MAX_QUERY = 2
    WindowRange = {1}
    BPS = 10
    OracleTime = 2
    Panel <- Jury
    Spread = {1, 4, 10, 12}
    Validator = {v1, v2, v3}
    BridgedToken = {p1, p2}
    Sender = {u1, u2}
    ChainID = {"Stellar", "Ethereum"}
    HomeChain = "Stellar"
    BridgedAmount = {0, 2, 4, 5}
    Nonce = {0, 1, 2}
    TokenKind <- TokenKinds
    QUORUM_PERCENTAGE = 67
    FeeConfig <- BridgeFees
    RateLimitConfig <- Volumes
    DAY = 1
    MONTH = 2
    BridgeBps = 10
    SenderFunds = 9
    BridgeTime = 3
    MaxMoves <- MovesOf
    MaxChanges <- ChangesOf
SYMMETRY Symmetry
INVARIANTS
    BridgeBooks
PROPERTIES
    InsuranceBooks
    PortfolioBooks
    OracleAnswers
    AllOrNothing
    LostRolesStayLost
