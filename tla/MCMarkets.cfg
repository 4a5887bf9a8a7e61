SPECIFICATION MCSpec
CONSTANTS
    Trader = {u1, u2}
    Coin = {"usdc", "xlm"}
    Params <- MarketParams
    Amount = {1, 5}
    Price = {3}
    Quantity = {1, 2}
    Stake = {1}
    BPS_DENOMINATOR = 10000
    DECIMAL_FACTOR = 2
    MaxMarkets = 1
    MaxOrders = 2
    MaxDisputes = 2
    MarketTime = 1
    Token = {t1, t2, t3}
    Deposit = {8}
    SwapIn = {4}
    Burn = {4}
    Reward = {3}
    PoolFee = {5000}
    FeeShare = {5000}
    DefaultRisk <- RiskAtStart
    Risk <- RiskAfter
    DEPOSIT_RATIO_TOLERANCE_BPS = 6000
    MAX_FEE_BPS = 5000
    MAX_PROTOCOL_FEE_SHARE_BPS = 5000
    MaxPools = 2
    AmmTime = 1
    Asset = {c1, c2}
    Sum = {2}
    Terms <- CollateralTerms
    DefaultParams <- ParamsAtStart
    ProtocolParams <- ParamsAfter
    PriceSet = {0, 2, 4}
    OpeningPrice = 4
    Fund = 3
    SECONDS_PER_YEAR = 1
    MAX_LTV_BPS = 9500
    MAX_LIQ_THRESHOLD_BPS = 9800
    MAX_LIQ_BONUS_BPS = 2000
    MaxLoans = 2
    LoanTime = 2
    MaxTrades <- TradesOf
    MaxSettlements = 5
    MaxReplaced = 3
    MaxSwaps = 3
    MaxLending = 5
    MaxChanges <- ChangesOf
SYMMETRY Symmetry
INVARIANTS
    
    LendingLedger
PROPERTIES
    ProductNeverFalls
    HealthLostToInterest
