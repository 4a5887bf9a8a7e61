SPECIFICATION MCSpec
CONSTANTS
    User = {u1, u2}
    AgentId = {a1, a2}
    Ask = {10}
    Term = {1}
    Price = {0, 10, 15}
    Share = {5000}
    Fee = {1000, 2000}
    Days = {1, 2}
    Increment = {5000}
    EXTENSION = 1
    MAX_ROYALTY_PERCENTAGE = 10000
    MAX_PLATFORM_FEE = 1000
    Workflow = {1, 2}
    NoBidder = NoBidder
    MaxListings = 2
    MaxSales = 2
    MaxOffers = 1
    MaxAuctions = 1
    MaxBids = 3
    MaxRecords = 2
    MarketplaceTime = 4
    LastTick <- TicksOf
    MaxMoves <- MovesOf
SYMMETRY Symmetry
INVARIANTS
    EscrowFlags
    OneSalePerPurchase
    RoyaltyFromMembership

    
