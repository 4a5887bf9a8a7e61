------------------------------- MODULE MCMarkets -------------------------------
(***************************************************************************)
(* The contracts that trade and lend: prediction-markets, amm and          *)
(* collateral-management.  They share no storage and no balance and never  *)
(* call each other, so each behaviour explores one part (focus) while the  *)
(* others stay in their initial states; a market is explored for its       *)
(* trading, with more calls for its orders, for its settlement, and for    *)
(* its replacement by one with another collateral and fewer outcomes.      *)
(***************************************************************************)
EXTENDS PredictionMarkets, TLC

CONSTANTS
    Token, Deposit, SwapIn, Burn, Reward, PoolFee, FeeShare, DefaultRisk, Risk,
    DEPOSIT_RATIO_TOLERANCE_BPS, MAX_FEE_BPS, MAX_PROTOCOL_FEE_SHARE_BPS, MaxPools, AmmTime,
    Asset, Sum, Terms, DefaultParams, ProtocolParams, PriceSet, OpeningPrice, Fund,
    SECONDS_PER_YEAR, MAX_LTV_BPS, MAX_LIQ_THRESHOLD_BPS, MAX_LIQ_BONUS_BPS, MaxLoans, LoanTime,
    MaxTrades, MaxSettlements, MaxReplaced, MaxSwaps, MaxLending,
    MaxChanges                \* bounds on the calls made

VARIABLES
    ammReady, ammPaused, feeShare, ammCollector, risk, breaker, ammPools, lpBalances,
    lpRewards, positions, ammTokens, ammNow,
    cmReady, cmPaused, params, collateralType, collateralTokens, priceCache, userCollateral,
    totalCollateral, loans, totalDebt, feed, custody, cmNow,
    focus, moves, settlements, changes

swapVars ==
    <<ammReady, ammPaused, feeShare, ammCollector, risk, breaker, ammPools, lpBalances,
      lpRewards, positions, ammTokens, ammNow>>
creditVars ==
    <<cmReady, cmPaused, params, collateralType, collateralTokens, priceCache, userCollateral,
      totalCollateral, loans, totalDebt, feed, custody, cmNow>>

Pools == INSTANCE Amm WITH Provider <- Trader
Credits == INSTANCE CollateralManagement WITH User <- Trader

counters == <<moves, settlements, changes>>
mcVars == <<pmVars, swapVars, creditVars, focus, counters>>

MCInit ==
    /\ Init /\ Pools!Init /\ Credits!Init
    /\ focus \in {"trading", "ordering", "settlement", "replacing", "swapping", "lending"}
    /\ moves = 0 /\ settlements = 0 /\ changes = 0

Move(bound) == moves < bound /\ moves' = moves + 1 /\ UNCHANGED <<settlements, changes>>
Change == changes < MaxChanges[focus] /\ changes' = changes + 1 /\ UNCHANGED <<moves, settlements>>

\* Behaviours in which every bound is used up may stop.
Idle == UNCHANGED mcVars

\* A market with three outcomes, and after initialize one in its place.
Replacing ==
    \/ ~pmReady /\ \E p \in Params : p.outcomes = 3 /\ create_market(p)
    \/ pmReady /\ \E p \in Params : p.outcomes = 2 /\ create_market(p)
    \/ \E k \in DOMAIN pools, u \in Trader :
          \/ buy_outcome(u, k[1], k[2], 5)
          \/ add_liquidity(u, k[1], k[2], 5, 5)
          \/ remove_liquidity(u, k[1], k[2], 5)
          \/ \E side \in {"buy", "sell"}, p \in Price : place_order(u, k[1], k[2], side, p, 2)
    \/ \E m \in DOMAIN markets : \E n \in DOMAIN orders[m] :
          cancel_order(m, n) \/ match_sell_order(m, n)

MCNext ==
    \/ /\ focus = "trading" /\ UNCHANGED <<swapVars, creditVars, focus>>
       /\ \/ \E p \in Params : p.outcomes = 2 /\ create_market(p)
          \/ Pooling
          \/ Ordering
       /\ Move(MaxTrades[focus])
    \/ /\ focus = "ordering" /\ UNCHANGED <<swapVars, creditVars, focus>>
       /\ \/ \E p \in Params : p.outcomes = 2 /\ create_market(p)
          \/ \E k \in DOMAIN pools, u \in Trader, a \in Amount : buy_outcome(u, k[1], k[2], a)
          \/ Ordering
       /\ Move(MaxTrades[focus])
    \/ /\ focus = "settlement" /\ UNCHANGED <<swapVars, creditVars, focus>>
       /\ \/ Administration /\ Change
          \/ /\ \/ \E p \in Params : p.outcomes = 2 /\ p.fee > 0 /\ create_market(p)
                \/ Pooling
                \/ Ordering
             /\ Move(MaxTrades[focus])
          \/ Settlement /\ settlements < MaxSettlements /\ settlements' = settlements + 1
             /\ UNCHANGED <<moves, changes>>
          \/ Tick /\ UNCHANGED counters
    \/ /\ focus = "replacing" /\ UNCHANGED <<swapVars, creditVars, focus>>
       /\ \/ initialize /\ Change
          \/ Replacing /\ Move(MaxTrades[focus])
          \/ Settlement /\ settlements < MaxReplaced /\ settlements' = settlements + 1
             /\ UNCHANGED <<moves, changes>>
          \/ Tick /\ UNCHANGED counters
    \/ /\ focus = "swapping" /\ UNCHANGED <<pmVars, creditVars, focus>>
       /\ \/ Pools!Administration /\ Change
          \/ Pools!Trading /\ Move(MaxSwaps)
          \/ Pools!Tick /\ UNCHANGED counters
    \/ /\ focus = "lending" /\ UNCHANGED <<pmVars, swapVars, focus>>
       /\ \/ Credits!Administration /\ Change
          \/ Credits!Lending /\ Move(MaxLending)
          \/ Credits!Tick /\ UNCHANGED counters
    \/ Idle

MCSpec == MCInit /\ [][MCNext]_mcVars

Symmetry == Permutations(Trader) \cup Permutations(Token)

-----------------------------------------------------------------------------
\* The values of the constants that are records or functions.
\* A market with a fee, one without, and one with more outcomes and another collateral.
MarketParams ==
    {[liquidity |-> 4, outcomes |-> 2, window |-> 0, cap |-> 3, fee |-> 500, coin |-> "usdc"],
     [liquidity |-> 5, outcomes |-> 2, window |-> 0, cap |-> 3, fee |-> 0, coin |-> "usdc"],
     [liquidity |-> 4, outcomes |-> 3, window |-> 0, cap |-> 3, fee |-> 500, coin |-> "xlm"]}

RiskAtStart ==
    [min_lp |-> 2, max_user |-> 20, max_asset |-> 10, concentration |-> 6000, cooldown |-> 1]
RiskAfter ==
    {[min_lp |-> 1, max_user |-> 4, max_asset |-> 4, concentration |-> 10000, cooldown |-> 1]}

\* The second kind of collateral counts for next to nothing.
CollateralTerms ==
    {[ltv |-> 8000, threshold |-> 8000, bonus |-> 1000, cap |-> 8, active |-> TRUE,
      price_scale |-> 2],
     [ltv |-> 0, threshold |-> 1, bonus |-> 0, cap |-> 8, active |-> TRUE, price_scale |-> 4]}
ParamsAtStart ==
    [ceiling |-> 0, threshold |-> 8000, base |-> 5000, slope1 |-> 400, slope2 |-> 7500,
     optimal |-> 8000, max_borrow |-> 0, max_collateral |-> 0]
ParamsAfter ==
    {[ceiling |-> 4, threshold |-> 9000, base |-> 2500, slope1 |-> 400, slope2 |-> 7500,
      optimal |-> 0, max_borrow |-> 3, max_collateral |-> 6]}

TradesOf == [trading |-> 5, ordering |-> 6, settlement |-> 3, replacing |-> 4]
ChangesOf == [settlement |-> 2, replacing |-> 1, swapping |-> 3, lending |-> 3]

-----------------------------------------------------------------------------

\* collateral-management: the state is well typed, totals follow loans and collateral,
\* and the tokens held and lent cover what the users and the fund are owed.
LendingLedger == Credits!TypeOK /\ Credits!LendingLedger

\* prediction-markets and amm: no trade, swap, flash swap or hop of a route lowers
\* the product of a pool's reserves, but for the rounding of a sale free of fee.
ProductNeverFalls == TradesKeepProduct /\ Pools!ProductNeverFalls

\* collateral-management: prices and parameters apart, only interest or the rounding
\* of its own deposit makes a healthy account one that may be liquidated.
HealthLostToInterest == Credits!HealthLostToInterest

\* collateral-management: the collateral a liquidator receives is worth the debt
\* the liquidator paid.
SeizureCoversDebt == Credits!SeizureCoversDebt
=============================================================================
