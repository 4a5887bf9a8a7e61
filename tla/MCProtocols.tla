------------------------------ MODULE MCProtocols ------------------------------
(***************************************************************************)
(* Model checking the contracts that none of the others calls: roles,      *)
(* insurance, portfolios, prices, the bridge and the coordinator.  They    *)
(* share no state, so a behaviour is of the contract that `focus` names;   *)
(* "investing" starts from one portfolio, "quoting" and "panel" from a     *)
(* feed with its providers; "claiming" goes one call further than          *)
(* "insurance" and changes terms only between a decision and its payment.  *)
(* Moves are calls of users, changes those of administrators, each bounded *)
(* for every focus.                                                        *)
(***************************************************************************)
EXTENDS AccessControl, CrossChainBridge, TLC

CONSTANTS
    Member, PoolId, CoverageType, CoverageTier, Stake, Cover, Loss, Ratio, DefaultRiskParams,
    RiskParams, DefaultTiers, TierConfig, BPS_DENOMINATOR, LARGE_CLAIM_THRESHOLD_BPS,
    BootstrapDepth, VOTING_PERIOD_SECONDS, POLICY_DURATION, MaxPolicies, MaxClaims, InsuranceTime,
    Investor, DepositToken, TokenLists, WeightLists, BalanceLists, DividendLists, InvestedSum,
    Swapped, Quote, ToleranceBps, IntervalSeconds, BASIS, PRECISION_FACTOR, MAX_ASSETS,
    DRIFT_TOLERANCE_BPS, MAX_REBALANCE_SLIPPAGE_BPS, MaxPortfolios, PortfolioTime,
    Provider, Caller, FeedId, ProviderLists, FeedTerms, Quotation, Datum, StakeSum, QueryLimits,
    Window, Term, QueriesOf, BaseReward, COOLDOWN, GlobalLimit, GuestLimit, MaxHistory,
    MaxCustomData, MAX_QUERY, WindowRange, BPS, OracleTime, Panel, Spread,
    StepLists, TRANSACTION_TIMEOUT_SECONDS, MAX_TRANSACTION_STEPS, MaxTransactions, CoordinatorTime,
    MaxMoves, MaxChanges

VARIABLES
    insPaused, riskParams, tierConfig, pools, underwriters, policies, claims, votes, payoutQueue,
    insTokens, insNow, refunded, reclosed,
    pmPaused, portfolios, assetPositions, userPositions, accumulators, rebalances, dividends,
    snapshots, pmTokens, pmNow,
    providers, failures, feeds, latestPrice, providerPrice, priceHistory, circuitBreaker, fallback,
    customFeeds, customData, subscriptions, rateLimits, incentives, oracleNow, pardoned,
    coAdmin, counter, transactions, journal, reserved, applied, coNow,
    focus, moves, changes

insuranceVars ==
    <<insPaused, riskParams, tierConfig, pools, underwriters, policies, claims, votes, payoutQueue,
      insTokens, insNow, refunded, reclosed>>

fundVars ==
    <<pmPaused, portfolios, assetPositions, userPositions, accumulators, rebalances, dividends,
      snapshots, pmTokens, pmNow>>

priceVars ==
    <<providers, failures, feeds, latestPrice, providerPrice, priceHistory, circuitBreaker,
      fallback, customFeeds, customData, subscriptions, rateLimits, incentives, oracleNow, pardoned>>

stepVars == <<coAdmin, counter, transactions, journal, reserved, applied, coNow>>

Insurance == INSTANCE InsuranceProtocol
Funds == INSTANCE PortfolioManager
Prices == INSTANCE Oracle
Steps == INSTANCE TransactionCoordinator
Lists == INSTANCE AtomicWorkflows

ASSUME ProtocolsAssumption == RolesConstants /\ BridgeConstants

counters == <<moves, changes>>
mcVars == <<accessVars, insuranceVars, fundVars, priceVars, bridgeVars, stepVars, focus, counters>>

MCInit ==
    /\ RolesInit /\ BridgeInit /\ Insurance!Init /\ Funds!Init /\ Prices!Init /\ Steps!Init
    /\ focus \in DOMAIN MaxMoves
    /\ moves = 0 /\ changes = 0

Move == moves < MaxMoves[focus] /\ moves' = moves + 1 /\ UNCHANGED changes
Change == changes < MaxChanges[focus] /\ changes' = changes + 1 /\ UNCHANGED moves

\* Behaviours in which every bound is used up may stop.
Idle == UNCHANGED mcVars

\* The first n providers of the panel register in turn and the feed they serve opens.
Opening(n) ==
    /\ \/ changes < n /\ Prices!register_provider(Panel[changes + 1], 1, 1)
       \/ /\ changes = n
          /\ \E f \in FeedId, terms \in FeedTerms :
                Prices!create_price_feed(f, terms, SubSeq(Panel, 1, n))
    /\ Change

\* Each provider of the panel quotes once.
Polling ==
    /\ moves < Len(Panel)
    /\ \E f \in DOMAIN feeds, price \in Spread : Prices!submit_price(Panel[moves + 1], f, price)
    /\ Move

\* Short lists, of which two are tried together: a step without a rollback before one
\* that may fail, and a number given twice, by steps that can be carried out and by
\* steps that cannot.
ShortLists ==
    {<<[step_id |-> 1, depends_on |-> 0, reversible |-> FALSE],
       [step_id |-> 2, depends_on |-> 1, reversible |-> TRUE]>>,
     <<[step_id |-> 1, depends_on |-> 0, reversible |-> TRUE],
       [step_id |-> 1, depends_on |-> 0, reversible |-> FALSE],
       [step_id |-> 2, depends_on |-> 1, reversible |-> TRUE]>>,
     <<[step_id |-> 2, depends_on |-> 1, reversible |-> TRUE],
       [step_id |-> 2, depends_on |-> 0, reversible |-> TRUE],
       [step_id |-> 1, depends_on |-> 0, reversible |-> TRUE]>>}

OnlyShort == \A id \in DOMAIN transactions : transactions[id].steps \in ShortLists

MCNext ==
    \/ /\ focus \in {"insurance", "claiming"}
       /\ UNCHANGED <<accessVars, fundVars, priceVars, bridgeVars, stepVars, focus>>
       /\ \/ /\ (focus = "claiming" /\ changes > 0) => payoutQueue # <<>>
             /\ Insurance!Setup /\ Change
          \/ Insurance!Insuring /\ Move
          \/ Insurance!Tick /\ UNCHANGED counters
    \/ /\ focus = "portfolio" /\ UNCHANGED <<accessVars, insuranceVars, priceVars, bridgeVars, stepVars, focus>>
       /\ \/ (Funds!Creation \/ Funds!Forking \/ Funds!Governing) /\ Change
          \/ Funds!Investing /\ Move
    \/ /\ focus = "investing" /\ UNCHANGED <<accessVars, insuranceVars, priceVars, bridgeVars, stepVars, focus>>
       /\ \/ portfolios = <<>> /\ Funds!create_equal_weight("usd", <<"btc", "eth">>, "Monthly") /\ Change
          \/ Funds!Governing /\ Change
          \/ Funds!Investing /\ Move
          \/ Funds!Tick /\ UNCHANGED counters
    \/ /\ focus = "oracle" /\ UNCHANGED <<accessVars, insuranceVars, fundVars, bridgeVars, stepVars, focus>>
       /\ \/ Prices!Administering /\ Change
          \/ (Prices!Reporting \/ Prices!Asking) /\ Move
          \/ Prices!Tick /\ UNCHANGED counters
    \/ /\ focus = "quoting" /\ UNCHANGED <<accessVars, insuranceVars, fundVars, bridgeVars, stepVars, focus>>
       /\ \/ Opening(2)
          \/ changes > 2 /\ Prices!Administering /\ Change
          \/ (Prices!Reporting \/ Prices!Asking) /\ Move
          \/ feeds # <<>> /\ Prices!Tick /\ UNCHANGED counters
    \/ /\ focus = "panel" /\ UNCHANGED <<accessVars, insuranceVars, fundVars, bridgeVars, stepVars, focus>>
       /\ Opening(Len(Panel)) \/ Polling
    \/ /\ focus = "bridge" /\ UNCHANGED <<accessVars, insuranceVars, fundVars, priceVars, stepVars, focus>>
       /\ \/ Guarding /\ Change
          \/ Bridging /\ Move
          \/ BridgeTick /\ UNCHANGED counters
    \/ /\ focus = "steps"
       /\ UNCHANGED <<accessVars, insuranceVars, fundVars, priceVars, bridgeVars, focus>>
       /\ \/ \E l \in (IF changes = 0 THEN StepLists ELSE ShortLists) :
                OnlyShort /\ Steps!create_transaction(l) /\ Change
          \/ OnlyShort /\ Steps!initialize /\ UNCHANGED counters
          \/ \E id \in DOMAIN transactions : Steps!execute_transaction(id) /\ Move
          \/ changes > 0 /\ Steps!Tick /\ UNCHANGED counters
    \/ /\ focus = "roles"
       /\ UNCHANGED <<insuranceVars, fundVars, priceVars, bridgeVars, stepVars, focus, counters>>
       /\ RolesNext
    \/ Idle

MCSpec == MCInit /\ [][MCNext]_mcVars

\* Members, investors and senders share their names, and so do pools and tokens.
Symmetry == Permutations(Member) \cup Permutations(PoolId) \cup Permutations(Validator)

MovesOf ==
    [insurance |-> 5, claiming |-> 6, portfolio |-> 0, investing |-> 3, oracle |-> 1,
     quoting |-> 3, panel |-> 5, bridge |-> 3, steps |-> 2, roles |-> 0]
BridgeMoves == [bridge |-> 3]
ChangesOf ==
    [insurance |-> 2, claiming |-> 2, portfolio |-> 3, investing |-> 2, oracle |-> 3,
     quoting |-> 4, panel |-> 6, bridge |-> 3, steps |-> 2, roles |-> 0]

RiskAtFirst ==
    [base_rate_bps |-> 5, risk_multiplier |-> 10, max_coverage_limit |-> 20,
     min_coverage_limit |-> 2, timelock_period |-> 1]
RiskLater ==
    {[base_rate_bps |-> 2, risk_multiplier |-> 20, max_coverage_limit |-> 8,
      min_coverage_limit |-> 2, timelock_period |-> 0]}
TiersAtFirst ==
    [Basic |-> [deductible_bps |-> 2, max_payout_multiplier |-> 10, premium_multiplier_bps |-> 8]]

AssetLists == {<<"btc", "eth">>, <<"btc", "eth", "btc", "gold", "reit">>,
               <<"bond", "bond", "bond", "stock", "stock", "stock", "stock">>,
               <<"stock", "stock", "stock", "stock", "bond", "bond", "gold", "reit">>}
Weightings == {<<6000, 4000>>, <<6000, 4001>>}
NewBalances == {<<3, 1>>}
DividendPayments == {<<[token |-> "eth", amount |-> 1], [token |-> "doge", amount |-> 2]>>}
Intervals == [Monthly |-> 1, Quarterly |-> 3]

TiersLater == {[deductible_bps |-> 0, max_payout_multiplier |-> 12, premium_multiplier_bps |-> 15]}

Jury == <<"o1", "o2", "o3", "o4", "o5">>
OracleProviders == {<<Jury[1], Jury[2]>>}
Terms == {[min_update_interval |-> 1, max_staleness |-> 1, max_price_change_bps |-> 5,
           breaker |-> TRUE],
          [min_update_interval |-> 0, max_staleness |-> 1, max_price_change_bps |-> 5,
           breaker |-> FALSE]}
Tiers == [Free |-> 1, Unlimited |-> 99]
SubscriberLimit == [window_seconds |-> 1, max_queries |-> 2]
VisitorLimit == [window_seconds |-> 3, max_queries |-> 1]

TokenKinds == {[is_locked |-> TRUE, is_mintable |-> FALSE],
               [is_locked |-> FALSE, is_mintable |-> TRUE],
               [is_locked |-> FALSE, is_mintable |-> FALSE]}
BridgeFees == [basis_points |-> 5, min_fee |-> 1]
Volumes == [daily_limit |-> 6, monthly_limit |-> 9, per_transaction_max |-> 4,
            per_transaction_min |-> 2]

\* The workflows of the coordinator, steps listed before the one they depend on, and
\* the short lists.
Workflows ==
    {Lists!create_agent_sale_transaction, Lists!create_sale_transaction(FALSE),
     Lists!create_sale_transaction(TRUE), Lists!create_lease_transaction,
     Lists!create_evolution_transaction, Lists!create_simple_transfer_transaction,
     Lists!create_dependency_test_transaction,
     <<[step_id |-> 3, depends_on |-> 2, reversible |-> TRUE],
       [step_id |-> 1, depends_on |-> 0, reversible |-> TRUE],
       [step_id |-> 2, depends_on |-> 1, reversible |-> TRUE]>>} \cup ShortLists

-----------------------------------------------------------------------------
\* Insurance: the state is well typed, each pool's books add up to the contract's
\* tokens, the count of active policies is right until a policy is closed twice, and
\* a deposit or withdrawal of one underwriter takes nothing from the others.
InsuranceBooks ==
    /\ [](Insurance!TypeOK /\ Insurance!InsuranceLedger /\ Insurance!PolicyCount)
    /\ Insurance!UnderwritersNotDiluted

\* Portfolios: the state is well typed, weights and shares add up, the figures of
\* performance are those of the snapshots, one investor's call takes nothing from the
\* others, and a closed portfolio only pays out.
PortfolioBooks ==
    /\ [](Funds!TypeOK /\ Funds!PortfolioBooks /\ Funds!PerformanceIsExact)
    /\ [][Funds!InvestorsNotDiluted /\ Funds!ClosedOnlyPaysOut]_fundVars

\* Prices: the state is well typed, a feed whose breaker has tripped takes no price
\* before its time, one provider far off cannot move the answer of the others, and an
\* update is counted once.
OracleAnswers ==
    /\ [](Prices!TypeOK /\ Prices!BreakerHolds /\ Prices!AnswersAreRobust)
    /\ Prices!UpdatesCountedOnce

\* The coordinator: steps are carried out in the order of their dependencies, and an
\* execution leaves the effects of all of them or of none but those that name no
\* rollback.
AllOrNothing ==
    [](Steps!TypeOK /\ Steps!OrderFollowsDependencies) /\ Steps!AllOrNothing
=============================================================================
