---------------------------- MODULE PortfolioManager ----------------------------
(***************************************************************************)
(* contracts/portfolio-manager: portfolios of weighted assets whose        *)
(* investors hold shares of the assets under management.  Deposits and     *)
(* withdrawals move the deposit token; rebalances, position updates and    *)
(* dividends only change the books.  The administrator may call at any     *)
(* time.  Creators, names and what is only reported (Sharpe ratio and      *)
(* yearly returns of a snapshot) are left out.  claim_dividends pays what  *)
(* no call ever credits, so every call to it panics and it is no action.   *)
(***************************************************************************)
EXTENDS Storage, SequencesExt

CONSTANTS
    Investor, DepositToken,
    TokenLists, WeightLists,   \* tokens and weights of a portfolio's assets, as given in a call
    BalanceLists,              \* new_asset_balances of a rebalance
    DividendLists,             \* dividend_amounts: sequences of [token, amount]
    InvestedSum, Swapped,      \* amounts deposited or redeemed, and swapped by a rebalance
    Quote,                     \* prices an administrator may set
    ToleranceBps,              \* drift tolerances and slippage limits that may be set
    IntervalSeconds,           \* seconds of the rebalance frequencies that are chosen
    BASIS, PRECISION_FACTOR,   \* BPS_DENOMINATOR, PRECISION_FACTOR
    MAX_ASSETS, DRIFT_TOLERANCE_BPS, MAX_REBALANCE_SLIPPAGE_BPS,
    MaxPortfolios, PortfolioTime   \* bounds

VARIABLES
    pmPaused, portfolios,      \* Paused, Portfolio(id)
    assetPositions,            \* AssetPosition(id, index)
    userPositions,             \* UserPosition(user, id)
    accumulators,              \* PerformanceAccumulator(id)
    rebalances, dividends, snapshots,   \* RebalanceRecord, DividendRecord and
                                        \* PerformanceSnapshot of each portfolio
    pmTokens,                  \* external: the contract's balances
    pmNow                      \* external: the ledger time

books == <<portfolios, assetPositions, userPositions>>
journals == <<accumulators, rebalances, dividends, snapshots>>
portfolioVars == <<pmPaused, books, journals, pmTokens, pmNow>>

RebalanceFrequency == {"Monthly", "Quarterly", "SemiAnnual", "Annual"}
AssetAllocation == [token : UNION {ToSet(l) : l \in TokenLists}, weight_bps : 0..BASIS]
Portfolio ==
    [status : {"Active", "Paused", "Closed"}, target_weights : Seq(AssetAllocation),
     deposit_token : DepositToken, total_assets : Int, total_supply : Int,
     accumulated_dividends : Nat, rebalance_frequency : RebalanceFrequency,
     drift_tolerance_bps : Nat, max_slippage_bps : Nat,
     last_rebalance_time : Nat, created_at : Nat]
AssetPosition ==
    [token : UNION {ToSet(l) : l \in TokenLists}, balance : Nat, target_weight_bps : Nat,
     current_weight_bps : Nat, last_price : Nat]
UserPosition == [shares : Int, total_deposited : Nat, total_withdrawn : Nat]

-----------------------------------------------------------------------------
\* i128 division by a number of either sign.
Divided(n, d) == IF d < 0 THEN Quot(-n, -d) ELSE Quot(n, d)

WeightOf(allocations) == FoldSeq(LAMBDA a, sum : a.weight_bps + sum, 0, allocations)

validate_weights(allocations) == WeightOf(allocations) = BASIS

\* Tokens paired with weights, position by position.
allocate(tokens, weights) ==
    [i \in DOMAIN tokens |-> [token |-> tokens[i], weight_bps |-> weights[i]]]

\* The last basis points go one each to the first tokens.
equal_weights(n) ==
    LET base == BASIS \div n
        remainder == BASIS - base * n
    IN  [i \in 1..n |-> base + IF i - 1 < remainder THEN 1 ELSE 0]

equal_weight_allocations(tokens) == allocate(tokens, equal_weights(Len(tokens)))

conservative_template ==
    [weights |-> <<2000, 2000, 2000, 1500, 1000, 1000, 500>>,
     frequency |-> "Quarterly", drift |-> 200, slippage |-> 300]
balanced_template ==
    [weights |-> <<2000, 1000, 1000, 1000, 1500, 1500, 1000, 1000>>,
     frequency |-> "Quarterly", drift |-> 200, slippage |-> 400]
aggressive_template ==
    [weights |-> <<3000, 2000, 1500, 1500, 1000, 500, 500>>,
     frequency |-> "Monthly", drift |-> 150, slippage |-> 500]
thematic_template ==
    [weights |-> <<3000, 2500, 1500, 1500, 1500>>,
     frequency |-> "Monthly", drift |-> 300, slippage |-> 800]

get_template ==
    [Conservative |-> conservative_template, Balanced |-> balanced_template,
     Aggressive |-> aggressive_template, Thematic |-> thematic_template]

-----------------------------------------------------------------------------
Init ==
    /\ pmPaused = FALSE /\ portfolios = <<>> /\ assetPositions = <<>>
    /\ userPositions = EmptyMap /\ accumulators = <<>>
    /\ rebalances = <<>> /\ dividends = <<>> /\ snapshots = <<>>
    /\ pmTokens = [t \in DepositToken |-> 0] /\ pmNow = 0

create_portfolio_inner(deposit_token, allocations, frequency, drift, slippage) ==
    /\ Len(portfolios) < MaxPortfolios
    /\ portfolios' = Append(portfolios,
          [status |-> "Active", target_weights |-> allocations, deposit_token |-> deposit_token,
           total_assets |-> 0, total_supply |-> 0, accumulated_dividends |-> 0,
           rebalance_frequency |-> frequency, drift_tolerance_bps |-> drift,
           max_slippage_bps |-> slippage, last_rebalance_time |-> pmNow, created_at |-> pmNow])
    /\ assetPositions' = Append(assetPositions,
          [i \in DOMAIN allocations |->
              [token |-> allocations[i].token, balance |-> 0,
               target_weight_bps |-> allocations[i].weight_bps, current_weight_bps |-> 0,
               last_price |-> PRECISION_FACTOR]])
    /\ accumulators' = Append(accumulators,
          [return_sum |-> 0, return_squared_sum |-> 0, observation_count |-> 0,
           previous_nav |-> PRECISION_FACTOR, peak_nav |-> PRECISION_FACTOR,
           max_drawdown_bps |-> 0])
    /\ rebalances' = Append(rebalances, <<>>)
    /\ dividends' = Append(dividends, <<>>)
    /\ snapshots' = Append(snapshots, <<>>)
    /\ UNCHANGED <<pmPaused, userPositions, pmTokens, pmNow>>

\* template_to_allocations wants as many tokens as the template has slots.
create_from_template(type, token, tokens) ==
    LET template == get_template[type]
    IN  /\ ~pmPaused
        /\ Len(tokens) <= MAX_ASSETS
        /\ Len(tokens) = Len(template.weights)
        /\ create_portfolio_inner(token, allocate(tokens, template.weights),
                                  template.frequency, template.drift, template.slippage)

\* limits: the drift tolerance and the slippage limit, or their defaults.
create_custom(token, tokens, weights, frequency, limits) ==
    /\ ~pmPaused
    /\ Len(tokens) = Len(weights) /\ Len(tokens) <= MAX_ASSETS
    /\ validate_weights(allocate(tokens, weights))
    /\ create_portfolio_inner(token, allocate(tokens, weights), frequency, limits[1], limits[2])

create_equal_weight(token, tokens, frequency) ==
    /\ ~pmPaused
    /\ Len(tokens) \in 1..MAX_ASSETS
    /\ create_portfolio_inner(token, equal_weight_allocations(tokens), frequency,
                              DRIFT_TOLERANCE_BPS, MAX_REBALANCE_SLIPPAGE_BPS)

TokensOf(id) == [i \in DOMAIN portfolios[id].target_weights |->
                    portfolios[id].target_weights[i].token]

\* Of any portfolio that is not closed, also while the contract is paused.  With
\* weights of its own the fork still names the same tokens in the same order.
fork_portfolio(id, allocations, frequency) ==
    LET source == portfolios[id]
    IN  /\ source.status # "Closed"
        /\ \/ allocations = source.target_weights
           \/ validate_weights(allocations)
        /\ create_portfolio_inner(source.deposit_token, allocations, frequency,
                                  source.drift_tolerance_bps, source.max_slippage_bps)

-----------------------------------------------------------------------------
\* Shares for a deposit.
\* A share is minted for every unit deposited.
calculate_shares_for_deposit_Mut(amount, assets, supply) == amount
calculate_shares_for_deposit(amount, assets, supply) ==
    IF supply = 0 THEN amount ELSE Divided(amount * supply, assets)

calculate_assets_for_withdrawal(shares, assets, supply) == Quot(shares * assets, supply)

NewPosition == [shares |-> 0, total_deposited |-> 0, total_withdrawn |-> 0]

\* A portfolio with shares and no assets divides by zero, and the call panics.
deposit(u, id, amount) ==
    LET p == portfolios[id]
        shares == calculate_shares_for_deposit(amount, p.total_assets, p.total_supply)
        pos == GetOr(userPositions, <<u, id>>, NewPosition)
    IN  /\ p.status = "Active"
        /\ amount > 0
        /\ p.total_supply # 0 => p.total_assets # 0
        /\ pmTokens' = [pmTokens EXCEPT ![p.deposit_token] = @ + amount]
        /\ portfolios' = [portfolios EXCEPT ![id].total_assets = @ + amount,
                                            ![id].total_supply = @ + shares]
        /\ userPositions' = Put(userPositions, <<u, id>>,
              [pos EXCEPT !.shares = @ + shares, !.total_deposited = @ + amount])
        /\ UNCHANGED <<pmPaused, assetPositions, journals, pmNow>>

\* In any state of the portfolio; the token contract pays what the contract holds.
withdraw(u, id, shares) ==
    LET p == portfolios[id]
        assets == calculate_assets_for_withdrawal(shares, p.total_assets, p.total_supply)
    IN  /\ <<u, id>> \in DOMAIN userPositions
        /\ shares > 0 /\ shares <= userPositions[<<u, id>>].shares
        /\ p.total_supply > 0
        /\ 0 <= assets /\ assets <= pmTokens[p.deposit_token]
        /\ portfolios' = [portfolios EXCEPT ![id].total_assets = @ - assets,
                                            ![id].total_supply = @ - shares]
        /\ userPositions' = [userPositions EXCEPT ![<<u, id>>].shares = @ - shares,
                                                  ![<<u, id>>].total_withdrawn = @ + assets]
        /\ pmTokens' = [pmTokens EXCEPT ![p.deposit_token] = @ - assets]
        /\ UNCHANGED <<pmPaused, assetPositions, journals, pmNow>>

-----------------------------------------------------------------------------
rebalance_interval_seconds(id) == IntervalSeconds[portfolios[id].rebalance_frequency]

\* The interval since the last rebalance has passed.
due(id) == pmNow >= portfolios[id].last_rebalance_time + rebalance_interval_seconds(id)

ValueOf(balance, price) == Quot(balance * price, PRECISION_FACTOR)

\* The share of `assets` that a value is, zero when there are none.
weight_in(value, assets) == IF assets > 0 THEN Quot(value * BASIS, assets) ELSE 0

\* The weights of the new balances are taken in the assets before the rebalance.
\* `forced` says that the administrator calls, who need not wait.
rebalance(id, forced, swapped, balances) ==
    LET p == portfolios[id]
        before == assetPositions[id]
        values == [i \in DOMAIN before |-> ValueOf(balances[i], before[i].last_price)]
        after == FoldSeq(LAMBDA v, sum : v + sum, 0, values)
        slippage == weight_in(swapped, p.total_assets)
    IN  /\ p.status = "Active" /\ ~pmPaused
        /\ due(id) \/ forced
        /\ Len(balances) = Len(p.target_weights)
        /\ slippage <= p.max_slippage_bps
        /\ assetPositions' = [assetPositions EXCEPT ![id] =
              [i \in DOMAIN before |->
                  [before[i] EXCEPT !.balance = balances[i],
                                    !.current_weight_bps = weight_in(values[i], p.total_assets)]]]
        /\ portfolios' = [portfolios EXCEPT ![id].total_assets = after,
                                            ![id].last_rebalance_time = pmNow]
        /\ rebalances' = [rebalances EXCEPT ![id] = Append(@,
              [timestamp |-> pmNow, slippage_bps |-> slippage,
               trigger |-> IF due(id) THEN "TimeBased" ELSE "GovernanceForced",
               nav_before |-> p.total_assets, nav_after |-> after])]
        /\ UNCHANGED <<pmPaused, userPositions, accumulators, dividends, snapshots,
                       pmTokens, pmNow>>

max_drift(id, balances) ==
    LET held == assetPositions[id]
        values == [i \in DOMAIN held |-> ValueOf(balances[i], held[i].last_price)]
        total == FoldSeq(LAMBDA v, sum : v + sum, 0, values)
        drifts == {LET gap == held[i].target_weight_bps - weight_in(values[i], total)
                   IN  IF gap < 0 THEN -gap ELSE gap : i \in DOMAIN held}
    IN  IF total <= 0 THEN 0 ELSE Max(drifts)

\* Drift alone lets only the administrator rebalance: rebalance still asks for the
\* interval.
check_and_rebalance(id, forced, swapped, balances) ==
    /\ Len(balances) = Len(assetPositions[id])
    /\ due(id) \/ max_drift(id, balances) > portfolios[id].drift_tolerance_bps
    /\ rebalance(id, forced, swapped, balances)

update_asset_position(id, i, balance, price) ==
    LET pos == assetPositions[id][i]
        value == ValueOf(balance, price)
    IN  /\ assetPositions' = [assetPositions EXCEPT ![id][i] =
              [@ EXCEPT !.balance = balance, !.last_price = price,
                        !.current_weight_bps = weight_in(value, portfolios[id].total_assets)]]
        /\ portfolios' = [portfolios EXCEPT ![id].total_assets =
              @ + value - ValueOf(pos.balance, pos.last_price)]
        /\ UNCHANGED <<pmPaused, userPositions, journals, pmTokens, pmNow>>

\* The first position of a token.
IsFirst(positions, i, token) ==
    positions[i].token = token /\ \A j \in 1..(i - 1) : positions[j].token # token

\* An amount of a token that the portfolio does not hold is ignored.
collect_dividends(id, amounts) ==
    LET held == assetPositions[id]
        paid(i) == SumOver(LAMBDA k : amounts[k].amount,
                           {k \in DOMAIN amounts : IsFirst(held, i, amounts[k].token)})
        total == SumOver(paid, DOMAIN held)
    IN  /\ portfolios[id].status = "Active"
        /\ assetPositions' = [assetPositions EXCEPT ![id] =
              [i \in DOMAIN held |-> [held[i] EXCEPT !.balance = @ + paid(i)]]]
        /\ portfolios' = [portfolios EXCEPT ![id].total_assets = @ + total,
                                            ![id].accumulated_dividends = @ + total]
        /\ dividends' = [dividends EXCEPT ![id] = Append(@, total)]
        /\ UNCHANGED <<pmPaused, userPositions, accumulators, rebalances, snapshots,
                       pmTokens, pmNow>>

nav_per_share(p) ==
    IF p.total_supply > 0 THEN Quot(p.total_assets * PRECISION_FACTOR, p.total_supply)
    ELSE PRECISION_FACTOR

periodic_return(previous, nav) ==
    IF previous > 0 THEN Quot((nav - previous) * PRECISION_FACTOR, previous) ELSE 0

drawdown(peak, nav) == Quot((peak - nav) * BASIS, peak)

\* The accumulator after an observation.
observed(acc, nav) ==
    LET r == periodic_return(acc.previous_nav, nav)
        peak == Max({acc.peak_nav, nav})
    IN  [return_sum |-> acc.return_sum + r,
         return_squared_sum |-> acc.return_squared_sum + Quot(r * r, PRECISION_FACTOR),
         observation_count |-> acc.observation_count + 1, previous_nav |-> nav, peak_nav |-> peak,
         max_drawdown_bps |-> Max({acc.max_drawdown_bps, drawdown(peak, nav)})]

\* For anyone to call.
record_performance_snapshot(id) ==
    LET nav == nav_per_share(portfolios[id])
        acc == observed(accumulators[id], nav)
    IN  /\ accumulators' = [accumulators EXCEPT ![id] = acc]
        /\ snapshots' = [snapshots EXCEPT ![id] = Append(@,
              [nav_per_share |-> nav, max_drawdown_bps |-> acc.max_drawdown_bps,
               peak_nav |-> acc.peak_nav])]
        /\ UNCHANGED <<pmPaused, books, rebalances, dividends, pmTokens, pmNow>>

-----------------------------------------------------------------------------
Settle(id, p) ==
    /\ portfolios' = [portfolios EXCEPT ![id] = p]
    /\ UNCHANGED <<pmPaused, assetPositions, userPositions, journals, pmTokens, pmNow>>

set_drift_tolerance(id, bps) == Settle(id, [portfolios[id] EXCEPT !.drift_tolerance_bps = bps])

set_rebalance_frequency(id, f) == Settle(id, [portfolios[id] EXCEPT !.rebalance_frequency = f])

set_max_slippage(id, bps) == Settle(id, [portfolios[id] EXCEPT !.max_slippage_bps = bps])

\* Without assets the current weights stay as they were.
set_target_weights(id, weights) ==
    LET allocations == allocate(TokensOf(id), weights)
        assets == portfolios[id].total_assets
    IN  /\ Len(weights) = Len(portfolios[id].target_weights)
        /\ validate_weights(allocations)
        /\ portfolios' = [portfolios EXCEPT ![id].target_weights = allocations]
        /\ assetPositions' = [assetPositions EXCEPT ![id] =
              [i \in DOMAIN @ |->
                  [@[i] EXCEPT !.target_weight_bps = weights[i],
                               !.current_weight_bps =
                                   IF assets > 0
                                   THEN weight_in(ValueOf(assetPositions[id][i].balance,
                                                          assetPositions[id][i].last_price), assets)
                                   ELSE @]]]
        /\ UNCHANGED <<pmPaused, userPositions, journals, pmTokens, pmNow>>

pause_portfolio(id) ==
    portfolios[id].status = "Active" /\ Settle(id, [portfolios[id] EXCEPT !.status = "Paused"])

\* A paused portfolio, and no other, becomes active again.
resumable(p) == p.status = "Paused"

unpause_portfolio(id) ==
    resumable(portfolios[id]) /\ Settle(id, [portfolios[id] EXCEPT !.status = "Active"])

close_portfolio(id) ==
    portfolios[id].status # "Closed" /\ Settle(id, [portfolios[id] EXCEPT !.status = "Closed"])

\* pause and unpause
set_paused(flag) ==
    /\ pmPaused' = flag
    /\ UNCHANGED <<books, journals, pmTokens, pmNow>>

Creation ==
    \E t \in DepositToken, tokens \in TokenLists :
        \/ \E type \in DOMAIN get_template : create_from_template(type, t, tokens)
        \/ \E f \in DOMAIN IntervalSeconds :
              \/ create_equal_weight(t, tokens, f)
              \/ \E weights \in WeightLists,
                    limits \in (ToleranceBps \X ToleranceBps)
                               \cup {<<DRIFT_TOLERANCE_BPS, MAX_REBALANCE_SLIPPAGE_BPS>>} :
                    create_custom(t, tokens, weights, f, limits)

Forking ==
    \E id \in DOMAIN portfolios, f \in DOMAIN IntervalSeconds :
        \/ fork_portfolio(id, portfolios[id].target_weights, f)
        \/ \E weights \in WeightLists :
              /\ Len(weights) = Len(portfolios[id].target_weights)
              /\ fork_portfolio(id, allocate(TokensOf(id), weights), f)

Governing ==
    \/ \E id \in DOMAIN portfolios :
          \/ \E bps \in ToleranceBps : set_drift_tolerance(id, bps) \/ set_max_slippage(id, bps)
          \/ \E f \in DOMAIN IntervalSeconds : set_rebalance_frequency(id, f)
          \/ \E weights \in WeightLists : set_target_weights(id, weights)
          \/ pause_portfolio(id) \/ unpause_portfolio(id) \/ close_portfolio(id)
    \/ \E flag \in BOOLEAN : set_paused(flag)

Investing ==
    \E id \in DOMAIN portfolios :
        \/ \E u \in Investor, a \in InvestedSum : deposit(u, id, a) \/ withdraw(u, id, a)
        \/ record_performance_snapshot(id)
        \/ \E amounts \in DividendLists : collect_dividends(id, amounts)
        \/ \E forced \in BOOLEAN, s \in Swapped, b \in BalanceLists :
              rebalance(id, forced, s, b) \/ check_and_rebalance(id, forced, s, b)
        \/ \E i \in DOMAIN assetPositions[id], a \in InvestedSum, price \in Quote :
              update_asset_position(id, i, a, price)

\* The ledger's clock.
Tick ==
    /\ pmNow < PortfolioTime
    /\ pmNow' = pmNow + 1
    /\ UNCHANGED <<pmPaused, books, journals, pmTokens>>

Next == Creation \/ Forking \/ Governing \/ Investing \/ Tick

Spec == Init /\ [][Next]_portfolioVars

-----------------------------------------------------------------------------
SumOf(seq) == FoldSeq(LAMBDA v, sum : v + sum, 0, seq)

\* Every variable has its type.
TypeOK ==
    /\ pmPaused \in BOOLEAN /\ pmTokens \in [DepositToken -> Nat]
    /\ \A id \in DOMAIN portfolios :
          /\ portfolios[id] \in Portfolio
          /\ \A i \in DOMAIN assetPositions[id] : assetPositions[id][i] \in AssetPosition
    /\ \A k \in DOMAIN userPositions : userPositions[k] \in UserPosition

\* Whatever way a portfolio came about, by template, by hand, in equal parts or as
\* a fork, and however its weights are changed, they sum to the whole and are those
\* of its positions.  Its shares are its investors', its accumulated dividends those
\* of its records, and between two rebalances not forced by the administrator passes
\* the shortest interval at least.
PortfolioBooks ==
    \A id \in DOMAIN portfolios :
        LET p == portfolios[id]
            held == assetPositions[id]
            past == rebalances[id]
        IN  /\ WeightOf(p.target_weights) = BASIS
            /\ Len(held) = Len(p.target_weights)
            /\ \A i \in DOMAIN held :
                  /\ held[i].token = p.target_weights[i].token
                  /\ held[i].target_weight_bps = p.target_weights[i].weight_bps
            /\ p.total_supply =
                  SumOver(LAMBDA u : GetOr(userPositions, <<u, id>>, NewPosition).shares, Investor)
            /\ p.accumulated_dividends = SumOf(dividends[id])
            /\ \A k \in DOMAIN past : past[k].trigger = "TimeBased" =>
                  past[k].timestamp - (IF k = 1 THEN p.created_at ELSE past[k - 1].timestamp)
                      >= Min(Range(IntervalSeconds))

\* The running figures of the accumulator are what a reader of the stored snapshots
\* computes: the peak is the highest value seen, and the largest drawdown that from
\* the highest value before each snapshot.
PerformanceIsExact ==
    \A id \in DOMAIN portfolios :
        LET acc == accumulators[id]
            navs == <<PRECISION_FACTOR>> \o [k \in DOMAIN snapshots[id] |->
                                                snapshots[id][k].nav_per_share]
            best(k) == Max({navs[j] : j \in 1..k})
        IN  /\ acc.observation_count = Len(snapshots[id])
            /\ acc.previous_nav = navs[Len(navs)]
            /\ acc.peak_nav = best(Len(navs))
            /\ acc.max_drawdown_bps = Max({drawdown(best(k), navs[k]) : k \in DOMAIN navs})
            /\ acc.return_sum = SumOver(LAMBDA k : periodic_return(navs[k - 1], navs[k]),
                                        2..Len(navs))

\* Rounding favours the investors who stay: with the positions as they are, no
\* deposit and no withdrawal makes a share of a portfolio with assets worth less.
InvestorsNotDiluted ==
    \A id \in DOMAIN portfolios :
        portfolios[id].total_assets > 0 /\ portfolios[id].total_supply > 0
        /\ portfolios'[id].total_supply > 0
        /\ UNCHANGED <<assetPositions, journals>>
        => portfolios'[id].total_assets * portfolios[id].total_supply
               >= portfolios[id].total_assets * portfolios'[id].total_supply

\* close_portfolio: "cannot be reopened".  A closed portfolio stays closed, and its
\* shares are only redeemed.
ClosedOnlyPaysOut ==
    \A id \in DOMAIN portfolios : portfolios[id].status = "Closed" =>
        /\ portfolios'[id].status = "Closed"
        /\ portfolios'[id].total_supply <= portfolios[id].total_supply
        /\ rebalances'[id] = rebalances[id]
=============================================================================
