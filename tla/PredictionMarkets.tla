--------------------------- MODULE PredictionMarkets ---------------------------
(***************************************************************************)
(* contracts/prediction-markets: markets on a question with a constant     *)
(* product pool per outcome, liquidity shares, an order book, resolution   *)
(* by an oracle, disputes and redemption.  The administrator, a market's   *)
(* creator and its oracle may call at any time; slippage limits only       *)
(* reject calls.  The positions that trades record (entry price, profit)   *)
(* are reports no call depends on.                                         *)
(*                                                                         *)
(* Markets can be created before initialize, which sets their counter back *)
(* to zero.  A market that is then created under a number in use takes the *)
(* place of the other but finds its orders, disputes, holdings and shares, *)
(* and the pools of outcomes that it does not have itself.                 *)
(***************************************************************************)
EXTENDS Storage, SequencesExt

CONSTANTS
    Trader,
    Coin,              \* tokens a market may have as collateral
    Params,            \* the markets that may be created
    Amount,            \* amounts of collateral, tokens and shares in a call
    Price, Quantity,   \* limits of an order
    Stake,             \* stakes of a dispute
    BPS_DENOMINATOR,   \* 10000
    DECIMAL_FACTOR,    \* 10^18: the scale of a price
    MaxMarkets, MaxOrders, MaxDisputes, MarketTime    \* bounds

VARIABLES
    pmReady, pmCounter, pmPaused,   \* Admin is set, MarketCounter, TradingPaused
    pmCollector,                    \* GovernanceCollector is set
    markets,                        \* Market(m)
    pools, supply,                  \* OutcomePool(m, i), TotalOutcomeSupply(m, i)
    holdings,                       \* OutcomeBalance(m, i, u)
    collateral,                     \* MarketCollateral(m)
    lpShares, lpTotal,              \* LpShares(m, u), LpTotalSupply(m)
    orders, disputes,               \* Order(m, n), Dispute(m, n): number n is at n + 1
    votes,                          \* keys of DisputeVote(m, n, u)
    inherited,                      \* history: refunds and stakes of replaced markets that
                                    \* are now owed in another token
    stale,                          \* history: pools left by a replaced market m
    pmTokens,                       \* external: the contract's balance in each token
    pmNow                           \* external: the ledger time

pmConfig == <<pmReady, pmCounter, pmPaused, pmCollector>>
book == <<orders, disputes, votes>>
liquidity == <<lpShares, lpTotal>>
replacements == <<inherited, stale>>
pmStore ==
    <<pmConfig, markets, pools, supply, holdings, collateral, liquidity, book, replacements,
      pmTokens>>
pmVars == <<pmStore, pmNow>>

-----------------------------------------------------------------------------
\* i128 division by a divisor of any sign but zero.
Div(n, d) == IF d > 0 THEN Quot(n, d) ELSE Quot(-n, -d)

isqrt(n) == CHOOSE r \in 0..n : r * r <= n /\ n < (r + 1) * (r + 1)

after_fee(amount, fee) == Quot(amount * (BPS_DENOMINATOR - fee), BPS_DENOMINATOR)

\* Zero, which the caller rejects, when the pool cannot trade.
calculate_buy_amount(c, pool, fee) ==
    LET net == after_fee(c, fee)
    IN  IF pool.collateral <= 0 \/ pool.outcome <= 0 \/ net <= 0 THEN 0
        ELSE Quot(pool.outcome * net, pool.collateral + net)

calculate_sell_amount(n, pool, fee) ==
    IF pool.collateral <= 0 \/ pool.outcome <= 0 \/ n >= pool.outcome THEN 0
    ELSE after_fee(pool.collateral
                      - Quot(pool.collateral * pool.outcome, pool.outcome + n), fee)

calculate_lp_shares_add(c, n, pool) ==
    IF pool.lp = 0 THEN isqrt(c * n)
    ELSE LET share_c == Div(c * pool.lp, pool.collateral)
             share_o == Div(n * pool.lp, pool.outcome)
         IN  IF share_c < share_o THEN share_c ELSE share_o

\* set_outcome_balance, set_lp_shares: what is not positive is removed.
set_balance(map, key, amount) == IF amount <= 0 THEN Drop(map, key) ELSE Put(map, key, amount)

Credit(map, key, amount) == set_balance(map, key, GetOr(map, key, 0) + amount)

\* A transfer out of the contract, in a market's collateral token, that the token
\* contract accepts; and one into it.
Pays(m, amount) ==
    /\ 0 <= amount /\ amount <= pmTokens[markets[m].coin]
    /\ pmTokens' = [pmTokens EXCEPT ![markets[m].coin] = @ - amount]

Takes(coin, amount) == pmTokens' = [pmTokens EXCEPT ![coin] = @ + amount]

-----------------------------------------------------------------------------
Init ==
    /\ pmReady = FALSE /\ pmCounter = 0 /\ pmPaused = FALSE /\ pmCollector = FALSE
    /\ markets = EmptyMap /\ pools = EmptyMap /\ supply = EmptyMap
    /\ holdings = EmptyMap /\ collateral = EmptyMap
    /\ lpShares = EmptyMap /\ lpTotal = EmptyMap
    /\ orders = EmptyMap /\ disputes = EmptyMap /\ votes = {}
    /\ inherited = [coin \in Coin |-> 0] /\ stale = EmptyMap
    /\ pmTokens = [coin \in Coin |-> 0] /\ pmNow = 0

initialize ==
    /\ ~pmReady
    /\ pmReady' = TRUE /\ pmCounter' = 0 /\ pmPaused' = FALSE
    /\ UNCHANGED <<pmCollector, markets, pools, supply, holdings, collateral, liquidity, book,
                   replacements, pmTokens, pmNow>>

cost(price, quantity) == Quot(price * quantity, DECIMAL_FACTOR)

undecided(d) == d.status \in {"open", "voted"}

\* What the open buy orders and the undecided disputes of a market may ask for.
Refund(o) ==
    IF o.side = "buy" /\ o.status = "open" THEN cost(o.price, o.quantity - o.filled) ELSE 0
Held(d) == IF undecided(d) THEN d.stake ELSE 0
Pledged(m) ==
    SumOver(LAMBDA n : Refund(orders[m][n]), DOMAIN orders[m])
      + SumOver(LAMBDA n : Held(disputes[m][n]), DOMAIN disputes[m])

create_market(p) ==
    LET m == pmCounter
        outcomes == 0..(p.outcomes - 1)
        total == p.liquidity * p.outcomes
        new == {<<m, i>> : i \in outcomes}
        left == {k \in DOMAIN pools : k[1] = m} \ new
        Fresh(map, value) == [k \in DOMAIN map \cup new |-> IF k \in new THEN value ELSE map[k]]
    IN  /\ m < MaxMarkets
        /\ markets' = Put(markets, m, [status |-> "active", end |-> pmNow + p.window,
                            resolved |-> {}, outcomes |-> p.outcomes, cap |-> p.cap,
                            fee |-> p.fee, coin |-> p.coin])
        /\ pmCounter' = m + 1
        /\ pools' = Fresh(pools, [collateral |-> p.liquidity, outcome |-> p.liquidity,
                            lp |-> isqrt(p.liquidity * p.liquidity)])
        /\ supply' = Fresh(supply, 0)
        /\ collateral' = Put(collateral, m, total)
        /\ lpTotal' = Put(lpTotal, m, isqrt(p.liquidity * p.liquidity) * p.outcomes)
        /\ orders' = Put(orders, m, GetOr(orders, m, <<>>))
        /\ disputes' = Put(disputes, m, GetOr(disputes, m, <<>>))
        /\ stale' = Put(stale, m, [collateral |-> SumOver(LAMBDA k : pools[k].collateral, left),
                                   lp |-> SumOver(LAMBDA k : pools[k].lp, left)])
        /\ inherited' = IF m \in DOMAIN markets /\ markets[m].coin # p.coin
                        THEN [inherited EXCEPT ![p.coin] = @ + Pledged(m)] ELSE inherited
        /\ Takes(p.coin, total)
        /\ UNCHANGED <<pmReady, pmPaused, pmCollector, holdings, lpShares, votes, pmNow>>

\* An outcome index of the market, which may have the pools of others.
Valid(m, i) == i < markets[m].outcomes

\* Called by the market's oracle or the default one; also when disputed or closed.
resolve_market(m, outcome) ==
    /\ markets[m].status # "resolved"
    /\ pmNow > markets[m].end
    /\ Valid(m, outcome)
    /\ markets' = [markets EXCEPT ![m].status = "resolved", ![m].resolved = {outcome}]
    /\ UNCHANGED <<pmConfig, pools, supply, holdings, collateral, liquidity, book, replacements,
                   pmTokens, pmNow>>

close_market_early(m) ==
    /\ markets[m].status = "active"
    /\ markets' = [markets EXCEPT ![m].status = "closed"]
    /\ UNCHANGED <<pmConfig, pools, supply, holdings, collateral, liquidity, book, replacements,
                   pmTokens, pmNow>>

assert_trading_active(m) == ~pmPaused /\ markets[m].status = "active"

-----------------------------------------------------------------------------
buy_outcome(u, m, i, c) ==
    LET pool == pools[<<m, i>>]
        out == calculate_buy_amount(c, pool, markets[m].fee)
    IN  /\ assert_trading_active(m)
        /\ Valid(m, i)
        /\ out > 0
        /\ supply[<<m, i>>] + out <= markets[m].cap
        /\ pools' = [pools EXCEPT ![<<m, i>>].collateral = @ + after_fee(c, markets[m].fee),
                                  ![<<m, i>>].outcome = @ - out]
        /\ holdings' = Credit(holdings, <<m, i, u>>, out)
        /\ supply' = [supply EXCEPT ![<<m, i>>] = @ + out]
        /\ collateral' = [collateral EXCEPT ![m] = @ + c]
        /\ Takes(markets[m].coin, c)
        /\ UNCHANGED <<pmConfig, markets, liquidity, book, replacements, pmNow>>

sell_outcome(u, m, i, n) ==
    LET out == calculate_sell_amount(n, pools[<<m, i>>], markets[m].fee)
    IN  /\ assert_trading_active(m)
        /\ Valid(m, i)
        /\ n <= GetOr(holdings, <<m, i, u>>, 0)
        /\ out > 0
        /\ pools' = [pools EXCEPT ![<<m, i>>].collateral = @ - out, ![<<m, i>>].outcome = @ + n]
        /\ holdings' = Credit(holdings, <<m, i, u>>, -n)
        /\ Pays(m, out)
        /\ collateral' = [collateral EXCEPT ![m] = @ - out]
        /\ supply' = [supply EXCEPT ![<<m, i>>] = @ - n]
        /\ UNCHANGED <<pmConfig, markets, liquidity, book, replacements, pmNow>>

\* Trading may be paused; no tokens of the outcome are taken from the provider.
add_liquidity(u, m, i, c, n) ==
    LET pool == pools[<<m, i>>]
        shares == calculate_lp_shares_add(c, n, pool)
    IN  /\ markets[m].status = "active"
        /\ Valid(m, i)
        /\ pool.lp = 0 \/ (pool.collateral # 0 /\ pool.outcome # 0)
        /\ shares > 0
        /\ pools' = [pools EXCEPT ![<<m, i>>] = [collateral |-> pool.collateral + c,
                            outcome |-> pool.outcome + n, lp |-> pool.lp + shares]]
        /\ lpShares' = Credit(lpShares, <<m, u>>, shares)
        /\ lpTotal' = [lpTotal EXCEPT ![m] = @ + shares]
        /\ collateral' = [collateral EXCEPT ![m] = @ + c]
        /\ Takes(markets[m].coin, c)
        /\ UNCHANGED <<pmConfig, markets, supply, holdings, book, replacements, pmNow>>

\* In any state of the market, from any of its pools, those of a replaced market too.
remove_liquidity(u, m, i, shares) ==
    LET pool == pools[<<m, i>>]
        c == Quot(shares * pool.collateral, pool.lp)
        n == Quot(shares * pool.outcome, pool.lp)
    IN  /\ shares <= GetOr(lpShares, <<m, u>>, 0)
        /\ pool.lp > 0
        /\ Pays(m, c)
        /\ pools' = [pools EXCEPT ![<<m, i>>] = [collateral |-> pool.collateral - c,
                            outcome |-> pool.outcome - n, lp |-> pool.lp - shares]]
        /\ lpShares' = Credit(lpShares, <<m, u>>, -shares)
        /\ lpTotal' = [lpTotal EXCEPT ![m] = @ - shares]
        /\ holdings' = Credit(holdings, <<m, i, u>>, n)
        /\ collateral' = [collateral EXCEPT ![m] = @ - c]
        /\ UNCHANGED <<pmConfig, markets, supply, book, replacements, pmNow>>

-----------------------------------------------------------------------------
\* A buy order locks its cost; a sell order only needs the tokens now.
place_order(u, m, i, side, price, quantity) ==
    /\ assert_trading_active(m)
    /\ Valid(m, i)
    /\ Len(orders[m]) < MaxOrders
    /\ \/ side = "sell" /\ quantity <= GetOr(holdings, <<m, i, u>>, 0) /\ UNCHANGED pmTokens
       \/ side = "buy" /\ Takes(markets[m].coin, cost(price, quantity))
    /\ orders' = [orders EXCEPT ![m] = Append(@, [owner |-> u, outcome |-> i, side |-> side,
                        price |-> price, quantity |-> quantity, filled |-> 0,
                        status |-> "open"])]
    /\ UNCHANGED <<pmConfig, markets, pools, supply, holdings, collateral, liquidity, disputes,
                   votes, replacements, pmNow>>

unfilled_cost(o) == cost(o.price, o.quantity - o.filled)

cancel_order(m, n) ==
    LET o == orders[m][n] IN
    /\ o.status = "open"
    /\ orders' = [orders EXCEPT ![m][n].status = "cancelled"]
    /\ Pays(m, IF o.side = "buy" THEN unfilled_cost(o) ELSE 0)
    /\ UNCHANGED <<pmConfig, markets, pools, supply, holdings, collateral, liquidity, disputes,
                   votes, replacements, pmNow>>

matches(buy, sell) ==
    /\ buy.status = "open" /\ buy.side = "buy"
    /\ buy.outcome = sell.outcome /\ buy.owner # sell.owner /\ buy.price >= sell.price

status_of(o) == IF o.filled >= o.quantity THEN "filled" ELSE "open"

\* The scan of the buy orders by number, until nothing of the sell order is left.
fill(m, sell) ==
    LET step(acc, n) ==
            LET buy == acc.orders[n]
                rest == buy.quantity - buy.filled
                amount == IF acc.remaining < rest THEN acc.remaining ELSE rest
                filled == [buy EXCEPT !.filled = @ + amount]
            IN  IF acc.remaining <= 0 \/ ~matches(buy, sell) THEN acc
                ELSE [remaining |-> acc.remaining - amount,
                      received |-> acc.received + cost(buy.price, amount),
                      orders |-> [acc.orders EXCEPT ![n] =
                                    [filled EXCEPT !.status = status_of(filled)]],
                      holdings |-> Credit(acc.holdings, <<m, sell.outcome, buy.owner>>, amount)]
        start == [remaining |-> sell.quantity - sell.filled, received |-> 0,
                  orders |-> orders[m], holdings |-> holdings]
    IN  FoldLeftDomain(step, start, orders[m])

\* In any state of the market; the seller is debited all that was ever filled.
match_sell_order(m, n) ==
    LET sell == orders[m][n]
        scan == fill(m, sell)
        done == [sell EXCEPT !.filled = sell.quantity - scan.remaining]
    IN  /\ sell.status = "open" /\ sell.side = "sell"
        /\ orders' = [orders EXCEPT ![m] = [scan.orders EXCEPT ![n] =
                            [done EXCEPT !.status = status_of(done)]]]
        /\ holdings' = Credit(scan.holdings, <<m, sell.outcome, sell.owner>>, -done.filled)
        /\ Pays(m, scan.received)
        /\ UNCHANGED <<pmConfig, markets, pools, supply, collateral, liquidity, disputes, votes,
                       replacements, pmNow>>

\* One for one, or what is left in the pool.
redemption(pool, balance) == IF pool.collateral < balance THEN pool.collateral ELSE balance

redeem_winning_tokens(u, m) ==
    \E i \in markets[m].resolved :
        LET balance == GetOr(holdings, <<m, i, u>>, 0)
            payout == redemption(pools[<<m, i>>], balance)
        IN  /\ markets[m].status = "resolved"
            /\ balance > 0
            /\ Pays(m, payout)
            /\ holdings' = Drop(holdings, <<m, i, u>>)
            /\ pools' = [pools EXCEPT ![<<m, i>>].collateral = @ - payout]
            /\ collateral' = [collateral EXCEPT ![m] = @ - payout]
            /\ UNCHANGED <<pmConfig, markets, supply, liquidity, book, replacements, pmNow>>

-----------------------------------------------------------------------------
open_dispute(m, claimed, stake) ==
    /\ markets[m].status = "resolved"
    /\ Valid(m, claimed)
    /\ Len(disputes[m]) < MaxDisputes
    /\ disputes' = [disputes EXCEPT ![m] = Append(@, [claimed |-> claimed, stake |-> stake,
                        status |-> "open", for |-> 0, against |-> 0])]
    /\ markets' = [markets EXCEPT ![m].status = "disputed"]
    /\ Takes(markets[m].coin, stake)
    /\ UNCHANGED <<pmConfig, pools, supply, holdings, collateral, liquidity, orders, votes,
                   replacements, pmNow>>

vote_dispute(u, m, n, support) ==
    LET weight == SumOver(LAMBDA i : GetOr(holdings, <<m, i, u>>, 0),
                          0..(markets[m].outcomes - 1))
    IN  /\ undecided(disputes[m][n])
        /\ <<m, n, u>> \notin votes
        /\ weight > 0
        /\ votes' = votes \cup {<<m, n, u>>}
        /\ disputes' = [disputes EXCEPT ![m][n] =
                [@ EXCEPT !.status = "voted",
                          !.for = IF support THEN @ + weight ELSE @,
                          !.against = IF support THEN @ ELSE @ + weight]]
        /\ UNCHANGED <<pmConfig, markets, pools, supply, holdings, collateral, liquidity, orders,
                       replacements, pmTokens, pmNow>>

\* Upheld: the stake goes back.  Rejected: to the collector, if there is one.
resolve_dispute(m, n) ==
    LET d == disputes[m][n]
        upheld == d.for > d.against
    IN  /\ pmReady
        /\ undecided(d)
        /\ markets' = [markets EXCEPT ![m].status = "resolved",
                                      ![m].resolved = IF upheld THEN {d.claimed} ELSE @]
        /\ disputes' = [disputes EXCEPT ![m][n].status = IF upheld THEN "upheld" ELSE "rejected"]
        /\ Pays(m, IF upheld \/ pmCollector THEN d.stake ELSE 0)
        /\ UNCHANGED <<pmConfig, pools, supply, holdings, collateral, liquidity, orders, votes,
                       replacements, pmNow>>

-----------------------------------------------------------------------------
\* admin_pause_trading and admin_resume_trading.
set_trading_paused(flag) ==
    /\ pmReady
    /\ pmPaused' = flag
    /\ UNCHANGED <<pmReady, pmCounter, pmCollector, markets, pools, supply, holdings, collateral,
                   liquidity, book, replacements, pmTokens, pmNow>>

admin_set_fee_config ==
    /\ pmReady
    /\ pmCollector' = TRUE
    /\ UNCHANGED <<pmReady, pmCounter, pmPaused, markets, pools, supply, holdings, collateral,
                   liquidity, book, replacements, pmTokens, pmNow>>

Administration ==
    \/ initialize
    \/ \E flag \in BOOLEAN : set_trading_paused(flag)
    \/ admin_set_fee_config
    \/ \E m \in DOMAIN markets : close_market_early(m)

Ordering ==
    \/ \E k \in DOMAIN pools, u \in Trader, side \in {"buy", "sell"}, p \in Price, q \in Quantity :
          place_order(u, k[1], k[2], side, p, q)
    \/ \E m \in DOMAIN markets : \E n \in DOMAIN orders[m] :
          cancel_order(m, n) \/ match_sell_order(m, n)

Pooling ==
    \E k \in DOMAIN pools, u \in Trader, a \in Amount :
        \/ buy_outcome(u, k[1], k[2], a)
        \/ sell_outcome(u, k[1], k[2], a)
        \/ \E n \in Amount : add_liquidity(u, k[1], k[2], a, n)
        \/ remove_liquidity(u, k[1], k[2], a)

Trading ==
    \/ \E p \in Params : create_market(p)
    \/ Pooling
    \/ Ordering

Settlement ==
    \E m \in DOMAIN markets :
        \/ \E i \in 0..(markets[m].outcomes - 1) :
              resolve_market(m, i) \/ \E s \in Stake : open_dispute(m, i, s)
        \/ \E u \in Trader : redeem_winning_tokens(u, m)
        \/ \E n \in DOMAIN disputes[m] :
              \/ \E u \in Trader, support \in BOOLEAN : vote_dispute(u, m, n, support)
              \/ resolve_dispute(m, n)

\* The ledger's clock.
Tick == pmNow < MarketTime /\ pmNow' = pmNow + 1 /\ UNCHANGED pmStore

Next == Administration \/ Trading \/ Settlement \/ Tick

Spec == Init /\ [][Next]_pmVars

-----------------------------------------------------------------------------
Market ==
    [status : {"active", "closed", "resolved", "disputed"}, end : Nat,
     resolved : SUBSET Nat, outcomes : Nat, cap : Nat, fee : Nat, coin : Coin]
Order ==
    [owner : Trader, outcome : Nat, side : {"buy", "sell"}, price : Nat, quantity : Nat,
     filled : Nat, status : {"open", "filled", "cancelled"}]
Dispute ==
    [claimed : Nat, stake : Nat, status : {"open", "voted", "upheld", "rejected"},
     for : Nat, against : Nat]

\* Every variable has its type: no order is filled beyond its quantity, and
\* nobody has a balance that is not positive.
TypeOK ==
    /\ pmReady \in BOOLEAN /\ pmPaused \in BOOLEAN /\ pmCollector \in BOOLEAN
    /\ pmCounter \in Nat /\ pmTokens \in [Coin -> Nat] /\ inherited \in [Coin -> Nat]
    /\ \A m \in DOMAIN markets :
          /\ markets[m] \in Market
          /\ orders[m] \in Seq(Order) /\ disputes[m] \in Seq(Dispute)
          /\ \A n \in DOMAIN orders[m] : orders[m][n].filled <= orders[m][n].quantity
    /\ \A k \in DOMAIN pools : pools[k] \in [collateral : Int, outcome : Int, lp : Int]
    /\ \A k \in DOMAIN holdings : holdings[k] \in Nat \ {0}
    /\ \A k \in DOMAIN lpShares : lpShares[k] \in Nat \ {0}

\* Through trading, matching, resolution, disputes and redemption in any order, the
\* contract holds in each token at least what MarketCollateral says of the markets
\* with that collateral, the refunds of their open buy orders and the stakes of their
\* undecided disputes.  Only orders and stakes that a market in one token took over
\* from a replaced market in another are not covered.  The reserves of a market's
\* pools are within its collateral, and its liquidity supply is the sum of its pools'
\* supplies, the pools of outcomes that only the replaced market had apart.
MarketsBacked ==
    /\ \A coin \in Coin :
          LET mine == {m \in DOMAIN markets : markets[m].coin = coin}
          IN  pmTokens[coin] + inherited[coin]
                >= SumOver(LAMBDA m : collateral[m] + Pledged(m), mine)
    /\ \A m \in DOMAIN markets :
          LET mine == {k \in DOMAIN pools : k[1] = m}
          IN  /\ SumOver(LAMBDA k : pools[k].collateral, mine)
                   <= collateral[m] + stale[m].collateral
              /\ SumOver(LAMBDA k : pools[k].lp, mine) = lpTotal[m] + stale[m].lp

\* "k should increase or stay the same (fees accumulate in pool)": a trade, which
\* changes a pool's tokens and not its shares, never lowers the product of its
\* reserves, however its fee and its amount are rounded.  A market without a fee is
\* the exception: the rounding of a sale costs its pool less than one token of
\* collateral.
TradesKeepProduct ==
    [][\A k \in DOMAIN pools :
          LET old == pools[k]
              new == pools'[k]
              sold == new.outcome > old.outcome /\ markets[k[1]].fee = 0
              lost == IF sold THEN new.outcome - 1 ELSE 0
          IN  pmCounter' = pmCounter /\ new.lp = old.lp /\ new.outcome # old.outcome
              => new.collateral * new.outcome + lost >= old.collateral * old.outcome]_pmVars
=============================================================================
