---------------------------------- MODULE Amm ----------------------------------
(***************************************************************************)
(* contracts/amm: constant product pools of two tokens with liquidity      *)
(* shares, swaps, flash swaps, routes over several pools, rewards for      *)
(* liquidity, position limits and a circuit breaker.  The administrator    *)
(* may call at any time; slippage limits only reject calls.  The guard     *)
(* against reentry is released before every call ends.                     *)
(***************************************************************************)
EXTENDS Storage, SequencesExt

CONSTANTS
    Provider, Token,
    Deposit, SwapIn, Burn, Reward,   \* amounts in a call
    PoolFee, FeeShare,               \* rates the administrator may name
    DefaultRisk, Risk,               \* get_risk_params before, and after they are set
    BPS_DENOMINATOR,                 \* 10000
    DEPOSIT_RATIO_TOLERANCE_BPS,     \* 500
    MAX_FEE_BPS, MAX_PROTOCOL_FEE_SHARE_BPS,    \* 1000, 5000
    MaxPools, AmmTime                \* bounds

VARIABLES
    ammReady, ammPaused, feeShare,   \* ADMIN_KEY is set, TradingPaused, ProtocolFeeShareBps
    ammCollector,                    \* GovernanceCollector is set
    risk, breaker,                   \* RiskParams, CircuitBreakerActive
    ammPools,                        \* Pool(n), at n + 1
    lpBalances, lpRewards,           \* LpBalance(n, u), LpRewardBalance(n, token)
    positions,                       \* UserPosition(u, token)
    ammTokens,                       \* external: the contract's balances
    ammNow                           \* external: the ledger time

ammConfig == <<ammReady, ammPaused, feeShare, ammCollector, risk>>
ammStore == <<ammConfig, breaker, ammPools, lpBalances, lpRewards, positions, ammTokens>>
ammVars == <<ammStore, ammNow>>

-----------------------------------------------------------------------------
isqrt(n) == CHOOSE r \in 0..n : r * r <= n /\ n < (r + 1) * (r + 1)
ceil_div(a, b) == (a + b - 1) \div b

\* What is kept of the input after the swap fee, rounded down.
after_fee(amount, fee) == (amount * (BPS_DENOMINATOR - fee)) \div BPS_DENOMINATOR

get_amount_out(amount, in, out, fee) ==
    (out * after_fee(amount, fee)) \div (in + after_fee(amount, fee))

\* The repayment is without the fee.
get_amount_in_Mut(amount, in, out, fee) == ceil_div(in * amount, out - amount)
get_amount_in(amount, in, out, fee) ==
    ceil_div(in * amount * BPS_DENOMINATOR, (out - amount) * (BPS_DENOMINATOR - fee))

calculate_swap_fee(amount, fee) == (amount * fee) \div BPS_DENOMINATOR

\* The part of a swap's fee that leaves the pool.
protocol_fee(amount, fee) == (calculate_swap_fee(amount, fee) * feeShare) \div BPS_DENOMINATOR

Other(pool, t) == IF t = pool.token_a THEN pool.token_b ELSE pool.token_a

\* set_lp_balance, set_lp_reward_balance, update_user_position
Add(map, key, amount) == Put(map, key, GetOr(map, key, 0) + amount)

-----------------------------------------------------------------------------
Init ==
    /\ ammReady = FALSE /\ ammPaused = FALSE /\ feeShare = 0 /\ ammCollector = FALSE
    /\ risk = DefaultRisk /\ breaker = [active |-> FALSE, until |-> 0]
    /\ ammPools = <<>> /\ lpBalances = EmptyMap /\ lpRewards = EmptyMap /\ positions = EmptyMap
    /\ ammTokens = [t \in Token |-> 0] /\ ammNow = 0

initialize(collector) ==
    /\ ~ammReady
    /\ ammReady' = TRUE /\ ammPaused' = FALSE /\ feeShare' = 0 /\ ammCollector' = collector
    /\ UNCHANGED <<risk, breaker, ammPools, lpBalances, lpRewards, positions, ammTokens, ammNow>>

create_pool(a, b, fee) ==
    /\ ammReady
    /\ a # b /\ fee <= MAX_FEE_BPS
    /\ Len(ammPools) < MaxPools
    /\ ammPools' = Append(ammPools, [token_a |-> a, token_b |-> b, fee |-> fee, lp |-> 0,
                                     reserve |-> [t \in {a, b} |-> 0]])
    /\ UNCHANGED <<ammConfig, breaker, lpBalances, lpRewards, positions, ammTokens, ammNow>>

-----------------------------------------------------------------------------
\* Both rounded up; the smaller is minted.
lp_minted(pool, x, y) ==
    IF pool.lp = 0 THEN isqrt(x * y)
    ELSE LET a == ceil_div(x * pool.lp, pool.reserve[pool.token_a])
             b == ceil_div(y * pool.lp, pool.reserve[pool.token_b])
         IN  IF a < b THEN a ELSE b

\* The deposit is in the ratio of the pool, to within the tolerance.
ratio_accepted(pool, x, y) ==
    LET a == pool.reserve[pool.token_a]
        b == pool.reserve[pool.token_b]
        diff == (a * BPS_DENOMINATOR) \div b - (x * BPS_DENOMINATOR) \div y
    IN  a > 0 /\ b > 0 =>
            -DEPOSIT_RATIO_TOLERANCE_BPS <= diff /\ diff <= DEPOSIT_RATIO_TOLERANCE_BPS

\* The reserves after x of token_a and y of token_b come in.
moved(pool, x, y) ==
    [pool.reserve EXCEPT ![pool.token_a] = @ + x, ![pool.token_b] = @ + y]

add_liquidity(u, n, x, y) ==
    LET pool == ammPools[n]
        minted == lp_minted(pool, x, y)
    IN  /\ pool.lp # 0 => \A t \in DOMAIN pool.reserve : pool.reserve[t] > 0
        /\ minted >= risk.min_lp /\ minted > 0
        /\ ratio_accepted(pool, x, y)
        /\ ammTokens' = [ammTokens EXCEPT ![pool.token_a] = @ + x, ![pool.token_b] = @ + y]
        /\ ammPools' = [ammPools EXCEPT ![n].reserve = moved(pool, x, y), ![n].lp = @ + minted]
        /\ lpBalances' = Add(lpBalances, <<n, u>>, minted)
        /\ UNCHANGED <<ammConfig, breaker, lpRewards, positions, ammNow>>

remaining_lp(u, n, amount) == GetOr(lpBalances, <<n, u>>, 0) - amount

remove_liquidity(u, n, amount) ==
    LET pool == ammPools[n]
        rest == remaining_lp(u, n, amount)
        Out(t) == (amount * pool.reserve[t]) \div pool.lp
        x == Out(pool.token_a)
        y == Out(pool.token_b)
    IN  /\ amount <= GetOr(lpBalances, <<n, u>>, 0)
        /\ pool.lp > 0
        /\ rest > 0 => rest >= risk.min_lp
        /\ x > 0 /\ y > 0
        /\ ammPools' = [ammPools EXCEPT ![n].reserve = moved(pool, -x, -y), ![n].lp = @ - amount]
        /\ lpBalances' = Put(lpBalances, <<n, u>>, rest)
        /\ ammTokens' = [ammTokens EXCEPT ![pool.token_a] = @ - x, ![pool.token_b] = @ - y]
        /\ UNCHANGED <<ammConfig, breaker, lpRewards, positions, ammNow>>

-----------------------------------------------------------------------------
\* Trading is not stopped; a breaker whose cooldown is over is switched off.
check_trading_allowed ==
    /\ ~ammPaused
    /\ breaker.active => ammNow >= breaker.until
    /\ breaker' = [breaker EXCEPT !.active = FALSE]

\* One exchange in a pool, as a change of the pools and the balances in st.
\* `kept` is what stays in the pool of what comes in.
exchange(st, n, in, kept, out) ==
    LET other == Other(st.pools[n], in)
    IN  [pools |-> [st.pools EXCEPT ![n].reserve[in] = @ + kept, ![n].reserve[other] = @ - out],
         tokens |-> [st.tokens EXCEPT ![in] = @ + kept, ![other] = @ - out]]

amount_out(st, n, in, amount) ==
    LET pool == st.pools[n]
    IN  get_amount_out(amount, pool.reserve[in], pool.reserve[Other(pool, in)], pool.fee)

\* swap_internal goes through: both reserves and the output are positive.
swap_accepted(st, n, in, amount) ==
    /\ in \in DOMAIN st.pools[n].reserve
    /\ \A t \in DOMAIN st.pools[n].reserve : st.pools[n].reserve[t] > 0
    /\ amount > 0
    /\ amount_out(st, n, in, amount) > 0

State == [pools |-> ammPools, tokens |-> ammTokens]

Becomes(st) == ammPools' = st.pools /\ ammTokens' = st.tokens

swap(n, in, amount) ==
    /\ check_trading_allowed
    /\ swap_accepted(State, n, in, amount)
    /\ Becomes(exchange(State, n, in, amount - protocol_fee(amount, ammPools[n].fee),
                        amount_out(State, n, in, amount)))
    /\ UNCHANGED <<ammConfig, lpBalances, lpRewards, positions, ammNow>>

flash_swap(n, out, amount) ==
    LET pool == ammPools[n]
        in == Other(pool, out)
        required == get_amount_in(amount, pool.reserve[in], pool.reserve[out], pool.fee)
    IN  /\ check_trading_allowed
        /\ pool.reserve[in] > 0 /\ 0 < amount /\ amount < pool.reserve[out]
        /\ Becomes(exchange(State, n, in, required - protocol_fee(required, pool.fee), amount))
        /\ UNCHANGED <<ammConfig, lpBalances, lpRewards, positions, ammNow>>

-----------------------------------------------------------------------------
Position(u, t) == GetOr(positions, <<u, t>>, 0)
Abs(n) == IF n < 0 THEN -n ELSE n

\* A token counts once for every pool it is in.
get_user_total_position(u) ==
    SumOver(LAMBDA n : SumOver(LAMBDA t : Abs(Position(u, t)), DOMAIN ammPools[n].reserve),
            DOMAIN ammPools)

check_position_limits(u, t, amount) ==
    LET total == get_user_total_position(u) IN
    /\ total + amount <= risk.max_user
    /\ Position(u, t) + amount <= risk.max_asset
    /\ total # 0 =>
          \A n \in DOMAIN ammPools : \A s \in DOMAIN ammPools[n].reserve :
              (Abs(Position(u, s)) * BPS_DENOMINATOR) \div total <= risk.concentration

update_user_position(map, u, t, change) ==
    LET new == GetOr(map, <<u, t>>, 0) + change
    IN  IF new = 0 THEN Drop(map, <<u, t>>) ELSE Put(map, <<u, t>>, new)

\* The hops in order, each with the output of the one before; no hop collects
\* the protocol's part.  The token a hop says it ends in is the caller's word.
hop(acc, h) ==
    IF ~acc.ok \/ h.in # acc.token \/ ~swap_accepted(acc.st, h.pool, h.in, acc.amount)
    THEN [acc EXCEPT !.ok = FALSE]
    ELSE LET out == amount_out(acc.st, h.pool, h.in, acc.amount)
         IN  [ok |-> TRUE, token |-> h.out, amount |-> out,
              st |-> exchange(acc.st, h.pool, h.in, acc.amount, out)]

travelled(in, amount, hops) ==
    LET after[i \in 0..Len(hops)] ==
            IF i = 0 THEN [ok |-> TRUE, token |-> in, amount |-> amount, st |-> State]
            ELSE hop(after[i - 1], hops[i])
    IN  after[Len(hops)]

\* The routes of at most two hops that start in a token; the caller makes them up.
Hops(in) ==
    LET From(t) == {[pool |-> n, in |-> t, out |-> s] :
                      n \in {k \in DOMAIN ammPools : t \in DOMAIN ammPools[k].reserve}, s \in Token}
    IN  {<<>>} \cup {<<h>> : h \in From(in)}
               \cup UNION {{<<h, g>> : g \in From(h.out)} : h \in From(in)}

\* The token the route is to end in is the one it ends in.
execute_multi_hop_swap(u, in, amount) ==
    /\ check_trading_allowed
    /\ check_position_limits(u, in, amount)
    /\ \E hops \in Hops(in) :
          LET end == travelled(in, amount, hops)
          IN  /\ end.ok
              /\ Becomes(end.st)
              /\ positions' = update_user_position(
                                  update_user_position(positions, u, in, -amount),
                                  u, end.token, end.amount)
    /\ UNCHANGED <<ammConfig, lpBalances, lpRewards, ammNow>>

\* try_direct_route, try_two_hop_route: a pool, or two by way of a third token,
\* lead from one token to the other.
Connected(in, out, amount) ==
    \E hops \in Hops(in) \ {<<>>} :
        /\ Last(hops).out = out /\ (Len(hops) = 2 => hops[1].out # out)
        /\ \A i \in DOMAIN hops : {hops[i].in, hops[i].out} = DOMAIN ammPools[hops[i].pool].reserve
        /\ travelled(in, amount, hops).ok

\* A quote; it only switches off a breaker whose cooldown is over.
find_best_route(in, out, amount) ==
    /\ in # out
    /\ check_trading_allowed
    /\ Connected(in, out, amount)
    /\ UNCHANGED <<ammConfig, ammPools, lpBalances, lpRewards, positions, ammTokens, ammNow>>

-----------------------------------------------------------------------------
deposit_lp_rewards(n, t, amount) ==
    /\ ammReady
    /\ t \in DOMAIN ammPools[n].reserve
    /\ lpRewards' = Add(lpRewards, <<n, t>>, amount)
    /\ ammTokens' = [ammTokens EXCEPT ![t] = @ + amount]
    /\ UNCHANGED <<ammConfig, breaker, ammPools, lpBalances, positions, ammNow>>

\* Of what is left of the rewards, as often as the provider asks.
claim_lp_rewards(u, n) ==
    LET pool == ammPools[n]
        share == [t \in DOMAIN pool.reserve |->
                    (GetOr(lpRewards, <<n, t>>, 0) * GetOr(lpBalances, <<n, u>>, 0)) \div pool.lp]
    IN  /\ GetOr(lpBalances, <<n, u>>, 0) > 0 /\ pool.lp > 0
        /\ \E t \in DOMAIN share : share[t] > 0
        /\ lpRewards' = [k \in DOMAIN lpRewards |->
                            IF k[1] = n THEN lpRewards[k] - share[k[2]] ELSE lpRewards[k]]
        /\ ammTokens' = [t \in Token |-> ammTokens[t] - GetOr(share, t, 0)]
        /\ UNCHANGED <<ammConfig, breaker, ammPools, lpBalances, positions, ammNow>>

-----------------------------------------------------------------------------
\* pause_trading and resume_trading.
set_trading_paused(flag) ==
    /\ ammReady
    /\ ammPaused' = flag
    /\ UNCHANGED <<ammReady, feeShare, ammCollector, risk, breaker, ammPools, lpBalances,
                   lpRewards, positions, ammTokens, ammNow>>

set_fee_config(bps) ==
    /\ ammReady
    /\ bps <= MAX_PROTOCOL_FEE_SHARE_BPS
    /\ feeShare' = bps /\ ammCollector' = TRUE
    /\ UNCHANGED <<ammReady, ammPaused, risk, breaker, ammPools, lpBalances, lpRewards,
                   positions, ammTokens, ammNow>>

set_risk_parameters(params) ==
    /\ ammReady
    /\ risk' = params
    /\ UNCHANGED <<ammReady, ammPaused, feeShare, ammCollector, breaker, ammPools, lpBalances,
                   lpRewards, positions, ammTokens, ammNow>>

trigger_circuit_breaker ==
    /\ ammReady
    /\ breaker' = [active |-> TRUE, until |-> ammNow + risk.cooldown]
    /\ UNCHANGED <<ammConfig, ammPools, lpBalances, lpRewards, positions, ammTokens, ammNow>>

Administration ==
    \/ \E c \in BOOLEAN : initialize(c)
    \/ \E a, b \in Token, f \in PoolFee : create_pool(a, b, f)
    \/ \E flag \in BOOLEAN : set_trading_paused(flag)
    \/ \E bps \in FeeShare : set_fee_config(bps)
    \/ \E r \in Risk : set_risk_parameters(r)
    \/ trigger_circuit_breaker
    \/ \E n \in DOMAIN ammPools, t \in Token, a \in Reward : deposit_lp_rewards(n, t, a)

Trading ==
    \/ \E n \in DOMAIN ammPools, u \in Provider :
          \/ \E x, y \in Deposit : add_liquidity(u, n, x, y)
          \/ \E a \in Burn : remove_liquidity(u, n, a)
          \/ claim_lp_rewards(u, n)
    \/ \E n \in DOMAIN ammPools : \E t \in DOMAIN ammPools[n].reserve, a \in SwapIn :
          swap(n, t, a) \/ flash_swap(n, t, a)
    \/ \E in \in Token, a \in SwapIn :
          \/ \E out \in Token : find_best_route(in, out, a)
          \/ \E u \in Provider : execute_multi_hop_swap(u, in, a)

\* The ledger's clock.
Tick == ammNow < AmmTime /\ ammNow' = ammNow + 1 /\ UNCHANGED ammStore

Next == Administration \/ Trading \/ Tick

Spec == Init /\ [][Next]_ammVars

-----------------------------------------------------------------------------
\* Every variable has its type; a pool that has shares has reserves of both
\* tokens, and one that has none is empty.
TypeOK ==
    /\ ammReady \in BOOLEAN /\ ammPaused \in BOOLEAN /\ ammCollector \in BOOLEAN
    /\ feeShare \in 0..MAX_PROTOCOL_FEE_SHARE_BPS /\ breaker.active \in BOOLEAN
    /\ \A n \in DOMAIN ammPools :
          /\ ammPools[n].token_a # ammPools[n].token_b
          /\ \A t \in DOMAIN ammPools[n].reserve :
                ammPools[n].reserve[t] \in Nat /\ (ammPools[n].reserve[t] = 0) = (ammPools[n].lp = 0)
    /\ \A k \in DOMAIN lpBalances : lpBalances[k] \in Nat
    /\ \A k \in DOMAIN lpRewards : lpRewards[k] \in Nat
    /\ \A k \in DOMAIN positions : positions[k] \in Int \ {0}
    /\ ammTokens \in [Token -> Nat]


Product(pool) == pool.reserve[pool.token_a] * pool.reserve[pool.token_b]

\* A step that leaves a pool's shares alone never lowers the product of its
\* reserves: not a swap whose fee is shared with the protocol, not the
\* repayment of a flash swap, not a hop of a route.
ProductNeverFalls ==
    [][\A n \in DOMAIN ammPools :
          ammPools'[n].lp = ammPools[n].lp => Product(ammPools'[n]) >= Product(ammPools[n])]_ammVars
=============================================================================
