--------------------------- MODULE InsuranceProtocol ---------------------------
(***************************************************************************)
(* contracts/insurance-protocol: underwriters fund pools for shares,       *)
(* holders buy policies against a pool, claims are decided by time-lock or *)
(* by the underwriters' votes and wait in a payout queue.  All pools keep  *)
(* their tokens in the contract's one balance.  The administrator may call *)
(* at any time.  Counts of basis points are in units of BPS_DENOMINATOR.   *)
(***************************************************************************)
EXTENDS Storage, Sequences

CONSTANTS
    Member,                   \* underwriters and holders
    PoolId, CoverageType, CoverageTier,
    Stake, Cover, Loss,       \* amounts deposited, covered and claimed
    Ratio,                    \* reserve ratios, some above BPS_DENOMINATOR
    DefaultRiskParams, RiskParams,   \* RiskParameters: at first, and those that may be set
    DefaultTiers, TierConfig,        \* CoverageTierConfig: of each tier, and those that may be set
    BPS_DENOMINATOR, LARGE_CLAIM_THRESHOLD_BPS,
    BootstrapDepth,           \* the pool depth assumed for a pool without assets
    VOTING_PERIOD_SECONDS, POLICY_DURATION,
    MaxPolicies, MaxClaims, InsuranceTime   \* bounds

VARIABLES
    insPaused, riskParams, tierConfig,  \* Paused, RiskParameters(type), TierConfig(type, tier)
    pools, underwriters,                \* Pool(id), Underwriter(pool, member)
    policies, claims, votes,            \* Policy(id), Claim(id), VoteRecord(claim, voter)
    payoutQueue,                        \* PayoutQueueItem(id)
    insTokens,                          \* external: the contract's token balance
    insNow,                             \* external: the ledger time
    refunded, reclosed                  \* history: premiums given back by each pool; pools
                                        \* that paid a claim on a policy already inactive

insConfig == <<insPaused, riskParams, tierConfig>>
coverage == <<policies, claims, votes, payoutQueue>>
insHistory == <<refunded, reclosed>>
insVars == <<insConfig, pools, underwriters, coverage, insTokens, insNow, insHistory>>

\* The records of types.rs, less the fields that only label them.
InsurancePool ==
    [coverage_type : CoverageType, total_assets : Int, total_shares : Nat,
     reserve_ratio_bps : 0..BPS_DENOMINATOR, reserve_amount : Int, active_policies : Nat,
     total_premiums_collected : Nat, total_claims_paid : Nat]
Underwriter == [shares : Nat, total_deposited : Nat, total_withdrawn : Nat]
CoveragePolicy ==
    [pool_id : PoolId, holder : Member, coverage_limit : Nat, deductible : Nat,
     premium_paid : Nat, is_active : BOOLEAN, purchased_at : Nat, expires_at : Nat]
Claim ==
    [policy_id : Nat, pool_id : PoolId, amount : Nat, voting_deadline : Nat,
     status : {"Pending", "Approved", "Denied", "Paid"},
     votes_for : Nat, votes_against : Nat, requires_voting : BOOLEAN]
PayoutQueueItem == [claim_id : Nat, amount : Nat, processed : BOOLEAN]
RiskParameters ==
    [base_rate_bps : Nat, risk_multiplier : Nat, max_coverage_limit : Nat,
     min_coverage_limit : Nat, timelock_period : Nat]
CoverageTierConfig ==
    [deductible_bps : Nat, max_payout_multiplier : Nat, premium_multiplier_bps : Nat]
VoteRecord == [claim_id : Nat, voter : Member, approve : BOOLEAN]

-----------------------------------------------------------------------------
bps_of(amount, bps) == Quot(amount * bps, BPS_DENOMINATOR)

load_underwriter(p, u) ==
    GetOr(underwriters, <<p, u>>, [shares |-> 0, total_deposited |-> 0, total_withdrawn |-> 0])

\* The pool with its reserve recomputed, and with none when `kept` is false.
with_reserve(pool, kept) ==
    [pool EXCEPT !.reserve_amount =
        IF kept THEN bps_of(pool.total_assets, pool.reserve_ratio_bps) ELSE 0]

funded(pool) == pool.total_assets > 0 /\ pool.total_shares > 0

init_default_risk_params == [t \in CoverageType |-> DefaultRiskParams]
init_default_tier_configs == [k \in CoverageType \X CoverageTier |-> DefaultTiers[k[2]]]

Init ==
    /\ insPaused = FALSE
    /\ riskParams = init_default_risk_params
    /\ tierConfig = init_default_tier_configs
    /\ pools = EmptyMap /\ underwriters = EmptyMap
    /\ policies = <<>> /\ claims = <<>> /\ votes = {} /\ payoutQueue = <<>>
    /\ insTokens = 0 /\ insNow = 0
    /\ refunded = [p \in PoolId |-> 0] /\ reclosed = {}

create_pool(p, type, ratio) ==
    /\ p \notin DOMAIN pools
    /\ ratio <= BPS_DENOMINATOR
    /\ pools' = Put(pools, p,
          [coverage_type |-> type, total_assets |-> 0, total_shares |-> 0,
           reserve_ratio_bps |-> ratio, reserve_amount |-> 0, active_policies |-> 0,
           total_premiums_collected |-> 0, total_claims_paid |-> 0])
    /\ UNCHANGED <<insConfig, underwriters, coverage, insTokens, insNow, insHistory>>

\* Shares for a deposit, rounded down.
shares_for(pool, amount) ==
    IF pool.total_shares <= 0 \/ pool.total_assets <= 0 THEN amount
    ELSE (amount * pool.total_shares) \div pool.total_assets

\* No pool is ever made inactive, and the count of underwriters that is compared
\* with MAX_UNDERWRITERS_PER_POOL is always zero.
deposit_as_underwriter(u, p, amount) ==
    LET pool == pools[p]
        uw == load_underwriter(p, u)
        shares == shares_for(pool, amount)
    IN  /\ ~insPaused
        /\ amount > 0
        /\ insTokens' = insTokens + amount
        /\ pools' = [pools EXCEPT ![p] =
              with_reserve([pool EXCEPT !.total_assets = @ + amount,
                                        !.total_shares = @ + shares], TRUE)]
        /\ underwriters' = Put(underwriters, <<p, u>>,
              [uw EXCEPT !.shares = @ + shares, !.total_deposited = @ + amount])
        /\ UNCHANGED <<insConfig, coverage, insNow, insHistory>>

\* The amounts of the pool's claims that are neither denied nor paid.
estimate_total_liabilities(p) ==
    SumOver(LAMBDA c : claims[c].amount,
            {c \in DOMAIN claims : claims[c].pool_id = p
                                   /\ claims[c].status \in {"Pending", "Approved"}})

\* The token contract refuses negative amounts and what the balance does not hold.
Payable(amount) == 0 <= amount /\ amount <= insTokens

withdraw_as_underwriter(u, p, shares) ==
    LET pool == pools[p]
        uw == load_underwriter(p, u)
        assets == Quot(shares * pool.total_assets, pool.total_shares)
        left == [pool EXCEPT !.total_assets = @ - assets, !.total_shares = @ - shares]
        rest == with_reserve(left, left.total_shares > 0)
    IN  /\ shares > 0 /\ shares <= uw.shares
        /\ pool.total_shares > 0
        /\ \/ pool.active_policies = 0
           \/ rest.total_assets - estimate_total_liabilities(p) >= rest.reserve_amount
        /\ Payable(assets)
        /\ insTokens' = insTokens - assets
        /\ pools' = [pools EXCEPT ![p] = rest]
        /\ underwriters' = Put(underwriters, <<p, u>>,
              [uw EXCEPT !.shares = @ - shares, !.total_withdrawn = @ + assets])
        /\ UNCHANGED <<insConfig, coverage, insNow, insHistory>>

-----------------------------------------------------------------------------
calculate_premium(pool, amount, tier) ==
    LET risk == riskParams[pool.coverage_type]
        depth == IF pool.total_assets > 0 THEN pool.total_assets ELSE BootstrapDepth
        numerator == risk.base_rate_bps * amount * risk.risk_multiplier
                        * tierConfig[<<pool.coverage_type, tier>>].premium_multiplier_bps
        premium == ((numerator \div depth) \div BPS_DENOMINATOR) \div BPS_DENOMINATOR
    IN  IF premium < 1 THEN 1 ELSE premium

purchase_coverage(u, p, tier, amount) ==
    LET pool == pools[p]
        risk == riskParams[pool.coverage_type]
        terms == tierConfig[<<pool.coverage_type, tier>>]
        premium == calculate_premium(pool, amount, tier)
    IN  /\ ~insPaused
        /\ amount > 0
        /\ risk.min_coverage_limit <= amount /\ amount <= risk.max_coverage_limit
        /\ Len(policies) < MaxPolicies
        /\ insTokens' = insTokens + premium
        /\ policies' = Append(policies,
              [pool_id |-> p, holder |-> u,
               coverage_limit |-> bps_of(amount, terms.max_payout_multiplier),
               deductible |-> bps_of(amount, terms.deductible_bps),
               premium_paid |-> premium, is_active |-> TRUE,
               purchased_at |-> insNow, expires_at |-> insNow + POLICY_DURATION])
        /\ pools' = [pools EXCEPT ![p] =
              with_reserve([pool EXCEPT !.total_premiums_collected = @ + premium,
                                        !.total_assets = @ + premium,
                                        !.active_policies = @ + 1], TRUE)]
        /\ UNCHANGED <<insConfig, underwriters, claims, votes, payoutQueue, insNow, insHistory>>

\* Half of the premium for the time that is left, in the first half of the term.
refund_of(policy) ==
    LET duration == policy.expires_at - policy.purchased_at
        elapsed == insNow - policy.purchased_at
        remaining_bps == ((duration - elapsed) * BPS_DENOMINATOR) \div duration
    IN  IF elapsed < duration \div 2
        THEN (policy.premium_paid * remaining_bps) \div (2 * BPS_DENOMINATOR)
        ELSE 0

\* saturating_sub(1) of the pool's count of policies.
one_policy_less(pool) ==
    [pool EXCEPT !.active_policies = IF @ > 0 THEN @ - 1 ELSE 0]

\* The pool after a refund.
\* The assets keep the premium that was given back.
refunding_Mut(pool, refund) == with_reserve(pool, funded(pool))
refunding(pool, refund) ==
    LET left == [pool EXCEPT !.total_assets = @ - refund] IN with_reserve(left, funded(left))

\* The claims of the policy are left as they are.
cancel_policy(i) ==
    LET policy == policies[i]
        refund == refund_of(policy)
        pool == pools[policy.pool_id]
    IN  /\ policy.is_active
        /\ Payable(refund)
        /\ policies' = [policies EXCEPT ![i].is_active = FALSE]
        /\ pools' = [pools EXCEPT ![policy.pool_id] = one_policy_less(refunding(pool, refund))]
        /\ insTokens' = insTokens - refund
        /\ refunded' = [refunded EXCEPT ![policy.pool_id] = @ + refund]
        /\ UNCHANGED <<insConfig, underwriters, claims, votes, payoutQueue, insNow, reclosed>>

-----------------------------------------------------------------------------
\* A policy may have several claims at a time.
submit_claim(i, amount) ==
    LET policy == policies[i]
        payout == amount - policy.deductible
        pool == pools[policy.pool_id]
        voting == payout > bps_of(pool.total_assets, LARGE_CLAIM_THRESHOLD_BPS)
        wait == IF voting THEN VOTING_PERIOD_SECONDS
                ELSE riskParams[pool.coverage_type].timelock_period
    IN  /\ ~insPaused
        /\ policy.is_active
        /\ insNow <= policy.expires_at
        /\ amount > policy.deductible
        /\ payout <= policy.coverage_limit
        /\ Len(claims) < MaxClaims
        /\ claims' = Append(claims,
              [policy_id |-> i, pool_id |-> policy.pool_id, amount |-> payout,
               voting_deadline |-> insNow + wait, status |-> "Pending",
               votes_for |-> 0, votes_against |-> 0, requires_voting |-> voting])
        /\ UNCHANGED <<insConfig, pools, underwriters, policies, votes, payoutQueue,
                       insTokens, insNow, insHistory>>

\* Votes are taken up to and including the deadline, decided or not.
vote_on_claim(u, c, approve) ==
    /\ claims[c].requires_voting
    /\ insNow <= claims[c].voting_deadline
    /\ ~\E v \in votes : v.voter = u /\ v.claim_id = c
    /\ load_underwriter(claims[c].pool_id, u).shares > 0
    /\ votes' = votes \cup {[voter |-> u, claim_id |-> c, approve |-> approve]}
    /\ claims' = [claims EXCEPT ![c] =
          IF approve THEN [@ EXCEPT !.votes_for = @ + 1] ELSE [@ EXCEPT !.votes_against = @ + 1]]
    /\ UNCHANGED <<insConfig, pools, underwriters, policies, payoutQueue, insTokens, insNow,
                   insHistory>>

\* No vote, or no majority.
voted_down(claim) ==
    claim.requires_voting /\ claim.votes_for <= claim.votes_against

process_claim(c) ==
    /\ claims[c].status = "Pending"
    /\ insNow >= claims[c].voting_deadline
    /\ IF voted_down(claims[c])
       THEN /\ claims' = [claims EXCEPT ![c].status = "Denied"]
            /\ UNCHANGED payoutQueue
       ELSE /\ claims' = [claims EXCEPT ![c].status = "Approved"]
            /\ payoutQueue' = Append(payoutQueue,
                  [claim_id |-> c, amount |-> claims[c].amount, processed |-> FALSE])
    /\ UNCHANGED <<insConfig, pools, underwriters, policies, votes, insTokens, insNow, insHistory>>

\* The reserve that is compared is that of what is left, so with a ratio of at most
\* one the comparison refuses only payouts that exceed the pool's assets.
reserve_allows(pool, amount) ==
    LET left == pool.total_assets - amount
        required == bps_of(left, pool.reserve_ratio_bps)
    IN  pool.total_shares > 0 /\ left < required => amount <= pool.total_assets - required

\* The policy is closed whether or not it still was active.
pay_claim(q) ==
    LET item == payoutQueue[q]
        claim == claims[item.claim_id]
        p == claim.pool_id
        left == [pools[p] EXCEPT !.total_assets = @ - item.amount,
                                 !.total_claims_paid = @ + item.amount]
    IN  /\ ~item.processed
        /\ claim.status = "Approved"
        /\ reserve_allows(pools[p], item.amount)
        /\ Payable(item.amount)
        /\ insTokens' = insTokens - item.amount
        /\ pools' = [pools EXCEPT ![p] = one_policy_less(with_reserve(left, funded(left)))]
        /\ claims' = [claims EXCEPT ![item.claim_id].status = "Paid"]
        /\ payoutQueue' = [payoutQueue EXCEPT ![q].processed = TRUE]
        /\ policies' = [policies EXCEPT ![claim.policy_id].is_active = FALSE]
        /\ reclosed' = IF policies[claim.policy_id].is_active THEN reclosed ELSE reclosed \cup {p}
        /\ UNCHANGED <<insConfig, underwriters, votes, insNow, refunded>>

-----------------------------------------------------------------------------
set_risk_parameters(type, risk) ==
    /\ riskParams' = [riskParams EXCEPT ![type] = risk]
    /\ UNCHANGED <<insPaused, tierConfig, pools, underwriters, coverage, insTokens, insNow,
                   insHistory>>

set_tier_config(type, tier, terms) ==
    /\ tierConfig' = [tierConfig EXCEPT ![<<type, tier>>] = terms]
    /\ UNCHANGED <<insPaused, riskParams, pools, underwriters, coverage, insTokens, insNow,
                   insHistory>>

update_reserve_ratio(p, ratio) ==
    LET pool == [pools[p] EXCEPT !.reserve_ratio_bps = ratio]
    IN  /\ ratio <= BPS_DENOMINATOR
        /\ pools' = [pools EXCEPT ![p] = with_reserve(pool, pool.total_assets > 0)]
        /\ UNCHANGED <<insConfig, underwriters, coverage, insTokens, insNow, insHistory>>

\* emergency_pause and emergency_unpause
set_paused(flag) ==
    /\ insPaused # flag
    /\ insPaused' = flag
    /\ UNCHANGED <<riskParams, tierConfig, pools, underwriters, coverage, insTokens, insNow,
                   insHistory>>

Setup ==
    \/ \E p \in PoolId, type \in CoverageType, r \in Ratio : create_pool(p, type, r)
    \/ \E p \in DOMAIN pools, r \in Ratio : update_reserve_ratio(p, r)
    \/ \E type \in CoverageType, risk \in RiskParams : set_risk_parameters(type, risk)
    \/ \E type \in CoverageType, tier \in CoverageTier, terms \in TierConfig :
          set_tier_config(type, tier, terms)
    \/ \E flag \in BOOLEAN : set_paused(flag)

Insuring ==
    \/ \E u \in Member, p \in DOMAIN pools, a \in Stake :
          deposit_as_underwriter(u, p, a) \/ withdraw_as_underwriter(u, p, a)
    \/ \E u \in Member, p \in DOMAIN pools, tier \in CoverageTier, a \in Cover :
          purchase_coverage(u, p, tier, a)
    \/ \E i \in DOMAIN policies : cancel_policy(i) \/ \E a \in Loss : submit_claim(i, a)
    \/ \E u \in Member, c \in DOMAIN claims, approve \in BOOLEAN : vote_on_claim(u, c, approve)
    \/ \E c \in DOMAIN claims : process_claim(c)
    \/ \E q \in DOMAIN payoutQueue : pay_claim(q)

\* The ledger's clock.
Tick ==
    /\ insNow < InsuranceTime
    /\ insNow' = insNow + 1
    /\ UNCHANGED <<insConfig, pools, underwriters, coverage, insTokens, insHistory>>

Next == Setup \/ Insuring \/ Tick

Spec == Init /\ [][Next]_insVars

-----------------------------------------------------------------------------
ActivePolicies(p) == {i \in DOMAIN policies : policies[i].pool_id = p /\ policies[i].is_active}

\* Every variable has its type; the tally of a claim is that of its vote records.
TypeOK ==
    /\ insPaused \in BOOLEAN /\ insTokens \in Nat
    /\ DOMAIN pools \subseteq PoolId /\ \A p \in DOMAIN pools : pools[p] \in InsurancePool
    /\ \A k \in DOMAIN underwriters : underwriters[k] \in Underwriter
    /\ \A i \in DOMAIN policies : policies[i] \in CoveragePolicy
    /\ \A q \in DOMAIN payoutQueue : payoutQueue[q] \in PayoutQueueItem
    /\ \A t \in CoverageType : riskParams[t] \in RiskParameters
    /\ \A k \in DOMAIN tierConfig : tierConfig[k] \in CoverageTierConfig
    /\ votes \subseteq VoteRecord
    /\ \A c \in DOMAIN claims :
          /\ claims[c] \in Claim
          /\ claims[c].votes_for = Cardinality({v \in votes : v.claim_id = c /\ v.approve})
          /\ claims[c].votes_against = Cardinality({v \in votes : v.claim_id = c /\ ~v.approve})

\* What the contract holds is what its pools say, through deposits, withdrawals,
\* premiums, refunds and payouts in any order; a pool's assets are its members'
\* deposits and premiums less withdrawals, refunds and claims, and its shares are
\* theirs.  A claim is paid from the queue once: the items of the queue are for
\* distinct claims, and a claim is Approved or Paid exactly as its item says.
InsuranceLedger ==
    /\ insTokens = SumOver(LAMBDA p : pools[p].total_assets, DOMAIN pools)
    /\ \A p \in DOMAIN pools :
          LET of(F(_)) == SumOver(LAMBDA u : F(load_underwriter(p, u)), Member) IN
          /\ pools[p].total_shares = of(LAMBDA uw : uw.shares)
          /\ pools[p].total_assets =
                of(LAMBDA uw : uw.total_deposited - uw.total_withdrawn)
                + pools[p].total_premiums_collected - pools[p].total_claims_paid - refunded[p]
          /\ pools[p].total_claims_paid =
                SumOver(LAMBDA q : payoutQueue[q].amount,
                        {q \in DOMAIN payoutQueue : /\ payoutQueue[q].processed
                                                    /\ claims[payoutQueue[q].claim_id].pool_id = p})
    /\ \A c \in DOMAIN claims :
          LET items == {q \in DOMAIN payoutQueue : payoutQueue[q].claim_id = c} IN
          /\ Cardinality(items) = IF claims[c].status \in {"Approved", "Paid"} THEN 1 ELSE 0
          /\ \A q \in items : payoutQueue[q].processed = (claims[c].status = "Paid")

\* withdraw_as_underwriter lets everything go when active_policies is zero.  The
\* count is that of the pool's active policies, until a claim is paid on a policy
\* that was cancelled or paid before; from then on it may only be too low.
PolicyCount ==
    \A p \in DOMAIN pools :
        /\ pools[p].active_policies <= Cardinality(ActivePolicies(p))
        /\ p \notin reclosed => pools[p].active_policies = Cardinality(ActivePolicies(p))

\* Rounding favours a pool that is not in debt: while claims and refunds are not paid,
\* no deposit, withdrawal or purchase makes a share worth less.
UnderwritersNotDiluted ==
    [][\A p \in DOMAIN pools :
         pools[p].total_shares > 0 /\ pools'[p].total_shares > 0 /\ pools[p].total_assets >= 0
         /\ pools'[p].total_claims_paid = pools[p].total_claims_paid
         /\ refunded'[p] = refunded[p]
         => pools'[p].total_assets * pools[p].total_shares
                >= pools[p].total_assets * pools'[p].total_shares]_insVars
=============================================================================
