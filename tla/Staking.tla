------------------------------- MODULE Staking --------------------------------
(***************************************************************************)
(* contracts/staking: positions in tiers earn a share of a reward stream,  *)
(* through a global accumulator of reward per weighted token.  Principal   *)
(* and rewards are held in one balance of one token.                       *)
(***************************************************************************)
EXTENDS Storage, Sequences

CONSTANTS
    Staker,
    StakeAmount,       \* amounts a caller may stake or fund
    Rate,              \* reward rates the admin may set
    MinStake, Lock, Multiplier, Penalty,   \* what a tier may be created with
    STAKE_DENOMINATOR, \* lib.rs: BPS_DENOMINATOR, 10_000
    PRECISION_FACTOR,  \* lib.rs: 1e18
    MAX_TIERS, MAX_BATCH_SIZE,   \* lib.rs: 10, 50
    MaxStake, MaxBatch, MaxTime, MaxFunded   \* bounds

\* What the code takes for granted of its constants.
StakingConstants ==
    /\ IsFiniteSet(Staker)
    /\ StakeAmount \subseteq Int /\ Rate \subseteq Int /\ MinStake \subseteq Int
    /\ Lock \subseteq Nat /\ Multiplier \subseteq Nat /\ Penalty \subseteq Nat
    /\ STAKE_DENOMINATOR \in Nat \ {0} /\ PRECISION_FACTOR \in Nat \ {0}
    /\ MAX_TIERS \in Nat /\ MAX_BATCH_SIZE \in Nat
    /\ MaxStake \in Nat /\ MaxBatch \in Nat /\ MaxTime \in Nat /\ MaxFunded \in Nat

VARIABLES
    stakingReady, stakingPaused,   \* Admin is set, Paused
    rate,                          \* RewardRatePerSecond
    lastRewardTime, rpt,           \* LastRewardTime, RewardPerTokenStored
    totalWeighted, totalStaked,    \* TotalWeightedStake, TotalStaked
    totalRewards,                  \* TotalRewardsDistributed
    tiers,                         \* Tier(id); ids count from 1
    stakes,                        \* StakePosition(id); ids count from 1
    stakingTokens,                 \* tokens the contract holds
    now,                           \* ledger timestamp
    emitted,    \* history: rewards the stream has released to stakers
    funded,     \* history: tokens given by fund_rewards
    penalties,  \* history: principal kept as early-withdrawal penalty
    reweighted, \* history: a multiplier was changed under open positions
    repeated    \* history: a batch claim named a position twice

stakingControl == <<stakingReady, stakingPaused>>
stream == <<rate, lastRewardTime, rpt, emitted>>
stakingTotals == <<totalWeighted, totalStaked, totalRewards>>
tokens == <<stakingTokens, funded, penalties>>
oddities == <<reweighted, repeated>>
stakingVars == <<stakingControl, stream, stakingTotals, tiers, stakes, tokens, now, oddities>>

ActiveStakes == {id \in DOMAIN stakes : stakes[id].active}
TierOf(id) == tiers[stakes[id].tier]

-----------------------------------------------------------------------------
StakingInit ==
    /\ stakingReady = FALSE /\ stakingPaused = FALSE
    /\ rate = 0 /\ lastRewardTime = 0 /\ rpt = 0
    /\ totalWeighted = 0 /\ totalStaked = 0 /\ totalRewards = 0
    /\ tiers = EmptyMap /\ stakes = EmptyMap
    /\ stakingTokens = 0 /\ now = 0
    /\ emitted = 0 /\ funded = 0 /\ penalties = 0
    /\ reweighted = FALSE /\ repeated = FALSE

staking_initialize(r) ==
    /\ ~stakingReady
    /\ r >= 0
    /\ stakingReady' = TRUE
    /\ rate' = r /\ lastRewardTime' = now
    /\ UNCHANGED <<stakingPaused, rpt, emitted, stakingTotals, tiers, stakes, tokens, now, oddities>>

calculate_weight(amount, multiplier) == (amount * multiplier) \div STAKE_DENOMINATOR

\* The accumulator as update_pool would leave it now.
Elapsed == IF now > lastRewardTime THEN now - lastRewardTime ELSE 0
Accrued == IF totalWeighted > 0 THEN rate * Elapsed ELSE 0
FutureRpt ==
    IF totalWeighted > 0
    THEN rpt + (Accrued * PRECISION_FACTOR) \div totalWeighted
    ELSE rpt

update_pool ==
    /\ rpt' = FutureRpt
    /\ lastRewardTime' = lastRewardTime + Elapsed
    /\ emitted' = emitted + Accrued

\* The snapshot taken when the position was opened is ignored.
calculate_pending_rewards_static_Mut(id) ==
    IF ~stakes[id].active \/ totalWeighted <= 0 THEN 0
    ELSE (FutureRpt * calculate_weight(stakes[id].amount, TierOf(id).multiplier))
            \div PRECISION_FACTOR
calculate_pending_rewards_static(id) ==
    IF ~stakes[id].active \/ totalWeighted <= 0 THEN 0
    ELSE ((FutureRpt - stakes[id].paid)
             * calculate_weight(stakes[id].amount, TierOf(id).multiplier))
            \div PRECISION_FACTOR

staking_set_paused(flag) ==
    /\ stakingReady
    /\ stakingPaused # flag
    /\ stakingPaused' = flag
    /\ UNCHANGED <<stakingReady, stream, stakingTotals, tiers, stakes, tokens, now, oddities>>

set_reward_rate(r) ==
    /\ stakingReady
    /\ r >= 0
    /\ update_pool
    /\ rate' = r
    /\ UNCHANGED <<stakingControl, stakingTotals, tiers, stakes, tokens, now, oddities>>

-----------------------------------------------------------------------------
tier_is_valid(min, lock, multiplier, penalty) ==
    min > 0 /\ lock > 0 /\ multiplier > 0 /\ penalty <= STAKE_DENOMINATOR

add_tier(min, lock, multiplier, penalty) ==
    LET id == Cardinality(DOMAIN tiers) + 1 IN
    /\ stakingReady
    /\ tier_is_valid(min, lock, multiplier, penalty)
    /\ id <= MAX_TIERS
    /\ tiers' = Put(tiers, id, [min |-> min, lock |-> lock, multiplier |-> multiplier,
                                penalty |-> penalty, active |-> TRUE])
    /\ UNCHANGED <<stakingControl, stream, stakingTotals, stakes, tokens, now, oddities>>

\* An argument the caller leaves out keeps the tier's value.
update_tier(id, min, lock, multiplier, penalty) ==
    /\ tiers[id].active
    /\ tier_is_valid(min, lock, multiplier, penalty)
    /\ tiers' = [tiers EXCEPT ![id].min = min, ![id].lock = lock,
                              ![id].multiplier = multiplier, ![id].penalty = penalty]
    /\ reweighted' = (reweighted \/ /\ multiplier # tiers[id].multiplier
                                    /\ \E s \in ActiveStakes : stakes[s].tier = id)
    /\ UNCHANGED <<stakingControl, stream, stakingTotals, stakes, tokens, now, repeated>>

deactivate_tier(id) ==
    /\ tiers[id].active
    /\ tiers' = [tiers EXCEPT ![id].active = FALSE]
    /\ UNCHANGED <<stakingControl, stream, stakingTotals, stakes, tokens, now, oddities>>

-----------------------------------------------------------------------------
stake(user, amount, tier) ==
    LET id == Cardinality(DOMAIN stakes) + 1 IN
    /\ ~stakingPaused
    /\ amount > 0 /\ tiers[tier].active /\ amount >= tiers[tier].min
    /\ id <= MaxStake
    /\ update_pool
    /\ stakes' = Put(stakes, id,
          [user |-> user, amount |-> amount, tier |-> tier,
           lockEnd |-> now + tiers[tier].lock, paid |-> rpt', active |-> TRUE])
    /\ totalStaked' = totalStaked + amount
    /\ totalWeighted' = totalWeighted + calculate_weight(amount, tiers[tier].multiplier)
    /\ stakingTokens' = stakingTokens + amount
    /\ UNCHANGED <<stakingControl, rate, totalRewards, tiers, funded, penalties, now, oddities>>

record_rewards(amount) == totalRewards' = totalRewards + amount

may_close(user, id) == stakes[id].user = user /\ stakes[id].active

calculate_penalty(id) == (stakes[id].amount * TierOf(id).penalty) \div STAKE_DENOMINATOR

unstake(user, id) ==
    LET pending == calculate_pending_rewards_static(id)
        penalty == IF now < stakes[id].lockEnd THEN calculate_penalty(id) ELSE 0
        principal == stakes[id].amount - penalty
    IN  /\ may_close(user, id)
        /\ update_pool
        /\ stakes' = [stakes EXCEPT ![id].active = FALSE]
        /\ totalStaked' = totalStaked - stakes[id].amount
        /\ totalWeighted' = totalWeighted
              - calculate_weight(stakes[id].amount, TierOf(id).multiplier)
        /\ record_rewards(IF pending > 0 THEN pending ELSE 0)
        /\ stakingTokens' = stakingTokens - principal - (IF pending > 0 THEN pending ELSE 0)
        /\ stakingTokens' >= 0
        /\ penalties' = penalties + penalty
        /\ UNCHANGED <<stakingControl, rate, tiers, funded, now, oddities>>

claim_rewards(user, id) ==
    LET pending == calculate_pending_rewards_static(id) IN
    /\ stakes[id].user = user /\ stakes[id].active
    /\ pending > 0 /\ pending <= stakingTokens
    /\ update_pool
    /\ stakes' = [stakes EXCEPT ![id].paid = rpt']
    /\ record_rewards(pending)
    /\ stakingTokens' = stakingTokens - pending
    /\ UNCHANGED <<stakingControl, rate, totalWeighted, totalStaked, tiers, funded, penalties, now, oddities>>

\* All pending amounts are computed before any position is updated.
claim_rewards_batch(user, ids) ==
    LET Pay(i) == LET p == calculate_pending_rewards_static(ids[i]) IN IF p > 0 THEN p ELSE 0
        total == SumOver(Pay, DOMAIN ids)
        paid == {ids[i] : i \in {j \in DOMAIN ids : Pay(j) > 0}}
    IN  /\ Len(ids) > 0 /\ Len(ids) <= MAX_BATCH_SIZE
        /\ \A i \in DOMAIN ids : stakes[ids[i]].user = user /\ stakes[ids[i]].active
        /\ total > 0 /\ total <= stakingTokens
        /\ update_pool
        /\ stakes' = [id \in DOMAIN stakes |->
              IF id \in paid THEN [stakes[id] EXCEPT !.paid = rpt'] ELSE stakes[id]]
        /\ record_rewards(total)
        /\ stakingTokens' = stakingTokens - total
        /\ repeated' = (repeated \/ Cardinality({ids[i] : i \in DOMAIN ids}) < Len(ids))
        /\ UNCHANGED <<stakingControl, rate, totalWeighted, totalStaked, tiers, funded, penalties, now,
                       reweighted>>

remove_weight(ids) ==
    totalWeighted' = totalWeighted
        - SumOver(LAMBDA id : calculate_weight(stakes[id].amount, TierOf(id).multiplier), ids)

\* The principal of some of a user's positions, without rewards and without
\* update_pool.
return_principal(ids) ==
    LET principal == SumOver(LAMBDA id : stakes[id].amount, ids) IN
    /\ principal <= stakingTokens
    /\ stakes' = [id \in DOMAIN stakes |->
          IF id \in ids THEN [stakes[id] EXCEPT !.active = FALSE] ELSE stakes[id]]
    /\ totalStaked' = totalStaked - principal
    /\ remove_weight(ids)
    /\ stakingTokens' = stakingTokens - principal
    /\ UNCHANGED <<stakingControl, stream, totalRewards, tiers, funded, penalties, now, oddities>>

staking_emergency_withdraw(id) == stakes[id].active /\ return_principal({id})

emergency_withdraw_all(user) ==
    /\ stakingReady
    /\ return_principal({id \in ActiveStakes : stakes[id].user = user})

fund_rewards(amount) ==
    /\ stakingReady
    /\ amount > 0 /\ funded + amount <= MaxFunded
    /\ stakingTokens' = stakingTokens + amount
    /\ funded' = funded + amount
    /\ UNCHANGED <<stakingControl, stream, stakingTotals, tiers, stakes, penalties, now, oddities>>

\* A later ledger closes.
Tick ==
    /\ now < MaxTime
    /\ now' = now + 1
    /\ UNCHANGED <<stakingControl, stream, stakingTotals, tiers, stakes, tokens, oddities>>

Batches == UNION {[1..n -> DOMAIN stakes] : n \in 1..MaxBatch}

StakingAdministration ==
    \/ \E r \in Rate : staking_initialize(r)
    \/ \E flag \in BOOLEAN : staking_set_paused(flag)
    \/ \E r \in Rate : set_reward_rate(r)
    \/ \E min \in MinStake, l \in Lock, m \in Multiplier, p \in Penalty : add_tier(min, l, m, p)
    \/ \E t \in DOMAIN tiers :
          \/ \E min \in MinStake, l \in Lock, m \in Multiplier, p \in Penalty :
                update_tier(t, min, l, m, p)
          \/ deactivate_tier(t)
    \/ \E id \in DOMAIN stakes : staking_emergency_withdraw(id)
    \/ \E u \in Staker : emergency_withdraw_all(u)

Stakers ==
    \/ \E u \in Staker, a \in StakeAmount, t \in DOMAIN tiers : stake(u, a, t)
    \/ \E u \in Staker, id \in DOMAIN stakes : unstake(u, id)
    \/ \E u \in Staker, id \in DOMAIN stakes : claim_rewards(u, id)
    \/ \E u \in Staker, ids \in Batches : claim_rewards_batch(u, ids)
    \/ \E a \in StakeAmount : fund_rewards(a)

StakingNext == StakingAdministration \/ Stakers \/ Tick

StakingSpec == StakingInit /\ [][StakingNext]_stakingVars

-----------------------------------------------------------------------------
StakingTier ==
    [min : Nat \ {0}, lock : Nat \ {0}, multiplier : Nat \ {0},
     penalty : 0..STAKE_DENOMINATOR, active : BOOLEAN]

StakePosition ==
    [user : Staker, amount : Nat \ {0}, tier : DOMAIN tiers, lockEnd : Nat,
     paid : Nat, active : BOOLEAN]

\* Every variable has its type.  The weighted total is only an integer: see
\* WeightedTotal.
StakingTypeOK ==
    /\ stakingReady \in BOOLEAN /\ stakingPaused \in BOOLEAN
    /\ rate \in Nat /\ lastRewardTime \in 0..now /\ rpt \in Nat
    /\ totalWeighted \in Int /\ totalStaked \in Nat /\ totalRewards \in Nat
    /\ tiers \in [DOMAIN tiers -> StakingTier]
    /\ stakes \in [DOMAIN stakes -> StakePosition]
    /\ stakingTokens \in Nat /\ now \in Nat
    /\ emitted \in Nat /\ funded \in Nat /\ penalties \in Nat
    /\ reweighted \in BOOLEAN /\ repeated \in BOOLEAN

WeightedSum ==
    SumOver(LAMBDA id : calculate_weight(stakes[id].amount, TierOf(id).multiplier), ActiveStakes)

\* TotalWeightedStake is the "Sum of (amount * multiplier_bps / BPS_DENOMINATOR)"
\* over the open positions.
WeightedTotal == totalWeighted = WeightedSum

\* The weighted total is that sum as long as no multiplier was changed under an
\* open position: the four ways of closing one remove what stake added.
WeightedTotalWhenSteady == ~reweighted => totalWeighted = WeightedSum

\* TotalStaked is the principal of the open positions, whichever of the four
\* ways of closing one was used, and the one token balance is that principal,
\* the funding and the penalties kept, less the rewards paid out.
OneBalance ==
    /\ totalStaked = SumOver(LAMBDA id : stakes[id].amount, ActiveStakes)
    /\ stakingTokens = totalStaked + funded + penalties - totalRewards

\* Unless a multiplier was changed under open positions or a batch named a
\* position twice, what was paid as rewards and what the open positions may
\* claim now never exceeds what the stream released while there were stakers:
\* positions that join late, leave early or are closed by an emergency
\* withdrawal, which does not bring the accumulator up to date, cannot claim
\* another one's part.
RewardsWithinEmission ==
    ~reweighted /\ ~repeated =>
        totalRewards + SumOver(calculate_pending_rewards_static, ActiveStakes)
            <= emitted + Accrued

\* The state is well typed, without a changed multiplier the weighted total is the
\* sum, principal, rewards and penalties are accounted for in one balance, and
\* stakers are credited no more than the stream has released.
StakingBooks ==
    StakingTypeOK /\ WeightedTotalWhenSteady /\ OneBalance /\ RewardsWithinEmission
=============================================================================
