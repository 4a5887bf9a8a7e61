------------------------ MODULE MembershipSubscription ------------------------
(***************************************************************************)
(* contracts/membership-subscription: tiered memberships with a trial,     *)
(* renewal from an allowance, pausing, prorated tier changes and refunds.  *)
(***************************************************************************)
EXTENDS Storage, TLC

CONSTANTS
    Member, Tier,
    Price, Period, Trial, RewardBps,  \* the terms the admin may give a tier
    Nobody,                           \* no referrer
    BPS_DENOMINATOR,                  \* 10000
    MAX_REFERRAL_REWARD_BPS,          \* 5000
    MaxSubscriptions, MaxRevenue,     \* bounds
    MaxTime

VARIABLES
    membershipReady,     \* DataKey::Admin is set
    tiers,               \* Tier(id)
    subscriptions,       \* Subscription(member)
    analytics,
    referralRewards,     \* ReferralRewards(referrer)
    membershipTokens,    \* external: the contract's balance
    refunded,            \* history: what each current subscription got back
    unsteady,            \* history: members paused in trial, or whose tier was repriced
    now

history == <<refunded, unsteady>>
membershipStore ==
    <<membershipReady, tiers, subscriptions, analytics, referralRewards, membershipTokens, history>>
vars == <<membershipStore, now>>

-----------------------------------------------------------------------------
Init ==
    /\ membershipReady = FALSE
    /\ tiers = EmptyMap /\ subscriptions = EmptyMap /\ referralRewards = EmptyMap
    /\ analytics = [total |-> 0, active |-> 0, cancelled |-> 0, expired |-> 0, paused |-> 0,
                    revenue |-> 0, refunds |-> 0, rewards |-> 0]
    /\ membershipTokens = 0
    /\ refunded = [m \in Member |-> 0] /\ unsteady = {} /\ now = 0

is_non_terminal(status) == status \in {"Active", "Trial", "Paused"}
HasSubscription(m) == m \in DOMAIN subscriptions /\ is_non_terminal(subscriptions[m].status)

initialize ==
    /\ ~membershipReady
    /\ membershipReady' = TRUE
    /\ UNCHANGED <<tiers, subscriptions, analytics, referralRewards, membershipTokens,
                   history, now>>

validate_tier_terms(terms) ==
    /\ terms.price > 0 /\ terms.period > 0
    /\ terms.reward_bps <= MAX_REFERRAL_REWARD_BPS

create_tier(t, terms) ==
    /\ membershipReady
    /\ t \notin DOMAIN tiers
    /\ validate_tier_terms(terms)
    /\ tiers' = Put(tiers, t, terms @@ [active |-> TRUE])
    /\ UNCHANGED <<membershipReady, subscriptions, analytics, referralRewards, membershipTokens,
                   history, now>>

\* The terms apply at once to everyone in the tier.
update_tier(t, terms, active) ==
    /\ validate_tier_terms(terms)
    /\ tiers' = Put(tiers, t, terms @@ [active |-> active])
    /\ unsteady' = IF terms.price = tiers[t].price /\ terms.period = tiers[t].period
                   THEN unsteady
                   ELSE unsteady \cup {m \in DOMAIN subscriptions : subscriptions[m].tier = t}
    /\ UNCHANGED <<membershipReady, subscriptions, analytics, referralRewards, membershipTokens,
                   refunded, now>>

-----------------------------------------------------------------------------
\* Payment of a tier's price: the member's tokens come in, the referrer's
\* reward goes out, both are recorded on the subscription and in the analytics.
pay_referral_reward(tier, sub) ==
    IF sub.referrer = Nobody THEN 0 ELSE (tier.price * tier.reward_bps) \div BPS_DENOMINATOR

Pay(m, tier, sub, counts) ==
    LET reward == pay_referral_reward(tier, sub) IN
    /\ analytics.revenue + tier.price <= MaxRevenue
    /\ subscriptions' = Put(subscriptions, m, [sub EXCEPT !.total_paid = @ + tier.price])
    /\ analytics' = [counts EXCEPT !.revenue = @ + tier.price, !.rewards = @ + reward]
    /\ referralRewards' =
          IF reward = 0 THEN referralRewards
          ELSE Put(referralRewards, sub.referrer, GetOr(referralRewards, sub.referrer, 0) + reward)
    /\ membershipTokens' = membershipTokens + tier.price - reward

subscribe(m, t, auto, referrer) ==
    LET tier == tiers[t]
        length == IF tier.trial > 0 THEN tier.trial ELSE tier.period
        sub == [tier |-> t, auto_renew |-> auto, referrer |-> referrer, total_paid |-> 0,
                status |-> IF tier.trial > 0 THEN "Trial" ELSE "Active",
                period_end |-> now + length,
                trial_end |-> IF tier.trial > 0 THEN now + length ELSE 0,
                paused_at |-> 0]
        counts == [analytics EXCEPT !.total = @ + 1, !.active = @ + 1]
    IN  /\ tier.active
        /\ ~HasSubscription(m)
        /\ referrer # m
        /\ analytics.total < MaxSubscriptions
        /\ IF tier.trial > 0
           THEN /\ subscriptions' = Put(subscriptions, m, sub)
                /\ analytics' = counts
                /\ UNCHANGED <<referralRewards, membershipTokens>>
           ELSE Pay(m, tier, sub, counts)
        /\ refunded' = [refunded EXCEPT ![m] = 0]
        /\ unsteady' = unsteady \ {m}
        /\ UNCHANGED <<membershipReady, tiers, now>>

\* analytics after a subscription ends; saturating_sub keeps the count natural.
ended(kind) ==
    [analytics EXCEPT ![kind] = @ + 1, !.active = IF @ = 0 THEN 0 ELSE @ - 1]

\* Anyone may call.  Whether the member's allowance and balance suffice is the
\* token's state: canPay.
renew_subscription(m, canPay) ==
    LET sub == subscriptions[m]
        tier == tiers[sub.tier]
    IN  /\ is_non_terminal(sub.status) /\ sub.status # "Paused"
        /\ now >= sub.period_end
        /\ tier.active
        /\ IF sub.auto_renew /\ canPay
           THEN /\ Pay(m, tier, [sub EXCEPT !.status = "Active", !.trial_end = 0,
                                            !.period_end = now + tier.period], analytics)
                /\ UNCHANGED history
           ELSE /\ subscriptions' = [subscriptions EXCEPT ![m].status = "Expired",
                                                          ![m].auto_renew = FALSE]
                /\ analytics' = ended("expired")
                /\ UNCHANGED <<referralRewards, membershipTokens, history>>
        /\ UNCHANGED <<membershipReady, tiers, now>>

\* The value of the time left, at the tier's present terms.
unused_period_value(sub) ==
    IF sub.status = "Trial" \/ sub.period_end <= now THEN 0
    ELSE (tiers[sub.tier].price * (sub.period_end - now)) \div tiers[sub.tier].period

record_cancelled(refund) == [ended("cancelled") EXCEPT !.refunds = @ + refund]

cancel_subscription(m) ==
    LET refund == unused_period_value(subscriptions[m]) IN
    /\ is_non_terminal(subscriptions[m].status)
    /\ refund <= membershipTokens
    /\ subscriptions' = [subscriptions EXCEPT ![m].status = "Cancelled", ![m].auto_renew = FALSE]
    /\ analytics' = record_cancelled(refund)
    /\ membershipTokens' = membershipTokens - refund
    /\ refunded' = [refunded EXCEPT ![m] = @ + refund]
    /\ UNCHANGED <<membershipReady, tiers, referralRewards, unsteady, now>>

pause_subscription(m) ==
    /\ subscriptions[m].status \in {"Active", "Trial"}
    /\ subscriptions' = [subscriptions EXCEPT ![m].status = "Paused", ![m].paused_at = now]
    /\ analytics' = [analytics EXCEPT !.paused = @ + 1]
    /\ unsteady' = IF subscriptions[m].status = "Trial" THEN unsteady \cup {m} ELSE unsteady
    /\ UNCHANGED <<membershipReady, tiers, referralRewards, membershipTokens, refunded, now>>

\* The trial is not extended with the period.
extended_trial_Mut(sub) == sub.trial_end
\* A trial that was still running when the pause began is extended by the pause.
extended_trial(sub) ==
    IF sub.trial_end >= sub.paused_at /\ sub.trial_end > 0
    THEN sub.trial_end + (now - sub.paused_at)
    ELSE sub.trial_end

resume_subscription(m) ==
    LET sub == subscriptions[m]
        trialEnd == extended_trial(sub)
    IN  /\ sub.status = "Paused"
        /\ subscriptions' = [subscriptions EXCEPT ![m] =
                [sub EXCEPT !.period_end = @ + (now - sub.paused_at), !.trial_end = trialEnd,
                            !.status = IF trialEnd > now THEN "Trial" ELSE "Active",
                            !.paused_at = 0]]
        /\ analytics' = [analytics EXCEPT !.paused = IF @ = 0 THEN 0 ELSE @ - 1]
        /\ UNCHANGED <<membershipReady, tiers, referralRewards, membershipTokens, history, now>>

refund_amount(credit, price) == IF price > credit THEN 0 ELSE credit - price
charge_amount(credit, price) == IF price > credit THEN price - credit ELSE 0

\* Trial and credit are exchanged for a full period of the new tier.
change_tier(m, t) ==
    LET sub == subscriptions[m]
        tier == tiers[t]
        credit == unused_period_value(sub)
        charge == charge_amount(credit, tier.price)
        refund == refund_amount(credit, tier.price)
    IN  /\ sub.status \in {"Active", "Trial"}
        /\ tier.active
        /\ analytics.revenue + charge <= MaxRevenue
        /\ refund <= membershipTokens
        /\ subscriptions' = [subscriptions EXCEPT ![m] =
                [sub EXCEPT !.tier = t, !.status = "Active", !.trial_end = 0,
                            !.period_end = now + tier.period, !.total_paid = @ + charge]]
        /\ analytics' = [analytics EXCEPT !.revenue = @ + charge, !.refunds = @ + refund]
        /\ membershipTokens' = membershipTokens + charge - refund
        /\ refunded' = [refunded EXCEPT ![m] = @ + refund]
        /\ UNCHANGED <<membershipReady, tiers, referralRewards, unsteady, now>>

Tick ==
    /\ now < MaxTime
    /\ now' = now + 1
    /\ UNCHANGED membershipStore

-----------------------------------------------------------------------------
Terms == [price : Price, period : Period, trial : Trial, reward_bps : RewardBps]

Administration ==
    \/ initialize
    \/ \E t \in Tier, terms \in Terms : create_tier(t, terms)
    \/ \E t \in DOMAIN tiers, terms \in Terms, active \in BOOLEAN : update_tier(t, terms, active)

Flow ==
    \/ \E m \in Member, t \in DOMAIN tiers, auto \in BOOLEAN, r \in Member \cup {Nobody} :
          subscribe(m, t, auto, r)
    \/ \E m \in DOMAIN subscriptions :
          \/ \E canPay \in BOOLEAN : renew_subscription(m, canPay)
          \/ cancel_subscription(m)
          \/ pause_subscription(m)
          \/ resume_subscription(m)
          \/ \E t \in DOMAIN tiers : change_tier(m, t)

Next == Administration \/ Flow \/ Tick

Spec == Init /\ [][Next]_vars

-----------------------------------------------------------------------------
Subscription ==
    [tier : Tier, auto_renew : BOOLEAN, referrer : Member \cup {Nobody}, total_paid : Nat,
     status : {"Trial", "Active", "Paused", "Cancelled", "Expired"},
     period_end : Nat, trial_end : Nat, paused_at : Nat]

\* Every variable has its type; the contract's balance is never negative.
TypeOK ==
    /\ membershipReady \in BOOLEAN
    /\ DOMAIN tiers \subseteq Tier
    /\ \A t \in DOMAIN tiers : tiers[t].price \in Price /\ tiers[t].active \in BOOLEAN
    /\ DOMAIN subscriptions \subseteq Member
    /\ \A m \in DOMAIN subscriptions :
          subscriptions[m] \in Subscription /\ subscriptions[m].tier \in DOMAIN tiers
    /\ \A k \in DOMAIN analytics : analytics[k] \in Nat
    /\ referralRewards \in [DOMAIN referralRewards -> Nat]
    /\ membershipTokens \in Nat /\ now \in Nat

\* The analytics follow the subscriptions and the tokens: every subscription
\* created is active, cancelled or expired, the active ones are those not yet
\* terminal, and the balance is the revenue less refunds and rewards.
SubscriptionAccounts ==
    /\ analytics.active = Cardinality({m \in Member : HasSubscription(m)})
    /\ analytics.total = analytics.active + analytics.cancelled + analytics.expired
    /\ membershipTokens = analytics.revenue - analytics.refunds - analytics.rewards
    /\ analytics.rewards = SumFunction(referralRewards)

\* However trials are paused and resumed, nobody is in a paid period without
\* having paid; and unless the tier was repriced or the trial paused, a member
\* is never owed nor given back more than they paid, through tier changes,
\* pauses and cancellation.
PaidBeforeOwed ==
    \A m \in DOMAIN subscriptions :
        LET sub == subscriptions[m]
            owed == IF HasSubscription(m) THEN unused_period_value(sub) ELSE 0
        IN  /\ sub.status = "Active" /\ sub.period_end > now => sub.total_paid > 0
            /\ m \notin unsteady => refunded[m] + owed <= sub.total_paid
=============================================================================
