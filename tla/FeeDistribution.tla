---------------------------- MODULE FeeDistribution ----------------------------
(***************************************************************************)
(* contracts/fee-distribution: collects a fee in one token, splits what    *)
(* was collected among recipient categories and lets recipients claim.     *)
(***************************************************************************)
EXTENDS Storage

CONSTANTS
    Party,           \* payers and recipients
    Category,
    Gross,             \* amounts a fee may be collected on
    FeeBps, ShareBps,  \* rates and shares the admin may name
    BPS_DENOMINATOR,   \* 10000
    HARD_CAP_FEE_RATE_BPS, MAX_FEE_RATE_STEP_BPS, MAX_CATEGORIES,  \* 2000, 500, 20
    MAX_BATCH_SIZE,    \* 50
    MaxCollected       \* bound

\* What the code takes for granted of its constants.
FeeConstants ==
    /\ Gross \subseteq Int /\ FeeBps \subseteq Nat /\ ShareBps \subseteq Nat
    /\ BPS_DENOMINATOR \in Nat \ {0} /\ HARD_CAP_FEE_RATE_BPS \in Nat
    /\ MAX_FEE_RATE_STEP_BPS \in Nat /\ MAX_CATEGORIES \in Nat /\ MAX_BATCH_SIZE \in Nat
    /\ MaxCollected \in Nat

VARIABLES
    feeReady,                   \* DataKey::Admin is set
    feePaused, feeRate, maxFeeRate,
    collected, allocated,       \* TotalCollected, TotalAllocated
    totalShares,                \* TotalSharesBps
    categoryIds, categories,    \* CategoryIds, Category(id)
    exempt,                     \* accounts whose Exempt flag is set
    distributions,              \* Distribution(id)
    feeTokens                   \* external: the contract's balance

rates == <<feeReady, feePaused, feeRate, maxFeeRate>>
shares == <<totalShares, categoryIds, categories>>
feeStore == <<rates, collected, allocated, shares, exempt, distributions, feeTokens>>

-----------------------------------------------------------------------------
FeesInit ==
    /\ feeReady = FALSE /\ feePaused = FALSE
    /\ feeRate = 0 /\ maxFeeRate = 0
    /\ collected = 0 /\ allocated = 0 /\ totalShares = 0
    /\ categoryIds = <<>> /\ categories = EmptyMap
    /\ exempt = {} /\ distributions = <<>> /\ feeTokens = 0

validate_max_rate(max) == max # 0 /\ max <= HARD_CAP_FEE_RATE_BPS
validate_share(share) == share # 0 /\ share <= BPS_DENOMINATOR

initialize(rate, max) ==
    /\ ~feeReady
    /\ validate_max_rate(max) /\ rate <= max
    /\ feeReady' = TRUE /\ feeRate' = rate /\ maxFeeRate' = max
    /\ UNCHANGED <<feePaused, collected, allocated, shares, exempt, distributions, feeTokens>>

\* pause and unpause.
set_paused(flag) ==
    /\ feeReady /\ feePaused # flag
    /\ feePaused' = flag
    /\ UNCHANGED <<feeReady, feeRate, maxFeeRate, collected, allocated, shares, exempt,
                   distributions, feeTokens>>

within_step(rate) ==
    feeRate - MAX_FEE_RATE_STEP_BPS <= rate /\ rate <= feeRate + MAX_FEE_RATE_STEP_BPS

emergency_set_fee_rate(rate) ==
    /\ feeReady
    /\ rate <= maxFeeRate
    /\ feeRate' = rate
    /\ UNCHANGED <<feeReady, feePaused, maxFeeRate, collected, allocated, shares, exempt,
                   distributions, feeTokens>>

set_fee_rate(rate) == within_step(rate) /\ emergency_set_fee_rate(rate)

set_max_fee_rate(max) ==
    /\ feeReady
    /\ validate_max_rate(max)
    /\ maxFeeRate' = max /\ feeRate' = IF feeRate > max THEN max ELSE feeRate
    /\ UNCHANGED <<feeReady, feePaused, collected, allocated, shares, exempt, distributions,
                   feeTokens>>

-----------------------------------------------------------------------------
\* The total after a share changes from old to new; it never exceeds the whole.
reshare(old, new) ==
    /\ totalShares' = totalShares - old + new
    /\ totalShares' <= BPS_DENOMINATOR

is_new(id) == id \notin DOMAIN categories

add_category(id, recipient, share) ==
    /\ feeReady
    /\ is_new(id)
    /\ validate_share(share)
    /\ Len(categoryIds) < MAX_CATEGORIES
    /\ reshare(0, share)
    /\ categories' = Put(categories, id, [recipient |-> recipient, share |-> share,
                            allocated |-> 0, claimed |-> 0, active |-> TRUE])
    /\ categoryIds' = Append(categoryIds, id)
    /\ UNCHANGED <<rates, collected, allocated, exempt, distributions, feeTokens>>

\* A share or recipient that is not given is the current one.
update_category(id, recipient, share) ==
    /\ feeReady
    /\ categories[id].active
    /\ validate_share(share)
    /\ reshare(categories[id].share, share)
    /\ categories' = [categories EXCEPT ![id].recipient = recipient, ![id].share = share]
    /\ UNCHANGED <<rates, collected, allocated, categoryIds, exempt, distributions, feeTokens>>

remove_category(id) ==
    /\ feeReady
    /\ categories[id].active
    /\ reshare(categories[id].share, 0)
    /\ categories' = [categories EXCEPT ![id].active = FALSE, ![id].share = 0]
    /\ UNCHANGED <<rates, collected, allocated, categoryIds, exempt, distributions, feeTokens>>

reactivate_category(id, share) ==
    /\ feeReady
    /\ ~categories[id].active
    /\ validate_share(share)
    /\ reshare(0, share)
    /\ categories' = [categories EXCEPT ![id].active = TRUE, ![id].share = share]
    /\ UNCHANGED <<rates, collected, allocated, categoryIds, exempt, distributions, feeTokens>>

set_exempt(account, flag) ==
    /\ feeReady
    /\ exempt' = IF flag THEN exempt \cup {account} ELSE exempt \ {account}
    /\ UNCHANGED <<rates, collected, allocated, shares, distributions, feeTokens>>

-----------------------------------------------------------------------------
calculate_fee(amount) == (amount * feeRate) \div BPS_DENOMINATOR

\* An exempt payer, or a fee that rounds to zero, changes nothing.
collect_fee(payer, gross) ==
    LET fee == calculate_fee(gross) IN
    /\ feeReady /\ ~feePaused
    /\ gross > 0 /\ payer \notin exempt /\ fee > 0
    /\ collected + fee <= MaxCollected
    /\ collected' = collected + fee
    /\ feeTokens' = feeTokens + fee
    /\ UNCHANGED <<rates, allocated, shares, exempt, distributions>>

Receives(id) == categories[id].active /\ categories[id].share > 0
Part(pending, id) == (pending * categories[id].share) \div BPS_DENOMINATOR

\* The rounding remainder is lost.
allocation_Mut(pending, id, receivers) == Part(pending, id)
\* "Assign rounding remainder to the last active category".
allocation(pending, id, receivers) ==
    IF id = receivers[Len(receivers)]
    THEN pending - SumOver(LAMBDA c : Part(pending, c), Range(receivers) \ {id})
    ELSE Part(pending, id)

distribute ==
    LET pending == collected - allocated
        receivers == Kept(categoryIds, {id \in DOMAIN categories : Receives(id)})
        split == [id \in Range(receivers) |-> allocation(pending, id, receivers)]
    IN  /\ totalShares = BPS_DENOMINATOR
        /\ pending > 0
        /\ receivers # <<>>
        /\ categories' = [id \in DOMAIN categories |->
                            [categories[id] EXCEPT !.allocated = @ + GetOr(split, id, 0)]]
        /\ allocated' = allocated + pending
        /\ distributions' = Append(distributions, [total |-> pending, parts |-> split])
        /\ UNCHANGED <<rates, collected, totalShares, categoryIds, exempt, feeTokens>>

claim_one(c) == [c EXCEPT !.claimed = c.allocated]

\* Categories of other recipients, and those with nothing to claim, are skipped.
claim_batch(recipient, ids) ==
    LET mine == {id \in ids : categories[id].recipient = recipient}
        owed(id) == categories[id].allocated - categories[id].claimed
        total == SumOver(owed, mine)
    IN  /\ Cardinality(ids) <= MAX_BATCH_SIZE
        /\ total > 0
        /\ total <= feeTokens
        /\ categories' = [id \in DOMAIN categories |->
                            IF id \in mine
                            THEN claim_one(categories[id])
                            ELSE categories[id]]
        /\ feeTokens' = feeTokens - total
        /\ UNCHANGED <<rates, collected, allocated, totalShares, categoryIds, exempt, distributions>>

claim(recipient, id) == categories[id].recipient = recipient /\ claim_batch(recipient, {id})

-----------------------------------------------------------------------------
FeeAdministration ==
    \/ \E r, m \in FeeBps : initialize(r, m)
    \/ \E flag \in BOOLEAN : set_paused(flag)
    \/ \E r \in FeeBps : set_fee_rate(r) \/ emergency_set_fee_rate(r) \/ set_max_fee_rate(r)
    \/ \E c \in Category, a \in Party, s \in ShareBps : add_category(c, a, s)
    \/ \E c \in DOMAIN categories :
          \/ \E a \in Party, s \in ShareBps : update_category(c, a, s)
          \/ remove_category(c)
          \/ \E s \in ShareBps : reactivate_category(c, s)
    \/ \E a \in Party, flag \in BOOLEAN : set_exempt(a, flag)

FeeFlow ==
    \/ \E a \in Party, g \in Gross : collect_fee(a, g)
    \/ distribute
    \/ \E a \in Party, c \in DOMAIN categories : claim(a, c)
    \/ \E a \in Party : \E ids \in SUBSET DOMAIN categories : claim_batch(a, ids)

FeesNext == FeeAdministration \/ FeeFlow

FeesSpec == FeesInit /\ [][FeesNext]_feeStore

-----------------------------------------------------------------------------
RecipientCategory ==
    [recipient : Party, share : Nat, allocated : Nat, claimed : Nat, active : BOOLEAN]

\* Every variable has its type, no balance is negative, and the rate never
\* exceeds the maximum nor the hard cap, "enforced even for emergency
\* adjustments" and when the maximum is lowered.
FeesTypeOK ==
    /\ feeReady \in BOOLEAN /\ feePaused \in BOOLEAN
    /\ feeRate \in 0..maxFeeRate /\ maxFeeRate \in 0..HARD_CAP_FEE_RATE_BPS
    /\ collected \in Nat /\ allocated \in Nat /\ totalShares \in Nat
    /\ DOMAIN categories \subseteq Category
    /\ categories \in [DOMAIN categories -> RecipientCategory]
    /\ Range(categoryIds) = DOMAIN categories /\ IsInjective(categoryIds)
    /\ exempt \subseteq Party /\ feeTokens \in Nat

\* Shares, allocations and tokens add up through every change of the
\* categories: the stored share total is the sum of the shares and at most the
\* whole, every distribution hands out exactly what was pending ("the sum of
\* allocations always equals `pending` exactly"), and the contract holds what
\* it collected less what was claimed, so every allocation can be claimed.
FeeBooks ==
    /\ totalShares = SumOver(LAMBDA c : categories[c].share, DOMAIN categories)
    /\ totalShares <= BPS_DENOMINATOR
    /\ \A i \in DOMAIN distributions :
          distributions[i].total = SumFunction(distributions[i].parts)
    /\ allocated = SumOver(LAMBDA c : categories[c].allocated, DOMAIN categories)
    /\ feeTokens = collected - SumOver(LAMBDA c : categories[c].claimed, DOMAIN categories)
    /\ allocated <= collected

\* What fee-distribution keeps true at every step: types, the cap on the rate, books.
FeesAddUp == FeesTypeOK /\ FeeBooks
=============================================================================
