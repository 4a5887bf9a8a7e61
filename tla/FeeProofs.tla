------------------------------ MODULE FeeProofs ------------------------------
(***************************************************************************)
(* The books of fee-distribution balance, for any set of categories and    *)
(* callers, any amounts and any rates within the hard cap.                 *)
(*                                                                         *)
(* FeesAddUp alone is not inductive. reactivate_category adds a share to   *)
(* the total of shares, so a category that is not active must have none;   *)
(* distribute walks the list of ids, so the list must name every category  *)
(* exactly once; and the last receiver gets what the others left, so the   *)
(* rounded parts of the others must add up to no more than is split.       *)
(***************************************************************************)
EXTENDS FeeDistribution, StorageTheorems

\* The maps that the fee-distribution books add up.
Shares == [c \in DOMAIN categories |-> categories[c].share]
Allocations == [c \in DOMAIN categories |-> categories[c].allocated]
Claims == [c \in DOMAIN categories |-> categories[c].claimed]

\* The flags, the rates within their caps and the exemptions.
RatesInv ==
    /\ feeReady \in BOOLEAN /\ feePaused \in BOOLEAN
    /\ feeRate \in 0..maxFeeRate /\ maxFeeRate \in 0..HARD_CAP_FEE_RATE_BPS
    /\ exempt \subseteq Party

\* The list of ids names every category once, and a removed category has no share.
CategoriesInv ==
    /\ DOMAIN categories \subseteq Category
    /\ categories \in [DOMAIN categories -> RecipientCategory]
    /\ \A c \in DOMAIN categories : ~categories[c].active => categories[c].share = 0
    /\ categoryIds \in Seq(Category)
    /\ Range(categoryIds) = DOMAIN categories /\ IsInjective(categoryIds)

\* The total of shares is the sum of the shares, at most the whole.
SharesInv == totalShares \in Nat /\ totalShares = SumFunction(Shares) /\ totalShares <= BPS_DENOMINATOR

\* What is allocated is the sum of the allocations, and the balance is what was
\* collected and not claimed.
FundsInv ==
    /\ collected \in Nat /\ allocated \in Nat /\ feeTokens \in Nat
    /\ allocated = SumFunction(Allocations) /\ allocated <= collected
    /\ feeTokens = collected - SumFunction(Claims)

\* No category is ever allocated a negative part.
Distribution == [total : Nat, parts : UNION {[D -> Nat] : D \in SUBSET Category}]

\* Every recorded distribution is the sum of its parts.
HistoryInv ==
    /\ distributions \in Seq(Distribution)
    /\ \A i \in DOMAIN distributions :
          distributions[i].total = SumFunction(distributions[i].parts)

\* The inductive invariant.
FeesInv == FeeConstants /\ RatesInv /\ CategoriesInv /\ SharesInv /\ FundsInv /\ HistoryInv

\* The summed maps are finite maps of naturals.
LEMMA CategoryMaps ==
    ASSUME CategoriesInv
    PROVE  /\ IsFiniteSet(DOMAIN categories)
           /\ NatMap(Shares) /\ NatMap(Allocations) /\ NatMap(Claims)
           /\ IntMap(Shares) /\ IntMap(Allocations) /\ IntMap(Claims)
  <1>1. IsFiniteSet(DOMAIN categories)
    BY RangeFinite DEF CategoriesInv
  <1>2. NatMap(Shares) /\ NatMap(Allocations) /\ NatMap(Claims)
    BY <1>1 DEF NatMap, CategoriesInv, Shares, Allocations, Claims, RecipientCategory
  <1>3. QED
    BY <1>1, <1>2, NatMapIsIntMap

\* The invariant implies what the run checks.
LEMMA FeesImplied == FeesInv => FeesAddUp
  <1> SUFFICES ASSUME FeesInv PROVE FeesAddUp
    OBVIOUS
  <1>1. FeesTypeOK
    BY DEF FeesInv, RatesInv, CategoriesInv, SharesInv, FundsInv, FeesTypeOK
  <1>2. FeeBooks
    BY DEF FeesInv, SharesInv, FundsInv, HistoryInv, FeeBooks, SumOver, Shares, Allocations, Claims
  <1>3. QED
    BY <1>1, <1>2 DEF FeesAddUp

\* The contract as deployed.
LEMMA FeesStart == FeeConstants /\ FeesInit => FeesInv
  <1> SUFFICES ASSUME FeeConstants, FeesInit PROVE FeesInv
    OBVIOUS
  <1>1. DOMAIN categories = {} /\ categoryIds = <<>> /\ distributions = <<>>
    BY DEF FeesInit, EmptyMap
  <1>2. RatesInv
    <2>1. feeReady \in BOOLEAN /\ feePaused \in BOOLEAN /\ exempt \subseteq Party
      BY DEF FeesInit
    <2>2. feeRate \in 0..maxFeeRate /\ maxFeeRate \in 0..HARD_CAP_FEE_RATE_BPS
      BY DEF FeesInit, FeeConstants
    <2>3. QED
      BY <2>1, <2>2 DEF RatesInv
  <1>3. CategoriesInv
    <2>1. Range(categoryIds) = {} /\ IsInjective(categoryIds)
      BY <1>1 DEF Range, IsInjective
    <2>2. categories \in [DOMAIN categories -> RecipientCategory]
      BY <1>1 DEF FeesInit, EmptyMap
    <2>3. categoryIds \in Seq(Category)
      BY <1>1
    <2>4. QED
      BY <1>1, <2>1, <2>2, <2>3 DEF CategoriesInv
  <1>4. SumFunction(Shares) = 0 /\ SumFunction(Allocations) = 0 /\ SumFunction(Claims) = 0
    BY <1>1, SumEmpty DEF Shares, Allocations, Claims
  <1>5. SharesInv
    BY <1>4 DEF FeesInit, SharesInv, FeeConstants
  <1>6. FundsInv
    BY <1>4 DEF FeesInit, FundsInv
  <1>7. HistoryInv
    BY <1>1 DEF HistoryInv
  <1>8. QED
    BY <1>2, <1>3, <1>5, <1>6, <1>7 DEF FeesInv

\* Changes of the rates, the pause and the exemptions.
LEMMA RatesFees ==
    ASSUME FeesInv, RatesInv', UNCHANGED <<collected, allocated, shares, distributions, feeTokens>>
    PROVE  FeesInv'
  <1>1. Shares' = Shares /\ Allocations' = Allocations /\ Claims' = Claims
    BY DEF shares, Shares, Allocations, Claims
  <1>2. CategoriesInv'
    BY DEF FeesInv, CategoriesInv, RecipientCategory, shares
  <1>3. SharesInv' /\ FundsInv'
    BY <1>1 DEF FeesInv, SharesInv, FundsInv, shares
  <1>4. HistoryInv'
    BY DEF FeesInv, HistoryInv, Distribution
  <1>5. QED
    BY <1>2, <1>3, <1>4 DEF FeesInv, FeeConstants

\* What the admin does to one category: its share may change, within the whole;
\* what it was allocated and has claimed may not.
LEMMA CategoryEdited ==
    ASSUME FeesInv, NEW id \in DOMAIN categories, NEW r \in RecipientCategory,
           categories' = [categories EXCEPT ![id] = r],
           r.allocated = categories[id].allocated, r.claimed = categories[id].claimed,
           ~r.active => r.share = 0,
           reshare(categories[id].share, r.share),
           UNCHANGED <<rates, collected, allocated, categoryIds, exempt, distributions, feeTokens>>
    PROVE  FeesInv'
  <1>1. /\ DOMAIN categories' = DOMAIN categories
        /\ \A c \in DOMAIN categories : categories'[c] = IF c = id THEN r ELSE categories[c]
    BY DEF FeesInv, CategoriesInv
  <1>2. \A c \in DOMAIN categories : categories[c] \in RecipientCategory
    BY DEF FeesInv, CategoriesInv
  <1>3. CategoriesInv'
    <2>1. categories' \in [DOMAIN categories' -> RecipientCategory']
      BY <1>1, <1>2 DEF FeesInv, CategoriesInv, RecipientCategory
    <2>2. \A c \in DOMAIN categories' : ~categories'[c].active => categories'[c].share = 0
      BY <1>1 DEF FeesInv, CategoriesInv
    <2>3. QED
      BY <1>1, <2>1, <2>2 DEF FeesInv, CategoriesInv
  <1>4. Allocations' = Allocations /\ Claims' = Claims
    BY <1>1 DEF Allocations, Claims
  <1>5. /\ ChangesKey(Shares', Shares, id)
        /\ Shares[id] = categories[id].share /\ Shares'[id] = r.share
    BY <1>1, <1>2, CategoryMaps DEF ChangesKey, Shares, FeesInv, RecipientCategory
  <1>6. SumFunction(Shares') = SumFunction(Shares) - Shares[id] + Shares'[id]
    BY <1>5, SumChange
  <1>7. SharesInv'
    <2>1. totalShares' = SumFunction(Shares') /\ totalShares' <= BPS_DENOMINATOR
      BY <1>5, <1>6 DEF FeesInv, SharesInv, reshare
    <2>2. NatMap(Shares')
      BY <1>1, <1>2, CategoryMaps DEF NatMap, Shares, FeesInv, RecipientCategory
    <2>3. QED
      BY <2>1, <2>2, SumNat DEF SharesInv
  <1>8. FundsInv'
    BY <1>4 DEF FeesInv, FundsInv
  <1>9. RatesInv' /\ HistoryInv'
    BY DEF FeesInv, RatesInv, HistoryInv, Distribution, rates
  <1>10. QED
    BY <1>3, <1>7, <1>8, <1>9 DEF FeesInv, FeeConstants

\* A new category: it has a share, within the whole, and nothing allocated.
LEMMA AddCategoryFees ==
    ASSUME FeesInv, NEW id \in Category, NEW a \in Party, NEW s \in ShareBps,
           add_category(id, a, s)
    PROVE  FeesInv'
  <1> DEFINE r == [recipient |-> a, share |-> s, allocated |-> 0, claimed |-> 0, active |-> TRUE]
  <1>1. /\ id \notin DOMAIN categories /\ reshare(0, s) /\ categories' = Put(categories, id, r)
        /\ categoryIds' = Append(categoryIds, id)
        /\ UNCHANGED <<rates, collected, allocated, exempt, distributions, feeTokens>>
    BY DEF add_category, is_new
  <1>2. s \in Nat /\ r \in RecipientCategory
    BY DEF FeesInv, FeeConstants, RecipientCategory
  <1>3. r.share = s /\ r.allocated = 0 /\ r.claimed = 0 /\ r.active
    OBVIOUS
  <1> HIDE DEF r
  <1>4. /\ DOMAIN categories' = DOMAIN categories \cup {id}
        /\ \A c \in DOMAIN categories' : categories'[c] = IF c = id THEN r ELSE categories[c]
        /\ \A c \in DOMAIN categories : categories[c] \in RecipientCategory
        /\ categories' = [c \in DOMAIN categories' |-> categories'[c]]
    BY <1>1 DEF Put, FeesInv, CategoriesInv
  <1>5. CategoriesInv'
    <2>1. /\ categories' \in [DOMAIN categories' -> RecipientCategory]
          /\ DOMAIN categories' \subseteq Category
      BY <1>2, <1>4 DEF FeesInv, CategoriesInv
    <2>2. /\ categoryIds' \in Seq(Category)
          /\ Range(categoryIds') = DOMAIN categories'
      BY <1>1, <1>4, RangeAppend DEF FeesInv, CategoriesInv
    <2>3. IsInjective(categoryIds')
      BY <1>1, InjectiveAppend DEF FeesInv, CategoriesInv
    <2>4. \A c \in DOMAIN categories' : ~categories'[c].active => categories'[c].share = 0
      BY <1>3, <1>4 DEF FeesInv, CategoriesInv
    <2>5. QED
      BY <2>1, <2>2, <2>3, <2>4 DEF CategoriesInv, RecipientCategory
  <1>6. /\ AddsKey(Shares', Shares, id) /\ Shares'[id] = s
        /\ AddsKey(Allocations', Allocations, id) /\ Allocations'[id] = 0
        /\ AddsKey(Claims', Claims, id) /\ Claims'[id] = 0
    <2>1. IntMap(Shares) /\ IntMap(Allocations) /\ IntMap(Claims)
      BY CategoryMaps DEF FeesInv
    <2>2. \A c \in DOMAIN categories : /\ categories[c].share \in Int
                                       /\ categories[c].allocated \in Int
                                       /\ categories[c].claimed \in Int
      BY <1>4 DEF RecipientCategory
    <2>3. AddsKey(Shares', Shares, id) /\ Shares'[id] = s
      BY <1>1, <1>2, <1>3, <1>4, <2>1, <2>2 DEF AddsKey, Shares
    <2>4. AddsKey(Allocations', Allocations, id) /\ Allocations'[id] = 0
      BY <1>1, <1>3, <1>4, <2>1, <2>2 DEF AddsKey, Allocations
    <2>5. AddsKey(Claims', Claims, id) /\ Claims'[id] = 0
      BY <1>1, <1>3, <1>4, <2>1, <2>2 DEF AddsKey, Claims
    <2>6. QED
      BY <2>3, <2>4, <2>5
  <1>7. /\ SumFunction(Shares') = SumFunction(Shares) + s
        /\ SumFunction(Allocations') = SumFunction(Allocations) + 0
        /\ SumFunction(Claims') = SumFunction(Claims) + 0
        /\ SumFunction(Allocations) \in Int /\ SumFunction(Claims) \in Int
    BY <1>6, SumAdd
  <1>8. SharesInv'
    BY <1>1, <1>2, <1>7 DEF FeesInv, SharesInv, reshare
  <1>9. FundsInv'
    BY <1>1, <1>7 DEF FeesInv, FundsInv
  <1>10. RatesInv' /\ HistoryInv'
    BY <1>1 DEF FeesInv, RatesInv, HistoryInv, Distribution, rates
  <1>11. QED
    BY <1>5, <1>8, <1>9, <1>10 DEF FeesInv, FeeConstants

\* A fee collected raises the balance by what it adds to the total.
LEMMA CollectFees ==
    ASSUME FeesInv, NEW a \in Party, NEW g \in Gross, collect_fee(a, g)
    PROVE  FeesInv'
  <1>1. PICK fee \in Nat : /\ collected' = collected + fee /\ feeTokens' = feeTokens + fee
                           /\ UNCHANGED <<rates, allocated, shares, exempt, distributions>>
    <2>1. g \in Nat /\ feeRate \in Nat /\ BPS_DENOMINATOR \in Nat \ {0}
      BY DEF collect_fee, FeesInv, FeeConstants, RatesInv
    <2>2. calculate_fee(g) \in Nat
      BY <2>1, ProductNat, FloorNat DEF calculate_fee
    <2>3. QED
      BY <2>2 DEF collect_fee
  <1>2. Shares' = Shares /\ Allocations' = Allocations /\ Claims' = Claims
    BY <1>1 DEF shares, Shares, Allocations, Claims
  <1>3. CategoriesInv'
    BY <1>1 DEF FeesInv, CategoriesInv, RecipientCategory, shares
  <1>4. SumFunction(Claims) \in Int
    BY CategoryMaps, SumType DEF FeesInv
  <1>5. SharesInv' /\ FundsInv'
    BY <1>1, <1>2, <1>4 DEF FeesInv, SharesInv, FundsInv, shares
  <1>6. RatesInv' /\ HistoryInv'
    BY <1>1 DEF FeesInv, RatesInv, HistoryInv, Distribution, rates
  <1>7. QED
    BY <1>3, <1>5, <1>6 DEF FeesInv, FeeConstants

\* Parts rounded down, of shares that together are at most the whole, together
\* are at most what is split.
LEMMA PartsWithin ==
    ASSUME NEW sh, NatMap(sh), NEW B \in Nat \ {0}, SumFunction(sh) <= B, NEW p \in Nat,
           NEW q, DOMAIN q = DOMAIN sh, q = [k \in DOMAIN q |-> (p * sh[k]) \div B]
    PROVE  NatMap(q) /\ SumFunction(q) \in Nat /\ SumFunction(q) <= p
  <1> DEFINE ps == [k \in DOMAIN sh |-> p * sh[k]]
             bq == [k \in DOMAIN q |-> B * q[k]]
  <1>1. \A k \in DOMAIN sh : sh[k] \in Nat /\ p * sh[k] \in Nat
    BY ProductNat DEF NatMap
  <1>2. \A k \in DOMAIN q : q[k] \in Nat /\ q[k] * B <= p * sh[k]
    BY <1>1, FloorNat, FloorBound
  <1>3. NatMap(q) /\ IntMap(q) /\ IntMap(sh)
    BY <1>2, NatMapIsIntMap DEF NatMap
  <1>4. Scales(ps, sh, p)
    BY <1>1, <1>3 DEF Scales
  <1>5. Scales(bq, q, B)
    <2>1. \A k \in DOMAIN q : B * q[k] \in Int
      BY <1>2, ProductNat
    <2>2. QED
      BY <1>3, <2>1 DEF Scales
  <1>6. Below(bq, ps)
    <2>1. IntMap(bq) /\ IntMap(ps)
      BY <1>4, <1>5, SumScale
    <2>2. \A k \in DOMAIN bq : bq[k] <= ps[k]
      <3>1. \A k \in DOMAIN q : B * q[k] = q[k] * B
        BY <1>2
      <3>2. QED
        BY <1>2, <3>1
    <2>3. QED
      BY <2>1, <2>2 DEF Below
  <1>7. SumFunction(q) \in Nat /\ SumFunction(sh) \in Nat
    BY <1>3, SumNat
  <1> HIDE DEF ps, bq
  <1>8. B * SumFunction(q) <= p * SumFunction(sh)
    BY <1>4, <1>5, <1>6, SumScale, SumMonotone
  <1>9. p * SumFunction(sh) <= p * B
    BY <1>7
  <1>10. SumFunction(q) * B <= p * B
    <2>1. B * SumFunction(q) = SumFunction(q) * B /\ p * SumFunction(sh) \in Int /\ p * B \in Int
          /\ B * SumFunction(q) \in Int
      BY <1>7
    <2>2. QED
      BY <1>8, <1>9, <2>1
  <1>11. QED
    BY <1>3, <1>7, <1>10, CancelFactor

\* A distribution hands out exactly what is pending, and nobody a negative part.
LEMMA SplitAddsUp ==
    ASSUME FeesInv, NEW p \in Nat, NEW ids \in Seq(Category), ids # <<>>,
           Range(ids) \subseteq DOMAIN categories, totalShares = BPS_DENOMINATOR,
           NEW split, split = [id \in Range(ids) |-> allocation(p, id, ids)]
    PROVE  NatMap(split) /\ SumFunction(split) = p
  <1> DEFINE last == ids[Len(ids)]
             D == Range(ids) \ {last}
             sh == [c \in D |-> Shares[c]]
             q == [c \in D |-> Part(p, c)]
  <1>1. last \in Range(ids) /\ IsFiniteSet(Range(ids))
    <2>1. Len(ids) \in 1..Len(ids) /\ DOMAIN ids = 1..Len(ids)
      BY EmptySeq, LenProperties
    <2>2. QED
      BY <2>1, RangeFinite DEF Range
  <1>2. NatMap(Shares) /\ DOMAIN Shares = DOMAIN categories
    BY CategoryMaps DEF FeesInv, Shares
  <1>3. NatMap(sh) /\ SumFunction(sh) <= SumFunction(Shares)
    <2>1. sh \in [DOMAIN sh -> Int] /\ DOMAIN sh \subseteq DOMAIN Shares
      BY <1>2 DEF NatMap
    <2>2. \A k \in DOMAIN sh : sh[k] = Shares[k]
      OBVIOUS
    <2> HIDE DEF sh
    <2>3. QED
      BY <1>2, <2>1, <2>2, SumPart
  <1>4. BPS_DENOMINATOR \in Nat \ {0} /\ SumFunction(sh) <= BPS_DENOMINATOR
    BY <1>3 DEF FeesInv, FeeConstants, SharesInv
  <1>5. DOMAIN q = DOMAIN sh /\ q = [k \in DOMAIN q |-> (p * sh[k]) \div BPS_DENOMINATOR]
    BY DEF Part, Shares
  <1>6. \A id \in Range(ids) : split[id] = IF id = last THEN p - SumFunction(q) ELSE q[id]
    BY DEF allocation, SumOver
  <1>7. DOMAIN q = D /\ DOMAIN split = Range(ids)
    OBVIOUS
  <1> HIDE DEF q, sh
  <1>8. NatMap(q) /\ SumFunction(q) \in Nat /\ SumFunction(q) <= p
    BY <1>3, <1>4, <1>5, PartsWithin
  <1>9. NatMap(split)
    <2>1. \A id \in Range(ids) : split[id] \in Nat
      BY <1>6, <1>7, <1>8 DEF NatMap
    <2>2. QED
      BY <1>1, <1>7, <2>1 DEF NatMap
  <1>10. AddsKey(split, q, last) /\ split[last] = p - SumFunction(q)
    BY <1>1, <1>6, <1>7, <1>8, <1>9, NatMapIsIntMap DEF AddsKey, NatMap
  <1>11. QED
    BY <1>8, <1>9, <1>10, SumAdd

\* A call that raises what categories were allocated, or have claimed, by the maps
\* da and dc, and nothing else of them.
LEMMA CategoriesRaised ==
    ASSUME FeesInv, NEW da, NEW dc, IntMap(da), IntMap(dc),
           DOMAIN da = DOMAIN categories, DOMAIN dc = DOMAIN categories,
           DOMAIN categories' = DOMAIN categories,
           categories' \in [DOMAIN categories -> RecipientCategory],
           \A c \in DOMAIN categories :
              /\ categories'[c].share = categories[c].share
              /\ categories'[c].active = categories[c].active
              /\ categories'[c].allocated = categories[c].allocated + da[c]
              /\ categories'[c].claimed = categories[c].claimed + dc[c],
           UNCHANGED <<rates, collected, totalShares, categoryIds, exempt>>
    PROVE  /\ RatesInv' /\ CategoriesInv' /\ SharesInv'
           /\ SumFunction(Allocations') = SumFunction(Allocations) + SumFunction(da)
           /\ SumFunction(Claims') = SumFunction(Claims) + SumFunction(dc)
           /\ SumFunction(Allocations) \in Int /\ SumFunction(Claims) \in Int
  <1>1. IntMap(Allocations) /\ IntMap(Claims)
    BY CategoryMaps DEF FeesInv
  <1>2. AddsUp(Allocations', Allocations, da)
    BY <1>1 DEF AddsUp, Allocations
  <1>3. AddsUp(Claims', Claims, dc)
    BY <1>1 DEF AddsUp, Claims
  <1>4. Shares' = Shares
    BY DEF Shares
  <1>5. SharesInv'
    BY <1>4 DEF FeesInv, SharesInv
  <1>6. CategoriesInv'
    <2>1. \A c \in DOMAIN categories' : ~categories'[c].active => categories'[c].share = 0
      BY DEF FeesInv, CategoriesInv
    <2>2. QED
      BY <2>1 DEF FeesInv, CategoriesInv, RecipientCategory
  <1>7. RatesInv'
    BY DEF FeesInv, RatesInv, rates
  <1>8. QED
    BY <1>2, <1>3, <1>5, <1>6, <1>7, SumPlus

\* distribute allocates what is pending.
LEMMA DistributeFees == ASSUME FeesInv, distribute PROVE FeesInv'
  <1> DEFINE p == collected - allocated
             R == {id \in DOMAIN categories : Receives(id)}
             ids == Kept(categoryIds, R)
             split == [id \in Range(ids) |-> allocation(p, id, ids)]
             da == [c \in DOMAIN categories |-> IF c \in DOMAIN split THEN split[c] ELSE 0]
             dc == [c \in DOMAIN categories |-> 0]
  <1>1. /\ totalShares = BPS_DENOMINATOR /\ p > 0 /\ ids # <<>>
        /\ categories' = [id \in DOMAIN categories |->
                            [categories[id] EXCEPT !.allocated = @ + GetOr(split, id, 0)]]
        /\ allocated' = allocated + p
        /\ distributions' = Append(distributions, [total |-> p, parts |-> split])
        /\ UNCHANGED <<rates, collected, totalShares, categoryIds, exempt, feeTokens>>
    BY Zenon DEF distribute
  <1>2. p \in Nat
    BY DEF FeesInv, FundsInv
  <1>3. ids \in Seq(Category) /\ Range(ids) \subseteq DOMAIN categories
    BY KeptType, KeptRange DEF FeesInv, CategoriesInv
  <1>4. PICK s : s = split
    OBVIOUS
  <1>5. DOMAIN s = Range(ids) /\ s = [id \in Range(ids) |-> allocation(p, id, ids)]
    BY <1>4
  <1> HIDE DEF p, ids
  <1>6. NatMap(s) /\ SumFunction(s) = p
    BY <1>1, <1>2, <1>3, <1>5, SplitAddsUp
  <1>7. /\ da = [c \in DOMAIN categories |-> IF c \in DOMAIN s THEN s[c] ELSE 0]
        /\ \A c \in DOMAIN categories :
              categories'[c] = [categories[c] EXCEPT !.allocated = @ + GetOr(s, c, 0)]
        /\ DOMAIN categories' = DOMAIN categories
        /\ categories' = [c \in DOMAIN categories |-> categories'[c]]
        /\ distributions' = Append(distributions, [total |-> p, parts |-> s])
    BY <1>1, <1>4
  <1> HIDE DEF split
  <1>8. /\ DOMAIN da = DOMAIN categories /\ DOMAIN dc = DOMAIN categories
        /\ \A c \in DOMAIN categories : GetOr(s, c, 0) = da[c] /\ da[c] \in Nat /\ dc[c] = 0
    BY <1>6, <1>7 DEF GetOr, NatMap
  <1>9. SumFunction(da) = p /\ IntMap(da)
    <2>1. Extends(da, s)
      BY <1>3, <1>5, <1>6, <1>7, NatMapIsIntMap, CategoryMaps DEF Extends, FeesInv
    <2>2. QED
      BY <1>6, <2>1, SumExtend
  <1>10. SumFunction(dc) = 0 /\ IntMap(dc)
    <2>1. IsFiniteSet(DOMAIN categories)
      BY CategoryMaps DEF FeesInv
    <2>2. QED
      BY <2>1, SumZero DEF IntMap
  <1> HIDE DEF da, dc
  <1>11. /\ categories' \in [DOMAIN categories -> RecipientCategory]
         /\ \A c \in DOMAIN categories :
              /\ categories'[c].share = categories[c].share
              /\ categories'[c].active = categories[c].active
              /\ categories'[c].allocated = categories[c].allocated + da[c]
              /\ categories'[c].claimed = categories[c].claimed + dc[c]
    <2>1. ASSUME NEW c \in DOMAIN categories
          PROVE  /\ categories'[c] \in RecipientCategory
                 /\ categories'[c].share = categories[c].share
                 /\ categories'[c].active = categories[c].active
                 /\ categories'[c].allocated = categories[c].allocated + da[c]
                 /\ categories'[c].claimed = categories[c].claimed
                 /\ categories[c].claimed \in Nat
      <3>1. categories[c] \in RecipientCategory /\ da[c] \in Nat
        BY <1>8 DEF FeesInv, CategoriesInv
      <3>2. categories'[c] = [categories[c] EXCEPT !.allocated = @ + da[c]]
        BY <1>7, <1>8
      <3>3. QED
        BY <3>1, <3>2 DEF RecipientCategory
    <2>2. QED
      BY <1>7, <1>8, <2>1
  <1>12. /\ RatesInv' /\ CategoriesInv' /\ SharesInv'
         /\ SumFunction(Allocations') = SumFunction(Allocations) + p
         /\ SumFunction(Claims') = SumFunction(Claims)
    <2>1. PICK ea, ec : ea = da /\ ec = dc
      OBVIOUS
    <2>2. /\ IntMap(ea) /\ IntMap(ec) /\ DOMAIN ea = DOMAIN categories /\ DOMAIN ec = DOMAIN categories
          /\ \A c \in DOMAIN categories :
                /\ categories'[c].share = categories[c].share
                /\ categories'[c].active = categories[c].active
                /\ categories'[c].allocated = categories[c].allocated + ea[c]
                /\ categories'[c].claimed = categories[c].claimed + ec[c]
      BY <1>8, <1>9, <1>10, <1>11, <2>1
    <2>3. /\ DOMAIN categories' = DOMAIN categories
          /\ categories' \in [DOMAIN categories -> RecipientCategory]
          /\ UNCHANGED <<rates, collected, totalShares, categoryIds, exempt>>
      BY <1>1, <1>7, <1>11
    <2>4. /\ RatesInv' /\ CategoriesInv' /\ SharesInv'
          /\ SumFunction(Allocations') = SumFunction(Allocations) + SumFunction(ea)
          /\ SumFunction(Claims') = SumFunction(Claims) + SumFunction(ec)
          /\ SumFunction(Allocations) \in Int /\ SumFunction(Claims) \in Int
      BY <2>2, <2>3, CategoriesRaised
    <2>5. QED
      BY <1>9, <1>10, <2>1, <2>4
  <1>13. FundsInv'
    BY <1>1, <1>2, <1>12 DEF FeesInv, FundsInv, p
  <1>14. HistoryInv'
    <2> DEFINE d == [total |-> p, parts |-> s]
    <2>1. d \in Distribution
      <3>1. s \in [DOMAIN s -> Nat] /\ DOMAIN s \in SUBSET Category
        BY <1>3, <1>5, <1>6 DEF NatMap, FeesInv, CategoriesInv
      <3>2. s \in UNION {[D -> Nat] : D \in SUBSET Category}
        BY <3>1
      <3>3. QED
        BY <1>2, <3>2 DEF Distribution
    <2>2. d.total = p /\ d.parts = s
      OBVIOUS
    <2> HIDE DEF d
    <2>3. distributions' = Append(distributions, d) /\ distributions \in Seq(Distribution)
      BY <1>7 DEF d, FeesInv, HistoryInv
    <2>4. distributions' \in Seq(Distribution)
      BY <2>1, <2>3
    <2>5. ASSUME NEW i \in DOMAIN distributions'
          PROVE  distributions'[i].total = SumFunction(distributions'[i].parts)
      <3>1. \/ i \in DOMAIN distributions /\ distributions'[i] = distributions[i]
            \/ distributions'[i] = d
        BY <2>1, <2>3, <2>5, AppendProperties, LenProperties
      <3>2. QED
        BY <1>6, <2>2, <3>1 DEF FeesInv, HistoryInv
    <2>6. QED
      BY <2>4, <2>5 DEF HistoryInv, Distribution
  <1>15. QED
    BY <1>12, <1>13, <1>14 DEF FeesInv, FeeConstants

\* claim_batch pays what it marks claimed.
LEMMA ClaimFees ==
    ASSUME FeesInv, NEW a \in Party, NEW ids \in SUBSET DOMAIN categories, claim_batch(a, ids)
    PROVE  FeesInv'
  <1> DEFINE mine == {id \in ids : categories[id].recipient = a}
             owed == [id \in mine |-> categories[id].allocated - categories[id].claimed]
             dc == [c \in DOMAIN categories |-> IF c \in DOMAIN owed THEN owed[c] ELSE 0]
             da == [c \in DOMAIN categories |-> 0]
  <1>1. /\ SumFunction(owed) <= feeTokens /\ feeTokens' = feeTokens - SumFunction(owed)
        /\ categories' = [id \in DOMAIN categories |->
                            IF id \in mine THEN claim_one(categories[id]) ELSE categories[id]]
        /\ UNCHANGED <<rates, collected, allocated, totalShares, categoryIds, exempt, distributions>>
    BY DEF claim_batch, SumOver
  <1>2. \A c \in DOMAIN categories : /\ categories[c] \in RecipientCategory
                                     /\ categories[c].allocated \in Nat
                                     /\ categories[c].claimed \in Nat
    BY DEF FeesInv, CategoriesInv, RecipientCategory
  <1>3. /\ DOMAIN owed = mine /\ mine \subseteq DOMAIN categories
        /\ DOMAIN dc = DOMAIN categories /\ DOMAIN da = DOMAIN categories
        /\ \A c \in mine : owed[c] = categories[c].allocated - categories[c].claimed /\ owed[c] \in Int
        /\ \A c \in DOMAIN categories : /\ dc[c] = IF c \in mine THEN owed[c] ELSE 0
                                        /\ da[c] = 0
    BY <1>2
  <1>4. IsFiniteSet(DOMAIN categories) /\ IsFiniteSet(mine)
    <2>1. IsFiniteSet(DOMAIN categories)
      BY CategoryMaps DEF FeesInv
    <2>2. QED
      BY <1>3, <2>1, FS_Subset
  <1>5. SumFunction(dc) = SumFunction(owed) /\ SumFunction(owed) \in Int /\ IntMap(dc)
    <2>1. Extends(dc, owed)
      BY <1>3, <1>4 DEF Extends, IntMap
    <2> HIDE DEF dc, owed
    <2>2. QED
      BY <2>1, SumExtend
  <1>6. SumFunction(da) = 0 /\ IntMap(da)
    BY <1>4, SumZero DEF IntMap
  <1> HIDE DEF da, dc, owed
  <1>7. /\ DOMAIN categories' = DOMAIN categories
        /\ categories' = [c \in DOMAIN categories |-> categories'[c]]
        /\ \A c \in DOMAIN categories :
              categories'[c] = IF c \in mine THEN claim_one(categories[c]) ELSE categories[c]
    BY <1>1
  <1> HIDE DEF mine
  <1>8. /\ categories' \in [DOMAIN categories -> RecipientCategory]
        /\ \A c \in DOMAIN categories :
              /\ categories'[c].share = categories[c].share
              /\ categories'[c].active = categories[c].active
              /\ categories'[c].allocated = categories[c].allocated + da[c]
              /\ categories'[c].claimed = categories[c].claimed + dc[c]
    <2>1. ASSUME NEW c \in DOMAIN categories
          PROVE  /\ categories'[c] \in RecipientCategory
                 /\ categories'[c].share = categories[c].share
                 /\ categories'[c].active = categories[c].active
                 /\ categories'[c].allocated = categories[c].allocated
                 /\ categories'[c].claimed = categories[c].claimed + dc[c]
      <3>1. CASE c \in mine
        <4>1. categories'[c] = [categories[c] EXCEPT !.claimed = categories[c].allocated]
          BY <1>7, <3>1 DEF claim_one
        <4>2. dc[c] = categories[c].allocated - categories[c].claimed
          BY <1>3, <3>1
        <4>3. /\ categories'[c] \in RecipientCategory
              /\ categories'[c].share = categories[c].share
              /\ categories'[c].active = categories[c].active
              /\ categories'[c].allocated = categories[c].allocated
              /\ categories'[c].claimed = categories[c].allocated
          BY <1>2, <4>1 DEF RecipientCategory
        <4>4. QED
          BY <1>2, <4>2, <4>3
      <3>2. CASE c \notin mine
        BY <1>2, <1>3, <1>7, <3>2
      <3>3. QED
        BY <3>1, <3>2
    <2>2. QED
      BY <1>2, <1>3, <1>7, <2>1
  <1>9. /\ RatesInv' /\ CategoriesInv' /\ SharesInv'
        /\ SumFunction(Allocations') = SumFunction(Allocations) + SumFunction(da)
        /\ SumFunction(Claims') = SumFunction(Claims) + SumFunction(dc)
        /\ SumFunction(Allocations) \in Int /\ SumFunction(Claims) \in Int
    <2>1. PICK ea, ec : ea = da /\ ec = dc
      OBVIOUS
    <2>2. QED
      BY <1>1, <1>3, <1>5, <1>6, <1>7, <1>8, <2>1, CategoriesRaised
  <1>10. FundsInv'
    BY <1>1, <1>5, <1>6, <1>9 DEF FeesInv, FundsInv
  <1>11. HistoryInv'
    BY <1>1 DEF FeesInv, HistoryInv, Distribution
  <1>12. QED
    BY <1>9, <1>10, <1>11 DEF FeesInv, FeeConstants

\* Every administrative call preserves the books.
LEMMA AdministrationFees == ASSUME FeesInv, FeeAdministration PROVE FeesInv'
  <1>1. ASSUME NEW r \in FeeBps, NEW m \in FeeBps, initialize(r, m) PROVE FeesInv'
    <2>1. RatesInv'
      <3>1. feeRate' \in 0..maxFeeRate' /\ maxFeeRate' \in 0..HARD_CAP_FEE_RATE_BPS
        BY <1>1 DEF initialize, validate_max_rate, FeesInv, FeeConstants
      <3>2. feeReady' \in BOOLEAN /\ feePaused' \in BOOLEAN /\ exempt' \subseteq Party
        BY <1>1 DEF initialize, FeesInv, RatesInv
      <3>3. QED
        BY <3>1, <3>2 DEF RatesInv
    <2>2. QED
      BY <1>1, <2>1, RatesFees DEF initialize
  <1>2. ASSUME NEW flag \in BOOLEAN, set_paused(flag) PROVE FeesInv'
    <2>1. RatesInv'
      BY <1>2 DEF set_paused, FeesInv, RatesInv
    <2>2. QED
      BY <1>2, <2>1, RatesFees DEF set_paused
  <1>3. ASSUME NEW r \in FeeBps, emergency_set_fee_rate(r) PROVE FeesInv'
    <2>1. RatesInv'
      <3>1. feeRate' \in 0..maxFeeRate' /\ maxFeeRate' \in 0..HARD_CAP_FEE_RATE_BPS
        BY <1>3 DEF emergency_set_fee_rate, FeesInv, FeeConstants, RatesInv
      <3>2. feeReady' \in BOOLEAN /\ feePaused' \in BOOLEAN /\ exempt' \subseteq Party
        BY <1>3 DEF emergency_set_fee_rate, FeesInv, RatesInv
      <3>3. QED
        BY <3>1, <3>2 DEF RatesInv
    <2>2. QED
      BY <1>3, <2>1, RatesFees DEF emergency_set_fee_rate
  <1>4. ASSUME NEW r \in FeeBps, set_max_fee_rate(r) PROVE FeesInv'
    <2>1. RatesInv'
      <3>1. feeRate' \in 0..maxFeeRate' /\ maxFeeRate' \in 0..HARD_CAP_FEE_RATE_BPS
        BY <1>4 DEF set_max_fee_rate, validate_max_rate, FeesInv, FeeConstants, RatesInv
      <3>2. feeReady' \in BOOLEAN /\ feePaused' \in BOOLEAN /\ exempt' \subseteq Party
        BY <1>4 DEF set_max_fee_rate, FeesInv, RatesInv
      <3>3. QED
        BY <3>1, <3>2 DEF RatesInv
    <2>2. QED
      BY <1>4, <2>1, RatesFees DEF set_max_fee_rate
  <1>5. ASSUME NEW a \in Party, NEW flag \in BOOLEAN, set_exempt(a, flag) PROVE FeesInv'
    <2>1. RatesInv'
      <3>1. exempt' \subseteq Party
        BY <1>5 DEF set_exempt, FeesInv, RatesInv
      <3>2. QED
        BY <1>5, <3>1 DEF set_exempt, FeesInv, RatesInv, rates
    <2>2. QED
      BY <1>5, <2>1, RatesFees DEF set_exempt
  <1>6. ASSUME NEW c \in DOMAIN categories, NEW a \in Party, NEW s \in ShareBps,
               update_category(c, a, s)
        PROVE  FeesInv'
    <2> DEFINE x == [categories[c] EXCEPT !.recipient = a, !.share = s]
    <2>1. categories[c] \in RecipientCategory /\ s \in Nat
      BY DEF FeesInv, CategoriesInv, FeeConstants
    <2>2. /\ x \in RecipientCategory /\ x.share = s /\ x.active = categories[c].active
          /\ x.allocated = categories[c].allocated /\ x.claimed = categories[c].claimed
      BY <2>1 DEF RecipientCategory
    <2>3. categories' = [categories EXCEPT ![c] = x]
      BY <1>6, <2>1 DEF update_category, RecipientCategory, FeesInv, CategoriesInv
    <2> HIDE DEF x
    <2>4. reshare(categories[c].share, x.share) /\ x.active
      BY <1>6, <2>2 DEF update_category
    <2>5. QED
      BY <1>6, <2>2, <2>3, <2>4, CategoryEdited DEF update_category
  <1>7. ASSUME NEW c \in DOMAIN categories, remove_category(c) PROVE FeesInv'
    <2> DEFINE x == [categories[c] EXCEPT !.active = FALSE, !.share = 0]
    <2>1. categories[c] \in RecipientCategory
      BY DEF FeesInv, CategoriesInv
    <2>2. /\ x \in RecipientCategory /\ x.share = 0
          /\ x.allocated = categories[c].allocated /\ x.claimed = categories[c].claimed
      BY <2>1 DEF RecipientCategory
    <2>3. categories' = [categories EXCEPT ![c] = x]
      BY <1>7, <2>1 DEF remove_category, RecipientCategory, FeesInv, CategoriesInv
    <2> HIDE DEF x
    <2>4. reshare(categories[c].share, x.share)
      BY <1>7, <2>2 DEF remove_category
    <2>5. QED
      BY <1>7, <2>2, <2>3, <2>4, CategoryEdited DEF remove_category

  <1>8. ASSUME NEW c \in DOMAIN categories, NEW s \in ShareBps, reactivate_category(c, s)
        PROVE  FeesInv'
    <2> DEFINE x == [categories[c] EXCEPT !.active = TRUE, !.share = s]
    <2>1. categories[c] \in RecipientCategory /\ s \in Nat
      BY DEF FeesInv, CategoriesInv, FeeConstants
    <2>2. /\ x \in RecipientCategory /\ x.share = s /\ x.active = TRUE
          /\ x.allocated = categories[c].allocated /\ x.claimed = categories[c].claimed
      BY <2>1 DEF RecipientCategory
    <2>3. categories' = [categories EXCEPT ![c] = x]
      BY <1>8, <2>1 DEF reactivate_category, RecipientCategory, FeesInv, CategoriesInv
    <2> HIDE DEF x
    <2>4. categories[c].share = 0
      BY <1>8 DEF reactivate_category, FeesInv, CategoriesInv
    <2>5. reshare(categories[c].share, x.share)
      BY <1>8, <2>2, <2>4 DEF reactivate_category
    <2>6. QED
      BY <1>8, <2>2, <2>3, <2>5, CategoryEdited DEF reactivate_category
  <1>9. QED
    BY <1>1, <1>2, <1>3, <1>4, <1>5, <1>6, <1>7, <1>8, AddCategoryFees
       DEF FeeAdministration, set_fee_rate

\* A step preserves the books.
LEMMA NextFees == FeesInv /\ [FeesNext]_feeStore => FeesInv'
  <1> SUFFICES ASSUME FeesInv, [FeesNext]_feeStore PROVE FeesInv'
    OBVIOUS
  <1>1. CASE FeeAdministration
    BY <1>1, AdministrationFees
  <1>2. CASE FeeFlow
    <2>1. ASSUME NEW a \in Party, NEW c \in DOMAIN categories, claim(a, c) PROVE FeesInv'
      BY <2>1, ClaimFees DEF claim
    <2>2. QED
      BY <1>2, <2>1, CollectFees, DistributeFees, ClaimFees DEF FeeFlow
  <1>3. CASE UNCHANGED feeStore
    <2>1. RatesInv'
      BY <1>3 DEF FeesInv, RatesInv, feeStore, rates
    <2>2. QED
      BY <1>3, <2>1, RatesFees DEF feeStore
  <1>4. QED
    BY <1>1, <1>2, <1>3 DEF FeesNext

\* Whatever is collected, distributed and claimed, and whichever categories are added,
\* removed and brought back: the shares add up to at most the whole, what is allocated
\* is what the categories were given, every distribution is the sum of its parts, and
\* the contract holds what was collected and not claimed.
THEOREM FeesAlwaysAddUp == FeeConstants /\ FeesSpec => []FeesAddUp
  <1>1. FeesInv => FeeConstants
    BY DEF FeesInv
  <1>2. QED
    BY FeesStart, NextFees, FeesImplied, PTL DEF FeesSpec
=============================================================================
