---------------------------- MODULE StakingProofs ----------------------------
(***************************************************************************)
(* Proofs about Staking, for any users, amounts, rates, tiers and batches. *)
(*                                                                         *)
(* What is claimable is rounded down position by position, so the claims   *)
(* are not inductive.  The invariant bounds what they are rounded from:    *)
(* the accumulator's growth since each position's snapshot, times the      *)
(* position's weight.                                                      *)
(***************************************************************************)
EXTENDS Staking, StorageTheorems

\* The weight of a position by its tier as it is now.
WeightOf(id) == calculate_weight(stakes[id].amount, TierOf(id).multiplier)

\* The maps the books add up, and what the open positions would be owed, before
\* rounding, if the accumulator stood at r.
Principals == [id \in ActiveStakes |-> stakes[id].amount]
Weights == [id \in ActiveStakes |-> WeightOf(id)]
Owed(r) == [id \in ActiveStakes |-> (r - stakes[id].paid) * WeightOf(id)]
Pending == [id \in ActiveStakes |-> calculate_pending_rewards_static(id)]

\* Tiers and positions are numbered from 1, and no snapshot is ahead of the
\* accumulator.
RecordsInv ==
    /\ tiers \in [DOMAIN tiers -> StakingTier]
    /\ stakes \in [DOMAIN stakes -> StakePosition]
    /\ NumberedFrom1(DOMAIN tiers) /\ NumberedFrom1(DOMAIN stakes)
    /\ rpt \in Nat /\ \A id \in DOMAIN stakes : stakes[id].paid <= rpt

\* The reward stream.
StreamInv ==
    /\ rate \in Nat /\ now \in Nat /\ lastRewardTime \in 0..now /\ emitted \in Nat
    /\ totalWeighted \in Int /\ totalRewards \in Nat

\* The flags.
FlagsInv ==
    /\ stakingReady \in BOOLEAN /\ stakingPaused \in BOOLEAN
    /\ reweighted \in BOOLEAN /\ repeated \in BOOLEAN

\* The tokens held are the principals, and what was funded or forfeited and not paid.
TokensInv ==
    /\ stakingTokens \in Nat /\ funded \in Nat /\ penalties \in Nat
    /\ totalStaked = SumFunction(Principals)
    /\ stakingTokens = totalStaked + funded + penalties - totalRewards

\* Until a tier in use changes, the total weight is the sum of the weights.
WeightInv == ~reweighted => totalWeighted = SumFunction(Weights)

\* What was paid and what is owed, before rounding, is at most what was emitted.
CreditInv ==
    ~reweighted /\ ~repeated =>
        totalRewards * PRECISION_FACTOR + SumFunction(Owed(rpt)) <= emitted * PRECISION_FACTOR

\* The inductive invariant.
BooksInv ==
    /\ StakingConstants
    /\ FlagsInv /\ RecordsInv /\ StreamInv /\ TokensInv /\ WeightInv /\ CreditInv

-----------------------------------------------------------------------------
\* The open positions are finitely many.
LEMMA FinitelyMany ==
    ASSUME RecordsInv
    PROVE  IsFiniteSet(ActiveStakes) /\ ActiveStakes \subseteq DOMAIN stakes
  <1>1. IsFiniteSet(DOMAIN stakes)
    BY NextNumber DEF RecordsInv
  <1>2. ActiveStakes \subseteq DOMAIN stakes
    BY DEF ActiveStakes
  <1>3. QED
    BY <1>1, <1>2, FS_Subset

\* The weight of a position is a natural.
LEMMA WeightNat ==
    ASSUME StakingConstants, RecordsInv, NEW id \in DOMAIN stakes
    PROVE  WeightOf(id) \in Nat
  <1>1. stakes[id].amount \in Nat /\ TierOf(id).multiplier \in Nat
    BY DEF RecordsInv, StakePosition, StakingTier, TierOf
  <1>2. stakes[id].amount * TierOf(id).multiplier \in Nat
    BY <1>1, ProductNat
  <1>3. QED
    BY <1>2, FloorNat DEF WeightOf, calculate_weight, StakingConstants

\* The maps hold naturals, what is owed at every later value of the accumulator
\* included.
LEMMA StakeMaps ==
    ASSUME StakingConstants, RecordsInv
    PROVE  /\ NatMap(Principals) /\ NatMap(Weights)
           /\ \A r \in Nat : r >= rpt => NatMap(Owed(r))
           /\ IntMap(Principals) /\ IntMap(Weights)
           /\ \A r \in Nat : r >= rpt => IntMap(Owed(r))
  <1>1. IsFiniteSet(ActiveStakes) /\ ActiveStakes \subseteq DOMAIN stakes
    BY FinitelyMany
  <1>2. \A id \in ActiveStakes : WeightOf(id) \in Nat /\ stakes[id].amount \in Nat
    BY <1>1, WeightNat DEF RecordsInv, StakePosition
  <1>3. NatMap(Principals) /\ NatMap(Weights)
    BY <1>1, <1>2 DEF NatMap, Principals, Weights
  <1>4. ASSUME NEW r \in Nat, r >= rpt PROVE NatMap(Owed(r))
    <2>1. \A id \in ActiveStakes : r - stakes[id].paid \in Nat
      BY <1>1, <1>4 DEF RecordsInv, StakePosition
    <2>2. \A id \in ActiveStakes : (r - stakes[id].paid) * WeightOf(id) \in Nat
      BY <1>2, <2>1, ProductNat
    <2>3. QED
      BY <1>1, <2>2 DEF NatMap, Owed
  <1>5. QED
    BY <1>3, <1>4, NatMapIsIntMap

\* Bringing the accumulator up to date moves it forward, by no more than the
\* release divided over the weights.
LEMMA PoolFacts ==
    ASSUME StakingConstants, RecordsInv, StreamInv
    PROVE  /\ Elapsed \in Nat /\ lastRewardTime + Elapsed = now
           /\ Accrued \in Nat /\ FutureRpt \in Nat /\ FutureRpt >= rpt
           /\ totalWeighted > 0 =>
                (FutureRpt - rpt) * totalWeighted <= Accrued * PRECISION_FACTOR
           /\ totalWeighted <= 0 => FutureRpt = rpt
  <1>1. Elapsed \in Nat /\ lastRewardTime + Elapsed = now
    BY DEF StreamInv, Elapsed
  <1>2. Accrued \in Nat
    <2>1. rate * Elapsed \in Nat
      BY <1>1, ProductNat DEF StreamInv
    <2>2. QED
      BY <2>1 DEF Accrued
  <1>3. CASE totalWeighted > 0
    <2> DEFINE x == Accrued * PRECISION_FACTOR
               q == x \div totalWeighted
    <2>1. x \in Nat
      BY <1>2, ProductNat DEF StakingConstants
    <2>2. totalWeighted \in Nat \ {0}
      BY <1>3 DEF StreamInv
    <2> HIDE DEF x
    <2>3. q \in Nat /\ q * totalWeighted <= x
      BY <2>1, <2>2, FloorNat, FloorBound
    <2>4. FutureRpt = rpt + q /\ rpt \in Nat
      BY <1>3 DEF FutureRpt, x, RecordsInv
    <2> HIDE DEF q
    <2>5. FutureRpt - rpt = q /\ FutureRpt \in Nat /\ FutureRpt >= rpt
      BY <2>3, <2>4
    <2>6. QED
      BY <1>1, <1>2, <1>3, <2>2, <2>3, <2>5 DEF x
  <1>4. CASE ~(totalWeighted > 0)
    BY <1>1, <1>2, <1>4 DEF FutureRpt, RecordsInv, StreamInv
  <1>5. QED
    BY <1>3, <1>4

\* What a position may claim, before it is divided by the precision factor, is at
\* most what it is owed.
LEMMA PendingBound ==
    ASSUME StakingConstants, RecordsInv, StreamInv, NEW id \in ActiveStakes
    PROVE  /\ calculate_pending_rewards_static(id) \in Nat
           /\ PRECISION_FACTOR * calculate_pending_rewards_static(id) <= Owed(FutureRpt)[id]
           /\ Owed(FutureRpt)[id] \in Nat
  <1> DEFINE x == (FutureRpt - stakes[id].paid) * WeightOf(id)
             q == x \div PRECISION_FACTOR
  <1>1. FutureRpt \in Nat /\ FutureRpt >= rpt
    BY PoolFacts
  <1>2. x = Owed(FutureRpt)[id] /\ x \in Nat
    <2>1. NatMap(Owed(FutureRpt))
      BY <1>1, StakeMaps
    <2>2. x = Owed(FutureRpt)[id] /\ DOMAIN Owed(FutureRpt) = ActiveStakes
      BY DEF Owed
    <2> HIDE DEF x
    <2>3. QED
      BY <2>1, <2>2 DEF NatMap
  <1>3. PRECISION_FACTOR \in Nat \ {0} /\ stakes[id].active
    BY DEF StakingConstants, ActiveStakes
  <1>4. calculate_pending_rewards_static(id) = IF totalWeighted <= 0 THEN 0 ELSE q
    BY <1>3 DEF calculate_pending_rewards_static, WeightOf
  <1> HIDE DEF x
  <1>5. q \in Nat /\ q * PRECISION_FACTOR <= x
    BY <1>2, <1>3, FloorNat, FloorBound
  <1> HIDE DEF q
  <1>6. q * PRECISION_FACTOR = PRECISION_FACTOR * q /\ PRECISION_FACTOR * 0 = 0
    BY <1>3, <1>5
  <1>7. QED
    BY <1>2, <1>4, <1>5, <1>6

\* What is owed once the accumulator is up to date has grown by no more than the
\* release.
LEMMA CreditGrows ==
    ASSUME BooksInv, ~reweighted, ~repeated
    PROVE  totalRewards * PRECISION_FACTOR + SumFunction(Owed(FutureRpt))
               <= (emitted + Accrued) * PRECISION_FACTOR
  <1> USE DEF BooksInv
  <1> DEFINE d == FutureRpt - rpt
             f == Owed(rpt)
             w == Weights
             g == [id \in ActiveStakes |-> d * WeightOf(id)]
             h == Owed(FutureRpt)
  <1>1. d \in Nat /\ rpt \in Nat /\ FutureRpt \in Nat /\ Accrued \in Nat
    BY PoolFacts DEF RecordsInv
  <1>2. IsFiniteSet(ActiveStakes) /\ IntMap(f) /\ IntMap(w)
    BY <1>1, FinitelyMany, StakeMaps
  <1>3. \A id \in ActiveStakes : WeightOf(id) \in Nat /\ stakes[id].paid \in Nat
    BY WeightNat DEF ActiveStakes, RecordsInv, StakePosition
  <1>4. SumFunction(g) = d * SumFunction(w) /\ SumFunction(w) \in Int /\ IntMap(g)
    <2>1. \A id \in ActiveStakes : d * WeightOf(id) \in Int
      <3> HIDE DEF d
      <3>1. QED
        BY <1>1, <1>3
    <2>2. Scales(g, w, d)
      <3>1. DOMAIN w = ActiveStakes /\ \A id \in ActiveStakes : w[id] = WeightOf(id)
        BY DEF Weights
      <3> HIDE DEF w, d
      <3>2. QED
        BY <1>1, <1>2, <2>1, <3>1 DEF Scales
    <2> HIDE DEF g, w, d
    <2>3. QED
      BY <2>2, SumScale
  <1>5. SumFunction(h) = SumFunction(f) + SumFunction(g) /\ SumFunction(f) \in Int
    <2>1. DOMAIN h = ActiveStakes /\ DOMAIN f = ActiveStakes /\ DOMAIN g = ActiveStakes
      BY DEF Owed
    <2>2. ASSUME NEW id \in ActiveStakes PROVE h[id] = f[id] + g[id]
      <3> DEFINE a == rpt - stakes[id].paid
                 c == WeightOf(id)
      <3>1. a \in Int /\ c \in Int /\ d \in Int
        BY <1>1, <1>3
      <3>2. FutureRpt - stakes[id].paid = a + d
        BY <1>1, <1>3
      <3>3. h[id] = (a + d) * c /\ f[id] = a * c /\ g[id] = d * c
        BY <3>2 DEF Owed
      <3> HIDE DEF a, c, d
      <3>4. (a + d) * c = a * c + d * c
        BY <3>1
      <3>5. QED
        BY <3>3, <3>4
    <2> HIDE DEF f, g, h
    <2>3. AddsUp(h, f, g)
      BY <1>2, <1>4, <2>1, <2>2 DEF AddsUp
    <2>4. QED
      BY <2>3, SumPlus
  <1>6. d * SumFunction(w) <= Accrued * PRECISION_FACTOR
    <2>1. totalWeighted = SumFunction(w)
      BY DEF WeightInv
    <2>2. CASE totalWeighted > 0
      BY <2>1, <2>2, PoolFacts
    <2>3. CASE totalWeighted <= 0
      <3>1. d = 0
        BY <1>1, <2>3, PoolFacts
      <3>2. Accrued * PRECISION_FACTOR \in Nat
        BY <1>1, ProductNat DEF StakingConstants
      <3> HIDE DEF d
      <3>3. d * SumFunction(w) = 0
        BY <1>4, <3>1
      <3>4. QED
        BY <3>2, <3>3
    <2>4. QED
      BY <1>4, <2>1, <2>2, <2>3
  <1>7. totalRewards * PRECISION_FACTOR + SumFunction(f) <= emitted * PRECISION_FACTOR
    BY DEF CreditInv
  <1>8. (emitted + Accrued) * PRECISION_FACTOR
            = emitted * PRECISION_FACTOR + Accrued * PRECISION_FACTOR
    <2>1. emitted \in Int /\ Accrued \in Int /\ PRECISION_FACTOR \in Int
      BY <1>1 DEF StreamInv, StakingConstants
    <2>2. QED
      BY <2>1
  <1>9. /\ totalRewards * PRECISION_FACTOR \in Nat /\ emitted * PRECISION_FACTOR \in Nat
        /\ Accrued * PRECISION_FACTOR \in Nat
    BY <1>1, ProductNat DEF StreamInv, StakingConstants
  <1>10. d * SumFunction(w) \in Int
    BY <1>1, <1>4
  <1> HIDE DEF d, f, w, g
  <1>11. QED
    BY <1>4, <1>5, <1>6, <1>7, <1>8, <1>9, <1>10

\* The claims together, rounded down one by one, stay within what is owed.
LEMMA CreditImplied == ASSUME BooksInv PROVE RewardsWithinEmission
  <1> USE DEF BooksInv
  <1> DEFINE p == Pending
             h == Owed(FutureRpt)
             g == [id \in ActiveStakes |-> PRECISION_FACTOR * calculate_pending_rewards_static(id)]
  <1> SUFFICES ASSUME ~reweighted, ~repeated
               PROVE  totalRewards + SumFunction(p) <= emitted + Accrued
    BY DEF RewardsWithinEmission, SumOver, Pending
  <1>1. PRECISION_FACTOR \in Nat \ {0} /\ FutureRpt \in Nat /\ FutureRpt >= rpt /\ Accrued \in Nat
    BY PoolFacts DEF StakingConstants
  <1>2. \A id \in ActiveStakes :
            /\ calculate_pending_rewards_static(id) \in Int
            /\ PRECISION_FACTOR * calculate_pending_rewards_static(id) \in Int
            /\ PRECISION_FACTOR * calculate_pending_rewards_static(id) <= h[id]
    BY <1>1, PendingBound, ProductNat
  <1>3. IsFiniteSet(ActiveStakes) /\ IntMap(h) /\ DOMAIN h = ActiveStakes
    BY <1>1, FinitelyMany, StakeMaps DEF Owed
  <1>4. IntMap(p) /\ IntMap(g) /\ DOMAIN p = ActiveStakes /\ DOMAIN g = ActiveStakes
    BY <1>2, <1>3 DEF IntMap, Pending
  <1>5. Scales(g, p, PRECISION_FACTOR)
    BY <1>1, <1>4 DEF Scales, Pending, IntMap
  <1>6. Below(g, h)
    BY <1>2, <1>3, <1>4 DEF Below
  <1>7. totalRewards * PRECISION_FACTOR + SumFunction(h) <= (emitted + Accrued) * PRECISION_FACTOR
    BY CreditGrows
  <1> HIDE DEF p, g, h
  <1>8. /\ SumFunction(g) = PRECISION_FACTOR * SumFunction(p) /\ SumFunction(p) \in Int
        /\ SumFunction(g) <= SumFunction(h) /\ SumFunction(h) \in Int
    BY <1>5, <1>6, SumScale, SumMonotone
  <1>9. totalRewards \in Int /\ emitted + Accrued \in Int
    BY <1>1 DEF StreamInv
  <1> DEFINE s == SumFunction(p)
             t == emitted + Accrued
  <1>10. s \in Int /\ t \in Int /\ PRECISION_FACTOR * s = s * PRECISION_FACTOR
    BY <1>1, <1>8, <1>9
  <1> HIDE DEF s, t
  <1>11. (totalRewards + s) * PRECISION_FACTOR
             = totalRewards * PRECISION_FACTOR + s * PRECISION_FACTOR
    BY <1>1, <1>9, <1>10
  <1>12. s * PRECISION_FACTOR <= SumFunction(h)
    BY <1>8, <1>10 DEF s
  <1>13. (totalRewards + s) * PRECISION_FACTOR <= t * PRECISION_FACTOR
    <2>1. totalRewards * PRECISION_FACTOR \in Int /\ s * PRECISION_FACTOR \in Int
          /\ t * PRECISION_FACTOR \in Int
      BY <1>1, <1>9, <1>10
    <2>2. QED
      BY <1>7, <1>8, <1>11, <1>12, <2>1 DEF t
  <1>14. totalRewards + s <= t
    BY <1>1, <1>9, <1>10, <1>13, CancelFactor
  <1>15. QED
    BY <1>14 DEF s, t

\* The invariant implies the books as the run checks them.
LEMMA BooksImplied == BooksInv => StakingBooks
  <1> SUFFICES ASSUME BooksInv PROVE StakingBooks
    OBVIOUS
  <1> USE DEF BooksInv
  <1>1. SumFunction(Principals) \in Nat
    BY StakeMaps, SumNat
  <1>2. StakingTypeOK
    BY <1>1 DEF StakingTypeOK, FlagsInv, RecordsInv, StreamInv, TokensInv
  <1>3. WeightedTotalWhenSteady
    BY DEF WeightedTotalWhenSteady, WeightedSum, SumOver, WeightInv, Weights, WeightOf
  <1>4. OneBalance
    BY DEF OneBalance, SumOver, TokensInv, Principals
  <1>5. QED
    BY <1>2, <1>3, <1>4, CreditImplied DEF StakingBooks

\* A newly deployed contract has no positions and no tokens.
LEMMA InitBooks == StakingConstants /\ StakingInit => BooksInv
  <1> SUFFICES ASSUME StakingConstants, StakingInit PROVE BooksInv
    OBVIOUS
  <1>1. /\ DOMAIN stakes = {} /\ DOMAIN tiers = {}
        /\ stakes \in [DOMAIN stakes -> StakePosition]
        /\ tiers \in [DOMAIN tiers -> StakingTier]
    BY DEF StakingInit, EmptyMap
  <1>2. /\ DOMAIN Principals = {} /\ DOMAIN Weights = {} /\ DOMAIN Owed(rpt) = {}
    BY <1>1 DEF Principals, Weights, Owed, ActiveStakes
  <1>3. SumFunction(Principals) = 0 /\ SumFunction(Weights) = 0 /\ SumFunction(Owed(rpt)) = 0
    BY <1>2, SumEmpty
  <1>4. RecordsInv
    <2>1. NumberedFrom1({})
      <3>1. 1..0 = {}
        OBVIOUS
      <3>2. QED
        BY <3>1 DEF NumberedFrom1
    <2>2. QED
      BY <1>1, <2>1 DEF StakingInit, RecordsInv
  <1>5. FlagsInv /\ StreamInv /\ TokensInv /\ WeightInv
    <2>1. FlagsInv
      BY DEF StakingInit, FlagsInv
    <2>2. StreamInv
      BY DEF StakingInit, StreamInv
    <2>3. TokensInv
      BY <1>3 DEF StakingInit, TokensInv
    <2>4. WeightInv
      BY <1>3 DEF StakingInit, WeightInv
    <2>5. QED
      BY <2>1, <2>2, <2>3, <2>4
  <1>6. CreditInv
    <2>1. 0 * PRECISION_FACTOR = 0
      BY DEF StakingConstants
    <2>2. QED
      BY <1>3, <2>1 DEF StakingInit, CreditInv
  <1>7. QED
    BY <1>4, <1>5, <1>6 DEF BooksInv

-----------------------------------------------------------------------------
\* update_pool leaves an accumulator that is up to date.
LEMMA PoolUpdated ==
    ASSUME BooksInv, update_pool
    PROVE  /\ rpt' = FutureRpt /\ rpt' \in Nat /\ rpt' >= rpt
           /\ emitted' = emitted + Accrued /\ emitted' \in Nat
           /\ lastRewardTime' = now /\ lastRewardTime' \in 0..now
  BY PoolFacts DEF BooksInv, update_pool, StreamInv

\* A step that closes the positions in C.
Closed(C) ==
    stakes' = [id \in DOMAIN stakes |->
        IF id \in C THEN [stakes[id] EXCEPT !.active = FALSE] ELSE stakes[id]]

\* Closing some open positions takes their parts out of the sums.
LEMMA ClosedSums ==
    ASSUME StakingConstants, RecordsInv, NEW C \in SUBSET ActiveStakes, Closed(C),
           UNCHANGED tiers, NEW r \in Nat, r >= rpt, rpt' = r
    PROVE  /\ RecordsInv'
           /\ SumFunction(Principals)
                  = SumFunction([id \in C |-> stakes[id].amount]) + SumFunction(Principals')
           /\ SumFunction(Weights)
                  = SumFunction([id \in C |-> WeightOf(id)]) + SumFunction(Weights')
           /\ SumFunction(Owed(r))
                  = SumFunction([id \in C |-> Owed(r)[id]]) + SumFunction(Owed(rpt)')
           /\ IntMap(Principals') /\ IntMap(Weights') /\ IntMap(Owed(rpt)')
           /\ NatMap([id \in C |-> stakes[id].amount])
           /\ NatMap([id \in C |-> WeightOf(id)])
           /\ NatMap([id \in C |-> Owed(r)[id]])
  <1>1. /\ DOMAIN stakes' = DOMAIN stakes
        /\ \A id \in DOMAIN stakes :
              /\ stakes'[id] \in StakePosition
              /\ stakes'[id].amount = stakes[id].amount /\ stakes'[id].tier = stakes[id].tier
              /\ stakes'[id].paid = stakes[id].paid
              /\ stakes'[id].active <=> (stakes[id].active /\ id \notin C)
    BY DEF RecordsInv, StakePosition, Closed
  <1>2. StakePosition' = StakePosition /\ StakingTier' = StakingTier
    BY DEF StakePosition, StakingTier
  <1>3. stakes' = [id \in DOMAIN stakes' |-> stakes'[id]]
    BY DEF Closed
  <1>4. RecordsInv'
    <2>1. stakes' \in [DOMAIN stakes' -> StakePosition']
      BY <1>1, <1>2, <1>3
    <2>2. \A id \in DOMAIN stakes' : stakes'[id].paid <= rpt'
      BY <1>1 DEF RecordsInv, StakePosition
    <2>3. QED
      BY <1>1, <1>2, <2>1, <2>2 DEF RecordsInv
  <1>5. ActiveStakes' = ActiveStakes \ C /\ C \subseteq ActiveStakes
    BY <1>1 DEF ActiveStakes
  <1>6. \A id \in DOMAIN stakes : WeightOf(id)' = WeightOf(id)
    BY <1>1 DEF WeightOf, TierOf, calculate_weight
  <1>7. /\ NatMap(Principals) /\ NatMap(Weights) /\ NatMap(Owed(r))
        /\ IntMap(Principals) /\ IntMap(Weights) /\ IntMap(Owed(r))
    BY StakeMaps
  <1>8. ActiveStakes \subseteq DOMAIN stakes /\ IsFiniteSet(C)
    BY FinitelyMany, FS_Subset
  <1> DEFINE p == [id \in C |-> stakes[id].amount]
             w == [id \in C |-> WeightOf(id)]
             o == [id \in C |-> Owed(r)[id]]
  <1>9. /\ DOMAIN Principals = ActiveStakes /\ DOMAIN Weights = ActiveStakes
        /\ DOMAIN Owed(r) = ActiveStakes
        /\ DOMAIN p = C /\ DOMAIN w = C /\ DOMAIN o = C
        /\ \A id \in C : p[id] = Principals[id] /\ w[id] = Weights[id] /\ o[id] = Owed(r)[id]
    BY <1>5 DEF Principals, Weights, Owed
  <1>10. NatMap(p) /\ NatMap(w) /\ NatMap(o)
    <2>1. p = [id \in C |-> p[id]] /\ w = [id \in C |-> w[id]] /\ o = [id \in C |-> o[id]]
      OBVIOUS
    <2> HIDE DEF p, w, o
    <2>2. QED
      BY <1>5, <1>7, <1>8, <1>9, <2>1 DEF NatMap
  <1>11. /\ Principals' = [id \in ActiveStakes \ C |-> Principals[id]]
         /\ Weights' = [id \in ActiveStakes \ C |-> Weights[id]]
         /\ Owed(rpt)' = [id \in ActiveStakes \ C |-> Owed(r)[id]]
    <2>1. Principals' = [id \in ActiveStakes \ C |-> Principals[id]]
      BY <1>1, <1>5, <1>8 DEF Principals
    <2>2. Weights' = [id \in ActiveStakes \ C |-> Weights[id]]
      BY <1>5, <1>6, <1>8 DEF Weights
    <2>3. Owed(rpt)' = [id \in ActiveStakes \ C |-> Owed(r)[id]]
      BY <1>1, <1>5, <1>6, <1>8 DEF Owed
    <2>4. QED
      BY <2>1, <2>2, <2>3
  <1> HIDE DEF p, w, o
  <1>12. Splits(Principals, p, Principals')
    BY <1>5, <1>7, <1>9, <1>10, <1>11 DEF Splits, IntMap, NatMap
  <1>13. Splits(Weights, w, Weights')
    BY <1>5, <1>7, <1>9, <1>10, <1>11 DEF Splits, IntMap, NatMap
  <1>14. Splits(Owed(r), o, Owed(rpt)')
    BY <1>5, <1>7, <1>9, <1>10, <1>11 DEF Splits, IntMap, NatMap
  <1>15. /\ SumFunction(Principals) = SumFunction(p) + SumFunction(Principals')
         /\ SumFunction(Weights) = SumFunction(w) + SumFunction(Weights')
         /\ SumFunction(Owed(r)) = SumFunction(o) + SumFunction(Owed(rpt)')
         /\ IntMap(Principals') /\ IntMap(Weights') /\ IntMap(Owed(rpt)')
    BY <1>12, <1>13, <1>14, SumSplit
  <1>16. QED
    BY <1>4, <1>10, <1>15 DEF p, w, o

\* After update_pool the release covers what was paid and what is owed.
LEMMA CreditAfterUpdate ==
    ASSUME BooksInv, update_pool, ~reweighted, ~repeated, NEW r \in Nat, rpt' = r
    PROVE  totalRewards * PRECISION_FACTOR + SumFunction(Owed(r)) <= emitted' * PRECISION_FACTOR
  <1>1. Owed(FutureRpt) = Owed(r)
    BY PoolUpdated DEF Owed
  <1>2. emitted' = emitted + Accrued
    BY PoolUpdated
  <1>3. QED
    BY <1>1, <1>2, CreditGrows

\* A penalty is a natural.
LEMMA PenaltyNat ==
    ASSUME BooksInv, NEW id \in DOMAIN stakes
    PROVE  calculate_penalty(id) \in Nat
  <1>1. stakes[id].amount \in Nat /\ TierOf(id).penalty \in Nat /\ STAKE_DENOMINATOR \in Nat \ {0}
    BY DEF BooksInv, RecordsInv, StakePosition, StakingTier, TierOf, StakingConstants
  <1>2. stakes[id].amount * TierOf(id).penalty \in Nat
    BY <1>1, ProductNat
  <1>3. QED
    BY <1>1, <1>2, FloorNat DEF calculate_penalty

\* unstake takes one position out of every sum and pays what it may claim.
LEMMA UnstakeBooks ==
    ASSUME BooksInv, NEW u \in Staker, NEW id \in DOMAIN stakes, unstake(u, id)
    PROVE  BooksInv'
  <1> DEFINE pending == calculate_pending_rewards_static(id)
             penalty == IF now < stakes[id].lockEnd THEN calculate_penalty(id) ELSE 0
             n == stakes[id].amount
             w == WeightOf(id)
             C == {id}
             p == [k \in C |-> stakes[k].amount]
             v == [k \in C |-> WeightOf(k)]
  <1>1. /\ id \in ActiveStakes /\ update_pool
        /\ stakes' = [stakes EXCEPT ![id].active = FALSE]
        /\ totalStaked' = totalStaked - n /\ totalWeighted' = totalWeighted - w
        /\ totalRewards' = totalRewards + (IF pending > 0 THEN pending ELSE 0)
        /\ stakingTokens' = stakingTokens - (n - penalty) - (IF pending > 0 THEN pending ELSE 0)
        /\ stakingTokens' >= 0 /\ penalties' = penalties + penalty
        /\ UNCHANGED <<stakingReady, stakingPaused, rate, tiers, funded, now, reweighted, repeated>>
    BY DEF unstake, may_close, record_rewards, WeightOf, stakingControl, oddities, ActiveStakes
  <1>2. PICK r \in Nat : r = rpt' /\ r = FutureRpt /\ r >= rpt
    BY <1>1, PoolUpdated
  <1> DEFINE o == [k \in C |-> Owed(r)[k]]
  <1>3. /\ pending \in Nat /\ PRECISION_FACTOR * pending <= Owed(r)[id] /\ Owed(r)[id] \in Nat
    <2>1. Owed(r) = Owed(FutureRpt)
      BY <1>2
    <2>2. QED
      BY <1>1, <2>1, PendingBound DEF BooksInv
  <1>4. n \in Nat /\ w \in Nat /\ penalty \in Nat
    BY PenaltyNat, WeightNat DEF BooksInv, RecordsInv, StakePosition
  <1>5. totalRewards' = totalRewards + pending /\ stakingTokens' = stakingTokens - (n - penalty) - pending
    BY <1>1, <1>3
  <1> HIDE DEF pending, penalty
  <1>6. Closed(C)
    BY <1>1 DEF Closed
  <1>7. C \in SUBSET ActiveStakes
    BY <1>1
  <1>8. DOMAIN p = C /\ DOMAIN v = C /\ DOMAIN o = C /\ p[id] = n /\ v[id] = w /\ o[id] = Owed(r)[id]
    OBVIOUS
  <1>9. /\ RecordsInv'
        /\ SumFunction(Principals) = SumFunction(p) + SumFunction(Principals')
        /\ SumFunction(Weights) = SumFunction(v) + SumFunction(Weights')
        /\ SumFunction(Owed(r)) = SumFunction(o) + SumFunction(Owed(rpt)')
        /\ IntMap(Principals') /\ IntMap(Weights') /\ IntMap(Owed(rpt)')
        /\ NatMap(p) /\ NatMap(v) /\ NatMap(o)
    BY <1>1, <1>2, <1>6, <1>7, ClosedSums DEF BooksInv
  <1> HIDE DEF p, v, o, w, n
  <1>10. SumFunction(p) = n /\ SumFunction(v) = w /\ SumFunction(o) = Owed(r)[id]
    <2>1. \A k \in C \ {id} : FALSE
      OBVIOUS
    <2>2. IntMap(p) /\ IntMap(v) /\ IntMap(o) /\ id \in C
      BY <1>9, NatMapIsIntMap
    <2> HIDE DEF C
    <2>3. QED
      BY <1>8, <2>1, <2>2, SumOnly
  <1>11. /\ SumFunction(Principals') \in Int /\ SumFunction(Weights') \in Int
         /\ SumFunction(Owed(rpt)') \in Int
    BY <1>9, SumType
  <1>12. FlagsInv' /\ StreamInv'
    <2>1. FlagsInv'
      BY <1>1 DEF BooksInv, FlagsInv
    <2>2. StreamInv'
      BY <1>1, <1>3, <1>4, <1>5, PoolUpdated DEF BooksInv, StreamInv
    <2>3. QED
      BY <2>1, <2>2
  <1>13. TokensInv'
    <2>1. /\ totalStaked = SumFunction(Principals) /\ stakingTokens \in Nat /\ funded \in Nat
          /\ penalties \in Nat /\ stakingTokens = totalStaked + funded + penalties - totalRewards
          /\ totalRewards \in Nat
      BY DEF BooksInv, TokensInv, StreamInv
    <2>2. totalStaked' = SumFunction(Principals')
      BY <1>1, <1>4, <1>9, <1>10, <1>11, <2>1
    <2>3. /\ stakingTokens' \in Nat /\ penalties' \in Nat /\ funded' \in Nat
          /\ stakingTokens' = totalStaked' + funded' + penalties' - totalRewards'
      BY <1>1, <1>3, <1>4, <1>5, <1>9, <1>10, <1>11, <2>1
    <2>4. QED
      BY <2>2, <2>3 DEF TokensInv
  <1>14. WeightInv'
    <2> SUFFICES ASSUME ~reweighted' PROVE totalWeighted' = SumFunction(Weights')
      BY DEF WeightInv
    <2>1. totalWeighted = SumFunction(Weights)
      BY <1>1 DEF BooksInv, WeightInv
    <2>2. QED
      BY <1>1, <1>4, <1>9, <1>10, <1>11, <2>1
  <1>15. CreditInv'
    <2> SUFFICES ASSUME ~reweighted', ~repeated'
                 PROVE  totalRewards' * PRECISION_FACTOR + SumFunction(Owed(rpt)')
                            <= emitted' * PRECISION_FACTOR
      BY DEF CreditInv
    <2>1. totalRewards * PRECISION_FACTOR + SumFunction(Owed(r)) <= emitted' * PRECISION_FACTOR
      BY <1>1, <1>2, CreditAfterUpdate
    <2>2. /\ PRECISION_FACTOR \in Int /\ totalRewards \in Int /\ emitted' \in Int
          /\ pending \in Int
      BY <1>1, <1>3, PoolUpdated DEF BooksInv, StakingConstants, StreamInv
    <2>3. totalRewards' * PRECISION_FACTOR
              = totalRewards * PRECISION_FACTOR + PRECISION_FACTOR * pending
      BY <1>5, <2>2
    <2>4. /\ totalRewards * PRECISION_FACTOR \in Int /\ PRECISION_FACTOR * pending \in Int
          /\ emitted' * PRECISION_FACTOR \in Int
      BY <2>2
    <2>5. QED
      BY <1>3, <1>9, <1>10, <1>11, <2>1, <2>3, <2>4
  <1>16. QED
    BY <1>9, <1>12, <1>13, <1>14, <1>15 DEF BooksInv

\* An emergency withdrawal closes positions without paying their rewards, and does
\* not bring the accumulator up to date.
LEMMA ReturnBooks ==
    ASSUME BooksInv, NEW C \in SUBSET ActiveStakes, return_principal(C)
    PROVE  BooksInv'
  <1> DEFINE p == [k \in C |-> stakes[k].amount]
             v == [k \in C |-> WeightOf(k)]
  <1>1. /\ SumFunction(p) <= stakingTokens /\ Closed(C)
        /\ totalStaked' = totalStaked - SumFunction(p)
        /\ totalWeighted' = totalWeighted - SumFunction(v)
        /\ stakingTokens' = stakingTokens - SumFunction(p)
        /\ UNCHANGED <<stakingReady, stakingPaused, rate, lastRewardTime, rpt, emitted, totalRewards,
                       tiers, funded, penalties, now, reweighted, repeated>>
    BY DEF return_principal, remove_weight, SumOver, Closed, WeightOf, stakingControl, stream, oddities
  <1>2. PICK r \in Nat : r = rpt
    BY DEF BooksInv, RecordsInv
  <1> DEFINE o == [k \in C |-> Owed(r)[k]]
  <1>3. /\ RecordsInv'
        /\ SumFunction(Principals) = SumFunction(p) + SumFunction(Principals')
        /\ SumFunction(Weights) = SumFunction(v) + SumFunction(Weights')
        /\ SumFunction(Owed(r)) = SumFunction(o) + SumFunction(Owed(rpt)')
        /\ IntMap(Principals') /\ IntMap(Weights') /\ IntMap(Owed(rpt)')
        /\ NatMap(p) /\ NatMap(v) /\ NatMap(o)
    BY <1>1, <1>2, ClosedSums DEF BooksInv
  <1> HIDE DEF p, v, o
  <1>4. /\ SumFunction(p) \in Nat /\ SumFunction(v) \in Nat /\ SumFunction(o) \in Nat
        /\ SumFunction(Principals') \in Int /\ SumFunction(Weights') \in Int
        /\ SumFunction(Owed(rpt)') \in Int
    BY <1>3, SumNat, SumType
  <1>5. FlagsInv' /\ StreamInv'
    <2>1. FlagsInv'
      BY <1>1 DEF BooksInv, FlagsInv
    <2>2. StreamInv'
      BY <1>1, <1>4 DEF BooksInv, StreamInv
    <2>3. QED
      BY <2>1, <2>2
  <1>6. TokensInv'
    <2>1. /\ totalStaked = SumFunction(Principals) /\ stakingTokens \in Nat /\ funded \in Nat
          /\ penalties \in Nat /\ stakingTokens = totalStaked + funded + penalties - totalRewards
          /\ totalRewards \in Nat
      BY DEF BooksInv, TokensInv, StreamInv
    <2>2. QED
      BY <1>1, <1>3, <1>4, <2>1 DEF TokensInv
  <1>7. WeightInv'
    <2> SUFFICES ASSUME ~reweighted' PROVE totalWeighted' = SumFunction(Weights')
      BY DEF WeightInv
    <2>1. totalWeighted = SumFunction(Weights)
      BY <1>1 DEF BooksInv, WeightInv
    <2>2. QED
      BY <1>1, <1>3, <1>4, <2>1
  <1>8. CreditInv'
    <2> SUFFICES ASSUME ~reweighted', ~repeated'
                 PROVE  totalRewards' * PRECISION_FACTOR + SumFunction(Owed(rpt)')
                            <= emitted' * PRECISION_FACTOR
      BY DEF CreditInv
    <2>1. totalRewards * PRECISION_FACTOR + SumFunction(Owed(r)) <= emitted * PRECISION_FACTOR
      BY <1>1, <1>2 DEF BooksInv, CreditInv
    <2>2. totalRewards * PRECISION_FACTOR \in Nat /\ emitted * PRECISION_FACTOR \in Nat
      BY ProductNat DEF BooksInv, StreamInv, StakingConstants
    <2>3. totalRewards' = totalRewards /\ emitted' = emitted
      BY <1>1
    <2>4. QED
      BY <1>3, <1>4, <2>1, <2>2, <2>3
  <1>9. QED
    BY <1>3, <1>5, <1>6, <1>7, <1>8 DEF BooksInv

\* The maps are typed in every state the invariant describes.
LEMMA MapsTyped ==
    StakingConstants /\ RecordsInv => IntMap(Principals) /\ IntMap(Weights) /\ IntMap(Owed(rpt))
  <1>1. RecordsInv => rpt \in Nat /\ rpt >= rpt
    BY DEF RecordsInv
  <1>2. QED
    BY <1>1, StakeMaps

\* A new position is owed nothing yet.
LEMMA StakeSums ==
    ASSUME StakingConstants, RecordsInv, UNCHANGED tiers, NEW r \in Nat, r >= rpt, rpt' = r,
           NEW id, NEW s, id = Cardinality(DOMAIN stakes) + 1, stakes' = Put(stakes, id, s),
           s \in StakePosition, s.paid = r, s.active
    PROVE  /\ RecordsInv'
           /\ SumFunction(Principals') = SumFunction(Principals) + s.amount
           /\ SumFunction(Weights')
                  = SumFunction(Weights) + calculate_weight(s.amount, tiers[s.tier].multiplier)
           /\ SumFunction(Owed(rpt)') = SumFunction(Owed(r))
  <1>1. NumberedFrom1(DOMAIN stakes)
    BY DEF RecordsInv
  <1>2. id \notin DOMAIN stakes /\ NumberedFrom1(DOMAIN stakes \cup {id})
    BY <1>1, NextNumber
  <1>3. /\ DOMAIN stakes' = DOMAIN stakes \cup {id} /\ stakes'[id] = s
        /\ \A k \in DOMAIN stakes : stakes'[k] = stakes[k]
        /\ stakes' = [k \in DOMAIN stakes' |-> stakes'[k]]
    BY <1>2 DEF Put
  <1>4. StakePosition' = StakePosition /\ StakingTier' = StakingTier
    BY DEF StakePosition, StakingTier
  <1>5. RecordsInv'
    <2>1. stakes' \in [DOMAIN stakes' -> StakePosition']
      BY <1>3, <1>4 DEF RecordsInv
    <2>2. ASSUME NEW k \in DOMAIN stakes' PROVE stakes'[k].paid <= rpt'
      <3>1. CASE k = id
        BY <1>3, <3>1
      <3>2. CASE k # id
        <4>1. k \in DOMAIN stakes /\ stakes'[k] = stakes[k]
          BY <1>3, <3>2
        <4>2. stakes[k].paid \in Nat /\ stakes[k].paid <= rpt /\ rpt \in Nat
          BY <4>1 DEF RecordsInv, StakePosition
        <4>3. QED
          BY <4>1, <4>2
      <3>3. QED
        BY <3>1, <3>2
    <2>3. QED
      BY <1>2, <1>3, <1>4, <2>1, <2>2 DEF RecordsInv
  <1>6. ActiveStakes' = ActiveStakes \cup {id} /\ id \notin ActiveStakes
    BY <1>2, <1>3 DEF ActiveStakes
  <1>7. ActiveStakes \subseteq DOMAIN stakes
    BY FinitelyMany
  <1>8. \A k \in DOMAIN stakes : WeightOf(k)' = WeightOf(k)
    BY <1>3 DEF WeightOf, TierOf, calculate_weight
  <1>9. WeightOf(id)' = calculate_weight(s.amount, tiers[s.tier].multiplier)
    BY <1>3 DEF WeightOf, TierOf, calculate_weight
  <1>10. IntMap(Principals) /\ IntMap(Weights) /\ IntMap(Owed(r))
    BY StakeMaps
  <1>11. IntMap(Principals') /\ IntMap(Weights') /\ IntMap(Owed(rpt)')
    <2>1. (IntMap(Principals) /\ IntMap(Weights) /\ IntMap(Owed(rpt)))'
      BY <1>5, StakingConstants', MapsTyped, PTL
    <2>2. QED
      BY <2>1
  <1>12. /\ DOMAIN Principals' = DOMAIN Principals \cup {id} /\ id \notin DOMAIN Principals
         /\ Principals'[id] = s.amount
         /\ \A k \in DOMAIN Principals : Principals'[k] = Principals[k]
    BY <1>3, <1>6, <1>7 DEF Principals
  <1>13. /\ DOMAIN Weights' = DOMAIN Weights \cup {id} /\ id \notin DOMAIN Weights
         /\ Weights'[id] = WeightOf(id)'
         /\ \A k \in DOMAIN Weights : Weights'[k] = Weights[k]
    BY <1>6, <1>7, <1>8 DEF Weights
  <1>14. /\ DOMAIN Owed(rpt)' = DOMAIN Owed(r) \cup {id} /\ id \notin DOMAIN Owed(r)
         /\ Owed(rpt)'[id] = (r - r) * WeightOf(id)'
         /\ \A k \in DOMAIN Owed(r) : Owed(rpt)'[k] = Owed(r)[k]
    BY <1>3, <1>6, <1>7, <1>8 DEF Owed
  <1>15. (r - r) * WeightOf(id)' = 0
    BY <1>11, <1>13 DEF IntMap
  <1>16. /\ AddsKey(Principals', Principals, id) /\ AddsKey(Weights', Weights, id)
         /\ AddsKey(Owed(rpt)', Owed(r), id)
    BY <1>10, <1>11, <1>12, <1>13, <1>14 DEF AddsKey, IntMap
  <1>17. /\ SumFunction(Principals') = SumFunction(Principals) + Principals'[id]
         /\ SumFunction(Weights') = SumFunction(Weights) + Weights'[id]
         /\ SumFunction(Owed(rpt)') = SumFunction(Owed(r)) + Owed(rpt)'[id]
         /\ SumFunction(Owed(r)) \in Int
    BY <1>16, SumAdd
  <1>18. QED
    BY <1>5, <1>9, <1>12, <1>13, <1>14, <1>15, <1>17

\* stake brings the accumulator up to date before the position joins.
LEMMA StakeBooks ==
    ASSUME BooksInv, NEW u \in Staker, NEW a \in StakeAmount, NEW t \in DOMAIN tiers, stake(u, a, t)
    PROVE  BooksInv'
  <1> DEFINE w == calculate_weight(a, tiers[t].multiplier)
             s == [user |-> u, amount |-> a, tier |-> t, lockEnd |-> now + tiers[t].lock,
                   paid |-> rpt', active |-> TRUE]
  <1>1. /\ a \in Nat \ {0} /\ update_pool
        /\ stakes' = Put(stakes, Cardinality(DOMAIN stakes) + 1, s)
        /\ totalStaked' = totalStaked + a /\ totalWeighted' = totalWeighted + w
        /\ stakingTokens' = stakingTokens + a
        /\ UNCHANGED <<stakingReady, stakingPaused, rate, totalRewards, tiers, funded, penalties, now,
                       reweighted, repeated>>
    BY DEF stake, stakingControl, oddities, BooksInv, StakingConstants
  <1>2. PICK r \in Nat : r = rpt' /\ r >= rpt
    BY <1>1, PoolUpdated
  <1>3. /\ s \in StakePosition /\ s.paid = r /\ s.active /\ s.amount = a /\ s.tier = t
    <2>1. now + tiers[t].lock \in Nat
      BY DEF BooksInv, RecordsInv, StakingTier, StreamInv
    <2>2. QED
      BY <1>1, <1>2, <2>1 DEF StakePosition
  <1>4. w \in Nat
    <2>1. tiers[t].multiplier \in Nat /\ STAKE_DENOMINATOR \in Nat \ {0}
      BY DEF BooksInv, RecordsInv, StakingTier, StakingConstants
    <2>2. a * tiers[t].multiplier \in Nat
      BY <1>1, <2>1, ProductNat
    <2>3. QED
      BY <2>1, <2>2, FloorNat DEF calculate_weight
  <1>5. PICK q, id : q = s /\ id = Cardinality(DOMAIN stakes) + 1
    OBVIOUS
  <1>6. /\ stakes' = Put(stakes, id, q) /\ q \in StakePosition /\ q.paid = r /\ q.active
        /\ q.amount = a /\ calculate_weight(q.amount, tiers[q.tier].multiplier) = w
    BY <1>1, <1>3, <1>5
  <1> HIDE DEF s, w
  <1>7. /\ RecordsInv'
        /\ SumFunction(Principals') = SumFunction(Principals) + a
        /\ SumFunction(Weights') = SumFunction(Weights) + w
        /\ SumFunction(Owed(rpt)') = SumFunction(Owed(r))
    BY <1>1, <1>2, <1>5, <1>6, StakeSums DEF BooksInv
  <1>8. FlagsInv'
    BY <1>1 DEF BooksInv, FlagsInv
  <1>9. StreamInv'
    BY <1>1, <1>4, PoolUpdated DEF BooksInv, StreamInv
  <1>10. TokensInv'
    <2>1. totalStaked \in Nat
      BY StakeMaps, SumNat DEF BooksInv, TokensInv
    <2>2. QED
      BY <1>1, <1>7, <2>1 DEF BooksInv, TokensInv, StreamInv
  <1>11. WeightInv'
    BY <1>1, <1>7 DEF BooksInv, WeightInv
  <1>12. CreditInv'
    <2> SUFFICES ASSUME ~reweighted', ~repeated'
                 PROVE  totalRewards' * PRECISION_FACTOR + SumFunction(Owed(rpt)')
                            <= emitted' * PRECISION_FACTOR
      BY DEF CreditInv
    <2>1. totalRewards * PRECISION_FACTOR + SumFunction(Owed(r)) <= emitted' * PRECISION_FACTOR
      BY <1>1, <1>2, CreditAfterUpdate
    <2>2. QED
      BY <1>1, <1>7, <2>1
  <1>13. QED
    BY <1>7, <1>8, <1>9, <1>10, <1>11, <1>12 DEF BooksInv

-----------------------------------------------------------------------------
\* The positions in C are paid: what each one gets, and their new snapshots.
Paid(C) == [id \in ActiveStakes |-> IF id \in C THEN calculate_pending_rewards_static(id) ELSE 0]

\* A step that moves the snapshots of the positions in C to the accumulator.
Claimed(C) ==
    stakes' = [id \in DOMAIN stakes |->
        IF id \in C THEN [stakes[id] EXCEPT !.paid = rpt'] ELSE stakes[id]]

\* Payments are naturals.
LEMMA PaidNat ==
    ASSUME BooksInv, NEW C
    PROVE  NatMap(Paid(C)) /\ IntMap(Paid(C)) /\ SumFunction(Paid(C)) \in Nat
  <1>1. \A id \in ActiveStakes : Paid(C)[id] \in Nat
    BY PendingBound DEF BooksInv, Paid
  <1>2. NatMap(Paid(C))
    BY <1>1, FinitelyMany DEF BooksInv, Paid, NatMap
  <1>3. QED
    BY <1>2, NatMapIsIntMap, SumNat

\* Positions that claim are owed nothing afterwards: the payments come out of what
\* was owed.
LEMMA ClaimedSums ==
    ASSUME BooksInv, NEW C \in SUBSET ActiveStakes, update_pool, Claimed(C), UNCHANGED tiers,
           NEW r \in Nat, r >= rpt, rpt' = r
    PROVE  /\ RecordsInv' /\ Principals' = Principals /\ Weights' = Weights
           /\ SumFunction(Owed(rpt)') + PRECISION_FACTOR * SumFunction(Paid(C))
                  <= SumFunction(Owed(r))
           /\ SumFunction(Owed(rpt)') \in Int /\ SumFunction(Owed(r)) \in Int
  <1>1. /\ DOMAIN stakes' = DOMAIN stakes
        /\ \A id \in DOMAIN stakes :
              /\ stakes'[id] \in StakePosition
              /\ stakes'[id].amount = stakes[id].amount /\ stakes'[id].tier = stakes[id].tier
              /\ stakes'[id].paid = IF id \in C THEN r ELSE stakes[id].paid
              /\ stakes'[id].active = stakes[id].active
    BY DEF BooksInv, RecordsInv, StakePosition, Claimed
  <1>2. StakePosition' = StakePosition /\ StakingTier' = StakingTier
    BY DEF StakePosition, StakingTier
  <1>3. RecordsInv'
    <2>1. stakes' = [id \in DOMAIN stakes' |-> stakes'[id]]
      BY DEF Claimed
    <2>2. stakes' \in [DOMAIN stakes' -> StakePosition']
      BY <1>1, <1>2, <2>1
    <2>3. \A id \in DOMAIN stakes' : stakes'[id].paid <= rpt'
      BY <1>1 DEF BooksInv, RecordsInv, StakePosition
    <2>4. QED
      BY <1>1, <1>2, <2>2, <2>3 DEF BooksInv, RecordsInv
  <1>4. ActiveStakes' = ActiveStakes /\ ActiveStakes \subseteq DOMAIN stakes
    BY <1>1 DEF ActiveStakes
  <1>5. \A id \in DOMAIN stakes : WeightOf(id)' = WeightOf(id)
    BY <1>1 DEF WeightOf, TierOf, calculate_weight
  <1>6. Principals' = Principals /\ Weights' = Weights
    BY <1>1, <1>4, <1>5 DEF Principals, Weights
  <1> DEFINE f == Owed(rpt)'
             p == Paid(C)
             g == [id \in ActiveStakes |-> PRECISION_FACTOR * p[id]]
             h == [id \in ActiveStakes |-> f[id] + g[id]]
             o == Owed(r)
  <1>7. \A id \in ActiveStakes :
            f[id] = IF id \in C THEN (r - r) * WeightOf(id) ELSE o[id]
    BY <1>1, <1>4, <1>5 DEF Owed
  <1>8. \A id \in ActiveStakes : (r - r) * WeightOf(id) = 0
    BY <1>4, WeightNat DEF BooksInv
  <1>9. /\ IntMap(o) /\ IntMap(f) /\ IntMap(p) /\ DOMAIN o = ActiveStakes
        /\ DOMAIN f = ActiveStakes /\ DOMAIN p = ActiveStakes /\ IsFiniteSet(ActiveStakes)
    <2>1. (IntMap(Principals) /\ IntMap(Weights) /\ IntMap(Owed(rpt)))'
      BY <1>3, StakingConstants', MapsTyped, PTL DEF BooksInv
    <2>2. DOMAIN o = ActiveStakes /\ DOMAIN f = ActiveStakes /\ DOMAIN p = ActiveStakes
      BY <1>4 DEF Owed, Paid
    <2>3. QED
      BY <2>1, <2>2, StakeMaps, FinitelyMany, PaidNat DEF BooksInv
  <1>10. Owed(r) = Owed(FutureRpt)
    BY PoolUpdated
  <1>11. ASSUME NEW id \in ActiveStakes
         PROVE  f[id] + PRECISION_FACTOR * p[id] <= o[id] /\ PRECISION_FACTOR * p[id] \in Int
    <2>1. PRECISION_FACTOR \in Nat /\ PRECISION_FACTOR * 0 = 0
      BY DEF BooksInv, StakingConstants
    <2>2. /\ calculate_pending_rewards_static(id) \in Nat
          /\ PRECISION_FACTOR * calculate_pending_rewards_static(id) <= o[id] /\ o[id] \in Nat
      BY <1>10, PendingBound DEF BooksInv
    <2>3. PRECISION_FACTOR * calculate_pending_rewards_static(id) \in Nat
      BY <2>1, <2>2, ProductNat
    <2>4. p[id] = IF id \in C THEN calculate_pending_rewards_static(id) ELSE 0
      BY DEF Paid
    <2> HIDE DEF f, o, p
    <2>5. QED
      BY <1>7, <1>8, <2>1, <2>2, <2>3, <2>4
  <1>12. PRECISION_FACTOR \in Int
    BY DEF BooksInv, StakingConstants
  <1> HIDE DEF f, o, p
  <1>13. Scales(g, p, PRECISION_FACTOR)
    BY <1>9, <1>11, <1>12 DEF Scales
  <1>14. IntMap(g) /\ IntMap(h)
    BY <1>9, <1>11 DEF IntMap
  <1>15. AddsUp(h, f, g) /\ Below(h, o)
    BY <1>9, <1>11, <1>14 DEF AddsUp, Below
  <1> HIDE DEF g, h
  <1>16. /\ SumFunction(g) = PRECISION_FACTOR * SumFunction(p)
         /\ SumFunction(h) = SumFunction(f) + SumFunction(g)
         /\ SumFunction(h) <= SumFunction(o) /\ SumFunction(o) \in Int /\ SumFunction(f) \in Int
    BY <1>13, <1>15, SumScale, SumPlus, SumMonotone
  <1>17. QED
    BY <1>3, <1>6, <1>16 DEF f, o, p

\* Positions are paid n together; unless a batch named one twice, n is the sum of
\* what each may claim.
LEMMA ClaimedBooks ==
    ASSUME BooksInv, NEW C \in SUBSET ActiveStakes, update_pool, Claimed(C),
           UNCHANGED <<stakingReady, stakingPaused, rate, totalWeighted, totalStaked, tiers, funded,
                       penalties, now, reweighted>>,
           NEW n \in Nat, n <= stakingTokens, totalRewards' = totalRewards + n, stakingTokens' = stakingTokens - n,
           repeated' \in BOOLEAN, ~repeated' => ~repeated /\ n = SumFunction(Paid(C))
    PROVE  BooksInv'
  <1>1. PICK r \in Nat : r = rpt' /\ r >= rpt
    BY PoolUpdated
  <1>2. /\ RecordsInv' /\ Principals' = Principals /\ Weights' = Weights
        /\ SumFunction(Owed(rpt)') + PRECISION_FACTOR * SumFunction(Paid(C))
               <= SumFunction(Owed(r))
        /\ SumFunction(Owed(rpt)') \in Int /\ SumFunction(Owed(r)) \in Int
    BY <1>1, ClaimedSums
  <1>3. FlagsInv'
    BY DEF BooksInv, FlagsInv
  <1>4. StreamInv'
    BY PoolUpdated DEF BooksInv, StreamInv
  <1>5. TokensInv'
    <2>1. totalStaked \in Nat
      BY StakeMaps, SumNat DEF BooksInv, TokensInv
    <2>2. QED
      BY <1>2, <2>1 DEF BooksInv, TokensInv, StreamInv
  <1>6. WeightInv'
    BY <1>2 DEF BooksInv, WeightInv
  <1>7. CreditInv'
    <2> SUFFICES ASSUME ~reweighted', ~repeated'
                 PROVE  totalRewards' * PRECISION_FACTOR + SumFunction(Owed(rpt)')
                            <= emitted' * PRECISION_FACTOR
      BY DEF CreditInv
    <2>1. totalRewards * PRECISION_FACTOR + SumFunction(Owed(r)) <= emitted' * PRECISION_FACTOR
      BY <1>1, CreditAfterUpdate
    <2>2. /\ PRECISION_FACTOR \in Int /\ totalRewards \in Int /\ emitted' \in Int
          /\ n \in Int /\ n = SumFunction(Paid(C))
      BY PoolUpdated DEF BooksInv, StakingConstants, StreamInv
    <2>3. (totalRewards + n) * PRECISION_FACTOR
              = totalRewards * PRECISION_FACTOR + PRECISION_FACTOR * n
      BY <2>2
    <2>4. /\ totalRewards * PRECISION_FACTOR \in Int /\ PRECISION_FACTOR * n \in Int
          /\ emitted' * PRECISION_FACTOR \in Int
      BY <2>2
    <2>5. totalRewards' * PRECISION_FACTOR
              = totalRewards * PRECISION_FACTOR + PRECISION_FACTOR * n
      BY <2>3
    <2>6. SumFunction(Owed(rpt)') + PRECISION_FACTOR * n <= SumFunction(Owed(r))
      BY <1>2, <2>2
    <2>7. QED
      BY <1>2, <2>1, <2>4, <2>5, <2>6
  <1>8. QED
    BY <1>2, <1>3, <1>4, <1>5, <1>6, <1>7 DEF BooksInv

\* claim_rewards pays one position.
LEMMA ClaimBooks ==
    ASSUME BooksInv, NEW u \in Staker, NEW id \in DOMAIN stakes, claim_rewards(u, id)
    PROVE  BooksInv'
  <1> DEFINE C == {id}
  <1>1. id \in ActiveStakes
    BY DEF claim_rewards, ActiveStakes
  <1>2. PICK n \in Nat : n = calculate_pending_rewards_static(id)
    BY <1>1, PendingBound DEF BooksInv
  <1>3. /\ n <= stakingTokens /\ update_pool /\ totalRewards' = totalRewards + n
        /\ stakes' = [stakes EXCEPT ![id].paid = rpt'] /\ stakingTokens' = stakingTokens - n
        /\ UNCHANGED <<stakingReady, stakingPaused, rate, totalWeighted, totalStaked, tiers, funded,
                       penalties, now, reweighted, repeated>>
    BY <1>2 DEF claim_rewards, record_rewards, stakingControl, oddities
  <1>4. Claimed(C)
    BY <1>3 DEF Claimed
  <1>5. SumFunction(Paid(C)) = n
    <2>1. /\ IntMap(Paid(C)) /\ DOMAIN Paid(C) = ActiveStakes /\ Paid(C)[id] = n
          /\ \A k \in ActiveStakes \ {id} : Paid(C)[k] = 0
      BY <1>1, <1>2, PaidNat DEF Paid
    <2> HIDE DEF C
    <2>2. QED
      BY <1>1, <2>1, SumOnly
  <1>6. repeated' \in BOOLEAN /\ repeated' = repeated
    BY <1>3 DEF BooksInv, FlagsInv
  <1>7. C \in SUBSET ActiveStakes
    BY <1>1
  <1> HIDE DEF C
  <1>8. QED
    BY <1>3, <1>4, <1>5, <1>6, <1>7, ClaimedBooks

\* A sequence whose elements are as many as its positions repeats none.
LEMMA NoRepetition ==
    ASSUME NEW n \in Nat, NEW S, NEW ids \in [1..n -> S],
           ~(Cardinality({ids[i] : i \in DOMAIN ids}) < n)
    PROVE  \A i, j \in 1..n : ids[i] = ids[j] => i = j
  <1> DEFINE T == {ids[i] : i \in DOMAIN ids}
  <1>1. ids \in Surjection(1..n, T)
    BY DEF Surjection
  <1>2. IsFiniteSet(1..n) /\ Cardinality(1..n) = n
    BY FS_Interval
  <1> HIDE DEF T
  <1>3. /\ IsFiniteSet(T) /\ Cardinality(T) <= n
        /\ Cardinality(T) = n <=> ids \in Injection(1..n, T)
    BY <1>1, <1>2, FS_Surjection
  <1>4. Cardinality(T) \in Nat
    BY <1>3, FS_CardinalityType
  <1>5. Cardinality(T) = n
    BY <1>3, <1>4 DEF T
  <1>6. QED
    BY <1>3, <1>5 DEF Injection, IsInjective

\* claim_rewards_batch pays the positions of a sequence, all computed before any
\* snapshot is moved.
LEMMA BatchBooks ==
    ASSUME BooksInv, NEW u \in Staker, NEW ids \in Batches, claim_rewards_batch(u, ids)
    PROVE  BooksInv'
  <1> DEFINE P(i) == LET p == calculate_pending_rewards_static(ids[i]) IN IF p > 0 THEN p ELSE 0
             g == [i \in DOMAIN ids |-> P(i)]
             C == {ids[i] : i \in {j \in DOMAIN ids : P(j) > 0}}
             f == Paid(C)
  <1>1. /\ \A i \in DOMAIN ids : stakes[ids[i]].active
        /\ update_pool /\ Claimed(C)
        /\ SumFunction(g) <= stakingTokens /\ totalRewards' = totalRewards + SumFunction(g)
        /\ stakingTokens' = stakingTokens - SumFunction(g)
        /\ repeated' = (repeated \/ Cardinality({ids[i] : i \in DOMAIN ids}) < Len(ids))
        /\ UNCHANGED <<stakingReady, stakingPaused, rate, totalWeighted, totalStaked, tiers, funded,
                       penalties, now, reweighted>>
    BY DEF claim_rewards_batch, SumOver, record_rewards, Claimed, stakingControl
  <1>2. PICK m \in Nat : ids \in [1..m -> DOMAIN stakes] /\ Len(ids) = m /\ DOMAIN ids = 1..m
    <2>1. PICK m \in 1..MaxBatch : ids \in [1..m -> DOMAIN stakes]
      BY DEF Batches
    <2>2. m \in Nat
      BY <2>1
    <2>3. ids \in Seq(DOMAIN stakes) /\ Len(ids) = m
      BY <2>1, <2>2, LenProperties
    <2>4. QED
      BY <2>1, <2>2, <2>3
  <1>3. \A i \in DOMAIN ids : ids[i] \in ActiveStakes
    BY <1>1, <1>2 DEF ActiveStakes
  <1>4. \A i \in DOMAIN ids :
            P(i) \in Nat /\ P(i) = calculate_pending_rewards_static(ids[i])
    BY <1>3, PendingBound DEF BooksInv
  <1>5. IsFiniteSet(DOMAIN ids)
    BY <1>2, FS_Interval
  <1>6. NatMap(g) /\ C \in SUBSET ActiveStakes
    BY <1>3, <1>4, <1>5 DEF NatMap
  <1>7. PICK n \in Nat : n = SumFunction(g)
    <2> HIDE DEF g
    <2>1. QED
      BY <1>6, SumNat
  <1>8. ASSUME ~repeated' PROVE ~repeated /\ n = SumFunction(f)
    <2>1. ~repeated /\ ~(Cardinality({ids[i] : i \in DOMAIN ids}) < m)
      BY <1>1, <1>2, <1>8
    <2>2. \A i, j \in DOMAIN ids : ids[i] = ids[j] => i = j
      BY <1>2, <2>1, NoRepetition
    <2>3. IntMap(f) /\ DOMAIN f = ActiveStakes /\ DOMAIN g = DOMAIN ids
      BY PaidNat DEF Paid
    <2>4. \A i \in DOMAIN ids : g[i] = f[ids[i]]
      <3>1. ASSUME NEW i \in DOMAIN ids PROVE g[i] = f[ids[i]]
        <4>1. g[i] = P(i) /\ P(i) \in Nat /\ P(i) = calculate_pending_rewards_static(ids[i])
          BY <1>4
        <4>2. ids[i] \in C <=> P(i) > 0
          <5>1. P(i) > 0 => ids[i] \in C
            OBVIOUS
          <5>2. ASSUME ids[i] \in C PROVE P(i) > 0
            <6>1. PICK j \in DOMAIN ids : P(j) > 0 /\ ids[j] = ids[i]
              BY <5>2
            <6>2. QED
              BY <6>1
          <5>3. QED
            BY <5>1, <5>2
        <4>3. f[ids[i]] = IF ids[i] \in C THEN calculate_pending_rewards_static(ids[i]) ELSE 0
          BY <1>3 DEF Paid
        <4> HIDE DEF g, f, P, C
        <4>4. QED
          BY <4>1, <4>2, <4>3
      <3>2. QED
        BY <3>1
    <2>5. \A k \in ActiveStakes : (\A i \in DOMAIN ids : ids[i] # k) => f[k] = 0
      <3>1. \A k \in ActiveStakes : (\A i \in DOMAIN ids : ids[i] # k) => k \notin C
        OBVIOUS
      <3> HIDE DEF C
      <3>2. QED
        BY <3>1 DEF Paid
    <2>6. ids = [i \in DOMAIN ids |-> ids[i]]
      BY <1>2
    <2> HIDE DEF g, f
    <2>7. Lists(g, f, ids)
      BY <1>3, <1>5, <2>2, <2>3, <2>4, <2>5, <2>6 DEF Lists
    <2>8. QED
      BY <1>7, <2>1, <2>7, SumListed
  <1>9. repeated' \in BOOLEAN
    BY <1>1 DEF BooksInv, FlagsInv
  <1> HIDE DEF g, C
  <1>10. /\ n <= stakingTokens /\ totalRewards' = totalRewards + n /\ stakingTokens' = stakingTokens - n
    BY <1>1, <1>7
  <1>11. QED
    BY <1>1, <1>6, <1>8, <1>9, <1>10, ClaimedBooks

-----------------------------------------------------------------------------
\* Calls that leave positions, tiers and the accumulator alone.
LEMMA SumsSame ==
    ASSUME BooksInv, UNCHANGED <<stakes, tiers, rpt>>
    PROVE  /\ RecordsInv' /\ Principals' = Principals /\ Weights' = Weights
           /\ Owed(rpt)' = Owed(rpt)
  <1>1. RecordsInv'
    BY DEF BooksInv, RecordsInv, StakePosition, StakingTier
  <1>2. Principals' = Principals /\ Weights' = Weights /\ Owed(rpt)' = Owed(rpt)
    BY DEF Principals, Weights, Owed, WeightOf, TierOf, ActiveStakes, calculate_weight
  <1>3. QED
    BY <1>1, <1>2

\* Calls that change neither the positions nor any total.
LEMMA RestSame ==
    ASSUME BooksInv, UNCHANGED <<stakes, tiers, rpt, emitted, stakingTotals, reweighted, repeated>>,
           stakingReady' \in BOOLEAN, stakingPaused' \in BOOLEAN, rate' \in Nat, now' \in Nat,
           lastRewardTime' \in 0..now', stakingTokens' \in Nat, funded' \in Nat,
           stakingTokens' - funded' = stakingTokens - funded, UNCHANGED penalties
    PROVE  BooksInv'
  <1>1. /\ RecordsInv' /\ Principals' = Principals /\ Weights' = Weights
        /\ Owed(rpt)' = Owed(rpt)
    BY SumsSame
  <1>2. FlagsInv'
    BY DEF BooksInv, FlagsInv
  <1>3. StreamInv'
    BY DEF BooksInv, StreamInv, stakingTotals
  <1>4. TokensInv'
    <2>1. totalStaked \in Nat
      BY StakeMaps, SumNat DEF BooksInv, TokensInv
    <2>2. QED
      BY <1>1, <2>1 DEF BooksInv, TokensInv, StreamInv, stakingTotals
  <1>5. WeightInv'
    BY <1>1 DEF BooksInv, WeightInv, stakingTotals
  <1>6. CreditInv'
    BY <1>1 DEF BooksInv, CreditInv, stakingTotals
  <1>7. QED
    BY <1>1, <1>2, <1>3, <1>4, <1>5, <1>6 DEF BooksInv

\* A new rate applies from now on: what accrued at the old one is released first.
LEMMA RateBooks ==
    ASSUME BooksInv, NEW x \in Rate, set_reward_rate(x)
    PROVE  BooksInv'
  <1>1. /\ x \in Nat /\ update_pool /\ rate' = x
        /\ UNCHANGED <<stakingReady, stakingPaused, totalWeighted, totalStaked, totalRewards, tiers,
                       stakes, stakingTokens, funded, penalties, now, reweighted, repeated>>
    BY DEF set_reward_rate, stakingControl, stakingTotals, tokens, oddities, BooksInv, StakingConstants
  <1>2. PICK r \in Nat : r = rpt' /\ r >= rpt
    BY <1>1, PoolUpdated
  <1>3. Principals' = Principals /\ Weights' = Weights /\ Owed(rpt)' = Owed(r)
    BY <1>1, <1>2 DEF Principals, Weights, Owed, WeightOf, TierOf, ActiveStakes, calculate_weight
  <1>4. RecordsInv'
    <2>1. StakePosition' = StakePosition /\ StakingTier' = StakingTier
      BY <1>1 DEF StakePosition, StakingTier
    <2>2. \A id \in DOMAIN stakes : stakes[id].paid <= rpt'
      BY <1>2 DEF BooksInv, RecordsInv, StakePosition
    <2>3. QED
      BY <1>1, <1>2, <2>1, <2>2 DEF BooksInv, RecordsInv
  <1>5. FlagsInv'
    BY <1>1 DEF BooksInv, FlagsInv
  <1>6. StreamInv'
    BY <1>1, PoolUpdated DEF BooksInv, StreamInv
  <1>7. TokensInv' /\ WeightInv'
    BY <1>1, <1>3 DEF BooksInv, TokensInv, WeightInv
  <1>8. CreditInv'
    <2> SUFFICES ASSUME ~reweighted', ~repeated'
                 PROVE  totalRewards' * PRECISION_FACTOR + SumFunction(Owed(rpt)')
                            <= emitted' * PRECISION_FACTOR
      BY DEF CreditInv
    <2>1. totalRewards * PRECISION_FACTOR + SumFunction(Owed(r)) <= emitted' * PRECISION_FACTOR
      BY <1>1, <1>2, CreditAfterUpdate
    <2>2. QED
      BY <1>1, <1>3, <2>1
  <1>9. QED
    BY <1>4, <1>5, <1>6, <1>7, <1>8 DEF BooksInv

\* Tiers are added and changed; unless the multiplier of a tier with open positions
\* changes, no weight does.
LEMMA TierBooks ==
    ASSUME BooksInv, UNCHANGED <<stakingControl, stream, stakingTotals, stakes, tokens, now, repeated>>,
           tiers' \in [DOMAIN tiers' -> StakingTier], NumberedFrom1(DOMAIN tiers'),
           DOMAIN tiers \subseteq DOMAIN tiers', reweighted' \in BOOLEAN,
           ~reweighted' => /\ ~reweighted
                           /\ \A id \in ActiveStakes :
                                 tiers'[stakes[id].tier].multiplier = TierOf(id).multiplier
    PROVE  BooksInv'
  <1> USE DEF stakingControl, stream, stakingTotals, tokens
  <1>1. RecordsInv'
    <2>1. StakingTier' = StakingTier /\ StakePosition \subseteq StakePosition'
      BY DEF StakingTier, StakePosition
    <2>2. stakes' \in [DOMAIN stakes' -> StakePosition']
      BY <2>1 DEF BooksInv, RecordsInv
    <2>3. QED
      BY <2>1, <2>2 DEF BooksInv, RecordsInv
  <1>2. Principals' = Principals /\ ActiveStakes' = ActiveStakes
    BY DEF Principals, ActiveStakes
  <1>3. ASSUME ~reweighted' PROVE ~reweighted /\ Weights' = Weights /\ Owed(rpt)' = Owed(rpt)
    <2>1. \A id \in ActiveStakes : WeightOf(id)' = WeightOf(id)
      BY <1>3 DEF WeightOf, TierOf, calculate_weight
    <2>2. QED
      BY <1>2, <1>3, <2>1 DEF Weights, Owed
  <1>4. FlagsInv'
    BY DEF BooksInv, FlagsInv
  <1>5. StreamInv' /\ TokensInv'
    BY <1>2 DEF BooksInv, StreamInv, TokensInv
  <1>6. WeightInv'
    BY <1>3 DEF BooksInv, WeightInv
  <1>7. CreditInv'
    BY <1>3 DEF BooksInv, CreditInv
  <1>8. QED
    BY <1>1, <1>4, <1>5, <1>6, <1>7 DEF BooksInv

\* add_tier takes the next number, so it replaces no tier.
LEMMA AddTierBooks ==
    ASSUME BooksInv, NEW min \in MinStake, NEW l \in Lock, NEW m \in Multiplier, NEW p \in Penalty,
           add_tier(min, l, m, p)
    PROVE  BooksInv'
  <1> DEFINE id == Cardinality(DOMAIN tiers) + 1
             t == [min |-> min, lock |-> l, multiplier |-> m, penalty |-> p, active |-> TRUE]
  <1>1. /\ tiers' = Put(tiers, id, t)
        /\ UNCHANGED <<stakingControl, stream, stakingTotals, stakes, tokens, now, reweighted, repeated>>
    BY DEF add_tier, oddities
  <1>2. t \in StakingTier
    BY DEF add_tier, tier_is_valid, StakingTier, BooksInv, StakingConstants
  <1>3. id \notin DOMAIN tiers /\ NumberedFrom1(DOMAIN tiers \cup {id})
    BY NextNumber DEF BooksInv, RecordsInv
  <1> HIDE DEF id, t
  <1>4. /\ DOMAIN tiers' = DOMAIN tiers \cup {id} /\ tiers' \in [DOMAIN tiers' -> StakingTier]
        /\ \A k \in DOMAIN tiers : tiers'[k] = tiers[k]
    BY <1>1, <1>2, <1>3 DEF Put, BooksInv, RecordsInv
  <1>5. \A k \in ActiveStakes : tiers'[stakes[k].tier].multiplier = TierOf(k).multiplier
    <2>1. \A k \in ActiveStakes : stakes[k].tier \in DOMAIN tiers
      BY DEF ActiveStakes, BooksInv, RecordsInv, StakePosition
    <2>2. QED
      BY <1>4, <2>1 DEF TierOf
  <1>6. reweighted' \in BOOLEAN /\ reweighted' = reweighted
    BY <1>1 DEF BooksInv, FlagsInv
  <1>7. QED
    BY <1>1, <1>3, <1>4, <1>5, <1>6, TierBooks

\* update_tier and deactivate_tier rewrite one tier.
LEMMA RewrittenTier ==
    ASSUME BooksInv, NEW t \in DOMAIN tiers, NEW x \in StakingTier, tiers' = [tiers EXCEPT ![t] = x],
           UNCHANGED <<stakingControl, stream, stakingTotals, stakes, tokens, now, repeated>>,
           reweighted' = (reweighted \/ /\ x.multiplier # tiers[t].multiplier
                                        /\ \E s \in ActiveStakes : stakes[s].tier = t)
    PROVE  BooksInv'
  <1>1. /\ DOMAIN tiers' = DOMAIN tiers /\ tiers' \in [DOMAIN tiers' -> StakingTier]
        /\ \A k \in DOMAIN tiers : tiers'[k] = IF k = t THEN x ELSE tiers[k]
    BY DEF BooksInv, RecordsInv
  <1>2. reweighted' \in BOOLEAN /\ NumberedFrom1(DOMAIN tiers')
    BY <1>1 DEF BooksInv, FlagsInv, RecordsInv
  <1>3. ASSUME ~reweighted'
        PROVE  /\ ~reweighted
               /\ \A id \in ActiveStakes : tiers'[stakes[id].tier].multiplier = TierOf(id).multiplier
    <2>1. \A k \in ActiveStakes : stakes[k].tier \in DOMAIN tiers
      BY DEF ActiveStakes, BooksInv, RecordsInv, StakePosition
    <2>2. QED
      BY <1>1, <1>3, <2>1 DEF TierOf
  <1>4. QED
    BY <1>1, <1>2, <1>3, TierBooks

\* Every administrative call preserves the books.
LEMMA AdministrationBooks == ASSUME BooksInv, StakingAdministration PROVE BooksInv'
  <1>1. ASSUME NEW r \in Rate, staking_initialize(r) PROVE BooksInv'
    <2>1. /\ r \in Nat /\ rate' = r /\ lastRewardTime' = now /\ now' = now /\ stakingReady' = TRUE
          /\ UNCHANGED <<stakes, tiers, rpt, emitted, stakingTotals, reweighted, repeated, stakingPaused,
                         stakingTokens, funded, penalties>>
      BY <1>1 DEF staking_initialize, tokens, oddities, BooksInv, StakingConstants
    <2>2. /\ stakingPaused \in BOOLEAN /\ stakingTokens \in Nat /\ funded \in Nat /\ now \in Nat
          /\ now \in 0..now
      BY DEF BooksInv, FlagsInv, TokensInv, StreamInv
    <2>3. QED
      BY <2>1, <2>2, RestSame
  <1>2. ASSUME NEW flag \in BOOLEAN, staking_set_paused(flag) PROVE BooksInv'
    <2>1. /\ stakingPaused' = flag
          /\ UNCHANGED <<stakes, tiers, rpt, emitted, stakingTotals, reweighted, repeated, stakingReady,
                         rate, now, lastRewardTime, stakingTokens, funded, penalties>>
      BY <1>2 DEF staking_set_paused, stream, tokens, oddities
    <2>2. /\ stakingReady \in BOOLEAN /\ rate \in Nat /\ stakingTokens \in Nat /\ funded \in Nat
          /\ now \in Nat /\ lastRewardTime \in 0..now
      BY DEF BooksInv, FlagsInv, TokensInv, StreamInv
    <2>3. QED
      BY <2>1, <2>2, RestSame
  <1>3. ASSUME NEW t \in DOMAIN tiers, NEW min \in MinStake, NEW l \in Lock, NEW m \in Multiplier,
               NEW p \in Penalty, update_tier(t, min, l, m, p)
        PROVE  BooksInv'
    <2> DEFINE x == [tiers[t] EXCEPT !.min = min, !.lock = l, !.multiplier = m, !.penalty = p]
    <2>1. tiers[t] \in StakingTier
      BY DEF BooksInv, RecordsInv
    <2>2. x \in StakingTier /\ x.multiplier = m
      BY <1>3, <2>1 DEF update_tier, tier_is_valid, StakingTier, BooksInv, StakingConstants
    <2>3. tiers' = [tiers EXCEPT ![t] = x]
      <3>1. tiers' = [tiers EXCEPT ![t].min = min, ![t].lock = l, ![t].multiplier = m,
                                   ![t].penalty = p]
        BY <1>3 DEF update_tier
      <3>2. QED
        BY <2>1, <3>1 DEF StakingTier, BooksInv, RecordsInv
    <2>4. /\ reweighted' = (reweighted \/ /\ m # tiers[t].multiplier
                                          /\ \E s \in ActiveStakes : stakes[s].tier = t)
          /\ UNCHANGED <<stakingControl, stream, stakingTotals, stakes, tokens, now, repeated>>
      BY <1>3 DEF update_tier
    <2>5. PICK y \in StakingTier : y = x
      BY <2>2
    <2>6. y.multiplier = m /\ tiers' = [tiers EXCEPT ![t] = y]
      BY <2>2, <2>3, <2>5
    <2> HIDE DEF x
    <2>7. QED
      BY <2>4, <2>6, RewrittenTier
  <1>4. ASSUME NEW t \in DOMAIN tiers, deactivate_tier(t) PROVE BooksInv'
    <2> DEFINE x == [tiers[t] EXCEPT !.active = FALSE]
    <2>1. x \in StakingTier /\ x.multiplier = tiers[t].multiplier
      BY DEF BooksInv, RecordsInv, StakingTier
    <2>2. /\ tiers' = [tiers EXCEPT ![t] = x] /\ reweighted' = reweighted
          /\ UNCHANGED <<stakingControl, stream, stakingTotals, stakes, tokens, now, repeated>>
      BY <1>4 DEF deactivate_tier, oddities
    <2>3. PICK y \in StakingTier : y = x
      BY <2>1
    <2>4. /\ tiers' = [tiers EXCEPT ![t] = y] /\ ~(y.multiplier # tiers[t].multiplier)
          /\ reweighted \in BOOLEAN
      BY <2>1, <2>2, <2>3 DEF BooksInv, FlagsInv
    <2> HIDE DEF x
    <2>5. QED
      BY <2>2, <2>4, RewrittenTier
  <1>5. ASSUME NEW id \in DOMAIN stakes, staking_emergency_withdraw(id) PROVE BooksInv'
    <2>1. {id} \in SUBSET ActiveStakes /\ return_principal({id})
      BY <1>5 DEF staking_emergency_withdraw, ActiveStakes
    <2>2. QED
      BY <2>1, ReturnBooks
  <1>6. ASSUME NEW u \in Staker, emergency_withdraw_all(u) PROVE BooksInv'
    <2>1. PICK C \in SUBSET ActiveStakes : return_principal(C)
      BY <1>6 DEF emergency_withdraw_all
    <2>2. QED
      BY <2>1, ReturnBooks
  <1>7. QED
    BY <1>1, <1>2, <1>3, <1>4, <1>5, <1>6, RateBooks, AddTierBooks DEF StakingAdministration

\* Every step preserves the invariant.
LEMMA NextBooks == BooksInv /\ [StakingNext]_stakingVars => BooksInv'
  <1> SUFFICES ASSUME BooksInv, [StakingNext]_stakingVars PROVE BooksInv'
    OBVIOUS
  <1>1. ASSUME NEW a \in StakeAmount, fund_rewards(a) PROVE BooksInv'
    <2>1. /\ a \in Nat /\ stakingTokens' = stakingTokens + a /\ funded' = funded + a
          /\ UNCHANGED <<stakes, tiers, rpt, emitted, stakingTotals, reweighted, repeated, stakingReady,
                         stakingPaused, rate, now, lastRewardTime, penalties>>
      BY <1>1 DEF fund_rewards, stakingControl, stream, oddities, BooksInv, StakingConstants
    <2>2. /\ stakingReady \in BOOLEAN /\ stakingPaused \in BOOLEAN /\ rate \in Nat /\ stakingTokens \in Nat
          /\ funded \in Nat /\ now \in Nat /\ lastRewardTime \in 0..now
      BY DEF BooksInv, FlagsInv, TokensInv, StreamInv
    <2>3. stakingTokens' \in Nat /\ funded' \in Nat /\ stakingTokens' - funded' = stakingTokens - funded
      BY <2>1, <2>2
    <2>4. QED
      BY <2>1, <2>2, <2>3, RestSame
  <1>2. CASE Tick
    <2>1. /\ now' = now + 1
          /\ UNCHANGED <<stakes, tiers, rpt, emitted, stakingTotals, reweighted, repeated, stakingReady,
                         stakingPaused, rate, lastRewardTime, stakingTokens, funded, penalties>>
      BY <1>2 DEF Tick, stakingControl, stream, tokens, oddities
    <2>2. /\ stakingReady \in BOOLEAN /\ stakingPaused \in BOOLEAN /\ rate \in Nat /\ stakingTokens \in Nat
          /\ funded \in Nat /\ now \in Nat /\ lastRewardTime \in 0..now
      BY DEF BooksInv, FlagsInv, TokensInv, StreamInv
    <2>3. now' \in Nat /\ lastRewardTime' \in 0..now'
      BY <2>1, <2>2
    <2>4. QED
      BY <2>1, <2>2, <2>3, RestSame
  <1>3. CASE UNCHANGED stakingVars
    <2>1. UNCHANGED <<stakes, tiers, rpt, emitted, stakingTotals, reweighted, repeated, stakingReady,
                      stakingPaused, rate, now, lastRewardTime, stakingTokens, funded, penalties>>
      BY <1>3 DEF stakingVars, stakingControl, stream, tokens, oddities
    <2>2. /\ stakingReady \in BOOLEAN /\ stakingPaused \in BOOLEAN /\ rate \in Nat /\ stakingTokens \in Nat
          /\ funded \in Nat /\ now \in Nat /\ lastRewardTime \in 0..now
      BY DEF BooksInv, FlagsInv, TokensInv, StreamInv
    <2>3. QED
      BY <2>1, <2>2, RestSame
  <1>4. CASE Stakers
    BY <1>1, <1>4, StakeBooks, UnstakeBooks, ClaimBooks, BatchBooks DEF Stakers
  <1>5. QED
    BY <1>2, <1>3, <1>4, AdministrationBooks DEF StakingNext

\* The books of the staking contract always add up: the weighted total is the sum of
\* the open positions' weights as long as no multiplier was changed under one, the
\* one balance holds principal, funding and penalties less the rewards paid, and what
\* was paid and what can be claimed never exceeds what the stream released, whatever
\* the rounding, the order of the calls, the rates and the tiers.
THEOREM StakingBooksBalance == StakingConstants /\ StakingSpec => []StakingBooks
  BY InitBooks, NextBooks, BooksImplied, PTL DEF StakingSpec
=============================================================================
