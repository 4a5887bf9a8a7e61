----------------------------- MODULE VaultProofs -----------------------------
(***************************************************************************)
(* Proofs about Vault, for any users, strategies, amounts and rates.       *)
(***************************************************************************)
EXTENDS Vault, StorageTheorems

\* What the arithmetic needs of a strategy.
StrategyRecord ==
    [allocated : Int, balance : Int, gains : Int, losses : Int,
     active : BOOLEAN, bps : Nat]

\* The part of TypeOK the arithmetic needs.  That the supply and the holders'
\* shares are not negative follows from ShareConservation, which is a sum.
MoneyType ==
    /\ feeBps \in Nat
    /\ totalAssets \in Int /\ totalSupply \in Int /\ hwm \in Nat
    /\ shares \in [DOMAIN shares -> Int]
    /\ strategies \in [DOMAIN strategies -> StrategyRecord]
    /\ requests \in [DOMAIN requests -> WithdrawalQueueItem]

\* The inductive invariant of the asset mark.
IInv == MoneyType /\ AssetsBelowMark

\* What a step means for the shares of those who stay.
Undiluted ==
    Holders /\ totalSupply > 0 => totalAssets' * totalSupply >= totalAssets * totalSupply'

-----------------------------------------------------------------------------
\* Rust's division gives an integer; a positive quotient is the floor of a
\* positive dividend.
LEMMA QuotFacts ==
    ASSUME NEW x \in Int, NEW d \in Nat \ {0}
    PROVE  /\ Quot(x, d) \in Int
           /\ Quot(x, d) > 0 => Quot(x, d) * d <= x
  <1>1. CASE x >= 0
    BY <1>1, FloorBound DEF Quot
  <1>2. CASE x < 0
    <2>1. -x \in Nat /\ (-x) \div d \in Nat
      BY <1>2
    <2>2. Quot(x, d) = -((-x) \div d)
      BY <1>2 DEF Quot
    <2>3. QED
      BY <2>1, <2>2
  <1>3. QED
    BY <1>1, <1>2

\* Buying m shares for a tokens at a price that is not below the current one.
LEMMA BuyPrice ==
    ASSUME NEW A \in Int, NEW S \in Int, NEW a \in Int, NEW m \in Int, A * m <= a * S
    PROVE  (A + a) * S >= A * (S + m)
  <1>1. (A + a) * S = A * S + a * S
    OBVIOUS
  <1>2. A * (S + m) = A * S + A * m
    OBVIOUS
  <1>3. A * S \in Int /\ a * S \in Int /\ A * m \in Int
    OBVIOUS
  <1>4. QED
    BY <1>1, <1>2, <1>3

\* Selling n shares for g tokens at a price that is not above the current one.
LEMMA SellPrice ==
    ASSUME NEW A \in Int, NEW S \in Int, NEW g \in Int, NEW n \in Int, g * S <= n * A
    PROVE  (A - g) * S >= A * (S - n)
  <1>1. (A - g) * S = A * S - g * S
    OBVIOUS
  <1>2. A * (S - n) = A * S - n * A
    OBVIOUS
  <1>3. A * S \in Int /\ g * S \in Int /\ n * A \in Int
    OBVIOUS
  <1>4. QED
    BY <1>1, <1>2, <1>3

\* Each holder has an integer number of shares.
LEMMA SharesType == ASSUME MoneyType, NEW u PROVE SharesOf(u) \in Int
  BY DEF MoneyType, SharesOf, GetOr

\* What n shares are worth.
LEMMA WorthFacts ==
    ASSUME MoneyType, NEW n \in Int, totalSupply > 0
    PROVE  LET g == calculate_assets_for_withdrawal(n) IN
           /\ g \in Int
           /\ g > 0 => g * totalSupply <= n * totalAssets
  <1>1. n * totalAssets \in Int /\ totalSupply \in Nat \ {0}
    BY DEF MoneyType
  <1>2. QED
    BY <1>1, QuotFacts DEF calculate_assets_for_withdrawal

\* Performance fees are integers.
LEMMA FeeType == ASSUME MoneyType, NEW x \in Int PROVE performance_fee(x) \in Int
  <1>1. x * feeBps \in Int
    BY DEF MoneyType
  <1>2. QED
    BY <1>1, VaultAssumption DEF performance_fee

-----------------------------------------------------------------------------
\* A newly deployed vault satisfies the invariant.
LEMMA InitIInv == Init => IInv
  <1> SUFFICES ASSUME Init PROVE IInv
    OBVIOUS
  <1>1. DOMAIN shares = {} /\ DOMAIN strategies = {} /\ DOMAIN requests = {}
    BY DEF Init, EmptyMap
  <1>2. /\ shares \in [DOMAIN shares -> Int]
        /\ strategies \in [DOMAIN strategies -> StrategyRecord]
        /\ requests \in [DOMAIN requests -> WithdrawalQueueItem]
    BY <1>1 DEF Init, EmptyMap
  <1>3. feeBps \in Nat /\ totalAssets = 0 /\ totalSupply = 0 /\ hwm = 0
    BY VaultAssumption DEF Init
  <1>4. QED
    BY <1>2, <1>3 DEF IInv, MoneyType, AssetsBelowMark

\* A deposit raises assets and mark together, and its shares are not cheaper
\* than the price before it.
LEMMA DepositStep ==
    ASSUME IInv, NEW u \in User, NEW a \in Amount, deposit(u, a)
    PROVE  IInv' /\ (totalSupply > 0 => totalAssets' * totalSupply >= totalAssets * totalSupply')
  <1> DEFINE m == calculate_shares_for_deposit(a)
  <1>1. a \in Nat \ {0} /\ totalAssets \in Int /\ totalSupply \in Int /\ hwm \in Nat
    BY VaultAssumption DEF deposit, IInv, MoneyType
  <1>2. m \in Int /\ (totalSupply > 0 => totalAssets * m <= a * totalSupply)
    <2>1. CASE totalAssets <= 0 \/ totalSupply <= 0
      <3>1. m = a
        BY <2>1 DEF calculate_shares_for_deposit
      <3>2. totalSupply > 0 => totalAssets * a <= 0 /\ 0 <= a * totalSupply
        BY <1>1, <2>1
      <3>3. totalAssets * a \in Int /\ a * totalSupply \in Int
        BY <1>1
      <3>4. QED
        BY <1>1, <3>1, <3>2, <3>3
    <2>2. CASE ~(totalAssets <= 0 \/ totalSupply <= 0)
      <3>1. m = (a * totalSupply) \div totalAssets
        BY <2>2 DEF calculate_shares_for_deposit
      <3>2. a * totalSupply \in Int /\ totalAssets \in Nat \ {0}
        BY <1>1, <2>2
      <3>3. m \in Int /\ m * totalAssets <= a * totalSupply
        BY <3>1, <3>2, FloorBound
      <3> HIDE DEF m
      <3>4. m * totalAssets = totalAssets * m
        BY <1>1, <3>3
      <3>5. QED
        BY <3>3, <3>4
    <2>3. QED
      BY <2>1, <2>2
  <1>3. /\ totalAssets' = totalAssets + a /\ totalSupply' = totalSupply + m
        /\ hwm' = raise_mark(totalAssets + a) /\ shares' = Put(shares, u, SharesOf(u) + m)
        /\ UNCHANGED <<feeBps, strategies, requests>>
    BY DEF deposit, control
  <1> HIDE DEF m
  <1>4. SharesOf(u) + m \in Int
    BY <1>2, SharesType DEF IInv
  <1>5. shares' \in [DOMAIN shares' -> Int]
    BY <1>3, <1>4 DEF Put, IInv, MoneyType
  <1>6. IInv'
    BY <1>1, <1>2, <1>3, <1>5 DEF IInv, MoneyType, AssetsBelowMark, raise_mark
  <1>7. totalSupply > 0 => totalAssets' * totalSupply >= totalAssets * totalSupply'
    BY <1>1, <1>2, <1>3, BuyPrice
  <1>8. QED
    BY <1>6, <1>7

\* Paying n shares out at their worth, from whichever record they are taken.
LEMMA SaleStep ==
    ASSUME IInv, NEW n \in Int, totalSupply > 0,
           calculate_assets_for_withdrawal(n) > 0,
           totalSupply' = totalSupply - n,
           totalAssets' = totalAssets - calculate_assets_for_withdrawal(n),
           shares' \in [DOMAIN shares' -> Int],
           requests' \in [DOMAIN requests' -> WithdrawalQueueItem],
           UNCHANGED <<feeBps, strategies, hwm>>
    PROVE  IInv' /\ totalAssets' * totalSupply >= totalAssets * totalSupply'
  <1> DEFINE g == calculate_assets_for_withdrawal(n)
  <1>1. g \in Int /\ g * totalSupply <= n * totalAssets
    BY WorthFacts DEF IInv
  <1> HIDE DEF g
  <1>2. g > 0 /\ totalAssets' = totalAssets - g
    BY DEF g
  <1>3. totalAssets \in Int /\ totalSupply \in Int /\ hwm \in Nat
    BY DEF IInv, MoneyType
  <1>4. IInv'
    BY <1>1, <1>2, <1>3 DEF IInv, MoneyType, AssetsBelowMark
  <1>5. QED
    BY <1>1, <1>2, <1>3, <1>4, SellPrice

\* withdraw charges no fee, because the assets are not above the mark.
LEMMA WithdrawStep ==
    ASSUME IInv, NEW u \in User, NEW n \in Amount, withdraw(u, n)
    PROVE  IInv' /\ totalAssets' * totalSupply >= totalAssets * totalSupply'
  <1>1. n \in Int /\ totalSupply > 0
    BY VaultAssumption DEF withdraw
  <1>2. fee_above_mark = 0
    BY DEF fee_above_mark, IInv, MoneyType, AssetsBelowMark
  <1>3. calculate_assets_for_withdrawal(n) \in Int
    BY <1>1, WorthFacts DEF IInv
  <1>4. calculate_assets_for_withdrawal(n) > 0
    BY <1>2, <1>3 DEF withdraw, pay
  <1>5. /\ totalSupply' = totalSupply - n
        /\ totalAssets' = totalAssets - calculate_assets_for_withdrawal(n)
        /\ shares' = Put(shares, u, SharesOf(u) - n)
        /\ UNCHANGED <<feeBps, strategies, hwm, requests>>
    BY DEF withdraw, control
  <1>6. SharesOf(u) - n \in Int
    BY <1>1, SharesType DEF IInv
  <1>7. shares' \in [DOMAIN shares' -> Int] /\ requests' \in [DOMAIN requests' -> WithdrawalQueueItem]
    BY <1>5, <1>6 DEF Put, IInv, MoneyType
  <1>8. QED
    BY <1>1, <1>4, <1>5, <1>7, SaleStep

\* emergency_withdraw sells all shares of an account.
LEMMA EmergencyStep ==
    ASSUME IInv, NEW u \in User, emergency_withdraw(u)
    PROVE  IInv' /\ totalAssets' * totalSupply >= totalAssets * totalSupply'
  <1> DEFINE n == SharesOf(u)
  <1>1. n \in Int /\ totalSupply > 0
    BY SharesType DEF emergency_withdraw, IInv
  <1>2. calculate_assets_for_withdrawal(n) > 0
    BY DEF emergency_withdraw, pay
  <1>3. /\ totalSupply' = totalSupply - n
        /\ totalAssets' = totalAssets - calculate_assets_for_withdrawal(n)
        /\ shares' = Put(shares, u, 0)
        /\ UNCHANGED <<feeBps, strategies, hwm, requests>>
    BY DEF emergency_withdraw, control
  <1> HIDE DEF n
  <1>4. shares' \in [DOMAIN shares' -> Int] /\ requests' \in [DOMAIN requests' -> WithdrawalQueueItem]
    BY <1>3 DEF Put, IInv, MoneyType
  <1>5. QED
    BY <1>1, <1>2, <1>3, <1>4, SaleStep

\* process_withdrawal_queue sells the shares of a queued withdrawal.
LEMMA ProcessStep ==
    ASSUME IInv, NEW id \in DOMAIN requests, process_withdrawal_queue(id)
    PROVE  IInv' /\ totalAssets' * totalSupply >= totalAssets * totalSupply'
  <1> DEFINE n == requests[id].shares
  <1>1. requests[id] \in WithdrawalQueueItem
    BY DEF IInv, MoneyType
  <1>2. n \in Int /\ totalSupply > 0
    BY <1>1 DEF process_withdrawal_queue, WithdrawalQueueItem
  <1>3. calculate_assets_for_withdrawal(n) > 0
    BY DEF process_withdrawal_queue, pay
  <1>4. /\ totalSupply' = totalSupply - n
        /\ totalAssets' = totalAssets - calculate_assets_for_withdrawal(n)
        /\ requests' = [requests EXCEPT ![id].processed = TRUE]
        /\ UNCHANGED <<feeBps, strategies, hwm, shares>>
    BY DEF process_withdrawal_queue, control
  <1> HIDE DEF n
  <1>5. requests' \in [DOMAIN requests' -> WithdrawalQueueItem]
    BY <1>4 DEF IInv, MoneyType, WithdrawalQueueItem
  <1>6. shares' \in [DOMAIN shares' -> Int]
    BY <1>4 DEF IInv, MoneyType
  <1>7. QED
    BY <1>2, <1>3, <1>4, <1>5, <1>6, SaleStep

\* Queueing moves shares out of an account, and tokens may arrive; neither
\* touches the pool.
LEMMA QueueStep ==
    ASSUME IInv,
           \/ \E u \in User, n \in Amount : queue_withdrawal(u, n)
           \/ \E a \in Amount : TokensArrive(a)
    PROVE  IInv' /\ UNCHANGED <<totalAssets, totalSupply>>
  <1>1. ASSUME NEW u \in User, NEW n \in Amount, queue_withdrawal(u, n)
        PROVE  IInv' /\ UNCHANGED <<totalAssets, totalSupply>>
    <2> DEFINE r == [user |-> u, shares |-> n, processed |-> FALSE,
                     estimated |-> calculate_assets_for_withdrawal(n)]
               k == next_withdrawal_queue_id
    <2>1. n \in Nat \ {0} /\ totalSupply > 0
      BY <1>1, VaultAssumption DEF queue_withdrawal
    <2>2. r \in WithdrawalQueueItem
      BY <2>1, WorthFacts DEF IInv, WithdrawalQueueItem
    <2>3. /\ requests' = Put(requests, k, r) /\ shares' = Put(shares, u, SharesOf(u) - n)
          /\ UNCHANGED <<feeBps, totalAssets, totalSupply, hwm, strategies>>
      BY <1>1 DEF queue_withdrawal, control, pool
    <2> HIDE DEF r, k
    <2>4. SharesOf(u) - n \in Int
      BY <2>1, SharesType DEF IInv
    <2>5. shares' \in [DOMAIN shares' -> Int]
      BY <2>3, <2>4 DEF Put, IInv, MoneyType
    <2>6. requests' \in [DOMAIN requests' -> WithdrawalQueueItem]
      BY <2>2, <2>3 DEF Put, IInv, MoneyType
    <2>7. QED
      BY <2>3, <2>5, <2>6 DEF IInv, MoneyType, AssetsBelowMark
  <1>2. ASSUME NEW a \in Amount, TokensArrive(a)
        PROVE  IInv' /\ UNCHANGED <<totalAssets, totalSupply>>
    BY <1>2 DEF TokensArrive, control, pool, ledger, IInv, MoneyType, AssetsBelowMark
  <1>3. QED
    BY <1>1, <1>2

\* The admin's calls lower the assets or leave them.
LEMMA AdministrationStep ==
    ASSUME IInv, Administration
    PROVE  IInv'
  <1>1. UNCHANGED <<hwm, totalSupply, shares, requests, strategies>>
    BY DEF Administration, initialize, governance_withdraw, set_paused, set_performance_fee,
           withdraw_fees, pool, ledger
  <1>2. feeBps' \in Nat
    BY VaultAssumption
       DEF Administration, initialize, governance_withdraw, set_paused, set_performance_fee,
           withdraw_fees, control, IInv, MoneyType
  <1>3. totalAssets' \in Int /\ totalAssets' <= totalAssets
    <2>1. ASSUME NEW a \in Amount, governance_withdraw(a)
          PROVE  totalAssets' \in Int /\ totalAssets' <= totalAssets
      BY <2>1, VaultAssumption DEF governance_withdraw, IInv, MoneyType
    <2>2. CASE UNCHANGED totalAssets
      BY <2>2 DEF IInv, MoneyType
    <2>3. QED
      BY <2>1, <2>2 DEF Administration, initialize, set_paused, set_performance_fee,
                        withdraw_fees, pool
  <1>4. QED
    BY <1>1, <1>2, <1>3 DEF IInv, MoneyType, AssetsBelowMark

\* Calls that only write the record of a strategy.
LEMMA StrategyRecords ==
    ASSUME IInv, strategies' \in [DOMAIN strategies' -> StrategyRecord],
           UNCHANGED <<feeBps, totalAssets, totalSupply, hwm, shares, requests>>
    PROVE  IInv'
  BY DEF IInv, MoneyType, AssetsBelowMark

\* A harvest moves the mark with the assets.
LEMMA HarvestStep ==
    ASSUME IInv, NEW s \in DOMAIN strategies, NEW r \in Report, harvest_strategy(s, r)
    PROVE  IInv'
  <1> DEFINE held == strategies[s].balance
             gains == IF r > held THEN r - held ELSE 0
             losses == IF r < held THEN held - r ELSE 0
             assets == IF r > held THEN totalAssets + net_gain(gains) ELSE totalAssets - losses
             rec == [strategies[s] EXCEPT !.balance = r, !.gains = @ + gains,
                                          !.losses = @ + losses]
  <1>1. strategies[s] \in StrategyRecord /\ r \in Int
    BY VaultAssumption DEF IInv, MoneyType
  <1>2. held \in Int
    BY <1>1 DEF StrategyRecord
  <1>3. gains \in Int /\ losses \in Int
    BY <1>1, <1>2
  <1>4. net_gain(gains) \in Int
    <2>1. performance_fee(gains) \in Int
      BY <1>3, FeeType DEF IInv
    <2> HIDE DEF gains
    <2>2. QED
      BY <1>3, <2>1 DEF net_gain
  <1>5. assets \in Int
    BY <1>3, <1>4 DEF IInv, MoneyType
  <1>6. /\ totalAssets' = assets /\ hwm' = raise_mark(assets)
        /\ strategies' = [strategies EXCEPT ![s] = rec]
        /\ UNCHANGED <<feeBps, totalSupply, shares, requests>>
    BY DEF harvest_strategy, control, ledger
  <1> HIDE DEF held, gains, losses, assets
  <1>7. rec \in StrategyRecord
    <2>1. strategies[s].gains + gains \in Int /\ strategies[s].losses + losses \in Int
      BY <1>1, <1>3 DEF StrategyRecord
    <2>2. QED
      BY <1>1, <2>1 DEF StrategyRecord
  <1> HIDE DEF rec
  <1>8. strategies' \in [DOMAIN strategies' -> StrategyRecord]
    BY <1>6, <1>7 DEF IInv, MoneyType
  <1>9. QED
    BY <1>5, <1>6, <1>8 DEF IInv, MoneyType, AssetsBelowMark, raise_mark

\* Every call about strategies keeps the invariant.
LEMMA StrategiesStep ==
    ASSUME IInv, Strategies
    PROVE  IInv'
  <1> USE DEF control, pool, ledger
  <1>1. ASSUME NEW s \in Strategy, add_strategy(s) PROVE IInv'
    <2> DEFINE r == [allocated |-> 0, balance |-> 0, gains |-> 0, losses |-> 0,
                     active |-> TRUE, bps |-> 0]
    <2>1. r \in StrategyRecord
      BY DEF StrategyRecord
    <2>2. /\ strategies' = Put(strategies, s, r)
          /\ UNCHANGED <<feeBps, totalAssets, totalSupply, hwm, shares, requests>>
      BY <1>1 DEF add_strategy
    <2> HIDE DEF r
    <2>3. strategies' \in [DOMAIN strategies' -> StrategyRecord]
      BY <2>1, <2>2 DEF Put, IInv, MoneyType
    <2>4. QED
      BY <2>2, <2>3, StrategyRecords
  <1>2. ASSUME NEW s \in DOMAIN strategies, remove_strategy(s) PROVE IInv'
    <2>1. strategies' \in [DOMAIN strategies' -> StrategyRecord]
      BY <1>2 DEF remove_strategy, IInv, MoneyType, StrategyRecord
    <2>2. QED
      BY <1>2, <2>1, StrategyRecords DEF remove_strategy
  <1>3. ASSUME NEW s \in DOMAIN strategies, NEW b \in Bps, set_strategy_allocation(s, b)
        PROVE  IInv'
    <2> DEFINE t == Quot(totalAssets * b, BPS_DENOMINATOR)
    <2>1. b \in Nat /\ totalAssets * b \in Int
      BY VaultAssumption DEF IInv, MoneyType
    <2>2. t \in Int
      BY <2>1, VaultAssumption, QuotFacts
    <2>3. /\ strategies' = [strategies EXCEPT ![s].bps = b, ![s].allocated = t, ![s].balance = t]
          /\ UNCHANGED <<feeBps, totalAssets, totalSupply, hwm, shares, requests>>
      BY <1>3 DEF set_strategy_allocation
    <2> HIDE DEF t
    <2>4. strategies' \in [DOMAIN strategies' -> StrategyRecord]
      BY <2>1, <2>2, <2>3 DEF IInv, MoneyType, StrategyRecord
    <2>5. QED
      BY <2>3, <2>4, StrategyRecords
  <1>4. ASSUME NEW s \in DOMAIN strategies, NEW t \in DOMAIN strategies, migrate_strategy(s, t)
        PROVE  IInv'
    <2> DEFINE n == strategies[t].allocated + strategies[s].allocated
    <2>1. n \in Int
      BY DEF IInv, MoneyType, StrategyRecord
    <2>2. /\ strategies' = [strategies EXCEPT ![s].allocated = 0, ![t].allocated = n]
          /\ UNCHANGED <<feeBps, totalAssets, totalSupply, hwm, shares, requests>>
      BY <1>4 DEF migrate_strategy
    <2> HIDE DEF n
    <2>3. strategies' \in [DOMAIN strategies' -> StrategyRecord]
      BY <2>1, <2>2 DEF IInv, MoneyType, StrategyRecord
    <2>4. QED
      BY <2>2, <2>3, StrategyRecords
  <1>5. ASSUME NEW s \in DOMAIN strategies, emergency_strategy_withdrawal(s) PROVE IInv'
    <2>1. strategies' \in [DOMAIN strategies' -> StrategyRecord]
      BY <1>5 DEF emergency_strategy_withdrawal, IInv, MoneyType, StrategyRecord
    <2>2. QED
      BY <1>5, <2>1, StrategyRecords DEF emergency_strategy_withdrawal
  <1>6. QED
    BY <1>1, <1>2, <1>3, <1>4, <1>5, HarvestStep DEF Strategies

\* Every call of a holder keeps the invariant and dilutes nobody.
LEMMA HoldersStep ==
    ASSUME IInv, Holders
    PROVE  IInv' /\ Undiluted
  <1>1. CASE \/ \E u \in User, n \in Amount : queue_withdrawal(u, n)
             \/ \E a \in Amount : TokensArrive(a)
    <2>1. IInv' /\ UNCHANGED <<totalAssets, totalSupply>>
      BY <1>1, QueueStep
    <2>2. totalAssets * totalSupply \in Int
      BY DEF IInv, MoneyType
    <2>3. QED
      BY <2>1, <2>2 DEF Undiluted
  <1>2. CASE \E u \in User, a \in Amount : deposit(u, a)
    BY <1>2, DepositStep DEF Undiluted
  <1>3. CASE \E u \in User, n \in Amount : withdraw(u, n)
    BY <1>3, WithdrawStep DEF Undiluted
  <1>4. CASE \E u \in User : emergency_withdraw(u)
    BY <1>4, EmergencyStep DEF Undiluted
  <1>5. CASE \E id \in DOMAIN requests : process_withdrawal_queue(id)
    BY <1>5, ProcessStep DEF Undiluted
  <1>6. QED
    BY <1>1, <1>2, <1>3, <1>4, <1>5 DEF Holders

\* Every step keeps the invariant and dilutes nobody.
LEMMA NextIInv == IInv /\ [Next]_vars => IInv' /\ Undiluted
  <1> SUFFICES ASSUME IInv, [Next]_vars PROVE IInv' /\ Undiluted
    OBVIOUS
  <1>1. Undiluted
    BY HoldersStep DEF Undiluted
  <1>2. IInv'
    <2>1. CASE UNCHANGED vars
      BY <2>1 DEF vars, control, pool, ledger, IInv, MoneyType, AssetsBelowMark
    <2>2. QED
      BY <2>1, HoldersStep, AdministrationStep, StrategiesStep DEF Next
  <1>3. QED
    BY <1>1, <1>2

\* In every reachable state of the vault the recorded assets are at or below
\* the high-water mark, so withdraw never charges a second performance fee.
THEOREM AssetsStayBelowMark == Spec => []AssetsBelowMark
  <1>1. IInv => AssetsBelowMark
    BY DEF IInv
  <1>2. QED
    BY <1>1, InitIInv, NextIInv, PTL DEF Spec

\* deposit, withdraw, emergency_withdraw and process_withdrawal_queue round in
\* favour of the shares that stay, for all amounts, prices and fee rates.
THEOREM NobodyIsDiluted == Spec => HoldersNeverDiluted
  <1>1. Spec => [][Undiluted]_vars
    BY InitIInv, NextIInv, PTL DEF Spec
  <1>2. QED
    BY <1>1 DEF HoldersNeverDiluted, Undiluted

-----------------------------------------------------------------------------
\* The books.  The shares of the accounts, the shares of the queue and the profit
\* each strategy reported, as maps that are summed.
Accounts == [u \in User |-> SharesOf(u)]
Queued == [id \in Pending |-> requests[id].shares]
Profits == [s \in DOMAIN strategies |-> strategies[s].gains - strategies[s].losses]

\* Withdrawals are numbered from one without gaps, so the number that
\* queue_withdrawal takes was never used.
Numbered == \E n \in Nat : DOMAIN requests = 1..n

\* The invariant, by what is written together: flags, shares and tokens.
FlagsInv ==
    initialized \in BOOLEAN /\ paused \in BOOLEAN /\ feeBps \in 0..MAX_FEE_BPS
SharesInv ==
    /\ DOMAIN shares \subseteq User /\ shares \in [DOMAIN shares -> Nat]
    /\ DOMAIN requests \subseteq Nat /\ requests \in [DOMAIN requests -> WithdrawalQueueItem]
    /\ Numbered
    /\ totalSupply = SumFunction(Accounts) + SumFunction(Queued)
TokensInv ==
    /\ totalAssets \in Int
    /\ totalDeposits \in Nat /\ totalWithdrawals \in Nat /\ fees \in Nat
    /\ custody \in Nat /\ arrived \in Nat /\ paidOut \in Nat
    /\ DOMAIN strategies \subseteq Strategy
    /\ strategies \in [DOMAIN strategies -> StrategyConfig]
    /\ totalAssets + fees = custody - arrived + SumFunction(Profits)
    /\ custody = totalDeposits - totalWithdrawals + arrived - paidOut
\* The inductive invariant of the books.
BooksInv == IInv /\ FlagsInv /\ SharesInv /\ TokensInv

\* The maps are finite; shares are naturals, profits integers.
LEMMA ShareMaps ==
    ASSUME SharesInv
    PROVE  /\ NatMap(Accounts) /\ NatMap(Queued)
           /\ IntMap(Accounts) /\ IntMap(Queued)
           /\ SumFunction(Accounts) \in Nat /\ SumFunction(Queued) \in Nat
  <1>1. NatMap(Accounts)
    <2>1. \A u \in User : SharesOf(u) \in Nat
      BY DEF SharesInv, SharesOf, GetOr
    <2>2. QED
      BY <2>1, VaultAssumption DEF NatMap, Accounts
  <1>2. NatMap(Queued)
    <2>1. PICK n \in Nat : DOMAIN requests = 1..n
      BY DEF SharesInv, Numbered
    <2>2. IsFiniteSet(Pending)
      BY <2>1, FS_Interval, FS_Subset DEF Pending
    <2>3. \A id \in Pending : requests[id].shares \in Nat
      BY DEF SharesInv, Pending, WithdrawalQueueItem
    <2>4. QED
      BY <2>2, <2>3 DEF NatMap, Queued
  <1>3. QED
    BY <1>1, <1>2, NatMapIsIntMap, SumNat

\* The profits of the strategies are a finite map of integers.
LEMMA ProfitMap ==
    ASSUME TokensInv
    PROVE  IntMap(Profits) /\ SumFunction(Profits) \in Int
  <1>1. IsFiniteSet(DOMAIN strategies)
    BY VaultAssumption, FS_Subset DEF TokensInv
  <1>2. \A s \in DOMAIN strategies : strategies[s].gains - strategies[s].losses \in Int
    BY DEF TokensInv, StrategyConfig
  <1>3. IntMap(Profits)
    BY <1>1, <1>2 DEF IntMap, Profits
  <1>4. QED
    BY <1>3, SumType

\* The invariant says what VaultBooks does.
LEMMA BooksImplied == BooksInv => VaultBooks
  <1> SUFFICES ASSUME BooksInv PROVE VaultBooks
    OBVIOUS
  <1>1. totalSupply \in Nat
    BY ShareMaps DEF BooksInv, SharesInv
  <1>2. TypeOK
    BY <1>1 DEF BooksInv, IInv, MoneyType, FlagsInv, SharesInv, TokensInv, TypeOK
  <1>3. ShareConservation
    BY DEF BooksInv, SharesInv, ShareConservation, SumOver, Accounts, Queued
  <1>4. BooksMatchTokens
    BY DEF BooksInv, TokensInv, BooksMatchTokens, SumOver, Profits
  <1>5. QED
    BY <1>2, <1>3, <1>4 DEF VaultBooks

\* A newly deployed vault has no shares and no tokens.
LEMMA InitBooks == Init => BooksInv
  <1> SUFFICES ASSUME Init PROVE BooksInv
    OBVIOUS
  <1>1. /\ DOMAIN shares = {} /\ DOMAIN strategies = {} /\ DOMAIN requests = {}
        /\ shares \in [DOMAIN shares -> Nat]
        /\ strategies \in [DOMAIN strategies -> StrategyConfig]
        /\ requests \in [DOMAIN requests -> WithdrawalQueueItem]
    BY DEF Init, EmptyMap
  <1>2. FlagsInv
    BY VaultAssumption DEF Init, FlagsInv
  <1>3. SumFunction(Accounts) = 0
    <2>1. IsFiniteSet(DOMAIN Accounts) /\ \A u \in DOMAIN Accounts : Accounts[u] = 0
      BY <1>1, VaultAssumption DEF Accounts, SharesOf, GetOr
    <2>2. QED
      BY <2>1, SumZero
  <1>4. SumFunction(Queued) = 0 /\ SumFunction(Profits) = 0
    <2>1. DOMAIN Queued = {} /\ DOMAIN Profits = {}
      BY <1>1 DEF Queued, Pending, Profits
    <2>2. QED
      BY <2>1, SumEmpty
  <1>5. Numbered
    <2>1. DOMAIN requests = 1..0
      BY <1>1
    <2>2. QED
      BY <2>1 DEF Numbered
  <1>6. SharesInv
    BY <1>1, <1>3, <1>4, <1>5 DEF Init, SharesInv
  <1>7. TokensInv
    BY <1>1, <1>4 DEF Init, TokensInv
  <1>8. QED
    BY <1>2, <1>6, <1>7, InitIInv DEF BooksInv

\* Shares that are minted or burnt in one account change the supply as much.
LEMMA AccountChanges ==
    ASSUME SharesInv, NEW u \in User, NEW x \in Nat,
           shares' = Put(shares, u, x), UNCHANGED requests,
           totalSupply' = totalSupply - SharesOf(u) + x
    PROVE  SharesInv'
  <1> DEFINE f == Accounts
             g == Accounts'
  <1>1. /\ DOMAIN shares' \subseteq User /\ shares' \in [DOMAIN shares' -> Nat]
    BY DEF SharesInv, Put
  <1>2. \A v \in User : SharesOf(v) \in Nat
    BY DEF SharesInv, SharesOf, GetOr
  <1>3. /\ DOMAIN f = User /\ f[u] = SharesOf(u) /\ g[u] = x
        /\ g \in [User -> Int]
        /\ \A v \in User \ {u} : g[v] = f[v]
    BY <1>2 DEF Accounts, SharesOf, GetOr, Put
  <1>4. Queued' = Queued /\ Numbered'
    BY DEF SharesInv, Queued, Pending, Numbered
  <1>5. IntMap(f) /\ SumFunction(f) \in Int /\ SumFunction(Queued) \in Int
    BY ShareMaps
  <1> HIDE DEF f, g
  <1>6. ChangesKey(g, f, u)
    BY <1>3, <1>5 DEF ChangesKey
  <1>7. SumFunction(g) = SumFunction(f) - SharesOf(u) + x
    BY <1>3, <1>6, SumChange
  <1>8. totalSupply' = SumFunction(g) + SumFunction(Queued)
    <2>1. totalSupply = SumFunction(f) + SumFunction(Queued)
      BY DEF SharesInv, f
    <2>2. QED
      BY <1>2, <1>5, <1>7, <2>1
  <1>9. QED
    BY <1>1, <1>4, <1>8 DEF SharesInv, g

\* queue_withdrawal moves shares from an account to a new entry of the queue.
LEMMA QueueShares ==
    ASSUME IInv, SharesInv, NEW u \in User, NEW n \in Amount, queue_withdrawal(u, n)
    PROVE  SharesInv'
  <1> DEFINE k == next_withdrawal_queue_id
             r == [user |-> u, shares |-> n, processed |-> FALSE,
                   estimated |-> calculate_assets_for_withdrawal(n)]
             x == SharesOf(u) - n
             a == Accounts
             b == Accounts'
             f == Queued
             g == Queued'
  <1>1. n \in Nat \ {0} /\ totalSupply > 0 /\ SharesOf(u) >= n
    BY VaultAssumption DEF queue_withdrawal
  <1>2. r \in WithdrawalQueueItem /\ r.shares = n /\ ~r.processed
    BY <1>1, WorthFacts DEF IInv, WithdrawalQueueItem
  <1>3. PICK m \in Nat : DOMAIN requests = 1..m
    BY DEF SharesInv, Numbered
  <1>4. k = m + 1 /\ k \notin DOMAIN requests
    <2>1. Cardinality(1..m) = m
      BY FS_Interval
    <2>2. QED
      BY <1>3, <2>1 DEF next_withdrawal_queue_id
  <1>5. /\ requests' = Put(requests, k, r) /\ shares' = Put(shares, u, x)
        /\ totalSupply' = totalSupply
    BY DEF queue_withdrawal, pool
  <1> HIDE DEF k, r
  <1>6. \A v \in User : SharesOf(v) \in Nat
    BY DEF SharesInv, SharesOf, GetOr
  <1>7. x \in Nat
    BY <1>1, <1>6
  <1> HIDE DEF x
  <1>8. DOMAIN shares' \subseteq User /\ shares' \in [DOMAIN shares' -> Nat]
    BY <1>5, <1>7 DEF SharesInv, Put
  <1>9. /\ DOMAIN requests' \subseteq Nat /\ DOMAIN requests' = DOMAIN requests \cup {k}
        /\ requests' \in [DOMAIN requests' -> WithdrawalQueueItem]
        /\ requests'[k] = r /\ \A i \in DOMAIN requests : requests'[i] = requests[i]
    BY <1>2, <1>4, <1>5 DEF SharesInv, Put
  <1>10. Numbered'
    <2>1. DOMAIN requests' = 1..(m + 1)
      BY <1>3, <1>4, <1>9
    <2>2. QED
      BY <2>1 DEF Numbered
  <1>11. /\ DOMAIN a = User /\ a[u] = SharesOf(u) /\ b[u] = x
         /\ b \in [User -> Int]
         /\ \A v \in User \ {u} : b[v] = a[v]
    BY <1>5, <1>6, <1>7 DEF Accounts, SharesOf, GetOr, Put
  <1>12. Pending' = Pending \cup {k} /\ k \notin Pending
    BY <1>2, <1>4, <1>9 DEF Pending
  <1>13. /\ DOMAIN f = Pending /\ g[k] = n /\ k \notin DOMAIN f
         /\ g \in [DOMAIN f \cup {k} -> Int]
         /\ \A i \in DOMAIN f : g[i] = f[i]
    <2>1. \A i \in DOMAIN requests' : requests'[i].shares \in Int
      BY <1>9 DEF WithdrawalQueueItem
    <2>2. QED
      BY <1>2, <1>9, <1>12, <2>1 DEF Queued, Pending
  <1>14. IntMap(a) /\ IntMap(f) /\ SumFunction(a) \in Int /\ SumFunction(f) \in Int
    BY ShareMaps
  <1>15. totalSupply = SumFunction(a) + SumFunction(f)
    BY DEF SharesInv
  <1> HIDE DEF a, b, f, g
  <1>16. ChangesKey(b, a, u) /\ AddsKey(g, f, k)
    BY <1>11, <1>13, <1>14 DEF ChangesKey, AddsKey
  <1>17. /\ SumFunction(b) = SumFunction(a) - SharesOf(u) + x
         /\ SumFunction(g) = SumFunction(f) + n
    BY <1>11, <1>13, <1>16, SumChange, SumAdd
  <1>18. totalSupply' = SumFunction(b) + SumFunction(g)
    BY <1>1, <1>5, <1>6, <1>14, <1>15, <1>17 DEF x
  <1>19. QED
    BY <1>8, <1>9, <1>10, <1>18 DEF SharesInv, b, g

\* process_withdrawal_queue burns the shares of one entry of the queue.
LEMMA ProcessShares ==
    ASSUME SharesInv, NEW id \in DOMAIN requests, process_withdrawal_queue(id)
    PROVE  SharesInv'
  <1> DEFINE n == requests[id].shares
             f == Queued
             g == Queued'
  <1>1. requests[id] \in WithdrawalQueueItem /\ ~requests[id].processed
    BY DEF SharesInv, process_withdrawal_queue
  <1>2. n \in Nat /\ id \in Pending
    BY <1>1 DEF WithdrawalQueueItem, Pending
  <1>3. /\ requests' = [requests EXCEPT ![id].processed = TRUE]
        /\ UNCHANGED shares /\ totalSupply' = totalSupply - n
    BY DEF process_withdrawal_queue
  <1>4. /\ DOMAIN requests' = DOMAIN requests
        /\ requests' \in [DOMAIN requests' -> WithdrawalQueueItem]
        /\ requests'[id].processed
        /\ \A i \in DOMAIN requests \ {id} : requests'[i] = requests[i]
    BY <1>1, <1>3 DEF SharesInv, WithdrawalQueueItem
  <1>5. Numbered' /\ Accounts' = Accounts
    BY <1>3, <1>4 DEF SharesInv, Numbered, Accounts, SharesOf
  <1>6. Pending = Pending' \cup {id} /\ id \notin Pending'
    BY <1>2, <1>4 DEF Pending
  <1>7. IntMap(f) /\ SumFunction(f) \in Int /\ SumFunction(Accounts) \in Int
    BY ShareMaps
  <1>8. /\ DOMAIN f = DOMAIN g \cup {id} /\ id \notin DOMAIN g /\ f[id] = n
        /\ g = [i \in DOMAIN g |-> g[i]]
        /\ \A i \in DOMAIN g : f[i] = g[i]
    BY <1>2, <1>4, <1>6 DEF Queued, Pending
  <1>9. totalSupply = SumFunction(Accounts) + SumFunction(f)
    BY DEF SharesInv
  <1> HIDE DEF f, g, n
  <1>10. IntMap(g)
    <2>1. IsFiniteSet(DOMAIN g)
      BY <1>7, <1>8, FS_Subset DEF IntMap
    <2>2. QED
      BY <1>7, <1>8, <2>1 DEF IntMap
  <1>11. AddsKey(f, g, id)
    BY <1>7, <1>8, <1>10 DEF AddsKey, IntMap
  <1>12. SumFunction(f) = SumFunction(g) + n /\ SumFunction(g) \in Int
    BY <1>8, <1>11, SumAdd
  <1>13. totalSupply' = SumFunction(Accounts) + SumFunction(g)
    BY <1>2, <1>3, <1>7, <1>9, <1>12
  <1>14. QED
    BY <1>3, <1>4, <1>5, <1>13 DEF SharesInv, g

\* Calls that mint and burn no shares.
LEMMA SharesSame ==
    ASSUME SharesInv, UNCHANGED <<totalSupply, shares, requests>>
    PROVE  SharesInv'
  <1>1. Accounts' = Accounts /\ Queued' = Queued /\ Numbered'
    BY DEF SharesInv, Accounts, SharesOf, Queued, Pending, Numbered
  <1>2. QED
    BY <1>1 DEF SharesInv

\* Tokens that come in or go out change the books as much.
LEMMA TokensMove ==
    ASSUME TokensInv, UNCHANGED strategies, totalAssets' \in Int,
           totalDeposits' \in Nat, totalWithdrawals' \in Nat, fees' \in Nat,
           custody' \in Nat, arrived' \in Nat, paidOut' \in Nat,
           totalAssets' + fees' - custody' + arrived' = totalAssets + fees - custody + arrived,
           custody' - totalDeposits' + totalWithdrawals' - arrived' + paidOut' =
               custody - totalDeposits + totalWithdrawals - arrived + paidOut
    PROVE  TokensInv'
  <1>1. Profits' = Profits
    BY DEF Profits
  <1>2. /\ totalAssets' + fees' = custody' - arrived' + SumFunction(Profits)
        /\ custody' = totalDeposits' - totalWithdrawals' + arrived' - paidOut'
    <2>1. SumFunction(Profits) \in Int
      BY ProfitMap
    <2>2. QED
      BY <2>1 DEF TokensInv
  <1>3. QED
    BY <1>1, <1>2 DEF TokensInv

\* A call that writes the record of one strategy but not what it earned.
LEMMA RecordsSame ==
    ASSUME TokensInv,
           DOMAIN strategies' = DOMAIN strategies,
           strategies' \in [DOMAIN strategies' -> StrategyConfig],
           \A s \in DOMAIN strategies : /\ strategies'[s].gains = strategies[s].gains
                                        /\ strategies'[s].losses = strategies[s].losses,
           UNCHANGED <<totalAssets, totalDeposits, totalWithdrawals, fees, custody, arrived, paidOut>>
    PROVE  TokensInv'
  <1>1. Profits' = Profits
    BY DEF Profits
  <1>2. QED
    BY <1>1 DEF TokensInv

\* harvest_strategy adds the reported gain, less its fee, or takes the reported loss.
LEMMA HarvestTokens ==
    ASSUME IInv, FlagsInv, TokensInv, NEW s \in DOMAIN strategies, NEW r \in Report,
           harvest_strategy(s, r)
    PROVE  TokensInv'
  <1> DEFINE held == strategies[s].balance
             gains == IF r > held THEN r - held ELSE 0
             losses == IF r < held THEN held - r ELSE 0
             fee == performance_fee(gains)
             rec == [strategies[s] EXCEPT !.balance = r, !.gains = @ + gains,
                                          !.losses = @ + losses]
             f == Profits
             g == Profits'
  <1>1. strategies[s] \in StrategyConfig /\ r \in Int
    BY VaultAssumption DEF TokensInv
  <1>2. held \in Int
    BY <1>1 DEF StrategyConfig
  <1>3. gains \in Nat /\ losses \in Nat /\ (gains = 0 \/ losses = 0)
    BY <1>1, <1>2
  <1>4. fee \in Nat /\ (gains = 0 => fee = 0)
    <2>1. feeBps \in Nat
      BY VaultAssumption DEF FlagsInv
    <2> HIDE DEF gains
    <2>2. gains * feeBps \in Nat /\ (gains = 0 => gains * feeBps = 0)
      BY <1>3, <2>1
    <2>3. QED
      BY <2>2, VaultAssumption DEF performance_fee
  <1>5. totalAssets' = totalAssets + gains - fee - losses
    <2>1. CASE r > held
      <3>1. totalAssets' = totalAssets + net_gain(gains) /\ losses = 0
        BY <1>1, <1>2, <2>1 DEF harvest_strategy
      <3> HIDE DEF gains, losses, held, fee
      <3>2. net_gain(gains) = gains - fee
        BY DEF net_gain, fee
      <3>3. QED
        BY <1>3, <1>4, <3>1, <3>2 DEF TokensInv
    <2>2. CASE ~(r > held)
      <3>1. totalAssets' = totalAssets - losses /\ gains = 0
        BY <1>1, <1>2, <2>2 DEF harvest_strategy
      <3> HIDE DEF gains, losses, held, fee
      <3>2. QED
        BY <1>3, <1>4, <3>1 DEF TokensInv
    <2>3. QED
      BY <2>1, <2>2
  <1>6. /\ strategies' = [strategies EXCEPT ![s] = rec]
        /\ fees' = fees + fee
        /\ UNCHANGED <<totalDeposits, totalWithdrawals, custody, arrived, paidOut>>
    BY DEF harvest_strategy, totals, outside
  <1> HIDE DEF held, gains, losses, fee
  <1>7. /\ rec \in StrategyConfig
        /\ rec.gains = strategies[s].gains + gains /\ rec.losses = strategies[s].losses + losses
    <2>1. strategies[s].gains + gains \in Nat /\ strategies[s].losses + losses \in Nat
      BY <1>1, <1>3 DEF StrategyConfig
    <2>2. QED
      BY <1>1, <2>1 DEF StrategyConfig
  <1> HIDE DEF rec
  <1>8. /\ DOMAIN strategies' = DOMAIN strategies /\ strategies'[s] = rec
        /\ strategies' \in [DOMAIN strategies' -> StrategyConfig]
        /\ \A t \in DOMAIN strategies \ {s} : strategies'[t] = strategies[t]
    BY <1>6, <1>7 DEF TokensInv
  <1>9. /\ DOMAIN f = DOMAIN strategies
        /\ g \in [DOMAIN f -> Int] /\ \A t \in DOMAIN f \ {s} : g[t] = f[t]
    <2>1. \A t \in DOMAIN strategies' : strategies'[t].gains - strategies'[t].losses \in Int
      BY <1>8 DEF StrategyConfig
    <2>2. QED
      BY <1>8, <2>1 DEF Profits
  <1>10. f[s] \in Int /\ g[s] = f[s] + gains - losses
    <2>1. /\ f[s] = strategies[s].gains - strategies[s].losses
          /\ g[s] = (strategies[s].gains + gains) - (strategies[s].losses + losses)
      BY <1>7, <1>8 DEF Profits
    <2>2. QED
      BY <1>1, <1>3, <2>1 DEF StrategyConfig
  <1>11. IntMap(f) /\ SumFunction(f) \in Int
    BY ProfitMap
  <1>12. totalAssets + fees = custody - arrived + SumFunction(f)
    BY DEF TokensInv
  <1> HIDE DEF f, g
  <1>13. ChangesKey(g, f, s)
    BY <1>9, <1>11 DEF ChangesKey
  <1>14. SumFunction(g) = SumFunction(f) + gains - losses
    <2>1. SumFunction(g) = SumFunction(f) - f[s] + g[s]
      BY <1>13, SumChange
    <2>2. QED
      BY <1>3, <1>10, <1>11, <2>1
  <1>15. /\ totalAssets' \in Int /\ fees' \in Nat
         /\ totalAssets' + fees' = custody' - arrived' + SumFunction(g)
    BY <1>3, <1>4, <1>5, <1>6, <1>11, <1>12, <1>14 DEF TokensInv
  <1>16. QED
    BY <1>6, <1>8, <1>15 DEF TokensInv, g

-----------------------------------------------------------------------------
\* deposit mints a natural number of shares.
LEMMA DepositBooks ==
    ASSUME BooksInv, NEW u \in User, NEW a \in Amount, deposit(u, a)
    PROVE  FlagsInv' /\ SharesInv' /\ TokensInv'
  <1> DEFINE m == calculate_shares_for_deposit(a)
  <1>1. a \in Nat \ {0} /\ totalAssets \in Int /\ totalSupply \in Nat
    BY VaultAssumption, BooksImplied DEF deposit, VaultBooks, TypeOK
  <1>2. m \in Nat
    <2>1. CASE totalAssets <= 0 \/ totalSupply <= 0
      BY <1>1, <2>1 DEF calculate_shares_for_deposit
    <2>2. CASE ~(totalAssets <= 0 \/ totalSupply <= 0)
      <3>1. a * totalSupply \in Nat /\ totalAssets \in Nat \ {0}
        BY <1>1, <2>2
      <3>2. QED
        BY <2>2, <3>1 DEF calculate_shares_for_deposit
    <2>3. QED
      BY <2>1, <2>2
  <1>3. /\ totalAssets' = totalAssets + a /\ totalSupply' = totalSupply + m
        /\ custody' = custody + a /\ totalDeposits' = totalDeposits + a
        /\ shares' = Put(shares, u, SharesOf(u) + m)
        /\ UNCHANGED <<initialized, paused, feeBps, totalWithdrawals, fees, requests, strategies,
                       arrived, paidOut>>
    BY DEF deposit, control, outside
  <1> HIDE DEF m
  <1>4. SharesOf(u) \in Nat
    BY DEF BooksInv, SharesInv, SharesOf, GetOr
  <1>5. FlagsInv'
    BY <1>3 DEF BooksInv, FlagsInv
  <1>6. SharesInv'
    <2>1. SharesOf(u) + m \in Nat /\ totalSupply' = totalSupply - SharesOf(u) + (SharesOf(u) + m)
      BY <1>1, <1>2, <1>3, <1>4
    <2>2. QED
      BY <1>3, <2>1, AccountChanges DEF BooksInv
  <1>7. TokensInv'
    BY <1>1, <1>3, TokensMove DEF BooksInv, TokensInv
  <1>8. QED
    BY <1>5, <1>6, <1>7

\* A holder is paid what the burnt shares are worth: the three ways out.
LEMMA PaymentTokens ==
    ASSUME TokensInv, NEW g \in Int, pay(g), totalAssets' = totalAssets - g,
           totalWithdrawals' = totalWithdrawals + g,
           UNCHANGED <<totalDeposits, fees, strategies, arrived, paidOut>>
    PROVE  TokensInv'
  <1>1. /\ g \in Nat /\ custody' \in Nat /\ custody' = custody - g
    BY DEF pay, TokensInv
  <1>2. QED
    BY <1>1, TokensMove DEF TokensInv

\* withdraw: no fee is due, for the assets are not above the mark.
LEMMA WithdrawBooks ==
    ASSUME BooksInv, NEW u \in User, NEW n \in Amount, withdraw(u, n)
    PROVE  FlagsInv' /\ SharesInv' /\ TokensInv'
  <1> DEFINE g == calculate_assets_for_withdrawal(n)
  <1>1. n \in Nat /\ SharesOf(u) >= n /\ totalSupply > 0 /\ totalSupply \in Nat
    BY VaultAssumption, BooksImplied DEF withdraw, VaultBooks, TypeOK
  <1>2. fee_above_mark = 0
    BY DEF fee_above_mark, BooksInv, IInv, MoneyType, AssetsBelowMark
  <1>3. g \in Int
    BY <1>1, WorthFacts DEF BooksInv, IInv
  <1> HIDE DEF g
  <1>4. pay(g) /\ totalWithdrawals' = totalWithdrawals + g /\ fees' = fees
    <2>1. g - fee_above_mark = g /\ fees + fee_above_mark = fees
      BY <1>2, <1>3 DEF BooksInv, TokensInv
    <2>2. QED
      BY <2>1 DEF withdraw, g
  <1>5. /\ totalSupply' = totalSupply - n /\ totalAssets' = totalAssets - g
        /\ shares' = Put(shares, u, SharesOf(u) - n)
        /\ UNCHANGED <<initialized, paused, feeBps, totalDeposits, requests, strategies,
                       arrived, paidOut>>
    BY DEF withdraw, control, outside, g
  <1>6. SharesOf(u) \in Nat
    BY DEF BooksInv, SharesInv, SharesOf, GetOr
  <1>7. SharesInv'
    <2>1. SharesOf(u) - n \in Nat /\ totalSupply' = totalSupply - SharesOf(u) + (SharesOf(u) - n)
      BY <1>1, <1>5, <1>6
    <2>2. QED
      BY <1>5, <2>1, AccountChanges DEF BooksInv
  <1>8. TokensInv'
    BY <1>3, <1>4, <1>5, PaymentTokens DEF BooksInv
  <1>9. QED
    BY <1>5, <1>7, <1>8 DEF BooksInv, FlagsInv

\* emergency_withdraw: all shares of an account.
LEMMA EmergencyBooks ==
    ASSUME BooksInv, NEW u \in User, emergency_withdraw(u)
    PROVE  FlagsInv' /\ SharesInv' /\ TokensInv'
  <1> DEFINE n == SharesOf(u)
             g == calculate_assets_for_withdrawal(n)
  <1>1. n \in Nat /\ totalSupply > 0 /\ totalSupply \in Nat
    BY BooksImplied
       DEF emergency_withdraw, VaultBooks, TypeOK, BooksInv, SharesInv, SharesOf, GetOr
  <1>2. g \in Int
    BY <1>1, WorthFacts DEF BooksInv, IInv
  <1>3. /\ totalSupply' = totalSupply - n /\ totalAssets' = totalAssets - g
        /\ pay(g) /\ totalWithdrawals' = totalWithdrawals + g
        /\ shares' = Put(shares, u, 0)
        /\ UNCHANGED <<initialized, paused, feeBps, totalDeposits, fees, requests, strategies,
                       arrived, paidOut>>
    BY DEF emergency_withdraw, control, outside
  <1> HIDE DEF g
  <1>4. SharesInv'
    <2>1. totalSupply' = totalSupply - SharesOf(u) + 0
      BY <1>1, <1>3
    <2>2. QED
      BY <1>3, <2>1, AccountChanges DEF BooksInv
  <1>5. TokensInv'
    BY <1>2, <1>3, PaymentTokens DEF BooksInv
  <1>6. QED
    BY <1>3, <1>4, <1>5 DEF BooksInv, FlagsInv

\* process_withdrawal_queue: the shares of a queued withdrawal.
LEMMA ProcessBooks ==
    ASSUME BooksInv, NEW id \in DOMAIN requests, process_withdrawal_queue(id)
    PROVE  FlagsInv' /\ SharesInv' /\ TokensInv'
  <1> DEFINE g == calculate_assets_for_withdrawal(requests[id].shares)
  <1>1. requests[id].shares \in Int /\ totalSupply > 0
    BY DEF process_withdrawal_queue, BooksInv, SharesInv, WithdrawalQueueItem
  <1>2. g \in Int
    BY <1>1, WorthFacts DEF BooksInv, IInv
  <1>3. /\ totalAssets' = totalAssets - g
        /\ pay(g) /\ totalWithdrawals' = totalWithdrawals + g
        /\ UNCHANGED <<initialized, paused, feeBps, totalDeposits, fees, strategies,
                       arrived, paidOut>>
    BY DEF process_withdrawal_queue, control, outside
  <1> HIDE DEF g
  <1>4. TokensInv'
    BY <1>2, <1>3, PaymentTokens DEF BooksInv
  <1>5. QED
    BY <1>3, <1>4, ProcessShares DEF BooksInv, FlagsInv

\* Queueing and tokens that arrive.
LEMMA QueueBooks ==
    ASSUME BooksInv,
           \/ \E u \in User, n \in Amount : queue_withdrawal(u, n)
           \/ \E a \in Amount : TokensArrive(a)
    PROVE  FlagsInv' /\ SharesInv' /\ TokensInv'
  <1>1. ASSUME NEW u \in User, NEW n \in Amount, queue_withdrawal(u, n)
        PROVE  FlagsInv' /\ SharesInv' /\ TokensInv'
    <2>1. UNCHANGED <<initialized, paused, feeBps, totalAssets, totalDeposits, totalWithdrawals,
                      fees, strategies, custody, arrived, paidOut>>
      BY <1>1 DEF queue_withdrawal, control, pool, totals, outside
    <2>2. TokensInv'
      BY <2>1, RecordsSame DEF BooksInv, TokensInv
    <2>3. QED
      BY <1>1, <2>1, <2>2, QueueShares DEF BooksInv, FlagsInv
  <1>2. ASSUME NEW a \in Amount, TokensArrive(a)
        PROVE  FlagsInv' /\ SharesInv' /\ TokensInv'
    <2>1. /\ a \in Nat /\ custody' = custody + a /\ arrived' = arrived + a
          /\ UNCHANGED <<initialized, paused, feeBps, totalAssets, totalSupply, totalDeposits,
                         totalWithdrawals, fees, shares, requests, strategies, paidOut>>
      BY <1>2, VaultAssumption DEF TokensArrive, control, pool, totals, ledger
    <2>2. TokensInv'
      BY <2>1, TokensMove DEF BooksInv, TokensInv
    <2>3. QED
      BY <2>1, <2>2, SharesSame DEF BooksInv, FlagsInv
  <1>3. QED
    BY <1>1, <1>2

\* The admin's calls.
LEMMA AdministrationBooks ==
    ASSUME BooksInv, Administration
    PROVE  FlagsInv' /\ SharesInv' /\ TokensInv'
  <1>1. SharesInv' /\ FlagsInv'
    <2>1. UNCHANGED <<totalSupply, shares, requests>>
      BY DEF Administration, initialize, governance_withdraw, set_paused, set_performance_fee,
             withdraw_fees, pool, ledger
    <2>2. FlagsInv'
      <3>1. ASSUME NEW b \in Bps, set_performance_fee(b) PROVE feeBps' \in 0..MAX_FEE_BPS
        BY <3>1, VaultAssumption DEF set_performance_fee
      <3>2. feeBps' \in 0..MAX_FEE_BPS
        BY <3>1 DEF Administration, initialize, governance_withdraw, set_paused,
                    withdraw_fees, control, BooksInv, FlagsInv
      <3>3. initialized' \in BOOLEAN /\ paused' \in BOOLEAN
        BY DEF Administration, initialize, governance_withdraw, set_paused,
               set_performance_fee, withdraw_fees, control, BooksInv, FlagsInv
      <3>4. QED
        BY <3>2, <3>3 DEF FlagsInv
    <2>3. QED
      BY <2>1, <2>2, SharesSame DEF BooksInv
  <1>2. ASSUME NEW a \in Amount, governance_withdraw(a) PROVE TokensInv'
    <2>1. /\ a \in Nat /\ custody' \in Nat /\ custody' = custody - a
          /\ totalAssets' = totalAssets - a /\ paidOut' = paidOut + a
          /\ UNCHANGED <<totalDeposits, totalWithdrawals, fees, strategies, arrived>>
      BY <1>2, VaultAssumption DEF governance_withdraw, pay, totals, BooksInv, TokensInv
    <2>2. QED
      BY <2>1, TokensMove DEF BooksInv, TokensInv
  <1>3. CASE withdraw_fees
    <2>1. /\ custody' \in Nat /\ custody' = custody - fees
          /\ fees' = 0 /\ paidOut' = paidOut + fees
          /\ UNCHANGED <<totalAssets, totalDeposits, totalWithdrawals, strategies, arrived>>
      BY <1>3 DEF withdraw_fees, pay, pool, totals, BooksInv, TokensInv
    <2>2. /\ totalAssets \in Int /\ fees \in Nat /\ custody \in Nat /\ arrived \in Nat
          /\ totalDeposits \in Nat /\ totalWithdrawals \in Nat /\ paidOut \in Nat
      BY DEF BooksInv, TokensInv
    <2>3. /\ totalAssets' + fees' - custody' + arrived' = totalAssets + fees - custody + arrived
          /\ custody' - totalDeposits' + totalWithdrawals' - arrived' + paidOut' =
                 custody - totalDeposits + totalWithdrawals - arrived + paidOut
          /\ fees' \in Nat /\ paidOut' \in Nat
      BY <2>1, <2>2
    <2>4. QED
      BY <1>1, <2>1, <2>2, <2>3, TokensMove DEF BooksInv
  <1>4. CASE UNCHANGED <<totalAssets, totalDeposits, totalWithdrawals, fees, strategies, custody,
                         arrived, paidOut>>
    <2>1. /\ strategies' = strategies /\ totalAssets' = totalAssets /\ fees' = fees
          /\ totalDeposits' = totalDeposits /\ totalWithdrawals' = totalWithdrawals
          /\ custody' = custody /\ arrived' = arrived /\ paidOut' = paidOut
      BY <1>4
    <2>2. QED
      BY <1>1, <2>1, RecordsSame DEF BooksInv, TokensInv
  <1>5. QED
    BY <1>1, <1>2, <1>3, <1>4
       DEF Administration, initialize, set_paused, set_performance_fee, pool, totals, outside

\* The calls about strategies: only a harvest changes what they earned.
LEMMA StrategiesBooks ==
    ASSUME BooksInv, Strategies
    PROVE  FlagsInv' /\ SharesInv' /\ TokensInv'
  <1> USE DEF control, pool, totals, ledger, outside
  <1>1. UNCHANGED <<initialized, paused, feeBps, totalSupply, shares, requests>>
    BY DEF Strategies, add_strategy, remove_strategy, set_strategy_allocation, migrate_strategy,
           harvest_strategy, emergency_strategy_withdrawal
  <1>2. FlagsInv' /\ SharesInv'
    BY <1>1, SharesSame DEF BooksInv, FlagsInv
  <1> DEFINE Same == UNCHANGED <<totalAssets, totalDeposits, totalWithdrawals, fees, custody,
                                 arrived, paidOut>>
             SameProfit(s) == /\ strategies'[s].gains = strategies[s].gains
                              /\ strategies'[s].losses = strategies[s].losses
             Rewritten == /\ DOMAIN strategies' = DOMAIN strategies
                          /\ strategies' \in [DOMAIN strategies' -> StrategyConfig]
                          /\ \A s \in DOMAIN strategies : SameProfit(s)
  <1>3. /\ strategies \in [DOMAIN strategies -> StrategyConfig]
        /\ DOMAIN strategies \subseteq Strategy /\ totalAssets \in Int
    BY DEF BooksInv, TokensInv
  <1>4. ASSUME NEW s \in Strategy, add_strategy(s) PROVE TokensInv'
    <2> DEFINE r == [allocated |-> 0, balance |-> 0, gains |-> 0, losses |-> 0,
                     active |-> TRUE, bps |-> 0]
               f == Profits
               g == Profits'
    <2>1. r \in StrategyConfig /\ r.gains = 0 /\ r.losses = 0
      BY DEF StrategyConfig
    <2>2. strategies' = Put(strategies, s, r) /\ s \notin DOMAIN strategies /\ Same
      BY <1>4 DEF add_strategy
    <2> HIDE DEF r
    <2>3. /\ DOMAIN strategies' = DOMAIN strategies \cup {s} /\ strategies'[s] = r
          /\ strategies' \in [DOMAIN strategies' -> StrategyConfig]
          /\ \A t \in DOMAIN strategies : strategies'[t] = strategies[t]
      BY <1>3, <2>1, <2>2 DEF Put
    <2>4. /\ DOMAIN f = DOMAIN strategies /\ s \notin DOMAIN f
          /\ g \in [DOMAIN f \cup {s} -> Int] /\ \A t \in DOMAIN f : g[t] = f[t]
      <3>1. \A t \in DOMAIN strategies' : strategies'[t].gains - strategies'[t].losses \in Int
        BY <2>3 DEF StrategyConfig
      <3>2. QED
        BY <2>2, <2>3, <3>1 DEF Profits
    <2>5. g[s] = 0
      BY <2>1, <2>3 DEF Profits
    <2>6. IntMap(f) /\ SumFunction(f) \in Int
      BY ProfitMap DEF BooksInv
    <2> HIDE DEF f, g
    <2>7. SumFunction(g) = SumFunction(f)
      <3>1. AddsKey(g, f, s)
        BY <2>4, <2>6 DEF AddsKey
      <3>2. SumFunction(g) = SumFunction(f) + g[s]
        BY <3>1, SumAdd
      <3>3. QED
        BY <2>5, <2>6, <3>2
    <2>8. SumFunction(Profits') = SumFunction(Profits)
      BY <2>7 DEF f, g
    <2>9. QED
      BY <1>3, <2>2, <2>3, <2>8 DEF BooksInv, TokensInv
  <1>5. ASSUME Rewritten, Same PROVE TokensInv'
    BY <1>5, RecordsSame DEF BooksInv
  <1>6. ASSUME NEW s \in DOMAIN strategies, remove_strategy(s) PROVE Rewritten /\ Same
    <2>1. /\ strategies' = [strategies EXCEPT ![s].active = FALSE, ![s].bps = 0]
          /\ Same
      BY <1>6 DEF remove_strategy
    <2>2. Rewritten
      BY <1>3, <2>1 DEF StrategyConfig
    <2>3. QED
      BY <2>1, <2>2
  <1>7. ASSUME NEW s \in DOMAIN strategies, NEW b \in Bps, set_strategy_allocation(s, b)
        PROVE  Rewritten /\ Same
    <2> DEFINE t == Quot(totalAssets * b, BPS_DENOMINATOR)
    <2>1. b \in Nat /\ totalAssets * b \in Int
      BY <1>3, VaultAssumption
    <2>2. t \in Int
      BY <2>1, VaultAssumption, QuotFacts
    <2>3. /\ strategies' = [strategies EXCEPT ![s].bps = b, ![s].allocated = t, ![s].balance = t]
          /\ Same
      BY <1>7 DEF set_strategy_allocation
    <2> HIDE DEF t
    <2>4. Rewritten
      BY <1>3, <2>1, <2>2, <2>3 DEF StrategyConfig
    <2>5. QED
      BY <2>3, <2>4
  <1>8. ASSUME NEW s \in DOMAIN strategies, NEW t \in DOMAIN strategies, migrate_strategy(s, t)
        PROVE  Rewritten /\ Same
    <2> DEFINE n == strategies[t].allocated + strategies[s].allocated
    <2>1. n \in Int
      BY <1>3 DEF StrategyConfig
    <2>2. /\ strategies' = [strategies EXCEPT ![s].allocated = 0, ![t].allocated = n]
          /\ Same
      BY <1>8 DEF migrate_strategy
    <2> HIDE DEF n
    <2>3. Rewritten
      BY <1>3, <2>1, <2>2 DEF StrategyConfig
    <2>4. QED
      BY <2>2, <2>3
  <1>9. ASSUME NEW s \in DOMAIN strategies, emergency_strategy_withdrawal(s) PROVE Rewritten /\ Same
    BY <1>3, <1>9 DEF emergency_strategy_withdrawal, StrategyConfig
  <1>10. ASSUME NEW s \in DOMAIN strategies, NEW r \in Report, harvest_strategy(s, r)
         PROVE  TokensInv'
    BY <1>10, HarvestTokens DEF BooksInv
  <1>11. TokensInv'
    <2> HIDE DEF Rewritten, Same
    <2>1. QED
      BY <1>4, <1>5, <1>6, <1>7, <1>8, <1>9, <1>10 DEF Strategies
  <1>12. QED
    BY <1>2, <1>11

\* Every step keeps the books.
LEMMA NextBooks == BooksInv /\ [Next]_vars => BooksInv'
  <1> SUFFICES ASSUME BooksInv, [Next]_vars PROVE FlagsInv' /\ SharesInv' /\ TokensInv'
    BY NextIInv DEF BooksInv
  <1>1. CASE Holders
    BY <1>1, DepositBooks, WithdrawBooks, EmergencyBooks, ProcessBooks, QueueBooks DEF Holders
  <1>2. CASE UNCHANGED vars
    <2>1. UNCHANGED <<initialized, paused, feeBps, totalAssets, totalSupply, hwm, totalDeposits,
                      totalWithdrawals, fees, shares, requests, strategies, custody, arrived,
                      paidOut>>
      BY <1>2 DEF vars, control, pool, totals, ledger, outside
    <2>2. TokensInv'
      BY <2>1, RecordsSame DEF BooksInv, TokensInv
    <2>3. QED
      BY <2>1, <2>2, SharesSame DEF BooksInv, FlagsInv
  <1>3. QED
    BY <1>1, <1>2, AdministrationBooks, StrategiesBooks DEF Next

\* In every reachable state the vault is well typed, every share in the supply
\* belongs to an account or to a queued withdrawal, and the tokens held are the ones
\* the books tell of: no deposit, withdrawal, fee or harvest creates or loses value.
THEOREM BooksAlwaysBalance == Spec => []VaultBooks
  BY InitBooks, NextBooks, BooksImplied, PTL DEF Spec
=============================================================================
