-------------------------------- MODULE Vault ---------------------------------
(***************************************************************************)
(* contracts/vault: depositors buy shares of a pool of one token.  The     *)
(* pool's strategies are bookkeeping: the vault keeps every token, and a   *)
(* harvest changes the recorded assets to what a strategy reports.         *)
(***************************************************************************)
EXTENDS Storage

CONSTANTS
    User, Strategy,
    Amount,          \* token and share amounts a caller may name
    Report,          \* balances a strategy may report
    Bps,             \* fee and allocation rates the admin may name
    BPS_DENOMINATOR, \* lib.rs: 10_000
    DEFAULT_PERFORMANCE_FEE_BPS,  \* lib.rs: 2_000
    MAX_STRATEGIES,  \* lib.rs: 20
    MIN_QUEUED,      \* lib.rs: DEFAULT_MIN_QUEUED_WITHDRAWAL, 1_000
    MaxDeposits, MaxArrived, MaxReported, MaxAllocated, MaxRequest   \* bounds

MAX_FEE_BPS == BPS_DENOMINATOR \div 2      \* lib.rs: 5_000

ASSUME VaultAssumption ==
    /\ IsFiniteSet(User) /\ IsFiniteSet(Strategy)
    /\ Amount \subseteq Int /\ Report \subseteq Int /\ Bps \subseteq Nat
    /\ BPS_DENOMINATOR \in Nat \ {0}
    /\ DEFAULT_PERFORMANCE_FEE_BPS \in 0..MAX_FEE_BPS
    /\ MAX_STRATEGIES \in Nat /\ MIN_QUEUED \in Nat
    /\ MaxDeposits \in Nat /\ MaxArrived \in Nat /\ MaxReported \in Nat
    /\ MaxAllocated \in Nat /\ MaxRequest \in Nat

VARIABLES
    initialized, paused, feeBps,       \* Admin is set, Paused, PerformanceFeeBps
    totalAssets, totalSupply,          \* TotalAssets, TotalSupply
    totalDeposits, totalWithdrawals,   \* TotalDeposits, TotalWithdrawals
    fees,                              \* TotalFeesCollected
    hwm,                               \* HighWaterMark
    shares,                            \* UserDeposit(user).shares
    strategies,                        \* Strategy(id) and StrategyAllocBps(id)
    requests,                          \* WithdrawalQueueItem(id)
    custody,                           \* tokens the vault holds
    arrived,                           \* history: tokens sent to the vault directly
    paidOut                            \* history: tokens paid by the two admin calls

pool == <<totalAssets, totalSupply, hwm>>
totals == <<totalDeposits, totalWithdrawals>>
ledger == <<shares, requests>>
outside == <<arrived, paidOut>>
control == <<initialized, paused, feeBps>>
vars == <<control, pool, totals, fees, ledger, strategies, custody, outside>>

Pending == {id \in DOMAIN requests : ~requests[id].processed}
Active == {s \in DOMAIN strategies : strategies[s].active}
SharesOf(user) == GetOr(shares, user, 0)

-----------------------------------------------------------------------------
Init ==
    /\ initialized = FALSE /\ paused = FALSE /\ feeBps = DEFAULT_PERFORMANCE_FEE_BPS
    /\ totalAssets = 0 /\ totalSupply = 0 /\ hwm = 0
    /\ totalDeposits = 0 /\ totalWithdrawals = 0 /\ fees = 0
    /\ shares = EmptyMap /\ strategies = EmptyMap /\ requests = EmptyMap
    /\ custody = 0 /\ arrived = 0 /\ paidOut = 0

initialize ==
    /\ ~initialized
    /\ initialized' = TRUE
    /\ UNCHANGED <<paused, feeBps, pool, totals, fees, ledger, strategies, custody, outside>>

\* Rounding up, in the depositor's favour.
calculate_shares_for_deposit_Mut(amount) ==
    IF totalAssets <= 0 \/ totalSupply <= 0 THEN amount
    ELSE (amount * totalSupply + totalAssets - 1) \div totalAssets
calculate_shares_for_deposit(amount) ==
    IF totalAssets <= 0 \/ totalSupply <= 0 THEN amount
    ELSE (amount * totalSupply) \div totalAssets

\* The high-water mark is only moved by a harvest.
raise_mark_Mut(assets) == hwm
\* The mark follows the assets upwards and never falls.
raise_mark(assets) == IF assets > hwm THEN assets ELSE hwm

deposit(user, amount) ==
    LET minted == calculate_shares_for_deposit(amount) IN
    /\ initialized /\ ~paused
    /\ amount > 0
    /\ totalDeposits + amount <= MaxDeposits
    /\ custody' = custody + amount
    /\ totalAssets' = totalAssets + amount
    /\ totalSupply' = totalSupply + minted
    /\ totalDeposits' = totalDeposits + amount
    /\ hwm' = raise_mark(totalAssets + amount)
    /\ shares' = Put(shares, user, SharesOf(user) + minted)
    /\ UNCHANGED <<control, totalWithdrawals, fees, requests, strategies, outside>>

calculate_assets_for_withdrawal(n) == Quot(n * totalAssets, totalSupply)

\* Fee on recorded assets above the mark.
performance_fee(gains) == (gains * feeBps) \div BPS_DENOMINATOR
fee_above_mark == IF totalAssets > hwm THEN performance_fee(totalAssets - hwm) ELSE 0

\* transfer_token_unchecked out of the vault: the amount must be positive and
\* the token contract refuses an overdraft.
pay(amount) == amount > 0 /\ amount <= custody /\ custody' = custody - amount

withdraw(user, n) ==
    LET gross == calculate_assets_for_withdrawal(n)
        net == gross - fee_above_mark
    IN  /\ n > 0 /\ SharesOf(user) >= n
        /\ totalSupply > 0
        /\ pay(net)
        /\ totalSupply' = totalSupply - n
        /\ totalAssets' = totalAssets - gross
        /\ totalWithdrawals' = totalWithdrawals + net
        /\ fees' = fees + fee_above_mark
        /\ shares' = Put(shares, user, SharesOf(user) - n)
        /\ UNCHANGED <<control, hwm, totalDeposits, requests, strategies, outside>>

emergency_withdraw(user) ==
    LET n == SharesOf(user)
        assets == calculate_assets_for_withdrawal(n)
    IN  /\ n > 0
        /\ totalSupply > 0
        /\ pay(assets)
        /\ totalSupply' = totalSupply - n
        /\ totalAssets' = totalAssets - assets
        /\ totalWithdrawals' = totalWithdrawals + assets
        /\ shares' = Put(shares, user, 0)
        /\ UNCHANGED <<control, hwm, totalDeposits, fees, requests, strategies, outside>>

governance_withdraw(amount) ==
    /\ initialized
    /\ amount > 0 /\ amount <= totalAssets
    /\ pay(amount)
    /\ totalAssets' = totalAssets - amount
    /\ paidOut' = paidOut + amount
    /\ UNCHANGED <<control, totalSupply, hwm, totals, fees, ledger, strategies, arrived>>

\* pause and unpause.
set_paused(flag) ==
    /\ initialized
    /\ paused # flag
    /\ paused' = flag
    /\ UNCHANGED <<initialized, feeBps, pool, totals, fees, ledger, strategies, custody, outside>>

set_performance_fee(bps) ==
    /\ initialized
    /\ bps <= MAX_FEE_BPS
    /\ feeBps' = bps
    /\ UNCHANGED <<initialized, paused, pool, totals, fees, ledger, strategies, custody, outside>>

withdraw_fees ==
    /\ initialized
    /\ fees > 0
    /\ pay(fees)
    /\ fees' = 0
    /\ paidOut' = paidOut + fees
    /\ UNCHANGED <<control, pool, totals, ledger, strategies, arrived>>

-----------------------------------------------------------------------------
add_strategy(s) ==
    /\ initialized
    /\ s \notin DOMAIN strategies
    /\ Cardinality(DOMAIN strategies) < MAX_STRATEGIES
    /\ strategies' = Put(strategies, s,
          [allocated |-> 0, balance |-> 0, gains |-> 0, losses |-> 0,
           active |-> TRUE, bps |-> 0])
    /\ UNCHANGED <<control, pool, totals, fees, ledger, custody, outside>>

remove_strategy(s) ==
    /\ strategies[s].active
    /\ strategies[s].allocated <= 0
    /\ strategies' = [strategies EXCEPT ![s].active = FALSE, ![s].bps = 0]
    /\ UNCHANGED <<control, pool, totals, fees, ledger, custody, outside>>

total_allocation_bps == SumOver(LAMBDA s : strategies[s].bps, Active)

within_allocation(s, bps) ==
    total_allocation_bps - strategies[s].bps + bps <= BPS_DENOMINATOR

set_strategy_allocation(s, bps) ==
    LET target == Quot(totalAssets * bps, BPS_DENOMINATOR) IN
    /\ strategies[s].active
    /\ within_allocation(s, bps)
    /\ strategies' = [strategies EXCEPT ![s].bps = bps, ![s].allocated = target,
                                        ![s].balance = target]
    /\ UNCHANGED <<control, pool, totals, fees, ledger, custody, outside>>

\* Both records are read before either is written, so a migration of a strategy
\* onto itself doubles its allocation.
migrate_strategy(from, to) ==
    LET moved == strategies[from].allocated IN
    /\ strategies[from].active /\ strategies[to].active
    /\ moved > 0
    /\ strategies[to].allocated + moved <= MaxAllocated
    /\ strategies' = [strategies EXCEPT
          ![from].allocated = 0, ![to].allocated = strategies[to].allocated + moved]
    /\ UNCHANGED <<control, pool, totals, fees, ledger, custody, outside>>

\* The fee is collected but the assets grow by the whole gain.
net_gain_Mut(gains) == gains
net_gain(gains) == gains - performance_fee(gains)

harvest_strategy(s, reported) ==
    LET held == strategies[s].balance
        gains == IF reported > held THEN reported - held ELSE 0
        losses == IF reported < held THEN held - reported ELSE 0
        assets == IF reported > held THEN totalAssets + net_gain(gains)
                                     ELSE totalAssets - losses
    IN  /\ strategies[s].active
        /\ strategies[s].gains + gains <= MaxReported
        /\ strategies[s].losses + losses <= MaxReported
        /\ strategies' = [strategies EXCEPT ![s].balance = reported,
                             ![s].gains = @ + gains, ![s].losses = @ + losses]
        /\ totalAssets' = assets
        /\ hwm' = raise_mark(assets)
        /\ fees' = fees + performance_fee(gains)
        /\ UNCHANGED <<control, totalSupply, totals, ledger, custody, outside>>

\* Nothing is recalled, and nothing changes, when nothing is allocated.
emergency_strategy_withdrawal(s) ==
    /\ strategies[s].active
    /\ strategies[s].allocated > 0
    /\ strategies' = [strategies EXCEPT ![s].allocated = 0, ![s].balance = 0]
    /\ UNCHANGED <<control, pool, totals, fees, ledger, custody, outside>>

-----------------------------------------------------------------------------
next_withdrawal_queue_id == Cardinality(DOMAIN requests) + 1

queue_withdrawal(user, n) ==
    LET estimated == calculate_assets_for_withdrawal(n)
        id == next_withdrawal_queue_id
    IN  /\ n > 0 /\ SharesOf(user) >= n
        /\ totalSupply > 0
        /\ estimated >= MIN_QUEUED
        /\ id <= MaxRequest
        /\ shares' = Put(shares, user, SharesOf(user) - n)
        /\ requests' = Put(requests, id,
              [user |-> user, shares |-> n, estimated |-> estimated, processed |-> FALSE])
        /\ UNCHANGED <<control, pool, totals, fees, strategies, custody, outside>>

process_withdrawal_queue(id) ==
    LET assets == calculate_assets_for_withdrawal(requests[id].shares) IN
    /\ ~requests[id].processed
    /\ totalSupply > 0               \* a division by zero panics
    /\ pay(assets)
    /\ totalSupply' = totalSupply - requests[id].shares
    /\ totalAssets' = totalAssets - assets
    /\ totalWithdrawals' = totalWithdrawals + assets
    /\ requests' = [requests EXCEPT ![id].processed = TRUE]
    /\ UNCHANGED <<control, hwm, totalDeposits, fees, shares, strategies, outside>>

\* Somebody, such as a strategy realising a gain, sends tokens to the vault.
TokensArrive(amount) ==
    /\ amount > 0 /\ arrived + amount <= MaxArrived
    /\ custody' = custody + amount
    /\ arrived' = arrived + amount
    /\ UNCHANGED <<control, pool, totals, fees, ledger, strategies, paidOut>>

Holders ==
    \/ \E u \in User, a \in Amount : deposit(u, a)
    \/ \E u \in User, n \in Amount : withdraw(u, n)
    \/ \E u \in User : emergency_withdraw(u)
    \/ \E u \in User, n \in Amount : queue_withdrawal(u, n)
    \/ \E id \in DOMAIN requests : process_withdrawal_queue(id)
    \/ \E a \in Amount : TokensArrive(a)

Administration ==
    \/ initialize
    \/ \E a \in Amount : governance_withdraw(a)
    \/ \E flag \in BOOLEAN : set_paused(flag)
    \/ \E b \in Bps : set_performance_fee(b)
    \/ withdraw_fees

Strategies ==
    \/ \E s \in Strategy : add_strategy(s)
    \/ \E s \in DOMAIN strategies :
          \/ remove_strategy(s)
          \/ \E b \in Bps : set_strategy_allocation(s, b)
          \/ \E t \in DOMAIN strategies : migrate_strategy(s, t)
          \/ \E r \in Report : harvest_strategy(s, r)
          \/ emergency_strategy_withdrawal(s)

Next == Holders \/ Administration \/ Strategies

Spec == Init /\ [][Next]_vars

-----------------------------------------------------------------------------
StrategyConfig ==
    [allocated : Int, balance : Int, gains : Nat, losses : Nat,
     active : BOOLEAN, bps : Nat]

WithdrawalQueueItem ==
    [user : User, shares : Nat \ {0}, estimated : Int, processed : BOOLEAN]

\* Every variable has its type; no holder's shares, nor the tokens held, are
\* ever negative, while the recorded assets may be after a reported loss.
TypeOK ==
    /\ initialized \in BOOLEAN /\ paused \in BOOLEAN
    /\ feeBps \in 0..MAX_FEE_BPS
    /\ totalAssets \in Int /\ totalSupply \in Nat /\ hwm \in Nat
    /\ totalDeposits \in Nat /\ totalWithdrawals \in Nat /\ fees \in Nat
    /\ DOMAIN shares \subseteq User /\ shares \in [DOMAIN shares -> Nat]
    /\ DOMAIN strategies \subseteq Strategy
    /\ strategies \in [DOMAIN strategies -> StrategyConfig]
    /\ DOMAIN requests \subseteq Nat
    /\ requests \in [DOMAIN requests -> WithdrawalQueueItem]
    /\ custody \in Nat /\ arrived \in Nat /\ paidOut \in Nat

\* Every share in the supply belongs to a depositor or to a withdrawal that is
\* still queued: queue_withdrawal takes shares out of an account long before
\* process_withdrawal_queue burns them.
ShareConservation ==
    totalSupply = SumOver(SharesOf, User)
                + SumOver(LAMBDA id : requests[id].shares, Pending)

\* The recorded assets and the uncollected fees differ from the tokens held by
\* exactly the profit the strategies reported, less tokens sent directly, and
\* the tokens held are what was deposited and not withdrawn, corrected by what
\* the admin paid out: no withdrawal, fee or harvest creates or loses value.
BooksMatchTokens ==
    /\ totalAssets + fees =
          custody - arrived
          + SumOver(LAMBDA s : strategies[s].gains - strategies[s].losses, DOMAIN strategies)
    /\ custody = totalDeposits - totalWithdrawals + arrived - paidOut

\* The state is well typed, the shares minted are those the holders and the queue
\* have, and the tokens held are the ones the books tell of.
VaultBooks == TypeOK /\ ShareConservation /\ BooksMatchTokens

\* The recorded assets never exceed the high-water mark, whatever the order of
\* deposits, harvests and losses, so the fee that withdraw would take on the
\* excess, after harvest_strategy has already taken one, is never charged.
AssetsBelowMark == totalAssets <= hwm

\* A holder's call, whether deposit, withdrawal or queue processing, never
\* lowers the price of the shares that stay: rounding is in the vault's favour.
\* Only a reported loss or a governance withdrawal may lower it.
HoldersNeverDiluted ==
    [][Holders /\ totalSupply > 0
          => totalAssets' * totalSupply >= totalAssets * totalSupply']_vars
=============================================================================
