-------------------------- MODULE CollateralManagement --------------------------
(***************************************************************************)
(* contracts/collateral-management: users deposit tokens as collateral,    *)
(* borrow what the contract holds against their value, owe interest, and   *)
(* are liquidated when their health falls below the threshold.  Loans,     *)
(* collateral and the tokens lent share one custody per token.  The guard  *)
(* against reentry is released before every call ends.                     *)
(***************************************************************************)
EXTENDS Storage, SequencesExt

CONSTANTS
    User, Asset,
    Sum,                      \* amounts in a call
    Terms, DefaultParams, ProtocolParams,   \* collateral terms and parameters that may be set
    PriceSet, OpeningPrice,   \* prices a feed may have and has first
    Fund,                     \* what the contract is given to lend, of every token
    BPS_DENOMINATOR, SECONDS_PER_YEAR,
    MAX_LTV_BPS, MAX_LIQ_THRESHOLD_BPS, MAX_LIQ_BONUS_BPS,   \* 9500, 9800, 2000
    MaxLoans, LoanTime        \* bounds

VARIABLES
    cmReady, cmPaused, params,          \* Initialized, Paused, ProtocolParams
    collateralType, collateralTokens,   \* CollateralType(token), CollateralTokens
    priceCache,                         \* PriceCache(feed); a token's feed is the token
    userCollateral, totalCollateral,    \* UserCollateral(u, t), TotalCollateral(t)
    loans, totalDebt,                   \* Loan(id), at id + 1, and TotalDebt(t)
    feed,                               \* external: what the oracle answers, 0 if nothing
    custody,                            \* external: the contract's balances
    cmNow                               \* external: the ledger time

cmConfig == <<cmReady, cmPaused, params, collateralType, collateralTokens, priceCache>>
accounts == <<userCollateral, totalCollateral, loans, totalDebt, custody>>
cmVars == <<cmConfig, accounts, feed, cmNow>>

-----------------------------------------------------------------------------
MinOf(a, b) == IF a < b THEN a ELSE b

calculate_utilization(borrowed, deposits) ==
    IF deposits <= 0 THEN 0
    ELSE MinOf((borrowed * BPS_DENOMINATOR) \div deposits, BPS_DENOMINATOR)

calculate_interest_rate(p, util) ==
    CASE p.optimal <= 0 -> p.base
      [] p.optimal > 0 /\ util <= p.optimal -> p.base + (p.slope1 * util) \div p.optimal
      [] OTHER -> p.base + p.slope1
                + IF p.optimal >= BPS_DENOMINATOR THEN p.slope2
                  ELSE (p.slope2 * (util - p.optimal)) \div (BPS_DENOMINATOR - p.optimal)

calculate_accrued_interest(principal, rate, delta) ==
    (principal * rate * delta) \div (BPS_DENOMINATOR * SECONDS_PER_YEAR)

\* Collateral for the debt and the bonus, rounded up.
calculate_liquidation_seizure(debt, price, bonus) ==
    (debt * (BPS_DENOMINATOR + bonus) + price * BPS_DENOMINATOR - 1)
        \div (price * BPS_DENOMINATOR)

-----------------------------------------------------------------------------
get_oracle_price(t) == GetOr(priceCache, t, feed[t])

Held(u, t) == GetOr(userCollateral, <<u, t>>, 0)
HeldBy(u) == [t \in Asset |-> Held(u, t)]

\* The registered tokens of which `held` has some, in order.
Counted(held) == SelectSeq(collateralTokens, LAMBDA t : held[t] > 0)

\* Every price a valuation of `held` asks for is there.
Priced(held) == \A t \in ToSet(Counted(held)) : get_oracle_price(t) > 0

ValueOf(t, amount) == (amount * get_oracle_price(t)) \div collateralType[t].price_scale

\* total_collateral_value and total_collateral_value_override
total_collateral_value(held) == SumOver(LAMBDA t : ValueOf(t, held[t]), ToSet(Counted(held)))

\* weighted_threshold and weighted_threshold_override
weighted_threshold(held) ==
    LET total == total_collateral_value(held)
    IN  IF total <= 0 THEN 0
        ELSE SumOver(LAMBDA t : ValueOf(t, held[t]) * collateralType[t].threshold,
                     ToSet(Counted(held))) \div total

\* calculate_health_factor is at least the threshold.
Healthy(held, debt) ==
    debt > 0 =>
        LET value == total_collateral_value(held)
            health == IF value <= 0 THEN 0 ELSE (value * weighted_threshold(held)) \div debt
        IN  health >= params.threshold

Open(loan) == ~loan.liquidated /\ ~loan.repaid

LoansOf(book, u) == {i \in DOMAIN book : book[i].borrower = u /\ Open(book[i])}

user_total_debt(book, u) == SumOver(LAMBDA i : book[i].debt, LoansOf(book, u))

user_debt_for_token(book, u, t) ==
    SumOver(LAMBDA i : book[i].debt, {i \in LoansOf(book, u) : book[i].token = t})

\* What accrue_loan adds to a loan, and the loan with it.
interest_due(loan) ==
    IF ~Open(loan) \/ cmNow <= loan.updated THEN 0
    ELSE calculate_accrued_interest(loan.principal, loan.rate, cmNow - loan.updated)

accrue_loan(loan) ==
    LET due == interest_due(loan)
    IN  IF due <= 0 THEN loan
        ELSE [loan EXCEPT !.interest = @ + due, !.debt = loan.principal + loan.interest + due,
                          !.updated = cmNow]

\* The total debt when the loans in `ids` have accrued.
\* The interest of an accrual is not added to the total.
debt_accrued_Mut(ids) == totalDebt
debt_accrued(ids) ==
    [t \in Asset |-> totalDebt[t]
        + SumOver(LAMBDA i : interest_due(loans[i]), {i \in ids : loans[i].token = t})]

loans_accrued(ids) ==
    [i \in DOMAIN loans |-> IF i \in ids THEN accrue_loan(loans[i]) ELSE loans[i]]

-----------------------------------------------------------------------------
Init ==
    /\ cmReady = FALSE /\ cmPaused = FALSE /\ params = DefaultParams
    /\ collateralType = EmptyMap /\ collateralTokens = <<>> /\ priceCache = EmptyMap
    /\ userCollateral = EmptyMap /\ totalCollateral = [t \in Asset |-> 0]
    /\ loans = <<>> /\ totalDebt = [t \in Asset |-> 0]
    /\ feed = [t \in Asset |-> OpeningPrice] /\ custody = [t \in Asset |-> Fund] /\ cmNow = 0

initialize ==
    /\ ~cmReady
    /\ cmReady' = TRUE
    /\ UNCHANGED <<cmPaused, params, collateralType, collateralTokens, priceCache, accounts,
                   feed, cmNow>>

valid_terms(c) ==
    /\ c.ltv <= MAX_LTV_BPS
    /\ c.ltv <= c.threshold /\ c.threshold <= MAX_LIQ_THRESHOLD_BPS
    /\ c.bonus <= MAX_LIQ_BONUS_BPS

register_collateral_type(t, c) ==
    /\ cmReady /\ ~cmPaused
    /\ t \notin DOMAIN collateralType
    /\ valid_terms(c) /\ c.cap >= 0 /\ c.price_scale > 0
    /\ collateralType' = Put(collateralType, t, c)
    /\ collateralTokens' = Append(collateralTokens, t)
    /\ UNCHANGED <<cmReady, cmPaused, params, priceCache, accounts, feed, cmNow>>

update_collateral_type(t, c) ==
    /\ cmReady /\ ~cmPaused
    /\ t \in DOMAIN collateralType
    /\ valid_terms(c)
    /\ collateralType' = [collateralType EXCEPT ![t].ltv = c.ltv, ![t].threshold = c.threshold,
                                                ![t].bonus = c.bonus, ![t].cap = c.cap]
    /\ UNCHANGED <<cmReady, cmPaused, params, collateralTokens, priceCache, accounts, feed, cmNow>>

\* deactivate_collateral_type and reactivate_collateral_type
set_active(t, flag) ==
    /\ cmReady
    /\ t \in DOMAIN collateralType
    /\ collateralType' = [collateralType EXCEPT ![t].active = flag]
    /\ UNCHANGED <<cmReady, cmPaused, params, collateralTokens, priceCache, accounts, feed, cmNow>>

set_protocol_parameters(p) ==
    /\ cmReady
    /\ params' = p
    /\ UNCHANGED <<cmReady, cmPaused, collateralType, collateralTokens, priceCache, accounts,
                   feed, cmNow>>

set_price(t, price) ==
    /\ cmReady
    /\ price > 0
    /\ priceCache' = Put(priceCache, t, price)
    /\ UNCHANGED <<cmReady, cmPaused, params, collateralType, collateralTokens, accounts,
                   feed, cmNow>>

\* pause and unpause
set_paused(flag) ==
    /\ cmReady
    /\ cmPaused' = flag
    /\ UNCHANGED <<cmReady, params, collateralType, collateralTokens, priceCache, accounts,
                   feed, cmNow>>

-----------------------------------------------------------------------------
\* A limit of zero is none.
Within(amount, limit) == limit > 0 => amount <= limit

deposit_collateral(u, t, amount) ==
    /\ ~cmPaused
    /\ t \in DOMAIN collateralType /\ collateralType[t].active
    /\ Within(totalCollateral[t] + amount, collateralType[t].cap)
    /\ Within(Held(u, t) + amount, params.max_collateral)
    /\ userCollateral' = Put(userCollateral, <<u, t>>, Held(u, t) + amount)
    /\ totalCollateral' = [totalCollateral EXCEPT ![t] = @ + amount]
    /\ custody' = [custody EXCEPT ![t] = @ + amount]
    /\ UNCHANGED <<cmConfig, loans, totalDebt, feed, cmNow>>

\* The health after a withdrawal is that of the debts as last accrued.
\* The collateral is valued before the withdrawal.
withdrawal_is_safe_Mut(u, t, amount) == Healthy(HeldBy(u), user_total_debt(loans, u))
withdrawal_is_safe(u, t, amount) ==
    Healthy([HeldBy(u) EXCEPT ![t] = @ - amount], user_total_debt(loans, u))

withdraw_collateral(u, t, amount) ==
    LET left == [HeldBy(u) EXCEPT ![t] = @ - amount]
    IN  /\ ~cmPaused
        /\ amount <= Held(u, t) /\ amount <= custody[t]
        /\ user_total_debt(loans, u) > 0 => Priced(left)
        /\ withdrawal_is_safe(u, t, amount)
        /\ userCollateral' = Put(userCollateral, <<u, t>>, Held(u, t) - amount)
        /\ totalCollateral' = [totalCollateral EXCEPT ![t] = @ - amount]
        /\ custody' = [custody EXCEPT ![t] = @ - amount]
        /\ UNCHANGED <<cmConfig, loans, totalDebt, feed, cmNow>>

\* The caps count the debts before they accrue, the health after.
\* LendingPoolDeposits is never written.
borrow(u, t, amount) ==
    LET ids == LoansOf(loans, u)
        book == loans_accrued(ids)
        debt == debt_accrued(ids)
        loan == [borrower |-> u, token |-> t, principal |-> amount, interest |-> 0,
                 debt |-> amount, updated |-> cmNow, liquidated |-> FALSE, repaid |-> FALSE,
                 rate |-> calculate_interest_rate(params, calculate_utilization(debt[t], 0))]
    IN  /\ ~cmPaused
        /\ Within(user_debt_for_token(loans, u, t) + amount, params.max_borrow)
        /\ Within(totalDebt[t] + amount, params.ceiling)
        /\ Priced(HeldBy(u))
        /\ total_collateral_value(HeldBy(u)) > 0
        /\ Healthy(HeldBy(u), user_total_debt(book, u) + amount)
        /\ amount <= custody[t]
        /\ Len(loans) < MaxLoans
        /\ loans' = Append(book, loan)
        /\ totalDebt' = [debt EXCEPT ![t] = @ + amount]
        /\ custody' = [custody EXCEPT ![t] = @ - amount]
        /\ UNCHANGED <<cmConfig, userCollateral, totalCollateral, feed, cmNow>>

\* Interest first, then principal; a loan that owes nothing ends in state `how`.
paid(loan, amount, how) ==
    LET toInterest == MinOf(amount, loan.interest)
        rest == [loan EXCEPT !.interest = @ - toInterest,
                             !.principal = @ - (amount - toInterest), !.debt = @ - amount]
    IN  IF rest.debt > 0 THEN rest
        ELSE [rest EXCEPT ![how] = TRUE, !.debt = 0, !.principal = 0, !.interest = 0]

repay_loan(i, amount) ==
    LET loan == accrue_loan(loans[i])
    IN  /\ ~cmPaused
        /\ Open(loan)
        /\ amount <= loan.debt
        /\ loans' = [loans EXCEPT ![i] = paid(loan, amount, "repaid")]
        /\ totalDebt' = [debt_accrued({i}) EXCEPT ![loan.token] = @ - amount]
        /\ custody' = [custody EXCEPT ![loan.token] = @ + amount]
        /\ UNCHANGED <<cmConfig, userCollateral, totalCollateral, feed, cmNow>>

\* The registered token that is worth most to the account, the first of equals.
best_seize_collateral(u) ==
    LET tokens == Counted(HeldBy(u))
        worth(k) == ValueOf(tokens[k], Held(u, tokens[k]))
        k == CHOOSE k \in DOMAIN tokens :
                /\ \A j \in DOMAIN tokens : worth(j) <= worth(k)
                /\ \A j \in 1..(k - 1) : worth(j) < worth(k)
    IN  tokens[k]

Covered(i, amount) == MinOf(amount, accrue_loan(loans[i]).debt)

Seized(i, amount) ==
    LET t == best_seize_collateral(loans[i].borrower)
    IN  calculate_liquidation_seizure(Covered(i, amount), get_oracle_price(t),
                                      collateralType[t].bonus)

\* Whether the account may be liquidated is read from the loans as stored, before
\* the interest that this call adds to one of them.
liquidate(i, amount) ==
    LET u == loans[i].borrower
        loan == accrue_loan(loans[i])
        t == best_seize_collateral(u)
        covered == Covered(i, amount)
        seized == Seized(i, amount)
    IN  /\ ~cmPaused
        /\ Open(loan)
        /\ Priced(HeldBy(u))
        /\ ~Healthy(HeldBy(u), user_total_debt(loans, u))
        /\ Counted(HeldBy(u)) # <<>>
        /\ seized <= Held(u, t)
        /\ seized <= custody[t] + IF t = loan.token THEN covered ELSE 0
        /\ custody' = [a \in Asset |-> custody[a] + (IF a = loan.token THEN covered ELSE 0)
                                                  - (IF a = t THEN seized ELSE 0)]
        /\ userCollateral' = Put(userCollateral, <<u, t>>, Held(u, t) - seized)
        /\ totalCollateral' = [totalCollateral EXCEPT ![t] = @ - seized]
        /\ loans' = [loans EXCEPT ![i] = paid(loan, covered, "liquidated")]
        /\ totalDebt' = [debt_accrued({i}) EXCEPT ![loan.token] = @ - covered]
        /\ UNCHANGED <<cmConfig, feed, cmNow>>

\* accrue_interest on one loan, accrue_all_interest on those of a borrower; both
\* are for anyone to call, paused or not.
accrue(ids) ==
    /\ loans' = loans_accrued(ids)
    /\ totalDebt' = debt_accrued(ids)
    /\ UNCHANGED <<cmConfig, userCollateral, totalCollateral, custody, feed, cmNow>>

\* The oracle's answer changes.
FeedMoves(t, price) ==
    /\ feed' = [feed EXCEPT ![t] = price]
    /\ UNCHANGED <<cmConfig, accounts, cmNow>>

Administration ==
    \/ initialize
    \/ \E t \in Asset, c \in Terms : register_collateral_type(t, c) \/ update_collateral_type(t, c)
    \/ \E t \in Asset, flag \in BOOLEAN : set_active(t, flag)
    \/ \E p \in ProtocolParams : set_protocol_parameters(p)
    \/ \E t \in Asset, p \in PriceSet : set_price(t, p) \/ FeedMoves(t, p)
    \/ \E flag \in BOOLEAN : set_paused(flag)

Lending ==
    \/ \E u \in User, t \in Asset, a \in Sum :
          deposit_collateral(u, t, a) \/ withdraw_collateral(u, t, a) \/ borrow(u, t, a)
    \/ \E i \in DOMAIN loans :
          (\E a \in Sum : repay_loan(i, a) \/ liquidate(i, a)) \/ accrue({i})
    \/ \E u \in User : accrue(LoansOf(loans, u))

\* The ledger's clock.
Tick == cmNow < LoanTime /\ cmNow' = cmNow + 1 /\ UNCHANGED <<cmConfig, accounts, feed>>

Next == Administration \/ Lending \/ Tick

Spec == Init /\ [][Next]_cmVars

-----------------------------------------------------------------------------
\* Every variable has its type; a closed loan owes nothing, and it closed one way.
TypeOK ==
    /\ cmReady \in BOOLEAN /\ cmPaused \in BOOLEAN
    /\ ToSet(collateralTokens) = DOMAIN collateralType /\ IsInjective(collateralTokens)
    /\ \A k \in DOMAIN userCollateral : userCollateral[k] \in Nat
    /\ custody \in [Asset -> Nat] /\ totalDebt \in [Asset -> Int]
    /\ \A i \in DOMAIN loans :
          /\ loans[i].principal \in Nat /\ loans[i].interest \in Nat
          /\ loans[i].debt = loans[i].principal + loans[i].interest
          /\ Open(loans[i]) = (loans[i].debt > 0) /\ ~(loans[i].liquidated /\ loans[i].repaid)

\* The running totals are what the accounts say: the total debt in a token is the
\* sum of its loans, through interest that is accrued by whoever touches a loan,
\* repayments and partial liquidations, and the total collateral that of the users.
\* Collateral and loans share one custody, and still nothing goes missing: the
\* tokens held and the principal lent are at least the collateral owed to the
\* users and what the contract was given to lend.
LendingLedger ==
    \A t \in Asset :
        LET of_t == {i \in DOMAIN loans : loans[i].token = t} IN
        /\ totalDebt[t] = SumOver(LAMBDA i : loans[i].debt, of_t)
        /\ totalCollateral[t] = SumOver(LAMBDA u : Held(u, t), User)
        /\ custody[t] + SumOver(LAMBDA i : loans[i].principal, of_t) >= Fund + totalCollateral[t]

AccountHealthy(u) == Priced(HeldBy(u)) => Healthy(HeldBy(u), user_total_debt(loans, u))

\* The collateral covers the debt when the weighted threshold is not rounded.
CoveredUnrounded(u) ==
    SumOver(LAMBDA t : ValueOf(t, Held(u, t)) * collateralType[t].threshold,
            ToSet(Counted(HeldBy(u)))) >= params.threshold * user_total_debt(loans, u)

PrincipalOf(u) == SumOver(LAMBDA i : loans[i].principal, LoansOf(loans, u))

\* While prices and parameters stay as they are, a healthy account is put within
\* reach of liquidation only by interest falling due, or by a deposit of its own in a
\* token with a lower threshold, whose rounding alone costs it its health: never by a
\* borrowing, a withdrawal or a liquidation, of whichever account.
HealthLostToInterest ==
    [][UNCHANGED <<cmConfig, feed>> =>
        \A u \in User : AccountHealthy(u) /\ ~AccountHealthy(u)' =>
            /\ \/ user_total_debt(loans, u)' > user_total_debt(loans, u)
               \/ CoveredUnrounded(u)'
            /\ PrincipalOf(u)' <= PrincipalOf(u)
            /\ \A t \in Asset : Held(u, t)' >= Held(u, t)]_cmVars

\* calculate_liquidation_seizure: "seizes enough collateral to cover debt + bonus".
\* What a liquidator receives is worth at least the debt it paid.
SeizureCoversDebt ==
    [][\A i \in DOMAIN loans, a \in Sum : liquidate(i, a) =>
          ValueOf(best_seize_collateral(loans[i].borrower), Seized(i, a)) >= Covered(i, a)]_cmVars
=============================================================================
