---------------------------- MODULE MultiSigWallet ----------------------------
(***************************************************************************)
(* contracts/multisig-wallet: a wallet whose payments need the             *)
(* confirmations of several signers, are executed in the order of their    *)
(* nonces, and are capped per token and calendar day unless the recipient  *)
(* is whitelisted.                                                         *)
(***************************************************************************)
EXTENDS Storage, Sequences

CONSTANTS
    Address,     \* accounts that may be signers
    Recipient,   \* accounts that may be paid
    Token,       \* token contracts
    Amount,      \* payment amounts a caller may name
    Limit,       \* daily limits the admin may name
    MAX_SIGNERS, \* lib.rs: 20
    DAY_SECONDS, \* lib.rs: 86_400
    MaxTx,       \* bound: payments submitted
    MaxTime,     \* bound: ledger timestamps
    MaxBalance   \* bound: tokens of one kind the wallet may hold

ASSUME WalletAssumption ==
    /\ Amount \subseteq Int
    /\ Limit \subseteq Int
    /\ MAX_SIGNERS \in Nat
    /\ DAY_SECONDS \in Nat \ {0}
    /\ MaxTx \in Nat
    /\ MaxTime \in Nat
    /\ MaxBalance \in Nat
    /\ IsFiniteSet(Address)

VARIABLES
    initialized,          \* DataKey::Config is set
    signers,              \* SignerList and the Signer(_) flags
    signerCount, required, dailyLimit,          \* WalletConfig
    nextTxId, nextNonce, nextExecutable,        \* WalletConfig
    whitelist,            \* Whitelist(_) flags that are true
    transactions,         \* Transaction(tx_id)
    confirmations,        \* Confirmations(tx_id)
    history,              \* ExecutionHistory
    dailySpent,           \* DailySpent(token, day)
    balance,              \* the wallet's balance in each token contract
    now,                  \* ledger timestamp
    exempt                \* history variable: payments executed uncapped

governance == <<initialized, signers, signerCount, required, dailyLimit, whitelist>>
queue == <<nextTxId, nextNonce, nextExecutable, transactions, confirmations, history>>
money == <<dailySpent, balance, exempt>>
vars == <<governance, queue, money, now>>

Day == now \div DAY_SECONDS
Executed == {id \in DOMAIN transactions : transactions[id].executed}

-----------------------------------------------------------------------------
Init ==
    /\ initialized = FALSE
    /\ signers = {} /\ signerCount = 0 /\ required = 0
    /\ dailyLimit = 0 /\ whitelist = {}
    /\ nextTxId = 0 /\ nextNonce = 0 /\ nextExecutable = 0
    /\ transactions = EmptyMap /\ confirmations = EmptyMap
    /\ history = <<>>
    /\ dailySpent = EmptyMap
    /\ balance = [t \in Token |-> 0]
    /\ now = 0
    /\ exempt = {}

\* load_transaction(id) followed by the "already executed" check that
\* confirm, revoke and execute share.
not_executed(id) == id \in DOMAIN transactions /\ ~transactions[id].executed

\* The list of signers has no duplicates, so it is modelled as a set.
validate_signer_set(list, req) ==
    /\ list # {}
    /\ Cardinality(list) <= MAX_SIGNERS
    /\ req > 0 /\ req <= Cardinality(list)

initialize(list, req, limit) ==
    /\ ~initialized
    /\ limit > 0
    /\ validate_signer_set(list, req)
    /\ initialized' = TRUE
    /\ signers' = list /\ signerCount' = Cardinality(list)
    /\ required' = req /\ dailyLimit' = limit
    /\ nextTxId' = 1 /\ nextNonce' = 1 /\ nextExecutable' = 1
    /\ history' = <<>>
    /\ UNCHANGED <<whitelist, transactions, confirmations, money, now>>

\* A deposit does not read the configuration: it works before initialize.
deposit(token, amount) ==
    /\ amount > 0
    /\ balance[token] + amount <= MaxBalance
    /\ balance' = [balance EXCEPT ![token] = @ + amount]
    /\ UNCHANGED <<governance, queue, dailySpent, exempt, now>>

submit_transaction(signer, token, recipient, amount) ==
    /\ signer \in signers
    /\ amount > 0
    /\ nextTxId <= MaxTx
    /\ transactions' = Put(transactions, nextTxId,
            [nonce |-> nextNonce, token |-> token, recipient |-> recipient,
             amount |-> amount, executed |-> FALSE, executedAt |-> 0])
    /\ confirmations' = Put(confirmations, nextTxId, {signer})
    /\ nextTxId' = nextTxId + 1
    /\ nextNonce' = nextNonce + 1
    /\ UNCHANGED <<governance, money, nextExecutable, history, now>>

confirm_transaction(signer, id) ==
    /\ signer \in signers
    /\ not_executed(id)
    /\ signer \notin confirmations[id]
    /\ confirmations' = [confirmations EXCEPT ![id] = @ \cup {signer}]
    /\ UNCHANGED <<governance, money, nextTxId, nextNonce, nextExecutable,
                   transactions, history, now>>

revoke_confirmation(signer, id) ==
    /\ signer \in signers
    /\ not_executed(id)
    /\ signer \in confirmations[id]
    /\ confirmations' = [confirmations EXCEPT ![id] = @ \ {signer}]
    /\ UNCHANGED <<governance, money, nextTxId, nextNonce, nextExecutable,
                   transactions, history, now>>

\* Confirmations of addresses that are signers now.
active_confirmation_count_Mut(id) == Cardinality(confirmations[id])
active_confirmation_count(id) == Cardinality(confirmations[id] \cap signers)

\* The limit is compared with what was spent before this payment.
apply_daily_limit_MutCheck(tx) ==
    IF tx.recipient \in whitelist
    THEN UNCHANGED dailySpent
    ELSE LET spent == GetOr(dailySpent, <<tx.token, Day>>, 0)
         IN  /\ spent < dailyLimit
             /\ dailySpent' = Put(dailySpent, <<tx.token, Day>>, spent + tx.amount)

\* The counter is kept per token only, so a new day does not reset it.
apply_daily_limit_MutDay(tx) ==
    IF tx.recipient \in whitelist
    THEN UNCHANGED dailySpent
    ELSE LET newSpent == GetOr(dailySpent, <<tx.token, 0>>, 0) + tx.amount
         IN  /\ newSpent <= dailyLimit
             /\ dailySpent' = Put(dailySpent, <<tx.token, 0>>, newSpent)

apply_daily_limit(tx) ==
    IF tx.recipient \in whitelist
    THEN UNCHANGED dailySpent
    ELSE LET newSpent == GetOr(dailySpent, <<tx.token, Day>>, 0) + tx.amount
         IN  /\ newSpent <= dailyLimit
             /\ dailySpent' = Put(dailySpent, <<tx.token, Day>>, newSpent)

transfer_token_MutOverdraw(token, amount) ==
    balance' = [balance EXCEPT ![token] = @ - amount]

\* The token contract refuses to overdraw the wallet.
transfer_token(token, amount) ==
    /\ balance[token] >= amount
    /\ balance' = [balance EXCEPT ![token] = @ - amount]

is_next_Mut(tx) == tx.nonce >= nextExecutable
is_next(tx) == tx.nonce = nextExecutable

execute_transaction(signer, id) ==
    LET tx == transactions[id] IN
    /\ signer \in signers
    /\ not_executed(id)
    /\ is_next(tx)
    /\ active_confirmation_count(id) >= required
    /\ apply_daily_limit(tx)
    /\ transactions' = [transactions EXCEPT ![id].executed = TRUE,
                                            ![id].executedAt = now]
    /\ nextExecutable' = nextExecutable + 1
    /\ transfer_token(tx.token, tx.amount)
    /\ history' = Append(history, id)
    /\ exempt' = IF tx.recipient \in whitelist THEN exempt \cup {id} ELSE exempt
    /\ UNCHANGED <<governance, nextTxId, nextNonce, confirmations, now>>

add_signer(new) ==
    /\ initialized
    /\ new \notin signers
    /\ Cardinality(signers) < MAX_SIGNERS
    /\ signers' = signers \cup {new}
    /\ signerCount' = Cardinality(signers')
    /\ UNCHANGED <<initialized, required, dailyLimit, whitelist, queue, money, now>>

\* The count that is compared with the requirement still has the signer.
enough_signers_left_Mut(list) == Cardinality(list) > 0 /\ required <= signerCount
enough_signers_left(list) == list # {} /\ required <= Cardinality(list)

remove_signer(signer) ==
    /\ initialized
    /\ signer \in signers
    /\ signers' = signers \ {signer}
    /\ enough_signers_left(signers')
    /\ signerCount' = Cardinality(signers')
    /\ UNCHANGED <<initialized, required, dailyLimit, whitelist, queue, money, now>>

change_requirement(req) ==
    /\ initialized
    /\ req # 0 /\ req <= signerCount
    /\ required' = req
    /\ UNCHANGED <<initialized, signers, signerCount, dailyLimit, whitelist,
                   queue, money, now>>

set_daily_limit(limit) ==
    /\ initialized
    /\ limit > 0
    /\ dailyLimit' = limit
    /\ UNCHANGED <<initialized, signers, signerCount, required, whitelist,
                   queue, money, now>>

set_whitelist(recipient, allowed) ==
    /\ initialized
    /\ whitelist' = IF allowed THEN whitelist \cup {recipient}
                               ELSE whitelist \ {recipient}
    /\ UNCHANGED <<initialized, signers, signerCount, required, dailyLimit,
                   queue, money, now>>

\* A later ledger closes.
Tick ==
    /\ now < MaxTime
    /\ now' = now + 1
    /\ UNCHANGED <<governance, queue, money>>

Next ==
    \/ \E list \in SUBSET Address, req \in 0..Cardinality(Address), limit \in Limit :
          initialize(list, req, limit)
    \/ \E t \in Token, a \in Amount : deposit(t, a)
    \/ \E s \in Address, r \in Recipient, t \in Token, a \in Amount :
          submit_transaction(s, t, r, a)
    \/ \E s \in Address, id \in DOMAIN transactions : confirm_transaction(s, id)
    \/ \E s \in Address, id \in DOMAIN transactions : revoke_confirmation(s, id)
    \/ \E s \in Address, id \in DOMAIN transactions : execute_transaction(s, id)
    \/ \E a \in Address : add_signer(a)
    \/ \E a \in Address : remove_signer(a)
    \/ \E req \in 0..Cardinality(Address) : change_requirement(req)
    \/ \E limit \in Limit : set_daily_limit(limit)
    \/ \E r \in Recipient, allowed \in BOOLEAN : set_whitelist(r, allowed)
    \/ Tick

Spec == Init /\ [][Next]_vars

\* Signers keep submitting the head of the queue for execution and ledgers
\* keep closing.
Fairness ==
    /\ \A id \in 1..MaxTx : WF_vars(\E s \in Address : execute_transaction(s, id))
    /\ WF_vars(Tick)

LiveSpec == Spec /\ Fairness

-----------------------------------------------------------------------------
TransactionRecord ==
    [nonce : Nat, token : Token, recipient : Recipient, amount : Nat \ {0},
     executed : BOOLEAN, executedAt : Nat]

\* Every variable holds a value of its declared Rust type, the balances the
\* token contracts keep are never negative, and every stored payment has a
\* list of confirmations.
TypeOK ==
    /\ initialized \in BOOLEAN
    /\ signers \in SUBSET Address /\ whitelist \in SUBSET Recipient
    /\ signerCount \in Nat /\ required \in Nat /\ dailyLimit \in Nat
    /\ nextTxId \in Nat /\ nextNonce \in Nat /\ nextExecutable \in Nat
    /\ DOMAIN transactions \subseteq Nat
    /\ transactions \in [DOMAIN transactions -> TransactionRecord]
    /\ confirmations \in [DOMAIN transactions -> SUBSET Address]
    /\ history \in Seq(Nat)
    /\ DOMAIN dailySpent \subseteq Token \X Nat
    /\ dailySpent \in [DOMAIN dailySpent -> Nat]
    /\ balance \in [Token -> Nat]
    /\ now \in Nat
    /\ exempt \in SUBSET Nat

\* However signers are added and removed and the requirement is changed, the
\* signers there are can always meet the requirement: remove_signer and
\* change_requirement never leave a wallet whose payments nobody can confirm.
RequirementReachable ==
    initialized => /\ 1 <= required
                   /\ required <= Cardinality(signers)
                   /\ signerCount = Cardinality(signers)
                   /\ signerCount <= MAX_SIGNERS

\* Payments are executed in the order in which they were submitted, each at
\* most once and none skipped: the history execute_transaction appends to is
\* 1, 2, ... and holds exactly the payments marked executed.
NonceOrder ==
    initialized =>
        /\ DOMAIN transactions = 1..(nextTxId - 1)
        /\ \A id \in DOMAIN transactions : transactions[id].nonce = id
        /\ Executed = 1..(nextExecutable - 1)
        /\ Len(history) = nextExecutable - 1
        /\ \A i \in 1..Len(history) : history[i] = i

\* What PaymentQueue knows of a payment.
ContentOf(tx) == [token |-> tx.token, recipient |-> tx.recipient, amount |-> tx.amount]

Queue == INSTANCE PaymentQueue WITH
    Member <- Address, Size <- Cardinality,
    Payment <- [token : Token, recipient : Recipient, amount : Amount],
    council <- signers, quorum <- required,
    ordered <- IF initialized THEN nextTxId - 1 ELSE 0,
    made <- Len(history),
    orders <- [id \in DOMAIN transactions |-> ContentOf(transactions[id])],
    assents <- confirmations

\* The wallet implements the queue that PaymentQueue describes: a payment keeps its
\* content, and execute_transaction makes the oldest one left and finds the required
\* number of confirmations by addresses that are signers at that moment, whatever was
\* removed, re-added or re-configured since they confirmed.
ImplementsQueue == Queue!Spec

\* What the records say was paid in a token on a day, leaving out payments
\* that went to a whitelisted recipient.
PaidOn(txs, exc, token, day) ==
    LET ids == {id \in DOMAIN txs : /\ txs[id].executed /\ id \notin exc
                                    /\ txs[id].token = token
                                    /\ txs[id].executedAt \div DAY_SECONDS = day}
    IN  SumOver(LAMBDA id : txs[id].amount, ids)

\* A payment to a recipient that is not whitelisted is executed only if all
\* such payments recorded for its token and day, this one included, stay
\* within the daily limit in force.
DailyCap ==
    [][\A id \in (Executed' \ Executed) \ exempt' :
          PaidOn(transactions', exempt', transactions[id].token, Day) <= dailyLimit]_vars

\* The payment at the head of the queue is confirmed, funded, and small enough
\* for one day.
Ready(id) ==
    /\ not_executed(id)
    /\ transactions[id].nonce = nextExecutable
    /\ active_confirmation_count(id) >= required
    /\ transactions[id].amount <= balance[transactions[id].token]
    /\ transactions[id].amount <= dailyLimit

\* A payment that is ready while another day is still to come is executed,
\* unless it stops being ready: a daily limit that is used up delays the head
\* of the queue until the next day, never for good.
HeadIsNotStarved ==
    \A id \in 1..MaxTx :
        (Ready(id) /\ Day < MaxTime \div DAY_SECONDS) ~> ~Ready(id)
=============================================================================
