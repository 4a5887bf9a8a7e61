-------------------------------- MODULE Escrow --------------------------------
(***************************************************************************)
(* contracts/escrow: funds held in escrow instances leave through queued   *)
(* withdrawals that need M-of-N approvals, a time-lock, a grace period and *)
(* a sliding-window rate limit.                                            *)
(***************************************************************************)
EXTENDS Storage, Sequences

CONSTANTS
    Address,      \* accounts that may sign, submit or administer
    Admin,        \* the stored admin
    Keeper,       \* an account with no role at all
    RoleHolder,   \* accounts access-control may give its Admin role
    Recipient,    \* accounts that may be paid
    Token,        \* token contracts
    Amount,       \* amounts a caller may name
    Delay, Grace, Window, RateMax,   \* values the admin may configure
    MAX_SIGNERS,  \* lib.rs: 20
    MIN_AMOUNT,   \* lib.rs: 1
    U64_MAX,      \* the largest timestamp
    MaxEscrow, MaxTx, MaxTime, MaxBalance   \* bounds

ASSUME EscrowAssumption ==
    /\ IsFiniteSet(Address) /\ Admin \in Address /\ Keeper \notin Address
    /\ RoleHolder \subseteq Address
    /\ Amount \subseteq Int
    /\ Delay \subseteq Nat /\ Grace \subseteq Nat
    /\ Window \subseteq Nat /\ RateMax \subseteq Nat
    /\ MAX_SIGNERS \in Nat /\ MIN_AMOUNT \in Nat \ {0}
    /\ U64_MAX \in Nat
    /\ MaxEscrow \in Nat /\ MaxTx \in Nat /\ MaxTime \in Nat /\ MaxBalance \in Nat

VARIABLES
    initialized,                             \* DataKey::Config is set
    signers,                                 \* SignerList and Signer(_) flags
    signerCount, required, timelock, grace,  \* EscrowConfig
    window, rateMax, paused,                 \* EscrowConfig
    roleAdmins,        \* external: who holds Role::Admin in access-control
    escrows,           \* Escrow(id)
    escrowBalance,     \* EscrowBalance(id)
    txs,               \* Transaction(tx_id)
    nextEscrowId, nextTxId,
    globalExec,        \* GlobalExecutions
    recipientExec,     \* RecipientExecutions(recipient)
    custody,           \* the contract's balance in each token contract
    now,               \* ledger timestamp
    deposited,         \* history variable: deposits credited per escrow
    widened            \* history variable: the rate-limit window was lengthened

limits == <<timelock, grace, window, rateMax, widened>>
config == <<initialized, signers, signerCount, required, limits, paused>>
rate == <<globalExec, recipientExec>>
funds == <<escrows, escrowBalance, custody, deposited, nextEscrowId>>
queue == <<txs, nextTxId>>
vars == <<config, roleAdmins, funds, queue, rate, now>>

is_admin(who) == who = Admin \/ who \in roleAdmins
Executed == {id \in DOMAIN txs : txs[id].executed}

-----------------------------------------------------------------------------
Init ==
    /\ initialized = FALSE
    /\ signers = {} /\ signerCount = 0 /\ required = 0
    /\ timelock = 0 /\ grace = 0 /\ window = 0 /\ rateMax = 0
    /\ paused = FALSE
    /\ roleAdmins = {}
    /\ escrows = EmptyMap /\ escrowBalance = EmptyMap
    /\ txs = EmptyMap /\ nextEscrowId = 1 /\ nextTxId = 1
    /\ globalExec = <<>> /\ recipientExec = EmptyMap
    /\ custody = [t \in Token |-> 0]
    /\ now = 0
    /\ deposited = EmptyMap /\ widened = FALSE

\* Signers are pairwise distinct, so their list is modelled as a set.
validate_signer_set(list, m) ==
    m # 0 /\ m <= Cardinality(list) /\ Cardinality(list) <= MAX_SIGNERS

initialize(list, m, d, g, w, r) ==
    /\ ~initialized
    /\ validate_signer_set(list, m)
    /\ g # 0 /\ r # 0 /\ w # 0
    /\ initialized' = TRUE
    /\ signers' = list /\ signerCount' = Cardinality(list) /\ required' = m
    /\ timelock' = d /\ grace' = g /\ window' = w /\ rateMax' = r
    /\ paused' = FALSE /\ UNCHANGED widened
    /\ globalExec' = <<>> /\ nextEscrowId' = 1 /\ nextTxId' = 1
    /\ UNCHANGED <<roleAdmins, escrows, escrowBalance, custody, deposited, txs,
                   recipientExec, now>>

add_signer(signer) ==
    /\ initialized
    /\ signer \notin signers
    /\ signerCount < MAX_SIGNERS
    /\ signers' = signers \cup {signer}
    /\ signerCount' = signerCount + 1
    /\ required' = IF required > signerCount' THEN signerCount' ELSE required
    /\ UNCHANGED <<initialized, limits, paused, roleAdmins, funds, queue, rate, now>>

\* Off by one: the last signer the threshold needs may leave.
may_remove_Mut == signerCount >= required
may_remove == signerCount > required

remove_signer(signer) ==
    /\ initialized
    /\ signer \in signers
    /\ may_remove
    /\ signers' = signers \ {signer}
    /\ signerCount' = signerCount - 1
    /\ UNCHANGED <<initialized, required, limits, paused, roleAdmins, funds, queue,
                   rate, now>>

set_threshold(m) ==
    /\ initialized
    /\ m # 0 /\ m <= signerCount
    /\ required' = m
    /\ UNCHANGED <<initialized, signers, signerCount, limits, paused, roleAdmins,
                   funds, queue, rate, now>>

set_timelock(d, g) ==
    /\ initialized
    /\ g # 0 /\ d <= U64_MAX - g
    /\ timelock' = d /\ grace' = g
    /\ UNCHANGED <<initialized, signers, signerCount, required, window, rateMax,
                   widened, paused, roleAdmins, funds, queue, rate, now>>

set_rate_limit(w, r) ==
    /\ initialized
    /\ w # 0 /\ r # 0
    /\ window' = w /\ rateMax' = r
    /\ widened' = (widened \/ w > window)
    /\ UNCHANGED <<initialized, signers, signerCount, required, timelock, grace,
                   paused, roleAdmins, funds, queue, rate, now>>

\* pause and unpause.
set_paused(flag) ==
    /\ initialized
    /\ paused' = flag
    /\ UNCHANGED <<initialized, signers, signerCount, required, limits,
                   roleAdmins, funds, queue, rate, now>>

-----------------------------------------------------------------------------
create_escrow(token, native) ==
    LET id == nextEscrowId IN
    /\ initialized /\ ~paused
    /\ id <= MaxEscrow
    /\ nextEscrowId' = id + 1
    /\ escrows' = Put(escrows, id, [token |-> token, native |-> native, active |-> TRUE])
    /\ escrowBalance' = Put(escrowBalance, id, 0)
    /\ deposited' = Put(deposited, id, 0)
    /\ UNCHANGED <<config, roleAdmins, custody, queue, rate, now>>

\* Tokens move only for an escrow that is not native.
move_tokens(id, delta) ==
    custody' = IF escrows[id].native THEN custody
               ELSE [custody EXCEPT ![escrows[id].token] = @ + delta]

deposit(id, amount) ==
    /\ amount >= MIN_AMOUNT
    /\ escrows[id].active
    /\ escrowBalance[id] + amount <= MaxBalance
    /\ escrowBalance' = [escrowBalance EXCEPT ![id] = @ + amount]
    /\ deposited' = [deposited EXCEPT ![id] = @ + amount]
    /\ move_tokens(id, amount)
    /\ UNCHANGED <<config, roleAdmins, escrows, nextEscrowId, queue, rate, now>>

submit_transaction(who, id, recipient, amount) ==
    LET txId == nextTxId IN
    /\ initialized /\ ~paused
    /\ who \in signers \/ is_admin(who)
    /\ amount >= MIN_AMOUNT
    /\ escrowBalance[id] >= amount
    /\ txId <= MaxTx
    /\ nextTxId' = txId + 1
    /\ txs' = Put(txs, txId,
          [escrow |-> id, recipient |-> recipient, amount |-> amount,
           submitter |-> who, approvers |-> {who}, queuedAt |-> now,
           executed |-> FALSE, cancelled |-> FALSE, executedAt |-> 0])
    /\ UNCHANGED <<config, roleAdmins, funds, rate, now>>

\* transaction(id)? and the "already executed" and "already cancelled" checks.
is_open_MutTwice(id) == id \in DOMAIN txs /\ ~txs[id].cancelled
is_open_Mut(id) == id \in DOMAIN txs /\ ~txs[id].executed
is_open(id) == id \in DOMAIN txs /\ ~txs[id].executed /\ ~txs[id].cancelled

approve_transaction(signer, id) ==
    /\ signer \in signers
    /\ is_open(id)
    /\ signer \notin txs[id].approvers
    /\ txs' = [txs EXCEPT ![id].approvers = @ \cup {signer}]
    /\ UNCHANGED <<config, roleAdmins, funds, nextTxId, rate, now>>

revoke_approval(signer, id) ==
    /\ signer \in signers
    /\ is_open(id)
    /\ signer \in txs[id].approvers
    /\ txs' = [txs EXCEPT ![id].approvers = @ \ {signer}]
    /\ UNCHANGED <<config, roleAdmins, funds, nextTxId, rate, now>>

\* checked_add fails on overflow; saturating_add stops at U64_MAX.
SaturatingAdd(a, b) == IF a + b <= U64_MAX THEN a + b ELSE U64_MAX
Cutoff == IF now >= window THEN now - window ELSE 0

InWindow(stamps) == Kept(stamps, {t \in Nat : t >= Cutoff})
count_in_window(stamps) == Len(InWindow(stamps))
prune_window(stamps) == InWindow(stamps)

check_rate_limits_Mut(recipient) == count_in_window(globalExec) <= rateMax
check_rate_limits(recipient) ==
    /\ count_in_window(globalExec) < rateMax
    /\ count_in_window(GetOr(recipientExec, recipient, <<>>)) < rateMax

in_time(tx) ==
    LET unlockAt == tx.queuedAt + timelock
        graceUntil == unlockAt + grace
    IN  /\ unlockAt <= now
        /\ graceUntil <= U64_MAX
        /\ now <= graceUntil

\* The balance that was checked when the withdrawal was queued is not
\* checked again.
debit_Mut(tx) == escrowBalance' = [escrowBalance EXCEPT ![tx.escrow] = @ - tx.amount]
debit(tx) ==
    /\ escrowBalance[tx.escrow] >= tx.amount
    /\ escrowBalance' = [escrowBalance EXCEPT ![tx.escrow] = @ - tx.amount]

execute_transaction(id) ==
    LET tx == txs[id] IN
    /\ initialized /\ ~paused
    /\ is_open(id)
    /\ Cardinality(tx.approvers) >= required
    /\ in_time(tx)
    /\ check_rate_limits(tx.recipient)
    /\ debit(tx)
    /\ move_tokens(tx.escrow, -tx.amount)
    /\ txs' = [txs EXCEPT ![id].executed = TRUE, ![id].executedAt = now]
    /\ globalExec' = prune_window(Append(globalExec, now))
    /\ recipientExec' = Put(recipientExec, tx.recipient,
            prune_window(Append(GetOr(recipientExec, tx.recipient, <<>>), now)))
    /\ UNCHANGED <<config, roleAdmins, escrows, deposited, nextEscrowId,
                   nextTxId, now>>

\* The comparison is the wrong way round.
grace_lapsed_Mut(tx) ==
    now < SaturatingAdd(SaturatingAdd(tx.queuedAt, timelock), grace)
grace_lapsed(tx) ==
    now > SaturatingAdd(SaturatingAdd(tx.queuedAt, timelock), grace)

cancel_transaction(caller, id) ==
    /\ initialized
    /\ is_open(id)
    /\ is_admin(caller) \/ caller = txs[id].submitter \/ grace_lapsed(txs[id])
    /\ txs' = [txs EXCEPT ![id].cancelled = TRUE]
    /\ UNCHANGED <<config, roleAdmins, funds, nextTxId, rate, now>>

close_escrow(id) ==
    /\ initialized
    /\ escrows' = [escrows EXCEPT ![id].active = FALSE]
    /\ UNCHANGED <<config, roleAdmins, escrowBalance, custody, deposited, nextEscrowId,
                   queue, rate, now>>

\* The linked access-control contract grants or revokes its Admin role.
SetRole(who, held) ==
    /\ roleAdmins' = IF held THEN roleAdmins \cup {who} ELSE roleAdmins \ {who}
    /\ UNCHANGED <<config, funds, queue, rate, now>>

\* A later ledger closes.
Tick ==
    /\ now < MaxTime
    /\ now' = now + 1
    /\ UNCHANGED <<config, roleAdmins, funds, queue, rate>>

Configure ==
    \/ \E list \in SUBSET Address, m \in 0..Cardinality(Address),
          d \in Delay, g \in Grace, w \in Window, r \in RateMax :
          initialize(list, m, d, g, w, r)
    \/ \E s \in Address : add_signer(s)
    \/ \E s \in Address : remove_signer(s)
    \/ \E m \in 0..Cardinality(Address) : set_threshold(m)
    \/ \E d \in Delay, g \in Grace : set_timelock(d, g)
    \/ \E w \in Window, r \in RateMax : set_rate_limit(w, r)
    \/ \E flag \in BOOLEAN : set_paused(flag)
    \/ \E who \in RoleHolder, held \in BOOLEAN : SetRole(who, held)

Operate ==
    \/ \E t \in Token, native \in BOOLEAN : create_escrow(t, native)
    \/ \E id \in DOMAIN escrows, a \in Amount : deposit(id, a)
    \/ \E who \in Address, id \in DOMAIN escrows, r \in Recipient, a \in Amount :
          submit_transaction(who, id, r, a)
    \/ \E s \in Address, id \in DOMAIN txs : approve_transaction(s, id)
    \/ \E s \in Address, id \in DOMAIN txs : revoke_approval(s, id)
    \/ \E id \in DOMAIN txs : execute_transaction(id)
    \/ \E who \in Address \cup {Keeper}, id \in DOMAIN txs : cancel_transaction(who, id)
    \/ \E id \in DOMAIN escrows : close_escrow(id)

Next == Configure \/ Operate \/ Tick

Spec == Init /\ [][Next]_vars

\* Ledgers keep closing, and somebody clears withdrawals that have lapsed.
Fairness ==
    /\ WF_vars(Tick)
    /\ \A id \in 1..MaxTx : WF_vars(cancel_transaction(Keeper, id))

LiveSpec == Spec /\ Fairness

-----------------------------------------------------------------------------
EscrowRecord == [token : Token, native : BOOLEAN, active : BOOLEAN]

EscrowTransaction ==
    [escrow : DOMAIN escrows, recipient : Recipient, amount : Nat \ {0},
     submitter : Address, approvers : SUBSET Address, queuedAt : Nat,
     executed : BOOLEAN, cancelled : BOOLEAN, executedAt : Nat]

\* Every variable has its type; neither an escrow's balance nor the tokens the
\* contract holds are ever negative, although a withdrawal's funds are only
\* checked when it is queued and again when it is executed.
TypeOK ==
    /\ initialized \in BOOLEAN /\ paused \in BOOLEAN /\ widened \in BOOLEAN
    /\ signers \in SUBSET Address /\ roleAdmins \in SUBSET Address
    /\ signerCount \in Nat /\ required \in Nat
    /\ timelock \in Nat /\ grace \in Nat /\ window \in Nat /\ rateMax \in Nat
    /\ nextEscrowId \in Nat /\ nextTxId \in Nat
    /\ DOMAIN escrows \subseteq Nat /\ DOMAIN txs \subseteq Nat
    /\ escrows \in [DOMAIN escrows -> EscrowRecord]
    /\ escrowBalance \in [DOMAIN escrows -> Nat]
    /\ deposited \in [DOMAIN escrows -> Nat]
    /\ txs \in [DOMAIN txs -> EscrowTransaction]
    /\ globalExec \in Seq(Nat)
    /\ DOMAIN recipientExec \subseteq Recipient
    /\ recipientExec \in [DOMAIN recipientExec -> Seq(Nat)]
    /\ custody \in [Token -> Nat]
    /\ now \in Nat

\* However signers come and go and the threshold is set, the signers there are
\* can meet the threshold, and the counter kept in the configuration is their
\* number: add_signer, remove_signer and set_threshold agree with each other.
ThresholdReachable ==
    initialized => /\ 1 <= required /\ required <= signerCount
                   /\ signerCount = Cardinality(signers)
                   /\ signerCount <= MAX_SIGNERS

\* A withdrawal is executed or cancelled, never both, and once it is either,
\* no later call changes it.
SettledIsFinal ==
    /\ [](\A id \in DOMAIN txs : ~(txs[id].executed /\ txs[id].cancelled))
    /\ [][\A id \in DOMAIN txs : ~is_open(id) => txs'[id] = txs[id]]_vars

\* Each escrow holds what was deposited into it less the withdrawals executed
\* from it, and the tokens the contract holds are the balances of its token
\* escrows: no interleaving of queued withdrawals pays one twice, or takes it
\* from another escrow, and native escrows claim none of the tokens.
EscrowLedger ==
    /\ \A e \in DOMAIN escrows :
          escrowBalance[e] = deposited[e]
              - SumOver(LAMBDA id : txs[id].amount, {id \in Executed : txs[id].escrow = e})
    /\ \A t \in Token :
          custody[t] = SumOver(LAMBDA e : escrowBalance[e],
              {e \in DOMAIN escrows : escrows[e].token = t /\ ~escrows[e].native})

\* The withdrawals the records show as executed within the current window,
\* to anybody or to one recipient.
ExecutedInWindow(recs, who) ==
    {id \in DOMAIN recs : /\ recs[id].executed /\ recs[id].executedAt >= Cutoff
                          /\ recs[id].recipient \in who}

\* Executing a withdrawal never makes the number of withdrawals executed in the
\* sliding window, counted from the withdrawals' own records, exceed the
\* maximum ("Maximum executions per window, both globally and per recipient"),
\* unless the window was lengthened before: the stamps that prune_window
\* dropped under the shorter window are gone.
RateLimitHolds ==
    [][Executed' # Executed /\ ~widened =>
          Cardinality(ExecutedInWindow(txs', Recipient)) <= rateMax]_vars

LapsesInTime(id) == is_open(id) /\ txs[id].queuedAt + timelock + grace < MaxTime

\* A withdrawal whose time-lock and grace period end before the last ledger is
\* eventually executed or cancelled, unless they are reconfigured to end later:
\* after the grace period anyone may clear it, without the admin or the
\* submitter.
EveryWithdrawalSettles == \A id \in 1..MaxTx : LapsesInTime(id) ~> ~LapsesInTime(id)
=============================================================================
