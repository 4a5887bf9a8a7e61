------------------------------ MODULE Governance ------------------------------
(***************************************************************************)
(* contracts/governance: token holders propose, vote, queue and execute    *)
(* payments.  Voting power is read from the token contract, from time-     *)
(* weighted locks and from delegations at the moment it is used.           *)
(*                                                                         *)
(* A ledger is the unit of both clocks the contract reads, the ledger      *)
(* sequence (voting window) and the timestamp (time-lock).                 *)
(***************************************************************************)
EXTENDS Storage

CONSTANTS
    Voter,           \* accounts that hold the voting token
    Admin,
    Holding,         \* what each of them holds at first
    Amount,          \* amounts a caller may lock or transfer
    Delegated,       \* amounts a caller may delegate
    Payment,         \* what a proposal may pay from the treasury
    TotalSupply,     \* supply the admin may declare at initialization
    Delay, Period, Timelock, Quorum, Threshold,  \* parameters the admin may set
    ProposalThreshold,
    LockDuration,    \* durations a caller may name
    MIN_LOCK_DURATION, MAX_LOCK_DURATION,   \* utils.rs: 7 days, 4 years
    GRACE_PERIOD,    \* contract.rs:588: 14 days
    BPS,             \* 10000
    Treasury,        \* what the contract holds at first
    MaxProposal, MaxTime   \* bounds

VoteType == {"For", "Against", "Abstain"}

ASSUME GovernanceAssumption ==
    /\ IsFiniteSet(Voter) /\ Admin \notin Voter
    /\ Holding \in Nat /\ Amount \subseteq Int /\ Delegated \subseteq Int
    /\ Payment \subseteq Nat /\ TotalSupply \subseteq Nat
    /\ Delay \subseteq Nat /\ Period \subseteq Nat /\ Timelock \subseteq Nat
    /\ Quorum \subseteq Nat /\ Threshold \subseteq Nat /\ ProposalThreshold \subseteq Int
    /\ LockDuration \subseteq Nat
    /\ MIN_LOCK_DURATION \in Nat \ {0} /\ MAX_LOCK_DURATION \in Nat
    /\ GRACE_PERIOD \in Nat /\ BPS \in Nat \ {0} /\ Treasury \in Nat
    /\ MaxProposal \in Nat /\ MaxTime \in Nat

VARIABLES
    initialized,
    votingDelay, votingPeriod, timelock, quorum, threshold,  \* what may be reconfigured
    proposalThreshold, totalSupply,
    proposals,        \* Proposal(id); ids count from 0
    votes,            \* Vote(id, voter)
    delegations,      \* Delegation(delegator)
    delegatedPower,   \* DelegatedPower(delegatee)
    locks,            \* VeLock(account)
    balance,          \* external: the voting token
    treasury,         \* external: the contract's balance of the token it pays in
    now

params == <<votingDelay, votingPeriod, timelock, quorum, threshold>>
config == <<initialized, params, proposalThreshold, totalSupply>>
power == <<delegations, delegatedPower, locks>>
vars == <<config, proposals, votes, power, balance, treasury, now>>

-----------------------------------------------------------------------------
calculate_ve_balance(a) ==
    IF a \notin DOMAIN locks \/ now >= locks[a].end THEN 0
    ELSE (locks[a].amount * (locks[a].end - now)) \div (locks[a].end - locks[a].created)

get_voting_power(a) ==
    balance[a] + calculate_ve_balance(a) + GetOr(delegatedPower, a, 0)

quorum_reached(p) ==
    /\ totalSupply # 0
    /\ (p.for + p.against + p.abstain) * BPS >= totalSupply * quorum

threshold_reached(p) ==
    /\ p.for + p.against # 0
    /\ p.for * BPS >= (p.for + p.against) * threshold

\* A proposal that was never executed in time stays queued.
state_MutNoExpiry(p) ==
    CASE p.canceled -> "Canceled"
      [] ~p.canceled /\ now < p.start -> "Pending"
      [] ~p.canceled /\ p.start <= now /\ now <= p.end -> "Active"
      [] OTHER -> IF ~(quorum_reached(p) /\ threshold_reached(p)) THEN "Defeated"
                  ELSE IF p.executed THEN "Executed"
                  ELSE IF p.eta = 0 THEN "Succeeded" ELSE "Queued"
\* The conditions are tried in this order; the first that holds decides.
state(p) ==
    LET Before == now < p.start
        Open == ~Before /\ now <= p.end
        Passed == quorum_reached(p) /\ threshold_reached(p)
    IN  CASE p.canceled -> "Canceled"
          [] ~p.canceled /\ Before -> "Pending"
          [] ~p.canceled /\ Open -> "Active"
          [] OTHER ->
               CASE ~Passed -> "Defeated"
                 [] Passed /\ p.executed -> "Executed"
                 [] Passed /\ ~p.executed /\ p.eta = 0 -> "Succeeded"
                 [] OTHER -> IF now > p.eta + GRACE_PERIOD THEN "Expired" ELSE "Queued"

-----------------------------------------------------------------------------
Init ==
    /\ initialized = FALSE
    /\ votingDelay = 0 /\ votingPeriod = 0 /\ timelock = 0 /\ quorum = 0 /\ threshold = 0
    /\ proposalThreshold = 0 /\ totalSupply = 0
    /\ proposals = EmptyMap /\ votes = EmptyMap
    /\ delegations = EmptyMap /\ delegatedPower = EmptyMap /\ locks = EmptyMap
    /\ balance = [v \in Voter |-> Holding]
    /\ treasury = Treasury
    /\ now = 1

set_params(d, p, t, q, a) ==
    /\ votingDelay' = d /\ votingPeriod' = p /\ timelock' = t
    /\ quorum' = q /\ threshold' = a

initialize(d, p, t, q, a, pt, supply) ==
    /\ ~initialized
    /\ initialized' = TRUE
    /\ set_params(d, p, t, q, a)
    /\ proposalThreshold' = pt /\ totalSupply' = supply
    /\ UNCHANGED <<proposals, votes, power, balance, treasury, now>>

propose(proposer, payment) ==
    LET id == Cardinality(DOMAIN proposals) IN
    /\ initialized
    /\ get_voting_power(proposer) >= proposalThreshold
    /\ id < MaxProposal
    /\ proposals' = Put(proposals, id,
          [proposer |-> proposer, payment |-> payment, eta |-> 0,
           start |-> now + votingDelay, end |-> now + votingDelay + votingPeriod,
           for |-> 0, against |-> 0, abstain |-> 0,
           canceled |-> FALSE, executed |-> FALSE])
    /\ votes' = Put(votes, id, EmptyMap)
    /\ UNCHANGED <<config, power, balance, treasury, now>>

may_vote(voter, id) ==
    state(proposals[id]) = "Active" /\ voter \notin DOMAIN votes[id]

cast_vote(voter, id, type) ==
    LET weight == get_voting_power(voter)
        p == proposals[id]
    IN  /\ may_vote(voter, id)
        /\ proposals' = [proposals EXCEPT ![id] =
              [p EXCEPT !.for = @ + IF type = "For" THEN weight ELSE 0,
                        !.against = @ + IF type = "Against" THEN weight ELSE 0,
                        !.abstain = @ + IF type = "Abstain" THEN weight ELSE 0]]
        /\ votes' = [votes EXCEPT ![id] = Put(@, voter, [type |-> type, weight |-> weight])]
        /\ UNCHANGED <<config, power, balance, treasury, now>>

\* A queued proposal may be queued again, with a new time-lock.
may_queue_Mut(p) == state(p) \in {"Succeeded", "Queued"}
may_queue(p) == state(p) = "Succeeded"

queue(id) ==
    /\ may_queue(proposals[id])
    /\ proposals' = [proposals EXCEPT ![id].eta = now + timelock]
    /\ UNCHANGED <<config, votes, power, balance, treasury, now>>

\* The time-lock is not waited for.
timelock_over_Mut(p) == TRUE
timelock_over(p) == now >= p.eta

\* The transfer fails, and with it the whole call, when the treasury is short;
\* the proposal stays queued.
run_actions_Mut(p) == treasury' = treasury - p.payment
run_actions(p) == p.payment <= treasury /\ treasury' = treasury - p.payment

execute(id) ==
    LET p == proposals[id] IN
    /\ state(p) = "Queued"
    /\ timelock_over(p)
    /\ run_actions(p)
    /\ proposals' = [proposals EXCEPT ![id].executed = TRUE]
    /\ UNCHANGED <<config, votes, power, balance, now>>

may_cancel(p) == ~p.executed

cancel(caller, id) ==
    /\ may_cancel(proposals[id])
    /\ caller \in {proposals[id].proposer, Admin}
    /\ proposals' = [proposals EXCEPT ![id].canceled = TRUE]
    /\ UNCHANGED <<config, votes, power, balance, treasury, now>>

\* Revoking takes the delegator's balance, not what was delegated.
revoked_amount_Mut(d) == balance[d]
revoked_amount(d) == delegations[d].amount

\* The delegator's balance is only looked at here, and an amount below zero
\* passes.
delegate(delegator, delegatee, amount) ==
    /\ initialized
    /\ delegator # delegatee
    /\ delegator \notin DOMAIN delegations
    /\ balance[delegator] >= amount
    /\ delegations' = Put(delegations, delegator, [delegatee |-> delegatee, amount |-> amount])
    /\ delegatedPower' = Put(delegatedPower, delegatee, GetOr(delegatedPower, delegatee, 0) + amount)
    /\ UNCHANGED <<config, proposals, votes, locks, balance, treasury, now>>

revoke_delegation(delegator) ==
    LET d == delegations[delegator] IN
    /\ delegator \in DOMAIN delegations
    /\ delegatedPower' = Put(delegatedPower, d.delegatee,
                             GetOr(delegatedPower, d.delegatee, 0) - revoked_amount(delegator))
    /\ delegations' = Drop(delegations, delegator)
    /\ UNCHANGED <<config, proposals, votes, locks, balance, treasury, now>>

lock_tokens(account, amount, duration) ==
    /\ initialized
    /\ amount > 0
    /\ duration \in MIN_LOCK_DURATION..MAX_LOCK_DURATION
    /\ account \notin DOMAIN locks
    /\ balance[account] >= amount
    /\ locks' = Put(locks, account, [amount |-> amount, end |-> now + duration, created |-> now])
    /\ UNCHANGED <<config, proposals, votes, delegations, delegatedPower, balance, treasury, now>>

withdraw_tokens(account) ==
    /\ account \in DOMAIN locks
    /\ now >= locks[account].end
    /\ locks' = Drop(locks, account)
    /\ UNCHANGED <<config, proposals, votes, delegations, delegatedPower, balance, treasury, now>>

set_voting_params(d, p, t, q, a) ==
    /\ initialized
    /\ set_params(d, p, t, q, a)
    /\ UNCHANGED <<initialized, proposalThreshold, totalSupply, proposals, votes, power,
                   balance, treasury, now>>

\* Holders move voting tokens between them.
TokenTransfer(from, to, amount) ==
    /\ from # to /\ 0 < amount /\ amount <= balance[from]
    /\ balance' = [balance EXCEPT ![from] = @ - amount, ![to] = @ + amount]
    /\ UNCHANGED <<config, proposals, votes, power, treasury, now>>

\* A later ledger closes.
Tick ==
    /\ now < MaxTime
    /\ now' = now + 1
    /\ UNCHANGED <<config, proposals, votes, power, balance, treasury>>

Lifecycle ==
    \/ \E v \in Voter, pay \in Payment : propose(v, pay)
    \/ \E id \in DOMAIN proposals :
          \/ \E v \in Voter, type \in VoteType : cast_vote(v, id, type)
          \/ queue(id)
          \/ execute(id)
          \/ \E v \in Voter \cup {Admin} : cancel(v, id)

Holders ==
    \/ \E d, e \in Voter, a \in Delegated : delegate(d, e, a)
    \/ \E d \in Voter : revoke_delegation(d)
    \/ \E v \in Voter, a \in Amount, l \in LockDuration : lock_tokens(v, a, l)
    \/ \E v \in Voter : withdraw_tokens(v)
    \/ \E v, w \in Voter, a \in Amount : TokenTransfer(v, w, a)

Administration ==
    \E d \in Delay, p \in Period, t \in Timelock, q \in Quorum, a \in Threshold :
        \/ \E pt \in ProposalThreshold, s \in TotalSupply : initialize(d, p, t, q, a, pt, s)
        \/ set_voting_params(d, p, t, q, a)

Next == Lifecycle \/ Holders \/ Administration \/ Tick

Spec == Init /\ [][Next]_vars

\* Ledgers keep closing; nobody has to call anything.
LiveSpec == Spec /\ WF_vars(Tick)

-----------------------------------------------------------------------------
Proposal ==
    [proposer : Voter, payment : Nat, eta : Nat, start : Nat, end : Nat,
     for : Int, against : Int, abstain : Int, canceled : BOOLEAN, executed : BOOLEAN]

\* Every variable has its type.  Tallies are integers: a negative delegation,
\* which delegate accepts, lowers a delegatee's power.
TypeOK ==
    /\ initialized \in BOOLEAN
    /\ votingDelay \in Nat /\ votingPeriod \in Nat /\ timelock \in Nat
    /\ quorum \in Nat /\ threshold \in Nat
    /\ proposalThreshold \in Int /\ totalSupply \in Nat
    /\ DOMAIN proposals \subseteq Nat /\ proposals \in [DOMAIN proposals -> Proposal]
    /\ DOMAIN votes = DOMAIN proposals
    /\ \A id \in DOMAIN votes :
          /\ DOMAIN votes[id] \subseteq Voter
          /\ votes[id] \in [DOMAIN votes[id] -> [type : VoteType, weight : Int]]
    /\ DOMAIN delegations \subseteq Voter
    /\ delegations \in [DOMAIN delegations -> [delegatee : Voter, amount : Int]]
    /\ DOMAIN delegatedPower \subseteq Voter
    /\ delegatedPower \in [DOMAIN delegatedPower -> Int]
    /\ DOMAIN locks \subseteq Voter
    /\ locks \in [DOMAIN locks -> [amount : Nat \ {0}, end : Nat, created : Nat]]
    /\ balance \in [Voter -> Nat] /\ treasury \in Nat /\ now \in Nat

Tally(id, type) ==
    SumOver(LAMBDA v : votes[id][v].weight, {v \in DOMAIN votes[id] : votes[id][v].type = type})

\* The three counters of a proposal are the recorded votes, one per voter, and
\* DelegatedPower is the sum of the delegations in force, through every
\* interleaving of votes, delegations and revocations.  It relates the tallies
\* to the votes and not to the tokens: get_voting_power is read when each vote
\* is cast, so tokens transferred between two votes, or delegated by an account
\* that still votes itself, weigh in both.
PowerAddsUp ==
    /\ \A id \in DOMAIN proposals :
          /\ proposals[id].for = Tally(id, "For")
          /\ proposals[id].against = Tally(id, "Against")
          /\ proposals[id].abstain = Tally(id, "Abstain")
    /\ \A v \in Voter :
          GetOr(delegatedPower, v, 0) =
              SumOver(LAMBDA d : delegations[d].amount,
                      {d \in DOMAIN delegations : delegations[d].delegatee = v})

\* Once a proposal has been queued no vote changes its tally and it is never
\* queued again, so the decision that starts the time-lock is the one executed;
\* once executed nothing changes it, not even a cancellation.
DecisionIsFrozen ==
    [][\A id \in DOMAIN proposals :
          /\ proposals[id].eta # 0 =>
                /\ proposals'[id].eta = proposals[id].eta
                /\ proposals'[id].for = proposals[id].for
                /\ proposals'[id].against = proposals[id].against
          /\ proposals[id].executed => proposals'[id] = proposals[id]]_vars

\* A proposal is executed only after voting closed, with the quorum and the
\* threshold in force met, and not before the time-lock that queue set:
\* "All executions delayed for review period".
ExecutionIsDelayed ==
    [][\A id \in DOMAIN proposals :
          proposals'[id].executed /\ ~proposals[id].executed =>
              /\ now > proposals[id].end
              /\ proposals[id].eta # 0 /\ now >= proposals[id].eta
              /\ quorum_reached(proposals[id]) /\ threshold_reached(proposals[id])]_vars

IsQueued(id) == id \in DOMAIN proposals /\ state(proposals[id]) = "Queued"

\* A queued proposal does not stay queued: it is executed, canceled, defeated
\* when the parameters change under it, or it expires, even when the treasury
\* can never make its payment and nobody calls the contract.
QueuedIsResolved ==
    \A id \in 0..(MaxProposal - 1) :
        (IsQueued(id) /\ proposals[id].eta + GRACE_PERIOD < MaxTime) ~> ~IsQueued(id)
=============================================================================
