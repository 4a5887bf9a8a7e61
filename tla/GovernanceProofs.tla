-------------------------- MODULE GovernanceProofs --------------------------
(***************************************************************************)
(* Proofs about Governance, for any voters, holdings, parameters and       *)
(* number of proposals.                                                    *)
(***************************************************************************)
EXTENDS Governance, StorageTheorems

\* Proposals are numbered from zero without gaps, so the number propose takes
\* was never used.
Numbered == \E n \in Nat : DOMAIN proposals = 0..(n - 1)

\* A lock has a duration, which calculate_ve_balance divides by.
LocksLast == \A v \in DOMAIN locks : locks[v].created < locks[v].end

\* Queueing comes after voting, executing after queueing.
QueuedAfterVote ==
    \A id \in DOMAIN proposals :
        /\ proposals[id].eta # 0 => now > proposals[id].end
        /\ proposals[id].executed => proposals[id].eta # 0

\* The inductive invariant of the proposals.
IInv == TypeOK /\ now # 0 /\ Numbered /\ LocksLast /\ QueuedAfterVote

\* What a step may do to the proposals there are.
Frozen ==
    \A id \in DOMAIN proposals :
        /\ proposals[id].eta # 0 =>
              /\ proposals'[id].eta = proposals[id].eta
              /\ proposals'[id].for = proposals[id].for
              /\ proposals'[id].against = proposals[id].against
        /\ proposals[id].executed => proposals'[id] = proposals[id]

\* Only a proposal queued for the whole time-lock is executed.
Delayed ==
    \A id \in DOMAIN proposals :
        proposals'[id].executed /\ ~proposals[id].executed =>
            /\ now > proposals[id].end
            /\ proposals[id].eta # 0 /\ now >= proposals[id].eta
            /\ quorum_reached(proposals[id]) /\ threshold_reached(proposals[id])

\* What every step is shown to do.
Good == IInv' /\ Frozen /\ Delayed

-----------------------------------------------------------------------------
\* What the state of a proposal says about its times and its flags.
LEMMA StateActive ==
    ASSUME NEW p \in Proposal, now \in Nat, state(p) = "Active"
    PROVE  now <= p.end
  BY DEF state, Proposal

\* A proposal is Succeeded once its vote is over and before it is queued.
LEMMA StateSucceeded ==
    ASSUME NEW p \in Proposal, now \in Nat, state(p) = "Succeeded"
    PROVE  now > p.end /\ p.eta = 0 /\ ~p.executed
  BY DEF state, Proposal

\* A proposal is Queued only after a vote it has won.
LEMMA StateQueued ==
    ASSUME NEW p \in Proposal, now \in Nat, state(p) = "Queued"
    PROVE  /\ now > p.end /\ p.eta # 0 /\ ~p.executed
           /\ quorum_reached(p) /\ threshold_reached(p)
  BY DEF state, Proposal

\* Voting power is an integer.
LEMMA PowerType ==
    ASSUME TypeOK, LocksLast, NEW v \in Voter
    PROVE  get_voting_power(v) \in Int
  <1>1. calculate_ve_balance(v) \in Int
    <2>1. CASE v \notin DOMAIN locks \/ now >= locks[v].end
      BY <2>1 DEF calculate_ve_balance
    <2>2. CASE ~(v \notin DOMAIN locks \/ now >= locks[v].end)
      <3> DEFINE m == locks[v].amount * (locks[v].end - now)
                 d == locks[v].end - locks[v].created
      <3>1. locks[v] \in [amount : Nat \ {0}, end : Nat, created : Nat]
        BY <2>2 DEF TypeOK
      <3>2. m \in Int /\ d \in Nat \ {0}
        BY <2>2, <3>1 DEF TypeOK, LocksLast
      <3>3. calculate_ve_balance(v) = m \div d
        BY <2>2 DEF calculate_ve_balance
      <3> HIDE DEF m, d
      <3>4. QED
        BY <3>2, <3>3
    <2>3. QED
      BY <2>1, <2>2
  <1>2. balance[v] \in Int /\ GetOr(delegatedPower, v, 0) \in Int
    BY DEF TypeOK, GetOr
  <1>3. QED
    BY <1>1, <1>2 DEF get_voting_power

\* A newly deployed contract satisfies the invariant.
LEMMA InitIInv == Init => IInv
  <1> SUFFICES ASSUME Init PROVE IInv
    OBVIOUS
  <1> USE DEF Init
  <1>1. /\ DOMAIN proposals = {} /\ DOMAIN votes = {} /\ DOMAIN delegations = {}
        /\ DOMAIN delegatedPower = {} /\ DOMAIN locks = {}
    BY DEF EmptyMap
  <1>2. /\ proposals \in [DOMAIN proposals -> Proposal]
        /\ delegations \in [DOMAIN delegations -> [delegatee : Voter, amount : Int]]
        /\ delegatedPower \in [DOMAIN delegatedPower -> Int]
        /\ locks \in [DOMAIN locks -> [amount : Nat \ {0}, end : Nat, created : Nat]]
    BY <1>1 DEF EmptyMap
  <1>3. balance \in [Voter -> Nat] /\ treasury \in Nat
    BY GovernanceAssumption
  <1>4. TypeOK
    <2>1. \A id \in DOMAIN votes :
             /\ DOMAIN votes[id] \subseteq Voter
             /\ votes[id] \in [DOMAIN votes[id] -> [type : VoteType, weight : Int]]
      BY <1>1
    <2>2. initialized \in BOOLEAN
      OBVIOUS
    <2>3. /\ now \in Nat
          /\ votingDelay \in Nat /\ votingPeriod \in Nat /\ timelock \in Nat
          /\ quorum \in Nat /\ threshold \in Nat
          /\ proposalThreshold \in Int /\ totalSupply \in Nat
      OBVIOUS
    <2> HIDE DEF Init
    <2>4. QED
      BY <1>1, <1>2, <1>3, <2>1, <2>2, <2>3 DEF TypeOK
  <1>5. Numbered
    <2>1. DOMAIN proposals = 0..(0 - 1)
      BY <1>1
    <2>2. QED
      BY <2>1 DEF Numbered
  <1>6. LocksLast /\ QueuedAfterVote /\ now # 0
    BY <1>1 DEF LocksLast, QueuedAfterVote
  <1>7. QED
    BY <1>4, <1>5, <1>6 DEF IInv

\* A step that leaves the proposals and the votes alone.
LEMMA ElsewhereGood ==
    ASSUME IInv, TypeOK', LocksLast', UNCHANGED <<proposals, votes>>, now' >= now
    PROVE  Good
  <1>1. now \in Nat /\ now' \in Nat /\ proposals \in [DOMAIN proposals -> Proposal]
    BY DEF IInv, TypeOK
  <1>2. QueuedAfterVote'
    BY <1>1 DEF IInv, QueuedAfterVote, Proposal
  <1>3. Numbered' /\ now' # 0
    BY <1>1 DEF IInv, Numbered
  <1>4. Frozen /\ Delayed
    BY DEF Frozen, Delayed
  <1>5. QED
    BY <1>2, <1>3, <1>4 DEF Good, IInv

\* initialize, set_voting_params and the passing of time.
LEMMA ParametersGood ==
    ASSUME IInv, Administration \/ Tick
    PROVE  Good
  <1>1. ASSUME NEW d \in Delay, NEW p \in Period, NEW t \in Timelock, NEW q \in Quorum,
               NEW a \in Threshold, set_params(d, p, t, q, a)
        PROVE  /\ votingDelay' \in Nat /\ votingPeriod' \in Nat /\ timelock' \in Nat
               /\ quorum' \in Nat /\ threshold' \in Nat
    BY <1>1, GovernanceAssumption DEF set_params
  <1>2. ASSUME NEW d \in Delay, NEW p \in Period, NEW t \in Timelock, NEW q \in Quorum,
               NEW a \in Threshold, NEW pt \in ProposalThreshold, NEW s \in TotalSupply,
               initialize(d, p, t, q, a, pt, s)
        PROVE  Good
    <2>1. UNCHANGED <<proposals, votes, delegations, delegatedPower, locks, balance, treasury, now>>
      BY <1>2 DEF initialize, power
    <2>2. initialized' \in BOOLEAN /\ proposalThreshold' \in Int /\ totalSupply' \in Nat
      BY <1>2, GovernanceAssumption DEF initialize
    <2>3. TypeOK' /\ LocksLast'
      BY <1>1, <1>2, <2>1, <2>2 DEF initialize, IInv, TypeOK, LocksLast
    <2>4. QED
      BY <2>1, <2>3, ElsewhereGood DEF IInv, TypeOK
  <1>3. ASSUME NEW d \in Delay, NEW p \in Period, NEW t \in Timelock, NEW q \in Quorum,
               NEW a \in Threshold, set_voting_params(d, p, t, q, a)
        PROVE  Good
    <2>1. UNCHANGED <<initialized, proposalThreshold, totalSupply, proposals, votes, delegations,
                      delegatedPower, locks, balance, treasury, now>>
      BY <1>3 DEF set_voting_params, power
    <2>2. TypeOK' /\ LocksLast'
      BY <1>1, <1>3, <2>1 DEF set_voting_params, IInv, TypeOK, LocksLast
    <2>3. QED
      BY <2>1, <2>2, ElsewhereGood DEF IInv, TypeOK
  <1>4. CASE Tick
    <2>1. /\ UNCHANGED <<initialized, votingDelay, votingPeriod, timelock, quorum, threshold,
                         proposalThreshold, totalSupply, proposals, votes, delegations,
                         delegatedPower, locks, balance, treasury>>
          /\ now' = now + 1
      BY <1>4 DEF Tick, config, params, power
    <2>2. TypeOK' /\ LocksLast'
      BY <2>1 DEF IInv, TypeOK, LocksLast
    <2>3. QED
      BY <2>1, <2>2, ElsewhereGood DEF IInv, TypeOK
  <1>5. QED
    BY <1>2, <1>3, <1>4 DEF Administration

\* What holders do with their tokens touches no proposal.
LEMMA HoldersGood ==
    ASSUME IInv, Holders
    PROVE  Good
  <1>1. /\ UNCHANGED <<initialized, votingDelay, votingPeriod, timelock, quorum, threshold,
                       proposalThreshold, totalSupply, proposals, votes, treasury, now>>
    BY DEF Holders, delegate, revoke_delegation, lock_tokens, withdraw_tokens, TokenTransfer,
           config, params
  <1> DEFINE PowerOK ==
        /\ DOMAIN delegations' \subseteq Voter
        /\ delegations' \in [DOMAIN delegations' -> [delegatee : Voter, amount : Int]]
        /\ DOMAIN delegatedPower' \subseteq Voter
        /\ delegatedPower' \in [DOMAIN delegatedPower' -> Int]
        /\ DOMAIN locks' \subseteq Voter
        /\ locks' \in [DOMAIN locks' -> [amount : Nat \ {0}, end : Nat, created : Nat]]
        /\ LocksLast'
        /\ balance' \in [Voter -> Nat]
  <1>2. ASSUME NEW d \in Voter, NEW e \in Voter, NEW a \in Delegated, delegate(d, e, a)
        PROVE  PowerOK
    <2>1. a \in Int /\ GetOr(delegatedPower, e, 0) \in Int
      BY GovernanceAssumption DEF IInv, TypeOK, GetOr
    <2> DEFINE r == [delegatee |-> e, amount |-> a]
               w == GetOr(delegatedPower, e, 0) + a
    <2>2. r \in [delegatee : Voter, amount : Int] /\ w \in Int
      BY <2>1
    <2>3. delegations' = Put(delegations, d, r) /\ delegatedPower' = Put(delegatedPower, e, w)
      BY <1>2 DEF delegate
    <2>4. UNCHANGED <<locks, balance>>
      BY <1>2 DEF delegate
    <2> HIDE DEF r, w
    <2>5. /\ DOMAIN delegations' \subseteq Voter
          /\ delegations' \in [DOMAIN delegations' -> [delegatee : Voter, amount : Int]]
      BY <2>2, <2>3 DEF IInv, TypeOK, Put
    <2>6. /\ DOMAIN delegatedPower' \subseteq Voter
          /\ delegatedPower' \in [DOMAIN delegatedPower' -> Int]
      BY <2>2, <2>3 DEF IInv, TypeOK, Put
    <2>7. QED
      BY <2>4, <2>5, <2>6 DEF IInv, TypeOK, LocksLast
  <1>3. ASSUME NEW d \in Voter, revoke_delegation(d)
        PROVE  PowerOK
    <2> DEFINE e == delegations[d].delegatee
               w == GetOr(delegatedPower, e, 0) - delegations[d].amount
    <2>1. d \in DOMAIN delegations /\ delegations[d] \in [delegatee : Voter, amount : Int]
      BY <1>3 DEF revoke_delegation, IInv, TypeOK
    <2>2. e \in Voter /\ delegations[d].amount \in Int
      BY <2>1
    <2>3. delegations' = Drop(delegations, d) /\ delegatedPower' = Put(delegatedPower, e, w)
      BY <1>3 DEF revoke_delegation, revoked_amount
    <2>4. UNCHANGED <<locks, balance>>
      BY <1>3 DEF revoke_delegation
    <2> HIDE DEF e
    <2>5. w \in Int
      BY <2>2 DEF IInv, TypeOK, GetOr
    <2> HIDE DEF w
    <2>6. /\ DOMAIN delegations' \subseteq Voter
          /\ delegations' \in [DOMAIN delegations' -> [delegatee : Voter, amount : Int]]
      BY <2>3 DEF IInv, TypeOK, Drop
    <2>7. /\ DOMAIN delegatedPower' \subseteq Voter
          /\ delegatedPower' \in [DOMAIN delegatedPower' -> Int]
      BY <2>2, <2>3, <2>5 DEF IInv, TypeOK, Put
    <2>8. QED
      BY <2>4, <2>6, <2>7 DEF IInv, TypeOK, LocksLast
  <1>4. ASSUME NEW v \in Voter, NEW a \in Amount, NEW l \in LockDuration, lock_tokens(v, a, l)
        PROVE  PowerOK
    <2> DEFINE r == [amount |-> a, end |-> now + l, created |-> now]
    <2>1. a \in Nat \ {0} /\ l \in Nat \ {0} /\ now \in Nat
      BY <1>4, GovernanceAssumption DEF lock_tokens, IInv, TypeOK
    <2>2. r \in [amount : Nat \ {0}, end : Nat, created : Nat] /\ r.created < r.end
      BY <2>1
    <2>3. locks' = Put(locks, v, r) /\ UNCHANGED <<delegations, delegatedPower, balance>>
      BY <1>4 DEF lock_tokens
    <2> HIDE DEF r
    <2>4. /\ DOMAIN locks' = DOMAIN locks \cup {v} /\ locks'[v] = r
          /\ \A k \in DOMAIN locks : k # v => locks'[k] = locks[k]
      BY <2>3 DEF Put
    <2>5. /\ DOMAIN locks' \subseteq Voter
          /\ locks' \in [DOMAIN locks' -> [amount : Nat \ {0}, end : Nat, created : Nat]]
      BY <2>2, <2>3 DEF IInv, TypeOK, Put
    <2>6. LocksLast'
      BY <2>2, <2>4 DEF IInv, LocksLast
    <2>7. QED
      BY <2>3, <2>5, <2>6 DEF IInv, TypeOK
  <1>5. ASSUME NEW v \in Voter, withdraw_tokens(v)
        PROVE  PowerOK
    <2>1. locks' = Drop(locks, v) /\ UNCHANGED <<delegations, delegatedPower, balance>>
      BY <1>5 DEF withdraw_tokens
    <2>2. QED
      BY <2>1 DEF IInv, TypeOK, LocksLast, Drop
  <1>6. ASSUME NEW v \in Voter, NEW w \in Voter, NEW a \in Amount, TokenTransfer(v, w, a)
        PROVE  PowerOK
    <2>1. a \in Nat /\ balance[v] - a \in Nat /\ UNCHANGED <<delegations, delegatedPower, locks>>
      BY <1>6, GovernanceAssumption DEF TokenTransfer, power, IInv, TypeOK
    <2>2. balance' \in [Voter -> Nat]
      BY <1>6, <2>1 DEF TokenTransfer, IInv, TypeOK
    <2>3. QED
      BY <2>1, <2>2 DEF IInv, TypeOK, LocksLast
  <1>7. PowerOK
    <2> HIDE DEF PowerOK
    <2>1. QED
      BY <1>2, <1>3, <1>4, <1>5, <1>6 DEF Holders
  <1>8. TypeOK'
    BY <1>1, <1>7 DEF IInv, TypeOK
  <1>9. QED
    BY <1>1, <1>7, <1>8, ElsewhereGood DEF IInv, TypeOK

-----------------------------------------------------------------------------
\* propose takes the next number.
LEMMA ProposeGood ==
    ASSUME IInv, NEW v \in Voter, NEW pay \in Payment, propose(v, pay)
    PROVE  Good
  <1> DEFINE id == Cardinality(DOMAIN proposals)
             p == [proposer |-> v, payment |-> pay, eta |-> 0,
                   start |-> now + votingDelay, end |-> now + votingDelay + votingPeriod,
                   for |-> 0, against |-> 0, abstain |-> 0,
                   canceled |-> FALSE, executed |-> FALSE]
  <1>1. PICK n \in Nat : DOMAIN proposals = 0..(n - 1)
    BY DEF IInv, Numbered
  <1>2. id = n
    BY <1>1, FS_Interval
  <1>3. p \in Proposal
    BY GovernanceAssumption DEF Proposal, IInv, TypeOK
  <1>4. p.eta = 0 /\ p.executed = FALSE
    OBVIOUS
  <1>5. /\ proposals' = Put(proposals, id, p) /\ votes' = Put(votes, id, EmptyMap)
        /\ UNCHANGED <<initialized, votingDelay, votingPeriod, timelock, quorum, threshold,
                       proposalThreshold, totalSupply, delegations, delegatedPower, locks,
                       balance, treasury, now>>
    BY DEF propose, config, params, power
  <1> HIDE DEF id, p
  <1>6. /\ DOMAIN proposals' = DOMAIN proposals \cup {id} /\ proposals'[id] = p
        /\ \A k \in DOMAIN proposals : proposals'[k] = proposals[k]
    BY <1>1, <1>2, <1>5 DEF Put
  <1>7. /\ DOMAIN proposals' = 0..n /\ DOMAIN proposals' = 0..((n + 1) - 1)
    BY <1>1, <1>2, <1>6
  <1>8. Numbered'
    BY <1>7 DEF Numbered
  <1>9. proposals' \in [DOMAIN proposals' -> Proposal]
    BY <1>3, <1>5, <1>6 DEF Put, IInv, TypeOK
  <1>10. /\ DOMAIN votes' = DOMAIN proposals'
         /\ \A k \in DOMAIN votes' :
               /\ DOMAIN votes'[k] \subseteq Voter
               /\ votes'[k] \in [DOMAIN votes'[k] -> [type : VoteType, weight : Int]]
    <2>1. /\ DOMAIN votes' = DOMAIN votes \cup {id} /\ votes'[id] = EmptyMap
          /\ \A k \in DOMAIN votes : k # id => votes'[k] = votes[k]
      BY <1>5 DEF Put
    <2>2. DOMAIN EmptyMap = {} /\ EmptyMap \in [DOMAIN EmptyMap -> [type : VoteType, weight : Int]]
      BY DEF EmptyMap
    <2>3. QED
      BY <1>6, <2>1, <2>2 DEF IInv, TypeOK
  <1>11. TypeOK'
    BY <1>5, <1>7, <1>9, <1>10 DEF IInv, TypeOK
  <1>12. QueuedAfterVote' /\ Frozen /\ Delayed
    BY <1>4, <1>5, <1>6 DEF IInv, QueuedAfterVote, Frozen, Delayed
  <1>13. LocksLast' /\ now' # 0
    BY <1>5 DEF IInv, LocksLast
  <1>14. QED
    BY <1>8, <1>11, <1>12, <1>13 DEF Good, IInv

\* A call that replaces one proposal.
LEMMA ReplaceGood ==
    ASSUME IInv, NEW id \in DOMAIN proposals, NEW p \in Proposal,
           proposals' = [proposals EXCEPT ![id] = p],
           DOMAIN votes' = DOMAIN votes,
           \A k \in DOMAIN votes' :
              /\ DOMAIN votes'[k] \subseteq Voter
              /\ votes'[k] \in [DOMAIN votes'[k] -> [type : VoteType, weight : Int]],
           UNCHANGED <<initialized, votingDelay, votingPeriod, timelock, quorum, threshold,
                       proposalThreshold, totalSupply, delegations, delegatedPower, locks,
                       balance, now>>,
           treasury' \in Nat,
           p.eta # 0 => now > p.end,
           p.executed => p.eta # 0,
           proposals[id].eta # 0 => /\ p.eta = proposals[id].eta
                                    /\ p.for = proposals[id].for
                                    /\ p.against = proposals[id].against,
           proposals[id].executed => p = proposals[id],
           p.executed /\ ~proposals[id].executed =>
              /\ now > proposals[id].end
              /\ proposals[id].eta # 0 /\ now >= proposals[id].eta
              /\ quorum_reached(proposals[id]) /\ threshold_reached(proposals[id])
    PROVE  Good
  <1>1. /\ DOMAIN proposals' = DOMAIN proposals /\ proposals'[id] = p
        /\ \A k \in DOMAIN proposals : k # id => proposals'[k] = proposals[k]
    BY DEF IInv, TypeOK
  <1>2. proposals' \in [DOMAIN proposals' -> Proposal]
    BY <1>1 DEF IInv, TypeOK
  <1>3. TypeOK'
    BY <1>1, <1>2 DEF IInv, TypeOK
  <1>4. Numbered' /\ LocksLast' /\ now' # 0
    BY <1>1 DEF IInv, Numbered, LocksLast
  <1>5. QueuedAfterVote'
    BY <1>1 DEF IInv, QueuedAfterVote
  <1>6. Frozen
    BY <1>1 DEF Frozen
  <1>7. Delayed
    BY <1>1 DEF Delayed
  <1>8. QED
    BY <1>3, <1>4, <1>5, <1>6, <1>7 DEF Good, IInv

\* No vote is counted once voting has closed, hence none once queued.
LEMMA CastVoteGood ==
    ASSUME IInv, NEW id \in DOMAIN proposals, NEW v \in Voter, NEW type \in VoteType,
           cast_vote(v, id, type)
    PROVE  Good
  <1> DEFINE w == get_voting_power(v)
             q == proposals[id]
             p == [q EXCEPT !.for = @ + IF type = "For" THEN w ELSE 0,
                            !.against = @ + IF type = "Against" THEN w ELSE 0,
                            !.abstain = @ + IF type = "Abstain" THEN w ELSE 0]
             b == [type |-> type, weight |-> w]
  <1>1. w \in Int /\ q \in Proposal /\ now \in Nat
    BY PowerType DEF IInv, TypeOK
  <1>2. q.eta = 0 /\ q.executed = FALSE
    <2>1. now <= q.end
      BY <1>1, StateActive DEF cast_vote, may_vote
    <2>2. QED
      BY <1>1, <2>1 DEF IInv, QueuedAfterVote, Proposal
  <1>3. /\ proposals' = [proposals EXCEPT ![id] = p]
        /\ votes' = [votes EXCEPT ![id] = Put(@, v, b)]
    BY DEF cast_vote
  <1>4. /\ UNCHANGED <<initialized, votingDelay, votingPeriod, timelock, quorum, threshold,
                       proposalThreshold, totalSupply, delegations, delegatedPower, locks,
                       balance, now>>
        /\ treasury' \in Nat
    BY DEF cast_vote, config, params, power, IInv, TypeOK
  <1>5. b \in [type : VoteType, weight : Int]
    BY <1>1
  <1> HIDE DEF w
  <1>6. p \in Proposal /\ p.eta = q.eta /\ p.executed = q.executed /\ p.end = q.end
    <2> DEFINE f == IF type = "For" THEN w ELSE 0
               g == IF type = "Against" THEN w ELSE 0
               h == IF type = "Abstain" THEN w ELSE 0
    <2>1. f \in Int /\ g \in Int /\ h \in Int
      BY <1>1
    <2>2. p = [q EXCEPT !.for = @ + f, !.against = @ + g, !.abstain = @ + h]
      OBVIOUS
    <2> HIDE DEF f, g, h, p, q
    <2>3. /\ q.for + f \in Int /\ q.against + g \in Int /\ q.abstain + h \in Int
      BY <1>1, <2>1 DEF Proposal
    <2>4. QED
      BY <1>1, <2>2, <2>3 DEF Proposal
  <1> HIDE DEF p, q, b
  <1>7. DOMAIN votes' = DOMAIN votes
    BY <1>3
  <1>8. ASSUME NEW k \in DOMAIN votes'
        PROVE  /\ DOMAIN votes'[k] \subseteq Voter
               /\ votes'[k] \in [DOMAIN votes'[k] -> [type : VoteType, weight : Int]]
    <2>1. CASE k = id
      <3>1. votes'[k] = Put(votes[id], v, b) /\ id \in DOMAIN votes
        BY <1>3, <1>7, <2>1
      <3>2. /\ DOMAIN votes[id] \subseteq Voter
            /\ votes[id] \in [DOMAIN votes[id] -> [type : VoteType, weight : Int]]
        BY <3>1 DEF IInv, TypeOK
      <3>3. QED
        BY <1>5, <3>1, <3>2 DEF Put
    <2>2. CASE k # id
      BY <1>3, <1>7, <2>2 DEF IInv, TypeOK
    <2>3. QED
      BY <2>1, <2>2
  <1>9. QED
    BY <1>2, <1>3, <1>4, <1>6, <1>7, <1>8, ReplaceGood DEF q

\* A proposal is queued once, after voting; executed once, after queueing; and
\* canceled only while it is not executed.
LEMMA DecideGood ==
    ASSUME IInv, NEW id \in DOMAIN proposals,
           queue(id) \/ execute(id) \/ \E v \in Voter \cup {Admin} : cancel(v, id)
    PROVE  Good
  <1> DEFINE q == proposals[id]
  <1>1. q \in Proposal /\ now \in Nat /\ now # 0 /\ timelock \in Nat /\ treasury \in Nat
    BY DEF IInv, TypeOK
  <1>2. q.eta \in Nat /\ q.end \in Nat /\ q.payment \in Nat
    BY <1>1 DEF Proposal
  <1>3. /\ UNCHANGED <<initialized, votingDelay, votingPeriod, timelock, quorum, threshold,
                       proposalThreshold, totalSupply, delegations, delegatedPower, locks,
                       balance, now>>
        /\ UNCHANGED votes
    BY DEF queue, execute, cancel, config, params, power
  <1>4. \A k \in DOMAIN votes' :
           /\ DOMAIN votes'[k] \subseteq Voter
           /\ votes'[k] \in [DOMAIN votes'[k] -> [type : VoteType, weight : Int]]
    BY <1>3 DEF IInv, TypeOK
  <1>5. /\ q.eta # 0 => now > q.end
        /\ q.executed => q.eta # 0
    BY DEF IInv, QueuedAfterVote
  <1>6. CASE queue(id)
    <2> DEFINE p == [q EXCEPT !.eta = now + timelock]
    <2>1. now > q.end /\ q.eta = 0 /\ q.executed = FALSE
      BY <1>1, <1>5, <1>6, StateSucceeded DEF queue, may_queue, Proposal
    <2>2. /\ p \in Proposal /\ p.executed = q.executed /\ p.end = q.end
      BY <1>1 DEF Proposal
    <2>3. proposals' = [proposals EXCEPT ![id] = p] /\ treasury' \in Nat
      BY <1>1, <1>6 DEF queue, IInv, TypeOK
    <2> HIDE DEF p, q
    <2>4. QED
      BY <1>3, <1>4, <2>1, <2>2, <2>3, ReplaceGood DEF q
  <1>7. CASE execute(id)
    <2> DEFINE p == [q EXCEPT !.executed = TRUE]
    <2>1. /\ now > q.end /\ q.eta # 0 /\ q.executed = FALSE
          /\ quorum_reached(q) /\ threshold_reached(q)
      BY <1>1, <1>7, StateQueued DEF execute, Proposal
    <2>2. now >= q.eta
      BY <1>7 DEF execute, timelock_over
    <2>3. /\ p \in Proposal /\ p.eta = q.eta /\ p.end = q.end
          /\ p.for = q.for /\ p.against = q.against
      BY <1>1 DEF Proposal
    <2>4. proposals' = [proposals EXCEPT ![id] = p]
      BY <1>7 DEF execute
    <2>5. treasury' \in Nat
      BY <1>1, <1>2, <1>7 DEF execute, run_actions
    <2> HIDE DEF p, q
    <2>6. QED
      BY <1>3, <1>4, <2>1, <2>2, <2>3, <2>4, <2>5, ReplaceGood DEF q
  <1>8. CASE \E v \in Voter \cup {Admin} : cancel(v, id)
    <2> DEFINE p == [q EXCEPT !.canceled = TRUE]
    <2>1. q.executed = FALSE
      BY <1>1, <1>8 DEF cancel, may_cancel, Proposal
    <2>2. /\ p \in Proposal /\ p.eta = q.eta /\ p.end = q.end /\ p.executed = q.executed
          /\ p.for = q.for /\ p.against = q.against
      BY <1>1 DEF Proposal
    <2>3. proposals' = [proposals EXCEPT ![id] = p] /\ treasury' \in Nat
      BY <1>1, <1>8 DEF cancel
    <2> HIDE DEF p, q
    <2>4. QED
      BY <1>3, <1>4, <1>5, <2>1, <2>2, <2>3, ReplaceGood DEF q
  <1>9. QED
    BY <1>6, <1>7, <1>8

\* Every step keeps the invariant and does to the proposals what it may.
LEMMA NextGood == IInv /\ [Next]_vars => Good
  <1> SUFFICES ASSUME IInv, [Next]_vars PROVE Good
    OBVIOUS
  <1>1. CASE Lifecycle
    BY <1>1, ProposeGood, CastVoteGood, DecideGood DEF Lifecycle
  <1>2. CASE Holders
    BY <1>2, HoldersGood
  <1>3. CASE Administration \/ Tick
    BY <1>3, ParametersGood
  <1>4. CASE UNCHANGED vars
    <2>1. UNCHANGED <<initialized, votingDelay, votingPeriod, timelock, quorum, threshold,
                      proposalThreshold, totalSupply, proposals, votes, delegations,
                      delegatedPower, locks, balance, treasury, now>>
      BY <1>4 DEF vars, config, params, power
    <2>2. TypeOK' /\ LocksLast'
      BY <2>1 DEF IInv, TypeOK, LocksLast
    <2>3. QED
      BY <2>1, <2>2, ElsewhereGood DEF IInv, TypeOK
  <1>5. QED
    BY <1>1, <1>2, <1>3, <1>4 DEF Next

\* Every variable of the contract keeps its type; in particular the treasury
\* that execute pays from is never overdrawn.
THEOREM TypeCorrect == Spec => []TypeOK
  <1>1. IInv /\ [Next]_vars => IInv'
    BY NextGood DEF Good
  <1>2. IInv => TypeOK
    BY DEF IInv
  <1>3. QED
    BY <1>1, <1>2, InitIInv, PTL DEF Spec

\* The decision that queue starts the time-lock for is the one that execute
\* carries out, and nothing changes an executed proposal.
THEOREM DecisionStaysFrozen == Spec => DecisionIsFrozen
  <1>1. IInv /\ [Next]_vars => IInv' /\ Frozen
    BY NextGood DEF Good
  <1>2. Spec => [][Frozen]_vars
    BY <1>1, InitIInv, PTL DEF Spec
  <1>3. QED
    BY <1>2 DEF DecisionIsFrozen, Frozen

\* execute takes effect only after voting closed and the time-lock passed, for a
\* proposal that meets the quorum and the threshold in force.
THEOREM ExecutionAlwaysDelayed == Spec => ExecutionIsDelayed
  <1>1. IInv /\ [Next]_vars => IInv' /\ Delayed
    BY NextGood DEF Good
  <1>2. Spec => [][Delayed]_vars
    BY <1>1, InitIInv, PTL DEF Spec
  <1>3. QED
    BY <1>2 DEF ExecutionIsDelayed, Delayed

-----------------------------------------------------------------------------
\* The tallies.  What was voted for one choice, and what is delegated to one
\* account, as maps that are summed.
Ballots(cast, type) == [v \in {u \in DOMAIN cast : cast[u].type = type} |-> cast[v].weight]
Received(given, to) == [d \in {e \in DOMAIN given : given[e].delegatee = to} |-> given[d].amount]

\* PowerAddsUp, in terms of those maps.
TalliesByMaps ==
    \A id \in DOMAIN proposals :
        /\ proposals[id].for = SumFunction(Ballots(votes[id], "For"))
        /\ proposals[id].against = SumFunction(Ballots(votes[id], "Against"))
        /\ proposals[id].abstain = SumFunction(Ballots(votes[id], "Abstain"))
DelegationsByMaps ==
    \A v \in Voter : GetOr(delegatedPower, v, 0) = SumFunction(Received(delegations, v))

\* The two ways to say it are one.
LEMMA PowerMaps ==
    /\ PowerAddsUp = (TalliesByMaps /\ DelegationsByMaps)
    /\ PowerAddsUp' = (TalliesByMaps' /\ DelegationsByMaps')
  BY DEF PowerAddsUp, Tally, SumOver, TalliesByMaps, DelegationsByMaps, Ballots, Received

\* What was voted for one choice is a finite map of integers.
LEMMA BallotsType ==
    ASSUME NEW cast, DOMAIN cast \subseteq Voter,
           cast \in [DOMAIN cast -> [type : VoteType, weight : Int]], NEW type
    PROVE  IntMap(Ballots(cast, type))
  <1>1. IsFiniteSet({u \in DOMAIN cast : cast[u].type = type})
    BY GovernanceAssumption, FS_Subset
  <1>2. \A u \in DOMAIN cast : cast[u].weight \in Int
    OBVIOUS
  <1>3. QED
    BY <1>1, <1>2 DEF IntMap, Ballots

\* What one account received is a finite map of integers.
LEMMA ReceivedType ==
    ASSUME NEW given, DOMAIN given \subseteq Voter,
           given \in [DOMAIN given -> [delegatee : Voter, amount : Int]], NEW to
    PROVE  IntMap(Received(given, to))
  <1>1. IsFiniteSet({e \in DOMAIN given : given[e].delegatee = to})
    BY GovernanceAssumption, FS_Subset
  <1>2. \A e \in DOMAIN given : given[e].amount \in Int
    OBVIOUS
  <1>3. QED
    BY <1>1, <1>2 DEF IntMap, Received

\* A vote of someone who had not voted counts once, for its own choice.
LEMMA BallotCast ==
    ASSUME NEW cast, DOMAIN cast \subseteq Voter,
           cast \in [DOMAIN cast -> [type : VoteType, weight : Int]],
           NEW v, v \notin DOMAIN cast, NEW type, NEW w \in Int, NEW choice
    PROVE  /\ SumFunction(Ballots(Put(cast, v, [type |-> type, weight |-> w]), choice)) =
                  SumFunction(Ballots(cast, choice)) + IF choice = type THEN w ELSE 0
           /\ SumFunction(Ballots(cast, choice)) \in Int
  <1> DEFINE f == Ballots(cast, choice)
             after == Put(cast, v, [type |-> type, weight |-> w])
             g == Ballots(after, choice)
  <1>1. IntMap(f) /\ SumFunction(f) \in Int
    BY BallotsType, SumType
  <1>2. /\ DOMAIN after = DOMAIN cast \cup {v}
        /\ after[v].type = type /\ after[v].weight = w
        /\ \A u \in DOMAIN cast : after[u] = cast[u]
    BY DEF Put
  <1> HIDE DEF after
  <1>3. CASE choice = type
    <2>1. DOMAIN g = DOMAIN f \cup {v} /\ v \notin DOMAIN f
      BY <1>2, <1>3 DEF Ballots
    <2>2. g[v] = w /\ \A u \in DOMAIN f : g[u] = f[u]
      BY <1>2, <1>3 DEF Ballots
    <2>3. g = [u \in DOMAIN g |-> g[u]]
      BY DEF Ballots
    <2> HIDE DEF f, g
    <2>4. AddsKey(g, f, v)
      BY <1>1, <2>1, <2>2, <2>3 DEF AddsKey, IntMap
    <2>5. SumFunction(g) = SumFunction(f) + w
      BY <2>2, <2>4, SumAdd
    <2>6. QED
      BY <1>1, <1>3, <2>5 DEF f, g, after
  <1>4. CASE choice # type
    <2>1. g = f
      BY <1>2, <1>4 DEF Ballots
    <2>2. QED
      BY <1>1, <1>4, <2>1 DEF after
  <1>5. QED
    BY <1>3, <1>4

\* A delegation counts once, for its delegatee.
LEMMA DelegationGiven ==
    ASSUME NEW given, DOMAIN given \subseteq Voter,
           given \in [DOMAIN given -> [delegatee : Voter, amount : Int]],
           NEW d, d \notin DOMAIN given, NEW e, NEW a \in Int, NEW to
    PROVE  /\ SumFunction(Received(Put(given, d, [delegatee |-> e, amount |-> a]), to)) =
                  SumFunction(Received(given, to)) + IF to = e THEN a ELSE 0
           /\ SumFunction(Received(given, to)) \in Int
  <1> DEFINE f == Received(given, to)
             after == Put(given, d, [delegatee |-> e, amount |-> a])
             g == Received(after, to)
  <1>1. IntMap(f) /\ SumFunction(f) \in Int
    BY ReceivedType, SumType
  <1>2. /\ DOMAIN after = DOMAIN given \cup {d}
        /\ after[d].delegatee = e /\ after[d].amount = a
        /\ \A u \in DOMAIN given : after[u] = given[u]
    BY DEF Put
  <1> HIDE DEF after
  <1>3. CASE to = e
    <2>1. DOMAIN g = DOMAIN f \cup {d} /\ d \notin DOMAIN f
      BY <1>2, <1>3 DEF Received
    <2>2. g[d] = a /\ \A u \in DOMAIN f : g[u] = f[u]
      BY <1>2, <1>3 DEF Received
    <2>3. g = [u \in DOMAIN g |-> g[u]]
      BY DEF Received
    <2> HIDE DEF f, g
    <2>4. AddsKey(g, f, d)
      BY <1>1, <2>1, <2>2, <2>3 DEF AddsKey, IntMap
    <2>5. SumFunction(g) = SumFunction(f) + a
      BY <2>2, <2>4, SumAdd
    <2>6. QED
      BY <1>1, <1>3, <2>5 DEF f, g, after
  <1>4. CASE to # e
    <2>1. g = f
      BY <1>2, <1>4 DEF Received
    <2>2. QED
      BY <1>1, <1>4, <2>1 DEF after
  <1>5. QED
    BY <1>3, <1>4

\* Dropping a delegation takes back what it gave.
LEMMA DelegationDropped ==
    ASSUME NEW given, DOMAIN given \subseteq Voter,
           given \in [DOMAIN given -> [delegatee : Voter, amount : Int]],
           NEW d \in DOMAIN given, NEW to
    PROVE  /\ SumFunction(Received(Drop(given, d), to)) =
                  SumFunction(Received(given, to))
                      - IF to = given[d].delegatee THEN given[d].amount ELSE 0
           /\ SumFunction(Received(given, to)) \in Int
  <1> DEFINE rest == Drop(given, d)
             e == given[d].delegatee
             a == given[d].amount
             r == [delegatee |-> e, amount |-> a]
  <1>1. a \in Int /\ r = given[d]
    OBVIOUS
  <1>2. /\ DOMAIN rest \subseteq Voter /\ d \notin DOMAIN rest
        /\ rest \in [DOMAIN rest -> [delegatee : Voter, amount : Int]]
    BY DEF Drop
  <1>3. given = Put(rest, d, r)
    BY <1>1 DEF Put, Drop
  <1> HIDE DEF rest, a, e
  <1>4. /\ SumFunction(Received(Put(rest, d, r), to)) =
              SumFunction(Received(rest, to)) + IF to = e THEN a ELSE 0
        /\ SumFunction(Received(rest, to)) \in Int
    BY <1>1, <1>2, DelegationGiven
  <1>5. SumFunction(Received(given, to)) =
              SumFunction(Received(rest, to)) + IF to = e THEN a ELSE 0
    BY <1>3, <1>4, Zenon
  <1>6. QED
    BY <1>1, <1>4, <1>5 DEF rest, a, e

\* Before any call there is nothing to add up.
LEMMA InitPower == Init => PowerAddsUp
  <1> SUFFICES ASSUME Init PROVE TalliesByMaps /\ DelegationsByMaps
    BY PowerMaps
  <1>1. /\ DOMAIN proposals = {} /\ DOMAIN delegations = {} /\ DOMAIN delegatedPower = {}
    BY DEF Init, EmptyMap
  <1>2. ASSUME NEW v \in Voter PROVE SumFunction(Received(delegations, v)) = 0
    <2>1. DOMAIN Received(delegations, v) = {}
      BY <1>1 DEF Received
    <2>2. QED
      BY <2>1, SumEmpty
  <1>3. QED
    BY <1>1, <1>2 DEF TalliesByMaps, DelegationsByMaps, GetOr

\* Proposing, voting and deciding keep the counters equal to the votes.
LEMMA LifecycleTallies ==
    ASSUME IInv, TalliesByMaps, Lifecycle
    PROVE  TalliesByMaps'
  <1>1. ASSUME NEW v \in Voter, NEW pay \in Payment, propose(v, pay)
        PROVE  TalliesByMaps'
    <2> DEFINE id == Cardinality(DOMAIN proposals)
    <2>1. PICK n \in Nat : DOMAIN proposals = 0..(n - 1)
      BY DEF IInv, Numbered
    <2>2. id = n /\ id \notin DOMAIN proposals
      BY <2>1, FS_Interval
    <2>3. /\ DOMAIN proposals' = DOMAIN proposals \cup {id}
          /\ proposals'[id].for = 0 /\ proposals'[id].against = 0 /\ proposals'[id].abstain = 0
          /\ \A k \in DOMAIN proposals : proposals'[k] = proposals[k]
      BY <1>1, <2>2 DEF propose, Put
    <2>4. votes'[id] = EmptyMap /\ \A k \in DOMAIN proposals : votes'[k] = votes[k]
      BY <1>1, <2>2 DEF propose, Put, IInv, TypeOK
    <2>5. ASSUME NEW type PROVE SumFunction(Ballots(EmptyMap, type)) = 0
      <3>1. DOMAIN Ballots(EmptyMap, type) = {}
        BY DEF Ballots, EmptyMap
      <3>2. QED
        BY <3>1, SumEmpty
    <2> HIDE DEF id
    <2>6. QED
      BY <2>3, <2>4, <2>5 DEF TalliesByMaps
  <1>2. ASSUME NEW id \in DOMAIN proposals, NEW v \in Voter, NEW type \in VoteType,
               cast_vote(v, id, type)
        PROVE  TalliesByMaps'
    <2> DEFINE w == get_voting_power(v)
               cast == votes[id]
               q == proposals[id]
               S(c) == SumFunction(Ballots(cast, c))
    <2>1. w \in Int
      BY PowerType DEF IInv
    <2>2. /\ DOMAIN cast \subseteq Voter /\ v \notin DOMAIN cast /\ q \in Proposal
          /\ cast \in [DOMAIN cast -> [type : VoteType, weight : Int]]
      BY <1>2 DEF cast_vote, may_vote, IInv, TypeOK
    <2>3. /\ DOMAIN proposals' = DOMAIN proposals
          /\ \A k \in DOMAIN proposals \ {id} : proposals'[k] = proposals[k] /\ votes'[k] = votes[k]
          /\ votes'[id] = Put(cast, v, [type |-> type, weight |-> w])
      BY <1>2 DEF cast_vote, IInv, TypeOK
    <2>4. /\ proposals'[id].for = q.for + IF type = "For" THEN w ELSE 0
          /\ proposals'[id].against = q.against + IF type = "Against" THEN w ELSE 0
          /\ proposals'[id].abstain = q.abstain + IF type = "Abstain" THEN w ELSE 0
      <3> DEFINE f == IF type = "For" THEN w ELSE 0
                 g == IF type = "Against" THEN w ELSE 0
                 h == IF type = "Abstain" THEN w ELSE 0
      <3>1. proposals'[id] = [q EXCEPT !.for = @ + f, !.against = @ + g, !.abstain = @ + h]
        BY <1>2 DEF cast_vote, IInv, TypeOK
      <3> HIDE DEF f, g, h
      <3>2. /\ proposals'[id].for = q.for + f
            /\ proposals'[id].against = q.against + g
            /\ proposals'[id].abstain = q.abstain + h
        BY <2>2, <3>1 DEF Proposal
      <3>3. QED
        BY <3>2 DEF f, g, h
    <2>5. q.for = S("For") /\ q.against = S("Against") /\ q.abstain = S("Abstain")
      BY DEF TalliesByMaps
    <2> HIDE DEF w, cast
    <2>6. \A c : SumFunction(Ballots(votes'[id], c)) = S(c) + IF c = type THEN w ELSE 0
      BY <2>1, <2>2, <2>3, BallotCast
    <2> HIDE DEF S, q
    <2>7. /\ proposals'[id].for = SumFunction(Ballots(votes'[id], "For"))
          /\ proposals'[id].against = SumFunction(Ballots(votes'[id], "Against"))
          /\ proposals'[id].abstain = SumFunction(Ballots(votes'[id], "Abstain"))
      BY <2>4, <2>5, <2>6
    <2>8. QED
      BY <2>3, <2>7 DEF TalliesByMaps
  <1>3. ASSUME NEW id \in DOMAIN proposals,
               queue(id) \/ execute(id) \/ \E v \in Voter \cup {Admin} : cancel(v, id)
        PROVE  TalliesByMaps'
    <2>1. proposals[id] \in Proposal
      BY DEF IInv, TypeOK
    <2>2. votes' = votes /\ DOMAIN proposals' = DOMAIN proposals
      BY <1>3 DEF queue, execute, cancel, IInv, TypeOK
    <2>3. /\ proposals'[id].for = proposals[id].for
          /\ proposals'[id].against = proposals[id].against
          /\ proposals'[id].abstain = proposals[id].abstain
          /\ \A k \in DOMAIN proposals \ {id} : proposals'[k] = proposals[k]
      BY <1>3, <2>1 DEF queue, execute, cancel, IInv, TypeOK, Proposal
    <2>4. QED
      BY <2>2, <2>3 DEF TalliesByMaps
  <1>4. QED
    BY <1>1, <1>2, <1>3 DEF Lifecycle

\* Delegating and revoking keep DelegatedPower equal to the delegations in force.
LEMMA HoldersPower ==
    ASSUME IInv, DelegationsByMaps, Holders
    PROVE  DelegationsByMaps'
  <1>1. /\ DOMAIN delegations \subseteq Voter
        /\ delegations \in [DOMAIN delegations -> [delegatee : Voter, amount : Int]]
        /\ \A v \in Voter : GetOr(delegatedPower, v, 0) \in Int
    BY DEF IInv, TypeOK, GetOr
  <1>2. ASSUME NEW d \in Voter, NEW e \in Voter, NEW a \in Delegated, delegate(d, e, a)
        PROVE  DelegationsByMaps'
    <2> DEFINE P(v) == GetOr(delegatedPower, v, 0)
               S(v) == SumFunction(Received(delegations, v))
    <2>1. a \in Int /\ d \notin DOMAIN delegations
      BY <1>2, GovernanceAssumption DEF delegate
    <2>2. \A v \in Voter : P(v) = S(v)
      BY DEF DelegationsByMaps
    <2>3. \A v \in Voter : GetOr(delegatedPower', v, 0) = P(v) + IF v = e THEN a ELSE 0
      <3>1. delegatedPower' = Put(delegatedPower, e, P(e) + a)
        BY <1>2 DEF delegate
      <3>2. QED
        BY <1>1, <2>1, <3>1 DEF Put, GetOr
    <2>4. delegations' = Put(delegations, d, [delegatee |-> e, amount |-> a])
      BY <1>2 DEF delegate
    <2>5. \A v : SumFunction(Received(delegations', v)) = S(v) + IF v = e THEN a ELSE 0
      BY <1>1, <2>1, <2>4, DelegationGiven
    <2> HIDE DEF P, S
    <2>6. QED
      BY <2>2, <2>3, <2>5 DEF DelegationsByMaps
  <1>3. ASSUME NEW d \in Voter, revoke_delegation(d)
        PROVE  DelegationsByMaps'
    <2> DEFINE P(v) == GetOr(delegatedPower, v, 0)
               S(v) == SumFunction(Received(delegations, v))
               e == delegations[d].delegatee
               a == delegations[d].amount
    <2>1. d \in DOMAIN delegations /\ e \in Voter /\ a \in Int
      BY <1>1, <1>3 DEF revoke_delegation
    <2>2. \A v \in Voter : P(v) = S(v)
      BY DEF DelegationsByMaps
    <2>3. delegatedPower' = Put(delegatedPower, e, P(e) - a) /\ delegations' = Drop(delegations, d)
      BY <1>3 DEF revoke_delegation, revoked_amount
    <2>4. \A v : SumFunction(Received(delegations', v)) = S(v) - IF v = e THEN a ELSE 0
      BY <1>1, <2>1, <2>3, DelegationDropped
    <2> HIDE DEF a, e
    <2>5. \A v \in Voter : GetOr(delegatedPower', v, 0) = P(v) - IF v = e THEN a ELSE 0
      BY <1>1, <2>1, <2>3 DEF Put, GetOr
    <2> HIDE DEF P, S
    <2>6. QED
      BY <2>2, <2>4, <2>5 DEF DelegationsByMaps
  <1>4. ASSUME UNCHANGED <<delegations, delegatedPower>>
        PROVE  DelegationsByMaps'
    BY <1>4 DEF DelegationsByMaps
  <1>5. QED
    BY <1>2, <1>3, <1>4 DEF Holders, lock_tokens, withdraw_tokens, TokenTransfer, power

\* Every step keeps the counters and the delegated power right.
LEMMA NextPower == IInv /\ PowerAddsUp /\ [Next]_vars => PowerAddsUp'
  <1> SUFFICES ASSUME IInv, TalliesByMaps, DelegationsByMaps, [Next]_vars
               PROVE  TalliesByMaps' /\ DelegationsByMaps'
    BY PowerMaps
  <1>1. CASE Lifecycle
    <2>1. UNCHANGED <<delegations, delegatedPower>>
      BY <1>1 DEF Lifecycle, propose, cast_vote, queue, execute, cancel, power
    <2>2. QED
      BY <1>1, <2>1, LifecycleTallies DEF DelegationsByMaps
  <1>2. CASE Holders
    <2>1. UNCHANGED <<proposals, votes>>
      BY <1>2 DEF Holders, delegate, revoke_delegation, lock_tokens, withdraw_tokens, TokenTransfer
    <2>2. QED
      BY <1>2, <2>1, HoldersPower DEF TalliesByMaps
  <1>3. CASE Administration \/ Tick \/ UNCHANGED vars
    <2>1. UNCHANGED <<proposals, votes, delegations, delegatedPower>>
      BY <1>3 DEF Administration, initialize, set_voting_params, Tick, vars, power
    <2>2. QED
      BY <2>1 DEF TalliesByMaps, DelegationsByMaps
  <1>4. QED
    BY <1>1, <1>2, <1>3 DEF Next

\* A proposal's counters are always the votes recorded for it, one per voter, and
\* DelegatedPower is always the sum of the delegations in force.
THEOREM PowerAlwaysAddsUp == Spec => []PowerAddsUp
  <1>1. IInv /\ [Next]_vars => IInv'
    BY NextGood DEF Good
  <1>2. QED
    BY <1>1, InitIInv, InitPower, NextPower, PTL DEF Spec
=============================================================================
