---------------------------- MODULE EscrowProofs ----------------------------
(***************************************************************************)
(* Proofs about Escrow, for any signers, amounts, delays and limits and    *)
(* any number of escrows and withdrawals.                                  *)
(***************************************************************************)
EXTENDS Escrow, StorageTheorems

\* A request for a withdrawal.
Withdrawal ==
    [escrow : Nat, recipient : Recipient, amount : Nat \ {0},
     submitter : Address, approvers : SUBSET Address, queuedAt : Nat,
     executed : BOOLEAN, cancelled : BOOLEAN, executedAt : Nat]

\* The part of TypeOK about the signers, the queue and the balances.
QueueType ==
    /\ initialized \in BOOLEAN
    /\ signers \in SUBSET Address
    /\ signerCount \in Nat /\ required \in Nat
    /\ nextEscrowId \in Nat /\ nextTxId \in Nat /\ now \in Nat
    /\ DOMAIN escrows \subseteq Nat /\ DOMAIN txs \subseteq Nat
    /\ txs \in [DOMAIN txs -> Withdrawal]

\* No escrow is overdrawn, and every escrow has a balance: a withdrawal that
\* was funded when it was queued is paid only if it still is.
BalancesCovered ==
    escrowBalance \in [DOMAIN escrows -> Nat]

\* Identifiers are handed out in order.  initialize sets the counter back to
\* one, which is harmless because nothing can be queued before it.
FreshIds ==
    /\ \A id \in DOMAIN txs : id < nextTxId
    /\ ~initialized => txs = EmptyMap

\* No request is both executed and cancelled.
NeverBoth == \A id \in DOMAIN txs : ~(txs[id].executed /\ txs[id].cancelled)

\* The inductive invariant of the withdrawal queue.
IInv == QueueType /\ BalancesCovered /\ FreshIds /\ ThresholdReachable /\ NeverBoth

\* Withdrawals may be added, and the open ones changed.
QueueStep ==
    \A id \in DOMAIN txs : ~is_open(id) => txs'[id] = txs[id]

-----------------------------------------------------------------------------
\* Signers form a finite set, and adding or removing one changes its size by
\* one.
LEMMA SignerCounts ==
    ASSUME NEW S \in SUBSET Address
    PROVE  /\ Cardinality(S) \in Nat
           /\ \A a \in Address \ S : Cardinality(S \cup {a}) = Cardinality(S) + 1
           /\ \A a \in S : Cardinality(S \ {a}) = Cardinality(S) - 1
  <1>1. IsFiniteSet(S)
    BY FS_Subset, EscrowAssumption
  <1>2. QED
    BY <1>1, FS_CardinalityType, FS_AddElement, FS_RemoveElement

\* Nothing is queued in a contract that was just deployed.
LEMMA EmptyMapDomain == DOMAIN EmptyMap = {}
  BY DEF EmptyMap

\* The invariant holds of a newly deployed escrow contract.
LEMMA InitIInv == Init => IInv
  <1> SUFFICES ASSUME Init PROVE IInv
    OBVIOUS
  <1> USE DEF Init
  <1>1. DOMAIN txs = {} /\ DOMAIN escrows = {} /\ DOMAIN escrowBalance = {}
    BY EmptyMapDomain
  <1>2. txs \in [DOMAIN txs -> Withdrawal]
    BY <1>1 DEF EmptyMap
  <1>3. BalancesCovered
    BY <1>1 DEF BalancesCovered, EmptyMap
  <1>4. QueueType
    BY <1>1, <1>2 DEF QueueType
  <1>5. FreshIds /\ ThresholdReachable /\ NeverBoth
    BY <1>1 DEF FreshIds, ThresholdReachable, NeverBoth
  <1>6. QED
    BY <1>3, <1>4, <1>5 DEF IInv

\* A step that touches neither the membership nor the queue nor the balances
\* keeps the invariant.
LEMMA OtherIInv ==
    ASSUME IInv, now' \in Nat,
           UNCHANGED <<initialized, signers, signerCount, required, txs, nextTxId,
                       nextEscrowId, escrowBalance>>,
           DOMAIN escrows' = DOMAIN escrows
    PROVE  IInv' /\ QueueStep
  BY DEF IInv, QueueType, BalancesCovered, FreshIds, ThresholdReachable, NeverBoth, QueueStep

\* initialize establishes the threshold.
LEMMA InitializeIInv ==
    ASSUME IInv, NEW list \in SUBSET Address, NEW m \in Nat, NEW d, NEW g, NEW w, NEW r,
           initialize(list, m, d, g, w, r)
    PROVE  IInv' /\ QueueStep
  <1> USE DEF initialize
  <1>1. DOMAIN txs = {} /\ txs' = txs
    BY EmptyMapDomain DEF IInv, FreshIds
  <1>2. Cardinality(list) \in Nat
    BY SignerCounts
  <1>3. QueueType'
    BY <1>1, <1>2 DEF IInv, QueueType
  <1>4. ThresholdReachable'
    BY <1>2 DEF ThresholdReachable, validate_signer_set
  <1>5. BalancesCovered' /\ FreshIds' /\ NeverBoth' /\ QueueStep
    BY <1>1 DEF IInv, BalancesCovered, FreshIds, NeverBoth, QueueStep
  <1>6. QED
    BY <1>3, <1>4, <1>5 DEF IInv

\* Signers come and go and the threshold is set: it stays within reach.
LEMMA MembershipIInv ==
    ASSUME IInv,
           \/ \E s \in Address : add_signer(s) \/ remove_signer(s)
           \/ \E m \in Nat : set_threshold(m)
    PROVE  IInv' /\ QueueStep
  <1>1. /\ initialized /\ UNCHANGED <<initialized, funds, queue, now>>
    BY DEF add_signer, remove_signer, set_threshold
  <1>2. /\ signers' \in SUBSET Address /\ signerCount' \in Nat /\ required' \in Nat
        /\ ThresholdReachable'
    <2> USE <1>1 DEF IInv, QueueType, ThresholdReachable
    <2>1. ASSUME NEW s \in Address, add_signer(s)
          PROVE  /\ signers' \in SUBSET Address /\ signerCount' \in Nat /\ required' \in Nat
                 /\ ThresholdReachable'
      <3>1. Cardinality(signers \cup {s}) = Cardinality(signers) + 1
        BY <2>1, SignerCounts DEF add_signer
      <3>2. QED
        BY <2>1, <3>1, EscrowAssumption DEF add_signer
    <2>2. ASSUME NEW s \in Address, remove_signer(s)
          PROVE  /\ signers' \in SUBSET Address /\ signerCount' \in Nat /\ required' \in Nat
                 /\ ThresholdReachable'
      <3>1. Cardinality(signers \ {s}) = Cardinality(signers) - 1
        BY <2>2, SignerCounts DEF remove_signer
      <3>2. QED
        BY <2>2, <3>1, EscrowAssumption DEF remove_signer, may_remove
    <2>3. ASSUME NEW m \in Nat, set_threshold(m)
          PROVE  /\ signers' \in SUBSET Address /\ signerCount' \in Nat /\ required' \in Nat
                 /\ ThresholdReachable'
      BY <2>3 DEF set_threshold
    <2>4. QED
      BY <2>1, <2>2, <2>3
  <1>3. QED
    BY <1>1, <1>2 DEF IInv, QueueType, BalancesCovered, FreshIds, NeverBoth, QueueStep,
                      funds, queue

\* A new escrow starts empty, and deposits only raise balances.
LEMMA FundingIInv ==
    ASSUME IInv,
           \/ \E t \in Token, native \in BOOLEAN : create_escrow(t, native)
           \/ \E id \in DOMAIN escrows, a \in Amount : deposit(id, a)
    PROVE  IInv' /\ QueueStep
  <1>1. UNCHANGED <<initialized, signers, signerCount, required, txs, nextTxId, now>>
    BY DEF create_escrow, deposit, config, queue
  <1>2. /\ DOMAIN escrows' \subseteq Nat /\ nextEscrowId' \in Nat
        /\ escrowBalance' \in [DOMAIN escrows' -> Nat]
    <2>1. ASSUME NEW t \in Token, NEW native \in BOOLEAN, create_escrow(t, native)
          PROVE  /\ DOMAIN escrows' \subseteq Nat /\ nextEscrowId' \in Nat
                 /\ escrowBalance' \in [DOMAIN escrows' -> Nat]
      <3>1. DOMAIN escrows' = DOMAIN escrows \cup {nextEscrowId}
        BY <2>1 DEF create_escrow, Put
      <3>2. escrowBalance' = [k \in DOMAIN escrowBalance \cup {nextEscrowId} |->
                                 IF k = nextEscrowId THEN 0 ELSE escrowBalance[k]]
        BY <2>1 DEF create_escrow, Put
      <3>3. nextEscrowId' \in Nat
        BY <2>1 DEF create_escrow, IInv, QueueType
      <3>4. QED
        BY <3>1, <3>2, <3>3 DEF IInv, QueueType, BalancesCovered
    <2>2. ASSUME NEW id \in DOMAIN escrows, NEW a \in Amount, deposit(id, a)
          PROVE  /\ DOMAIN escrows' \subseteq Nat /\ nextEscrowId' \in Nat
                 /\ escrowBalance' \in [DOMAIN escrows' -> Nat]
      <3>1. a \in Nat
        BY <2>2, EscrowAssumption DEF deposit
      <3>2. QED
        BY <2>2, <3>1 DEF deposit, IInv, QueueType, BalancesCovered
    <2>3. QED
      BY <2>1, <2>2
  <1>3. QED
    BY <1>1, <1>2 DEF IInv, QueueType, BalancesCovered, FreshIds, ThresholdReachable,
                      NeverBoth, QueueStep

\* A withdrawal is queued under an identifier that was never used.
LEMMA SubmitIInv ==
    ASSUME IInv, NEW who \in Address, NEW id \in DOMAIN escrows, NEW r \in Recipient,
           NEW a \in Amount, submit_transaction(who, id, r, a)
    PROVE  IInv' /\ QueueStep
  <1> DEFINE tx == [escrow |-> id, recipient |-> r, amount |-> a,
                    submitter |-> who, approvers |-> {who}, queuedAt |-> now,
                    executed |-> FALSE, cancelled |-> FALSE, executedAt |-> 0]
  <1>1. a \in Nat \ {0} /\ initialized
    BY EscrowAssumption DEF submit_transaction
  <1>2. tx \in Withdrawal
    BY <1>1 DEF Withdrawal, IInv, QueueType
  <1>3. ~tx.executed
    OBVIOUS
  <1>4. /\ txs' = Put(txs, nextTxId, tx) /\ nextTxId' = nextTxId + 1
        /\ UNCHANGED <<initialized, signers, signerCount, required, nextEscrowId, escrows,
                       escrowBalance, now>>
    BY DEF submit_transaction, config, funds
  <1> HIDE DEF tx
  <1>5. /\ DOMAIN txs' = DOMAIN txs \cup {nextTxId}
        /\ txs'[nextTxId] = tx
        /\ \A k \in DOMAIN txs : txs'[k] = txs[k]
    BY <1>4 DEF Put, IInv, FreshIds, QueueType
  <1>6. txs' \in [DOMAIN txs' -> Withdrawal]
    BY <1>2, <1>4, <1>5 DEF Put, IInv, QueueType
  <1>7. QueueType'
    BY <1>4, <1>5, <1>6 DEF IInv, QueueType
  <1>8. FreshIds'
    BY <1>1, <1>4, <1>5 DEF IInv, FreshIds, QueueType
  <1>9. NeverBoth' /\ QueueStep
    BY <1>3, <1>5 DEF IInv, NeverBoth, QueueStep
  <1>10. BalancesCovered' /\ ThresholdReachable'
    BY <1>4 DEF IInv, BalancesCovered, ThresholdReachable
  <1>11. QED
    BY <1>7, <1>8, <1>9, <1>10 DEF IInv

\* A call that replaces one open withdrawal by one that is not both executed
\* and cancelled.
LEMMA ReplaceIInv ==
    ASSUME IInv, NEW id \in DOMAIN txs, is_open(id), NEW tx \in Withdrawal,
           ~(tx.executed /\ tx.cancelled),
           txs' = [txs EXCEPT ![id] = tx],
           UNCHANGED <<initialized, signers, signerCount, required, nextTxId, nextEscrowId,
                       escrows, now>>,
           BalancesCovered'
    PROVE  IInv' /\ QueueStep
  <1>1. /\ DOMAIN txs' = DOMAIN txs /\ txs'[id] = tx
        /\ \A k \in DOMAIN txs : k # id => txs'[k] = txs[k]
    BY DEF IInv, QueueType
  <1>2. txs' \in [DOMAIN txs' -> Withdrawal]
    BY <1>1 DEF IInv, QueueType
  <1>3. initialized
    BY EmptyMapDomain DEF IInv, FreshIds
  <1>4. QueueType' /\ FreshIds' /\ ThresholdReachable'
    BY <1>1, <1>2, <1>3 DEF IInv, QueueType, FreshIds, ThresholdReachable
  <1>5. NeverBoth' /\ QueueStep
    BY <1>1 DEF IInv, NeverBoth, QueueStep
  <1>6. QED
    BY <1>4, <1>5 DEF IInv

\* Approvals change only open withdrawals.
LEMMA ApprovalIInv ==
    ASSUME IInv, NEW s \in Address, NEW id \in DOMAIN txs,
           approve_transaction(s, id) \/ revoke_approval(s, id)
    PROVE  IInv' /\ QueueStep
  <1>1. /\ is_open(id)
        /\ UNCHANGED <<initialized, signers, signerCount, required, nextTxId, nextEscrowId,
                       escrows, escrowBalance, now>>
    BY DEF approve_transaction, revoke_approval, config, funds
  <1>2. PICK as \in SUBSET Address : txs' = [txs EXCEPT ![id] = [txs[id] EXCEPT !.approvers = as]]
    BY DEF approve_transaction, revoke_approval, IInv, QueueType, Withdrawal
  <1> DEFINE tx == [txs[id] EXCEPT !.approvers = as]
  <1>3. tx \in Withdrawal /\ tx.executed = txs[id].executed /\ tx.cancelled = txs[id].cancelled
    BY DEF IInv, QueueType, Withdrawal
  <1>4. ~(tx.executed /\ tx.cancelled)
    BY <1>3 DEF IInv, NeverBoth
  <1>5. BalancesCovered'
    BY <1>1 DEF IInv, BalancesCovered
  <1> HIDE DEF tx
  <1>6. txs' = [txs EXCEPT ![id] = tx]
    BY <1>2 DEF tx
  <1>7. QED
    BY <1>1, <1>3, <1>4, <1>5, <1>6, ReplaceIInv

\* Executing and cancelling settle an open withdrawal, one way.
LEMMA SettleIInv ==
    ASSUME IInv, NEW id \in DOMAIN txs,
           execute_transaction(id) \/ \E who \in Address \cup {Keeper} : cancel_transaction(who, id)
    PROVE  IInv' /\ QueueStep
  <1>1. txs[id] \in Withdrawal /\ now \in Nat
    BY DEF IInv, QueueType
  <1>2. CASE execute_transaction(id)
    <2> DEFINE tx == [txs[id] EXCEPT !.executed = TRUE, !.executedAt = now]
    <2>1. /\ is_open(id) /\ txs' = [txs EXCEPT ![id] = tx]
          /\ UNCHANGED <<initialized, signers, signerCount, required, nextTxId, nextEscrowId,
                         escrows, now>>
      BY <1>2 DEF execute_transaction, config, IInv, QueueType
    <2>2. tx \in Withdrawal /\ ~tx.cancelled
      BY <1>1, <2>1 DEF Withdrawal, is_open
    <2>3. BalancesCovered'
      <3>1. debit(txs[id])
        BY <1>2 DEF execute_transaction
      <3> DEFINE e == txs[id].escrow
                 a == txs[id].amount
      <3>2. a \in Nat /\ escrowBalance \in [DOMAIN escrows -> Nat]
        BY <1>1 DEF IInv, BalancesCovered, Withdrawal
      <3>3. escrowBalance[e] >= a /\ escrowBalance' = [escrowBalance EXCEPT ![e] = @ - a]
        BY <3>1 DEF debit
      <3> HIDE DEF e, a
      <3>4. CASE e \in DOMAIN escrows
        <4>1. escrowBalance[e] - a \in Nat
          BY <3>2, <3>3, <3>4
        <4>2. QED
          BY <2>1, <3>2, <3>3, <4>1 DEF BalancesCovered
      <3>5. CASE e \notin DOMAIN escrows
        BY <2>1, <3>2, <3>3, <3>5 DEF BalancesCovered
      <3>6. QED
        BY <3>4, <3>5
    <2> HIDE DEF tx
    <2>4. QED
      BY <2>1, <2>2, <2>3, ReplaceIInv
  <1>3. ASSUME NEW who \in Address \cup {Keeper}, cancel_transaction(who, id)
        PROVE  IInv' /\ QueueStep
    <2> DEFINE tx == [txs[id] EXCEPT !.cancelled = TRUE]
    <2>1. /\ is_open(id) /\ txs' = [txs EXCEPT ![id] = tx]
          /\ UNCHANGED <<initialized, signers, signerCount, required, nextTxId, nextEscrowId,
                         escrows, escrowBalance, now>>
      BY <1>3 DEF cancel_transaction, config, funds, IInv, QueueType
    <2>2. tx \in Withdrawal /\ ~tx.executed
      BY <1>1, <2>1 DEF Withdrawal, is_open
    <2>3. BalancesCovered'
      BY <2>1 DEF IInv, BalancesCovered
    <2> HIDE DEF tx
    <2>4. QED
      BY <2>1, <2>2, <2>3, ReplaceIInv
  <1>4. QED
    BY <1>2, <1>3

\* Every step keeps the invariant and changes no settled withdrawal.
LEMMA NextIInv == IInv /\ [Next]_vars => IInv' /\ QueueStep
  <1> SUFFICES ASSUME IInv, [Next]_vars PROVE IInv' /\ QueueStep
    OBVIOUS
  <1>1. ASSUME NEW m \in 0..Cardinality(Address) PROVE m \in Nat
    BY SignerCounts
  <1>2. CASE Configure
    <2>1. CASE \E list \in SUBSET Address, m \in 0..Cardinality(Address),
                  d \in Delay, g \in Grace, w \in Window, r \in RateMax :
                  initialize(list, m, d, g, w, r)
      BY <1>1, <2>1, InitializeIInv
    <2>2. CASE \/ \E s \in Address : add_signer(s)
               \/ \E s \in Address : remove_signer(s)
               \/ \E m \in 0..Cardinality(Address) : set_threshold(m)
      BY <1>1, <2>2, MembershipIInv
    <2>3. CASE \/ \E d \in Delay, g \in Grace : set_timelock(d, g)
               \/ \E w \in Window, r \in RateMax : set_rate_limit(w, r)
               \/ \E flag \in BOOLEAN : set_paused(flag)
               \/ \E who \in RoleHolder, held \in BOOLEAN : SetRole(who, held)
      <3>1. /\ UNCHANGED <<initialized, signers, signerCount, required, txs, nextTxId,
                           nextEscrowId, escrowBalance, escrows, now>>
        BY <2>3 DEF set_timelock, set_rate_limit, set_paused, SetRole, config, funds, queue
      <3>2. QED
        BY <3>1, OtherIInv DEF IInv, QueueType
    <2>4. QED
      BY <1>2, <2>1, <2>2, <2>3 DEF Configure
  <1>3. CASE Operate
    <2>1. CASE \/ \E t \in Token, native \in BOOLEAN : create_escrow(t, native)
               \/ \E id \in DOMAIN escrows, a \in Amount : deposit(id, a)
      BY <2>1, FundingIInv
    <2>2. CASE \E who \in Address, id \in DOMAIN escrows, r \in Recipient, a \in Amount :
                  submit_transaction(who, id, r, a)
      BY <2>2, SubmitIInv
    <2>3. CASE \/ \E s \in Address, id \in DOMAIN txs : approve_transaction(s, id)
               \/ \E s \in Address, id \in DOMAIN txs : revoke_approval(s, id)
      BY <2>3, ApprovalIInv
    <2>4. CASE \/ \E id \in DOMAIN txs : execute_transaction(id)
               \/ \E who \in Address \cup {Keeper}, id \in DOMAIN txs : cancel_transaction(who, id)
      BY <2>4, SettleIInv
    <2>5. ASSUME NEW id \in DOMAIN escrows, close_escrow(id)
          PROVE  IInv' /\ QueueStep
      <3>1. /\ UNCHANGED <<initialized, signers, signerCount, required, txs, nextTxId,
                           nextEscrowId, escrowBalance, now>>
            /\ DOMAIN escrows' = DOMAIN escrows
        BY <2>5 DEF close_escrow, config, queue
      <3>2. QED
        BY <3>1, OtherIInv DEF IInv, QueueType
    <2>6. QED
      BY <1>3, <2>1, <2>2, <2>3, <2>4, <2>5 DEF Operate
  <1>4. CASE Tick
    <2>1. /\ UNCHANGED <<initialized, signers, signerCount, required, txs, nextTxId,
                         nextEscrowId, escrowBalance, escrows>>
          /\ now' \in Nat
      BY <1>4 DEF Tick, config, funds, queue, IInv, QueueType
    <2>2. QED
      BY <2>1, OtherIInv
  <1>5. CASE UNCHANGED vars
    <2>1. UNCHANGED <<initialized, signers, signerCount, required, txs, nextTxId,
                      nextEscrowId, escrowBalance, escrows, now>>
      BY <1>5 DEF vars, config, funds, queue
    <2>2. QED
      BY <2>1, OtherIInv DEF IInv, QueueType
  <1>6. QED
    BY <1>2, <1>3, <1>4, <1>5 DEF Next

\* In every reachable state the signers can meet the threshold and the stored
\* count is theirs, whatever add_signer, remove_signer and set_threshold did.
THEOREM ThresholdAlwaysReachable == Spec => []ThresholdReachable
  BY InitIInv, NextIInv, PTL DEF Spec, IInv

\* No call of the contract changes a withdrawal that execute_transaction or
\* cancel_transaction has settled, and none is settled both ways.
THEOREM SettledStaysSettled == Spec => SettledIsFinal
  <1>1. IInv => NeverBoth
    BY DEF IInv
  <1>2. IInv /\ [Next]_vars => [QueueStep]_vars
    BY NextIInv
  <1>3. Spec => []NeverBoth
    BY <1>1, InitIInv, NextIInv, PTL DEF Spec
  <1>4. Spec => [][QueueStep]_vars
    BY <1>2, InitIInv, NextIInv, PTL DEF Spec
  <1>5. QED
    BY <1>3, <1>4 DEF SettledIsFinal, NeverBoth, QueueStep

-----------------------------------------------------------------------------
\* The ledger: what each escrow holds and what the contract holds.

\* The amounts executed from an escrow, and the balances kept in a token.
SpentFrom(e) == [id \in {i \in Executed : txs[i].escrow = e} |-> txs[id].amount]

\* The escrows that hold token t, and what each holds.
Backing(t) == {e \in DOMAIN escrows : escrows[e].token = t /\ ~escrows[e].native}
HeldIn(t) == [e \in Backing(t) |-> escrowBalance[e]]

\* The rest of TypeOK, but that custody is not negative: that follows from
\* the ledger.
RestOfType ==
    /\ paused \in BOOLEAN /\ widened \in BOOLEAN
    /\ roleAdmins \in SUBSET Address
    /\ timelock \in Nat /\ grace \in Nat /\ window \in Nat /\ rateMax \in Nat
    /\ globalExec \in Seq(Nat)
    /\ DOMAIN recipientExec \subseteq Recipient
    /\ recipientExec \in [DOMAIN recipientExec -> Seq(Nat)]

\* Escrows are numbered in order, like withdrawals, and every withdrawal is
\* drawn on an escrow there is.
EscrowsType ==
    /\ escrows \in [DOMAIN escrows -> EscrowRecord]
    /\ deposited \in [DOMAIN escrows -> Nat]
    /\ custody \in [Token -> Int]
    /\ \A e \in DOMAIN escrows : e < nextEscrowId
    /\ ~initialized => escrows = EmptyMap
    /\ \A id \in DOMAIN txs : txs[id].escrow \in DOMAIN escrows

\* The inductive invariant of the ledger.
LedgerInv == IInv /\ EscrowsType /\ EscrowLedger

\* EscrowLedger in terms of the two maps, before and after a step.
LedgerByMaps ==
    /\ \A e \in DOMAIN escrows : escrowBalance[e] = deposited[e] - SumFunction(SpentFrom(e))
    /\ \A t \in Token : custody[t] = SumFunction(HeldIn(t))

\* The ledger the run checks is the one over maps, now and after a step.
LEMMA LedgerMaps == EscrowLedger = LedgerByMaps /\ EscrowLedger' = LedgerByMaps'
  BY DEF EscrowLedger, LedgerByMaps, SumOver, SpentFrom, HeldIn, Backing

\* There are finitely many withdrawals.
LEMMA FinitelyMany == IInv => IsFiniteSet(DOMAIN txs)
  <1> SUFFICES ASSUME IInv PROVE IsFiniteSet(DOMAIN txs)
    OBVIOUS
  <1>1. \A id \in DOMAIN txs : id <= nextTxId
    BY DEF IInv, QueueType, FreshIds
  <1>2. QED
    BY <1>1, FS_BoundedSetOfNaturals DEF IInv, QueueType

\* Both maps are finite and hold naturals.
LEMMA LedgerMapTypes ==
    ASSUME IInv, EscrowsType
    PROVE  /\ \A e : NatMap(SpentFrom(e))
           /\ \A t : NatMap(HeldIn(t))
  <1>1. IsFiniteSet(DOMAIN txs)
    BY FinitelyMany
  <1>2. IsFiniteSet(DOMAIN escrows)
    <2>1. \A e \in DOMAIN escrows : e <= nextEscrowId
      BY DEF IInv, QueueType, EscrowsType
    <2>2. QED
      BY <2>1, FS_BoundedSetOfNaturals DEF IInv, QueueType
  <1>3. ASSUME NEW e PROVE NatMap(SpentFrom(e))
    <2>1. IsFiniteSet({i \in Executed : txs[i].escrow = e})
      BY <1>1, FS_Subset DEF Executed
    <2>2. \A i \in Executed : txs[i].amount \in Nat
      BY DEF IInv, QueueType, Executed, Withdrawal
    <2>3. QED
      BY <2>1, <2>2 DEF NatMap, SpentFrom
  <1>4. ASSUME NEW t PROVE NatMap(HeldIn(t))
    <2>1. IsFiniteSet(Backing(t))
      BY <1>2, FS_Subset DEF Backing
    <2>2. \A e \in Backing(t) : escrowBalance[e] \in Nat
      BY DEF IInv, BalancesCovered, Backing
    <2>3. QED
      BY <2>1, <2>2 DEF NatMap, HeldIn
  <1>5. QED
    BY <1>3, <1>4

\* Withdrawals that were executed before stay as they were, so the amounts
\* spent change only when one is executed.
LEMMA SpentSame ==
    ASSUME QueueStep, Executed' = Executed, NEW e
    PROVE  SpentFrom(e)' = SpentFrom(e)
  <1>1. \A i \in Executed : txs'[i] = txs[i]
    BY DEF QueueStep, Executed, is_open
  <1>2. QED
    BY <1>1 DEF SpentFrom

\* A step that moves no funds.
LEMMA LedgerSame ==
    ASSUME LedgerInv, IInv', QueueStep, Executed' = Executed,
           UNCHANGED <<escrowBalance, deposited, custody>>,
           DOMAIN escrows' = DOMAIN escrows,
           \A e \in DOMAIN escrows : /\ escrows'[e].token = escrows[e].token
                                     /\ escrows'[e].native = escrows[e].native
    PROVE  EscrowLedger'
  <1>1. \A e : SpentFrom(e)' = SpentFrom(e)
    BY SpentSame
  <1>2. \A t : HeldIn(t)' = HeldIn(t)
    <2>1. \A t : Backing(t)' = Backing(t)
      BY DEF Backing
    <2>2. QED
      BY <2>1 DEF HeldIn
  <1>3. QED
    BY <1>1, <1>2, LedgerMaps DEF LedgerInv, LedgerByMaps

\* A deposit or a withdrawal: one escrow's balance changes by delta, and so
\* do the tokens in custody if the escrow is not native.
LEMMA HeldMoves ==
    ASSUME LedgerInv, NEW id \in DOMAIN escrows, NEW delta \in Int,
           move_tokens(id, delta), UNCHANGED escrows,
           escrowBalance' = [escrowBalance EXCEPT ![id] = @ + delta],
           NEW t \in Token
    PROVE  custody'[t] = SumFunction(HeldIn(t)')
  <1>1. /\ escrows[id].token \in Token /\ custody \in [Token -> Int]
        /\ escrowBalance \in [DOMAIN escrows -> Nat]
        /\ custody[t] = SumFunction(HeldIn(t))
    BY LedgerMaps DEF LedgerInv, EscrowsType, EscrowRecord, IInv, BalancesCovered, LedgerByMaps
  <1>2. Backing(t)' = Backing(t)
    BY DEF Backing
  <1>3. CASE id \in Backing(t)
    <2> DEFINE f == HeldIn(t)
               g == HeldIn(t)'
    <2>1. IntMap(f)
      BY LedgerMapTypes, NatMapIsIntMap DEF LedgerInv
    <2>2. ChangesKey(g, f, id) /\ f[id] = escrowBalance[id] /\ g[id] = escrowBalance[id] + delta
      BY <1>1, <1>2, <1>3, <2>1 DEF ChangesKey, HeldIn, IntMap, Backing
    <2>3. custody'[t] = custody[t] + delta
      BY <1>1, <1>3 DEF move_tokens, Backing
    <2> HIDE DEF f, g
    <2>4. SumFunction(g) = SumFunction(f) - f[id] + g[id] /\ SumFunction(f) \in Int
      BY <2>2, SumChange
    <2>5. SumFunction(g) = SumFunction(f) + delta
      BY <1>1, <2>2, <2>4
    <2>6. QED
      BY <1>1, <2>3, <2>5 DEF f, g
  <1>4. CASE id \notin Backing(t)
    <2>1. custody'[t] = custody[t]
      BY <1>1, <1>4 DEF move_tokens, Backing
    <2>2. HeldIn(t)' = HeldIn(t)
      BY <1>1, <1>2, <1>4 DEF HeldIn, Backing
    <2>3. QED
      BY <1>1, <2>1, <2>2
  <1>5. QED
    BY <1>3, <1>4

\* deposit credits the escrow and the history of its deposits alike.
LEMMA DepositLedger ==
    ASSUME LedgerInv, NEW id \in DOMAIN escrows, NEW a \in Amount, deposit(id, a), QueueStep
    PROVE  EscrowLedger'
  <1>1. /\ a \in Int /\ move_tokens(id, a) /\ UNCHANGED <<escrows, txs>>
        /\ escrowBalance' = [escrowBalance EXCEPT ![id] = @ + a]
        /\ deposited' = [deposited EXCEPT ![id] = @ + a]
    BY EscrowAssumption DEF deposit, queue
  <1>2. \A t \in Token : custody'[t] = SumFunction(HeldIn(t)')
    BY <1>1, HeldMoves
  <1>3. Executed' = Executed
    BY <1>1 DEF Executed
  <1>4. ASSUME NEW e \in DOMAIN escrows
        PROVE  escrowBalance'[e] = deposited'[e] - SumFunction(SpentFrom(e)')
    <2> DEFINE s == SumFunction(SpentFrom(e))
    <2>1. s \in Int /\ SumFunction(SpentFrom(e)') = s
      BY <1>3, SpentSame, LedgerMapTypes, NatMapIsIntMap, SumType DEF LedgerInv
    <2>2. /\ escrowBalance \in [DOMAIN escrows -> Nat] /\ deposited \in [DOMAIN escrows -> Nat]
          /\ escrowBalance[e] = deposited[e] - s
      BY LedgerMaps DEF LedgerInv, IInv, BalancesCovered, EscrowsType, LedgerByMaps
    <2> HIDE DEF s
    <2>3. QED
      BY <1>1, <2>1, <2>2
  <1>5. QED
    BY <1>1, <1>2, <1>4, LedgerMaps DEF LedgerByMaps

\* execute_transaction takes from the escrow what it adds to the amounts
\* executed from it, and from no other escrow.
LEMMA ExecuteLedger ==
    ASSUME LedgerInv, NEW id \in DOMAIN txs, execute_transaction(id), QueueStep
    PROVE  EscrowLedger'
  <1> DEFINE x == txs[id].escrow
             a == txs[id].amount
  <1>1. /\ txs \in [DOMAIN txs -> Withdrawal] /\ txs[id] \in Withdrawal /\ a \in Nat
        /\ x \in DOMAIN escrows
        /\ escrowBalance \in [DOMAIN escrows -> Nat] /\ deposited \in [DOMAIN escrows -> Nat]
    BY DEF LedgerInv, IInv, QueueType, Withdrawal, EscrowsType, BalancesCovered
  <1>2. /\ is_open(id) /\ UNCHANGED <<escrows, deposited>>
        /\ escrowBalance' = [escrowBalance EXCEPT ![x] = @ - a]
        /\ move_tokens(x, -a)
    BY DEF execute_transaction, debit
  <1>3. /\ DOMAIN txs' = DOMAIN txs /\ txs'[id].executed /\ txs'[id].escrow = x
        /\ txs'[id].amount = a /\ \A i \in DOMAIN txs \ {id} : txs'[i] = txs[i]
    BY <1>1 DEF execute_transaction, Withdrawal
  <1>4. Executed' = Executed \cup {id} /\ id \notin Executed
    BY <1>2, <1>3 DEF Executed, is_open
  <1>5. \A t \in Token : custody'[t] = SumFunction(HeldIn(t)')
    <2> HIDE DEF x, a
    <2>1. -a \in Int /\ escrowBalance[x] - a = escrowBalance[x] + (-a)
      BY <1>1
    <2>2. escrowBalance' = [escrowBalance EXCEPT ![x] = @ + (-a)]
      BY <1>2, <2>1
    <2>3. QED
      BY <1>1, <1>2, <2>1, <2>2, HeldMoves
  <1>6. ASSUME NEW e \in DOMAIN escrows
        PROVE  escrowBalance'[e] = deposited'[e] - SumFunction(SpentFrom(e)')
    <2> DEFINE f == SpentFrom(e)
               g == SpentFrom(e)'
    <2>1. IntMap(f) /\ escrowBalance[e] = deposited[e] - SumFunction(f)
      BY LedgerMapTypes, NatMapIsIntMap, LedgerMaps DEF LedgerInv, LedgerByMaps
    <2>2. CASE e = x
      <3>1. DOMAIN g = DOMAIN f \cup {id} /\ id \notin DOMAIN f
        BY <1>3, <1>4, <2>2 DEF SpentFrom, Executed
      <3>2. g[id] = a /\ \A k \in DOMAIN f : g[k] = f[k]
        BY <1>3, <1>4, <2>2 DEF SpentFrom, Executed
      <3>3. AddsKey(g, f, id)
        <4>1. g = [k \in DOMAIN g |-> g[k]]
          BY DEF SpentFrom
        <4> HIDE DEF f, g, x, a
        <4>2. QED
          BY <1>1, <2>1, <3>1, <3>2, <4>1 DEF AddsKey, IntMap
      <3> HIDE DEF f, g, x, a
      <3>4. SumFunction(g) = SumFunction(f) + a /\ SumFunction(f) \in Int
        BY <3>2, <3>3, SumAdd
      <3>5. escrowBalance'[e] = escrowBalance[e] - a /\ deposited'[e] = deposited[e]
        BY <1>1, <1>2, <2>2
      <3>6. QED
        BY <1>1, <2>1, <3>4, <3>5 DEF g
    <2>3. CASE e # x
      <3>1. g = f
        BY <1>3, <1>4, <2>3 DEF SpentFrom, Executed
      <3>2. escrowBalance'[e] = escrowBalance[e] /\ deposited'[e] = deposited[e]
        BY <1>1, <1>2, <2>3
      <3> HIDE DEF f, x, a
      <3>3. QED
        BY <2>1, <3>1, <3>2
    <2>4. QED
      BY <2>2, <2>3
  <1>7. QED
    BY <1>2, <1>5, <1>6, LedgerMaps DEF LedgerByMaps

\* A new escrow holds nothing and nothing was ever drawn on it.
LEMMA CreateLedger ==
    ASSUME LedgerInv, NEW tok \in Token, NEW native \in BOOLEAN, create_escrow(tok, native),
           QueueStep
    PROVE  EscrowLedger'
  <1>0. PICK n : n = nextEscrowId
    OBVIOUS
  <1> DEFINE r == [token |-> tok, native |-> native, active |-> TRUE]
  <1>1. /\ escrows' = Put(escrows, n, r) /\ escrowBalance' = Put(escrowBalance, n, 0)
        /\ deposited' = Put(deposited, n, 0) /\ UNCHANGED <<custody, txs>>
    BY <1>0 DEF create_escrow, queue
  <1>2. /\ n \in Nat /\ n \notin DOMAIN escrows
        /\ DOMAIN escrowBalance = DOMAIN escrows /\ DOMAIN deposited = DOMAIN escrows
        /\ escrowBalance \in [DOMAIN escrows -> Nat]
    BY <1>0 DEF LedgerInv, IInv, QueueType, BalancesCovered, EscrowsType
  <1>3. /\ DOMAIN escrows' = DOMAIN escrows \cup {n}
        /\ escrows'[n] = r /\ escrowBalance'[n] = 0 /\ deposited'[n] = 0
        /\ \A e \in DOMAIN escrows : /\ escrows'[e] = escrows[e] /\ deposited'[e] = deposited[e]
                                      /\ escrowBalance'[e] = escrowBalance[e]
    BY <1>1, <1>2 DEF Put
  <1>4. Executed' = Executed /\ \A e : SpentFrom(e)' = SpentFrom(e)
    BY <1>1, SpentSame DEF Executed
  <1>5. SumFunction(SpentFrom(n)) = 0
    <2>1. DOMAIN SpentFrom(n) = {}
      BY <1>2 DEF SpentFrom, Executed, LedgerInv, EscrowsType
    <2>2. QED
      BY <2>1, SumEmpty
  <1>6. \A e \in DOMAIN escrows' : escrowBalance'[e] = deposited'[e] - SumFunction(SpentFrom(e)')
    <2> HIDE DEF r
    <2>1. \A e \in DOMAIN escrows : escrowBalance[e] = deposited[e] - SumFunction(SpentFrom(e))
      BY LedgerMaps DEF LedgerInv, LedgerByMaps
    <2>2. ASSUME NEW e \in DOMAIN escrows
          PROVE  escrowBalance'[e] = deposited'[e] - SumFunction(SpentFrom(e)')
      BY <1>3, <1>4, <2>1
    <2>3. escrowBalance'[n] = deposited'[n] - SumFunction(SpentFrom(n)')
      BY <1>3, <1>4, <1>5
    <2>4. QED
      BY <1>3, <2>2, <2>3
  <1>7. ASSUME NEW t \in Token PROVE custody'[t] = SumFunction(HeldIn(t)')
    <2> DEFINE f == HeldIn(t)
               g == HeldIn(t)'
    <2>1. IntMap(f) /\ custody[t] = SumFunction(f)
      BY LedgerMapTypes, NatMapIsIntMap, LedgerMaps DEF LedgerInv, LedgerByMaps
    <2>2. r.token = tok /\ r.native = native
      OBVIOUS
    <2> HIDE DEF r
    <2>3. CASE tok = t /\ ~native
      <3>1. Backing(t)' = Backing(t) \cup {n} /\ n \notin Backing(t)
        BY <1>2, <1>3, <2>2, <2>3 DEF Backing
      <3>2. /\ DOMAIN g = DOMAIN f \cup {n} /\ n \notin DOMAIN f
            /\ g[n] = 0 /\ \A e \in DOMAIN f : g[e] = f[e]
        BY <1>3, <3>1 DEF HeldIn, Backing
      <3>3. AddsKey(g, f, n)
        BY <2>1, <3>2 DEF AddsKey, IntMap, HeldIn
      <3> HIDE DEF f, g
      <3>4. SumFunction(g) = SumFunction(f) + 0 /\ SumFunction(f) \in Int
        BY <3>2, <3>3, SumAdd
      <3>5. QED
        BY <1>1, <2>1, <3>4 DEF g
    <2>4. CASE ~(tok = t /\ ~native)
      <3>1. Backing(t)' = Backing(t)
        BY <1>2, <1>3, <2>2, <2>4 DEF Backing
      <3>2. g = f
        BY <1>3, <3>1 DEF HeldIn, Backing
      <3>3. QED
        BY <1>1, <2>1, <3>2
    <2>5. QED
      BY <2>3, <2>4
  <1>8. QED
    BY <1>6, <1>7, LedgerMaps DEF LedgerByMaps

\* A step that leaves the funds alone and changes neither what was executed
\* nor the escrow a withdrawal is drawn on.
LEMMA QueueOnlyLedger ==
    ASSUME LedgerInv, IInv', QueueStep, UNCHANGED <<initialized, funds>>,
           DOMAIN txs' = DOMAIN txs,
           \A i \in DOMAIN txs : /\ txs'[i].executed = txs[i].executed
                                 /\ txs'[i].escrow = txs[i].escrow
    PROVE  LedgerInv'
  <1>1. Executed' = Executed
    BY DEF Executed
  <1>2. UNCHANGED <<escrows, escrowBalance, custody, deposited, nextEscrowId>>
    BY DEF funds
  <1>3. EscrowLedger'
    BY <1>1, <1>2, LedgerSame
  <1>4. EscrowsType'
    BY <1>2 DEF LedgerInv, EscrowsType, EscrowRecord
  <1>5. QED
    BY <1>3, <1>4 DEF LedgerInv

\* Calls that change an open withdrawal without executing it.
LEMMA ChangeLedger ==
    ASSUME LedgerInv, IInv', QueueStep, NEW id \in DOMAIN txs,
           \/ \E s \in Address : approve_transaction(s, id) \/ revoke_approval(s, id)
           \/ \E who \in Address \cup {Keeper} : cancel_transaction(who, id)
    PROVE  LedgerInv'
  <1>1. UNCHANGED <<initialized, funds>>
    BY DEF approve_transaction, revoke_approval, cancel_transaction, config
  <1>2. txs \in [DOMAIN txs -> Withdrawal]
    BY DEF LedgerInv, IInv, QueueType
  <1>3. /\ DOMAIN txs' = DOMAIN txs
        /\ \A i \in DOMAIN txs : /\ txs'[i].executed = txs[i].executed
                                  /\ txs'[i].escrow = txs[i].escrow
    <2>1. ASSUME NEW as, txs' = [txs EXCEPT ![id].approvers = as]
          PROVE  /\ DOMAIN txs' = DOMAIN txs
                 /\ \A i \in DOMAIN txs : /\ txs'[i].executed = txs[i].executed
                                           /\ txs'[i].escrow = txs[i].escrow
      BY <1>2, <2>1 DEF Withdrawal
    <2>2. CASE \E s \in Address : approve_transaction(s, id) \/ revoke_approval(s, id)
      <3>1. \E as : txs' = [txs EXCEPT ![id].approvers = as]
        BY <2>2 DEF approve_transaction, revoke_approval
      <3>2. QED
        BY <2>1, <3>1
    <2>3. CASE \E who \in Address \cup {Keeper} : cancel_transaction(who, id)
      <3>1. txs' = [txs EXCEPT ![id].cancelled = TRUE]
        BY <2>3 DEF cancel_transaction
      <3>2. QED
        BY <1>2, <3>1 DEF Withdrawal
    <2>4. QED
      BY <2>2, <2>3
  <1>4. QED
    BY <1>1, <1>3, QueueOnlyLedger

\* A queued withdrawal moves no funds.
LEMMA SubmitLedger ==
    ASSUME LedgerInv, IInv', QueueStep, NEW who \in Address, NEW id \in DOMAIN escrows,
           NEW r \in Recipient, NEW a \in Amount, submit_transaction(who, id, r, a)
    PROVE  LedgerInv'
  <1> DEFINE tx == [escrow |-> id, recipient |-> r, amount |-> a,
                    submitter |-> who, approvers |-> {who}, queuedAt |-> now,
                    executed |-> FALSE, cancelled |-> FALSE, executedAt |-> 0]
  <1>1. ~tx.executed /\ tx.escrow = id
    OBVIOUS
  <1>2. /\ txs' = Put(txs, nextTxId, tx)
        /\ UNCHANGED <<initialized, escrows, escrowBalance, custody, deposited, nextEscrowId>>
    BY DEF submit_transaction, config, funds
  <1> HIDE DEF tx
  <1>3. /\ DOMAIN txs' = DOMAIN txs \cup {nextTxId} /\ txs'[nextTxId] = tx
        /\ nextTxId \notin DOMAIN txs /\ \A k \in DOMAIN txs : txs'[k] = txs[k]
    BY <1>2 DEF Put, LedgerInv, IInv, FreshIds, QueueType
  <1>4. Executed' = Executed
    BY <1>1, <1>3 DEF Executed
  <1>5. EscrowLedger'
    BY <1>2, <1>4, LedgerSame
  <1>6. EscrowsType'
    BY <1>1, <1>2, <1>3 DEF LedgerInv, EscrowsType, EscrowRecord
  <1>7. QED
    BY <1>5, <1>6 DEF LedgerInv

\* Tokens move in whole units.
LEMMA MoveType ==
    ASSUME EscrowsType, NEW id \in DOMAIN escrows, NEW delta \in Int, move_tokens(id, delta)
    PROVE  custody' \in [Token -> Int]
  BY DEF move_tokens, EscrowsType, EscrowRecord

\* Creating, funding and closing an escrow, and paying out of it.
LEMMA FundsLedger ==
    ASSUME LedgerInv, IInv', QueueStep,
           \/ \E t \in Token, native \in BOOLEAN : create_escrow(t, native)
           \/ \E id \in DOMAIN escrows, a \in Amount : deposit(id, a)
           \/ \E id \in DOMAIN escrows : close_escrow(id)
           \/ \E id \in DOMAIN txs : execute_transaction(id)
    PROVE  LedgerInv'
  <1> USE DEF LedgerInv
  <1>1. ASSUME NEW t \in Token, NEW native \in BOOLEAN, create_escrow(t, native)
        PROVE  LedgerInv'
    <2> DEFINE r == [token |-> t, native |-> native, active |-> TRUE]
    <2>1. /\ escrows' = Put(escrows, nextEscrowId, r) /\ deposited' = Put(deposited, nextEscrowId, 0)
          /\ UNCHANGED <<custody, txs>> /\ nextEscrowId' = nextEscrowId + 1 /\ initialized'
      BY <1>1 DEF create_escrow, queue, config
    <2>2. r \in EscrowRecord
      BY DEF EscrowRecord
    <2> HIDE DEF r
    <2>3. /\ DOMAIN escrows' = DOMAIN escrows \cup {nextEscrowId}
          /\ escrows' \in [DOMAIN escrows' -> EscrowRecord]
          /\ deposited' \in [DOMAIN escrows' -> Nat]
      BY <2>1, <2>2 DEF Put, EscrowsType, EscrowRecord
    <2>4. EscrowsType'
      BY <2>1, <2>3 DEF EscrowsType, EscrowRecord, IInv, QueueType
    <2>5. QED
      BY <1>1, <2>4, CreateLedger
  <1>2. ASSUME NEW id \in DOMAIN escrows, NEW a \in Amount, deposit(id, a)
        PROVE  LedgerInv'
    <2>1. /\ a \in Nat /\ UNCHANGED <<escrows, txs, nextEscrowId, initialized>>
          /\ deposited' = [deposited EXCEPT ![id] = @ + a]
      BY <1>2, EscrowAssumption DEF deposit, queue, config
    <2>2. custody' \in [Token -> Int]
      BY <1>2, <2>1, MoveType DEF deposit
    <2>3. EscrowsType'
      BY <2>1, <2>2 DEF EscrowsType, EscrowRecord
    <2>4. QED
      BY <1>2, <2>3, DepositLedger
  <1>3. ASSUME NEW id \in DOMAIN escrows, close_escrow(id)
        PROVE  LedgerInv'
    <2>1. /\ escrows' = [escrows EXCEPT ![id].active = FALSE]
          /\ UNCHANGED <<escrowBalance, custody, deposited, nextEscrowId, txs, initialized>>
          /\ initialized
      BY <1>3 DEF close_escrow, queue, config
    <2>2. /\ DOMAIN escrows' = DOMAIN escrows
          /\ \A e \in DOMAIN escrows : /\ escrows'[e] \in EscrowRecord
                                        /\ escrows'[e].token = escrows[e].token
                                        /\ escrows'[e].native = escrows[e].native
      BY <2>1 DEF EscrowsType, EscrowRecord
    <2>3. EscrowLedger'
      BY <2>1, <2>2, LedgerSame DEF Executed
    <2>4. escrows' \in [DOMAIN escrows' -> EscrowRecord]
      BY <2>1, <2>2
    <2>5. EscrowsType'
      BY <2>1, <2>2, <2>4 DEF EscrowsType
    <2>6. QED
      BY <2>3, <2>5
  <1>4. ASSUME NEW id \in DOMAIN txs, execute_transaction(id)
        PROVE  LedgerInv'
    <2>1. /\ UNCHANGED <<escrows, deposited, nextEscrowId, initialized>>
          /\ txs \in [DOMAIN txs -> Withdrawal] /\ txs[id].escrow \in DOMAIN escrows
      BY <1>4 DEF execute_transaction, config, EscrowsType, IInv, QueueType
    <2>2. DOMAIN txs' = DOMAIN txs /\ \A i \in DOMAIN txs : txs'[i].escrow = txs[i].escrow
      <3>1. txs' = [txs EXCEPT ![id].executed = TRUE, ![id].executedAt = now]
        BY <1>4 DEF execute_transaction
      <3>2. /\ DOMAIN txs' = DOMAIN txs /\ \A i \in DOMAIN txs \ {id} : txs'[i] = txs[i]
            /\ txs'[id].escrow = txs[id].escrow
        BY <2>1, <3>1 DEF Withdrawal
      <3>3. QED
        BY <3>2
    <2>3. custody' \in [Token -> Int]
      <3>1. -txs[id].amount \in Int
        BY <2>1 DEF Withdrawal
      <3>2. move_tokens(txs[id].escrow, -txs[id].amount)
        BY <1>4 DEF execute_transaction
      <3>3. QED
        BY <2>1, <3>1, <3>2, MoveType
    <2>4. EscrowsType'
      BY <2>1, <2>2, <2>3 DEF EscrowsType, EscrowRecord
    <2>5. QED
      BY <1>4, <2>4, ExecuteLedger
  <1>5. QED
    BY <1>1, <1>2, <1>3, <1>4

\* The ledger holds initially, and every step keeps it.
LEMMA InitLedger == Init => LedgerInv
  <1> SUFFICES ASSUME Init PROVE LedgerInv
    OBVIOUS
  <1> USE DEF Init
  <1>1. /\ DOMAIN escrows = {} /\ DOMAIN txs = {} /\ DOMAIN deposited = {}
        /\ escrows = EmptyMap /\ custody = [t \in Token |-> 0]
    BY EmptyMapDomain
  <1>2. EscrowsType
    BY <1>1 DEF EscrowsType, EmptyMap
  <1>3. ASSUME NEW t \in Token PROVE custody[t] = SumFunction(HeldIn(t))
    <2>1. DOMAIN HeldIn(t) = {}
      BY <1>1 DEF HeldIn, Backing
    <2>2. QED
      BY <1>1, <2>1, SumEmpty
  <1>4. EscrowLedger
    BY <1>1, <1>3, LedgerMaps DEF LedgerByMaps
  <1>5. QED
    BY <1>2, <1>4, InitIInv DEF LedgerInv

\* A step preserves the ledger.
LEMMA NextLedger == LedgerInv /\ [Next]_vars => LedgerInv'
  <1> SUFFICES ASSUME LedgerInv, [Next]_vars PROVE LedgerInv'
    OBVIOUS
  <1>1. IInv' /\ QueueStep
    BY NextIInv DEF LedgerInv
  <1>2. ASSUME UNCHANGED <<initialized, funds, txs>> PROVE LedgerInv'
    BY <1>1, <1>2, QueueOnlyLedger
  <1>3. CASE Configure
    <2>1. ASSUME NEW list, NEW m, NEW d, NEW g, NEW w, NEW r, initialize(list, m, d, g, w, r)
          PROVE  LedgerInv'
      <3>1. /\ UNCHANGED <<escrows, escrowBalance, custody, deposited, txs>>
            /\ escrows = EmptyMap /\ initialized'
        BY <2>1 DEF initialize, LedgerInv, EscrowsType
      <3>2. DOMAIN escrows = {} /\ Executed' = Executed
        BY <3>1, EmptyMapDomain DEF Executed
      <3>3. EscrowLedger'
        BY <1>1, <3>1, <3>2, LedgerSame
      <3>4. EscrowsType'
        BY <3>1, <3>2 DEF EscrowsType, LedgerInv, EscrowRecord
      <3>5. QED
        BY <1>1, <3>3, <3>4 DEF LedgerInv
    <2>2. CASE \/ \E s \in Address : add_signer(s)
               \/ \E s \in Address : remove_signer(s)
               \/ \E m \in 0..Cardinality(Address) : set_threshold(m)
               \/ \E d \in Delay, g \in Grace : set_timelock(d, g)
               \/ \E w \in Window, r \in RateMax : set_rate_limit(w, r)
               \/ \E flag \in BOOLEAN : set_paused(flag)
               \/ \E who \in RoleHolder, held \in BOOLEAN : SetRole(who, held)
      <3>1. UNCHANGED <<initialized, funds, txs>>
        BY <2>2 DEF add_signer, remove_signer, set_threshold, set_timelock, set_rate_limit,
                    set_paused, SetRole, config, queue
      <3>2. QED
        BY <1>2, <3>1
    <2>3. QED
      BY <1>3, <2>1, <2>2 DEF Configure
  <1>4. CASE Operate
    <2>1. CASE \/ \E s \in Address, id \in DOMAIN txs : approve_transaction(s, id)
               \/ \E s \in Address, id \in DOMAIN txs : revoke_approval(s, id)
               \/ \E who \in Address \cup {Keeper}, id \in DOMAIN txs : cancel_transaction(who, id)
      BY <1>1, <2>1, ChangeLedger
    <2>2. CASE \E who \in Address, id \in DOMAIN escrows, r \in Recipient, a \in Amount :
                  submit_transaction(who, id, r, a)
      BY <1>1, <2>2, SubmitLedger
    <2>3. CASE \/ \E t \in Token, native \in BOOLEAN : create_escrow(t, native)
               \/ \E id \in DOMAIN escrows, a \in Amount : deposit(id, a)
               \/ \E id \in DOMAIN escrows : close_escrow(id)
               \/ \E id \in DOMAIN txs : execute_transaction(id)
      BY <1>1, <2>3, FundsLedger
    <2>4. QED
      BY <1>4, <2>1, <2>2, <2>3 DEF Operate
  <1>5. CASE Tick \/ UNCHANGED vars
    <2>1. UNCHANGED <<initialized, funds, txs>>
      BY <1>5 DEF Tick, vars, config, queue
    <2>2. QED
      BY <1>2, <2>1
  <1>6. QED
    BY <1>3, <1>4, <1>5 DEF Next

\* In every reachable state each escrow holds its deposits less the withdrawals
\* executed from it, and the contract holds the tokens of its escrows: the debit
\* and the transfer of execute_transaction never part ways.
THEOREM LedgerAlwaysBalances == Spec => []EscrowLedger
  <1>1. LedgerInv => EscrowLedger
    BY DEF LedgerInv
  <1>2. QED
    BY <1>1, InitLedger, NextLedger, PTL DEF Spec

-----------------------------------------------------------------------------
\* The rate limit, and the rest of the types.

\* The times, and the executed withdrawals, from c on.
Since(c) == {t \in Nat : t >= c}
ExecutedSince(c) == {id \in Executed : txs[id].executedAt >= c}

\* Unless the window was lengthened, the stamps that prune_window has left
\* count the withdrawals executed since any moment of the current window.
StampsCount ==
    ~widened => \A c \in Nat : c >= Cutoff =>
                    Cardinality(ExecutedSince(c)) = Len(Kept(globalExec, Since(c)))

\* The inductive invariant of the rate limit.
RateInv == IInv /\ RestOfType /\ StampsCount

\* The window starts at a moment, and later on it starts later.
LEMMA CutoffType == IInv /\ RestOfType => Cutoff \in Nat
  BY DEF IInv, QueueType, RestOfType, Cutoff

\* A withdrawal becomes executed only in execute_transaction, and only there
\* or in initialize do the stamps change.
LEMMA OnlyExecuteExecutes ==
    ASSUME IInv, [Next]_vars, \A id \in DOMAIN txs : ~execute_transaction(id)
    PROVE  /\ Executed' = Executed
           /\ UNCHANGED <<globalExec, recipientExec>>
                \/ (Executed = {} /\ globalExec' = <<>> /\ UNCHANGED recipientExec)
  <1>1. CASE Configure \/ Tick \/ UNCHANGED vars
    <2>1. txs' = txs
      BY <1>1 DEF Configure, initialize, add_signer, remove_signer, set_threshold, set_timelock,
                  set_rate_limit, set_paused, SetRole, Tick, vars, queue
    <2>2. \/ UNCHANGED <<globalExec, recipientExec>>
          \/ (~initialized /\ globalExec' = <<>> /\ UNCHANGED recipientExec)
      BY <1>1 DEF Configure, initialize, add_signer, remove_signer, set_threshold, set_timelock,
                  set_rate_limit, set_paused, SetRole, Tick, vars, rate
    <2>3. ~initialized => Executed = {}
      BY EmptyMapDomain DEF IInv, FreshIds, Executed
    <2>4. QED
      BY <2>1, <2>2, <2>3 DEF Executed
  <1>2. CASE Operate
    <2>1. UNCHANGED <<globalExec, recipientExec>>
      BY <1>2 DEF Operate, create_escrow, deposit, submit_transaction, approve_transaction,
                  revoke_approval, cancel_transaction, close_escrow, rate
    <2>2. txs \in [DOMAIN txs -> Withdrawal]
      BY DEF IInv, QueueType
    <2>3. CASE \/ \E t \in Token, native \in BOOLEAN : create_escrow(t, native)
               \/ \E id \in DOMAIN escrows, a \in Amount : deposit(id, a)
               \/ \E id \in DOMAIN escrows : close_escrow(id)
      <3>1. txs' = txs
        BY <2>3 DEF create_escrow, deposit, close_escrow, queue
      <3>2. QED
        BY <2>1, <3>1 DEF Executed
    <2>4. ASSUME NEW who \in Address, NEW id \in DOMAIN escrows, NEW r \in Recipient,
                 NEW a \in Amount, submit_transaction(who, id, r, a)
          PROVE  Executed' = Executed
      <3> DEFINE tx == [escrow |-> id, recipient |-> r, amount |-> a,
                        submitter |-> who, approvers |-> {who}, queuedAt |-> now,
                        executed |-> FALSE, cancelled |-> FALSE, executedAt |-> 0]
      <3>1. ~tx.executed /\ txs' = Put(txs, nextTxId, tx)
        BY <2>4 DEF submit_transaction
      <3> HIDE DEF tx
      <3>2. /\ DOMAIN txs' = DOMAIN txs \cup {nextTxId} /\ txs'[nextTxId] = tx
            /\ nextTxId \notin DOMAIN txs /\ \A k \in DOMAIN txs : txs'[k] = txs[k]
        BY <3>1 DEF Put, IInv, FreshIds, QueueType
      <3>3. QED
        BY <3>1, <3>2 DEF Executed
    <2>5. ASSUME NEW id \in DOMAIN txs,
                 \/ \E s \in Address : approve_transaction(s, id) \/ revoke_approval(s, id)
                 \/ \E who \in Address \cup {Keeper} : cancel_transaction(who, id)
          PROVE  Executed' = Executed
      <3>1. \/ \E as : txs' = [txs EXCEPT ![id].approvers = as]
            \/ txs' = [txs EXCEPT ![id].cancelled = TRUE]
        BY <2>5 DEF approve_transaction, revoke_approval, cancel_transaction
      <3>2. ASSUME NEW as, txs' = [txs EXCEPT ![id].approvers = as]
            PROVE  DOMAIN txs' = DOMAIN txs /\ \A i \in DOMAIN txs : txs'[i].executed = txs[i].executed
        BY <2>2, <3>2 DEF Withdrawal
      <3>3. ASSUME txs' = [txs EXCEPT ![id].cancelled = TRUE]
            PROVE  DOMAIN txs' = DOMAIN txs /\ \A i \in DOMAIN txs : txs'[i].executed = txs[i].executed
        BY <2>2, <3>3 DEF Withdrawal
      <3>4. QED
        BY <3>1, <3>2, <3>3 DEF Executed
    <2>6. QED
      BY <1>2, <2>1, <2>3, <2>4, <2>5 DEF Operate
  <1>3. QED
    BY <1>1, <1>2 DEF Next

\* What execute_transaction does to the records and to the stamps.
LEMMA ExecuteStamps ==
    ASSUME RateInv, NEW id \in DOMAIN txs, execute_transaction(id)
    PROVE  /\ Executed' = Executed \cup {id} /\ id \notin Executed
           /\ DOMAIN txs' = DOMAIN txs /\ txs'[id].executedAt = now
           /\ txs'[id].recipient = txs[id].recipient
           /\ \A i \in DOMAIN txs \ {id} : txs'[i] = txs[i]
           /\ globalExec' = Kept(Append(globalExec, now), Since(Cutoff))
           /\ Len(Kept(globalExec, Since(Cutoff))) < rateMax
  <1>1. txs \in [DOMAIN txs -> Withdrawal]
    BY DEF RateInv, IInv, QueueType
  <1>2. /\ is_open(id)
        /\ txs' = [txs EXCEPT ![id].executed = TRUE, ![id].executedAt = now]
        /\ globalExec' = Kept(Append(globalExec, now), Since(Cutoff))
        /\ Len(Kept(globalExec, Since(Cutoff))) < rateMax
    BY DEF execute_transaction, prune_window, InWindow, Since, check_rate_limits, count_in_window
  <1>3. /\ DOMAIN txs' = DOMAIN txs /\ txs'[id].executed /\ txs'[id].executedAt = now
        /\ txs'[id].recipient = txs[id].recipient
        /\ \A i \in DOMAIN txs \ {id} : txs'[i] = txs[i]
    BY <1>1, <1>2 DEF Withdrawal
  <1>4. Executed' = Executed \cup {id} /\ id \notin Executed
    BY <1>2, <1>3 DEF Executed, is_open
  <1>5. QED
    BY <1>2, <1>3, <1>4

\* A step that executes nothing keeps the count, since the window only shrinks.
LEMMA StampsSame ==
    ASSUME RateInv, QueueStep, Executed' = Executed,
           globalExec' = globalExec \/ (Executed = {} /\ globalExec' = <<>>),
           ~widened' => ~widened /\ (Cutoff' >= Cutoff \/ (Executed = {} /\ globalExec' = <<>>)),
           Cutoff' \in Nat
    PROVE  StampsCount'
  <1> SUFFICES ASSUME ~widened', NEW c \in Nat, c >= Cutoff'
               PROVE  Cardinality(ExecutedSince(c)') = Len(Kept(globalExec', Since(c)))
    BY DEF StampsCount, Since
  <1>1. ExecutedSince(c)' = ExecutedSince(c)
    <2>1. \A i \in Executed : txs'[i] = txs[i]
      BY DEF QueueStep, Executed, is_open
    <2>2. QED
      BY <2>1 DEF ExecutedSince
  <1>2. CASE Executed = {} /\ globalExec' = <<>>
    <2>1. ExecutedSince(c)' = {}
      BY <1>1, <1>2 DEF ExecutedSince
    <2>2. Kept(globalExec', Since(c)) = <<>>
      BY <1>2, KeptEmpty
    <2>3. QED
      BY <2>1, <2>2, FS_EmptySet
  <1>3. CASE globalExec' = globalExec /\ Cutoff' >= Cutoff
    <2>1. c >= Cutoff
      BY <1>3, CutoffType DEF RateInv
    <2>2. QED
      BY <1>1, <1>3, <2>1 DEF RateInv, StampsCount
  <1>4. QED
    BY <1>2, <1>3

\* Executing a withdrawal adds one stamp and one executed withdrawal.
LEMMA StampsExecute ==
    ASSUME RateInv, NEW id \in DOMAIN txs, execute_transaction(id)
    PROVE  StampsCount'
  <1>1. UNCHANGED <<widened, window, now>> /\ Cutoff' = Cutoff
    BY DEF execute_transaction, config, limits, Cutoff
  <1> SUFFICES ASSUME ~widened, NEW c \in Nat, c >= Cutoff
               PROVE  Cardinality(ExecutedSince(c)') = Len(Kept(globalExec', Since(c)))
    BY <1>1 DEF StampsCount, Since
  <1>2. globalExec \in Seq(Nat) /\ now \in Nat /\ Cutoff \in Nat
    BY CutoffType DEF RateInv, IInv, QueueType, RestOfType
  <1> DEFINE k == Kept(globalExec, Since(c))
  <1>3. Append(globalExec, now) \in Seq(Nat) /\ Since(c) \subseteq Since(Cutoff)
    BY <1>2 DEF Since
  <1>4. Kept(globalExec', Since(c)) = Kept(Append(globalExec, now), Since(c))
    <2>1. globalExec' = Kept(Append(globalExec, now), Since(Cutoff))
      BY ExecuteStamps
    <2>2. Kept(Kept(Append(globalExec, now), Since(Cutoff)), Since(c))
            = Kept(Append(globalExec, now), Since(c))
      BY <1>3, KeptTwice
    <2>3. QED
      BY <2>1, <2>2
  <1>5. Kept(globalExec', Since(c)) = IF now \in Since(c) THEN Append(k, now) ELSE k
    BY <1>2, <1>4, KeptAppend
  <1>6. k \in Seq(Nat)
    BY <1>2, KeptType
  <1>7. Cardinality(ExecutedSince(c)) = Len(k)
    BY DEF RateInv, StampsCount
  <1>8. IsFiniteSet(ExecutedSince(c)) /\ id \notin ExecutedSince(c)
    <2>1. ExecutedSince(c) \subseteq DOMAIN txs /\ IsFiniteSet(DOMAIN txs)
      BY FinitelyMany DEF ExecutedSince, Executed, RateInv
    <2>2. QED
      BY <2>1, FS_Subset, ExecuteStamps DEF ExecutedSince
  <1>9. ExecutedSince(c)' = IF now \in Since(c) THEN ExecutedSince(c) \cup {id} ELSE ExecutedSince(c)
    <2>1. \A i \in Executed : txs'[i] = txs[i]
      BY ExecuteStamps DEF Executed
    <2>2. Executed' = Executed \cup {id} /\ txs'[id].executedAt = now
      BY ExecuteStamps
    <2>3. now \in Since(c) <=> now >= c
      BY <1>2 DEF Since
    <2>4. QED
      BY <2>1, <2>2, <2>3 DEF ExecutedSince
  <1> HIDE DEF k
  <1>10. CASE now \in Since(c)
    <2>1. Cardinality(ExecutedSince(c) \cup {id}) = Cardinality(ExecutedSince(c)) + 1
      BY <1>8, FS_AddElement
    <2>2. Len(Append(k, now)) = Len(k) + 1
      BY <1>2, <1>6, AppendProperties
    <2>3. QED
      BY <1>5, <1>7, <1>9, <1>10, <2>1, <2>2
  <1>11. CASE now \notin Since(c)
    BY <1>5, <1>7, <1>9, <1>11
  <1>12. QED
    BY <1>10, <1>11

\* Every call keeps the types of the limits, the roles and the stamps.
LEMMA NextRest == RateInv /\ [Next]_vars => RestOfType'
  <1> SUFFICES ASSUME RateInv, [Next]_vars PROVE RestOfType'
    OBVIOUS
  <1> USE DEF RateInv, RestOfType
  <1>1. CASE \E id \in DOMAIN txs : execute_transaction(id)
    <2>1. PICK id \in DOMAIN txs : execute_transaction(id)
      BY <1>1
    <2>2. UNCHANGED <<paused, widened, roleAdmins, timelock, grace, window, rateMax>>
      BY <2>1 DEF execute_transaction, config, limits
    <2>3. now \in Nat /\ txs[id].recipient \in Recipient
      BY DEF IInv, QueueType, Withdrawal
    <2> DEFINE who == txs[id].recipient
               old == GetOr(recipientExec, who, <<>>)
               new == Kept(Append(old, now), Since(Cutoff))
    <2>4. globalExec' \in Seq(Nat)
      <3>1. globalExec' = Kept(Append(globalExec, now), Since(Cutoff))
        BY <2>1, ExecuteStamps
      <3>2. Append(globalExec, now) \in Seq(Nat)
        BY <2>3
      <3>3. QED
        BY <3>1, <3>2, KeptType
    <2>5. old \in Seq(Nat)
      BY DEF GetOr
    <2>6. new \in Seq(Nat)
      <3> HIDE DEF old
      <3>1. Append(old, now) \in Seq(Nat)
        BY <2>3, <2>5
      <3>2. QED
        BY <3>1, KeptType
    <2>7. recipientExec' = Put(recipientExec, who, new)
      BY <2>1 DEF execute_transaction, prune_window, InWindow, Since
    <2> HIDE DEF new, who
    <2>8. DOMAIN recipientExec' \subseteq Recipient
          /\ recipientExec' \in [DOMAIN recipientExec' -> Seq(Nat)]
      BY <2>3, <2>6, <2>7 DEF Put, who
    <2>9. QED
      BY <2>2, <2>4, <2>8
  <1>2. CASE \A id \in DOMAIN txs : ~execute_transaction(id)
    <2>1. /\ globalExec' \in Seq(Nat) /\ UNCHANGED recipientExec
      <3>1. \/ UNCHANGED <<globalExec, recipientExec>>
            \/ globalExec' = <<>> /\ UNCHANGED recipientExec
        BY <1>2, OnlyExecuteExecutes
      <3>2. CASE globalExec' = globalExec
        BY <3>1, <3>2
      <3>3. CASE globalExec' = <<>>
        BY <3>1, <3>3
      <3>4. QED
        BY <3>1, <3>2, <3>3
    <2>2. /\ paused' \in BOOLEAN /\ widened' \in BOOLEAN /\ roleAdmins' \in SUBSET Address
          /\ timelock' \in Nat /\ grace' \in Nat /\ window' \in Nat /\ rateMax' \in Nat
      <3>1. CASE Operate \/ Tick \/ UNCHANGED vars
        <4>1. UNCHANGED <<paused, widened, roleAdmins, timelock, grace, window, rateMax>>
          BY <1>2, <3>1 DEF Operate, Tick, vars, create_escrow, deposit, submit_transaction,
             approve_transaction, revoke_approval, cancel_transaction, close_escrow, config, limits
        <4>2. QED
          BY <4>1
      <3>2. CASE Configure
        BY <3>2, EscrowAssumption DEF Configure, initialize, add_signer, remove_signer, set_threshold,
           set_timelock, set_rate_limit, set_paused, SetRole, config, limits
      <3>3. QED
        BY <3>1, <3>2 DEF Next
    <2>3. QED
      BY <2>1, <2>2
  <1>3. QED
    BY <1>1, <1>2

\* Time passes and the window is not lengthened: it starts no earlier.
LEMMA StartsLater ==
    ASSUME NEW n \in Nat, NEW m \in Nat, NEW w \in Nat, NEW v \in Nat, m >= n, v <= w
    PROVE  (IF m >= v THEN m - v ELSE 0) >= (IF n >= w THEN n - w ELSE 0)
  OBVIOUS

\* The same of the window's start in the contract.
LEMMA CutoffAdvances ==
    ASSUME now \in Nat, window \in Nat, now' \in Nat, window' \in Nat,
           now' >= now, window' <= window
    PROVE  Cutoff' >= Cutoff
  <1>1. Cutoff = IF now >= window THEN now - window ELSE 0
    BY DEF Cutoff
  <1>2. Cutoff' = IF now' >= window' THEN now' - window' ELSE 0
    BY DEF Cutoff
  <1>3. QED
    BY <1>1, <1>2, StartsLater

\* The stamps keep counting.
LEMMA NextStamps == RateInv /\ [Next]_vars => StampsCount'
  <1> SUFFICES ASSUME RateInv, [Next]_vars PROVE StampsCount'
    OBVIOUS
  <1>1. CASE \E id \in DOMAIN txs : execute_transaction(id)
    BY <1>1, StampsExecute
  <1>2. CASE \A id \in DOMAIN txs : ~execute_transaction(id)
    <2>1. QueueStep /\ IInv' /\ RestOfType'
      BY NextIInv, NextRest DEF RateInv
    <2>2. /\ Executed' = Executed
          /\ globalExec' = globalExec \/ (Executed = {} /\ globalExec' = <<>>)
      BY <1>2, OnlyExecuteExecutes DEF RateInv
    <2>3. Cutoff' \in Nat
      BY <2>1 DEF IInv, QueueType, RestOfType, Cutoff
    <2>4. ~widened' => ~widened /\ (Cutoff' >= Cutoff \/ (Executed = {} /\ globalExec' = <<>>))
      <3> SUFFICES ASSUME ~widened'
                   PROVE  ~widened /\ (Cutoff' >= Cutoff \/ (Executed = {} /\ globalExec' = <<>>))
        OBVIOUS
      <3>1. now \in Nat /\ window \in Nat /\ now' \in Nat /\ window' \in Nat
        BY <2>1 DEF RateInv, IInv, QueueType, RestOfType
      <3>3. CASE \E list \in SUBSET Address, m \in 0..Cardinality(Address),
                    d \in Delay, g \in Grace, w \in Window, r \in RateMax :
                    initialize(list, m, d, g, w, r)
        <4>1. ~initialized /\ globalExec' = <<>> /\ widened' = widened
          BY <3>3 DEF initialize
        <4>2. Executed = {}
          BY <4>1, EmptyMapDomain DEF RateInv, IInv, FreshIds, Executed
        <4>3. QED
          BY <4>1, <4>2
      <3>4. CASE \E w \in Window, r \in RateMax : set_rate_limit(w, r)
        <4>1. PICK w \in Window : /\ window' = w /\ now' = now
                                  /\ widened' = (widened \/ w > window)
          BY <3>4 DEF set_rate_limit
        <4>2. ~widened /\ ~(w > window)
          BY <4>1
        <4>3. now' >= now /\ window' <= window
          BY <3>1, <4>1, <4>2
        <4>4. Cutoff' >= Cutoff
          BY <3>1, <4>3, CutoffAdvances
        <4>5. QED
          BY <4>2, <4>4
      <3>5. CASE /\ UNCHANGED <<widened, window>>
                 /\ now' = now \/ now' = now + 1
        <4>1. now' >= now /\ window' <= window /\ ~widened
          BY <3>1, <3>5
        <4>2. Cutoff' >= Cutoff
          BY <3>1, <4>1, CutoffAdvances
        <4>3. QED
          BY <4>1, <4>2
      <3>6. QED
        BY <1>2, <3>3, <3>4, <3>5
           DEF Next, Configure, Operate, add_signer, remove_signer, set_threshold, set_timelock,
               set_paused, SetRole, Tick, vars, create_escrow, deposit, submit_transaction,
               approve_transaction, revoke_approval, cancel_transaction, close_escrow, config, limits
    <2>5. QED
      BY <2>1, <2>2, <2>3, <2>4, StampsSame
  <1>3. QED
    BY <1>1, <1>2

\* The invariant of the rate limit holds initially.
LEMMA InitRate == Init => RateInv
  <1> SUFFICES ASSUME Init PROVE RateInv
    OBVIOUS
  <1> USE DEF Init
  <1>1. RestOfType
    <2>1. DOMAIN recipientExec = {} /\ recipientExec \in [{} -> Seq(Nat)]
      BY EmptyMapDomain DEF EmptyMap
    <2>2. globalExec \in Seq(Nat)
      OBVIOUS
    <2>3. QED
      BY <2>1, <2>2 DEF RestOfType
  <1>2. ASSUME NEW c PROVE Cardinality(ExecutedSince(c)) = Len(Kept(globalExec, Since(c)))
    <2>1. ExecutedSince(c) = {}
      BY EmptyMapDomain DEF ExecutedSince, Executed
    <2>2. Kept(globalExec, Since(c)) = <<>>
      BY KeptEmpty
    <2>3. QED
      BY <2>1, <2>2, FS_EmptySet
  <1>3. StampsCount
    BY <1>2 DEF StampsCount
  <1>4. QED
    BY <1>1, <1>3, InitIInv DEF RateInv

\* Every step keeps it.
LEMMA NextRate == RateInv /\ [Next]_vars => RateInv'
  BY NextIInv, NextRest, NextStamps DEF RateInv

\* Executing a withdrawal leaves at most rateMax of them in the window.
LEMMA WithinLimit ==
    RateInv /\ [Next]_vars =>
       (Executed' # Executed /\ ~widened => Cardinality(ExecutedInWindow(txs', Recipient)) <= rateMax)
  <1> SUFFICES ASSUME RateInv, [Next]_vars, Executed' # Executed, ~widened
               PROVE  Cardinality(ExecutedInWindow(txs', Recipient)) <= rateMax
    OBVIOUS
  <1>1. PICK id \in DOMAIN txs : execute_transaction(id)
    BY OnlyExecuteExecutes DEF RateInv
  <1> DEFINE E == ExecutedSince(Cutoff)
             W == ExecutedInWindow(txs', Recipient)
  <1>2. Cutoff \in Nat /\ rateMax \in Nat /\ globalExec \in Seq(Nat)
    BY CutoffType DEF RateInv, RestOfType
  <1>3. Cardinality(E) = Len(Kept(globalExec, Since(Cutoff)))
    BY <1>2 DEF RateInv, StampsCount
  <1>4. Len(Kept(globalExec, Since(Cutoff))) < rateMax
    BY <1>1, ExecuteStamps
  <1>5. IsFiniteSet(E) /\ id \notin E
    <2>1. E \subseteq DOMAIN txs /\ IsFiniteSet(DOMAIN txs)
      BY FinitelyMany DEF ExecutedSince, Executed, RateInv
    <2>2. QED
      BY <1>1, <2>1, FS_Subset, ExecuteStamps DEF ExecutedSince
  <1>6. W \subseteq E \cup {id}
    BY <1>1, ExecuteStamps DEF ExecutedInWindow, ExecutedSince, Executed
  <1> HIDE DEF E, W
  <1>7. Cardinality(E \cup {id}) = Cardinality(E) + 1 /\ IsFiniteSet(E \cup {id})
    BY <1>5, FS_AddElement
  <1>8. Cardinality(W) <= Cardinality(E \cup {id})
    BY <1>6, <1>7, FS_Subset
  <1>9. Cardinality(E) \in Nat /\ Cardinality(W) \in Nat
    BY <1>5, <1>6, <1>7, FS_CardinalityType, FS_Subset
  <1>10. QED
    BY <1>2, <1>3, <1>4, <1>7, <1>8, <1>9 DEF W

\* Unless the window was lengthened, execute_transaction never lets the
\* withdrawals of a window exceed the maximum, although prune_window forgets
\* stamps and the limits may be changed at any time.
THEOREM RateLimitAlwaysHolds == Spec => RateLimitHolds
  BY WithinLimit, InitRate, NextRate, PTL DEF Spec, RateLimitHolds

\* Every variable of the contract keeps its type; in particular neither the
\* balances nor the tokens in custody become negative.
THEOREM TypeCorrect == Spec => []TypeOK
  <1>1. LedgerInv /\ RateInv => TypeOK
    <2> SUFFICES ASSUME LedgerInv, RateInv PROVE TypeOK
      OBVIOUS
    <2>1. \A t \in Token : custody[t] \in Nat
      <3>1. \A t \in Token : custody[t] = SumFunction(HeldIn(t)) /\ NatMap(HeldIn(t))
        BY LedgerMaps, LedgerMapTypes DEF LedgerInv, LedgerByMaps
      <3>2. QED
        BY <3>1, SumNat
    <2>2. custody \in [Token -> Nat]
      BY <2>1 DEF LedgerInv, EscrowsType
    <2>3. txs \in [DOMAIN txs -> EscrowTransaction]
      <3>1. \A id \in DOMAIN txs : txs[id] \in EscrowTransaction
        BY DEF LedgerInv, IInv, QueueType, EscrowsType, Withdrawal, EscrowTransaction
      <3>2. QED
        BY <3>1 DEF LedgerInv, IInv, QueueType
    <2>4. QED
      BY <2>2, <2>3 DEF LedgerInv, RateInv, IInv, QueueType, BalancesCovered, EscrowsType,
                        RestOfType, TypeOK
  <1>2. QED
    BY <1>1, InitLedger, NextLedger, InitRate, NextRate, PTL DEF Spec
=============================================================================
