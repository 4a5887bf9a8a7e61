------------------------- MODULE MultiSigWalletProofs -------------------------
(***************************************************************************)
(* Proofs about MultiSigWallet, for any set of addresses, any amounts and  *)
(* limits, and any number of payments.                                     *)
(***************************************************************************)
EXTENDS MultiSigWallet, StorageTheorems

\* Before initialize the wallet has no signers and no payments; this is what
\* makes RequirementReachable and NonceOrder inductive through initialize.
Blank ==
    ~initialized => /\ signers = {}
                    /\ DOMAIN transactions = {}
                    /\ history = <<>>

\* submit_transaction takes the identifier and the nonce from two counters.
Counters ==
    initialized => nextTxId = nextNonce /\ 1 <= nextTxId /\ 1 <= nextExecutable

\* The inductive invariant.
IInv == TypeOK /\ Blank /\ Counters /\ RequirementReachable /\ NonceOrder

\* The signers of a wallet form a finite set, and adding or removing one
\* changes the count by one.
LEMMA SignerCounts ==
    ASSUME NEW S \in SUBSET Address
    PROVE  /\ IsFiniteSet(S) /\ Cardinality(S) \in Nat
           /\ Cardinality(S) = 0 <=> S = {}
           /\ \A a \in Address \ S : Cardinality(S \cup {a}) = Cardinality(S) + 1
           /\ \A a \in S : Cardinality(S \ {a}) = Cardinality(S) - 1
  <1>1. IsFiniteSet(S)
    BY FS_Subset, WalletAssumption
  <1>2. QED
    BY <1>1, FS_CardinalityType, FS_EmptySet, FS_AddElement, FS_RemoveElement

\* The calendar day is a natural number.
LEMMA DayType == now \in Nat => Day \in Nat
  BY WalletAssumption DEF Day

\* A newly deployed wallet satisfies the invariant.
LEMMA InitIInv == Init => IInv
  <1> SUFFICES ASSUME Init PROVE IInv
    OBVIOUS
  <1> USE DEF Init, EmptyMap
  <1>1. DOMAIN transactions = {} /\ DOMAIN confirmations = {} /\ DOMAIN dailySpent = {}
    OBVIOUS
  <1>2. TypeOK
    <2>1. transactions \in [DOMAIN transactions -> TransactionRecord]
      BY <1>1
    <2>2. confirmations \in [DOMAIN transactions -> SUBSET Address]
      BY <1>1
    <2>3. dailySpent \in [DOMAIN dailySpent -> Nat]
      BY <1>1
    <2>4. history \in Seq(Nat)
      OBVIOUS
    <2>5. balance \in [Token -> Nat]
      OBVIOUS
    <2>6. QED
      BY <1>1, <2>1, <2>2, <2>3, <2>4, <2>5 DEF TypeOK
  <1>3. Blank /\ Counters /\ RequirementReachable /\ NonceOrder
    BY <1>1 DEF Blank, Counters, RequirementReachable, NonceOrder
  <1>4. QED
    BY <1>2, <1>3 DEF IInv

\* initialize establishes what RequirementReachable and NonceOrder say of an
\* initialized wallet.
LEMMA InitializeIInv ==
    ASSUME IInv, NEW list \in SUBSET Address, NEW req \in Nat, NEW limit \in Limit,
           initialize(list, req, limit)
    PROVE  IInv'
  <1> USE DEF initialize, money
  <1>1. TypeOK'
    <2>1. limit \in Nat /\ Cardinality(list) \in Nat /\ history' \in Seq(Nat)
      BY WalletAssumption, SignerCounts
    <2>2. QED
      BY <2>1 DEF IInv, TypeOK
  <1>2. Blank' /\ Counters'
    BY DEF Blank, Counters
  <1>3. RequirementReachable'
    BY SignerCounts DEF RequirementReachable, validate_signer_set
  <1>4. NonceOrder'
    BY DEF IInv, Blank, NonceOrder, Executed
  <1>5. QED
    BY <1>1, <1>2, <1>3, <1>4 DEF IInv

\* deposit only raises balances.
LEMMA DepositIInv ==
    ASSUME IInv, NEW t \in Token, NEW a \in Amount, deposit(t, a)
    PROVE  IInv'
  <1> USE DEF deposit, governance, queue
  <1>1. TypeOK'
    <2>1. a \in Nat
      BY WalletAssumption
    <2>2. balance' \in [Token -> Nat]
      BY <2>1 DEF IInv, TypeOK
    <2>3. QED
      BY <2>2 DEF IInv, TypeOK
  <1>2. QED
    BY <1>1 DEF IInv, Blank, Counters, RequirementReachable, NonceOrder, Executed

\* submit_transaction extends the queue by one payment whose identifier and
\* nonce are the next ones.
LEMMA SubmitIInv ==
    ASSUME IInv, NEW s \in Address, NEW t \in Token, NEW r \in Recipient,
           NEW a \in Amount, submit_transaction(s, t, r, a)
    PROVE  IInv'
  <1> USE DEF submit_transaction, governance, money, Put
  <1>1. initialized
    BY DEF IInv, Blank
  <1>2. a \in Nat \ {0}
    BY WalletAssumption
  <1>3. TypeOK'
    <2>1. transactions' \in [DOMAIN transactions' -> TransactionRecord]
      BY <1>2 DEF IInv, TypeOK, TransactionRecord
    <2>2. /\ DOMAIN transactions' \subseteq Nat
          /\ confirmations' \in [DOMAIN transactions' -> SUBSET Address]
      BY DEF IInv, TypeOK
    <2>3. nextTxId' \in Nat /\ nextNonce' \in Nat
      BY DEF IInv, TypeOK
    <2>4. UNCHANGED <<governance, money, nextExecutable, history, now>>
      OBVIOUS
    <2> HIDE DEF submit_transaction
    <2>5. QED
      BY <2>1, <2>2, <2>3, <2>4 DEF IInv, TypeOK
  <1>4. Blank' /\ Counters' /\ RequirementReachable'
    BY <1>1 DEF IInv, TypeOK, Blank, Counters, RequirementReachable
  <1>5. NonceOrder'
    BY <1>1 DEF IInv, TypeOK, Counters, NonceOrder, Executed
  <1>6. QED
    BY <1>3, <1>4, <1>5 DEF IInv

\* confirm_transaction and revoke_confirmation change one list of
\* confirmations.
LEMMA ConfirmIInv ==
    ASSUME IInv, NEW s \in Address, NEW id \in DOMAIN transactions,
           confirm_transaction(s, id) \/ revoke_confirmation(s, id)
    PROVE  IInv'
  <1> USE DEF confirm_transaction, revoke_confirmation, governance, money
  <1>1. confirmations' \in [DOMAIN transactions -> SUBSET Address]
    BY DEF IInv, TypeOK
  <1>2. TypeOK'
    BY <1>1 DEF IInv, TypeOK
  <1>3. QED
    BY <1>2 DEF IInv, Blank, Counters, RequirementReachable, NonceOrder, Executed

\* execute_transaction marks the payment whose nonce is next, and nothing
\* else.
LEMMA ExecuteIInv ==
    ASSUME IInv, NEW s \in Address, NEW id \in DOMAIN transactions,
           execute_transaction(s, id)
    PROVE  IInv'
  <1> DEFINE tx == transactions[id]
  <1> USE DEF execute_transaction, governance
  <1>1. initialized /\ id \in Nat /\ tx \in TransactionRecord
    BY DEF IInv, Blank, TypeOK
  <1>2. id = nextExecutable
    BY <1>1 DEF IInv, NonceOrder, is_next
  <1>3. TypeOK'
    <2>1. transactions' \in [DOMAIN transactions -> TransactionRecord]
      BY DEF IInv, TypeOK, TransactionRecord
    <2>2. balance' \in [Token -> Nat]
      BY <1>1 DEF IInv, TypeOK, transfer_token, TransactionRecord
    <2>3. <<tx.token, Day>> \in Token \X Nat
      BY <1>1, DayType DEF IInv, TypeOK, TransactionRecord
    <2>4. /\ DOMAIN dailySpent' \subseteq Token \X Nat
          /\ dailySpent' \in [DOMAIN dailySpent' -> Nat]
      <3>1. CASE tx.recipient \in whitelist
        BY <3>1 DEF IInv, TypeOK, apply_daily_limit
      <3>2. CASE tx.recipient \notin whitelist
        <4> DEFINE key == <<tx.token, Day>>
                   newSpent == GetOr(dailySpent, key, 0) + tx.amount
        <4>1. newSpent \in Nat
          <5>1. tx.amount \in Nat
            BY <1>1 DEF TransactionRecord
          <5>2. dailySpent \in [DOMAIN dailySpent -> Nat]
            BY DEF IInv, TypeOK
          <5>3. GetOr(dailySpent, key, 0) \in Nat
            <6> HIDE DEF key
            <6>1. QED
              BY <5>2 DEF GetOr
          <5> HIDE DEF key
          <5>4. QED
            BY <5>1, <5>3
        <4>2. dailySpent' = Put(dailySpent, key, newSpent)
          BY <3>2 DEF apply_daily_limit
        <4> HIDE DEF key, newSpent
        <4>3. QED
          BY <2>3, <4>1, <4>2 DEF IInv, TypeOK, Put, key
      <3>3. QED
        BY <3>1, <3>2
    <2>5. history' \in Seq(Nat) /\ exempt' \in SUBSET Nat /\ nextExecutable' \in Nat
      BY <1>1 DEF IInv, TypeOK
    <2>6. DOMAIN transactions' = DOMAIN transactions
      BY DEF IInv, TypeOK
    <2>7. UNCHANGED <<governance, nextTxId, nextNonce, confirmations, now>>
      OBVIOUS
    <2> HIDE DEF execute_transaction
    <2>8. QED
      BY <2>1, <2>2, <2>4, <2>5, <2>6, <2>7 DEF IInv, TypeOK
  <1>4. Blank' /\ Counters' /\ RequirementReachable'
    BY <1>1 DEF IInv, TypeOK, Blank, Counters, RequirementReachable
  <1>5. NonceOrder'
    BY <1>1, <1>2 DEF IInv, TypeOK, Counters, NonceOrder, Executed
  <1>6. QED
    BY <1>3, <1>4, <1>5 DEF IInv

\* Membership and configuration changes keep the requirement within reach.
LEMMA GovernanceIInv ==
    ASSUME IInv,
           \/ \E a \in Address : add_signer(a) \/ remove_signer(a)
           \/ \E req \in Nat : change_requirement(req)
           \/ \E limit \in Limit : set_daily_limit(limit)
           \/ \E r \in Recipient, allowed \in BOOLEAN : set_whitelist(r, allowed)
    PROVE  IInv'
  <1> USE DEF queue, money
  <1>1. ASSUME NEW a \in Address, add_signer(a) \/ remove_signer(a)
        PROVE  IInv'
    <2> USE <1>1 DEF add_signer, remove_signer
    <2>1. signers' \in SUBSET Address /\ Cardinality(signers') \in Nat
      BY SignerCounts DEF IInv, TypeOK
    <2>2. TypeOK'
      BY <2>1 DEF IInv, TypeOK
    <2>3. CASE add_signer(a)
      <3>1. Cardinality(signers') = Cardinality(signers) + 1 /\ Cardinality(signers) \in Nat
        BY <2>3, SignerCounts DEF IInv, TypeOK
      <3>2. RequirementReachable'
        BY <2>3, <3>1, WalletAssumption DEF IInv, TypeOK, RequirementReachable
      <3>3. QED
        BY <2>2, <3>2 DEF IInv, Blank, Counters, NonceOrder, Executed
    <2>4. CASE remove_signer(a)
      <3>1. Cardinality(signers') = Cardinality(signers) - 1 /\ Cardinality(signers) \in Nat
        BY <2>4, SignerCounts DEF IInv, TypeOK
      <3>2. RequirementReachable'
        BY <2>4, <3>1, WalletAssumption
           DEF IInv, TypeOK, RequirementReachable, enough_signers_left
      <3>3. QED
        BY <2>2, <3>2 DEF IInv, Blank, Counters, NonceOrder, Executed
    <2>5. QED
      BY <1>1, <2>3, <2>4
  <1>2. ASSUME NEW req \in Nat, change_requirement(req)
        PROVE  IInv'
    <2> USE <1>2 DEF change_requirement
    <2>1. TypeOK'
      BY DEF IInv, TypeOK
    <2>2. Blank' /\ Counters' /\ RequirementReachable'
      BY DEF IInv, TypeOK, Blank, Counters, RequirementReachable
    <2>3. NonceOrder'
      BY DEF IInv, NonceOrder, Executed
    <2>4. QED
      BY <2>1, <2>2, <2>3 DEF IInv
  <1>3. ASSUME NEW limit \in Limit, set_daily_limit(limit)
        PROVE  IInv'
    <2>1. limit \in Nat
      BY <1>3, WalletAssumption DEF set_daily_limit
    <2>2. TypeOK'
      BY <1>3, <2>1 DEF set_daily_limit, IInv, TypeOK
    <2>3. Blank' /\ Counters' /\ RequirementReachable'
      BY <1>3 DEF set_daily_limit, IInv, Blank, Counters, RequirementReachable
    <2>4. NonceOrder'
      BY <1>3 DEF set_daily_limit, IInv, NonceOrder, Executed
    <2>5. QED
      BY <2>2, <2>3, <2>4 DEF IInv
  <1>4. ASSUME NEW r \in Recipient, NEW allowed \in BOOLEAN, set_whitelist(r, allowed)
        PROVE  IInv'
    <2> USE <1>4 DEF set_whitelist
    <2>1. TypeOK'
      BY DEF IInv, TypeOK
    <2>2. Blank' /\ Counters' /\ RequirementReachable'
      BY DEF IInv, Blank, Counters, RequirementReachable
    <2>3. NonceOrder'
      BY DEF IInv, NonceOrder, Executed
    <2>4. QED
      BY <2>1, <2>2, <2>3 DEF IInv
  <1>5. QED
    BY <1>1, <1>2, <1>3, <1>4

\* Every step of the wallet, and a stutter, preserves the invariant.
LEMMA NextIInv == IInv /\ [Next]_vars => IInv'
  <1> SUFFICES ASSUME IInv, [Next]_vars PROVE IInv'
    OBVIOUS
  <1>1. Cardinality(Address) \in Nat
    BY WalletAssumption, FS_CardinalityType
  <1>2. CASE Tick
    <2>1. UNCHANGED <<governance, queue, money>> /\ (now \in Nat => now' \in Nat)
      BY <1>2 DEF Tick
    <2>2. TypeOK'
      BY <2>1 DEF governance, queue, money, IInv, TypeOK
    <2>3. Blank' /\ Counters' /\ RequirementReachable'
      BY <2>1 DEF governance, queue, IInv, Blank, Counters, RequirementReachable
    <2>4. NonceOrder'
      BY <2>1 DEF governance, queue, IInv, NonceOrder, Executed
    <2>5. QED
      BY <2>2, <2>3, <2>4 DEF IInv
  <1>3. CASE UNCHANGED vars
    <2>1. TypeOK'
      BY <1>3 DEF vars, governance, queue, money, IInv, TypeOK
    <2>2. Blank' /\ Counters' /\ RequirementReachable'
      BY <1>3 DEF vars, governance, queue, IInv, Blank, Counters, RequirementReachable
    <2>3. NonceOrder'
      BY <1>3 DEF vars, governance, queue, IInv, NonceOrder, Executed
    <2>4. QED
      BY <2>1, <2>2, <2>3 DEF IInv
  <1>4. QED
    BY <1>1, <1>2, <1>3, InitializeIInv, DepositIInv, SubmitIInv, ConfirmIInv,
       ExecuteIInv, GovernanceIInv DEF Next

\* IInv is an invariant of the wallet.
LEMMA WalletInvariant == Spec => []IInv
  BY InitIInv, NextIInv, PTL DEF Spec

\* Every variable keeps its type and no token balance is ever overdrawn.
THEOREM TypeCorrect == Spec => []TypeOK
  BY WalletInvariant, PTL DEF IInv

\* However the admin changes signers and requirement, the current signers can
\* always meet the current requirement.
THEOREM RequirementAlwaysReachable == Spec => []RequirementReachable
  BY WalletInvariant, PTL DEF IInv

\* Payments are executed in submission order, each at most once, none skipped,
\* and the execution history is exactly that order.
THEOREM ExecutedInNonceOrder == Spec => []NonceOrder
  BY WalletInvariant, PTL DEF IInv

\* Calls that leave signers, requirement, payments and confirmations alone are
\* stutters of the queue.
LEMMA SameQueue ==
    ASSUME UNCHANGED <<initialized, signers, required, queue>>
    PROVE  UNCHANGED Queue!queueVars
  BY DEF queue, Queue!queueVars

\* initialize, and every change of signers and requirement, amends the council.
LEMMA AmendQueue ==
    ASSUME IInv, IInv',
           \/ \E list \in SUBSET Address, req \in Nat, limit \in Limit : initialize(list, req, limit)
           \/ \E a \in Address : add_signer(a) \/ remove_signer(a)
           \/ \E req \in Nat : change_requirement(req)
    PROVE  Queue!Amend
  <1>1. initialized' /\ UNCHANGED <<transactions, confirmations>>
    BY DEF initialize, add_signer, remove_signer, change_requirement, queue
  <1>2. signers' \in SUBSET Address /\ required' \in 1..Cardinality(signers')
    BY <1>1, SignerCounts DEF IInv, TypeOK, RequirementReachable
  <1>3. /\ IF initialized THEN nextTxId' = nextTxId ELSE nextTxId' = 1
        /\ Len(history') = Len(history)
    BY DEF initialize, add_signer, remove_signer, change_requirement, queue, IInv, Blank
  <1>4. UNCHANGED [id \in DOMAIN transactions |-> ContentOf(transactions[id])]
    BY <1>1 DEF ContentOf
  <1>5. UNCHANGED (IF initialized THEN nextTxId - 1 ELSE 0)
    BY <1>1, <1>3
  <1>6. QED
    BY <1>1, <1>2, <1>3, <1>4, <1>5 DEF Queue!Amend

\* submit_transaction orders a payment.
LEMMA OrderQueue ==
    ASSUME IInv, NEW s \in Address, NEW t \in Token, NEW r \in Recipient,
           NEW a \in Amount, submit_transaction(s, t, r, a)
    PROVE  \E m \in Address, p \in [token : Token, recipient : Recipient, amount : Amount] :
               Queue!Order(m, p)
  <1> DEFINE p == [token |-> t, recipient |-> r, amount |-> a]
             content == [id \in DOMAIN transactions |-> ContentOf(transactions[id])]
             number == IF initialized THEN nextTxId - 1 ELSE 0
  <1>1. initialized /\ nextTxId \in Nat
    BY DEF IInv, Blank, TypeOK, submit_transaction
  <1>2. number' = nextTxId /\ number' = number + 1
    <2>1. initialized' = initialized /\ nextTxId' = nextTxId + 1
      BY DEF submit_transaction, governance
    <2>2. QED
      BY <1>1, <2>1
  <1>3. content' = Queue!Put(content, nextTxId, p)
    BY DEF submit_transaction, ContentOf, Put, Queue!Put
  <1>4. confirmations' = Queue!Put(confirmations, nextTxId, {s})
    BY DEF submit_transaction, Put, Queue!Put
  <1>5. s \in signers /\ UNCHANGED <<signers, required, history>>
    BY DEF submit_transaction, governance
  <1>6. Queue!Order(s, p)
    BY <1>2, <1>3, <1>4, <1>5 DEF Queue!Order
  <1>7. QED
    BY <1>6

\* confirm_transaction and revoke_confirmation change a signer's assent to a payment
\* that is not made.
LEMMA AssentQueue ==
    ASSUME IInv, NEW s \in Address, NEW id \in DOMAIN transactions,
           confirm_transaction(s, id) \/ revoke_confirmation(s, id)
    PROVE  /\ Queue!Assent(s, id)
           /\ id \in 1..(IF initialized THEN nextTxId - 1 ELSE 0)
  <1> USE DEF confirm_transaction, revoke_confirmation, governance, not_executed
  <1>1. initialized /\ nextExecutable \in Nat /\ nextTxId \in Nat /\ id \in Nat
    BY DEF IInv, Blank, TypeOK
  <1>2. id \notin 1..(nextExecutable - 1) /\ id \in 1..(nextTxId - 1)
    BY <1>1 DEF IInv, NonceOrder, Executed
  <1>3. Len(history) = nextExecutable - 1
    BY <1>1 DEF IInv, NonceOrder
  <1>4. id > Len(history)
    BY <1>1, <1>2, <1>3
  <1>5. QED
    BY <1>1, <1>2, <1>4 DEF Queue!Assent

\* execute_transaction makes the oldest payment left.
LEMMA PayQueue ==
    ASSUME IInv, NEW s \in Address, NEW id \in DOMAIN transactions, execute_transaction(s, id)
    PROVE  Queue!Pay
  <1> USE DEF execute_transaction, governance
  <1>1. initialized /\ nextExecutable \in Nat /\ nextTxId \in Nat /\ history \in Seq(Nat)
    BY DEF IInv, Blank, TypeOK
  <1>2. id = Len(history) + 1 /\ Len(history') = Len(history) + 1
    BY <1>1 DEF IInv, NonceOrder, Counters, is_next
  <1>3. Len(history) < nextTxId - 1
    BY <1>1, <1>2 DEF IInv, NonceOrder
  <1>4. [i \in DOMAIN transactions' |-> ContentOf(transactions[i])']
           = [i \in DOMAIN transactions |-> ContentOf(transactions[i])]
    BY DEF ContentOf, IInv, TypeOK, TransactionRecord
  <1>5. QED
    BY <1>1, <1>2, <1>3, <1>4 DEF Queue!Pay, active_confirmation_count

\* The wallet implements the queue: every call is a step of PaymentQueue or leaves its
\* state alone, for any addresses, amounts and number of payments.
THEOREM WalletImplementsQueue == Spec => ImplementsQueue
  <1>1. Init => Queue!Init
    BY DEF Init, EmptyMap, Queue!Init, Queue!EmptyMap, ContentOf
  <1>2. IInv /\ IInv' /\ [Next]_vars => [Queue!Next]_(Queue!queueVars)
    <2> SUFFICES ASSUME IInv, IInv', [Next]_vars PROVE [Queue!Next]_(Queue!queueVars)
      OBVIOUS
    <2>1. Cardinality(Address) \in Nat
      BY WalletAssumption, FS_CardinalityType
    <2>2. CASE UNCHANGED <<initialized, signers, required, queue>>
      BY <2>2, SameQueue
    <2>3. CASE \/ \E list \in SUBSET Address, req \in Nat, limit \in Limit : initialize(list, req, limit)
               \/ \E a \in Address : add_signer(a) \/ remove_signer(a)
               \/ \E req \in Nat : change_requirement(req)
      BY <2>3, AmendQueue DEF Queue!Next
    <2>4. CASE \E s \in Address, r \in Recipient, t \in Token, a \in Amount :
                  submit_transaction(s, t, r, a)
      BY <2>4, OrderQueue DEF Queue!Next
    <2>5. CASE \E s \in Address, id \in DOMAIN transactions :
                  confirm_transaction(s, id) \/ revoke_confirmation(s, id)
      BY <2>5, AssentQueue DEF Queue!Next
    <2>6. CASE \E s \in Address, id \in DOMAIN transactions : execute_transaction(s, id)
      BY <2>6, PayQueue DEF Queue!Next
    <2>7. QED
      BY <2>1, <2>2, <2>3, <2>4, <2>5, <2>6
         DEF Next, vars, governance, deposit, set_daily_limit, set_whitelist, Tick
  <1>3. QED
    BY <1>1, <1>2, WalletInvariant, PTL DEF Spec, ImplementsQueue, Queue!Spec

-----------------------------------------------------------------------------
\* The daily cap.  The payments that count against a token's limit of a day, as
\* a map that is summed.
Counted(txs, exc, token, day) ==
    [id \in {i \in DOMAIN txs : /\ txs[i].executed /\ i \notin exc
                                /\ txs[i].token = token
                                /\ txs[i].executedAt \div DAY_SECONDS = day}
        |-> txs[id].amount]

\* DailySpent, which apply_daily_limit compares with the limit, is what the records
\* say was paid; only executed payments are exempt.
SpentIsPaid ==
    /\ exempt \subseteq Executed
    /\ \A t \in Token, d \in Nat :
          GetOr(dailySpent, <<t, d>>, 0) = SumFunction(Counted(transactions, exempt, t, d))

\* What a step may do.
Capped ==
    \A id \in (Executed' \ Executed) \ exempt' :
        PaidOn(transactions', exempt', transactions[id].token, Day) <= dailyLimit

\* PaidOn sums that map.
LEMMA PaidIsCounted ==
    ASSUME NEW txs, NEW exc, NEW t, NEW d
    PROVE  PaidOn(txs, exc, t, d) = SumFunction(Counted(txs, exc, t, d))
  BY DEF PaidOn, SumOver, Counted

\* The map is finite and holds naturals.
LEMMA CountedType ==
    ASSUME IInv, NEW t, NEW d
    PROVE  IntMap(Counted(transactions, exempt, t, d))
  <1> DEFINE S == {i \in DOMAIN transactions :
                      /\ transactions[i].executed /\ i \notin exempt
                      /\ transactions[i].token = t
                      /\ transactions[i].executedAt \div DAY_SECONDS = d}
  <1>1. IsFiniteSet(DOMAIN transactions)
    <2>1. CASE initialized
      <3>1. DOMAIN transactions = 1..(nextTxId - 1) /\ nextTxId - 1 \in Int
        BY <2>1 DEF IInv, TypeOK, NonceOrder
      <3>2. QED
        BY <3>1, FS_Interval
    <2>2. CASE ~initialized
      BY <2>2, FS_EmptySet DEF IInv, Blank
    <2>3. QED
      BY <2>1, <2>2
  <1>2. IsFiniteSet(S)
    BY <1>1, FS_Subset
  <1>3. \A i \in DOMAIN transactions : transactions[i].amount \in Int
    BY DEF IInv, TypeOK, TransactionRecord
  <1>4. QED
    BY <1>2, <1>3 DEF IntMap, Counted

\* Nothing is paid by a call that leaves the payments alone.
LEMMA SpentSame ==
    ASSUME SpentIsPaid, UNCHANGED <<transactions, exempt, dailySpent>>
    PROVE  SpentIsPaid' /\ Capped
  BY DEF SpentIsPaid, Executed, Capped

\* A payment that was just submitted does not count.
LEMMA SubmitSpent ==
    ASSUME IInv, SpentIsPaid, NEW s \in Address, NEW t \in Token, NEW r \in Recipient,
           NEW a \in Amount, submit_transaction(s, t, r, a)
    PROVE  SpentIsPaid' /\ Capped
  <1>1. initialized
    BY DEF submit_transaction, IInv, Blank
  <1>2. nextTxId \notin DOMAIN transactions
    BY <1>1 DEF IInv, TypeOK, NonceOrder
  <1>3. /\ DOMAIN transactions' = DOMAIN transactions \cup {nextTxId}
        /\ transactions'[nextTxId].executed = FALSE
        /\ \A i \in DOMAIN transactions : transactions'[i] = transactions[i]
        /\ UNCHANGED <<exempt, dailySpent>>
    BY <1>2 DEF submit_transaction, Put, money
  <1>4. Executed' = Executed
    BY <1>3 DEF Executed
  <1>5. ASSUME NEW u, NEW d
        PROVE  Counted(transactions', exempt', u, d) = Counted(transactions, exempt, u, d)
    BY <1>3 DEF Counted
  <1>6. QED
    BY <1>3, <1>4, <1>5 DEF SpentIsPaid, Capped

\* A payment counts once, for its own token and day, unless it is exempt; the sum
\* with it is the one that was compared with the limit.
LEMMA ExecuteSpent ==
    ASSUME IInv, SpentIsPaid, NEW s \in Address, NEW id \in DOMAIN transactions,
           execute_transaction(s, id)
    PROVE  SpentIsPaid' /\ Capped
  <1> DEFINE tx == transactions[id]
             f(t, d) == Counted(transactions, exempt, t, d)
             g(t, d) == Counted(transactions', exempt', t, d)
  <1>1. /\ tx \in TransactionRecord /\ ~tx.executed /\ Day \in Nat
        /\ id \notin Executed /\ id \notin exempt
    BY DayType DEF execute_transaction, not_executed, IInv, TypeOK, SpentIsPaid, Executed
  <1>2. /\ DOMAIN transactions' = DOMAIN transactions
        /\ transactions'[id].executed /\ transactions'[id].executedAt = now
        /\ transactions'[id].token = tx.token /\ transactions'[id].amount = tx.amount
        /\ \A i \in DOMAIN transactions \ {id} : transactions'[i] = transactions[i]
    BY <1>1 DEF execute_transaction, IInv, TypeOK, TransactionRecord
  <1>3. tx.token \in Token /\ tx.amount \in Nat
    BY <1>1 DEF TransactionRecord
  <1>4. Executed' = Executed \cup {id}
    BY <1>2 DEF Executed
  <1>5. CASE tx.recipient \in whitelist
    <2>1. exempt' = exempt \cup {id} /\ dailySpent' = dailySpent
      BY <1>5 DEF execute_transaction, apply_daily_limit
    <2>2. ASSUME NEW t, NEW d PROVE g(t, d) = f(t, d)
      BY <1>1, <1>2, <2>1 DEF Counted
    <2>3. QED
      BY <1>4, <2>1, <2>2 DEF SpentIsPaid, Capped
  <1>6. CASE tx.recipient \notin whitelist
    <2> DEFINE key == <<tx.token, Day>>
               spent == GetOr(dailySpent, key, 0) + tx.amount
    <2>1. exempt' = exempt /\ dailySpent' = Put(dailySpent, key, spent) /\ spent <= dailyLimit
      BY <1>6 DEF execute_transaction, apply_daily_limit
    <2>2. SumFunction(g(tx.token, Day)) = SumFunction(f(tx.token, Day)) + tx.amount
      <3> DEFINE F == f(tx.token, Day)
                 G == g(tx.token, Day)
      <3>1. IntMap(F)
        BY CountedType
      <3>2. DOMAIN G = DOMAIN F \cup {id} /\ id \notin DOMAIN F
        BY <1>1, <1>2, <2>1 DEF Counted, Day
      <3>3. G[id] = tx.amount /\ \A i \in DOMAIN F : G[i] = F[i]
        BY <1>1, <1>2, <2>1 DEF Counted, Day
      <3>4. G = [i \in DOMAIN G |-> G[i]]
        BY DEF Counted
      <3> HIDE DEF F, G
      <3>5. AddsKey(G, F, id)
        BY <1>3, <3>1, <3>2, <3>3, <3>4 DEF AddsKey, IntMap
      <3>6. QED
        BY <3>3, <3>5, SumAdd DEF F, G
    <2>3. ASSUME NEW t, NEW d, <<t, d>> # key PROVE g(t, d) = f(t, d)
      BY <1>1, <1>2, <2>1, <2>3 DEF Counted, Day
    <2>4. /\ GetOr(dailySpent', key, 0) = spent
          /\ \A t, d : <<t, d>> # key => GetOr(dailySpent', <<t, d>>, 0) = GetOr(dailySpent, <<t, d>>, 0)
      BY <2>1 DEF Put, GetOr
    <2>5. spent = SumFunction(g(tx.token, Day))
      BY <1>1, <1>3, <2>2 DEF SpentIsPaid
    <2>6. SpentIsPaid'
      <3>1. exempt' \subseteq Executed'
        BY <1>4, <2>1 DEF SpentIsPaid
      <3>2. ASSUME NEW t \in Token, NEW d \in Nat
            PROVE  GetOr(dailySpent', <<t, d>>, 0) = SumFunction(g(t, d))
        <4>1. CASE <<t, d>> = key
          BY <2>4, <2>5, <4>1
        <4>2. CASE <<t, d>> # key
          BY <2>3, <2>4, <4>2 DEF SpentIsPaid
        <4>3. QED
          BY <4>1, <4>2
      <3>3. QED
        BY <3>1, <3>2 DEF SpentIsPaid
    <2>7. Capped
      <3>1. PaidOn(transactions', exempt', tx.token, Day) <= dailyLimit
        BY <2>1, <2>5, PaidIsCounted
      <3>2. QED
        BY <1>4, <3>1 DEF Capped
    <2>8. QED
      BY <2>6, <2>7
  <1>7. QED
    BY <1>5, <1>6

\* A payment that is not exempt is executed only within what the limit leaves of its
\* token's day: the counter that apply_daily_limit keeps is the sum of the payments.
THEOREM DailyCapHolds == Spec => DailyCap
  <1>1. Init => SpentIsPaid
    <2> SUFFICES ASSUME Init PROVE SpentIsPaid
      OBVIOUS
    <2>1. DOMAIN transactions = {} /\ DOMAIN dailySpent = {} /\ exempt = {}
      BY DEF Init, EmptyMap
    <2>2. ASSUME NEW t, NEW d PROVE SumFunction(Counted(transactions, exempt, t, d)) = 0
      <3>1. DOMAIN Counted(transactions, exempt, t, d) = {}
        BY <2>1 DEF Counted
      <3>2. QED
        BY <3>1, SumEmpty
    <2>3. QED
      BY <2>1, <2>2 DEF SpentIsPaid, GetOr
  <1>2. IInv /\ SpentIsPaid /\ [Next]_vars => SpentIsPaid' /\ Capped
    <2> SUFFICES ASSUME IInv, SpentIsPaid, [Next]_vars PROVE SpentIsPaid' /\ Capped
      OBVIOUS
    <2>1. CASE UNCHANGED <<transactions, exempt, dailySpent>>
      BY <2>1, SpentSame
    <2>2. QED
      BY <2>1, SubmitSpent, ExecuteSpent
         DEF Next, vars, queue, money, initialize, deposit, confirm_transaction,
             revoke_confirmation, add_signer, remove_signer, change_requirement,
             set_daily_limit, set_whitelist, Tick
  <1>3. Spec => [][Capped]_vars
    BY <1>1, <1>2, InitIInv, NextIInv, PTL DEF Spec
  <1>4. QED
    BY <1>3 DEF DailyCap, Capped
=============================================================================
