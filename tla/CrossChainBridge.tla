---------------------------- MODULE CrossChainBridge ----------------------------
(***************************************************************************)
(* contracts/cross-chain-bridge: senders lock or burn tokens to move them  *)
(* to another chain, within daily and monthly volumes; validators sign     *)
(* what arrives.  Only the administrator registers validators and tokens,  *)
(* pauses the bridge and collects the fees.                                *)
(***************************************************************************)
EXTENDS Storage

CONSTANTS
    Validator, BridgedToken, Sender,
    ChainID, HomeChain,       \* the chains, and the one of this contract
    BridgedAmount, Nonce,     \* inputs of a transfer
    TokenKind,                \* [is_locked, is_mintable] of a token
    QUORUM_PERCENTAGE, FeeConfig, RateLimitConfig,   \* as initialized
    DAY, MONTH,               \* 86400 and 2592000 seconds
    BridgeBps,                \* 10000
    SenderFunds,              \* external: what a sender holds of each token
    BridgeTime

\* What the types of the code and its arithmetic give; the configuration is not
\* validated further.
BridgeConstants ==
    /\ IsFiniteSet(BridgedToken)
    /\ BridgedAmount \subseteq Int /\ Nonce \subseteq Nat
    /\ TokenKind \subseteq [is_locked : BOOLEAN, is_mintable : BOOLEAN]
    /\ QUORUM_PERCENTAGE \in Nat /\ BridgeBps \in Nat \ {0}
    /\ FeeConfig \in [basis_points : Nat, min_fee : Int]
    /\ RateLimitConfig \in [daily_limit : Int, monthly_limit : Int, per_transaction_max : Int,
                            per_transaction_min : Int]
    /\ DAY \in Nat /\ MONTH \in Nat /\ SenderFunds \in Nat /\ BridgeTime \in Nat

VARIABLES
    brPaused,
    validators, validatorList,        \* Validator(v).is_active, VALIDATOR_LIST
    validatorCount, signatureConfig,  \* VALIDATOR_COUNT, SIGNATURE_CONFIG
    supported,                        \* Token(t)
    usedNonces, transfers,            \* Nonce(s, n), Transfer(id) in order of id
    totalFees, rateState,             \* TOTAL_FEES, RATE_LIMIT_STATE
    wallets, vaulted,                 \* external: tokens of the senders and of the bridge
    burnt, collected,                 \* history: tokens burned, fees collected
    brNow                             \* external: the ledger time

registry == <<validators, validatorList, validatorCount, signatureConfig, supported>>
money == <<usedNonces, transfers, totalFees, rateState, wallets, vaulted, burnt, collected>>
bridgeVars == <<brPaused, registry, money, brNow>>

TransactionStatus == {"Pending", "Locked", "Minted", "Burned", "Unlocked", "Failed", "Reverted"}
BridgeTransfer ==
    [destination_chain : ChainID, sender : Sender, token_address : BridgedToken, amount : Nat,
     fee : Nat, nonce : Nat, timestamp : Nat, status : TransactionStatus,
     direction : {"LockAndMint", "BurnAndUnlock"}]
SignatureConfig == [required_signatures : Nat, total_validators : Nat]
RateLimitState ==
    [daily_used : Nat, monthly_used : Nat, last_daily_reset : Nat, last_monthly_reset : Nat,
     per_user_daily : [Sender -> Nat]]

BridgeInit ==
    /\ brPaused = FALSE
    /\ validators = EmptyMap /\ validatorList = <<>> /\ validatorCount = 0
    /\ signatureConfig = [required_signatures |-> 0, total_validators |-> 0]
    /\ supported = EmptyMap /\ usedNonces = {} /\ transfers = <<>> /\ totalFees = 0
    /\ rateState = [daily_used |-> 0, monthly_used |-> 0, last_daily_reset |-> 0,
                    last_monthly_reset |-> 0, per_user_daily |-> [s \in Sender |-> 0]]
    /\ wallets = [k \in Sender \X BridgedToken |-> SenderFunds]
    /\ vaulted = [t \in BridgedToken |-> 0]
    /\ burnt = 0 /\ collected = 0 /\ brNow = 0

-----------------------------------------------------------------------------
quorum_of(total) ==
    [total_validators |-> total,
     required_signatures |-> LET required == (total * QUORUM_PERCENTAGE) \div 100
                             IN  IF required > 1 THEN required ELSE 1]

\* The count is of the validators ever added.
add_validator(v) ==
    /\ ~brPaused
    /\ v \notin DOMAIN validators
    /\ validators' = Put(validators, v, TRUE)
    /\ validatorList' = Append(validatorList, v)
    /\ validatorCount' = validatorCount + 1
    /\ signatureConfig' = quorum_of(validatorCount + 1)
    /\ UNCHANGED <<brPaused, supported, money, brNow>>

remove_validator(v) ==
    /\ ~brPaused
    /\ v \in DOMAIN validators /\ validators[v]
    /\ validators' = [validators EXCEPT ![v] = FALSE]
    /\ signatureConfig' = quorum_of(LET t == signatureConfig.total_validators
                                    IN  IF t > 0 THEN t - 1 ELSE 0)
    /\ UNCHANGED <<brPaused, validatorList, validatorCount, supported, money, brNow>>

add_supported_token(t, kind) ==
    /\ ~brPaused
    /\ t \notin DOMAIN supported
    /\ supported' = Put(supported, t, kind)
    /\ UNCHANGED <<brPaused, validators, validatorList, validatorCount, signatureConfig, money,
                   brNow>>

\* The day's counter is not cleared with its date.
renewed_Mut(state) ==
    LET new_day == brNow - state.last_daily_reset > DAY
        new_month == brNow - state.last_monthly_reset > MONTH
    IN  [daily_used |-> state.daily_used,
         last_daily_reset |-> IF new_day THEN brNow ELSE state.last_daily_reset,
         per_user_daily |-> IF new_day THEN [s \in Sender |-> 0] ELSE state.per_user_daily,
         monthly_used |-> IF new_month THEN 0 ELSE state.monthly_used,
         last_monthly_reset |-> IF new_month THEN brNow ELSE state.last_monthly_reset]

\* The volumes of the day and of the month, which begin anew with the first transfer
\* after they are over.
renewed(state) ==
    LET new_day == brNow - state.last_daily_reset > DAY
        new_month == brNow - state.last_monthly_reset > MONTH
    IN  [daily_used |-> IF new_day THEN 0 ELSE state.daily_used,
         last_daily_reset |-> IF new_day THEN brNow ELSE state.last_daily_reset,
         per_user_daily |-> IF new_day THEN [s \in Sender |-> 0] ELSE state.per_user_daily,
         monthly_used |-> IF new_month THEN 0 ELSE state.monthly_used,
         last_monthly_reset |-> IF new_month THEN brNow ELSE state.last_monthly_reset]

\* A user's volume is recorded and has no limit.
check_rate_limits(s, amount) ==
    LET state == renewed(rateState)
    IN  /\ amount <= RateLimitConfig.per_transaction_max
        /\ amount >= RateLimitConfig.per_transaction_min
        /\ state.daily_used + amount <= RateLimitConfig.daily_limit
        /\ state.monthly_used + amount <= RateLimitConfig.monthly_limit
        /\ rateState' = [state EXCEPT
                            !.daily_used = state.daily_used + amount,
                            !.monthly_used = state.monthly_used + amount,
                            !.per_user_daily = [state.per_user_daily EXCEPT ![s] = @ + amount]]

fee_on(amount) ==
    LET share == (amount * FeeConfig.basis_points) \div BridgeBps
    IN  IF share > FeeConfig.min_fee THEN share ELSE FeeConfig.min_fee

\* A token that is neither locked nor mintable is refused.  A locked one is held by
\* the bridge, another one burned.
initiate_transfer(chain, t, amount, nonce, s) ==
    LET kind == supported[t]
        total == amount + fee_on(amount)
    IN  /\ ~brPaused
        /\ nonce # 0 /\ <<s, nonce>> \notin usedNonces
        /\ t \in DOMAIN supported
        /\ chain # HomeChain
        /\ amount > 0
        /\ check_rate_limits(s, amount)
        /\ kind.is_locked \/ kind.is_mintable
        /\ wallets[<<s, t>>] >= total
        /\ wallets' = [wallets EXCEPT ![<<s, t>>] = @ - total]
        /\ vaulted' = IF kind.is_locked THEN [vaulted EXCEPT ![t] = @ + total] ELSE vaulted
        /\ burnt' = IF kind.is_locked THEN burnt ELSE burnt + total
        /\ usedNonces' = usedNonces \cup {<<s, nonce>>}
        /\ totalFees' = totalFees + fee_on(amount)
        /\ transfers' = Append(transfers,
              [destination_chain |-> chain, sender |-> s, token_address |-> t, amount |-> amount,
               fee |-> fee_on(amount), nonce |-> nonce, timestamp |-> brNow, status |-> "Locked",
               direction |-> IF kind.is_locked THEN "LockAndMint" ELSE "BurnAndUnlock"])
        /\ UNCHANGED <<brPaused, registry, collected, brNow>>

\* Each signature is verified with the key of the first active validator that has not
\* signed yet, and one that does not verify ends the call: the signers are the first
\* active ones, in the order they were added.
Active == Kept(validatorList, {v \in DOMAIN validators : validators[v]})

verify_transfer_signatures(signers) ==
    /\ Len(signers) >= signatureConfig.required_signatures
    /\ Len(signers) <= Len(Active) /\ signers = SubSeq(Active, 1, Len(signers))

\* What complete_transfer asks before it mints or unlocks.  The record it completes
\* is one this contract made, and a transfer to this chain is never recorded here.
completable(id, signers) ==
    /\ ~brPaused
    /\ transfers[id].status = "Locked"
    /\ verify_transfer_signatures(signers)
    /\ HomeChain = transfers[id].destination_chain
    /\ transfers[id].token_address \in DOMAIN supported

pause_bridge ==
    /\ ~brPaused
    /\ brPaused' = TRUE
    /\ UNCHANGED <<registry, money, brNow>>

unpause_bridge ==
    /\ brPaused
    /\ brPaused' = FALSE
    /\ UNCHANGED <<registry, money, brNow>>

\* All fees are paid in the one token named.
collect_fees(t) ==
    /\ totalFees > 0
    /\ vaulted[t] >= totalFees
    /\ vaulted' = [vaulted EXCEPT ![t] = @ - totalFees]
    /\ collected' = collected + totalFees
    /\ totalFees' = 0
    /\ UNCHANGED <<brPaused, registry, usedNonces, transfers, rateState, wallets, burnt, brNow>>

Guarding ==
    \/ \E v \in Validator : add_validator(v) \/ remove_validator(v)
    \/ \E t \in BridgedToken, kind \in TokenKind : add_supported_token(t, kind)
    \/ pause_bridge \/ unpause_bridge

Bridging ==
    \/ \E chain \in ChainID, t \in DOMAIN supported, a \in BridgedAmount, n \in Nonce, s \in Sender :
          initiate_transfer(chain, t, a, n, s)
    \/ \E t \in BridgedToken : collect_fees(t)

\* The ledger's clock.
BridgeTick ==
    /\ brNow < BridgeTime
    /\ brNow' = brNow + 1
    /\ UNCHANGED <<brPaused, registry, money>>

BridgeNext == Guarding \/ Bridging \/ BridgeTick

BridgeSpec == BridgeInit /\ [][BridgeNext]_bridgeVars

-----------------------------------------------------------------------------
\* Every variable has its type.
BridgeTypeOK ==
    /\ DOMAIN supported \subseteq BridgedToken /\ DOMAIN validators = Range(validatorList)
    /\ Range(transfers) \subseteq BridgeTransfer
    /\ signatureConfig \in SignatureConfig
    /\ rateState \in RateLimitState
    /\ \A t \in BridgedToken : vaulted[t] >= 0

VolumeOf(Counted(_)) ==
    SumOver(LAMBDA i : transfers[i].amount, {i \in DOMAIN transfers : Counted(transfers[i])})

\* The bridge's books: the tokens it holds and those it has burned are, over all
\* tokens, the amounts sent and the fees not yet collected; the volumes of the day
\* and of the month are those of the transfers made since they began, within their
\* limits; and no nonce of a sender serves two transfers.
BridgeLedger ==
    /\ SumOver(LAMBDA t : vaulted[t], BridgedToken) + burnt
          = VolumeOf(LAMBDA r : TRUE) + totalFees
    /\ rateState.daily_used = VolumeOf(LAMBDA r : r.timestamp >= rateState.last_daily_reset)
    /\ rateState.monthly_used = VolumeOf(LAMBDA r : r.timestamp >= rateState.last_monthly_reset)
    /\ rateState.daily_used > 0 => rateState.daily_used <= RateLimitConfig.daily_limit
    /\ rateState.monthly_used > 0 => rateState.monthly_used <= RateLimitConfig.monthly_limit
    /\ \A i, j \in DOMAIN transfers :
          transfers[i].sender = transfers[j].sender /\ transfers[i].nonce = transfers[j].nonce => i = j

\* What the bridge keeps true at every step: types and books.
BridgeBooks == BridgeTypeOK /\ BridgeLedger

\* README.md: "### 5. Complete a Transfer (on destination chain)" and "Tokens mint on
\* destination chain"; complete_transfer: "Complete a transfer by minting/unlocking
\* tokens on destination chain".  While the bridge is not paused and enough validators
\* are active to sign, a recorded transfer can be completed.  Every chain runs an
\* instance of this contract, which completes only what it has recorded itself.
RecordedTransfersComplete ==
    ~brPaused /\ Active # <<>> /\ Len(Active) >= signatureConfig.required_signatures
    => \A i \in DOMAIN transfers :
          \E n \in 0..Len(Active) : completable(i, SubSeq(Active, 1, n))
=============================================================================
