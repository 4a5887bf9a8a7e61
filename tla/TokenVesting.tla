----------------------------- MODULE TokenVesting -----------------------------
(***************************************************************************)
(* contracts/token-vesting: funders lock tokens for beneficiaries, who     *)
(* claim them as they vest.  The admin may change or revoke a schedule.    *)
(***************************************************************************)
EXTENDS Storage, SequencesExt

CONSTANTS
    Address,           \* beneficiaries; whoever funds a schedule is only paid back
    Token,
    Amount,            \* amounts a funder may lock
    Start, Cliff, Duration, Penalty,   \* terms a caller may name
    BPS_DENOMINATOR,   \* 10000
    MAX_BATCH_SIZE,    \* 50
    MaxSchedule,       \* bound on the schedules ever stored
    MaxBatch, MaxFunded, MaxTime   \* bounds

\* What the code takes for granted of its constants.
VestingConstants ==
    /\ Amount \subseteq Int
    /\ Start \subseteq Nat /\ Cliff \subseteq Nat /\ Duration \subseteq Nat
    /\ Penalty \subseteq Nat /\ BPS_DENOMINATOR \in Nat \ {0}
    /\ MAX_BATCH_SIZE \in Nat
    /\ MaxSchedule \in Nat /\ MaxBatch \in Nat /\ MaxFunded \in Nat /\ MaxTime \in Nat

VARIABLES
    vestingAdmin,    \* DataKey::Admin is set
    counter,         \* DataKey::ScheduleCounter, 0 where it is not set
    schedules,       \* Schedule(id); ids count from 1, so this is a sequence
    index,           \* BeneficiarySchedules(address)
    vestingTokens,   \* external: the contract's balance in each token
    funded,          \* history: what was locked under each schedule
    paid, returned,  \* history: what left it, to beneficiaries and to the funder
    overwritten,     \* history: how many schedules were stored over another one
    stranded,        \* history: what such schedules still owed in each token
    now              \* ledger timestamp

history == <<funded, paid, returned, overwritten, stranded>>
store == <<vestingAdmin, counter, schedules, index, vestingTokens, history>>
vars == <<store, now>>

-----------------------------------------------------------------------------
vested_for(s, t) ==
    IF t < s.cliff \/ t <= s.start THEN 0
    ELSE IF t >= s.end THEN s.total
    ELSE (s.total * (t - s.start)) \div (s.end - s.start)

claimable(s) ==
    LET vested == vested_for(s, now) IN IF vested <= s.claimed THEN 0 ELSE vested - s.claimed

calculate_penalty(unvested, bps) == (unvested * bps) \div BPS_DENOMINATOR

validate_timing(cliff, duration) == duration # 0 /\ cliff <= duration
validate_penalty(bps) == bps <= BPS_DENOMINATOR

-----------------------------------------------------------------------------
Init ==
    /\ vestingAdmin = FALSE /\ counter = 0
    /\ schedules = <<>>
    /\ index = [a \in Address |-> <<>>]
    /\ vestingTokens = [t \in Token |-> 0]
    /\ funded = <<>> /\ paid = <<>> /\ returned = <<>>
    /\ overwritten = 0 /\ stranded = [t \in Token |-> 0]
    /\ now = 0

\* Only the admin's calls need an admin: schedules may have been stored before,
\* and the counter starts again from zero all the same.
initialize ==
    /\ ~vestingAdmin
    /\ vestingAdmin' = TRUE
    /\ counter' = 0
    /\ UNCHANGED <<schedules, index, vestingTokens, history, now>>

\* What a schedule, and the schedules in the token t among some ids, still owe.
Owed(s) == s.total - s.claimed
OwedIn(t, ids) ==
    SumOver(LAMBDA id : Owed(schedules[id]),
            {id \in ids \cap DOMAIN schedules : schedules[id].token = t})

\* One schedule per entry of the list of <<beneficiary, amount>>, under the ids
\* the counter gives, whether or not a schedule is stored there; what one
\* transfer brings in is the sum of the amounts.
store_schedules(token, list, terms) ==
    LET last == counter + Len(list)
        New(i) == [token |-> token, beneficiary |-> list[i][1],
                   total |-> list[i][2], claimed |-> 0,
                   start |-> terms.start, cliff |-> terms.start + terms.cliff,
                   end |-> terms.start + terms.duration, revocable |-> terms.revocable,
                   early |-> terms.early, penalty |-> terms.penalty, active |-> TRUE]
        With(stored, new(_)) == [id \in 1..Max({Len(stored), last}) |->
            IF id \in (counter + 1)..last THEN new(id - counter) ELSE stored[id]]
        IdsOf(a) == SelectSeq([i \in 1..Len(list) |-> counter + i],
                              LAMBDA id : list[id - counter][1] = a)
    IN  /\ Len(schedules) + overwritten + Len(list) <= MaxSchedule
        /\ \A i \in DOMAIN list : list[i][2] > 0
        /\ validate_timing(terms.cliff, terms.duration) /\ validate_penalty(terms.penalty)
        /\ counter' = last
        /\ schedules' = With(schedules, New)
        /\ index' = [a \in Address |-> index[a] \o IdsOf(a)]
        /\ vestingTokens' = [vestingTokens EXCEPT ![token] =
                                @ + SumOver(LAMBDA i : list[i][2], DOMAIN list)]
        /\ funded' = With(funded, LAMBDA i : list[i][2])
        /\ paid' = With(paid, LAMBDA i : 0)
        /\ returned' = With(returned, LAMBDA i : 0)
        /\ overwritten' = overwritten + Cardinality(((counter + 1)..last) \cap DOMAIN schedules)
        /\ stranded' = [t \in Token |-> stranded[t] + OwedIn(t, (counter + 1)..last)]
        /\ UNCHANGED <<vestingAdmin, now>>

create_schedule(token, beneficiary, amount, terms) ==
    store_schedules(token, <<(<<beneficiary, amount>>)>>, terms)

create_schedules_batch(token, list, terms) ==
    /\ Len(list) > 0 /\ Len(list) <= MAX_BATCH_SIZE
    /\ store_schedules(token, list, terms)

-----------------------------------------------------------------------------
\* claim_one: a schedule that is not active, or has nothing to claim, is skipped.
claim_one(s) ==
    IF ~s.active THEN s
    ELSE [s EXCEPT !.claimed = @ + claimable(s),
                   !.active = claimable(s) = 0 \/ s.claimed + claimable(s) < s.total]

\* The transfer fails, and with it the call, when the balance is short.
transfer_out(token, amount) ==
    /\ amount <= vestingTokens[token]
    /\ vestingTokens' = [vestingTokens EXCEPT ![token] = @ - amount]

\* claim, and claim_batch: the ids of a batch may be taken as a set, since
\* once an id has been processed it has nothing left to claim.
claim_ids(beneficiary, ids) ==
    LET amount(id) == IF schedules[id].active THEN claimable(schedules[id]) ELSE 0
    IN  /\ \A id \in ids : schedules[id].beneficiary = beneficiary
        /\ \E id \in ids : amount(id) > 0
        /\ schedules' = [id \in DOMAIN schedules |->
                            IF id \in ids THEN claim_one(schedules[id]) ELSE schedules[id]]
        /\ vestingTokens' = [t \in Token |-> vestingTokens[t]
                                - SumOver(amount, {id \in ids : schedules[id].token = t})]
        /\ \A t \in Token : vestingTokens'[t] >= 0
        /\ paid' = [id \in DOMAIN paid |-> paid[id] + IF id \in ids THEN amount(id) ELSE 0]
        /\ UNCHANGED <<vestingAdmin, counter, index, funded, returned, overwritten, stranded, now>>

claim(beneficiary, id) == claim_ids(beneficiary, {id})

claim_batch(beneficiary, ids) ==
    Cardinality(ids) <= MAX_BATCH_SIZE /\ claim_ids(beneficiary, ids)

early_payout(s) == claimable(s)

early_withdraw(id) ==
    LET s == schedules[id]
        unvested == s.total - vested_for(s, now)
        penalty == calculate_penalty(unvested, s.penalty)
        payout == early_payout(s) + unvested - penalty
    IN  /\ s.active /\ s.early
        /\ payout > 0 \/ penalty > 0
        /\ schedules' = [schedules EXCEPT ![id].claimed = s.total, ![id].active = FALSE]
        /\ transfer_out(s.token, payout + penalty)
        /\ paid' = [paid EXCEPT ![id] = @ + payout]
        /\ returned' = [returned EXCEPT ![id] = @ + penalty]
        /\ UNCHANGED <<vestingAdmin, counter, index, funded, overwritten, stranded, now>>

\* remove_beneficiary_schedule and add_beneficiary_schedule.
reindex(id, from, to) ==
    LET removed == [index EXCEPT ![from] = RemoveFirst(@, id)]
    IN  index' = [removed EXCEPT ![to] = Append(@, id)]

\* Modification would invalidate claimed tokens.
keeps_claimed_Mut(s) == TRUE
keeps_claimed(s) == vested_for(s, now) >= s.claimed

\* A value that is not given is the current one; only a beneficiary that is
\* given is re-indexed.
modify_schedule(id, given, to, start, cliff, duration, early, penalty) ==
    LET s == schedules[id]
        t == [s EXCEPT !.beneficiary = to, !.start = start, !.cliff = start + cliff,
                       !.end = start + duration, !.early = early, !.penalty = penalty]
    IN  /\ vestingAdmin /\ s.active
        /\ given \/ to = s.beneficiary
        /\ IF given THEN reindex(id, s.beneficiary, to) ELSE UNCHANGED index
        /\ validate_timing(cliff, duration) /\ validate_penalty(penalty)
        /\ keeps_claimed(t)
        /\ schedules' = [schedules EXCEPT ![id] = t]
        /\ UNCHANGED <<vestingAdmin, counter, vestingTokens, history, now>>

increase_schedule_amount(id, amount) ==
    LET s == schedules[id] IN
    /\ amount > 0 /\ s.active
    /\ funded[id] + amount <= MaxFunded
    /\ schedules' = [schedules EXCEPT ![id].total = @ + amount]
    /\ vestingTokens' = [vestingTokens EXCEPT ![s.token] = @ + amount]
    /\ funded' = [funded EXCEPT ![id] = @ + amount]
    /\ UNCHANGED <<vestingAdmin, counter, index, paid, returned, overwritten, stranded, now>>

revoked_end(s) == IF vested_for(s, now) > s.claimed THEN now ELSE s.end

revoke_schedule(id) ==
    LET s == schedules[id]
        vested == vested_for(s, now)
    IN  /\ vestingAdmin /\ s.active /\ s.revocable
        /\ schedules' = [schedules EXCEPT ![id] =
              [s EXCEPT !.total = vested, !.end = revoked_end(s),
                        !.active = s.claimed < vested]]
        /\ transfer_out(s.token, s.total - vested)
        /\ returned' = [returned EXCEPT ![id] = @ + s.total - vested]
        /\ UNCHANGED <<vestingAdmin, counter, index, funded, paid, overwritten, stranded, now>>

Tick ==
    /\ now < MaxTime
    /\ now' = now + 1
    /\ UNCHANGED store

-----------------------------------------------------------------------------
Terms == [start : Start, cliff : Cliff, duration : Duration,
          revocable : BOOLEAN, early : BOOLEAN, penalty : Penalty]

Fund ==
    \/ \E b \in Address, t \in Token, a \in Amount, terms \in Terms :
          create_schedule(t, b, a, terms)
    \/ \E t \in Token, terms \in Terms :
          \E n \in 1..MaxBatch : \E list \in [1..n -> Address \X Amount] :
              create_schedules_batch(t, list, terms)
    \/ \E id \in DOMAIN schedules, a \in Amount : increase_schedule_amount(id, a)

Withdraw ==
    \/ \E b \in Address, id \in DOMAIN schedules : claim(b, id)
    \/ \E b \in Address : \E ids \in SUBSET DOMAIN schedules : claim_batch(b, ids)
    \/ \E id \in DOMAIN schedules : early_withdraw(id)

Manage ==
    \/ initialize
    \/ \E id \in DOMAIN schedules : revoke_schedule(id)
    \/ \E id \in DOMAIN schedules, given \in BOOLEAN, to \in Address,
          early \in BOOLEAN, penalty \in Penalty :
          \E start \in Start \cup {schedules[id].start},
             cliff \in Cliff \cup {schedules[id].cliff - schedules[id].start},
             duration \in Duration \cup {schedules[id].end - schedules[id].start} :
          modify_schedule(id, given, to, start, cliff, duration, early, penalty)

Next == Fund \/ Withdraw \/ Manage \/ Tick

Spec == Init /\ [][Next]_vars

-----------------------------------------------------------------------------
VestingSchedule ==
    [token : Token, beneficiary : Address, total : Nat, claimed : Nat,
     start : Nat, cliff : Nat, end : Nat, revocable : BOOLEAN, early : BOOLEAN,
     penalty : Nat, active : BOOLEAN]

\* Every variable has its type, the tokens held are never negative, and the
\* list kept for each beneficiary names their schedules, also after the admin
\* has moved schedules back and forth; each once and no other, unless one
\* schedule was stored over another.
TypeOK ==
    /\ vestingAdmin \in BOOLEAN /\ counter \in 0..Len(schedules)
    /\ schedules \in Seq(VestingSchedule)
    /\ index \in [Address -> Seq(Nat)]
    /\ \A a \in Address :
          LET own == {id \in DOMAIN schedules : schedules[id].beneficiary = a}
          IN  /\ own \subseteq ToSet(index[a])
              /\ overwritten = 0 => ToSet(index[a]) = own /\ IsInjective(index[a])
    /\ vestingTokens \in [Token -> Nat]
    /\ \A h \in {funded, paid, returned} : h \in Seq(Nat) /\ Len(h) = Len(schedules)
    /\ overwritten \in Nat /\ stranded \in [Token -> Nat]
    /\ now \in Nat

\* Each schedule lives off its own tokens: what was locked under it is what it
\* paid, what it returned to its funder and what it still owes.  The contract
\* holds what all schedules owe and what those owed that were overwritten after
\* initialize had reset the counter: that much is never paid to anybody, and
\* nobody else's schedule pays for it.
ScheduleLedger ==
    /\ \A id \in DOMAIN schedules :
          funded[id] = paid[id] + returned[id] + Owed(schedules[id])
    /\ \A t \in Token :
          vestingTokens[t] = OwedIn(t, DOMAIN schedules) + stranded[t]
    /\ overwritten > 0 => vestingAdmin

\* Whatever the admin changes and whenever beneficiaries claim, an active
\* schedule has never paid more than has vested by now, and one that is no
\* longer active owes nothing.
ClaimedWithinVested ==
    \A id \in DOMAIN schedules :
        IF schedules[id].active THEN schedules[id].claimed <= vested_for(schedules[id], now)
        ELSE schedules[id].claimed = schedules[id].total
=============================================================================
