------------------------- MODULE TransactionCoordinator -------------------------
(***************************************************************************)
(* archive/contracts/transaction-coordinator with lib/src/atomic.rs: a     *)
(* two-phase commit over the steps of a transaction, in one call.  The     *)
(* contracts that carry the steps out are external: each of their          *)
(* prepare_step, commit_step and rollback_step may fail, and a rollback    *)
(* undoes what the same execution did.                                     *)
(***************************************************************************)
EXTENDS Storage, SequencesExt

CONSTANTS
    StepLists,                  \* the steps an initiator may name, numbered from 1
    TRANSACTION_TIMEOUT_SECONDS, MAX_TRANSACTION_STEPS,
    MaxTransactions, CoordinatorTime   \* bounds

VARIABLES
    coAdmin, counter,           \* whether Admin is set, TransactionCounter
    transactions,               \* Transaction(id)
    journal,                    \* Journal(id, step_id); step 0 is the transaction
    reserved, applied,          \* external: steps a contract has prepared and not finished, and
                                \* how often the effect of a step stands
    coNow                       \* external: the ledger time

coordinatorVars == <<coAdmin, counter, transactions, journal, reserved, applied, coNow>>

TransactionStatus ==
    {"Initiated", "Preparing", "Prepared", "Committing", "Committed", "RollingBack", "RolledBack",
     "Failed", "TimedOut"}
AtomicTransaction ==
    [steps : StepLists, status : TransactionStatus, deadline : Nat, prepared_steps : Seq(Nat),
     executed_steps : Seq(Nat)]
TransactionJournalEntry == [action : STRING, success : BOOLEAN]

Init ==
    /\ coAdmin = FALSE /\ counter = 0
    /\ transactions = EmptyMap /\ journal = EmptyMap
    /\ reserved = {} /\ applied = EmptyMap
    /\ coNow = 0

-----------------------------------------------------------------------------
IdsOf(steps) == {steps[i].step_id : i \in DOMAIN steps}

\* A step depends on none (0) or on one with a smaller number.
validate_transaction(steps) ==
    \A i \in DOMAIN steps : steps[i].depends_on # 0 =>
        steps[i].depends_on < steps[i].step_id /\ steps[i].depends_on \in IdsOf(steps)

\* The pass over the steps left in which the i-th is taken: the first one that finds a
\* step with the number it depends on taken, in this pass if that is listed before it.
taken_in(steps) ==
    LET pass[i \in DOMAIN steps] ==
            IF steps[i].depends_on = 0 THEN 1
            ELSE Min({IF j < i THEN pass[j] ELSE pass[j] + 1 :
                          j \in {k \in DOMAIN steps : steps[k].step_id = steps[i].depends_on}})
    IN  pass

\* Pass after pass, each in the order of the list; a number given twice is there twice.
resolve_execution_order(steps) ==
    LET pass == taken_in(steps)
        before(i) == {j \in DOMAIN steps : pass[j] < pass[i] \/ (pass[j] = pass[i] /\ j < i)}
    IN  [k \in DOMAIN steps |->
            steps[CHOOSE i \in DOMAIN steps : Cardinality(before(i)) = k - 1].step_id]

\* The step looked up under a number: the first in the list that has it.
StepOf(steps, number) == SelectSeq(steps, LAMBDA step : step.step_id = number)[1]

is_transaction_timed_out(t) == coNow > t.deadline

\* The entry of a step replaces the one it had: the last one of a call is kept.
create_journal_entry(id, last) ==
    journal' = [k \in DOMAIN journal \cup ({id} \X DOMAIN last) |->
                   IF k[1] = id /\ k[2] \in DOMAIN last THEN last[k[2]] ELSE journal[k]]

Entry(action, success) == [action |-> action, success |-> success]

\* Transactions can be created before; their numbers are then given out again.
initialize ==
    /\ ~coAdmin
    /\ coAdmin' = TRUE /\ counter' = 0
    /\ UNCHANGED <<transactions, journal, reserved, applied, coNow>>

create_transaction(steps) ==
    LET id == counter + 1
    IN  /\ steps # <<>> /\ Len(steps) <= MAX_TRANSACTION_STEPS
        /\ validate_transaction(steps)
        /\ transactions' = Put(transactions, id,
              [steps |-> steps, status |-> "Initiated",
               deadline |-> coNow + TRANSACTION_TIMEOUT_SECONDS,
               prepared_steps |-> <<>>, executed_steps |-> <<>>])
        /\ counter' = id
        /\ create_journal_entry(id, [s \in {0} |-> Entry("transaction_created", TRUE)])
        /\ applied' = [k \in DOMAIN applied \cup ({id} \X IdsOf(steps)) |->
                          IF k \in DOMAIN applied THEN applied[k] ELSE 0]
        /\ UNCHANGED <<coAdmin, reserved, coNow>>

-----------------------------------------------------------------------------
\* The places of `done` whose step names a rollback function: the others are skipped.
\* All but the first of them are called.
to_roll_back_Mut(steps, done) == {i \in DOMAIN done : i > 1 /\ StepOf(steps, done[i]).reversible}
to_roll_back(steps, done) == {i \in DOMAIN done : StepOf(steps, done[i]).reversible}

\* What the contracts are left with, after they prepared `prepared`, committed
\* `committed` one after the other and undid those at the places `undone` and the
\* reservations `released`.
StepsEnd(id, prepared, committed, undone, released) ==
    /\ reserved' = (reserved \cup ({id} \X prepared)) \ ({id} \X (ToSet(committed) \cup released))
    /\ applied' = [k \in DOMAIN applied |-> applied[k] +
          Cardinality({i \in DOMAIN committed \ undone : k = <<id, committed[i]>>})]

\* The steps `done` in a phase are rolled back, the last first, and rolling back goes on
\* after a call that fails (`stuck`).  `entries` are the phase's last in the journal.
rollback_transaction(id, t, done, entries, stuck) ==
    LET called == to_roll_back(t.steps, done)
        places(s) == {i \in called : done[i] = s}
    IN  /\ stuck \subseteq called
        /\ transactions' = [transactions EXCEPT ![id] =
              [t EXCEPT !.status = IF stuck = {} THEN "RolledBack" ELSE "Failed"]]
        /\ create_journal_entry(id, [s \in DOMAIN entries |->
              IF places(s) = {} THEN entries[s] ELSE Entry("rollback", Min(places(s)) \notin stuck)])

time_out(id) ==
    /\ is_transaction_timed_out(transactions[id])
    /\ transactions' = [transactions EXCEPT ![id].status = "TimedOut"]
    /\ UNCHANGED <<journal, reserved, applied>>

\* The steps that are not prepared: the one found under their number depends on one
\* that is not prepared yet.  With distinct numbers there are none.
out_of_order(steps, order) ==
    {k \in DOMAIN order : LET d == StepOf(steps, order[k]).depends_on
                          IN  d # 0 /\ d \notin ToSet(SubSeq(order, 1, k - 1))}

\* The k-th step is not prepared: it is out of order, or the call fails and is noted.
prepare_fails(id, order, k, stuck) ==
    LET t == transactions[id]
        done == SubSeq(order, 1, k - 1)
        early == out_of_order(t.steps, order)
        noted == IF k \in early THEN {} ELSE {order[k]}
    IN  /\ ~is_transaction_timed_out(t)
        /\ \A e \in early : k <= e
        /\ rollback_transaction(id, t, done,
              [s \in ToSet(done) \cup noted |->
                  IF s \in noted THEN Entry("prepare_failed", FALSE) ELSE Entry("prepare", TRUE)],
              stuck)
        /\ StepsEnd(id, ToSet(done), <<>>, {},
              {done[i] : i \in to_roll_back(t.steps, done) \ stuck})

\* All steps are prepared and the k-th cannot be committed.  The rollback is of those
\* committed before; the others are left as prepared.
commit_fails(id, order, k, stuck) ==
    LET t == [transactions[id] EXCEPT !.prepared_steps = order]
        done == SubSeq(order, 1, k - 1)
    IN  /\ ~is_transaction_timed_out(t)
        /\ out_of_order(t.steps, order) = {}
        /\ rollback_transaction(id, t, done,
              [s \in ToSet(order) |->
                  CASE s = order[k] -> Entry("commit_failed", FALSE)
                    [] s # order[k] /\ s \in ToSet(done) -> Entry("commit", TRUE)
                    [] OTHER -> Entry("prepare", TRUE)],
              stuck)
        /\ StepsEnd(id, ToSet(order), done, to_roll_back(t.steps, done) \ stuck, {})

\* All steps are prepared and committed.  The status is not looked at: a transaction
\* may be executed again until its deadline.
commits(id, order) ==
    LET t == transactions[id]
    IN  /\ ~is_transaction_timed_out(t)
        /\ out_of_order(t.steps, order) = {}
        /\ transactions' = [transactions EXCEPT ![id] =
              [t EXCEPT !.status = "Committed", !.prepared_steps = order,
                        !.executed_steps = order]]
        /\ create_journal_entry(id, [s \in ToSet(order) \cup {0} |->
              Entry(IF s = 0 THEN "transaction_completed" ELSE "commit", TRUE)])
        /\ StepsEnd(id, ToSet(order), order, {}, {})

execute_transaction(id) ==
    /\ \/ time_out(id)
       \/ \E order \in {resolve_execution_order(transactions[id].steps)} :
             \/ \E k \in DOMAIN order : \E stuck \in SUBSET (1..(k - 1)) :
                   prepare_fails(id, order, k, stuck) \/ commit_fails(id, order, k, stuck)
             \/ commits(id, order)
    /\ UNCHANGED <<coAdmin, counter, coNow>>

\* The ledger's clock.
Tick ==
    /\ coNow < CoordinatorTime
    /\ coNow' = coNow + 1
    /\ UNCHANGED <<coAdmin, counter, transactions, journal, reserved, applied>>

Next ==
    \/ initialize
    \/ counter < MaxTransactions /\ \E steps \in StepLists : create_transaction(steps)
    \/ \E id \in DOMAIN transactions : execute_transaction(id)
    \/ Tick

Spec == Init /\ [][Next]_coordinatorVars

-----------------------------------------------------------------------------
\* Every variable has its type.
TypeOK ==
    /\ counter \in Nat /\ 1..counter \subseteq DOMAIN transactions
    /\ \A id \in DOMAIN transactions : transactions[id] \in AtomicTransaction
    /\ \A k \in DOMAIN journal : journal[k] \in TransactionJournalEntry
    /\ reserved \subseteq DOMAIN applied
    /\ \A k \in DOMAIN applied : applied[k] \in Nat

Numbered(steps, s) == {i \in DOMAIN steps : steps[i].step_id = s}

\* The order of execution has every step of the list once, and where no two steps share
\* a number each comes after the one it depends on.
OrderFollowsDependencies ==
    \A id \in DOMAIN transactions :
        LET steps == transactions[id].steps
            order == resolve_execution_order(steps)
        IN  /\ \A s \in IdsOf(steps) :
                  Cardinality({k \in DOMAIN order : order[k] = s}) = Cardinality(Numbered(steps, s))
            /\ Cardinality(IdsOf(steps)) = Len(steps) => out_of_order(steps, order) = {}

\* An execution that commits leaves the effect of every listed step once more.  One
\* that is rolled back leaves nothing of a step that names a rollback function,
\* whichever step failed in whichever phase and however often its number is listed; a
\* committed step that names none is skipped by the rollback and stays.  Only a
\* rollback that fails itself is outside, and is told by the status.  No other call,
\* and no time-out, changes an effect.
AllOrNothing ==
    [][\A id \in DOMAIN transactions :
         LET steps == transactions[id].steps
             status == transactions'[id].status
             added(s) == applied'[<<id, s>>] - applied[<<id, s>>]
             kept == {s \in IdsOf(steps) : added(s) # 0}
         IN  /\ status = "Committed" /\ (kept # {} \/ transactions'[id] # transactions[id])
                   => \A s \in IdsOf(steps) : added(s) = Cardinality(Numbered(steps, s))
             /\ status = "RolledBack" => \A s \in kept : ~StepOf(steps, s).reversible
             /\ kept # {} => status \in {"Committed", "RolledBack", "Failed"}]_coordinatorVars
=============================================================================
