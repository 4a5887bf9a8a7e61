----------------------------- MODULE ExecutionHub -----------------------------
(***************************************************************************)
(* contracts/execution-hub: numbered agent actions behind a nonce and a    *)
(* rate limit, and workflows of calls to other contracts that are stepped, *)
(* timed out, or cancelled and rolled back.  A call that fails aborts the  *)
(* whole transaction and the host lets no callee call back into the hub,   *)
(* so every entry point is one step; the branches for a failed step call   *)
(* are unreachable, since try_invoke_step returns true or not at all.      *)
(***************************************************************************)
EXTENDS Storage, SequencesExt

CONSTANTS
    Address, Agent, Rule,
    Nonce,                     \* nonces an executor may name
    Offset,                    \* deadline offsets an initiator may name
    Given,                     \* step lists an initiator may name, each a sequence of statuses
    MAX_STEPS,                 \* 10
    MAX_HISTORY_SIZE,          \* 1000
    MAX_HISTORY_PER_INITIATOR, \* 200
    RATE_LIMIT_OPS, RATE_LIMIT_WINDOW,  \* 100, 60
    Nobody,                    \* no admin is stored
    MaxWorkflow, MaxTime       \* bounds

VARIABLES
    hubAdmin,           \* ADMIN_KEY, or Nobody
    rules,              \* pairs <<agent, name>> for which a rule is stored
    execCounter, workflowCounter,
    nonces, rateLimits, actions,   \* by agent: nonce, ratelim, hist
    workflows,          \* wf: by id
    summaries,          \* wf_hist: by initiator, of [id, status]
    calls,              \* history: the calls each workflow made to other contracts
    declared,           \* history: the steps each workflow's initiator named as Completed
    restarted,          \* history: the actions numbered before initialize
    now                 \* ledger timestamp

agentVars == <<execCounter, nonces, rateLimits, actions>>
flowVars == <<workflowCounter, workflows, summaries, calls, declared>>
hubStore == <<hubAdmin, rules, agentVars, flowVars, restarted>>
vars == <<hubStore, now>>

-----------------------------------------------------------------------------
Init ==
    /\ hubAdmin = Nobody /\ rules = {}
    /\ execCounter = 0 /\ workflowCounter = 0
    /\ nonces = EmptyMap /\ rateLimits = EmptyMap
    /\ actions = [a \in Agent |-> <<>>]
    /\ workflows = EmptyMap /\ calls = EmptyMap /\ declared = EmptyMap
    /\ summaries = [a \in Address |-> <<>>]
    /\ restarted = 0 /\ now = 0

\* Both counters start over, whatever has been numbered before.
initialize(admin) ==
    /\ hubAdmin = Nobody
    /\ hubAdmin' = admin
    /\ execCounter' = 0 /\ workflowCounter' = 0
    /\ restarted' = execCounter
    /\ UNCHANGED <<rules, nonces, rateLimits, actions, workflows, summaries, calls, declared, now>>

transfer_admin(current, new) ==
    /\ hubAdmin = current
    /\ hubAdmin' = new
    /\ UNCHANGED <<rules, agentVars, flowVars, restarted, now>>

register_rule(agent, name) ==
    /\ rules' = rules \cup {<<agent, name>>}
    /\ UNCHANGED <<hubAdmin, agentVars, flowVars, restarted, now>>

revoke_rule(agent, name) ==
    /\ rules' = rules \ {<<agent, name>>}
    /\ UNCHANGED <<hubAdmin, agentVars, flowVars, restarted, now>>

-----------------------------------------------------------------------------
\* A window opens with the first action after the last one is over.
check_rate_limit(agent) ==
    LET limit == GetOr(rateLimits, agent, [last_reset |-> now, count |-> 0]) IN
    IF now - limit.last_reset > RATE_LIMIT_WINDOW
    THEN rateLimits' = Put(rateLimits, agent, [last_reset |-> now, count |-> 1])
    ELSE /\ limit.count < RATE_LIMIT_OPS
         /\ rateLimits' = Put(rateLimits, agent, [limit EXCEPT !.count = @ + 1])

fresh_nonce(agent, nonce) == nonce > GetOr(nonces, agent, 0)

execute_action(agent, nonce) ==
    /\ fresh_nonce(agent, nonce)
    /\ check_rate_limit(agent)
    /\ Len(actions[agent]) < MAX_HISTORY_SIZE
    /\ execCounter' = execCounter + 1
    /\ nonces' = Put(nonces, agent, nonce)
    /\ actions' = [actions EXCEPT ![agent] =
                      Append(@, [id |-> execCounter + 1, nonce |-> nonce, time |-> now])]
    /\ UNCHANGED <<hubAdmin, rules, flowVars, restarted, now>>

-----------------------------------------------------------------------------
append_history_summary(initiator, id) ==
    LET kept == IF Len(summaries[initiator]) >= MAX_HISTORY_PER_INITIATOR
                THEN Tail(summaries[initiator]) ELSE summaries[initiator]
    IN  summaries' = [summaries EXCEPT ![initiator] =
                         Append(kept, [id |-> id, status |-> "Pending"])]

\* The first summary of the workflow, if it is still kept.
update_history_summary(id, status) ==
    LET list == summaries[workflows[id].initiator]
        first == SelectInSeq(list, LAMBDA s : s.id = id)
    IN  summaries' = IF first = 0 THEN summaries
                     ELSE [summaries EXCEPT ![workflows[id].initiator][first].status = status]

\* The initiator's steps are stored with the statuses they come with; they are
\* numbered from 1 here.
create_workflow(initiator, steps, offset, callback) ==
    LET id == workflowCounter + 1 IN
    /\ Len(steps) \in 1..MAX_STEPS
    /\ workflowCounter < MaxWorkflow
    /\ workflowCounter' = id
    /\ workflows' = Put(workflows, id,
            [initiator |-> initiator, steps |-> steps,
             status |-> "Pending", current |-> 0, completed |-> 0, rolled_back |-> 0,
             deadline |-> now + offset, callback |-> callback, fired |-> FALSE])
    /\ append_history_summary(initiator, id)
    /\ calls' = Put(calls, id, <<>>)
    /\ declared' = Put(declared, id, {i \in DOMAIN steps : steps[i] = "Completed"})
    /\ UNCHANGED <<hubAdmin, rules, agentVars, restarted, now>>

\* The calls of a transaction, and wf_done if a callback is registered and has
\* not been fired.
maybe_fire_callback(wf) ==
    IF wf.callback /\ ~wf.fired THEN <<(<<"wf_done", wf.status>>)>> ELSE <<>>

Finish(id, wf, made) ==
    /\ workflows' = [workflows EXCEPT ![id] = [wf EXCEPT !.fired = wf.callback]]
    /\ calls' = [calls EXCEPT ![id] = @ \o made \o maybe_fire_callback(wf)]

is_executable(wf) == wf.status \in {"Pending", "Running"}

\* On time-out the workflow fails; its summary is left as it was.
TimeOut(id) ==
    /\ now > workflows[id].deadline
    /\ Finish(id, [workflows[id] EXCEPT !.status = "Failed"], <<>>)
    /\ UNCHANGED summaries

RunStep(id) ==
    LET wf == workflows[id]
        step == wf.current + 1
        last == step = Len(wf.steps)
        after == [wf EXCEPT !.steps[step] = "Completed", !.completed = @ + 1, !.current = step,
                            !.status = IF last THEN "Completed" ELSE "Running"]
        call == <<(<<"exec_step", step>>)>>
    IN  /\ now <= wf.deadline
        /\ IF last
           THEN /\ update_history_summary(id, "Completed")
                /\ Finish(id, after, call)
           ELSE /\ workflows' = [workflows EXCEPT ![id] = after]
                /\ calls' = [calls EXCEPT ![id] = @ \o call]
                /\ UNCHANGED summaries

execute_workflow_step(id) ==
    /\ is_executable(workflows[id])
    /\ TimeOut(id) \/ RunStep(id)
    /\ UNCHANGED <<hubAdmin, rules, agentVars, workflowCounter, declared, restarted, now>>

\* Steps are rolled back in the order in which they were completed.
rollback_order_Mut(wf) == SelectSeq([i \in 1..Len(wf.steps) |-> i],
                                    LAMBDA i : wf.steps[i] = "Completed")
rollback_order(wf) == Reverse(SelectSeq([i \in 1..Len(wf.steps) |-> i],
                                        LAMBDA i : wf.steps[i] = "Completed"))

\* rollback_completed_steps, after which the status is set to Cancelled.
cancel_workflow(id, caller) ==
    LET wf == workflows[id]
        order == rollback_order(wf)
        after == [wf EXCEPT !.status = "Cancelled", !.rolled_back = @ + Len(order),
                    !.steps = [i \in DOMAIN wf.steps |->
                                 IF wf.steps[i] = "Completed" THEN "RolledBack" ELSE wf.steps[i]]]
    IN  /\ hubAdmin # Nobody
        /\ caller \in {wf.initiator, hubAdmin}
        /\ wf.status \notin {"Completed", "RolledBack", "Failed", "Cancelled"}
        /\ update_history_summary(id, "Cancelled")
        /\ Finish(id, after, [i \in DOMAIN order |-> <<"rollback", order[i]>>])
        /\ UNCHANGED <<hubAdmin, rules, agentVars, workflowCounter, declared, restarted, now>>

Tick ==
    /\ now < MaxTime
    /\ now' = now + 1
    /\ UNCHANGED hubStore

-----------------------------------------------------------------------------
Administration ==
    \/ \E a \in Address : initialize(a)
    \/ \E a, b \in Address : transfer_admin(a, b)
    \/ \E g \in Agent, r \in Rule : register_rule(g, r) \/ revoke_rule(g, r)

Act == \E g \in Agent, n \in Nonce : execute_action(g, n)

Flow ==
    \/ \E a \in Address, steps \in Given, o \in Offset, c \in BOOLEAN :
          create_workflow(a, steps, o, c)
    \/ \E id \in DOMAIN workflows :
          \/ execute_workflow_step(id)
          \/ \E a \in Address : cancel_workflow(id, a)

Next == Administration \/ Act \/ Flow \/ Tick

Spec == Init /\ [][Next]_vars

-----------------------------------------------------------------------------
StepStatus == {"Pending", "Executing", "Completed", "Failed", "RolledBack", "Skipped"}

Workflow ==
    [initiator : Address, steps : Seq(StepStatus),
     status : {"Pending", "Running", "Completed", "Failed", "Cancelled"},
     current : Nat, completed : Nat, rolled_back : Nat, deadline : Nat,
     callback : BOOLEAN, fired : BOOLEAN]

\* Every variable has its type; a history keeps at most its maximum.
TypeOK ==
    /\ hubAdmin \in Address \cup {Nobody} /\ rules \subseteq Agent \X Rule
    /\ execCounter \in Nat /\ workflowCounter \in Nat
    /\ DOMAIN nonces \subseteq Agent /\ DOMAIN rateLimits \subseteq Agent
    /\ actions \in [Agent -> Seq([id : Nat, nonce : Nat, time : Nat])]
    /\ \A id \in DOMAIN workflows : workflows[id] \in Workflow
    /\ \A a \in Address : Len(summaries[a]) <= MAX_HISTORY_PER_INITIATOR
    /\ \A g \in Agent : Len(actions[g]) <= MAX_HISTORY_SIZE
    /\ now \in Nat

\* "Replaying the same nonce is always rejected", "`get_action_count` equals the
\* number of successful executions" and the rate limit, for every interleaving of the
\* agents' actions: an agent's nonces increase and the last one is stored, and the
\* limit counts exactly the actions of the open window, also across initialize.
\* The ids of all agents' actions are the numbers 1 to the counter, each once;
\* those of actions recorded before initialize, which numbers anew, come on top.
ActionLog ==
    /\ \A g \in Agent :
          LET log == actions[g] IN
          /\ \A i, j \in DOMAIN log : i < j => log[i].nonce < log[j].nonce
          /\ log # <<>> =>
               /\ nonces[g] = Last(log).nonce
               /\ rateLimits[g].count <= RATE_LIMIT_OPS
               /\ rateLimits[g].count =
                    Len(SelectSeq(log, LAMBDA e : e.time >= rateLimits[g].last_reset))
    /\ restarted + execCounter = SumOver(LAMBDA g : Len(actions[g]), Agent)
    /\ \A n \in 1..(restarted + execCounter) :
          SumOver(LAMBDA g : Len(SelectSeq(actions[g], LAMBDA e : e.id = n)), Agent) =
              (IF n <= restarted THEN 1 ELSE 0) + IF n <= execCounter THEN 1 ELSE 0

\* The calls a workflow makes, whatever deadline, caller or cancellation comes
\* between its steps: its steps once each and in order; when it is cancelled,
\* the rollbacks, last first, of exactly those and of the ones its initiator had
\* named as completed; and the callback ("fired once on terminal status") at the
\* end, with the final status.
WorkflowCalls ==
    \A id \in DOMAIN workflows :
        LET wf == workflows[id]
            n == wf.completed
            ended == wf.status \in {"Completed", "Failed", "Cancelled"}
            execs == [i \in 1..n |-> <<"exec_step", i>>]
            standing == Reverse(SelectSeq([i \in DOMAIN wf.steps |-> i],
                                          LAMBDA i : i <= n \/ i \in declared[id]))
            undone == IF wf.status = "Cancelled"
                      THEN [i \in DOMAIN standing |-> <<"rollback", standing[i]>>] ELSE <<>>
            done == IF ended /\ wf.callback THEN <<(<<"wf_done", wf.status>>)>> ELSE <<>>
        IN  /\ calls[id] = execs \o undone \o done
            /\ wf.rolled_back = Len(undone)
            /\ (wf.status = "Completed") = (n = Len(wf.steps) /\ undone = <<>>)
=============================================================================
