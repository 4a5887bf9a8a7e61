------------------------------ MODULE MCServices ------------------------------
(***************************************************************************)
(* The service contracts: execution-hub, compliance-integration,           *)
(* fee-distribution and membership-subscription.  They share no storage    *)
(* and no balance and never call each other, so each behaviour explores    *)
(* one part (focus) while the others stay in their initial states; the     *)
(* hub's agents and workflows meet only in initialize.                     *)
(***************************************************************************)
EXTENDS Compliance, FeeDistribution, TLC

CONSTANTS
    User, Agent, Rule, Nonce, Offset, Given, MAX_STEPS,
    MAX_HISTORY_SIZE, MAX_HISTORY_PER_INITIATOR,
    RATE_LIMIT_OPS, RATE_LIMIT_WINDOW, Nobody, MaxWorkflow, HubTime,
    Tier, Price, Period, Trial, RewardBps, MAX_REFERRAL_REWARD_BPS, MaxSubscriptions,
    MaxRevenue, MembershipTime,
    MaxChanges, MaxMoves    \* bounds on the calls made, by focus

VARIABLES
    hubAdmin, rules, execCounter, workflowCounter, nonces, rateLimits, actions, workflows,
    summaries, calls, declared, restarted,
    membershipReady, tiers, subscriptions, analytics, referralRewards, membershipTokens,
    refunded, unsteady,
    focus, changes, moves

hubVars ==
    <<hubAdmin, rules, execCounter, workflowCounter, nonces, rateLimits, actions, workflows,
      summaries, calls, declared, restarted>>

memberVars ==
    <<membershipReady, tiers, subscriptions, analytics, referralRewards, membershipTokens,
      refunded, unsteady>>

Hub == INSTANCE ExecutionHub WITH Address <- User, MaxTime <- HubTime
Members == INSTANCE MembershipSubscription WITH Member <- User, MaxTime <- MembershipTime

ASSUME ServicesAssumption == FeeConstants

mcVars == <<vars, hubVars, feeStore, memberVars, focus, changes, moves>>

MCInit ==
    /\ Init /\ FeesInit /\ Hub!Init /\ Members!Init
    /\ focus \in {"agents", "workflows", "kyc", "fees", "members"}
    /\ changes = 0 /\ moves = 0

Change == changes < MaxChanges[focus] /\ changes' = changes + 1 /\ UNCHANGED moves
Move == moves < MaxMoves[focus] /\ moves' = moves + 1 /\ UNCHANGED changes

\* Behaviours in which every bound is used up may stop.
Idle == UNCHANGED mcVars

MCNext ==
    \/ /\ focus \in {"agents", "workflows"}
       /\ UNCHANGED <<complianceStore, feeStore, memberVars, focus>>
       /\ \/ Hub!Administration /\ Change
          \/ (IF focus = "agents" THEN Hub!Act ELSE Hub!Flow) /\ Move
          \/ Hub!Tick /\ UNCHANGED <<changes, moves>>
    \/ /\ focus = "kyc" /\ UNCHANGED <<hubVars, feeStore, memberVars, focus>>
       /\ (Step /\ Move) \/ (Tick /\ UNCHANGED <<changes, moves>>)
    \/ /\ focus = "fees" /\ UNCHANGED <<vars, hubVars, memberVars, focus, changes, moves>>
       /\ FeesNext
    \/ /\ focus = "members" /\ UNCHANGED <<complianceStore, hubVars, feeStore, focus>>
       /\ \/ Members!Administration /\ Change
          \/ Members!Flow /\ Move
          \/ Members!Tick /\ UNCHANGED <<changes, moves>>
    \/ Idle

MCSpec == MCInit /\ [][MCNext]_mcVars

Symmetry == Permutations(Agent) \cup Permutations(User) \cup Permutations(Operators)

\* New steps, a step named as done between them, and a list too long.
StepLists ==
    {<<"Pending">>, <<"Pending", "Pending", "Pending">>, <<"Pending", "Completed", "Pending">>,
     <<"Pending", "Pending", "Pending", "Pending">>}

ChangesOf == [agents |-> 2, workflows |-> 2, members |-> 3]
MovesOf == [agents |-> 5, workflows |-> 4, kyc |-> 7, members |-> 4]

-----------------------------------------------------------------------------
\* execution-hub: the state is well typed, nonces, ids and the rate limit follow the
\* recorded actions, and a workflow makes exactly the calls its outcome stands for.
HubLog == Hub!TypeOK /\ Hub!ActionLog /\ Hub!WorkflowCalls

\* membership-subscription: the state is well typed, the analytics follow the
\* subscriptions and tokens, and there is no paid period without payment and no
\* refund beyond it.
SubscriptionAccounts == Members!TypeOK /\ Members!SubscriptionAccounts /\ Members!PaidBeforeOwed
=============================================================================
