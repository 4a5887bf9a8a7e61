------------------------------ MODULE Compliance ------------------------------
(***************************************************************************)
(* contracts/compliance-integration with the role lists of lib/src/rbac:   *)
(* KYC records move through review in an operator's name, a closed record  *)
(* is reset in governance's name after a time-lock, and verified accounts  *)
(* issue reports.  No KYC entry point calls require_auth: the operator,    *)
(* the governor and the admin are arguments, looked up in the role lists,  *)
(* and any account, the subject included, may make the call.               *)
(***************************************************************************)
EXTENDS Storage

CONSTANTS
    Address,
    Operators, Governors,             \* the roles given out at set-up
    KYC_PENDING_EXPIRY_SECS,          \* 7 days
    KYC_OVERRIDE_TIMELOCK_SECS,       \* 2 days
    MaxReports, MaxTime               \* bounds

ASSUME KycAssumption ==
    /\ Operators \subseteq Address /\ Governors \subseteq Address
    /\ Operators \cap Governors = {}
    /\ KYC_PENDING_EXPIRY_SECS \in Nat /\ KYC_OVERRIDE_TIMELOCK_SECS \in Nat
    /\ MaxReports \in Nat /\ MaxTime \in Nat

VARIABLES
    governance, operators,   \* governance_role and kyc_operator_role
    records,                 \* KYC_REC: by subject
    overrides,               \* KYC_OVR: by subject
    reports, nextReportId,   \* REPORTS, N_REP_ID
    reopened,                \* history: subjects whose closed record kyc_init replaced
    now

roles == <<governance, operators>>
complianceStore == <<roles, records, overrides, reports, nextReportId, reopened>>
vars == <<complianceStore, now>>

\* No entry point stores the admin or a governance account: a deployment
\* writes them into the storage, as the tests' setup does.
Init ==
    /\ governance = Governors /\ operators = Operators
    /\ records = EmptyMap /\ overrides = EmptyMap
    /\ reports = EmptyMap /\ nextReportId = 1
    /\ reopened = {} /\ now = 0

is_terminal_kyc_status(status) == status \in {"Verified", "Rejected"}

require_kyc_operator_role(a) == a \in operators /\ a \notin governance
require_governance_role(a) == a \in governance /\ a \notin operators

\* An operator is removed from governance.
assign_kyc_operator_role(a) == operators' = operators \cup {a} /\ governance' = governance \ {a}
remove_kyc_operator_role(a) == operators' = operators \ {a} /\ UNCHANGED governance

\* The admin named in the call is the stored one, whoever calls.
kyc_set_operator(a, flag) ==
    /\ IF flag THEN assign_kyc_operator_role(a) ELSE remove_kyc_operator_role(a)
    /\ UNCHANGED <<records, overrides, reports, nextReportId, reopened, now>>

\* The check for an existing record looks under the DID, where none is ever
\* stored, so any record is replaced.
kyc_init(operator, subject) ==
    /\ require_kyc_operator_role(operator)
    /\ operator # subject
    /\ records' = Put(records, subject,
            [status |-> "Pending", updated_by |-> operator, updated_at |-> now,
             finalized |-> FALSE, expires |-> TRUE, expires_at |-> now + KYC_PENDING_EXPIRY_SECS])
    /\ reopened' = IF subject \in DOMAIN records /\ is_terminal_kyc_status(records[subject].status)
                   THEN reopened \cup {subject} ELSE reopened
    /\ UNCHANGED <<roles, overrides, reports, nextReportId, now>>

is_valid_kyc_transition(old, new) ==
    <<old, new>> \in {<<"Pending", "InReview">>, <<"InReview", "Verified">>,
                      <<"InReview", "Rejected">>}

\* finalized_at is updated_at when it is set.
kyc_transition(operator, subject, status) ==
    LET record == records[subject] IN
    /\ require_kyc_operator_role(operator)
    /\ operator # subject
    /\ record.status = "Pending" /\ record.expires => now < record.expires_at
    /\ ~is_terminal_kyc_status(record.status)
    /\ is_valid_kyc_transition(record.status, status)
    /\ records' = [records EXCEPT ![subject] =
            [record EXCEPT !.status = status, !.updated_by = operator, !.updated_at = now,
                           !.expires = FALSE, !.expires_at = 0,
                           !.finalized = is_terminal_kyc_status(status)]]
    /\ UNCHANGED <<roles, overrides, reports, nextReportId, reopened, now>>

kyc_schedule_override(governor, subject) ==
    /\ require_governance_role(governor)
    /\ is_terminal_kyc_status(records[subject].status)
    /\ subject \notin DOMAIN overrides
    /\ overrides' = Put(overrides, subject, [execute_after |-> now + KYC_OVERRIDE_TIMELOCK_SECS,
                                             created_at |-> now])
    /\ UNCHANGED <<roles, records, reports, nextReportId, reopened, now>>

\* The request stays behind after it was executed.
used_Mut(subject) == overrides
used(subject) == Drop(overrides, subject)

kyc_execute_override(governor, subject) ==
    /\ require_governance_role(governor)
    /\ now >= overrides[subject].execute_after
    /\ is_terminal_kyc_status(records[subject].status)
    /\ records' = Put(records, subject,
            [status |-> "Pending", updated_by |-> governor, updated_at |-> now,
             finalized |-> FALSE, expires |-> TRUE, expires_at |-> now + KYC_PENDING_EXPIRY_SECS])
    /\ overrides' = used(subject)
    /\ UNCHANGED <<roles, reports, nextReportId, reopened, now>>

require_verified_kyc(a) == a \in DOMAIN records /\ records[a].status = "Verified"

generate_compliance_report(issuer) ==
    /\ require_verified_kyc(issuer)
    /\ nextReportId <= MaxReports
    /\ reports' = Put(reports, nextReportId, issuer)
    /\ nextReportId' = nextReportId + 1
    /\ UNCHANGED <<roles, records, overrides, reopened, now>>

\* Takes a number but stores nothing under it.
create_risk_assessment(assessor) ==
    /\ require_verified_kyc(assessor)
    /\ nextReportId <= MaxReports
    /\ nextReportId' = nextReportId + 1
    /\ UNCHANGED <<roles, records, overrides, reports, reopened, now>>

Tick ==
    /\ now < MaxTime
    /\ now' = now + 1
    /\ UNCHANGED complianceStore

-----------------------------------------------------------------------------
Step ==
    \/ \E a \in Address, flag \in BOOLEAN : kyc_set_operator(a, flag)
    \/ \E o, s \in Address : kyc_init(o, s)
    \/ \E o \in Address, s \in DOMAIN records :
          \/ \E status \in {"Pending", "InReview", "Verified", "Rejected"} :
                kyc_transition(o, s, status)
          \/ kyc_schedule_override(o, s)
    \/ \E o \in Address, s \in DOMAIN overrides : kyc_execute_override(o, s)
    \/ \E a \in Address : generate_compliance_report(a) \/ create_risk_assessment(a)

Next == Step \/ Tick

Spec == Init /\ [][Next]_vars

-----------------------------------------------------------------------------
KycRecord ==
    [status : {"Pending", "InReview", "Verified", "Rejected"}, updated_by : Address,
     updated_at : Nat, finalized : BOOLEAN, expires : BOOLEAN, expires_at : Nat]

\* Every variable has its type.
TypeOK ==
    /\ governance \subseteq Address /\ operators \subseteq Address
    /\ DOMAIN records \subseteq Address /\ records \in [DOMAIN records -> KycRecord]
    /\ DOMAIN overrides \subseteq DOMAIN records
    /\ overrides \in [DOMAIN overrides -> [execute_after : Nat, created_at : Nat]]
    /\ nextReportId \in Nat \ {0} /\ DOMAIN reports \subseteq 1..(nextReportId - 1)
    /\ now \in Nat

\* Through role changes, expiry, overrides and new reviews a record carries
\* what its status says (finalized exactly when it is closed, expiring exactly
\* while it is pending); and a scheduled override finds the closed record it
\* was scheduled for, and no later decision, unless kyc_init was called for the
\* subject again in between.  It says nothing of who made the calls: updated_by
\* is the operator named in the call.
KycLifecycle ==
    /\ governance \cap operators = {}
    /\ \A s \in DOMAIN records :
          LET r == records[s] IN
          /\ r.finalized = is_terminal_kyc_status(r.status)
          /\ r.expires = (r.status = "Pending")
    /\ \A s \in DOMAIN overrides \ reopened :
          records[s].finalized /\ records[s].updated_at <= overrides[s].created_at

\* "`Verified` and `Rejected` are immutable through the normal operator flow":
\* a closed record changes only by a scheduled override that is due.
ClosedUntilOverridden ==
    [][\A s \in DOMAIN records :
          is_terminal_kyc_status(records[s].status) /\ records'[s] # records[s]
          => s \in DOMAIN overrides /\ now >= overrides[s].execute_after]_vars
=============================================================================
