---------------------------- MODULE ProtocolsProofs ----------------------------
(***************************************************************************)
(* Proofs about three contracts that stand alone: Compliance, for any set  *)
(* of accounts, any initial role lists that are disjoint, and any expiry   *)
(* and time-lock; AccessControl, for any sets of roles and accounts; and   *)
(* CrossChainBridge, for any finite set of tokens, any fees and any        *)
(* limits.                                                                 *)
(***************************************************************************)
EXTENDS Compliance, AccessControl, CrossChainBridge, StorageTheorems

\* initialize, grant_role, revoke_role and set_role_admin keep every role's members
\* accounts and every role's administrator a role.
THEOREM RolesTyped == RolesConstants /\ RolesSpec => []RolesTypeOK
  <1>1. RolesConstants /\ RolesInit => RolesTypeOK
    BY DEF RolesConstants, RolesInit, RolesTypeOK
  <1>2. RolesTypeOK /\ [RolesNext]_accessVars => RolesTypeOK'
    <2> SUFFICES ASSUME RolesTypeOK, [RolesNext]_accessVars PROVE RolesTypeOK'
      OBVIOUS
    <2>1. CASE UNCHANGED accessVars
      BY <2>1 DEF RolesTypeOK, accessVars
    <2>2. ASSUME NEW role \in Role, NEW sender \in Account, NEW account \in Account,
                 grant_role(role, account, sender) \/ revoke_role(role, account, sender)
          PROVE  RolesTypeOK'
      BY <2>2 DEF RolesTypeOK, grant_role, revoke_role
    <2>3. ASSUME NEW role \in Role, NEW sender \in Account, NEW admin_role \in Role,
                 set_role_admin(role, admin_role, sender)
          PROVE  RolesTypeOK'
      BY <2>3 DEF RolesTypeOK, set_role_admin
    <2>4. QED
      BY <2>1, <2>2, <2>3 DEF RolesNext
  <1>3. QED
    BY <1>1, <1>2, PTL DEF RolesSpec

\* A call that require_role_admin lets through is about a role outside any lost set:
\* the administering role has a member, so the role itself cannot be lost.
LEMMA OnlyLiveRolesChange ==
    ASSUME NEW lost \in SUBSET Role, Lost(lost), NEW role \in Role, NEW sender,
           require_role_admin(role, sender)
    PROVE  role \notin lost
  <1> SUFFICES ASSUME role \in lost PROVE FALSE
    OBVIOUS
  <1>1. roleAdmin[role] \in lost
    BY DEF Lost
  <1>2. members[roleAdmin[role]] = {}
    BY <1>1 DEF Lost
  <1>3. QED
    BY <1>2 DEF require_role_admin

\* Whatever roles are lost together stay lost in every behaviour: grant_role,
\* revoke_role and set_role_admin change one role, and it is not one of them.
THEOREM LostForever == RolesConstants /\ RolesSpec => LostRolesStayLost
  <1>1. RolesTypeOK /\ [RolesNext]_accessVars
          => [\A lost \in SUBSET Role : Lost(lost) => Lost(lost)']_accessVars
    <2> SUFFICES ASSUME RolesTypeOK, [RolesNext]_accessVars, NEW lost \in SUBSET Role, Lost(lost)
                 PROVE  Lost(lost)'
      OBVIOUS
    <2>1. CASE UNCHANGED accessVars
      BY <2>1 DEF Lost, accessVars
    <2>2. ASSUME NEW role \in Role, NEW sender \in Account, NEW account \in Account,
                 grant_role(role, account, sender) \/ revoke_role(role, account, sender)
          PROVE  Lost(lost)'
      <3>1. role \notin lost
        BY <2>2, OnlyLiveRolesChange DEF grant_role, revoke_role
      <3>2. /\ roleAdmin' = roleAdmin
            /\ \A r \in lost : members'[r] = members[r]
        BY <2>2, <3>1 DEF RolesTypeOK, grant_role, revoke_role
      <3>3. QED
        BY <3>2 DEF Lost
    <2>3. ASSUME NEW role \in Role, NEW sender \in Account, NEW admin_role \in Role,
                 set_role_admin(role, admin_role, sender)
          PROVE  Lost(lost)'
      <3>1. role \notin lost
        BY <2>3, OnlyLiveRolesChange DEF set_role_admin
      <3>2. /\ members' = members
            /\ \A r \in lost : roleAdmin'[r] = roleAdmin[r]
        BY <2>3, <3>1 DEF RolesTypeOK, set_role_admin
      <3>3. QED
        BY <3>2 DEF Lost
    <2>4. QED
      BY <2>1, <2>2, <2>3 DEF RolesNext
  <1>2. QED
    BY <1>1, RolesTyped, PTL DEF RolesSpec, LostRolesStayLost

-----------------------------------------------------------------------------
\* A record's last change lies in the past; without this a request scheduled
\* now could be older than the record it is for.
Stamped == \A s \in DOMAIN records : records[s].updated_at <= now

\* The inductive invariant of compliance.
IInv == TypeOK /\ Stamped /\ KycLifecycle

\* The record that kyc_init and kyc_execute_override store.
PendingRecord(by) ==
    [status |-> "Pending", updated_by |-> by, updated_at |-> now,
     finalized |-> FALSE, expires |-> TRUE, expires_at |-> now + KYC_PENDING_EXPIRY_SECS]

\* A pending record is well formed, and carries what a pending record should.
LEMMA PendingRecordType ==
    ASSUME now \in Nat, NEW by \in Address
    PROVE  LET r == PendingRecord(by) IN
           /\ r \in KycRecord /\ r.status = "Pending" /\ r.updated_at = now
           /\ r.finalized = is_terminal_kyc_status(r.status)
           /\ r.expires = (r.status = "Pending")
  <1>1. now + KYC_PENDING_EXPIRY_SECS \in Nat
    BY KycAssumption
  <1> DEFINE r == PendingRecord(by)
  <1>2. /\ r \in KycRecord /\ r.status = "Pending" /\ r.updated_at = now
        /\ r.finalized = FALSE /\ r.expires = TRUE
    BY <1>1 DEF PendingRecord, KycRecord
  <1> HIDE DEF r
  <1>3. r.finalized = is_terminal_kyc_status(r.status)
    <2>1. is_terminal_kyc_status(r.status) = FALSE
      BY <1>2 DEF is_terminal_kyc_status
    <2>2. QED
      BY <1>2, <2>1
  <1>4. r.expires = (r.status = "Pending")
    BY <1>2
  <1>5. QED
    BY <1>2, <1>3, <1>4 DEF r

\* A freshly set-up contract satisfies the invariant.
LEMMA InitIInv == Init => IInv
  <1> SUFFICES ASSUME Init PROVE IInv
    OBVIOUS
  <1> USE DEF Init, EmptyMap
  <1>1. DOMAIN records = {} /\ DOMAIN overrides = {} /\ DOMAIN reports = {}
    OBVIOUS
  <1>2. records \in [DOMAIN records -> KycRecord]
    BY <1>1
  <1>3. overrides \in [DOMAIN overrides -> [execute_after : Nat, created_at : Nat]]
    BY <1>1
  <1>4. TypeOK
    BY <1>1, <1>2, <1>3, KycAssumption DEF TypeOK
  <1>5. Stamped /\ KycLifecycle
    BY <1>1, KycAssumption DEF Stamped, KycLifecycle
  <1>6. QED
    BY <1>4, <1>5 DEF IInv

\* Role changes keep the two role lists apart and touch no record.
LEMMA SetOperatorIInv ==
    ASSUME IInv, NEW a \in Address, NEW flag \in BOOLEAN, kyc_set_operator(a, flag)
    PROVE  IInv'
  <1>1. /\ operators' \subseteq Address /\ governance' \subseteq Address
        /\ governance' \cap operators' = {}
    BY DEF IInv, TypeOK, KycLifecycle, kyc_set_operator, assign_kyc_operator_role,
           remove_kyc_operator_role
  <1>2. UNCHANGED <<records, overrides, reports, nextReportId, reopened, now>>
    BY DEF kyc_set_operator
  <1>3. QED
    BY <1>1, <1>2 DEF IInv, TypeOK, Stamped, KycLifecycle

\* kyc_init stores a pending record; if it replaces a closed
\* one, the subject is counted among the reopened.
LEMMA KycInitIInv ==
    ASSUME IInv, NEW o \in Address, NEW s \in Address, kyc_init(o, s)
    PROVE  IInv'
  <1> DEFINE r == PendingRecord(o)
  <1>1. /\ records' = Put(records, s, r)
        /\ UNCHANGED <<roles, overrides, reports, nextReportId, now>>
        /\ reopened \subseteq reopened'
        /\ s \in DOMAIN records /\ is_terminal_kyc_status(records[s].status) => s \in reopened'
    BY DEF kyc_init, PendingRecord
  <1>2. /\ r \in KycRecord /\ r.status = "Pending" /\ r.updated_at = now
        /\ r.finalized = is_terminal_kyc_status(r.status)
        /\ r.expires = (r.status = "Pending")
    BY PendingRecordType DEF IInv, TypeOK
  <1> HIDE DEF r
  <1>3. /\ DOMAIN records' = DOMAIN records \cup {s}
        /\ records'[s] = r
        /\ \A x \in DOMAIN records \ {s} : records'[x] = records[x]
        /\ records' \in [DOMAIN records' -> KycRecord]
    BY <1>1, <1>2 DEF Put, IInv, TypeOK
  <1>4. TypeOK'
    BY <1>1, <1>3 DEF IInv, TypeOK, roles
  <1>5. Stamped'
    BY <1>1, <1>2, <1>3 DEF IInv, TypeOK, Stamped
  <1>6. KycLifecycle'
    <2>1. s \in DOMAIN overrides => s \in reopened'
      BY <1>1 DEF IInv, TypeOK, KycLifecycle
    <2>2. QED
      BY <1>1, <1>2, <1>3, <2>1 DEF IInv, TypeOK, KycLifecycle, roles
  <1>7. QED
    BY <1>4, <1>5, <1>6 DEF IInv

\* A transition moves an open record, which no override in force is about.
LEMMA TransitionIInv ==
    ASSUME IInv, NEW o \in Address, NEW s \in DOMAIN records,
           NEW status \in {"Pending", "InReview", "Verified", "Rejected"},
           kyc_transition(o, s, status)
    PROVE  IInv'
  <1> DEFINE r == [records[s] EXCEPT !.status = status, !.updated_by = o, !.updated_at = now,
                                     !.expires = FALSE, !.expires_at = 0,
                                     !.finalized = is_terminal_kyc_status(status)]
  <1>1. /\ records' = [records EXCEPT ![s] = r]
        /\ UNCHANGED <<roles, overrides, reports, nextReportId, reopened, now>>
        /\ ~is_terminal_kyc_status(records[s].status)
        /\ status # "Pending" /\ o # s
    BY DEF kyc_transition, is_valid_kyc_transition
  <1>2. records[s] \in KycRecord
    BY DEF IInv, TypeOK
  <1>3. /\ r \in KycRecord /\ r.status = status /\ r.updated_by = o /\ r.updated_at = now
        /\ r.expires = FALSE /\ r.finalized = is_terminal_kyc_status(status)
    <2>1. is_terminal_kyc_status(status) \in BOOLEAN /\ now \in Nat
      BY DEF is_terminal_kyc_status, IInv, TypeOK
    <2>2. QED
      BY <1>2, <2>1 DEF KycRecord
  <1> HIDE DEF r
  <1>4. /\ DOMAIN records' = DOMAIN records /\ records'[s] = r
        /\ \A x \in DOMAIN records \ {s} : records'[x] = records[x]
        /\ records' \in [DOMAIN records' -> KycRecord]
    BY <1>1, <1>3 DEF IInv, TypeOK
  <1>5. TypeOK'
    BY <1>1, <1>4 DEF IInv, TypeOK, roles
  <1>6. Stamped'
    BY <1>1, <1>3, <1>4 DEF IInv, TypeOK, Stamped
  <1>7. KycLifecycle'
    <2>1. s \notin DOMAIN overrides \ reopened
      BY <1>1 DEF IInv, KycLifecycle
    <2>2. QED
      BY <1>1, <1>3, <1>4, <2>1 DEF IInv, TypeOK, KycLifecycle, roles
  <1>8. QED
    BY <1>5, <1>6, <1>7 DEF IInv

\* A request is scheduled for a closed record, which is no younger.
LEMMA ScheduleIInv ==
    ASSUME IInv, NEW o \in Address, NEW s \in DOMAIN records, kyc_schedule_override(o, s)
    PROVE  IInv'
  <1> DEFINE q == [execute_after |-> now + KYC_OVERRIDE_TIMELOCK_SECS, created_at |-> now]
  <1>1. /\ overrides' = Put(overrides, s, q)
        /\ UNCHANGED <<roles, records, reports, nextReportId, reopened, now>>
        /\ is_terminal_kyc_status(records[s].status)
    BY DEF kyc_schedule_override
  <1>2. q \in [execute_after : Nat, created_at : Nat] /\ q.created_at = now
    BY KycAssumption DEF IInv, TypeOK
  <1> HIDE DEF q
  <1>3. /\ DOMAIN overrides' = DOMAIN overrides \cup {s} /\ overrides'[s] = q
        /\ \A x \in DOMAIN overrides \ {s} : overrides'[x] = overrides[x]
        /\ overrides' \in [DOMAIN overrides' -> [execute_after : Nat, created_at : Nat]]
    BY <1>1, <1>2 DEF IInv, TypeOK, Put
  <1>4. TypeOK' /\ Stamped'
    BY <1>1, <1>3 DEF IInv, TypeOK, Stamped, roles
  <1>5. KycLifecycle'
    BY <1>1, <1>2, <1>3 DEF IInv, TypeOK, Stamped, KycLifecycle, roles
  <1>6. QED
    BY <1>4, <1>5 DEF IInv

\* An executed request is gone, and the record it was for is pending again.
LEMMA ExecuteIInv ==
    ASSUME IInv, NEW o \in Address, NEW s \in DOMAIN overrides, kyc_execute_override(o, s)
    PROVE  IInv'
  <1> DEFINE r == PendingRecord(o)
  <1>1. /\ records' = Put(records, s, r)
        /\ overrides' = Drop(overrides, s)
        /\ UNCHANGED <<roles, reports, nextReportId, reopened, now>>
    BY DEF kyc_execute_override, PendingRecord, used
  <1>2. /\ r \in KycRecord /\ r.status = "Pending" /\ r.updated_at = now
        /\ r.finalized = is_terminal_kyc_status(r.status)
        /\ r.expires = (r.status = "Pending")
        /\ s \in DOMAIN records
    BY PendingRecordType DEF IInv, TypeOK
  <1> HIDE DEF r
  <1>3. /\ DOMAIN records' = DOMAIN records /\ records'[s] = r
        /\ \A x \in DOMAIN records \ {s} : records'[x] = records[x]
        /\ records' \in [DOMAIN records' -> KycRecord]
    BY <1>1, <1>2 DEF Put, IInv, TypeOK
  <1>4. /\ DOMAIN overrides' = DOMAIN overrides \ {s}
        /\ \A x \in DOMAIN overrides \ {s} : overrides'[x] = overrides[x]
        /\ overrides' \in [DOMAIN overrides' -> [execute_after : Nat, created_at : Nat]]
    BY <1>1 DEF Drop, IInv, TypeOK
  <1>5. TypeOK'
    BY <1>1, <1>2, <1>3, <1>4 DEF IInv, TypeOK, roles
  <1>6. Stamped'
    BY <1>1, <1>2, <1>3 DEF IInv, TypeOK, Stamped
  <1>7. KycLifecycle'
    BY <1>1, <1>2, <1>3, <1>4 DEF IInv, TypeOK, KycLifecycle, roles
  <1>8. QED
    BY <1>5, <1>6, <1>7 DEF IInv

\* Reports and assessments only take numbers; time only passes.
LEMMA OtherIInv ==
    ASSUME IInv,
           \/ \E a \in Address : generate_compliance_report(a) \/ create_risk_assessment(a)
           \/ Tick
           \/ UNCHANGED vars
    PROVE  IInv'
  <1>1. UNCHANGED <<governance, operators, records, overrides, reopened>>
    BY DEF generate_compliance_report, create_risk_assessment, Tick, vars, complianceStore, roles
  <1>2. now' \in Nat /\ now <= now'
    BY DEF IInv, TypeOK, generate_compliance_report, create_risk_assessment, Tick, vars
  <1>3. nextReportId' \in Nat \ {0} /\ DOMAIN reports' \subseteq 1..(nextReportId' - 1)
    <2>1. nextReportId \in Nat \ {0} /\ DOMAIN reports \subseteq 1..(nextReportId - 1)
      BY DEF IInv, TypeOK
    <2>2. ASSUME NEW a \in Address, generate_compliance_report(a)
          PROVE  nextReportId' \in Nat \ {0} /\ DOMAIN reports' \subseteq 1..(nextReportId' - 1)
      BY <2>1, <2>2 DEF generate_compliance_report, Put
    <2>3. ASSUME NEW a \in Address, create_risk_assessment(a)
          PROVE  nextReportId' \in Nat \ {0} /\ DOMAIN reports' \subseteq 1..(nextReportId' - 1)
      BY <2>1, <2>3 DEF create_risk_assessment
    <2>4. CASE Tick \/ UNCHANGED vars
      BY <2>1, <2>4 DEF Tick, vars, complianceStore
    <2>5. QED
      BY <2>2, <2>3, <2>4
  <1>4. TypeOK'
    BY <1>1, <1>2, <1>3 DEF IInv, TypeOK
  <1>5. Stamped' /\ KycLifecycle'
    BY <1>1, <1>2 DEF IInv, TypeOK, KycRecord, Stamped, KycLifecycle
  <1>6. QED
    BY <1>4, <1>5 DEF IInv

\* Every call preserves the invariant.
LEMMA NextIInv == IInv /\ [Next]_vars => IInv'
  <1> SUFFICES ASSUME IInv, [Next]_vars PROVE IInv'
    OBVIOUS
  <1>1. ASSUME NEW a \in Address, NEW flag \in BOOLEAN, kyc_set_operator(a, flag) PROVE IInv'
    BY <1>1, SetOperatorIInv
  <1>2. ASSUME NEW o \in Address, NEW s \in Address, kyc_init(o, s) PROVE IInv'
    BY <1>2, KycInitIInv
  <1>3. ASSUME NEW o \in Address, NEW s \in DOMAIN records,
               NEW status \in {"Pending", "InReview", "Verified", "Rejected"},
               kyc_transition(o, s, status)
        PROVE  IInv'
    BY <1>3, TransitionIInv
  <1>4. ASSUME NEW o \in Address, NEW s \in DOMAIN records, kyc_schedule_override(o, s) PROVE IInv'
    BY <1>4, ScheduleIInv
  <1>5. ASSUME NEW o \in Address, NEW s \in DOMAIN overrides, kyc_execute_override(o, s)
        PROVE  IInv'
    BY <1>5, ExecuteIInv
  <1>6. QED
    BY <1>1, <1>2, <1>3, <1>4, <1>5, OtherIInv DEF Next, Step

\* KYC records and overrides agree in every reachable state: a record carries
\* what its status says, the roles are disjoint, and an override in force finds
\* the closed record it was scheduled for, and no later decision, unless the
\* subject was initialised again.  Who calls plays no part.
THEOREM KycLifecycleHolds == Spec => []KycLifecycle
  <1>1. IInv => KycLifecycle
    BY DEF IInv
  <1>2. QED
    BY InitIInv, NextIInv, <1>1, PTL DEF Spec

-----------------------------------------------------------------------------
\* The amounts of the transfers made since a time, and their sum.
Since(list, time) == {i \in DOMAIN list : list[i].timestamp >= time}
AmountsSince(list, time) == [i \in Since(list, time) |-> list[i].amount]
Volume(list, time) == SumFunction(AmountsSince(list, time))

\* A day or month of length `length` that began at `last`: its volume is `sent`, no
\* transfer was made after it was over, and none lies in the future.
PeriodInv(list, last, sent, length, time) ==
    /\ last \in Nat /\ last <= time
    /\ sent = Volume(list, last)
    /\ \A i \in DOMAIN list : list[i].timestamp <= last + length /\ list[i].timestamp <= time

\* The amounts are naturals, finitely many.
LEMMA AmountsTyped ==
    ASSUME NEW list \in Seq(BridgeTransfer), NEW time \in Nat
    PROVE  /\ NatMap(AmountsSince(list, time)) /\ IntMap(AmountsSince(list, time))
           /\ Volume(list, time) \in Nat
           /\ \A i \in DOMAIN list : /\ list[i] \in BridgeTransfer
                                     /\ list[i].timestamp \in Nat /\ list[i].amount \in Nat
  <1>1. DOMAIN list = 1..Len(list) /\ Len(list) \in Nat /\ \A i \in DOMAIN list : list[i] \in BridgeTransfer
    BY LenProperties, ElementOfSeq
  <1>2. \A i \in DOMAIN list : list[i].timestamp \in Nat /\ list[i].amount \in Nat
    BY <1>1 DEF BridgeTransfer
  <1>3. IsFiniteSet(Since(list, time))
    <2>1. IsFiniteSet(1..Len(list))
      BY <1>1, FS_Interval
    <2>2. QED
      BY <1>1, <2>1, FS_Subset DEF Since
  <1>4. NatMap(AmountsSince(list, time))
    BY <1>2, <1>3 DEF NatMap, AmountsSince, Since
  <1>5. QED
    BY <1>1, <1>2, <1>4, NatMapIsIntMap, SumNat DEF Volume

\* A period that is over begins anew, with no volume: every transfer was before.
LEMMA PeriodRenewed ==
    ASSUME NEW list \in Seq(BridgeTransfer), NEW length \in Nat, NEW time \in Nat,
           NEW last, NEW sent, PeriodInv(list, last, sent, length, time),
           NEW begun, NEW volume,
           begun = IF time - last > length THEN time ELSE last,
           volume = IF time - last > length THEN 0 ELSE sent
    PROVE  PeriodInv(list, begun, volume, length, time) /\ time <= begun + length
  <1>0. /\ last \in Nat
        /\ \A i \in DOMAIN list : /\ list[i].timestamp \in Nat
                                  /\ list[i].timestamp <= last + length
                                  /\ list[i].timestamp <= time
    BY AmountsTyped DEF PeriodInv
  <1>1. CASE time - last > length
    <2>1. Since(list, time) = {}
      BY <1>0, <1>1 DEF Since
    <2>2. Volume(list, time) = 0
      BY <2>1, SumEmpty DEF Volume, AmountsSince
    <2>3. begun = time /\ volume = 0
      BY <1>1
    <2>4. \A i \in DOMAIN list : list[i].timestamp <= begun + length /\ list[i].timestamp <= time
      BY <1>0, <2>3
    <2>5. QED
      BY <2>2, <2>3, <2>4 DEF PeriodInv
  <1>2. CASE ~(time - last > length)
    BY <1>2 DEF PeriodInv
  <1>3. QED
    BY <1>1, <1>2

\* A transfer made within the period adds its amount to the volume.
LEMMA VolumeAppend ==
    ASSUME NEW list \in Seq(BridgeTransfer), NEW r \in BridgeTransfer, NEW last \in Nat,
           r.timestamp >= last
    PROVE  Volume(Append(list, r), last) = Volume(list, last) + r.amount
  <1> DEFINE n == Len(list)
             more == Append(list, r)
             f == AmountsSince(list, last)
             g == AmountsSince(more, last)
  <1>1. /\ n \in Nat /\ DOMAIN list = 1..n /\ DOMAIN more = 1..(n + 1)
        /\ more[n + 1] = r /\ \A k \in 1..n : more[k] = list[k]
    BY AppendProperties, LenProperties
  <1>2. r.amount \in Int /\ IntMap(f) /\ \A k \in DOMAIN f : f[k] \in Int
    <2>1. IntMap(f)
      BY AmountsTyped
    <2>2. QED
      BY <2>1 DEF BridgeTransfer, IntMap
  <1> HIDE DEF n, more
  <1>3. Since(more, last) = Since(list, last) \cup {n + 1} /\ n + 1 \notin Since(list, last)
    BY <1>1 DEF Since
  <1>4. /\ DOMAIN f = Since(list, last) /\ DOMAIN g = DOMAIN f \cup {n + 1}
        /\ \A k \in DOMAIN f : g[k] = f[k]
        /\ g[n + 1] = r.amount
        /\ g = [k \in DOMAIN g |-> g[k]]
    BY <1>1, <1>3 DEF AmountsSince, Since
  <1> HIDE DEF f, g
  <1>5. AddsKey(g, f, n + 1)
    BY <1>2, <1>3, <1>4 DEF AddsKey
  <1>6. SumFunction(g) = SumFunction(f) + g[n + 1]
    BY <1>5, SumAdd
  <1>7. QED
    BY <1>4, <1>6 DEF Volume, f, g, more

\* A transfer made now, within the period, is counted.
LEMMA PeriodGrows ==
    ASSUME NEW list \in Seq(BridgeTransfer), NEW length \in Nat, NEW time \in Nat,
           NEW last, NEW sent, PeriodInv(list, last, sent, length, time), time <= last + length,
           NEW r \in BridgeTransfer, r.timestamp = time
    PROVE  PeriodInv(Append(list, r), last, sent + r.amount, length, time)
  <1>1. last \in Nat /\ last <= time /\ sent = Volume(list, last)
    BY DEF PeriodInv
  <1>2. Volume(Append(list, r), last) = sent + r.amount
    BY <1>1, VolumeAppend
  <1>3. ASSUME NEW i \in DOMAIN Append(list, r)
        PROVE  Append(list, r)[i].timestamp <= last + length /\ Append(list, r)[i].timestamp <= time
    <2>1. Append(list, r)[i] = r \/ (i \in DOMAIN list /\ Append(list, r)[i] = list[i])
      BY <1>3, AppendProperties, LenProperties
    <2>2. QED
      BY <1>1, <2>1 DEF PeriodInv
  <1>4. QED
    BY <1>1, <1>2, <1>3 DEF PeriodInv

-----------------------------------------------------------------------------
\* The registry lists the registered validators and the kind of every supported token.
RegistryInv ==
    /\ validatorList \in Seq(Validator) /\ DOMAIN validators = Range(validatorList)
    /\ validatorCount \in Nat /\ signatureConfig \in SignatureConfig
    /\ DOMAIN supported \subseteq BridgedToken
    /\ supported \in [DOMAIN supported -> TokenKind]

\* Every transfer has used up its nonce.
TransfersInv ==
    /\ transfers \in Seq(BridgeTransfer)
    /\ \A i \in DOMAIN transfers : <<transfers[i].sender, transfers[i].nonce>> \in usedNonces
    /\ \A i, j \in DOMAIN transfers :
          transfers[i].sender = transfers[j].sender /\ transfers[i].nonce = transfers[j].nonce => i = j

\* Both periods hold their volumes, and a volume that is not zero is within its limit.
RateInv ==
    /\ brNow \in Nat /\ rateState \in RateLimitState
    /\ PeriodInv(transfers, rateState.last_daily_reset, rateState.daily_used, DAY, brNow)
    /\ PeriodInv(transfers, rateState.last_monthly_reset, rateState.monthly_used, MONTH, brNow)
    /\ rateState.daily_used > 0 => rateState.daily_used <= RateLimitConfig.daily_limit
    /\ rateState.monthly_used > 0 => rateState.monthly_used <= RateLimitConfig.monthly_limit

\* What is held and burned is what was sent and the fees not yet collected.
VaultInv ==
    /\ vaulted \in [BridgedToken -> Nat] /\ burnt \in Nat /\ totalFees \in Nat
    /\ SumFunction(vaulted) + burnt = Volume(transfers, 0) + totalFees

\* The inductive invariant of the bridge.
BridgeInv == BridgeConstants /\ RegistryInv /\ TransfersInv /\ RateInv /\ VaultInv

\* The bridge's invariant implies what its run checks.
LEMMA BridgeImplied == BridgeInv => BridgeBooks
  <1> SUFFICES ASSUME BridgeInv PROVE BridgeBooks
    OBVIOUS
  <1>1. /\ transfers \in Seq(BridgeTransfer)
        /\ \A i \in DOMAIN transfers : transfers[i] \in BridgeTransfer /\ transfers[i].timestamp \in Nat
    BY AmountsTyped DEF BridgeInv, TransfersInv
  <1>2. BridgeTypeOK
    <2>1. Range(transfers) \subseteq BridgeTransfer
      BY <1>1 DEF Range
    <2>2. \A t \in BridgedToken : vaulted[t] >= 0
      BY DEF BridgeInv, VaultInv
    <2>3. QED
      BY <2>1, <2>2 DEF BridgeInv, RegistryInv, RateInv, BridgeTypeOK, Range
  <1>3. BridgeLedger
    <2>1. VolumeOf(LAMBDA r : TRUE) = Volume(transfers, 0)
      <3>1. Since(transfers, 0) = {i \in DOMAIN transfers : TRUE}
        BY <1>1 DEF Since
      <3>2. QED
        BY <3>1 DEF VolumeOf, SumOver, Volume, AmountsSince
    <2>2. VolumeOf(LAMBDA r : r.timestamp >= rateState.last_daily_reset)
            = Volume(transfers, rateState.last_daily_reset)
      BY DEF VolumeOf, SumOver, Volume, AmountsSince, Since
    <2>3. VolumeOf(LAMBDA r : r.timestamp >= rateState.last_monthly_reset)
            = Volume(transfers, rateState.last_monthly_reset)
      BY DEF VolumeOf, SumOver, Volume, AmountsSince, Since
    <2>4. SumOver(LAMBDA t : vaulted[t], BridgedToken) = SumFunction(vaulted)
      <3>1. vaulted = [t \in BridgedToken |-> vaulted[t]]
        BY DEF BridgeInv, VaultInv
      <3>2. QED
        BY <3>1 DEF SumOver
    <2>5. QED
      BY <2>1, <2>2, <2>3, <2>4
         DEF BridgeLedger, BridgeInv, TransfersInv, RateInv, VaultInv, PeriodInv
  <1>4. QED
    BY <1>2, <1>3 DEF BridgeBooks

\* The bridge as deployed.
LEMMA BridgeStarts == BridgeConstants /\ BridgeInit => BridgeInv
  <1> SUFFICES ASSUME BridgeConstants, BridgeInit PROVE BridgeInv
    OBVIOUS
  <1>1. transfers = <<>> /\ transfers \in Seq(BridgeTransfer) /\ DOMAIN transfers = {}
    BY DEF BridgeInit
  <1>2. \A time : Volume(transfers, time) = 0
    BY <1>1, SumEmpty DEF Volume, AmountsSince, Since
  <1>3. RegistryInv
    <2>1. Range(validatorList) = {} /\ DOMAIN validators = {} /\ validatorList \in Seq(Validator)
      BY DEF BridgeInit, EmptyMap, Range
    <2>2. supported \in [DOMAIN supported -> TokenKind] /\ DOMAIN supported = {}
      BY DEF BridgeInit, EmptyMap
    <2>3. validatorCount \in Nat /\ signatureConfig \in SignatureConfig
      BY DEF BridgeInit, SignatureConfig
    <2>4. QED
      BY <2>1, <2>2, <2>3 DEF RegistryInv
  <1>4. TransfersInv
    BY <1>1 DEF TransfersInv
  <1>5. RateInv
    <2>1. /\ rateState \in RateLimitState /\ brNow = 0
          /\ rateState.last_daily_reset = 0 /\ rateState.daily_used = 0
          /\ rateState.last_monthly_reset = 0 /\ rateState.monthly_used = 0
      BY DEF BridgeInit, RateLimitState
    <2>2. QED
      BY <1>1, <1>2, <2>1 DEF RateInv, PeriodInv
  <1>6. VaultInv
    <2>1. SumFunction(vaulted) = 0
      BY SumZero DEF BridgeInit, BridgeConstants
    <2>2. QED
      BY <1>2, <2>1 DEF BridgeInit, VaultInv
  <1>7. QED
    BY <1>3, <1>4, <1>5, <1>6 DEF BridgeInv

\* Calls and time that move no tokens.
LEMMA RegistryBridge ==
    ASSUME BridgeInv, RegistryInv', UNCHANGED money, brNow' \in Nat, brNow' >= brNow
    PROVE  BridgeInv'
  <1>1. TransfersInv'
    BY DEF BridgeInv, TransfersInv, money, BridgeTransfer
  <1>2. RateInv'
    <2>1. \A i \in DOMAIN transfers : transfers[i].timestamp \in Nat
      BY AmountsTyped DEF BridgeInv, TransfersInv
    <2>2. brNow \in Nat /\ transfers' = transfers /\ rateState' = rateState
      BY DEF BridgeInv, RateInv, money
    <2>3. QED
      BY <2>1, <2>2 DEF BridgeInv, RateInv, PeriodInv, RateLimitState
  <1>3. VaultInv'
    BY DEF BridgeInv, VaultInv, money
  <1>4. QED
    BY <1>1, <1>2, <1>3 DEF BridgeInv, BridgeConstants

\* The quorum is a signature configuration.
LEMMA QuorumTyped == ASSUME BridgeConstants, NEW n \in Nat PROVE quorum_of(n) \in SignatureConfig
  <1>1. (n * QUORUM_PERCENTAGE) \div 100 \in Nat
    BY ProductNat, FloorNat DEF BridgeConstants
  <1>2. QED
    BY <1>1 DEF quorum_of, SignatureConfig

\* The administrator's calls keep the list of validators that of the registered ones.
LEMMA GuardingBridge == ASSUME BridgeInv, Guarding PROVE BridgeInv'
  <1> USE DEF BridgeInv
  <1>0. brNow \in Nat
    BY DEF RateInv
  <1>1. ASSUME NEW v \in Validator, add_validator(v) PROVE BridgeInv'
    <2>1. /\ validators' = Put(validators, v, TRUE) /\ validatorList' = Append(validatorList, v)
          /\ validatorCount' = validatorCount + 1 /\ signatureConfig' = quorum_of(validatorCount + 1)
          /\ UNCHANGED <<supported, money, brNow>>
      BY <1>1 DEF add_validator
    <2>2. /\ validatorList' \in Seq(Validator) /\ Range(validatorList') = Range(validatorList) \cup {v}
          /\ DOMAIN validators' = DOMAIN validators \cup {v}
      BY <2>1, RangeAppend DEF RegistryInv, Put
    <2>3. validatorCount' \in Nat /\ signatureConfig' \in SignatureConfig
      BY <2>1, QuorumTyped DEF RegistryInv
    <2>4. RegistryInv'
      BY <2>1, <2>2, <2>3 DEF RegistryInv, SignatureConfig
    <2>5. QED
      BY <1>0, <2>1, <2>4, RegistryBridge
  <1>2. ASSUME NEW v \in Validator, remove_validator(v) PROVE BridgeInv'
    <2> DEFINE t == signatureConfig.total_validators
               n == IF t > 0 THEN t - 1 ELSE 0
    <2>1. /\ validators' = [validators EXCEPT ![v] = FALSE]
          /\ signatureConfig' = quorum_of(n)
          /\ UNCHANGED <<validatorList, validatorCount, supported, money, brNow>>
      BY <1>2 DEF remove_validator
    <2>2. n \in Nat
      BY DEF RegistryInv, SignatureConfig
    <2> HIDE DEF n
    <2>3. signatureConfig' \in SignatureConfig /\ DOMAIN validators' = DOMAIN validators
      BY <2>1, <2>2, QuorumTyped
    <2>4. RegistryInv'
      BY <2>1, <2>3 DEF RegistryInv, SignatureConfig
    <2>5. QED
      BY <1>0, <2>1, <2>4, RegistryBridge
  <1>3. ASSUME NEW t \in BridgedToken, NEW kind \in TokenKind, add_supported_token(t, kind)
        PROVE  BridgeInv'
    <2>1. /\ supported' = Put(supported, t, kind)
          /\ UNCHANGED <<validators, validatorList, validatorCount, signatureConfig, money, brNow>>
      BY <1>3 DEF add_supported_token
    <2>2. /\ DOMAIN supported' = DOMAIN supported \cup {t}
          /\ supported' \in [DOMAIN supported' -> TokenKind]
      BY <2>1 DEF RegistryInv, Put
    <2>3. RegistryInv'
      BY <2>1, <2>2 DEF RegistryInv, SignatureConfig
    <2>4. QED
      BY <1>0, <2>1, <2>3, RegistryBridge
  <1>4. CASE pause_bridge \/ unpause_bridge
    <2>1. UNCHANGED <<registry, money, brNow>>
      BY <1>4 DEF pause_bridge, unpause_bridge
    <2>2. RegistryInv'
      BY <2>1 DEF RegistryInv, registry, SignatureConfig
    <2>3. QED
      BY <1>0, <2>1, <2>2, RegistryBridge
  <1>5. QED
    BY <1>1, <1>2, <1>3, <1>4 DEF Guarding

\* The rate limits before a transfer of this moment: the periods that are over have
\* begun anew.
LEMMA RenewedPeriods ==
    ASSUME BridgeInv, NEW st, st = renewed(rateState)
    PROVE  /\ st \in RateLimitState
           /\ PeriodInv(transfers, st.last_daily_reset, st.daily_used, DAY, brNow)
           /\ brNow <= st.last_daily_reset + DAY
           /\ PeriodInv(transfers, st.last_monthly_reset, st.monthly_used, MONTH, brNow)
           /\ brNow <= st.last_monthly_reset + MONTH
  <1> DEFINE day == brNow - rateState.last_daily_reset > DAY
             month == brNow - rateState.last_monthly_reset > MONTH
  <1>1. brNow \in Nat /\ transfers \in Seq(BridgeTransfer) /\ DAY \in Nat /\ MONTH \in Nat
    BY DEF BridgeInv, RateInv, TransfersInv, BridgeConstants
  <1>2. /\ st.daily_used = IF day THEN 0 ELSE rateState.daily_used
        /\ st.last_daily_reset = IF day THEN brNow ELSE rateState.last_daily_reset
        /\ st.monthly_used = IF month THEN 0 ELSE rateState.monthly_used
        /\ st.last_monthly_reset = IF month THEN brNow ELSE rateState.last_monthly_reset
        /\ st.per_user_daily = IF day THEN [s \in Sender |-> 0] ELSE rateState.per_user_daily
    BY DEF renewed
  <1>3. st \in RateLimitState
    <2>1. /\ rateState.daily_used \in Nat /\ rateState.monthly_used \in Nat
          /\ rateState.last_daily_reset \in Nat /\ rateState.last_monthly_reset \in Nat
          /\ rateState.per_user_daily \in [Sender -> Nat]
      BY DEF BridgeInv, RateInv, RateLimitState
    <2>2. /\ st.daily_used \in Nat /\ st.monthly_used \in Nat
          /\ st.last_daily_reset \in Nat /\ st.last_monthly_reset \in Nat
          /\ st.per_user_daily \in [Sender -> Nat]
      BY <1>1, <1>2, <2>1
    <2>3. QED
      BY <2>2 DEF RateLimitState, renewed
  <1>4. /\ PeriodInv(transfers, st.last_daily_reset, st.daily_used, DAY, brNow)
        /\ brNow <= st.last_daily_reset + DAY
    BY <1>1, <1>2, PeriodRenewed DEF BridgeInv, RateInv
  <1>5. /\ PeriodInv(transfers, st.last_monthly_reset, st.monthly_used, MONTH, brNow)
        /\ brNow <= st.last_monthly_reset + MONTH
    BY <1>1, <1>2, PeriodRenewed DEF BridgeInv, RateInv
  <1>6. QED
    BY <1>3, <1>4, <1>5

\* A transfer: the volumes grow by its amount, the tokens held or burned by its
\* amount and fee.
LEMMA TransferBridge ==
    ASSUME BridgeInv, NEW chain \in ChainID, NEW t \in DOMAIN supported, NEW a \in BridgedAmount,
           NEW n \in Nonce, NEW s \in Sender, initiate_transfer(chain, t, a, n, s)
    PROVE  BridgeInv'
  <1>1. a \in Nat /\ n \in Nat /\ brNow \in Nat /\ fee_on(a) \in Nat
    <2>1. a \in Nat /\ n \in Nat /\ brNow \in Nat
      BY DEF BridgeInv, BridgeConstants, RateInv, initiate_transfer
    <2>2. (a * FeeConfig.basis_points) \div BridgeBps \in Nat /\ FeeConfig.min_fee \in Int
      BY <2>1, ProductNat, FloorNat DEF BridgeInv, BridgeConstants
    <2>3. QED
      BY <2>1, <2>2 DEF fee_on
  <1>2. PICK fee \in Nat : fee = fee_on(a)
    BY <1>1
  <1> DEFINE locked == supported[t].is_locked
             r == [destination_chain |-> chain, sender |-> s, token_address |-> t, amount |-> a,
                   fee |-> fee, nonce |-> n, timestamp |-> brNow, status |-> "Locked",
                   direction |-> IF locked THEN "LockAndMint" ELSE "BurnAndUnlock"]
  <1>3. /\ <<s, n>> \notin usedNonces /\ check_rate_limits(s, a)
        /\ vaulted' = IF locked THEN [vaulted EXCEPT ![t] = @ + (a + fee)] ELSE vaulted
        /\ burnt' = IF locked THEN burnt ELSE burnt + (a + fee)
        /\ usedNonces' = usedNonces \cup {<<s, n>>}
        /\ totalFees' = totalFees + fee
        /\ transfers' = Append(transfers, r)
        /\ UNCHANGED <<registry, brNow>>
    BY <1>2 DEF initiate_transfer
  <1>4. locked \in BOOLEAN /\ t \in BridgedToken
    BY DEF BridgeInv, RegistryInv, BridgeConstants
  <1>5. r \in BridgeTransfer
    BY <1>1, <1>4 DEF BridgeTransfer, TransactionStatus
  <1>6. /\ r.sender = s /\ r.nonce = n /\ r.amount = a /\ r.timestamp = brNow
    OBVIOUS
  <1>7. PICK q \in BridgeTransfer : q = r
    BY <1>5
  <1>8. /\ q.sender = s /\ q.nonce = n /\ q.amount = a /\ q.timestamp = brNow
        /\ transfers' = Append(transfers, q)
    BY <1>3, <1>6, <1>7
  <1> HIDE DEF r
  <1>9. transfers \in Seq(BridgeTransfer)
    BY DEF BridgeInv, TransfersInv
  <1>10. TransfersInv'
    <2>1. transfers' \in Seq(BridgeTransfer)
      BY <1>8, <1>9
    <2> DEFINE k == Len(transfers) + 1
    <2>2. /\ DOMAIN transfers' = DOMAIN transfers \cup {k} /\ transfers'[k] = q
          /\ \A i \in DOMAIN transfers : transfers'[i] = transfers[i]
      <3>1. /\ DOMAIN transfers = 1..Len(transfers) /\ Len(transfers) \in Nat
            /\ DOMAIN transfers' = 1..(Len(transfers) + 1) /\ transfers'[Len(transfers) + 1] = q
            /\ \A i \in 1..Len(transfers) : transfers'[i] = transfers[i]
        BY <1>8, <1>9, AppendProperties, LenProperties
      <3>2. QED
        BY <3>1
    <2> HIDE DEF k
    <2>3. \A i \in DOMAIN transfers : <<transfers[i].sender, transfers[i].nonce>> \in usedNonces
      BY DEF BridgeInv, TransfersInv
    <2>4. \A i \in DOMAIN transfers' : <<transfers'[i].sender, transfers'[i].nonce>> \in usedNonces'
      BY <1>3, <1>8, <2>2 DEF BridgeInv, TransfersInv
    <2>5. ASSUME NEW i \in DOMAIN transfers', NEW j \in DOMAIN transfers',
                 transfers'[i].sender = transfers'[j].sender, transfers'[i].nonce = transfers'[j].nonce
          PROVE  i = j
      BY <1>3, <1>8, <2>2, <2>3, <2>5 DEF BridgeInv, TransfersInv
    <2>6. QED
      BY <2>1, <2>4, <2>5 DEF TransfersInv, BridgeTransfer
  <1>11. RateInv'
    <2>1. PICK st : st = renewed(rateState)
      OBVIOUS
    <2>2. /\ st \in RateLimitState
          /\ PeriodInv(transfers, st.last_daily_reset, st.daily_used, DAY, brNow)
          /\ brNow <= st.last_daily_reset + DAY
          /\ PeriodInv(transfers, st.last_monthly_reset, st.monthly_used, MONTH, brNow)
          /\ brNow <= st.last_monthly_reset + MONTH
      BY <2>1, RenewedPeriods
    <2>3. /\ st.daily_used + a <= RateLimitConfig.daily_limit
          /\ st.monthly_used + a <= RateLimitConfig.monthly_limit
          /\ rateState' = [st EXCEPT !.daily_used = st.daily_used + a,
                                     !.monthly_used = st.monthly_used + a,
                                     !.per_user_daily = [st.per_user_daily EXCEPT ![s] = @ + a]]
      BY <1>3, <2>1 DEF check_rate_limits
    <2>4. /\ rateState' \in RateLimitState
          /\ rateState'.daily_used = st.daily_used + a /\ rateState'.monthly_used = st.monthly_used + a
          /\ rateState'.last_daily_reset = st.last_daily_reset
          /\ rateState'.last_monthly_reset = st.last_monthly_reset
      <3>1. st.per_user_daily \in [Sender -> Nat]
        BY <2>2 DEF RateLimitState
      <3>2. PICK u \in [Sender -> Nat] : u = st.per_user_daily
        BY <3>1
      <3>3. PICK users \in [Sender -> Nat] : users = [u EXCEPT ![s] = @ + a]
        <4>1. [u EXCEPT ![s] = @ + a] \in [Sender -> Nat]
          BY <1>1
        <4>2. QED
          BY <4>1, Zenon
      <3>4. PICK d \in Nat, m \in Nat : d = st.daily_used + a /\ m = st.monthly_used + a
        BY <1>1, <2>2 DEF RateLimitState
      <3>5. rateState' = [st EXCEPT !.daily_used = d, !.monthly_used = m, !.per_user_daily = users]
        BY <2>3, <3>2, <3>3, <3>4, Zenon
      <3>6. QED
        BY <2>2, <3>4, <3>5 DEF RateLimitState
    <2>5. DAY \in Nat /\ MONTH \in Nat
      BY DEF BridgeInv, BridgeConstants
    <2>6. /\ PeriodInv(Append(transfers, q), st.last_daily_reset, st.daily_used + q.amount, DAY, brNow)
          /\ PeriodInv(Append(transfers, q), st.last_monthly_reset, st.monthly_used + q.amount, MONTH, brNow)
      BY <1>1, <1>8, <1>9, <2>2, <2>5, PeriodGrows
    <2>7. QED
      BY <1>1, <1>3, <1>8, <2>3, <2>4, <2>6 DEF RateInv, RateLimitState
  <1>12. VaultInv'
    <2>1. /\ vaulted \in [BridgedToken -> Nat] /\ burnt \in Nat /\ totalFees \in Nat
          /\ SumFunction(vaulted) + burnt = Volume(transfers, 0) + totalFees
          /\ IsFiniteSet(BridgedToken)
      BY DEF BridgeInv, VaultInv, BridgeConstants
    <2>2. Volume(transfers', 0) = Volume(transfers, 0) + a /\ Volume(transfers, 0) \in Nat
      <3>1. q.timestamp >= 0 /\ 0 \in Nat
        BY <1>1, <1>8
      <3>2. Volume(Append(transfers, q), 0) = Volume(transfers, 0) + q.amount
        BY <1>9, <3>1, VolumeAppend
      <3>3. Volume(transfers, 0) \in Nat
        BY <1>9, <3>1, AmountsTyped
      <3>4. QED
        BY <1>8, <3>2, <3>3
    <2>3. IntMap(vaulted) /\ SumFunction(vaulted) \in Int
      BY <2>1, SumType DEF IntMap
    <2>4. CASE locked
      <3>1. vaulted' = [vaulted EXCEPT ![t] = @ + (a + fee)] /\ burnt' = burnt
        BY <1>3, <2>4
      <3>2. vaulted' \in [BridgedToken -> Nat] /\ vaulted'[t] = vaulted[t] + (a + fee)
        BY <1>1, <1>4, <2>1, <3>1
      <3>3. ChangesKey(vaulted', vaulted, t)
        BY <1>4, <2>1, <2>3, <3>1, <3>2 DEF ChangesKey
      <3>4. SumFunction(vaulted') = SumFunction(vaulted) - vaulted[t] + vaulted'[t] /\ vaulted[t] \in Int
        BY <3>3, SumChange
      <3>5. SumFunction(vaulted') = SumFunction(vaulted) + (a + fee)
        BY <1>1, <2>3, <3>2, <3>4
      <3>6. SumFunction(vaulted') + burnt' = Volume(transfers', 0) + totalFees' /\ totalFees' \in Nat
        <4>1. burnt' = burnt /\ totalFees' = totalFees + fee /\ a \in Nat
          BY <1>1, <1>3, <3>1
        <4> HIDE DEF locked
        <4>2. QED
          BY <2>1, <2>2, <2>3, <3>5, <4>1
      <3>7. QED
        BY <2>1, <3>1, <3>2, <3>6 DEF VaultInv
    <2>5. CASE ~locked
      <3>1. vaulted' = vaulted /\ burnt' = burnt + (a + fee)
        BY <1>3, <2>5
      <3>2. /\ SumFunction(vaulted') + burnt' = Volume(transfers', 0) + totalFees'
            /\ totalFees' \in Nat /\ burnt' \in Nat
        <4>1. SumFunction(vaulted') = SumFunction(vaulted) /\ burnt' = burnt + (a + fee)
          BY <3>1
        <4>2. totalFees' = totalFees + fee /\ a \in Nat
          BY <1>1, <1>3
        <4> HIDE DEF locked
        <4>3. QED
          BY <2>1, <2>2, <2>3, <4>1, <4>2
      <3>3. QED
        BY <2>1, <3>1, <3>2 DEF VaultInv
    <2>6. QED
      BY <2>4, <2>5
  <1>13. RegistryInv'
    BY <1>3 DEF BridgeInv, RegistryInv, registry, SignatureConfig
  <1>14. QED
    BY <1>10, <1>11, <1>12, <1>13 DEF BridgeInv, BridgeConstants

\* The fees leave the tokens held.
LEMMA CollectBridge == ASSUME BridgeInv, NEW t \in BridgedToken, collect_fees(t) PROVE BridgeInv'
  <1>1. /\ totalFees > 0 /\ vaulted[t] >= totalFees
        /\ vaulted' = [vaulted EXCEPT ![t] = @ - totalFees] /\ totalFees' = 0
        /\ UNCHANGED <<registry, usedNonces, transfers, rateState, burnt, brNow>>
    BY DEF collect_fees
  <1>2. /\ vaulted \in [BridgedToken -> Nat] /\ burnt \in Nat /\ totalFees \in Nat
        /\ SumFunction(vaulted) + burnt = Volume(transfers, 0) + totalFees
        /\ IsFiniteSet(BridgedToken) /\ transfers \in Seq(BridgeTransfer)
    BY DEF BridgeInv, VaultInv, BridgeConstants, TransfersInv
  <1>3. IntMap(vaulted) /\ Volume(transfers, 0) \in Nat
    BY <1>2, AmountsTyped DEF IntMap
  <1>4. vaulted' \in [BridgedToken -> Nat] /\ vaulted'[t] = vaulted[t] - totalFees
    BY <1>1, <1>2
  <1>5. ChangesKey(vaulted', vaulted, t)
    BY <1>1, <1>2, <1>3, <1>4 DEF ChangesKey
  <1>6. /\ SumFunction(vaulted') = SumFunction(vaulted) - vaulted[t] + vaulted'[t]
        /\ vaulted[t] \in Int /\ SumFunction(vaulted) \in Int
    BY <1>5, SumChange
  <1>7. VaultInv'
    BY <1>1, <1>2, <1>3, <1>4, <1>6 DEF VaultInv
  <1>8. TransfersInv' /\ RateInv' /\ RegistryInv'
    BY <1>1 DEF BridgeInv, TransfersInv, RateInv, RegistryInv, registry, BridgeTransfer,
                RateLimitState, SignatureConfig
  <1>9. QED
    BY <1>7, <1>8 DEF BridgeInv, BridgeConstants

\* A step preserves the books.
LEMMA NextBridge == BridgeInv /\ [BridgeNext]_bridgeVars => BridgeInv'
  <1> SUFFICES ASSUME BridgeInv, [BridgeNext]_bridgeVars PROVE BridgeInv'
    OBVIOUS
  <1>1. CASE Guarding
    BY <1>1, GuardingBridge
  <1>2. CASE Bridging
    BY <1>2, TransferBridge, CollectBridge DEF Bridging
  <1>3. CASE BridgeTick \/ UNCHANGED bridgeVars
    <2>1. brNow \in Nat
      BY DEF BridgeInv, RateInv
    <2>2. UNCHANGED <<registry, money>> /\ brNow' \in {brNow, brNow + 1}
      BY <1>3 DEF BridgeTick, bridgeVars
    <2>3. RegistryInv'
      BY <2>2 DEF BridgeInv, RegistryInv, registry, SignatureConfig
    <2>4. QED
      BY <2>1, <2>2, <2>3, RegistryBridge
  <1>4. QED
    BY <1>1, <1>2, <1>3 DEF BridgeNext

\* Whatever initiate_transfer, collect_fees and the administrator do, the bridge's books
\* balance: the tokens it holds or burned are those sent and the fees due, the used
\* volumes are those of the current day and month and within their limits, and no
\* nonce of a sender is used twice.
THEOREM BridgeAlwaysBalances ==
    BridgeConstants /\ BridgeSpec => []BridgeBooks
  BY BridgeStarts, NextBridge, BridgeImplied, PTL DEF BridgeSpec
=============================================================================
