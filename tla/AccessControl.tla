------------------------------ MODULE AccessControl ------------------------------
(***************************************************************************)
(* contracts/access-control: the members of each role, and the role whose  *)
(* members administer it.                                                  *)
(***************************************************************************)
EXTENDS Integers

CONSTANTS
    Role, Admin,       \* all_roles, Role::Admin
    Account, Founder   \* accounts, and the one that initialises the contract

\* Admin is a role, the founder an account.
RolesConstants == Admin \in Role /\ Founder \in Account

VARIABLES
    members,     \* Member(role, account)
    roleAdmin    \* RoleAdmin(role)

accessVars == <<members, roleAdmin>>

RolesInit ==
    /\ members = [r \in Role |-> IF r = Admin THEN {Founder} ELSE {}]
    /\ roleAdmin = [r \in Role |-> Admin]

\* Anyone may change a role.
require_role_admin_Mut(role, sender) == sender \in Account
require_role_admin(role, sender) == sender \in members[roleAdmin[role]]

grant_role(role, account, sender) ==
    /\ require_role_admin(role, sender)
    /\ members' = [members EXCEPT ![role] = @ \cup {account}]
    /\ UNCHANGED roleAdmin

\* A member may revoke a role of itself, the last member of Admin included.
revoke_role(role, account, sender) ==
    /\ require_role_admin(role, sender)
    /\ members' = [members EXCEPT ![role] = @ \ {account}]
    /\ UNCHANGED roleAdmin

set_role_admin(role, admin_role, sender) ==
    /\ require_role_admin(role, sender)
    /\ roleAdmin' = [roleAdmin EXCEPT ![role] = admin_role]
    /\ UNCHANGED members

RolesNext ==
    \E role \in Role, sender \in Account :
        \/ \E account \in Account : grant_role(role, account, sender) \/ revoke_role(role, account, sender)
        \/ \E admin_role \in Role : set_role_admin(role, admin_role, sender)

RolesSpec == RolesInit /\ [][RolesNext]_accessVars

-----------------------------------------------------------------------------
\* Every variable has its type.
RolesTypeOK == members \in [Role -> SUBSET Account] /\ roleAdmin \in [Role -> Role]

\* Nobody can be a member of a role of `lost` any more: each is administered by a
\* role of `lost`, and none has a member.
Lost(lost) == \A r \in lost : roleAdmin[r] \in lost /\ members[r] = {}

\* Roles that have lost their last member together with the roles that administer
\* them stay without members whatever the other roles do: no sequence of calls
\* brings them back, or hands them to another administrator.
LostRolesStayLost == [][\A lost \in SUBSET Role : Lost(lost) => Lost(lost)']_accessVars

=============================================================================
