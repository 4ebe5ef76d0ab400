----------------------------- MODULE AccessControl -----------------------------
(***************************************************************************)
(* Roles and permissions that expire: soroban/src/acl.rs and the acl_      *)
(* calls of BridgeWatchContract, soroban/src/lib.rs.                       *)
(*                                                                         *)
(* The administrator and the global pause belong to BridgeAdmin; here they *)
(* may change at any time.  Left out: who granted what and when.           *)
(***************************************************************************)
EXTENDS Integers, FiniteSets, SequencesExt

CONSTANTS
    Address,
    FirstAdmin,         \* the administrator passed to initialize
    Successors,         \* bound: later administrators
    NoGrant,            \* stands for a grant that is not stored
    Grantees,           \* bound: who is granted something
    Roles,              \* bound: roles that are granted
    Permissions,        \* bound: permissions that are granted directly
    Expiries,           \* bound: expiry times passed
    MaxEntries,         \* bound: entries of a call; 20 in the bulk calls
    MaxNow              \* bound: the ledger timestamp

Role == {"SuperAdmin", "Admin", "Operator", "ReadOnly"}

Viewing == {"ViewAnalytics", "ViewHealth", "ViewPrice"}
Submitting == {"SubmitHealth", "SubmitPrice"}
Permission == Viewing \cup Submitting \cup {"ManageAssets", "ManageAlerts", "ManageConfig",
                                     "ManagePermissions", "EmergencyPause", "ManageUpgrades"}

ASSUME AccessAssumption ==
    /\ FirstAdmin \in Address
    /\ Successors \subseteq Address /\ Grantees \subseteq Address
    /\ NoGrant \notin Nat
    /\ Roles \subseteq Role /\ Permissions \subseteq Permission
    /\ Expiries \subseteq Nat
    /\ MaxEntries \in Nat /\ MaxNow \in Nat

VARIABLES
    now,                \* ledger timestamp
    admin,              \* keys::ADMIN
    globally_paused,    \* keys::GLOBAL_PAUSED
    grants              \* AclKey::RoleGrants, AclKey::PermissionGrants: expires_at of each

ledgerVars == <<now, admin, globally_paused>>

role_permissions ==
    [role \in Role |->
        CASE role = "SuperAdmin" -> Permission
          [] role = "Admin" -> Viewing \cup Submitting \cup
                               {"ManageAssets", "ManageAlerts", "ManageConfig"}
          [] role = "Operator" -> Viewing \cup Submitting \cup {"ManageAlerts"}
          [] role = "ReadOnly" -> Viewing]

\* A grant that expires at 0 never does.
Valid(address, held) ==
    LET expires_at == grants[address][held]
    IN  expires_at # NoGrant /\ (expires_at = 0 \/ expires_at > now)

HasPermission(address, permission) ==
    \/ Valid(address, permission)
    \/ \E role \in Role : Valid(address, role) /\ permission \in role_permissions[role]

\* require_permission
MayAct(caller, permission) == caller = admin \/ HasPermission(caller, permission)

AclInit ==
    /\ now = 0
    /\ admin = FirstAdmin
    /\ globally_paused = FALSE
    /\ grants = [a \in Address |-> [held \in Role \cup Permission |-> NoGrant]]
-----------------------------------------------------------------------------
Entry(kind) == [grantee : Grantees, held : kind, expires_at : Expiries]

\* One store after the entries were written to it one by one: the last entry for a
\* grantee and a role or permission is what stays.
Granted(entries) ==
    FoldLeft(LAMBDA g, e : [g EXCEPT ![e.grantee][e.held] = e.expires_at], grants, entries)

Revoked(entries) ==
    FoldLeft(LAMBDA g, e : [g EXCEPT ![e.grantee][e.held] = NoGrant], grants, entries)

\* Mutant: the pause is not asked.
Grant_Paused(caller, entries) ==
    /\ MayAct(caller, "ManagePermissions")
    /\ grants' = Granted(entries)
    /\ UNCHANGED ledgerVars

\* acl_grant_role and acl_grant_permission, with one entry, and acl_bulk_grant_roles and
\* acl_bulk_grant_permissions.  An expiry that has passed is accepted.
Grant(caller, entries) ==
    /\ ~globally_paused
    /\ MayAct(caller, "ManagePermissions")
    /\ grants' = Granted(entries)
    /\ UNCHANGED ledgerVars

\* acl_revoke_role and acl_revoke_permission, and their bulk forms.
Revoke(caller, entries) ==
    /\ ~globally_paused
    /\ MayAct(caller, "ManagePermissions")
    /\ grants' = Revoked(entries)
    /\ UNCHANGED ledgerVars

\* What BridgeAdmin does to the administrator and to the pause.
ChangeAdmin(successor) ==
    /\ admin' = successor
    /\ UNCHANGED <<now, globally_paused, grants>>

SetPause(paused) ==
    /\ globally_paused' = paused
    /\ UNCHANGED <<now, admin, grants>>

Tick ==
    /\ now < MaxNow
    /\ now' = now + 1
    /\ UNCHANGED <<admin, globally_paused, grants>>

Entries(kind) == UNION {[1 .. n -> Entry(kind)] : n \in 1 .. MaxEntries}

AclNext ==
    \/ \E caller \in Address, kind \in {Roles, Permissions} :
          \E entries \in Entries(kind) : Grant(caller, entries) \/ Revoke(caller, entries)
    \/ \E successor \in Successors : ChangeAdmin(successor)
    \/ \E paused \in BOOLEAN : SetPause(paused)
    \/ Tick
-----------------------------------------------------------------------------
AclTypeOK ==
    /\ now \in 0 .. MaxNow
    /\ admin \in Address
    /\ globally_paused \in BOOLEAN
    /\ grants \in [Address -> [Role \cup Permission -> Nat \cup {NoGrant}]]
=============================================================================
