------------------------------ MODULE BridgeAdmin ------------------------------
(***************************************************************************)
(* Who governs BridgeWatchContract, soroban/src/lib.rs: its administrator  *)
(* and the handover to another, the AdminRole assignments, the global      *)
(* pause and the upgrades of the contract's code.                          *)
(*                                                                         *)
(* A call is one action: it panics, and then writes nothing, when a        *)
(* conjunct of its guard is false.  initialize is taken to be called once, *)
(* at deployment: the code does not refuse a second call.                  *)
(*                                                                         *)
(* Left out: reasons, the pause history, the emergency contact, and the    *)
(* migration callback and payload, which are only published.               *)
(***************************************************************************)
EXTENDS Integers, Sequences, FiniteSets, Functions

CONSTANTS
    Address,
    FirstAdmin,         \* the administrator passed to initialize
    OtherRole,          \* the AdminRoles that are not SuperAdmin
    Appointees,         \* bound: who is granted roles
    Nominees,           \* bound: who is proposed as administrator or guardian
    Hash,               \* Wasm hashes passed to propose_upgrade
    NoHash,             \* stands for a hash that is not stored
    UnpauseTimelock,    \* 86 400 seconds in emergency_pause
    TransferTimeout,    \* 604 800 seconds in propose_admin_transfer
    UpgradeTimelock,    \* 172 800 seconds in create_upgrade_proposal
    MaxProposals,       \* bound: upgrade proposals
    MaxNow              \* bound: the ledger timestamp

AdminRole == {"SuperAdmin"} \cup OtherRole

ASSUME BridgeAdminAssumption ==
    /\ FirstAdmin \in Address
    /\ IsFiniteSet(Address)
    /\ Appointees \subseteq Address /\ Nominees \subseteq Address
    /\ NoHash \notin Hash
    /\ UnpauseTimelock \in Nat \ {0}
    /\ TransferTimeout \in Nat \ {0}
    /\ UpgradeTimelock \in Nat \ {0}
    /\ MaxProposals \in Nat /\ MaxNow \in Nat

VARIABLES
    now,                        \* ledger timestamp
    admin,                      \* keys::ADMIN
    role_key,                   \* ConfigDataKey::RoleKey: the roles of each address
    roles_list,                 \* keys::ROLES_LIST: every assignment; no call reads the order
    global_paused, paused_at, unpause_available_at,
    pause_guardian,             \* keys::PAUSE_GUARDIAN, as a set of at most one
    pending_transfer,           \* keys::PENDING_TRANSFER
    pending_upgrade,            \* keys::PENDING_UPGRADE
    upgrade_counter,            \* keys::UPGRADE_PROPOSAL_COUNTER
    contract_version, current_hash, rollback_target,
    upgrade_history             \* keys::UPGRADE_HISTORY, oldest first

roleVars == <<role_key, roles_list>>
pauseVars == <<global_paused, paused_at, unpause_available_at, pause_guardian>>
codeVars == <<contract_version, current_hash, rollback_target, upgrade_history>>
upgradeVars == <<pending_upgrade, upgrade_counter, codeVars>>
adminVars == <<now, admin, role_key, roles_list, global_paused, paused_at,
               unpause_available_at, pause_guardian, pending_transfer, pending_upgrade,
               upgrade_counter, contract_version, current_hash, rollback_target,
               upgrade_history>>

RoleAssignment == [address : Address, role : AdminRole]

\* timeout_at is 0 while nobody is proposed, and positive in every proposal.
PendingAdminTransfer == [proposed_admin : Address, timeout_at : Nat]
NoTransfer == [proposed_admin |-> FirstAdmin, timeout_at |-> 0]

\* required_approvals is 0 while there is no proposal, and positive in every one.
UpgradeProposal ==
    [proposal_id : Nat, new_wasm_hash : Hash \cup {NoHash}, proposed_at : Nat,
     execute_after : Nat, required_approvals : Nat, approvals : Seq(Address),
     emergency : BOOLEAN, is_rollback : BOOLEAN]
NoUpgrade ==
    [proposal_id |-> 0, new_wasm_hash |-> NoHash, proposed_at |-> 0, execute_after |-> 0,
     required_approvals |-> 0, approvals |-> <<>>, emergency |-> FALSE,
     is_rollback |-> FALSE]

UpgradeRecord ==
    [from_version : Nat, to_version : Nat, from_wasm_hash : Hash \cup {NoHash},
     to_wasm_hash : Hash, is_rollback : BOOLEAN]

HasUpgrade == pending_upgrade.required_approvals > 0

SuperAdmin(a) == "SuperAdmin" \in role_key[a]

\* check_permission for the SuperAdmin role.
MayGovern(caller) == caller = admin \/ SuperAdmin(caller)

\* Mutant: the proposal ends a second early.
NoHandover_Early == now + 1 >= pending_transfer.timeout_at

\* check_no_pending_transfer: an expired proposal stands in nobody's way.
NoHandover == now >= pending_transfer.timeout_at
-----------------------------------------------------------------------------
Init ==
    /\ now = 0
    /\ admin = FirstAdmin
    /\ role_key = [a \in Address |-> {}]
    /\ roles_list = {}
    /\ global_paused = FALSE
    /\ paused_at = 0 /\ unpause_available_at = 0
    /\ pause_guardian = {}
    /\ pending_transfer = NoTransfer
    /\ pending_upgrade = NoUpgrade
    /\ upgrade_counter = 0
    /\ contract_version = 1
    /\ current_hash = NoHash /\ rollback_target = NoHash
    /\ upgrade_history = <<>>

\* Mutant: the list is not looked after when a role is revoked.
RevokeRole_KeepListed(revoker, target, role) ==
    /\ ~global_paused
    /\ NoHandover
    /\ MayGovern(revoker)
    /\ role_key' = [role_key EXCEPT ![target] = @ \ {role}]
    /\ UNCHANGED <<roles_list, now, admin, pauseVars, pending_transfer, upgradeVars>>

\* A role the grantee already holds is left as it is.
GrantRole(granter, grantee, role) ==
    /\ ~global_paused
    /\ NoHandover
    /\ MayGovern(granter)
    /\ role \notin role_key[grantee]
    /\ role_key' = [role_key EXCEPT ![grantee] = @ \cup {role}]
    /\ roles_list' = roles_list \cup {[address |-> grantee, role |-> role]}
    /\ UNCHANGED <<now, admin, pauseVars, pending_transfer, upgradeVars>>

RevokeRole(revoker, target, role) ==
    /\ ~global_paused
    /\ NoHandover
    /\ MayGovern(revoker)
    /\ role_key' = [role_key EXCEPT ![target] = @ \ {role}]
    /\ roles_list' = roles_list \ {[address |-> target, role |-> role]}
    /\ UNCHANGED <<now, admin, pauseVars, pending_transfer, upgradeVars>>
-----------------------------------------------------------------------------
\* Mutant: the timelock runs from the first of several pauses.
EmergencyPause_FirstOnly(caller) ==
    /\ caller \in {admin} \cup pause_guardian
    /\ global_paused' = TRUE
    /\ paused_at' = now
    /\ unpause_available_at' = IF global_paused THEN unpause_available_at
                               ELSE now + UnpauseTimelock
    /\ UNCHANGED <<now, admin, roleVars, pause_guardian, pending_transfer, upgradeVars>>

\* Pausing again starts the timelock anew.
EmergencyPause(caller) ==
    /\ caller \in {admin} \cup pause_guardian
    /\ global_paused' = TRUE
    /\ paused_at' = now
    /\ unpause_available_at' = now + UnpauseTimelock
    /\ UNCHANGED <<now, admin, roleVars, pause_guardian, pending_transfer, upgradeVars>>

Unpause(caller) ==
    /\ caller = admin
    /\ now >= unpause_available_at
    /\ global_paused' = FALSE
    /\ UNCHANGED <<now, admin, roleVars, paused_at, unpause_available_at, pause_guardian,
                   pending_transfer, upgradeVars>>

SetPauseGuardian(caller, guardian) ==
    /\ caller = admin
    /\ pause_guardian' = {guardian}
    /\ UNCHANGED <<now, admin, roleVars, global_paused, paused_at, unpause_available_at,
                   pending_transfer, upgradeVars>>
-----------------------------------------------------------------------------
\* The handover and the pause do not look at each other.
ProposeAdminTransfer(caller, proposed_admin) ==
    /\ caller = admin
    /\ NoHandover
    /\ pending_transfer' = [proposed_admin |-> proposed_admin,
                            timeout_at |-> now + TransferTimeout]
    /\ UNCHANGED <<now, admin, roleVars, pauseVars, upgradeVars>>

AcceptAdminTransfer(caller) ==
    /\ now < pending_transfer.timeout_at
    /\ caller = pending_transfer.proposed_admin
    /\ admin' = caller
    /\ pending_transfer' = NoTransfer
    /\ UNCHANGED <<now, roleVars, pauseVars, upgradeVars>>

\* An expired proposal may still be cancelled.
CancelAdminTransfer(caller) ==
    /\ caller = admin
    /\ pending_transfer.timeout_at # 0
    /\ pending_transfer' = NoTransfer
    /\ UNCHANGED <<now, admin, roleVars, pauseVars, upgradeVars>>
-----------------------------------------------------------------------------
\* governance_member_count: the administrator and the SuperAdmins of the list.
Governors == {admin} \cup {a \in Address : [address |-> a, role |-> "SuperAdmin"] \in roles_list}

CeilDiv(a, b) == (a + b - 1) \div b

\* Two thirds of the members, and more than an ordinary upgrade while there are more.
EmergencyThreshold(members) ==
    LET standard == CeilDiv(members, 2)
        wanted == CeilDiv(2 * members, 3)
        stricter == IF wanted <= standard THEN standard + 1 ELSE wanted
    IN  IF stricter > members THEN members ELSE stricter

UpgradeApprovalThreshold(members, emergency) ==
    IF emergency THEN EmergencyThreshold(members) ELSE CeilDiv(members, 2)

\* create_upgrade_proposal: the proposer approves, and the number of approvals is that
\* of the members of this moment.
CreateUpgradeProposal(caller, hash, emergency, is_rollback) ==
    LET members == Cardinality(Governors)
    IN  /\ upgrade_counter < MaxProposals
        /\ emergency => members >= 2
        /\ upgrade_counter' = upgrade_counter + 1
        /\ pending_upgrade' =
              [proposal_id |-> upgrade_counter + 1, new_wasm_hash |-> hash,
               proposed_at |-> now,
               execute_after |-> now + IF emergency THEN 0 ELSE UpgradeTimelock,
               required_approvals |-> UpgradeApprovalThreshold(members, emergency),
               approvals |-> <<caller>>, emergency |-> emergency,
               is_rollback |-> is_rollback]
        /\ UNCHANGED <<now, admin, roleVars, pauseVars, pending_transfer, codeVars>>

ProposeUpgrade(caller, hash, emergency) ==
    /\ MayGovern(caller)
    /\ NoHandover
    /\ ~HasUpgrade
    /\ CreateUpgradeProposal(caller, hash, emergency, FALSE)

\* Mutant: it is not asked whether there is a version to go back to.
ProposeRollback_NoTarget(caller, emergency) ==
    /\ MayGovern(caller)
    /\ NoHandover
    /\ ~HasUpgrade
    /\ CreateUpgradeProposal(caller, rollback_target, emergency, TRUE)

ProposeRollback(caller, emergency) ==
    /\ MayGovern(caller)
    /\ NoHandover
    /\ ~HasUpgrade
    /\ rollback_target # NoHash
    /\ CreateUpgradeProposal(caller, rollback_target, emergency, TRUE)

\* Mutant: an approval is pushed without looking for it.
ApproveUpgrade_Again(caller, id) ==
    /\ MayGovern(caller)
    /\ NoHandover
    /\ HasUpgrade /\ pending_upgrade.proposal_id = id
    /\ Len(pending_upgrade.approvals) < Cardinality(Address)
    /\ pending_upgrade' = [pending_upgrade EXCEPT !.approvals = Append(@, caller)]
    /\ UNCHANGED <<now, admin, roleVars, pauseVars, pending_transfer, upgrade_counter,
                   codeVars>>

ApproveUpgrade(caller, id) ==
    /\ MayGovern(caller)
    /\ NoHandover
    /\ HasUpgrade /\ pending_upgrade.proposal_id = id
    /\ caller \notin Range(pending_upgrade.approvals)
    /\ pending_upgrade' = [pending_upgrade EXCEPT !.approvals = Append(@, caller)]
    /\ UNCHANGED <<now, admin, roleVars, pauseVars, pending_transfer, upgrade_counter,
                   codeVars>>

\* Mutant: the rollback target is taken after the new hash was stored.
ExecuteUpgrade_TargetLate(caller, id) ==
    LET proposal == pending_upgrade
    IN  /\ MayGovern(caller)
        /\ NoHandover
        /\ HasUpgrade /\ proposal.proposal_id = id
        /\ now >= proposal.execute_after
        /\ Len(proposal.approvals) >= proposal.required_approvals
        /\ current_hash' = proposal.new_wasm_hash
        /\ rollback_target' = current_hash'
        /\ contract_version' = contract_version + 1
        /\ upgrade_history' = Append(upgrade_history,
              [from_version |-> contract_version, to_version |-> contract_version + 1,
               from_wasm_hash |-> current_hash, to_wasm_hash |-> proposal.new_wasm_hash,
               is_rollback |-> proposal.is_rollback])
        /\ pending_upgrade' = NoUpgrade
        /\ UNCHANGED <<now, admin, roleVars, pauseVars, pending_transfer, upgrade_counter>>

\* The approvals are counted, not asked again: those of a SuperAdmin revoked since, or
\* of a former administrator, stand.
ExecuteUpgrade(caller, id) ==
    LET proposal == pending_upgrade
    IN  /\ MayGovern(caller)
        /\ NoHandover
        /\ HasUpgrade /\ proposal.proposal_id = id
        /\ now >= proposal.execute_after
        /\ Len(proposal.approvals) >= proposal.required_approvals
        /\ rollback_target' = IF current_hash = NoHash THEN rollback_target ELSE current_hash
        /\ current_hash' = proposal.new_wasm_hash
        /\ contract_version' = contract_version + 1
        /\ upgrade_history' = Append(upgrade_history,
              [from_version |-> contract_version, to_version |-> contract_version + 1,
               from_wasm_hash |-> current_hash, to_wasm_hash |-> proposal.new_wasm_hash,
               is_rollback |-> proposal.is_rollback])
        /\ pending_upgrade' = NoUpgrade
        /\ UNCHANGED <<now, admin, roleVars, pauseVars, pending_transfer, upgrade_counter>>

\* Not held up by a handover.
CancelUpgrade(caller, id) ==
    /\ MayGovern(caller)
    /\ HasUpgrade /\ pending_upgrade.proposal_id = id
    /\ pending_upgrade' = NoUpgrade
    /\ UNCHANGED <<now, admin, roleVars, pauseVars, pending_transfer, upgrade_counter,
                   codeVars>>
-----------------------------------------------------------------------------
Tick ==
    /\ now < MaxNow
    /\ now' = now + 1
    /\ UNCHANGED <<admin, roleVars, pauseVars, pending_transfer, upgradeVars>>

AssignRoles(caller) ==
    \E a \in Appointees, role \in AdminRole :
        GrantRole(caller, a, role) \/ RevokeRole(caller, a, role)

Pause(caller) ==
    \/ EmergencyPause(caller)
    \/ Unpause(caller)
    \/ \E guardian \in Nominees : SetPauseGuardian(caller, guardian)

Handover(caller) ==
    \/ \E nominee \in Nominees : ProposeAdminTransfer(caller, nominee)
    \/ AcceptAdminTransfer(caller)
    \/ CancelAdminTransfer(caller)

Upgrade(caller) ==
    \/ \E emergency \in BOOLEAN :
          \/ \E hash \in Hash : ProposeUpgrade(caller, hash, emergency)
          \/ ProposeRollback(caller, emergency)
    \/ \E id \in 1 .. MaxProposals :
          ApproveUpgrade(caller, id) \/ ExecuteUpgrade(caller, id) \/ CancelUpgrade(caller, id)

Administer ==
    \E caller \in Address :
        AssignRoles(caller) \/ Pause(caller) \/ Handover(caller) \/ Upgrade(caller)

Next == Administer \/ Tick

Spec == Init /\ [][Next]_adminVars
-----------------------------------------------------------------------------
\* Each variable holds values of its type.
TypeOK ==
    /\ now \in 0 .. MaxNow
    /\ admin \in Address
    /\ role_key \in [Address -> SUBSET AdminRole]
    /\ roles_list \subseteq RoleAssignment
    /\ global_paused \in BOOLEAN
    /\ paused_at \in Nat /\ unpause_available_at \in Nat
    /\ pause_guardian \subseteq Address
    /\ pending_transfer \in PendingAdminTransfer
    /\ pending_upgrade \in UpgradeProposal
    /\ upgrade_counter \in 0 .. MaxProposals
    /\ contract_version \in Nat \ {0}
    /\ current_hash \in Hash \cup {NoHash} /\ rollback_target \in Hash \cup {NoHash}
    /\ upgrade_history \in Seq(UpgradeRecord)

\* The two stores of the roles, the one permissions are read from and the list the
\* members of the governance are counted in, hold the same assignments.
RolesAgree ==
    \A a \in Address, role \in AdminRole :
        role \in role_key[a] <=> [address |-> a, role |-> role] \in roles_list

\* Row k of the history leads from version k to k + 1 and starts from the code the row
\* before installed; the version and the hash tracked are those of the last row; and a
\* rollback restored the code that ran before the upgrade it undoes, whatever was
\* proposed, approved or cancelled in between.
UpgradeTrail ==
    LET rows == upgrade_history
        n == Len(rows)
    IN  /\ contract_version = n + 1
        /\ current_hash = IF n = 0 THEN NoHash ELSE rows[n].to_wasm_hash
        /\ \A k \in 1 .. n :
              /\ rows[k].from_version = k /\ rows[k].to_version = k + 1
              /\ rows[k].from_wasm_hash = IF k = 1 THEN NoHash ELSE rows[k - 1].to_wasm_hash
              /\ rows[k].is_rollback =>
                    k > 2 /\ rows[k].to_wasm_hash = rows[k - 1].from_wasm_hash

\* No upgrade is executed before the timelock of 48 hours unless two different
\* governors approved it, an emergency included.
TwoPersonEmergency ==
    [][contract_version' # contract_version =>
          \/ now >= pending_upgrade.proposed_at + UpgradeTimelock
          \/ Cardinality(Range(pending_upgrade.approvals)) >= 2]_adminVars

\* While a handover is pending no role changes and no upgrade is proposed, approved or
\* executed, by whomever; one may be cancelled.
HandoverFreezes ==
    [][now < pending_transfer.timeout_at =>
          /\ UNCHANGED roleVars
          /\ UNCHANGED codeVars
          /\ pending_upgrade' \in {pending_upgrade, NoUpgrade}]_adminVars

\* The pause lasts 24 hours from the last emergency_pause, also across a handover, and
\* no role changes during it.
PauseHeld ==
    [][global_paused =>
          /\ UNCHANGED roleVars
          /\ ~global_paused' => now >= paused_at + UnpauseTimelock]_adminVars

\* What the comment of emergency_pause says: until unpause, every call that writes
\* panics, but for those that control the pause.
PauseHaltsWrites ==
    [][global_paused /\ global_paused' =>
          UNCHANGED <<admin, roleVars, pending_transfer, upgradeVars>>]_adminVars
-----------------------------------------------------------------------------
\* The one place for a proposal of an upgrade.
Slot == {"upgrade"}

Approved == INSTANCE ApprovedAction WITH
    Id <- Slot,
    Voter <- Address,
    clock <- now,
    open <- IF HasUpgrade THEN Slot ELSE {},
    votes <- [id \in Slot |-> Range(pending_upgrade.approvals)],
    needed <- [id \in Slot |-> pending_upgrade.required_approvals],
    ripe <- [id \in Slot |-> pending_upgrade.execute_after],
    runs <- contract_version - 1

\* The upgrades of the contract implement the promise of an approved action: each runs
\* once, by as many different governors as the members at its proposal asked for, and
\* not before its time, through handovers, revoked roles, emergencies and rollbacks.
UpgradesByApproval == Approved!Spec
=============================================================================
